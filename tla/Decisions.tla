----------------------------- MODULE Decisions ------------------------------
(***************************************************************************)
(* What the program decides about one incoming message (decision.py,       *)
(* models.py and the event loop of runtime.py), from the message to the    *)
(* moment a reply is handed to the sending steps of AgentRuntime.          *)
(*                                                                         *)
(* Texts are sets of marks: {} is a canned acknowledgement, "own" marks any*)
(* other wording, "risk" a sensitive term, "promise" a commitment phrase.  *)
(***************************************************************************)
EXTENDS Naturals

CONSTANTS
    Answer,       \* decisions the model may give
    Delay,        \* reply delays a relationship profile may ask for
    TenseDelay,   \* delay asked for when tension is high    (900 s)
    MaxTime,      \* bound: clock, in steps since the message
    None          \* no decision, no draft

Stances == {{}, {"own"}, {"own", "risk"}, {"own", "promise"}}

Decision == [stance : Stances,
             facts : {"none", "grounded", "ungrounded", "risky"},
             commitments : BOOLEAN, risk : {"low", "other"},
             confidence : 0..100, reply : BOOLEAN, context : BOOLEAN]

\* The fields of a provider's response that are checked before its content.
Response == [choices : 0..2, tools : BOOLEAN, schema : BOOLEAN,
             decision : Answer]

\* "calm" stands for every tone but "warm", "normal" for "detailed" too.
Relationship == [address : {"none", "plain", "risky"}, emoji : BOOLEAN,
                 temperature : {"none", "warm", "calm"},
                 length : {"none", "short", "normal"}, delay : Delay]
Emotion == {"none", "tense", "warm"}

\* validate_safety: real sending needs autopilot and a non-empty allowlist.
Config == {c \in [mode : {"observe", "shadow", "approve", "autopilot"},
                  realSend : BOOLEAN, allowed : BOOLEAN] :
             c.realSend => c.mode = "autopilot"}

Limits == {"cost", "frequency"}

Statuses == {"manual_required", "draft_only", "approval_required",
             "autopilot_candidate"}
Marks == {"own", "risk", "promise"}
Draft == [status : Statuses, body : SUBSET Marks, notBefore : Nat]
Read == [relationship : Relationship, emotion : Emotion]

ASSUME DecisionAssumption ==
    /\ Answer \subseteq Decision
    /\ None \notin Decision \cup Draft \cup Read
    /\ Delay \subseteq Nat /\ TenseDelay \in Nat /\ MaxTime \in Nat

VARIABLES
    kind,      \* what the message is: "chat" asks for nothing
    config,    \* the configuration file and the allowlist
    reached,   \* limits reached now
    now,       \* time since the message
    stage,     \* where the message is
    decision,
    draft,     \* ledger: the draft of the message
    called,    \* the model was asked
    read,      \* relationship and emotion a candidate was rendered with
    refused    \* a due draft was found unfit to send

world == <<kind, config, reached, now>>
decisionVars == <<world, stage, decision, draft, called, read, refused>>

DecisionTypeOK ==
    /\ kind \in {"request", "chat", "sensitive", "injection"}
    /\ config \in Config
    /\ reached \subseteq Limits
    /\ now \in Nat
    /\ stage \in {"new", "decided", "skipped", "failed", "closed", "drafted",
                  "blocked", "handed"}
    /\ decision \in Decision \cup {None}
    /\ draft \in Draft \cup {None}
    /\ read \in Read \cup {None}
    /\ called \in BOOLEAN /\ refused \in BOOLEAN
    /\ stage = "decided" => decision # None
    /\ stage \in {"drafted", "blocked", "handed"} => decision # None /\ draft # None
    /\ read # None => draft # None

DecisionInit ==
    /\ kind \in {"request", "chat", "sensitive", "injection"}
    /\ config \in Config /\ reached \in SUBSET Limits
    /\ now = 0 /\ stage = "new"
    /\ decision = None /\ draft = None /\ read = None
    /\ called = FALSE /\ refused = FALSE

-----------------------------------------------------------------------------
(* evaluate_gate                                                           *)

Risky(d) == kind = "sensitive" \/ d.risk # "low"

NeedsHuman(d) == Risky(d) \/ d.commitments \/ ~d.context

NeedsNoReply(d) == ~d.reply \/ d.confidence < 70

Eligible(d) == d.confidence >= 92 /\ config.allowed /\ reached = {}

Gate(d) ==
    CASE NeedsHuman(d) -> "manual_required"
      [] ~NeedsHuman(d) /\ NeedsNoReply(d) -> "no_reply"
      [] OTHER ->
           CASE config.mode = "observe" -> "observe"
             [] config.mode = "approve" /\ Eligible(d) -> "approval_required"
             [] config.mode = "autopilot" /\ Eligible(d) -> "autopilot_candidate"
             [] OTHER -> "draft_only"

-----------------------------------------------------------------------------
(* Rendering: an emotion sets tone, length and delay, then the profile of  *)
(* the relationship overrides tone and length, and may only add delay.     *)

Larger(m, n) == IF m > n THEN m ELSE n

EmotionControls(e) ==
    CASE e = "tense" -> [tone |-> "calm", length |-> "short", delay |-> TenseDelay]
      [] e = "warm" -> [tone |-> "warm", length |-> "normal", delay |-> 0]
      [] OTHER -> [tone |-> "neutral", length |-> "normal", delay |-> 0]

\* Mutant: an emotion overrides the tone of the profile.
ControlsEmotionLast(r, e) ==
    LET base == EmotionControls(e) IN
    [tone |-> IF r.temperature = "none" \/ e # "none"
              THEN base.tone ELSE r.temperature,
     length |-> IF r.length = "none" THEN base.length ELSE r.length,
     delay |-> Larger(base.delay, r.delay)]

Controls(r, e) ==
    LET base == EmotionControls(e) IN
    [tone |-> IF r.temperature = "none" THEN base.tone ELSE r.temperature,
     length |-> IF r.length = "none" THEN base.length ELSE r.length,
     delay |-> Larger(base.delay, r.delay)]

FactText(d) ==
    CASE d.facts = "none" -> {}
      [] d.facts = "risky" -> {"own", "risk"}
      [] OTHER -> {"own"}

\* A warm tone adds the address the contact is used to, and an emoji. A
\* sentence ending may follow, and leaves a canned acknowledgement canned.
StyleText(r, c) ==
    IF c.tone # "warm" THEN {}
    ELSE (CASE r.address = "none" -> {}
            [] r.address = "plain" -> {"own"}
            [] OTHER -> {"own", "risk"})
         \cup (IF r.emoji THEN {"own"} ELSE {})

Body(d, r, c) ==
    d.stance \cup (IF c.length = "short" THEN {} ELSE FactText(d))
             \cup StyleText(r, c)

\* Mutant: the rendered body is not looked at again.
PostGateSkipped(d, action, body) == action

\* _post_render_gate: what the gate said, given the words really used.
PostGate(d, action, body) ==
    CASE body \cap {"risk", "promise"} # {} -> "manual_required"
      [] body \cap {"risk", "promise"} = {} /\ action = "autopilot_candidate"
           /\ (d.facts # "none" \/ body # {}) -> "draft_only"
      [] OTHER -> action

Status(d, r, e) == PostGate(d, Gate(d), Body(d, r, Controls(r, e)))

-----------------------------------------------------------------------------
(* One message in the event loop. A run holds the state lock, so nothing   *)
(* below changes while the message is decided.                             *)

\* Observe mode, and messages that ask for nothing, end without a decision.
Filter ==
    /\ stage = "new"
    /\ config.mode = "observe" \/ kind = "chat"
    /\ stage' = "skipped"
    /\ UNCHANGED <<world, decision, draft, called, read, refused>>

ManualDecision ==
    [stance |-> {"own"}, facts |-> "none", commitments |-> FALSE,
     risk |-> "other", confidence |-> 100, reply |-> TRUE, context |-> FALSE]

\* Sensitive terms and instructions to the program never reach the model.
ByRule == kind \in {"sensitive", "injection"}

DecideByRule ==
    /\ stage = "new" /\ config.mode # "observe" /\ kind # "chat" /\ ByRule
    /\ decision' = ManualDecision
    /\ stage' = "decided"
    /\ UNCHANGED <<world, draft, called, read, refused>>

\* _parse_envelope: one choice, no tool call anywhere, an exact decision.
Accepted(r) == r.choices = 1 /\ ~r.tools /\ r.schema

\* Facts must be found word for word in the context.
Grounded(d) == IF d.facts = "ungrounded" THEN [d EXCEPT !.context = FALSE] ELSE d

AskModel(r) ==
    /\ stage = "new" /\ config.mode # "observe" /\ kind # "chat" /\ ~ByRule
    /\ IF Accepted(r)
       THEN /\ decision' = Grounded(r.decision)
            /\ stage' = "decided"
       ELSE /\ stage' = "failed"
            /\ UNCHANGED decision
    /\ called' = TRUE
    /\ UNCHANGED <<world, draft, read, refused>>

Conclude ==
    /\ stage = "decided" /\ Gate(decision) \in {"no_reply", "observe"}
    /\ stage' = "closed"
    /\ UNCHANGED <<world, decision, draft, called, read, refused>>

\* The sending steps may still decline, and the draft stays as it is.
MakeDraft(r, e) ==
    LET c == Controls(r, e)
        status == Status(decision, r, e)
    IN
    /\ stage = "decided" /\ Gate(decision) \notin {"no_reply", "observe"}
    /\ draft' = [status |-> status, body |-> Body(decision, r, c),
                 notBefore |-> c.delay]
    /\ read' = IF status = "autopilot_candidate"
               THEN [relationship |-> r, emotion |-> e] ELSE None
    /\ stage' \in {"drafted"} \cup
         (IF status = "autopilot_candidate" /\ config.realSend /\ now >= c.delay
          THEN {"handed"} ELSE {})
    /\ UNCHANGED <<world, decision, called, refused>>

Due ==
    /\ stage = "drafted" /\ draft.status = "autopilot_candidate"
    /\ config.realSend
    /\ now >= draft.notBefore

\* Mutant: the decision of the drafting run stands.
StillFitAsDrafted == draft.status = "autopilot_candidate"

\* A later run asks the gate again, with what holds now.
StillFit ==
    PostGate(decision, Gate(decision), draft.body) = "autopilot_candidate"

Block ==
    /\ Due /\ ~StillFit
    /\ stage' = "blocked" /\ refused' = TRUE
    /\ UNCHANGED <<world, decision, draft, called, read>>

Hand ==
    /\ Due /\ StillFit
    /\ stage' = "handed"
    /\ UNCHANGED <<world, decision, draft, called, read, refused>>

-----------------------------------------------------------------------------
(* The world moves between runs; only a waiting candidate can notice it.   *)

Waiting ==
    \/ stage = "new"
    \/ stage = "drafted" /\ draft.status = "autopilot_candidate"

Tick ==
    /\ Waiting /\ now < MaxTime
    /\ now' = now + 1
    /\ UNCHANGED <<kind, config, reached, stage, decision, draft, called, read,
                   refused>>

Reconfigure(c) ==
    /\ Waiting /\ stage # "new"
    /\ config' = c
    /\ UNCHANGED <<kind, reached, now, stage, decision, draft, called, read,
                   refused>>

LimitsChange(s) ==
    /\ Waiting /\ stage # "new"
    /\ reached' = s
    /\ UNCHANGED <<kind, config, now, stage, decision, draft, called, read,
                   refused>>

DecisionNext ==
    \/ Filter \/ DecideByRule \/ Conclude \/ Block \/ Hand \/ Tick
    \/ stage = "new" /\ \E r \in Response : AskModel(r)
    \/ stage = "decided" /\ \E r \in Relationship, e \in Emotion : MakeDraft(r, e)
    \/ \E c \in Config : Reconfigure(c)
    \/ \E s \in SUBSET Limits : LimitsChange(s)

DecisionSpec == DecisionInit /\ [][DecisionNext]_decisionVars

-----------------------------------------------------------------------------
(* What is sent without a person (decision.py:392, runtime.py:286): only a *)
(* canned acknowledgement of a plain request, that the model was sure of,  *)
(* that states and promises nothing, and that style has not touched.       *)
HandedIsHarmless ==
    stage = "handed" =>
      /\ kind = "request" /\ called
      /\ draft.body = {}
      /\ decision.stance = {} /\ decision.facts = "none"
      /\ ~decision.commitments /\ decision.risk = "low"
      /\ decision.confidence >= 92

\* A step that hands a reply over does so under the authority of that
\* moment, however long ago the draft was made (runtime.py:843).
Hands == stage' = "handed" /\ stage # "handed"

AllowedNow == Hands =>
    /\ config.mode = "autopilot" /\ config.realSend /\ config.allowed
    /\ reached = {}

HandedIsAllowedNow == [][AllowedNow]_decisionVars

\* Nobody is answered sooner than the emotion and the relationship of the
\* drafting run both asked for (runtime.py:326, 1130).
AsLateAsAsked == Hands =>
    /\ now >= read'.relationship.delay
    /\ read'.emotion = "tense" => now >= TenseDelay

HandedIsNotEarly == [][AsLateAsAsked]_decisionVars

\* The moment a reply is handed over is one at which everything that was asked
\* for is met: the authority of that moment, and the delays of the drafting.
HandingIsDue == HandedIsAllowedNow /\ HandedIsNotEarly

\* An emotion may delay a reply and change its words, but never lets one be
\* sent that a person would have seen without it (decision.py:339).
EmotionIsNeutral ==
    (draft = None /\ draft' # None /\ draft'.status = "autopilot_candidate") =>
       Status(decision, read'.relationship, "none") = "autopilot_candidate"

EmotionNeverGrants == [][EmotionIsNeutral]_decisionVars

\* Sensitive messages and instructions to the program are for a person: the
\* model never sees them, and their drafts are never candidates
\* (runtime.py:1026).
UntrustedNeedsHuman ==
    kind \in {"sensitive", "injection"} =>
      /\ ~called
      /\ draft # None => draft.status = "manual_required"

\* A draft that one run found unfit when it was due is never sent by a later
\* one, even when the allowlist or the limits are back (runtime.py:856).
RefusedIsNeverHanded == refused => stage # "handed"

\* What a person did not see, nobody needed to see: what is handed over is
\* harmless, and what is sensitive, untrusted or once refused waits.
HandedIsSafe ==
    HandedIsHarmless /\ UntrustedNeedsHuman /\ RefusedIsNeverHanded

-----------------------------------------------------------------------------
(* The inductive invariant.                                                *)

\* A candidate is what may be sent, rendered as it was read.
CandidateIsHarmless ==
    /\ kind = "request" /\ called
    /\ draft.body = {}
    /\ decision.stance = {} /\ decision.facts = "none"
    /\ ~decision.commitments /\ decision.risk = "low"
    /\ decision.confidence >= 92
    /\ read \in Read
    /\ draft.notBefore = Controls(read.relationship, read.emotion).delay

DecisionInv ==
    /\ refused => stage = "blocked"
    /\ draft # None => stage \in {"drafted", "blocked", "handed"}
    /\ stage \in {"blocked", "handed"} => draft.status = "autopilot_candidate"
    /\ stage \in {"new", "skipped"} => ~called
    /\ stage = "decided" /\ kind = "request" => called
    /\ kind = "chat" => stage \in {"new", "skipped"}
    /\ kind \in {"sensitive", "injection"} =>
         /\ ~called
         /\ decision \in {None, ManualDecision}
         /\ draft # None => draft.status = "manual_required"
    /\ draft # None /\ draft.status = "autopilot_candidate" => CandidateIsHarmless
=============================================================================
