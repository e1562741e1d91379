--------------------------- MODULE DecisionsProofs ---------------------------
(***************************************************************************)
(* Proofs about Decisions: no answer of a model, profile, emotion or change*)
(* of configuration makes the program send what a person should see; and   *)
(* about History: what is read of a chat is what is in it.                 *)
(***************************************************************************)
EXTENDS Decisions, History, FiniteSetTheorems, FunctionTheorems,
        WellFoundedInduction, SequenceTheorems, TLAPS

LEMMA ManualIsDecision == ManualDecision \in Decision
BY DEF ManualDecision, Decision, Stances

LEMMA GroundedIsDecision ==
    ASSUME NEW d \in Decision
    PROVE  Grounded(d) \in Decision
BY DEF Grounded, Decision

LEMMA ControlTypes ==
    ASSUME NEW r \in Relationship, NEW e \in Emotion
    PROVE  /\ Controls(r, e).delay \in Nat
           /\ Controls(r, e).delay >= r.delay
           /\ e = "tense" => Controls(r, e).delay >= TenseDelay
<1>1. r.delay \in Nat /\ TenseDelay \in Nat
    BY DecisionAssumption DEF Relationship
<1>2. EmotionControls(e).delay = IF e = "tense" THEN TenseDelay ELSE 0
    BY DEF EmotionControls, Emotion
<1> QED
    BY <1>1, <1>2 DEF Controls, Larger

LEMMA BodyType ==
    ASSUME NEW d \in Decision, NEW r, NEW c
    PROVE  Body(d, r, c) \in SUBSET Marks
<1>1. d.stance \subseteq Marks
    BY DEF Decision, Stances, Marks
<1>2. FactText(d) \subseteq Marks
    BY DEF FactText, Marks
<1>3. StyleText(r, c) \subseteq Marks
    BY DEF StyleText, Marks
<1> QED
    BY <1>1, <1>2, <1>3 DEF Body

\* What evaluate_gate asks of a candidate.
LEMMA GateOfCandidate ==
    ASSUME NEW d, Gate(d) = "autopilot_candidate"
    PROVE  /\ kind # "sensitive" /\ d.risk = "low" /\ ~d.commitments
           /\ d.confidence >= 92
           /\ config.mode = "autopilot" /\ config.allowed /\ reached = {}
<1>1. ~NeedsHuman(d) /\ ~NeedsNoReply(d)
    BY DEF Gate
<1>2. config.mode = "autopilot" /\ Eligible(d)
    BY <1>1 DEF Gate
<1> QED
    BY <1>1, <1>2 DEF NeedsHuman, Risky, Eligible

LEMMA GateType ==
    ASSUME NEW d
    PROVE  /\ Gate(d) \in Statuses \cup {"no_reply", "observe"}
           /\ NeedsHuman(d) => Gate(d) = "manual_required"
<1>1. CASE NeedsHuman(d)
    BY <1>1 DEF Gate, Statuses
<1>2. CASE ~NeedsHuman(d) /\ NeedsNoReply(d)
    BY <1>2 DEF Gate
<1>3. CASE ~NeedsHuman(d) /\ ~NeedsNoReply(d)
    BY <1>3 DEF Gate, Statuses
<1> QED
    BY <1>1, <1>2, <1>3

\* What _post_render_gate lets through.
LEMMA PostGateOfCandidate ==
    ASSUME NEW d, NEW action, NEW body \in SUBSET Marks
    PROVE  /\ PostGate(d, action, body) = "autopilot_candidate"
              <=> action = "autopilot_candidate" /\ d.facts = "none" /\ body = {}
           /\ PostGate(d, action, body) \in {action, "manual_required", "draft_only"}
           /\ action = "manual_required" => PostGate(d, action, body) = "manual_required"
<1> DEFINE bad == body \cap {"risk", "promise"} # {}
<1>1. CASE bad
    BY <1>1 DEF PostGate
<1>2. CASE ~bad /\ action = "autopilot_candidate" /\ (d.facts # "none" \/ body # {})
    BY <1>2 DEF PostGate
<1>3. CASE ~bad /\ ~(action = "autopilot_candidate" /\ (d.facts # "none" \/ body # {}))
    BY <1>3 DEF PostGate
<1> QED
    BY <1>1, <1>2, <1>3

-----------------------------------------------------------------------------
\* What MakeDraft writes, for every profile and emotion.
LEMMA DraftMade ==
    ASSUME DecisionTypeOK, NEW r \in Relationship, NEW e \in Emotion,
           MakeDraft(r, e)
    PROVE  /\ decision \in Decision
           /\ draft' \in Draft /\ draft' # None
           /\ draft'.status = Status(decision, r, e)
           /\ draft'.body = Body(decision, r, Controls(r, e))
           /\ draft'.notBefore = Controls(r, e).delay
           /\ [relationship |-> r, emotion |-> e] \in Read
           /\ read' = IF draft'.status = "autopilot_candidate"
                      THEN [relationship |-> r, emotion |-> e] ELSE None
<1> DEFINE c == Controls(r, e)
           b == Body(decision, r, c)
<1>1. decision \in Decision
    BY DEF MakeDraft, DecisionTypeOK
<1>2. b \in SUBSET Marks
    BY <1>1, BodyType
<1>3. Gate(decision) \in Statuses
    BY GateType DEF MakeDraft
<1>4. Status(decision, r, e) \in Statuses
    BY <1>2, <1>3, PostGateOfCandidate DEF Status, Statuses
<1>5. c.delay \in Nat
    BY ControlTypes
<1>6. draft' = [status |-> Status(decision, r, e), body |-> b, notBefore |-> c.delay]
    BY DEF MakeDraft
<1>7. draft' \in Draft
    BY <1>2, <1>4, <1>5, <1>6 DEF Draft
<1>8. [relationship |-> r, emotion |-> e] \in Read
    BY DEF Read
<1> QED
    BY <1>1, <1>6, <1>7, <1>8, DecisionAssumption DEF MakeDraft

LEMMA NextTypeOK == DecisionTypeOK /\ [DecisionNext]_decisionVars => DecisionTypeOK'
<1> SUFFICES ASSUME DecisionTypeOK, [DecisionNext]_decisionVars
             PROVE  DecisionTypeOK'
    OBVIOUS
<1>1. CASE Filter \/ Conclude
    BY <1>1 DEF Filter, Conclude, world, DecisionTypeOK
<1>8. CASE Block \/ Hand
    BY <1>8 DEF Block, Hand, Due, world, DecisionTypeOK
<1>9. CASE Tick
    BY <1>9 DEF Tick, DecisionTypeOK
<1>2. CASE DecideByRule
    BY <1>2, ManualIsDecision, DecisionAssumption
       DEF DecideByRule, world, DecisionTypeOK
<1>3. ASSUME NEW r \in Response, AskModel(r)
      PROVE  DecisionTypeOK'
  <2>1. Grounded(r.decision) \in Decision /\ Grounded(r.decision) # None
    BY GroundedIsDecision, DecisionAssumption DEF Response
  <2> QED
    BY <1>3, <2>1 DEF AskModel, world, DecisionTypeOK
<1>4. ASSUME NEW r \in Relationship, NEW e \in Emotion, MakeDraft(r, e)
      PROVE  DecisionTypeOK'
  <2>1. /\ draft' \in Draft /\ draft' # None
        /\ read' \in Read \cup {None}
    BY <1>4, DraftMade
  <2> QED
    BY <1>4, <2>1 DEF MakeDraft, world, DecisionTypeOK
<1>5. ASSUME NEW c \in Config, Reconfigure(c)
      PROVE  DecisionTypeOK'
    BY <1>5 DEF Reconfigure, DecisionTypeOK
<1>6. ASSUME NEW s \in SUBSET Limits, LimitsChange(s)
      PROVE  DecisionTypeOK'
    BY <1>6 DEF LimitsChange, DecisionTypeOK
<1>7. CASE UNCHANGED decisionVars
    BY <1>7 DEF decisionVars, world, DecisionTypeOK
<1> QED
    BY <1>1, <1>2, <1>3, <1>4, <1>5, <1>6, <1>7, <1>8, <1>9 DEF DecisionNext

\* The message, its decision and its draft keep their types (run_once).
THEOREM TypeCorrect == DecisionSpec => []DecisionTypeOK
<1>1. DecisionInit => DecisionTypeOK
  <2> SUFFICES ASSUME DecisionInit
               PROVE  DecisionTypeOK
      OBVIOUS
  <2>1. /\ stage = "new" /\ now = 0 /\ reached \subseteq Limits
        /\ decision = None /\ draft = None /\ read = None
        /\ called = FALSE /\ refused = FALSE
      BY DEF DecisionInit
  <2>2. called \in BOOLEAN /\ refused \in BOOLEAN
      BY <2>1, Zenon
  <2>3. /\ now \in Nat
        /\ decision \in Decision \cup {None} /\ draft \in Draft \cup {None}
        /\ read \in Read \cup {None}
      BY <2>1
  <2>4. /\ stage = "decided" => decision # None
        /\ stage \in {"drafted", "blocked", "handed"} =>
              decision # None /\ draft # None
        /\ read # None => draft # None
      BY <2>1
  <2> QED
      BY <2>1, <2>2, <2>3, <2>4, Zenon DEF DecisionInit, DecisionTypeOK
<1> QED
    BY <1>1, NextTypeOK, PTL DEF DecisionSpec

-----------------------------------------------------------------------------
LEMMA MakeDraftKeeps ==
    ASSUME DecisionTypeOK, DecisionInv,
           NEW r \in Relationship, NEW e \in Emotion, MakeDraft(r, e)
    PROVE  DecisionInv'
<1> DEFINE b == Body(decision, r, Controls(r, e))
<1>1. /\ stage = "decided" /\ stage' \in {"drafted", "handed"}
      /\ stage' = "handed" => draft'.status = "autopilot_candidate"
      /\ kind' = kind /\ called' = called /\ decision' = decision
      /\ refused' = refused /\ draft' # None
      /\ draft'.status = PostGate(decision, Gate(decision), b)
      /\ draft'.body = b /\ b \in SUBSET Marks
    BY DraftMade, BodyType DEF MakeDraft, world, Status
<1>2. kind \in {"request", "sensitive", "injection"}
    BY <1>1 DEF DecisionInv, DecisionTypeOK
<1>3. CASE kind # "request"
  <2>1. NeedsHuman(decision) /\ decision = ManualDecision
    BY <1>1, <1>2, <1>3
       DEF DecisionInv, DecisionTypeOK, NeedsHuman, Risky, ManualDecision
  <2>2. draft'.status = "manual_required"
    BY <1>1, <2>1, GateType, PostGateOfCandidate
  <2> QED
    BY <1>1, <1>2, <1>3, <2>1, <2>2 DEF DecisionInv
<1>4. CASE kind = "request"
  <2>1. ASSUME draft'.status = "autopilot_candidate"
        PROVE  CandidateIsHarmless'
    <3>6. PostGate(decision, Gate(decision), b) = "autopilot_candidate"
      BY <1>1, <2>1
    <3> HIDE DEF b
    <3>1. Gate(decision) = "autopilot_candidate" /\ decision.facts = "none" /\ b = {}
      BY <1>1, <3>6, PostGateOfCandidate
    <3>2. /\ decision.risk = "low" /\ ~decision.commitments
          /\ decision.confidence >= 92
      BY <3>1, GateOfCandidate
    <3>3. decision.stance = {}
      BY <3>1 DEF Body, b
    <3>4. /\ read' \in Read
          /\ draft'.notBefore = Controls(read'.relationship, read'.emotion).delay
      <4>1. /\ [relationship |-> r, emotion |-> e] \in Read
            /\ read' = [relationship |-> r, emotion |-> e]
            /\ draft'.notBefore = Controls(r, e).delay
        BY <2>1, DraftMade
      <4>2. read'.relationship = r /\ read'.emotion = e
        BY <4>1
      <4> QED
        BY <4>1, <4>2
    <3>5. called
      BY <1>1, <1>4 DEF DecisionInv
    <3> QED
      BY <1>1, <1>4, <3>1, <3>2, <3>3, <3>4, <3>5 DEF CandidateIsHarmless
  <2> QED
    BY <1>1, <1>4, <2>1 DEF DecisionInv
<1> QED
    BY <1>3, <1>4

LEMMA NextDecisionInv ==
    DecisionTypeOK /\ DecisionInv /\ [DecisionNext]_decisionVars => DecisionInv'
<1> SUFFICES ASSUME DecisionTypeOK, DecisionInv, [DecisionNext]_decisionVars
             PROVE  DecisionInv'
    OBVIOUS
<1>1. CASE Filter \/ Conclude \/ Block \/ Hand \/ Tick \/ UNCHANGED decisionVars
    BY <1>1 DEF Filter, Conclude, Block, Hand, Due, Tick, world, decisionVars,
                DecisionTypeOK, DecisionInv, CandidateIsHarmless
<1>2. CASE DecideByRule
    BY <1>2 DEF DecideByRule, ByRule, world, DecisionInv, CandidateIsHarmless
<1>3. ASSUME NEW r \in Response, AskModel(r)
      PROVE  DecisionInv'
    BY <1>3 DEF AskModel, ByRule, world, DecisionTypeOK, DecisionInv,
                CandidateIsHarmless
<1>4. ASSUME NEW r \in Relationship, NEW e \in Emotion, MakeDraft(r, e)
      PROVE  DecisionInv'
    BY <1>4, MakeDraftKeeps
<1>5. ASSUME NEW c \in Config, Reconfigure(c)
      PROVE  DecisionInv'
    BY <1>5 DEF Reconfigure, DecisionInv, CandidateIsHarmless
<1>6. ASSUME NEW s \in SUBSET Limits, LimitsChange(s)
      PROVE  DecisionInv'
    BY <1>6 DEF LimitsChange, DecisionInv, CandidateIsHarmless
<1> QED
    BY <1>1, <1>2, <1>3, <1>4, <1>5, <1>6 DEF DecisionNext

\* A waiting candidate is harmless as it is rendered, at every moment, for any
\* answers of the model, profiles and changes of configuration (run_once).
THEOREM CandidatesAreHarmless == DecisionSpec => []DecisionInv
<1>1. DecisionInit => DecisionInv
    BY DEF DecisionInit, DecisionInv
<1> QED
    BY <1>1, NextDecisionInv, TypeCorrect, PTL DEF DecisionSpec

\* What is sent without a person is a canned acknowledgement of a request, on
\* an answer that states and promises nothing (evaluate_gate, _post_render_gate).
THEOREM SentIsHarmless == DecisionSpec => []HandedIsHarmless
<1>1. DecisionTypeOK /\ DecisionInv => HandedIsHarmless
    BY DEF DecisionTypeOK, DecisionInv, CandidateIsHarmless, HandedIsHarmless
<1> QED
    BY <1>1, TypeCorrect, CandidatesAreHarmless, PTL

\* The model never sees a sensitive message or an instruction to the program,
\* and its draft waits for a person (run_once, _manual_decision).
THEOREM SensitiveIsForPeople == DecisionSpec => []UntrustedNeedsHuman
<1>1. DecisionInv => UntrustedNeedsHuman
    BY DEF DecisionInv, UntrustedNeedsHuman
<1> QED
    BY <1>1, CandidatesAreHarmless, PTL

\* A due draft that was found unfit is never sent (_due_autopilot_sends).
THEOREM RefusalIsFinal == DecisionSpec => []RefusedIsNeverHanded
<1>1. DecisionInv => RefusedIsNeverHanded
    BY DEF DecisionInv, RefusedIsNeverHanded
<1> QED
    BY <1>1, CandidatesAreHarmless, PTL

\* What is handed over is harmless, and what is for a person waits for one.
THEOREM HandingIsSafe == DecisionSpec => []HandedIsSafe
BY SentIsHarmless, SensitiveIsForPeople, RefusalIsFinal, PTL DEF HandedIsSafe

-----------------------------------------------------------------------------
\* The two ways to hand a reply over.
LEMMA HandingStep ==
    ASSUME DecisionTypeOK, DecisionInv, [DecisionNext]_decisionVars, Hands
    PROVE  /\ config.realSend
           /\ Gate(decision) = "autopilot_candidate"
           /\ read' \in Read
           /\ now >= Controls(read'.relationship, read'.emotion).delay
<1>1. CASE Hand
  <2>1. /\ config.realSend /\ now >= draft.notBefore /\ read' = read
        /\ draft # None /\ draft.status = "autopilot_candidate"
        /\ draft \in Draft
    BY <1>1 DEF Hand, Due, DecisionTypeOK
  <2>2. Gate(decision) = "autopilot_candidate"
    BY <1>1, <2>1, PostGateOfCandidate DEF Hand, StillFit, Draft
  <2> QED
    BY <2>1, <2>2 DEF DecisionInv, CandidateIsHarmless
<1>2. ASSUME NEW r \in Relationship, NEW e \in Emotion, MakeDraft(r, e)
      PROVE  /\ config.realSend
             /\ Gate(decision) = "autopilot_candidate"
             /\ read' \in Read
             /\ now >= Controls(read'.relationship, read'.emotion).delay
  <2>1. /\ Status(decision, r, e) = "autopilot_candidate"
        /\ config.realSend /\ now >= Controls(r, e).delay
    BY <1>2 DEF MakeDraft, Hands
  <2>2. read' = [relationship |-> r, emotion |-> e] /\ read' \in Read
    BY <1>2, <2>1, DraftMade
  <2>3. Body(decision, r, Controls(r, e)) \in SUBSET Marks
    BY <1>2, DraftMade, BodyType
  <2>4. Gate(decision) = "autopilot_candidate"
    BY <2>1, <2>3, PostGateOfCandidate DEF Status
  <2> QED
    BY <2>1, <2>2, <2>4
<1>3. CASE \/ Filter \/ DecideByRule \/ Conclude \/ Block \/ Tick
           \/ \E r \in Response : AskModel(r)
           \/ \E c \in Config : Reconfigure(c)
           \/ \E s \in SUBSET Limits : LimitsChange(s)
           \/ UNCHANGED decisionVars
    BY <1>3 DEF Hands, Filter, DecideByRule, Conclude, Block, Tick, AskModel,
                Reconfigure, LimitsChange, decisionVars
<1> QED
    BY <1>1, <1>2, <1>3 DEF DecisionNext

\* A reply goes out only under the mode, allowlist and limits of that moment
\* (evaluate_gate in run_once and again in _due_autopilot_sends).
THEOREM SendingIsAuthorised == DecisionSpec => HandedIsAllowedNow
<1>1. DecisionTypeOK /\ DecisionInv /\ [DecisionNext]_decisionVars
        => [AllowedNow]_decisionVars
    BY HandingStep, GateOfCandidate DEF AllowedNow
<1> QED
    BY <1>1, TypeCorrect, CandidatesAreHarmless, PTL
       DEF DecisionSpec, HandedIsAllowedNow

\* Nobody is answered sooner than emotion and relationship both asked for
\* (_relationship_controls over emotion_render_controls).
THEOREM SendingIsNotEarly == DecisionSpec => HandedIsNotEarly
<1>1. ASSUME DecisionTypeOK, DecisionInv, [DecisionNext]_decisionVars, Hands
      PROVE  /\ now >= read'.relationship.delay
             /\ read'.emotion = "tense" => now >= TenseDelay
  <2>1. /\ read' \in Read /\ now \in Nat
        /\ now >= Controls(read'.relationship, read'.emotion).delay
    BY <1>1, HandingStep DEF DecisionTypeOK
  <2>2. /\ read'.relationship \in Relationship /\ read'.emotion \in Emotion
        /\ read'.relationship.delay \in Nat /\ TenseDelay \in Nat
    BY <2>1, DecisionAssumption DEF Read, Relationship
  <2> QED
    BY <2>1, <2>2, ControlTypes
<1>2. DecisionTypeOK /\ DecisionInv /\ [DecisionNext]_decisionVars
        => [AsLateAsAsked]_decisionVars
    BY <1>1 DEF AsLateAsAsked
<1> QED
    BY <1>2, TypeCorrect, CandidatesAreHarmless, PTL
       DEF DecisionSpec, HandedIsNotEarly

\* A reply is handed over under the authority of that moment and not before
\* the delays of its drafting are over.
THEOREM SendingIsDue == DecisionSpec => HandingIsDue
BY SendingIsAuthorised, SendingIsNotEarly, PTL DEF HandingIsDue

\* A candidate under an emotion is one without it: whatever tone the emotion
\* set, the profile has the last word on it (_relationship_controls).
THEOREM EmotionGrantsNothing == DecisionSpec => EmotionNeverGrants
<1>1. ASSUME DecisionTypeOK, NEW r \in Relationship, NEW e \in Emotion,
             MakeDraft(r, e), Status(decision, r, e) = "autopilot_candidate"
      PROVE  /\ read'.relationship = r
             /\ Status(decision, r, "none") = "autopilot_candidate"
  <2>1. decision \in Decision /\ read' = [relationship |-> r, emotion |-> e]
    BY <1>1, DraftMade
  <2>2. \A f : Body(decision, r, Controls(r, f)) \in SUBSET Marks
    BY <2>1, BodyType
  <2>3. /\ Gate(decision) = "autopilot_candidate" /\ decision.facts = "none"
        /\ Body(decision, r, Controls(r, e)) = {}
    BY <1>1, <2>2, PostGateOfCandidate DEF Status
  <2>4. decision.stance = {} /\ StyleText(r, Controls(r, e)) = {}
    BY <2>3 DEF Body
  <2>5. StyleText(r, Controls(r, "none")) = {}
    <3>1. CASE r.temperature = "none"
      <4>1. Controls(r, "none").tone = "neutral"
        BY <3>1 DEF Controls, EmotionControls
      <4> QED
        BY <4>1 DEF StyleText
    <3>2. CASE r.temperature # "none"
      <4>1. Controls(r, "none").tone = Controls(r, e).tone
        BY <3>2 DEF Controls
      <4> QED
        BY <2>4, <4>1 DEF StyleText
    <3> QED
      BY <3>1, <3>2
  <2>6. Body(decision, r, Controls(r, "none")) = {}
    BY <2>3, <2>4, <2>5 DEF Body, FactText
  <2> QED
    BY <2>1, <2>2, <2>3, <2>6, PostGateOfCandidate DEF Status
<1>2. ASSUME DecisionTypeOK, [DecisionNext]_decisionVars,
             draft = None, draft' # None, draft'.status = "autopilot_candidate"
      PROVE  Status(decision, read'.relationship, "none") = "autopilot_candidate"
  <2>1. \E r \in Relationship, e \in Emotion : MakeDraft(r, e)
    BY <1>2 DEF DecisionNext, Filter, DecideByRule, Conclude, Block, Hand, Due,
                Tick, AskModel, Reconfigure, LimitsChange, world, decisionVars
  <2> QED
    BY <1>1, <1>2, <2>1, DraftMade
<1>3. DecisionTypeOK /\ [DecisionNext]_decisionVars
        => [EmotionIsNeutral]_decisionVars
    BY <1>2 DEF EmotionIsNeutral
<1> QED
    BY <1>3, TypeCorrect, PTL DEF DecisionSpec, EmotionNeverGrants

-----------------------------------------------------------------------------
(* History: induction, and the members of a set in order.                  *)

LEMMA NatSets ==
    ASSUME NEW P \in SUBSET Nat, 0 \in P, \A n \in P : n + 1 \in P
    PROVE  P = Nat
<1> DEFINE Q == Nat \ P
<1> SUFFICES ASSUME Q # {} PROVE FALSE
    OBVIOUS
<1>1. \E x \in Q : \A y \in Q : ~ (<<y, x>> \in OpToRel(<, Nat))
  <2> Q \subseteq Nat OBVIOUS
  <2> HIDE DEF Q
  <2> QED BY NatLessThanWellFounded, WFMin
<1>2. PICK x \in Q : \A y \in Q : ~ (<<y, x>> \in OpToRel(<, Nat))
    BY <1>1
<1>3. x - 1 \in Q
    OBVIOUS
<1>4. <<x - 1, x>> \in OpToRel(<, Nat)
    BY <1>3 DEF OpToRel
<1> QED
    BY <1>2, <1>3, <1>4

\* e lists the members of S, each once, in the order R.
Lists(e, n, S, R) ==
    /\ n \in Nat /\ e \in [1..n -> S]
    /\ \A x \in S : \E i \in 1..n : e[i] = x
    /\ \A i, j \in 1..n : <<e[i], e[j]>> \in R <=> i < j

Rank(x, S, R) == Cardinality({y \in S : <<y, x>> \in R})

\* Then the k-th has k - 1 members of S before it, and no other has.
LEMMA Ranks ==
    ASSUME NEW e, NEW n, NEW S, NEW R, Lists(e, n, S, R)
    PROVE  /\ IsFiniteSet(S) /\ Cardinality(S) = n
           /\ \A k \in 1..n, x \in S : Rank(x, S, R) = k - 1 <=> x = e[k]
<1> USE DEF Lists, Rank
<1>1. ASSUME NEW i \in 1..n, NEW j \in 1..n, e[i] = e[j]
      PROVE  i = j
  <2>1. ~ (<<e[i], e[i]>> \in R)
    OBVIOUS
  <2>2. ~ (<<e[i], e[j]>> \in R) /\ ~ (<<e[j], e[i]>> \in R)
    BY <2>1, <1>1
  <2>3. ~ (i < j) /\ ~ (j < i)
    BY <2>2
  <2> QED
    BY <2>3
<1>2. IsFiniteSet(S) /\ Cardinality(S) = n
  <2>1. e \in Bijection(1..n, S)
    BY <1>1 DEF Bijection, Injection, Surjection, IsInjective
  <2>2. IsFiniteSet(1..n) /\ Cardinality(1..n) = n
    BY FS_Interval
  <2> QED
    BY <2>1, <2>2, FS_Bijection DEF ExistsBijection
<1>3. ASSUME NEW i \in 1..n
      PROVE  Cardinality({y \in S : <<y, e[i]>> \in R}) = i - 1
  <2> DEFINE T == {y \in S : <<y, e[i]>> \in R}
             d == [j \in 1..(i - 1) |-> e[j]]
  <2>1. \A j \in 1..(i - 1) : j \in 1..n /\ j < i /\ e[j] \in S
    OBVIOUS
  <2>2. \A j \in 1..(i - 1) : e[j] \in T
    BY <2>1
  <2>3. \A y \in T : \E j \in 1..(i - 1) : e[j] = y
    OBVIOUS
  <2>4. d \in Bijection(1..(i - 1), T)
    <3>1. d \in [1..(i - 1) -> T]
      BY <2>2
    <3>2. \A j, k \in 1..(i - 1) : d[j] = d[k] => j = k
      BY <1>1, <2>1
    <3>3. \A y \in T : \E j \in 1..(i - 1) : d[j] = y
      BY <2>3
    <3> HIDE DEF T, d
    <3> QED
      BY <3>1, <3>2, <3>3 DEF Bijection, Injection, Surjection, IsInjective
  <2>5. IsFiniteSet(1..(i - 1)) /\ Cardinality(1..(i - 1)) = i - 1
    BY FS_Interval
  <2> HIDE DEF T, d
  <2>6. Cardinality(T) = i - 1
    BY <2>4, <2>5, FS_Bijection DEF ExistsBijection
  <2> QED
    BY <2>6 DEF T
<1>4. ASSUME NEW k \in 1..n, NEW x \in S, Rank(x, S, R) = k - 1
      PROVE  x = e[k]
  <2>1. PICK i \in 1..n : e[i] = x
    OBVIOUS
  <2>2. Rank(x, S, R) = i - 1
    BY <1>3, <2>1
  <2>3. i = k
    BY <2>2, <1>4
  <2> QED
    BY <2>1, <2>3
<1> QED
    BY <1>2, <1>3, <1>4

Up(I) == Sorted(I, <)

\* e goes up through the numbers of I.
Rises(e, n, I) ==
    /\ n \in Nat /\ e \in [1..n -> I]
    /\ \A x \in I : \E i \in 1..n : e[i] = x
    /\ \A i, j \in 1..n : i < j => e[i] < e[j]

LEMMA UpIs ==
    ASSUME NEW I \in SUBSET Nat, NEW e, NEW n, Rises(e, n, I)
    PROVE  IsFiniteSet(I) /\ Cardinality(I) = n /\ Up(I) = e
<1> DEFINE R == {x \in Nat \X Nat : x[1] < x[2]}
<1>1. \A x, y \in I : <<x, y>> \in R <=> x < y
    OBVIOUS
<1>2. \A i, j \in 1..n : e[i] < e[j] <=> i < j
  <2>1. \A i \in 1..n : e[i] \in Nat
    BY DEF Rises
  <2> QED
    BY <2>1 DEF Rises
<1>3. Lists(e, n, I, R)
    BY <1>1, <1>2 DEF Lists, Rises
<1> HIDE DEF R
<1>4. /\ IsFiniteSet(I) /\ Cardinality(I) = n
      /\ \A k \in 1..n, x \in I : Rank(x, I, R) = k - 1 <=> x = e[k]
    BY <1>3, Ranks
<1>5. \A x \in I : {y \in I : <<y, x>> \in R} = {y \in I : y < x}
    BY <1>1
<1>6. \A k \in 1..n : e[k] = CHOOSE x \in I : Cardinality({y \in I : y < x}) = k - 1
  <2>1. \A x \in I : Rank(x, I, R) = Cardinality({y \in I : y < x})
    BY <1>5, Zenon DEF Rank
  <2>2. \A k \in 1..n : e[k] \in I
    BY DEF Rises
  <2> HIDE DEF Rank
  <2> QED
    BY <1>4, <2>1, <2>2
<1>7. Up(I) = [k \in 1..n |-> CHOOSE x \in I : Cardinality({y \in I : y < x}) = k - 1]
    BY <1>4, Zenon DEF Up, Sorted
<1>8. Up(I) = [k \in 1..n |-> e[k]]
    BY <1>6, <1>7, Zenon
<1>9. e = [k \in 1..n |-> e[k]]
    BY DEF Rises
<1> QED
    BY <1>4, <1>8, <1>9

LEMMA RisesLast ==
    ASSUME NEW I \in SUBSET Nat, NEW e, NEW n, Rises(e, n, I), NEW m \in Nat,
           \A i \in I : i < m
    PROVE  Rises([k \in 1..(n + 1) |-> IF k <= n THEN e[k] ELSE m], n + 1, I \cup {m})
<1> DEFINE f == [k \in 1..(n + 1) |-> IF k <= n THEN e[k] ELSE m]
           J == I \cup {m}
<1> USE DEF Rises
<1>1. n + 1 \in Nat /\ n + 1 \in 1..(n + 1)
  OBVIOUS
<1>2. \A k \in 1..(n + 1) : k \in 1..n \/ k = n + 1
  OBVIOUS
<1>3. \A k \in 1..n : k \in 1..(n + 1) /\ f[k] = e[k] /\ e[k] \in I
  OBVIOUS
<1>4. f[n + 1] = m
  OBVIOUS
<1>5. f \in [1..(n + 1) -> J]
  <2>1. \A k \in 1..(n + 1) : f[k] \in J
    BY <1>2, <1>3, <1>4
  <2> QED
    BY <2>1
<1>6. \A x \in J : \E i \in 1..(n + 1) : f[i] = x
  BY <1>1, <1>3, <1>4
<1>7. ASSUME NEW i \in 1..(n + 1), NEW j \in 1..(n + 1), i < j
      PROVE  f[i] < f[j]
  <2>1. i \in 1..n
    BY <1>7
  <2>2. CASE j \in 1..n
    BY <1>3, <1>7, <2>1, <2>2
  <2>3. CASE j = n + 1
    BY <1>3, <1>4, <2>1, <2>3
  <2> QED
    BY <1>2, <2>2, <2>3
<1> HIDE DEF f, J
<1>8. Rises(f, n + 1, J)
  BY <1>1, <1>5, <1>6, <1>7 DEF Rises
<1> QED
  BY <1>8 DEF f, J

LEMMA Enumerated ==
    \A N \in Nat : \A I \in SUBSET (0..N) : \E e, n : Rises(e, n, I)
<1> DEFINE P == {N \in Nat : \A I \in SUBSET (0..N) : \E e, n : Rises(e, n, I)}
<1>1. Rises(<<>>, 0, {})
    BY DEF Rises
<1>2. 0 \in P
  <2> SUFFICES ASSUME NEW I \in SUBSET (0..0)
               PROVE  \E e, n : Rises(e, n, I)
    OBVIOUS
  <2>1. CASE I = {}
    BY <1>1, <2>1
  <2>2. CASE I # {}
    <3>0. \A x \in I : x = 0
      OBVIOUS
    <3>1. I = {} \cup {0}
      BY <2>2, <3>0
    <3>2. \E e, n : Rises(e, n, {} \cup {0})
      BY <1>1, RisesLast
    <3> QED
      BY <3>1, <3>2
  <2> QED
    BY <2>1, <2>2
<1>3. \A N \in P : N + 1 \in P
  <2>0. \A N \in Nat : N + 1 \in Nat
    OBVIOUS
  <2> SUFFICES ASSUME NEW N \in Nat,
                      \A I \in SUBSET (0..N) : \E e, n : Rises(e, n, I),
                      NEW I \in SUBSET (0..(N + 1))
               PROVE  \E e, n : Rises(e, n, I)
    BY <2>0
  <2> DEFINE K == I \ {N + 1}
  <2>1. K \in SUBSET (0..N) /\ K \in SUBSET Nat /\ \A i \in K : i < N + 1
    OBVIOUS
  <2>2. PICK e, n : Rises(e, n, K)
    BY <2>1
  <2>3. CASE N + 1 \in I
    <3>1. I = K \cup {N + 1}
      BY <2>3
    <3>2. \E f, k : Rises(f, k, K \cup {N + 1})
      BY <2>1, <2>2, RisesLast, <2>0
    <3> QED
      BY <3>1, <3>2
  <2>4. CASE N + 1 \notin I
    <3>1. I = K
      BY <2>4
    <3> QED
      BY <3>1, <2>2
  <2> QED
    BY <2>3, <2>4
<1>4. P = Nat
  <2> P \in SUBSET Nat
    OBVIOUS
  <2> HIDE DEF P
  <2> QED
    BY <1>2, <1>3, NatSets
<1> QED
    BY <1>4

LEMMA UpRises ==
    ASSUME NEW N \in Nat, NEW I \in SUBSET (0..N)
    PROVE  IsFiniteSet(I) /\ Rises(Up(I), Cardinality(I), I)
<1>1. PICK e, n : Rises(e, n, I)
    BY Enumerated
<1>2. I \in SUBSET Nat
    OBVIOUS
<1>3. IsFiniteSet(I) /\ Cardinality(I) = n /\ Up(I) = e
    BY <1>1, <1>2, UpIs
<1> QED
    BY <1>1, <1>3, Zenon

\* A number above all the others comes last.
LEMMA UpLast ==
    ASSUME NEW N \in Nat, NEW I \in SUBSET (0..N), NEW m \in Nat, \A i \in I : i < m
    PROVE  /\ Cardinality(I) \in Nat
           /\ Cardinality(I \cup {m}) = Cardinality(I) + 1
           /\ \A k \in 1..Cardinality(I) : Up(I \cup {m})[k] = Up(I)[k] /\ Up(I)[k] \in I
           /\ Up(I \cup {m})[Cardinality(I) + 1] = m
<1> DEFINE n == Cardinality(I)
           e == Up(I)
           f == [k \in 1..(n + 1) |-> IF k <= n THEN e[k] ELSE m]
<1>1. Rises(e, n, I)
    BY UpRises
<1>2. n \in Nat /\ e \in [1..n -> I]
    BY <1>1 DEF Rises
<1>3. I \in SUBSET Nat /\ I \cup {m} \in SUBSET Nat
    OBVIOUS
<1> HIDE DEF n, e, f
<1>4. Rises(f, n + 1, I \cup {m})
    BY <1>1, <1>3, RisesLast DEF f
<1>5. Cardinality(I \cup {m}) = n + 1 /\ Up(I \cup {m}) = f
    BY <1>3, <1>4, UpIs
<1>6. \A k \in 1..n : f[k] = e[k] /\ e[k] \in I
    BY <1>2 DEF f
<1>7. f[n + 1] = m
    BY <1>2 DEF f
<1> QED
    BY <1>2, <1>5, <1>6, <1>7 DEF n, e

LEMMA LargestIs ==
    ASSUME NEW N \in Nat, NEW S \in SUBSET (0..N), S # {}
    PROVE  Largest(S) \in S /\ \A m \in S : m <= Largest(S)
<1>1. Rises(Up(S), Cardinality(S), S)
    BY UpRises
<1> DEFINE n == Cardinality(S)
           e == Up(S)
<1> HIDE DEF n, e
<1>2. Rises(e, n, S)
    BY <1>1 DEF n, e
<1> USE DEF Rises
<1>3. n \in Nat /\ n \in 1..n
  <2>1. PICK x \in S : TRUE
    OBVIOUS
  <2>2. PICK i \in 1..n : e[i] = x
    BY <1>2, <2>1
  <2> QED
    BY <1>2, <2>2
<1>4. e[n] \in S
    BY <1>2, <1>3
<1>5. ASSUME NEW m \in S PROVE m <= e[n]
  <2>1. PICK i \in 1..n : e[i] = m
    BY <1>2
  <2>2. i < n => e[i] < e[n]
    BY <1>2, <1>3
  <2>3. i < n \/ i = n
    BY <1>3
  <2>4. m \in Nat /\ e[n] \in Nat
    <3>1. \A x \in S : x \in Nat
      OBVIOUS
    <3> QED
      BY <1>4, <3>1
  <2> QED
    BY <2>1, <2>2, <2>3, <2>4
<1> QED
    BY <1>4, <1>5 DEF Largest

-----------------------------------------------------------------------------
(* The chat only grows, and its seconds do not go back.                    *)

LEMMA HistoryTypes ==
    ASSUME HistoryTypeOK
    PROVE  /\ Len(chat) \in Nat /\ DOMAIN chat = 1..Len(chat) /\ Len(chat) <= MaxMessages
           /\ \A i \in 1..Len(chat) :
                /\ chat[i] \in Message /\ chat[i].at \in Nat
                /\ chat[i].direction \in {"in", "out"}
           /\ Len(exports) \in Nat /\ DOMAIN exports = 1..Len(exports)
           /\ \A k \in 1..Len(exports) : exports[k] \in Nat /\ exports[k] <= Len(chat)
<1>1. /\ chat \in Seq(Message) /\ exports \in Seq(Nat) /\ Len(chat) <= MaxMessages
      /\ \A k \in DOMAIN exports : exports[k] <= Len(chat)
    BY DEF HistoryTypeOK
<1>2. Len(chat) \in Nat /\ DOMAIN chat = 1..Len(chat)
    BY <1>1
<1>3. \A i \in 1..Len(chat) : chat[i] \in Message
    BY <1>1, <1>2
<1>4. \A x \in Message : x.at \in Nat /\ x.direction \in {"in", "out"}
    BY DEF Message
<1>5. Len(exports) \in Nat /\ DOMAIN exports = 1..Len(exports)
    BY <1>1
<1>6. \A k \in 1..Len(exports) : exports[k] \in Nat
    BY <1>1, <1>5
<1> QED
    BY <1>1, <1>2, <1>3, <1>4, <1>5, <1>6

LEMMA HistoryStep ==
    HistoryTypeOK /\ ChatInOrder /\ [HistoryNext]_historyVars
      => (HistoryTypeOK /\ ChatInOrder)'
<1> SUFFICES ASSUME HistoryTypeOK, ChatInOrder, [HistoryNext]_historyVars
             PROVE  HistoryTypeOK' /\ ChatInOrder'
    OBVIOUS
<1> USE HistoryAssumption
<1>1. CASE Export
  <2>1. chat' = chat /\ exports' = Append(exports, Len(chat))
    BY <1>1 DEF Export
  <2>2. exports' \in Seq(Nat) /\ \A k \in DOMAIN exports' : exports'[k] <= Len(chat)
    BY <2>1, HistoryTypes DEF HistoryTypeOK
  <2> QED
    BY <2>1, <2>2 DEF HistoryTypeOK, ChatInOrder
<1>2. ASSUME NEW p \in Pause, NEW d \in {"in", "out"}, NEW t \in Text, Say(p, d, t)
      PROVE  HistoryTypeOK' /\ ChatInOrder'
  <2> DEFINE n == Len(chat)
             m == [at |-> p + IF chat = <<>> THEN 0 ELSE Last(chat).at,
                   direction |-> d, text |-> t]
  <2>1. n < MaxMessages /\ chat' = Append(chat, m) /\ exports' = exports
    BY <1>2 DEF Say
  <2>2. chat # <<>> => n \in 1..n /\ Last(chat) = chat[n]
    BY HistoryTypes DEF Last, HistoryTypeOK
  <2>3. /\ m \in Message
        /\ \A i \in 1..n : chat[i].at <= m.at
    <3>1. p \in Nat
      OBVIOUS
    <3>2. CASE chat = <<>>
      BY <3>1, <3>2 DEF Message
    <3>3. CASE chat # <<>>
      <4>1. m.at = p + chat[n].at /\ chat[n].at \in Nat
        BY <2>2, <3>3, HistoryTypes
      <4>2. \A i \in 1..n : chat[i].at <= chat[n].at /\ chat[i].at \in Nat
        BY <2>2, <3>3, HistoryTypes DEF ChatInOrder
      <4>3. m \in Message
        BY <4>1, <3>1 DEF Message
      <4> QED
        BY <4>1, <4>2, <4>3, <3>1
    <3> QED
      BY <3>2, <3>3
  <2> HIDE DEF m
  <2>4. /\ chat' \in Seq(Message) /\ Len(chat') = n + 1 /\ chat'[n + 1] = m
        /\ \A i \in 1..n : chat'[i] = chat[i]
    BY <2>1, <2>3 DEF HistoryTypeOK
  <2>5. HistoryTypeOK'
    BY <2>1, <2>4, HistoryTypes DEF HistoryTypeOK
  <2>6. ChatInOrder'
    <3>1. SUFFICES ASSUME NEW i \in 1..(n + 1), NEW j \in 1..(n + 1), i <= j
                   PROVE  chat'[i].at <= chat'[j].at
      BY <2>4, HistoryTypes DEF ChatInOrder
    <3>2. CASE j = n + 1 /\ i = n + 1
      <4>1. m.at \in Nat
        BY <2>3 DEF Message
      <4> QED
        BY <3>2, <2>4, <4>1
    <3>3. CASE j = n + 1 /\ i \in 1..n
      BY <3>3, <2>3, <2>4
    <3>4. CASE j \in 1..n
      <4>1. i \in 1..n
        BY <3>1, <3>4
      <4> QED
        BY <4>1, <3>1, <3>4, <2>4, HistoryTypes DEF ChatInOrder
    <3>5. j \in 1..n \/ j = n + 1
      BY HistoryTypes
    <3>6. i \in 1..n \/ i = n + 1
      BY HistoryTypes
    <3>7. j = n + 1 \/ j \in 1..n
      BY <3>5
    <3> QED
      BY <3>2, <3>3, <3>4, <3>6, <3>7
  <2> QED
    BY <2>5, <2>6
<1>3. CASE UNCHANGED historyVars
    BY <1>3 DEF historyVars, HistoryTypeOK, ChatInOrder
<1> QED
    BY <1>1, <1>2, <1>3 DEF HistoryNext

LEMMA HistoryAlways == HistorySpec => [](HistoryTypeOK /\ ChatInOrder)
<1>1. HistoryInit => HistoryTypeOK /\ ChatInOrder
    BY HistoryAssumption DEF HistoryInit, HistoryTypeOK, ChatInOrder
<1> QED
    BY <1>1, HistoryStep, PTL DEF HistorySpec

-----------------------------------------------------------------------------
(* The import: a message and how often it occurred before in its file tell *)
(* its place in the chat, so overlapping files have one event for each.    *)

Occurs(i) == Cardinality({j \in 1..(i - 1) : chat[j] = chat[i]})
Event(i) == [id |-> <<chat[i], Occurs(i)>>, place |-> i]
Files(order) == [k \in DOMAIN order |-> File(order[k])]

LEMMA FilesAre ==
    ASSUME HistoryTypeOK, NEW order \in Seq(Nat),
           \A k \in 1..Len(order) : order[k] <= Len(chat)
    PROVE  /\ Len(Files(order)) = Len(order)
           /\ \A k \in 1..Len(order) :
                /\ DOMAIN Files(order)[k] = 1..order[k]
                /\ order[k] \in Nat /\ order[k] <= Len(chat)
                /\ \A i \in 1..order[k] :
                     /\ i \in 1..Len(chat)
                     /\ Files(order)[k][i] = chat[i]
                     /\ Id(Files(order), k, i) = <<chat[i], Occurs(i)>>
<1> DEFINE F == Files(order)
<1>0. Len(order) \in Nat /\ DOMAIN order = 1..Len(order)
    OBVIOUS
<1>1. F = [k \in 1..Len(order) |-> File(order[k])]
    BY <1>0 DEF Files
<1> HIDE DEF F
<1>2. Len(F) = Len(order)
    BY <1>0, <1>1
<1>3. ASSUME NEW k \in 1..Len(order)
      PROVE  /\ DOMAIN F[k] = 1..order[k]
             /\ order[k] \in Nat /\ order[k] <= Len(chat)
             /\ \A i \in 1..order[k] :
                  /\ i \in 1..Len(chat)
                  /\ F[k][i] = chat[i]
                  /\ Id(F, k, i) = <<chat[i], Occurs(i)>>
  <2>1. order[k] \in Nat /\ order[k] <= Len(chat) /\ Len(chat) \in Nat
    BY HistoryTypes
  <2>2. F[k] = [i \in 1..order[k] |-> chat[i]]
    BY <1>1, <2>1 DEF File, SubSeq
  <2>3. \A i \in 1..order[k] : F[k][i] = chat[i] /\ i \in 1..Len(chat) /\ i \in Nat
    BY <2>1, <2>2
  <2>4. ASSUME NEW i \in 1..order[k] PROVE Id(F, k, i) = <<chat[i], Occurs(i)>>
    <3>1. \A j \in 1..(i - 1) : F[k][j] = chat[j]
      BY <2>1, <2>3
    <3>2. {j \in 1..(i - 1) : F[k][j] = F[k][i]} = {j \in 1..(i - 1) : chat[j] = chat[i]}
      BY <3>1, <2>3
    <3> QED
      BY <3>2, <2>3 DEF Id, Occurrence, Occurs
  <2> QED
    BY <2>1, <2>2, <2>3, <2>4
<1> QED
    BY <1>2, <1>3 DEF F

\* The same message later in a chat has occurred more often.
LEMMA OccursMore ==
    ASSUME NEW i \in Nat, NEW j \in Nat, 1 <= i, i < j, chat[i] = chat[j]
    PROVE  Occurs(i) # Occurs(j)
<1> DEFINE A == {k \in 1..(i - 1) : chat[k] = chat[i]}
           B == {k \in 1..(j - 1) : chat[k] = chat[j]}
<1>1. IsFiniteSet(B)
  <2>1. IsFiniteSet(1..(j - 1))
    BY FS_Interval
  <2> QED
    BY <2>1, FS_Subset
<1>2. A \subseteq B /\ i \in B /\ i \notin A
    OBVIOUS
<1>3. A # B
    BY <1>2
<1> HIDE DEF A, B
<1>4. Cardinality(A) # Cardinality(B)
    BY <1>1, <1>2, <1>3, FS_Subset, FS_CardinalityType
<1> QED
    BY <1>4 DEF A, B, Occurs

LEMMA EventsDiffer ==
    ASSUME HistoryTypeOK, NEW i \in 1..Len(chat), NEW j \in 1..Len(chat),
           <<chat[i], Occurs(i)>> = <<chat[j], Occurs(j)>>
    PROVE  i = j
<1>1. Len(chat) \in Nat
    BY HistoryTypes
<1>2. chat[i] = chat[j] /\ Occurs(i) = Occurs(j)
    OBVIOUS
<1> QED
    BY <1>1, <1>2, OccursMore

LEMMA EventsAre ==
    ASSUME HistoryTypeOK, NEW order \in Seq(Nat), NEW N \in Nat,
           \A k \in 1..Len(order) : order[k] <= N,
           \E k \in 1..Len(order) : order[k] = N,
           N <= Len(chat)
    PROVE  LET F == Files(order)
               rows == {x \in (1..Len(F)) \X (1..MaxMessages) : x[2] \in DOMAIN F[x[1]]}
               new == {x \in rows : \A y \in rows :
                         y[1] < x[1] => Id(F, y[1], y[2]) # Id(F, x[1], x[2])}
           IN {[id |-> Id(F, x[1], x[2]), place |-> x[2]] : x \in new}
                = {Event(i) : i \in 1..N}
<1> DEFINE F == Files(order)
           rows == {x \in (1..Len(F)) \X (1..MaxMessages) : x[2] \in DOMAIN F[x[1]]}
           new == {x \in rows : \A y \in rows :
                     y[1] < x[1] => Id(F, y[1], y[2]) # Id(F, x[1], x[2])}
           L == Len(order)
<1>0. L \in Nat /\ \A k \in 1..L : order[k] \in Nat /\ order[k] <= Len(chat)
                                   /\ order[k] <= N
    BY HistoryTypes
<1>1. /\ Len(F) = L /\ Len(chat) <= MaxMessages /\ Len(chat) \in Nat
      /\ \A k \in 1..L : DOMAIN F[k] = 1..order[k]
      /\ \A k \in 1..L : \A i \in 1..order[k] :
           i \in 1..Len(chat) /\ Id(F, k, i) = <<chat[i], Occurs(i)>>
    BY <1>0, FilesAre, HistoryTypes
<1> HIDE DEF F, L
<1>2. \A x : x \in rows <=> /\ x \in (1..L) \X (1..MaxMessages)
                            /\ x[2] \in 1..order[x[1]]
    BY <1>1
<1>3. \A k \in 1..L : \A i \in 1..order[k] : <<k, i>> \in rows
    BY <1>0, <1>1, <1>2, HistoryAssumption
<1>4. \A x \in rows : /\ x[1] \in 1..L /\ x[2] \in 1..order[x[1]] /\ x[2] \in 1..N
                      /\ x[2] \in 1..Len(chat)
                      /\ Id(F, x[1], x[2]) = <<chat[x[2]], Occurs(x[2])>>
    BY <1>0, <1>1, <1>2
<1> HIDE DEF rows
<1>5. ASSUME NEW x \in new
      PROVE  /\ x[2] \in 1..N
             /\ [id |-> Id(F, x[1], x[2]), place |-> x[2]] = Event(x[2])
    BY <1>4 DEF Event
<1>6. ASSUME NEW i \in 1..N
      PROVE  \E x \in new : x[2] = i
  <2> DEFINE K == {k \in 1..L : i <= order[k]}
  <2>1. K # {} /\ K \in SUBSET Nat
    BY <1>0 DEF L
  <2>2. PICK k \in K : \A j \in K : k <= j
    <3> HIDE DEF K
    <3>1. PICK k \in K : \A j \in K : ~ (<<j, k>> \in OpToRel(<, Nat))
      BY <2>1, NatLessThanWellFounded, WFMin
    <3>2. \A j \in K : ~ (j < k)
      BY <2>1, <3>1 DEF OpToRel
    <3> QED
      BY <2>1, <3>2
  <2>3. i \in 1..order[k] /\ k \in 1..L
    BY <1>0
  <2>4. <<k, i>> \in rows
    BY <2>3, <1>3
  <2>5. ASSUME NEW y \in rows, y[1] < k
        PROVE  Id(F, y[1], y[2]) # Id(F, k, i)
    <3>1. SUFFICES ASSUME Id(F, y[1], y[2]) = Id(F, k, i) PROVE FALSE
      OBVIOUS
    <3>2. Id(F, k, i) = <<chat[i], Occurs(i)>> /\ i \in 1..Len(chat)
      BY <1>1, <2>3
    <3>3. y[2] = i
      BY <1>4, <3>1, <3>2, EventsDiffer
    <3>4. y[1] \in K
      BY <1>0, <1>4, <3>3
    <3> QED
      BY <2>2, <2>5, <3>4, <1>4
  <2>6. <<k, i>> \in new
    BY <2>4, <2>5
  <2> QED
    BY <2>6
<1> HIDE DEF new
<1>7. {[id |-> Id(F, x[1], x[2]), place |-> x[2]] : x \in new} = {Event(i) : i \in 1..N}
  <2>1. \A x \in new : [id |-> Id(F, x[1], x[2]), place |-> x[2]] \in {Event(i) : i \in 1..N}
    BY <1>5
  <2>2. \A i \in 1..N :
           Event(i) \in {[id |-> Id(F, x[1], x[2]), place |-> x[2]] : x \in new}
    BY <1>5, <1>6
  <2> QED
    BY <2>1, <2>2
<1> QED
    BY <1>7 DEF F, rows, new

LEMMA BeforeIsPlace ==
    ASSUME HistoryTypeOK, ChatInOrder, NEW i \in 1..Len(chat), NEW j \in 1..Len(chat)
    PROVE  Before(Event(i), Event(j)) <=> i < j
<1>1. /\ chat[i].at \in Nat /\ chat[j].at \in Nat /\ i \in DOMAIN chat /\ j \in DOMAIN chat
      /\ i \in Nat /\ j \in Nat
    BY HistoryTypes
<1>2. /\ i <= j => chat[i].at <= chat[j].at
      /\ j <= i => chat[j].at <= chat[i].at
    BY <1>1 DEF ChatInOrder
<1>3. Before(Event(i), Event(j)) <=>
         \/ chat[i].at < chat[j].at
         \/ chat[i].at = chat[j].at /\ i < j
         \/ chat[i].at = chat[j].at /\ i = j /\ Occurs(i) < Occurs(j)
    BY DEF Before, Event
<1>4. ~ (Occurs(i) < Occurs(i))
  <2>1. IsFiniteSet({k \in 1..(i - 1) : chat[k] = chat[i]})
    <3>1. IsFiniteSet(1..(i - 1))
      BY <1>1, FS_Interval
    <3> QED
      BY <3>1, FS_Subset
  <2>2. Occurs(i) \in Nat
    BY <2>1, FS_CardinalityType DEF Occurs
  <2> QED
    BY <2>2
<1>5. i = j => ~ (Occurs(i) < Occurs(j))
    BY <1>4
<1> QED
    BY <1>1, <1>2, <1>3, <1>5

LEMMA InOrder ==
    ASSUME HistoryTypeOK, ChatInOrder, NEW N \in Nat, N <= Len(chat)
    PROVE  Sorted({Event(i) : i \in 1..N}, Before) = [i \in 1..N |-> Event(i)]
<1> DEFINE S == {Event(i) : i \in 1..N}
           e == [i \in 1..N |-> Event(i)]
           R == {p \in S \X S : Before(p[1], p[2])}
<1>0. \A i \in 1..N : i \in 1..Len(chat)
    BY HistoryTypes
<1>1. e \in [1..N -> S] /\ \A x \in S : \E i \in 1..N : e[i] = x
    OBVIOUS
<1>2. \A x, y \in S : <<x, y>> \in R <=> Before(x, y)
    OBVIOUS
<1>3. \A i \in 1..N : e[i] = Event(i) /\ e[i] \in S
    OBVIOUS
<1> HIDE DEF S, e, R
<1>4. \A i, j \in 1..N : <<e[i], e[j]>> \in R <=> i < j
    BY <1>0, <1>2, <1>3, BeforeIsPlace
<1>5. Lists(e, N, S, R)
    BY <1>1, <1>4 DEF Lists
<1>6. /\ Cardinality(S) = N
      /\ \A k \in 1..N, x \in S : Rank(x, S, R) = k - 1 <=> x = e[k]
    BY <1>5, Ranks
<1>7. \A x \in S : {y \in S : <<y, x>> \in R} = {y \in S : Before(y, x)}
    BY <1>2
<1>8. \A k \in 1..N :
         e[k] = CHOOSE x \in S : Cardinality({y \in S : Before(y, x)}) = k - 1
  <2>1. \A x \in S : Rank(x, S, R) = Cardinality({y \in S : Before(y, x)})
    BY <1>7, Zenon DEF Rank
  <2> QED
    BY <1>3, <1>6, <2>1
<1>9. Sorted(S, Before) =
        [k \in 1..N |-> CHOOSE x \in S : Cardinality({y \in S : Before(y, x)}) = k - 1]
    BY <1>6, Zenon DEF Sorted
<1>10. Sorted(S, Before) = [k \in 1..N |-> e[k]]
    BY <1>8, <1>9, Zenon
<1>11. [k \in 1..N |-> e[k]] = e
    BY <1>1
<1> QED
    BY <1>10, <1>11, Zenon DEF S, e

\* In whatever order they are given, the files give what the longest has.
LEMMA ImportGives ==
    ASSUME HistoryTypeOK, ChatInOrder, NEW order \in Seq(Nat), NEW N \in Nat,
           \A k \in 1..Len(order) : order[k] <= N,
           \E k \in 1..Len(order) : order[k] = N,
           N <= Len(chat)
    PROVE  Messages(Imported([k \in DOMAIN order |-> File(order[k])])) = File(N)
<1>1. Imported(Files(order)) = Sorted({Event(i) : i \in 1..N}, Before)
    BY EventsAre, Zenon DEF Imported
<1>2. Imported(Files(order)) = [i \in 1..N |-> Event(i)]
    BY <1>1, InOrder, Zenon
<1>3. Messages(Imported(Files(order))) = [i \in 1..N |-> chat[i]]
    BY <1>2 DEF Messages, Event
<1>4. File(N) = [i \in 1..N |-> chat[i]]
    BY DEF File, SubSeq
<1> QED
    BY <1>3, <1>4 DEF Files

LEMMA LongestExport ==
    ASSUME HistoryTypeOK, exports # <<>>
    PROVE  LET N == Largest(Range(exports))
           IN /\ N \in Nat /\ N <= Len(chat)
              /\ \A order \in {exports, Reverse(exports)} :
                   /\ order \in Seq(Nat)
                   /\ \A k \in 1..Len(order) : order[k] <= N
                   /\ \E k \in 1..Len(order) : order[k] = N
<1> DEFINE N == Largest(Range(exports))
           L == Len(exports)
<1>1. /\ L \in Nat /\ DOMAIN exports = 1..L /\ Len(chat) \in Nat
      /\ exports \in Seq(Nat)
      /\ \A k \in 1..L : exports[k] \in Nat /\ exports[k] <= Len(chat)
    BY HistoryTypes DEF HistoryTypeOK
<1>2. Range(exports) = {exports[k] : k \in 1..L}
    BY <1>1 DEF Range
<1>3. Range(exports) # {}
  <2>1. L > 0
    BY <1>1
  <2>2. 1 \in 1..L
    BY <1>1, <2>1
  <2> QED
    BY <1>2, <2>2
<1>4. Range(exports) \in SUBSET (0..Len(chat))
    BY <1>1, <1>2
<1>5. N \in Range(exports) /\ \A m \in Range(exports) : m <= N
    BY <1>1, <1>3, <1>4, LargestIs
<1> HIDE DEF N
<1>6. N \in Nat /\ N <= Len(chat)
    BY <1>1, <1>2, <1>5
<1>7. (\A k \in 1..L : exports[k] <= N) /\ (\E k \in 1..L : exports[k] = N)
    BY <1>2, <1>5
<1>8. Reverse(exports) = [k \in 1..L |-> exports[(L - k) + 1]]
    BY DEF Reverse
<1>9. \A k \in 1..L : (L - k) + 1 \in 1..L /\ (L - ((L - k) + 1)) + 1 = k
    BY <1>1
<1>10. Reverse(exports) \in Seq(Nat) /\ Len(Reverse(exports)) = L
  <2>1. Reverse(exports) \in [1..L -> Nat]
    BY <1>1, <1>8, <1>9
  <2> QED
    BY <1>1, <2>1
<1>11. \A k \in 1..L : Reverse(exports)[k] <= N
    BY <1>7, <1>8, <1>9
<1>12. \E k \in 1..L : Reverse(exports)[k] = N
  <2>1. PICK k \in 1..L : exports[k] = N
    BY <1>7
  <2>2. Reverse(exports)[(L - k) + 1] = N
    BY <2>1, <1>8, <1>9
  <2> QED
    BY <2>2, <1>9
<1> QED
    BY <1>1, <1>6, <1>7, <1>10, <1>11, <1>12 DEF N

\* However the exports of a growing chat overlap and in whatever order they
\* are given, the import is the longest of them (ingest.py:102).
THEOREM ImportIsAlwaysTheChat == HistorySpec => []ImportIsTheChat
<1>1. HistoryTypeOK /\ ChatInOrder => ImportIsTheChat
  <2> SUFFICES ASSUME HistoryTypeOK, ChatInOrder, exports # <<>>,
                      NEW order \in {exports, Reverse(exports)}
               PROVE  Messages(Imported([k \in DOMAIN order |-> File(order[k])]))
                        = File(Largest(Range(exports)))
    BY DEF ImportIsTheChat
  <2> QED
    BY LongestExport, ImportGives
<1> QED
    BY <1>1, HistoryAlways, PTL

-----------------------------------------------------------------------------
(* The queue of a chat: what follows the last message of the user.         *)

LEMMA UpInterval ==
    ASSUME NEW a \in Nat, NEW b \in Nat, a <= b
    PROVE  /\ Cardinality((a + 1)..b) = b - a
           /\ Up((a + 1)..b) = [k \in 1..(b - a) |-> a + k]
<1> DEFINE e == [k \in 1..(b - a) |-> a + k]
           I == (a + 1)..b
<1>1. e \in [1..(b - a) -> I]
    OBVIOUS
<1>2. \A x \in I : \E k \in 1..(b - a) : e[k] = x
  <2> SUFFICES ASSUME NEW x \in I PROVE \E k \in 1..(b - a) : e[k] = x
    OBVIOUS
  <2>1. x - a \in 1..(b - a) /\ a + (x - a) = x
    OBVIOUS
  <2> QED
    BY <2>1
<1>3. \A i, j \in 1..(b - a) : i < j => e[i] < e[j]
    OBVIOUS
<1>4. I \in SUBSET Nat /\ b - a \in Nat
    OBVIOUS
<1> HIDE DEF e, I
<1>5. Rises(e, b - a, I)
    BY <1>1, <1>2, <1>3, <1>4 DEF Rises
<1>6. Cardinality(I) = b - a /\ Up(I) = e
    BY <1>4, <1>5, UpIs
<1> QED
    BY <1>6 DEF e, I

LEMMA PendingIs ==
    ASSUME HistoryTypeOK, NEW N \in Nat, N <= Len(chat)
    PROVE  LET ms == File(N)
               open == {i \in DOMAIN ms : \A j \in i..Len(ms) : ms[j].direction = "in"}
           IN Pending(ms)
                = [i \in 1..Cardinality(open) |-> ms[Len(ms) - Cardinality(open) + i]]
<1> DEFINE ms == File(N)
           open == {i \in DOMAIN ms : \A j \in i..Len(ms) : ms[j].direction = "in"}
           out == {i \in DOMAIN ms : ms[i].direction = "out"}
           last == IF out = {} THEN 0 ELSE CHOOSE i \in out : \A j \in out : j <= i
           ins == {i \in (last + 1)..Len(ms) : ms[i].direction = "in"}
<1>1. ms = [i \in 1..N |-> chat[i]]
    BY DEF File, SubSeq
<1>2. DOMAIN ms = 1..N /\ Len(ms) = N /\ \A i \in 1..N : ms[i].direction \in {"in", "out"}
    BY <1>1, HistoryTypes
<1>3. last \in 0..N /\ (last > 0 => ms[last].direction = "out") /\ \A j \in out : j <= last
  <2>1. CASE out = {}
    BY <2>1
  <2>2. CASE out # {}
    <3>1. out \in SUBSET (0..N)
      BY <1>2
    <3>2. last = Largest(out)
      BY <2>2 DEF Largest
    <3> HIDE DEF last
    <3>3. last \in out /\ \A j \in out : j <= last
      BY <2>2, <3>1, <3>2, LargestIs, Zenon
    <3> QED
      BY <1>2, <3>3
  <2> QED
    BY <2>1, <2>2
<1> HIDE DEF ms, last
<1>4. \A i \in (last + 1)..N : i \in 1..N /\ ms[i].direction = "in"
    BY <1>2, <1>3
<1>5. ins = (last + 1)..N
    BY <1>2, <1>4
<1>6. open = (last + 1)..N
  <2>1. ASSUME NEW i \in open PROVE i \in (last + 1)..N
    <3>1. i \in 1..N
      BY <1>2
    <3>2. last \in i..N => ms[last].direction = "in"
      BY <1>2
    <3>3. ~ (last \in i..N)
      BY <1>3, <3>1, <3>2
    <3> QED
      BY <1>3, <3>1, <3>3
  <2>2. ASSUME NEW i \in (last + 1)..N PROVE i \in open
    BY <1>2, <1>3, <1>4
  <2> QED
    BY <2>1, <2>2
<1> HIDE DEF ins, open
<1>7. last \in Nat /\ last <= N
    BY <1>3
<1>8. /\ Cardinality(ins) = N - last /\ Cardinality(open) = N - last
      /\ Up(ins) = [k \in 1..(N - last) |-> last + k]
    BY <1>5, <1>6, <1>7, UpInterval
<1>9. Picked(ms, ins) = [k \in 1..Cardinality(ins) |-> ms[Up(ins)[k]]]
    BY Zenon DEF Picked, Up
<1>10. Picked(ms, ins) = [k \in 1..(N - last) |-> ms[last + k]]
    BY <1>8, <1>9
<1>11. [i \in 1..Cardinality(open) |-> ms[Len(ms) - Cardinality(open) + i]]
          = [k \in 1..(N - last) |-> ms[last + k]]
  <2>1. \A k \in 1..(N - last) : N - (N - last) + k = last + k
    BY <1>7
  <2> QED
    BY <2>1, <1>2, <1>8
<1>12. Pending(ms) = Picked(ms, ins)
    BY DEF Pending, ins, last, ms
<1> QED
    BY <1>10, <1>11, <1>12 DEF open, ms

\* A message is in the queue exactly if the user wrote nothing after it, also
\* within the same second (policy.py:134).
THEOREM QueueIsAlwaysUnanswered == HistorySpec => []QueueIsUnanswered
<1>1. HistoryTypeOK /\ ChatInOrder => QueueIsUnanswered
  <2> SUFFICES ASSUME HistoryTypeOK, ChatInOrder, exports # <<>>
               PROVE  QueueIsUnanswered
    BY DEF QueueIsUnanswered
  <2> DEFINE N == Largest(Range(exports))
  <2>1. N \in Nat /\ N <= Len(chat)
    BY LongestExport
  <2>2. Messages(Imported([k \in DOMAIN exports |-> File(exports[k])])) = File(N)
    BY LongestExport, ImportGives
  <2> HIDE DEF N
  <2>3. LET ms == File(N)
            open == {i \in DOMAIN ms : \A j \in i..Len(ms) : ms[j].direction = "in"}
        IN Pending(ms)
             = [i \in 1..Cardinality(open) |-> ms[Len(ms) - Cardinality(open) + i]]
    BY <2>1, PendingIs
  <2> QED
    BY <2>2, <2>3, Zenon DEF QueueIsUnanswered, N
<1> QED
    BY <1>1, HistoryAlways, PTL

-----------------------------------------------------------------------------
(* Functions defined step by step exist, and have the values of the steps. *)

\* g starts with a and goes by F.
Goes(g, L, X, a, F) ==
    g \in [0..L -> X] /\ g[0] = a /\ \A n \in 1..L : g[n] = F[<<n, g[n - 1]>>]

LEMMA Recursion ==
    ASSUME NEW L \in Nat, NEW X, NEW a \in X, NEW F,
           \A n \in 1..L, v \in X : F[<<n, v>>] \in X
    PROVE  \E g : Goes(g, L, X, a, F)
<1> USE DEF Goes
<1> DEFINE Upto(g, n) == Goes(g, n, X, a, F)
           P == {n \in Nat : n <= L => \E g : Upto(g, n)}
<1>1. 0 \in P
  <2>1. Upto([n \in 0..0 |-> a], 0)
    OBVIOUS
  <2> QED
    BY <2>1
<1>2. \A n \in P : n + 1 \in P
  <2>0. \A n \in Nat : n + 1 \in Nat
    OBVIOUS
  <2> SUFFICES ASSUME NEW n \in Nat, n <= L => \E g : Upto(g, n), n + 1 <= L
               PROVE  \E g : Upto(g, n + 1)
    BY <2>0
  <2>1. PICK g : Upto(g, n)
    OBVIOUS
  <2> DEFINE h == [k \in 0..(n + 1) |-> IF k <= n THEN g[k] ELSE F[<<k, g[k - 1]>>]]
  <2>2. \A k \in 0..n : h[k] = g[k] /\ g[k] \in X /\ k \in 0..(n + 1)
    BY <2>1
  <2>3. n + 1 \in 1..L /\ n \in 0..n /\ (n + 1) - 1 = n
    OBVIOUS
  <2>4. h[n + 1] = F[<<n + 1, g[n]>>]
    BY <2>3
  <2>5. F[<<n + 1, g[n]>>] \in X
    BY <2>2, <2>3
  <2>6. \A k \in 0..(n + 1) : k \in 0..n \/ k = n + 1
    OBVIOUS
  <2>7. h \in [0..(n + 1) -> X]
    <3>1. \A k \in 0..(n + 1) : h[k] \in X
      BY <2>2, <2>4, <2>5, <2>6
    <3> QED
      BY <3>1
  <2> HIDE DEF h
  <2>8. \A k \in 1..(n + 1) : h[k] = F[<<k, h[k - 1]>>]
    <3>1. \A k \in 1..n : k \in 0..n /\ k - 1 \in 0..n
      OBVIOUS
    <3>2. \A k \in 1..n : h[k] = F[<<k, h[k - 1]>>]
      BY <2>1, <2>2, <3>1
    <3>3. h[n + 1] = F[<<n + 1, h[n]>>]
      BY <2>2, <2>3, <2>4
    <3>4. \A k \in 1..(n + 1) : k \in 1..n \/ k = n + 1
      OBVIOUS
    <3> QED
      BY <3>2, <3>3, <3>4, <2>3
  <2>9. h[0] = a
    BY <2>1, <2>2
  <2> QED
    BY <2>7, <2>8, <2>9
<1>3. P = Nat
  <2> P \in SUBSET Nat
    OBVIOUS
  <2> HIDE DEF P
  <2> QED
    BY <1>1, <1>2, NatSets
<1>4. L \in P /\ L <= L
    BY <1>3
<1> QED
    BY <1>4

LEMMA GoesWithin ==
    ASSUME NEW L \in Nat, NEW X, NEW h, h[0] \in X,
           \A n \in 1..L : h[n - 1] \in X => h[n] \in X
    PROVE  \A n \in 0..L : h[n] \in X
<1> DEFINE P == {n \in Nat : n <= L => h[n] \in X}
<1>1. 0 \in P
    OBVIOUS
<1>2. \A n \in P : n + 1 \in P
  <2>1. ASSUME NEW n \in Nat, n <= L => h[n] \in X, n + 1 <= L
        PROVE  h[n + 1] \in X
    <3>1. n + 1 \in 1..L /\ (n + 1) - 1 = n /\ n <= L
      BY <2>1
    <3> QED
      BY <2>1, <3>1
  <2>2. \A n \in Nat : n + 1 \in Nat
    OBVIOUS
  <2> QED
    BY <2>1, <2>2
<1>3. P = Nat
  <2> P \in SUBSET Nat
    OBVIOUS
  <2> HIDE DEF P
  <2> QED
    BY <1>1, <1>2, NatSets
<1> QED
    BY <1>3

-----------------------------------------------------------------------------
(* Delays and sessions.                                                    *)

Observations ==
    [starts : Seq({"in", "out"}), delays : Seq(Int), waiting : Seq(Nat),
     previous : Seq(Nat)]

LEMMA ObserveType ==
    ASSUME NEW o \in Observations, NEW m \in Message
    PROVE  Observe(o, m) \in Observations
<1>1. m.at \in Nat /\ m.direction \in {"in", "out"}
    BY DEF Message
<1>2. /\ o.starts \in Seq({"in", "out"}) /\ o.delays \in Seq(Int)
      /\ o.waiting \in Seq(Nat)
    BY DEF Observations
<1> DEFINE w == IF NewSession(o, m) THEN <<>> ELSE o.waiting
<1>3. w \in Seq(Nat)
    BY <1>2
<1>4. w # <<>> => w[1] \in Nat
    BY <1>3
<1> HIDE DEF w
<1>5. (IF NewSession(o, m) THEN Append(o.starts, m.direction) ELSE o.starts)
        \in Seq({"in", "out"})
    BY <1>1, <1>2
<1>6. (IF m.direction = "out" /\ w # <<>> /\ m.at - w[1] \in 0..Gap
       THEN Append(o.delays, m.at - w[1]) ELSE o.delays) \in Seq(Int)
    BY <1>1, <1>2, <1>4
<1>7. (IF m.direction = "in" THEN <<m.at>> ELSE <<>>) \in Seq(Nat) /\ <<m.at>> \in Seq(Nat)
    BY <1>1
<1> QED
    BY <1>5, <1>6, <1>7, Zenon DEF Observe, Observations, w

LEMMA ObservedIs ==
    ASSUME HistoryTypeOK
    PROVE  /\ Observed \in [0..Len(chat) -> Observations]
           /\ Observed[0] = Start
           /\ \A n \in 1..Len(chat) : Observed[n] = Observe(Observed[n - 1], chat[n])
<1> DEFINE L == Len(chat)
           F == [x \in (1..L) \X Observations |-> Observe(x[2], chat[x[1]])]
           Is(g) == g = [n \in 0..L |-> IF n = 0 THEN Start ELSE Observe(g[n - 1], chat[n])]
<1>1. L \in Nat /\ \A n \in 1..L : chat[n] \in Message
    BY HistoryTypes
<1>2. Start \in Observations
    BY DEF Start, Observations
<1>3. \A n \in 1..L, o \in Observations : F[<<n, o>>] = Observe(o, chat[n])
    OBVIOUS
<1>4. \A n \in 1..L, o \in Observations : F[<<n, o>>] \in Observations
    BY <1>1, <1>3, ObserveType
<1> HIDE DEF F, L
<1>5. \E g : Goes(g, L, Observations, Start, F)
    BY <1>1, <1>2, <1>4, Recursion
<1>6. PICK g \in [0..L -> Observations] :
         g[0] = Start /\ \A n \in 1..L : g[n] = F[<<n, g[n - 1]>>]
    BY <1>5 DEF Goes
<1>7. \A n \in 1..L : n - 1 \in 0..L /\ g[n - 1] \in Observations
    BY <1>1
<1>8. \A n \in 1..L : g[n] = Observe(g[n - 1], chat[n])
    BY <1>3, <1>6, <1>7
<1>9. \A n \in 0..L : n = 0 \/ (n # 0 /\ n \in 1..L)
    BY <1>1
<1>10. Is(g)
    BY <1>6, <1>8, <1>9
<1>11. Observed = CHOOSE h : Is(h)
    BY Zenon DEF Observed, L
<1>12. Is(Observed)
    BY <1>10, <1>11, Zenon
<1> HIDE DEF Is
<1>13. \A h : Is(h) => /\ h[0] = Start
                       /\ \A n \in 1..L : h[n] = Observe(h[n - 1], chat[n])
  <2>1. 0 \in 0..L /\ \A n \in 1..L : n \in 0..L /\ n # 0
    BY <1>1
  <2> QED
    BY <2>1 DEF Is
<1>14. \A h : Is(h) => DOMAIN h = 0..L /\ h = [n \in 0..L |-> h[n]]
    BY DEF Is
<1>15. \A n \in 0..L : Observed[n] \in Observations
  <2>1. \A n \in 1..L : Observed[n - 1] \in Observations => Observed[n] \in Observations
    BY <1>1, <1>12, <1>13, ObserveType
  <2> QED
    BY <1>1, <1>2, <1>12, <1>13, <2>1, GoesWithin
<1>16. Observed \in [0..L -> Observations]
    BY <1>12, <1>14, <1>15
<1> QED
    BY <1>12, <1>13, <1>16 DEF L

Joins(i) == chat[i + 1].at - chat[i].at <= Gap
PairsTo(n) == {i \in 1..(n - 1) : /\ Joins(i)
                                  /\ chat[i].direction = "in"
                                  /\ chat[i + 1].direction = "out"}
StartsTo(n) == {i \in 1..n : i = 1 \/ ~Joins(i - 1)}
DelaysOf(I) ==
    [k \in 1..Cardinality(I) |-> chat[Up(I)[k] + 1].at - chat[Up(I)[k]].at]
SidesOf(I) == [k \in 1..Cardinality(I) |-> chat[Up(I)[k]].direction]

\* What the pass has after n messages.
SeenTo(n) ==
    /\ Observed[n].delays = DelaysOf(PairsTo(n))
    /\ Observed[n].starts = SidesOf(StartsTo(n))
    /\ Observed[n].previous = IF n = 0 THEN <<>> ELSE <<chat[n].at>>
    /\ Observed[n].waiting =
         IF n = 0 THEN <<>>
         ELSE IF chat[n].direction = "in" THEN <<chat[n].at>> ELSE <<>>

LEMMA AppendIs ==
    ASSUME NEW c \in Nat, NEW q, NEW x
    PROVE  Append([k \in 1..c |-> q[k]], x)
             = [k \in 1..(c + 1) |-> IF k = c + 1 THEN x ELSE q[k]]
<1> DEFINE S == {q[k] : k \in 1..c} \cup {x}
           s == [k \in 1..c |-> q[k]]
<1>1. s \in Seq(S) /\ Len(s) = c /\ \A k \in 1..c : s[k] = q[k]
  <2>1. s \in [1..c -> S]
    OBVIOUS
  <2> QED
    BY <2>1
<1>2. x \in S
    OBVIOUS
<1> HIDE DEF S, s
<1>3. /\ Append(s, x) \in Seq(S) /\ Len(Append(s, x)) = c + 1
      /\ Append(s, x)[c + 1] = x /\ \A k \in 1..c : Append(s, x)[k] = s[k]
    BY <1>1, <1>2
<1>4. Append(s, x) = [k \in 1..(c + 1) |-> Append(s, x)[k]]
  <2>1. \A t \in Seq(S) : DOMAIN t = 1..Len(t) /\ t = [k \in DOMAIN t |-> t[k]]
    OBVIOUS
  <2> QED
    BY <1>3, <2>1, Zenon
<1>5. \A k \in 1..(c + 1) : Append(s, x)[k] = IF k = c + 1 THEN x ELSE q[k]
  <2>1. \A k \in 1..(c + 1) : k \in 1..c \/ k = c + 1
    OBVIOUS
  <2>2. c + 1 \notin 1..c
    OBVIOUS
  <2> QED
    BY <1>1, <1>3, <2>1, <2>2
<1> QED
    BY <1>4, <1>5, Zenon DEF s

LEMMA OfLast ==
    ASSUME NEW N \in Nat, NEW I \in SUBSET (0..N), NEW m \in Nat, \A i \in I : i < m
    PROVE  /\ DelaysOf(I \cup {m}) = Append(DelaysOf(I), chat[m + 1].at - chat[m].at)
           /\ SidesOf(I \cup {m}) = Append(SidesOf(I), chat[m].direction)
<1> DEFINE c == Cardinality(I)
           e == Up(I)
           d == Cardinality(I \cup {m})
           f == Up(I \cup {m})
<1>1. /\ c \in Nat /\ d = c + 1 /\ f[c + 1] = m
      /\ \A k \in 1..c : f[k] = e[k]
    BY UpLast, Zenon
<1> HIDE DEF c, d, e, f
<1>2. \A k \in 1..(c + 1) : k \in 1..c \/ k = c + 1
    BY <1>1
<1>3. DelaysOf(I) = [k \in 1..c |-> chat[e[k] + 1].at - chat[e[k]].at]
    BY DEF DelaysOf, c, e
<1>4. DelaysOf(I \cup {m}) = [k \in 1..d |-> chat[f[k] + 1].at - chat[f[k]].at]
    BY DEF DelaysOf, d, f
<1>5. SidesOf(I) = [k \in 1..c |-> chat[e[k]].direction]
    BY DEF SidesOf, c, e
<1>6. SidesOf(I \cup {m}) = [k \in 1..d |-> chat[f[k]].direction]
    BY DEF SidesOf, d, f
<1>7. \A k \in 1..c : k # c + 1
    BY <1>1
<1>8. DelaysOf(I \cup {m}) = Append(DelaysOf(I), chat[m + 1].at - chat[m].at)
  <2> DEFINE q == [k \in 1..c |-> chat[e[k] + 1].at - chat[e[k]].at]
             x == chat[m + 1].at - chat[m].at
  <2>1. \A k \in 1..c : q[k] = chat[e[k] + 1].at - chat[e[k]].at
    OBVIOUS
  <2>2. q = [k \in 1..c |-> q[k]]
    OBVIOUS
  <2>3. \A k \in 1..(c + 1) :
           chat[f[k] + 1].at - chat[f[k]].at = IF k = c + 1 THEN x ELSE q[k]
    BY <1>1, <1>2, <1>7, <2>1
  <2> HIDE DEF q, x
  <2>4. Append(q, x) = [k \in 1..(c + 1) |-> IF k = c + 1 THEN x ELSE q[k]]
    <3>1. Append([k \in 1..c |-> q[k]], x)
            = [k \in 1..(c + 1) |-> IF k = c + 1 THEN x ELSE q[k]]
      BY <1>1, AppendIs
    <3> QED
      BY <2>2, <3>1
  <2>5. DelaysOf(I) = q
    BY <1>3 DEF q
  <2>6. DelaysOf(I \cup {m}) =
          [k \in 1..(c + 1) |-> chat[f[k] + 1].at - chat[f[k]].at]
    BY <1>1, <1>4, Zenon
  <2>7. DelaysOf(I \cup {m}) = [k \in 1..(c + 1) |-> IF k = c + 1 THEN x ELSE q[k]]
    BY <2>3, <2>6, Zenon
  <2> QED
    BY <2>4, <2>5, <2>7 DEF x
<1>9. SidesOf(I \cup {m}) = Append(SidesOf(I), chat[m].direction)
  <2> DEFINE q == [k \in 1..c |-> chat[e[k]].direction]
             x == chat[m].direction
  <2>1. \A k \in 1..c : q[k] = chat[e[k]].direction
    OBVIOUS
  <2>2. q = [k \in 1..c |-> q[k]]
    OBVIOUS
  <2>3. \A k \in 1..(c + 1) : chat[f[k]].direction = IF k = c + 1 THEN x ELSE q[k]
    BY <1>1, <1>2, <1>7, <2>1
  <2> HIDE DEF q, x
  <2>4. Append(q, x) = [k \in 1..(c + 1) |-> IF k = c + 1 THEN x ELSE q[k]]
    <3>1. Append([k \in 1..c |-> q[k]], x)
            = [k \in 1..(c + 1) |-> IF k = c + 1 THEN x ELSE q[k]]
      BY <1>1, AppendIs
    <3> QED
      BY <2>2, <3>1
  <2> QED
    BY <1>1, <1>5, <1>6, <2>3, <2>4, Zenon DEF q, x
<1> QED
    BY <1>8, <1>9

LEMMA SeenStep ==
    ASSUME HistoryTypeOK, ChatInOrder, NEW n \in Nat, n + 1 <= Len(chat), SeenTo(n)
    PROVE  SeenTo(n + 1)
<1> DEFINE o == Observed[n]
           m == chat[n + 1]
           w == IF NewSession(o, m) THEN <<>> ELSE o.waiting
<1>1. /\ n + 1 \in 1..Len(chat) /\ (n + 1) - 1 = n /\ n + 1 # 0
      /\ m \in Message /\ m.at \in Nat /\ m.direction \in {"in", "out"}
      /\ n # 0 => /\ n \in 1..Len(chat) /\ chat[n].at \in Nat
                  /\ chat[n].direction \in {"in", "out"}
                  /\ chat[n].at <= m.at
    BY HistoryTypes DEF ChatInOrder
<1>2. Observed[n + 1] = Observe(o, m)
    BY <1>1, ObservedIs
<1>3. /\ o.delays = DelaysOf(PairsTo(n))
      /\ o.starts = SidesOf(StartsTo(n))
      /\ o.previous = IF n = 0 THEN <<>> ELSE <<chat[n].at>>
      /\ o.waiting = IF n = 0 THEN <<>>
                     ELSE IF chat[n].direction = "in" THEN <<chat[n].at>> ELSE <<>>
    BY DEF SeenTo
<1>4. NewSession(o, m) <=> n = 0 \/ ~Joins(n)
  <2>1. n = 0 => o.previous = <<>>
    BY <1>3
  <2>2. n # 0 => o.previous = <<chat[n].at>> /\ <<chat[n].at>> # <<>>
                 /\ <<chat[n].at>>[1] = chat[n].at
    BY <1>3
  <2>3. n # 0 => (m.at - chat[n].at > Gap <=> ~Joins(n))
    BY <1>1, HistoryAssumption DEF Joins
  <2> QED
    BY <2>1, <2>2, <2>3 DEF NewSession
<1>5. (m.direction = "out" /\ w # <<>> /\ m.at - w[1] \in 0..Gap)
        <=> n # 0 /\ Joins(n) /\ chat[n].direction = "in" /\ m.direction = "out"
  <2>1. CASE n = 0 \/ ~Joins(n)
    BY <1>4, <2>1
  <2>2. CASE n # 0 /\ Joins(n) /\ chat[n].direction = "in"
    <3>1. w = <<chat[n].at>> /\ w # <<>> /\ w[1] = chat[n].at
      BY <1>3, <1>4, <2>2
    <3> HIDE DEF w
    <3>2. Joins(n) <=> m.at - chat[n].at \in 0..Gap
      BY <1>1, <2>2, HistoryAssumption DEF Joins
    <3> QED
      BY <2>2, <3>1, <3>2
  <2>3. CASE n # 0 /\ Joins(n) /\ chat[n].direction # "in"
    BY <1>3, <1>4, <2>3
  <2> QED
    BY <2>1, <2>2, <2>3
<1>6. n # 0 /\ Joins(n) /\ chat[n].direction = "in" => w[1] = chat[n].at
    BY <1>3, <1>4
<1>7. Observed[n + 1] =
        [starts |-> IF NewSession(o, m) THEN Append(o.starts, m.direction) ELSE o.starts,
         delays |-> IF m.direction = "out" /\ w # <<>> /\ m.at - w[1] \in 0..Gap
                    THEN Append(o.delays, m.at - w[1]) ELSE o.delays,
         waiting |-> IF m.direction = "in" THEN <<m.at>> ELSE <<>>,
         previous |-> <<m.at>>]
    BY <1>2, Zenon DEF Observe
<1> HIDE DEF w
<1>8. Observed[n + 1].delays = DelaysOf(PairsTo(n + 1))
  <2>1. CASE n # 0 /\ Joins(n) /\ chat[n].direction = "in" /\ m.direction = "out"
    <3>1. PairsTo(n + 1) = PairsTo(n) \cup {n}
      <4>1. \A i \in 1..n : i \in 1..(n - 1) \/ i = n
        OBVIOUS
      <4>2. n \in 1..n /\ \A i \in 1..(n - 1) : i \in 1..n
        BY <2>1
      <4> QED
        BY <1>1, <2>1, <4>1, <4>2 DEF PairsTo
    <3>2. PairsTo(n) \in SUBSET (0..n) /\ \A i \in PairsTo(n) : i < n
      BY DEF PairsTo
    <3>3. DelaysOf(PairsTo(n + 1)) = Append(DelaysOf(PairsTo(n)), m.at - chat[n].at)
      BY <3>1, <3>2, OfLast
    <3>4. Observed[n + 1].delays = Append(o.delays, m.at - chat[n].at)
      BY <1>5, <1>6, <1>7, <2>1
    <3> QED
      BY <1>3, <3>3, <3>4
  <2>2. CASE ~ (n # 0 /\ Joins(n) /\ chat[n].direction = "in" /\ m.direction = "out")
    <3>1. PairsTo(n + 1) = PairsTo(n)
      <4>1. \A i \in 1..n : i \in 1..(n - 1) \/ (i = n /\ n # 0)
        OBVIOUS
      <4>2. \A i \in 1..(n - 1) : i \in 1..n
        OBVIOUS
      <4> QED
        BY <1>1, <2>2, <4>1, <4>2 DEF PairsTo
    <3>2. Observed[n + 1].delays = o.delays
      BY <1>5, <1>7, <2>2
    <3> QED
      BY <1>3, <3>1, <3>2
  <2> QED
    BY <2>1, <2>2
<1>9. Observed[n + 1].starts = SidesOf(StartsTo(n + 1))
  <2>0. \A i \in 1..(n + 1) : i \in 1..n \/ i = n + 1
    OBVIOUS
  <2>1. \A i \in 1..n : i \in 1..(n + 1)
    OBVIOUS
  <2>2. CASE NewSession(o, m)
    <3>1. StartsTo(n + 1) = StartsTo(n) \cup {n + 1}
      BY <1>1, <1>4, <2>0, <2>1, <2>2 DEF StartsTo
    <3>2. StartsTo(n) \in SUBSET (0..n) /\ \A i \in StartsTo(n) : i < n + 1
      BY DEF StartsTo
    <3>3. SidesOf(StartsTo(n + 1)) = Append(SidesOf(StartsTo(n)), m.direction)
      <4>1. n + 1 \in Nat
        OBVIOUS
      <4>2. SidesOf(StartsTo(n) \cup {n + 1}) = Append(SidesOf(StartsTo(n)), m.direction)
        BY <4>1, <3>2, OfLast, Zenon
      <4> QED
        BY <3>1, <4>2
    <3>4. Observed[n + 1].starts = Append(o.starts, m.direction)
      BY <1>7, <2>2
    <3> QED
      BY <1>3, <3>3, <3>4
  <2>3. CASE ~NewSession(o, m)
    <3>1. StartsTo(n + 1) = StartsTo(n)
      <4>1. n + 1 # 1
        BY <1>4, <2>3
      <4> QED
        BY <1>1, <1>4, <2>0, <2>1, <2>3, <4>1 DEF StartsTo
    <3>2. Observed[n + 1].starts = o.starts
      BY <1>7, <2>3
    <3> QED
      BY <1>3, <3>1, <3>2
  <2> QED
    BY <2>2, <2>3
<1>10. /\ Observed[n + 1].previous = <<m.at>>
       /\ Observed[n + 1].waiting = IF m.direction = "in" THEN <<m.at>> ELSE <<>>
    BY <1>7
<1> QED
    BY <1>1, <1>8, <1>9, <1>10 DEF SeenTo

LEMMA SeenAll ==
    ASSUME HistoryTypeOK, ChatInOrder
    PROVE  SeenTo(Len(chat))
<1> DEFINE P == {n \in Nat : n <= Len(chat) => SeenTo(n)}
<1>1. 0 \in P
  <2>1. \A I : I = {} => DelaysOf(I) = <<>> /\ SidesOf(I) = <<>>
    BY FS_EmptySet DEF DelaysOf, SidesOf
  <2>2. PairsTo(0) = {} /\ StartsTo(0) = {}
    BY DEF PairsTo, StartsTo
  <2>3. Observed[0] = Start
    BY ObservedIs
  <2>4. SeenTo(0)
    BY <2>1, <2>2, <2>3 DEF SeenTo, Start
  <2> QED
    BY <2>4
<1>2. \A n \in P : n + 1 \in P
  <2>1. Len(chat) \in Nat
    BY HistoryTypes
  <2>2. ASSUME NEW n \in Nat, n <= Len(chat) => SeenTo(n), n + 1 <= Len(chat)
        PROVE  SeenTo(n + 1)
    BY <2>1, <2>2, SeenStep
  <2>3. \A n \in Nat : n + 1 \in Nat
    OBVIOUS
  <2> QED
    BY <2>2, <2>3
<1>3. P = Nat
  <2> P \in SUBSET Nat
    OBVIOUS
  <2> HIDE DEF P
  <2> QED
    BY <1>1, <1>2, NatSets
<1>4. Len(chat) \in P /\ Len(chat) <= Len(chat)
    BY <1>3, HistoryTypes
<1> QED
    BY <1>4

LEMMA DelaysAre ==
    ASSUME HistoryTypeOK, ChatInOrder
    PROVE  DelaysArePairs
<1>1. DOMAIN chat = 1..Len(chat)
    BY HistoryTypes
<1>2. /\ Observation.delays = DelaysOf(PairsTo(Len(chat)))
      /\ Observation.starts = SidesOf(StartsTo(Len(chat)))
    BY SeenAll DEF SeenTo, Observation
<1>3. \A I : DelaysOf(I) = [n \in 1..Cardinality(I) |->
                LET i == Sorted(I, <)[n] IN chat[i + 1].at - chat[i].at]
    BY Zenon DEF DelaysOf, Up
<1>4. \A I : SidesOf(I) = [n \in 1..Cardinality(I) |-> chat[Sorted(I, <)[n]].direction]
    BY Zenon DEF SidesOf, Up
<1> QED
    BY <1>1, <1>2, <1>3, <1>4, Zenon DEF DelaysArePairs, PairsTo, StartsTo, Joins

-----------------------------------------------------------------------------
(* The days and their baselines.                                           *)

LEMMA Bounded ==
    \A L \in Nat : \A f \in [1..L -> Nat] : \E b \in Nat : \A i \in 1..L : f[i] <= b
<1> DEFINE P == {L \in Nat : \A f \in [1..L -> Nat] : \E b \in Nat :
                                \A i \in 1..L : f[i] <= b}
<1>1. 0 \in P
    OBVIOUS
<1>2. \A L \in P : L + 1 \in P
  <2>0. \A L \in Nat : L + 1 \in Nat
    OBVIOUS
  <2> SUFFICES ASSUME NEW L \in Nat,
                      \A f \in [1..L -> Nat] : \E b \in Nat : \A i \in 1..L : f[i] <= b,
                      NEW f \in [1..(L + 1) -> Nat]
               PROVE  \E b \in Nat : \A i \in 1..(L + 1) : f[i] <= b
    BY <2>0
  <2> DEFINE g == [i \in 1..L |-> f[i]]
  <2>1. g \in [1..L -> Nat] /\ \A i \in 1..L : g[i] = f[i]
    OBVIOUS
  <2> HIDE DEF g
  <2>2. PICK b \in Nat : \A i \in 1..L : f[i] <= b
    BY <2>1
  <2>3. f[L + 1] \in Nat
    OBVIOUS
  <2>4. \A i \in 1..(L + 1) : (i \in 1..L \/ i = L + 1) /\ f[i] \in Nat
    OBVIOUS
  <2>5. \A i \in 1..(L + 1) : f[i] <= b + f[L + 1]
    BY <2>2, <2>3, <2>4
  <2>6. b + f[L + 1] \in Nat
    BY <2>3
  <2> QED
    BY <2>5, <2>6
<1>3. P = Nat
  <2> P \in SUBSET Nat
    OBVIOUS
  <2> HIDE DEF P
  <2> QED
    BY <1>1, <1>2, NatSets
<1> QED
    BY <1>3

LEMMA DaysAre ==
    ASSUME HistoryTypeOK
    PROVE  /\ Len(Days) \in Nat /\ DOMAIN Days = 1..Len(Days)
           /\ \A n \in 1..Len(Days) : Days[n] \in Nat
           /\ \A i, j \in 1..Len(Days) : i < j => Days[i] < Days[j]
<1> DEFINE L == Len(chat)
           I == {Day(chat[i]) : i \in {j \in DOMAIN chat : chat[j].direction = "out"}}
           f == [i \in 1..L |-> Day(chat[i])]
<1>1. L \in Nat /\ DOMAIN chat = 1..L
    BY HistoryTypes
<1>2. \A i \in 1..L : Day(chat[i]) \in Nat
  <2>1. \A i \in 1..L : chat[i].at \in Nat
    BY HistoryTypes
  <2>2. \A a, d \in Nat : d # 0 => a \div d \in Nat
    OBVIOUS
  <2> QED
    BY <2>1, <2>2, HistoryAssumption DEF Day
<1>3. f \in [1..L -> Nat] /\ \A i \in 1..L : f[i] = Day(chat[i])
    BY <1>2
<1> HIDE DEF f
<1>4. PICK b \in Nat : \A i \in 1..L : f[i] <= b
    BY <1>1, <1>3, Bounded
<1>5. I \in SUBSET (0..b)
    BY <1>1, <1>2, <1>3, <1>4
<1> HIDE DEF I
<1>6. Days = Up(I)
    BY Zenon DEF Days, Up, I
<1>7. Rises(Days, Cardinality(I), I)
    BY <1>5, <1>6, UpRises, Zenon
<1>8. /\ Cardinality(I) \in Nat /\ Days \in [1..Cardinality(I) -> I]
      /\ \A i, j \in 1..Cardinality(I) : i < j => Days[i] < Days[j]
    BY <1>7 DEF Rises
<1>9. Len(Days) = Cardinality(I) /\ DOMAIN Days = 1..Cardinality(I)
    BY <1>8
<1>10. \A x \in I : x \in Nat
    BY <1>5
<1>11. \A n \in 1..Cardinality(I) : Days[n] \in Nat
    BY <1>8, <1>10
<1> QED
    BY <1>8, <1>9, <1>11

\* The numbers of a sequence go up.
GoesUp(s) == \A i, j \in DOMAIN s : i < j => s[i] < s[j]

LEMMA PickedIs ==
    ASSUME NEW s \in Seq(Nat), NEW I \in SUBSET (DOMAIN s)
    PROVE  /\ Picked(s, I) \in Seq(Nat)
           /\ Range(Picked(s, I)) = {s[i] : i \in I}
           /\ GoesUp(s) => GoesUp(Picked(s, I))
<1> DEFINE n == Cardinality(I)
           e == Up(I)
<1>1. Len(s) \in Nat /\ DOMAIN s = 1..Len(s) /\ I \in SUBSET (0..Len(s))
    OBVIOUS
<1>2. Rises(e, n, I)
    BY <1>1, UpRises
<1>3. Picked(s, I) = [k \in 1..n |-> s[e[k]]]
    BY Zenon DEF Picked, Up
<1> HIDE DEF n, e
<1>4. n \in Nat /\ \A k \in 1..n : e[k] \in I
    BY <1>2 DEF Rises
<1>5. \A x \in I : \E k \in 1..n : e[k] = x
    BY <1>2 DEF Rises
<1>6. \A i \in I : s[i] \in Nat
    BY <1>1
<1>7. Picked(s, I) \in [1..n -> Nat]
    BY <1>3, <1>4, <1>6
<1>8. Picked(s, I) \in Seq(Nat)
    BY <1>4, <1>7
<1>9. Range(Picked(s, I)) = {s[e[k]] : k \in 1..n}
    BY <1>3 DEF Range
<1>10. {s[e[k]] : k \in 1..n} = {s[i] : i \in I}
    BY <1>4, <1>5
<1>11. GoesUp(s) => GoesUp(Picked(s, I))
  <2>1. \A i, j \in 1..n : i < j => e[i] < e[j]
    BY <1>2 DEF Rises
  <2>2. \A k \in 1..n : e[k] \in DOMAIN s
    BY <1>4
  <2> QED
    BY <1>3, <2>1, <2>2 DEF GoesUp
<1> QED
    BY <1>8, <1>9, <1>10, <1>11

LEMMA RecentIs ==
    ASSUME NEW q \in Seq(Nat), NEW d \in Nat
    PROVE  /\ Recent(q, d) \in Seq(Nat)
           /\ GoesUp(q) =>
                /\ GoesUp(Recent(q, d))
                /\ Range(Recent(q, d)) = {x \in Range(q) : x + Baseline >= d}
<1> DEFINE I == {i \in DOMAIN q : \E j \in 1..i : q[j] + Baseline >= d}
<1>1. I \in SUBSET (DOMAIN q)
    OBVIOUS
<1>2. /\ Recent(q, d) \in Seq(Nat)
      /\ Range(Recent(q, d)) = {q[i] : i \in I}
      /\ GoesUp(q) => GoesUp(Recent(q, d))
    BY <1>1, PickedIs DEF Recent
<1>3. ASSUME GoesUp(q)
      PROVE  {q[i] : i \in I} = {x \in Range(q) : x + Baseline >= d}
  <2>1. DOMAIN q = 1..Len(q) /\ Len(q) \in Nat /\ \A i \in 1..Len(q) : q[i] \in Nat
    OBVIOUS
  <2>2. ASSUME NEW i \in 1..Len(q)
        PROVE  i \in I <=> q[i] + Baseline >= d
    <3>1. \A j \in 1..i : j \in 1..Len(q) /\ (j < i \/ j = i)
      BY <2>1
    <3>2. ASSUME NEW j \in 1..i PROVE q[j] <= q[i]
      <4>1. j \in 1..Len(q) /\ q[j] \in Nat /\ q[i] \in Nat
        BY <2>1, <3>1
      <4>2. j < i => q[j] < q[i]
        BY <1>3, <2>1, <4>1 DEF GoesUp
      <4> QED
        BY <3>1, <4>1, <4>2
    <3>3. i \in 1..i
      BY <2>1
    <3>4. (\E j \in 1..i : q[j] + Baseline >= d) <=> q[i] + Baseline >= d
      BY <2>1, <3>1, <3>2, <3>3, HistoryAssumption
    <3> QED
      BY <2>1, <3>4
  <2>3. I = {i \in 1..Len(q) : q[i] + Baseline >= d}
    BY <2>1, <2>2
  <2> QED
    BY <2>1, <2>3 DEF Range
<1> QED
    BY <1>2, <1>3

LEMMA RangeAppend ==
    ASSUME NEW q \in Seq(Nat), NEW d \in Nat
    PROVE  Append(q, d) \in Seq(Nat) /\ Range(Append(q, d)) = Range(q) \cup {d}
<1>1. /\ Append(q, d) \in Seq(Nat) /\ Len(q) \in Nat /\ Len(Append(q, d)) = Len(q) + 1
      /\ DOMAIN q = 1..Len(q) /\ DOMAIN Append(q, d) = 1..(Len(q) + 1)
      /\ Append(q, d)[Len(q) + 1] = d
      /\ \A i \in 1..Len(q) : Append(q, d)[i] = q[i]
    OBVIOUS
<1>2. \A i \in 1..(Len(q) + 1) : i \in 1..Len(q) \/ i = Len(q) + 1
    OBVIOUS
<1>3. Len(q) + 1 \in 1..(Len(q) + 1) /\ \A i \in 1..Len(q) : i \in 1..(Len(q) + 1)
    BY <1>1
<1> QED
    BY <1>1, <1>2, <1>3 DEF Range

LEMMA UpAppend ==
    ASSUME NEW q \in Seq(Nat), NEW d \in Nat, GoesUp(q), \A x \in Range(q) : x < d
    PROVE  GoesUp(Append(q, d))
<1>1. /\ Len(q) \in Nat
      /\ DOMAIN q = 1..Len(q) /\ DOMAIN Append(q, d) = 1..(Len(q) + 1)
      /\ Append(q, d)[Len(q) + 1] = d
      /\ \A i \in 1..Len(q) : Append(q, d)[i] = q[i]
    OBVIOUS
<1>2. \A i \in 1..Len(q) : q[i] < d
    BY <1>1 DEF Range
<1>3. \A i, j \in 1..(Len(q) + 1) :
         i < j => i \in 1..Len(q) /\ (j \in 1..Len(q) \/ j = Len(q) + 1)
    BY <1>1
<1> QED
    BY <1>1, <1>2, <1>3 DEF GoesUp

Walks == [queue : Seq(Nat), seen : Seq(Seq(Nat))]

LEMMA CompareType ==
    ASSUME NEW w \in Walks, NEW d \in Nat
    PROVE  Compare(w, d) \in Walks
<1>1. w.queue \in Seq(Nat) /\ w.seen \in Seq(Seq(Nat))
    BY DEF Walks
<1>2. Recent(w.queue, d) \in Seq(Nat)
    BY <1>1, RecentIs
<1>3. (IF Valid(d) THEN Append(Recent(w.queue, d), d) ELSE Recent(w.queue, d)) \in Seq(Nat)
    BY <1>2
<1>4. Append(w.seen, IF Valid(d) THEN Recent(w.queue, d) ELSE <<>>) \in Seq(Seq(Nat))
  <2>1. (IF Valid(d) THEN Recent(w.queue, d) ELSE <<>>) \in Seq(Nat)
    BY <1>2
  <2> HIDE DEF Recent
  <2> QED
    BY <1>1, <2>1
<1> QED
    BY <1>3, <1>4, Zenon DEF Compare, Walks

LEMMA WalkIs ==
    ASSUME HistoryTypeOK
    PROVE  /\ Walk \in [0..Len(Days) -> Walks]
           /\ Walk[0] = [queue |-> <<>>, seen |-> <<>>]
           /\ \A n \in 1..Len(Days) : Walk[n] = Compare(Walk[n - 1], Days[n])
<1> DEFINE L == Len(Days)
           a == [queue |-> <<>>, seen |-> <<>>]
           F == [x \in (1..L) \X Walks |-> Compare(x[2], Days[x[1]])]
           Is(g) == g = [n \in 0..L |-> IF n = 0 THEN [queue |-> <<>>, seen |-> <<>>]
                                        ELSE Compare(g[n - 1], Days[n])]
<1>1. L \in Nat /\ \A n \in 1..L : Days[n] \in Nat
    BY DaysAre
<1>2. a \in Walks
    BY DEF Walks
<1>3. \A n \in 1..L, o \in Walks : F[<<n, o>>] = Compare(o, Days[n])
    OBVIOUS
<1>4. \A n \in 1..L, o \in Walks : F[<<n, o>>] \in Walks
    BY <1>1, <1>3, CompareType
<1> HIDE DEF F, L
<1>5. \E g : Goes(g, L, Walks, a, F)
    BY <1>1, <1>2, <1>4, Recursion
<1>6. PICK g \in [0..L -> Walks] :
         g[0] = a /\ \A n \in 1..L : g[n] = F[<<n, g[n - 1]>>]
    BY <1>5 DEF Goes
<1>7. \A n \in 1..L : n - 1 \in 0..L /\ g[n - 1] \in Walks
    BY <1>1
<1>8. \A n \in 1..L : g[n] = Compare(g[n - 1], Days[n])
    BY <1>3, <1>6, <1>7
<1>9. \A n \in 0..L : n = 0 \/ (n # 0 /\ n \in 1..L)
    BY <1>1
<1>10. Is(g)
    BY <1>6, <1>8, <1>9
<1>11. Walk = CHOOSE h : Is(h)
    BY Zenon DEF Walk, L
<1>12. Is(Walk)
    BY <1>10, <1>11, Zenon
<1> HIDE DEF Is
<1>13. \A h : Is(h) => /\ h[0] = a
                       /\ \A n \in 1..L : h[n] = Compare(h[n - 1], Days[n])
  <2>1. 0 \in 0..L /\ \A n \in 1..L : n \in 0..L /\ n # 0
    BY <1>1
  <2> QED
    BY <2>1 DEF Is
<1>14. \A h : Is(h) => DOMAIN h = 0..L /\ h = [n \in 0..L |-> h[n]]
    BY DEF Is
<1>15. \A n \in 0..L : Walk[n] \in Walks
  <2>1. \A n \in 1..L : Walk[n - 1] \in Walks => Walk[n] \in Walks
    BY <1>1, <1>12, <1>13, CompareType
  <2> HIDE DEF a
  <2> QED
    BY <1>1, <1>2, <1>12, <1>13, <2>1, GoesWithin
<1>16. Walk \in [0..L -> Walks]
    BY <1>12, <1>14, <1>15
<1> QED
    BY <1>12, <1>13, <1>16 DEF L

BaseOf(n) ==
    IF ~Valid(Days[n]) THEN {}
    ELSE {d \in Range(Days) : d < Days[n] /\ d + Baseline >= Days[n] /\ Valid(d)}
ValidTo(n, d) == {m \in 1..n : Valid(Days[m]) /\ Days[m] + Baseline >= d}

\* What the queue has after n days, and what they were compared with.
WalkedTo(n) ==
    /\ GoesUp(Walk[n].queue)
    /\ Range(Walk[n].queue) = {Days[m] : m \in ValidTo(n, Days[n])}
    /\ Len(Walk[n].seen) = n
    /\ \A k \in 1..n : Range(Walk[n].seen[k]) = BaseOf(k)

LEMMA WalkedStep ==
    ASSUME HistoryTypeOK, NEW n \in Nat, n + 1 <= Len(Days), WalkedTo(n)
    PROVE  WalkedTo(n + 1)
<1> DEFINE w == Walk[n]
           d == Days[n + 1]
           q == Recent(w.queue, d)
           L == Len(Days)
<1>1. /\ L \in Nat /\ DOMAIN Days = 1..L /\ n + 1 \in 1..L /\ (n + 1) - 1 = n /\ n \in 0..L
      /\ \A m \in 1..n : m \in 1..L
      /\ d \in Nat /\ \A m \in 1..L : Days[m] \in Nat
      /\ \A i, j \in 1..L : i < j => Days[i] < Days[j]
    BY DaysAre
<1>2. /\ w.queue \in Seq(Nat) /\ w.seen \in Seq(Seq(Nat))
  <2>1. Walk[n] \in Walks
    BY <1>1, WalkIs
  <2> QED
    BY <2>1 DEF Walks
<1>3. Walk[n + 1] = Compare(w, d)
    BY <1>1, WalkIs
<1>4. /\ GoesUp(w.queue)
      /\ Range(w.queue) = {Days[m] : m \in ValidTo(n, Days[n])}
      /\ Len(w.seen) = n
      /\ \A k \in 1..n : Range(w.seen[k]) = BaseOf(k)
    BY DEF WalkedTo
<1> HIDE DEF w, d, L
<1>5. /\ q \in Seq(Nat) /\ GoesUp(q)
      /\ Range(q) = {x \in Range(w.queue) : x + Baseline >= d}
    BY <1>1, <1>2, <1>4, RecentIs
<1> HIDE DEF q
<1>6. Range(q) = {Days[m] : m \in ValidTo(n, d)}
  <2>1. ASSUME NEW m \in ValidTo(n, d) PROVE m \in ValidTo(n, Days[n])
    <3>1. m \in 1..n /\ n \in 1..L /\ n < n + 1
      BY <1>1 DEF ValidTo
    <3>2. Days[n] < d /\ Days[n] \in Nat /\ Days[m] \in Nat
      BY <1>1, <3>1 DEF d
    <3> QED
      BY <1>1, <3>1, <3>2, HistoryAssumption DEF ValidTo
  <2>2. \A m \in ValidTo(n, Days[n]) : m \in ValidTo(n, d) <=> Days[m] + Baseline >= d
    BY DEF ValidTo
  <2> QED
    BY <1>4, <1>5, <2>1, <2>2
<1>7. \A m \in 1..L : Days[m] < d <=> m \in 1..n
  <2> TAKE m \in 1..L
  <2>1. m < n + 1 => Days[m] < d
    BY <1>1 DEF d
  <2>2. n + 1 < m => d < Days[m]
    BY <1>1 DEF d
  <2>3. m = n + 1 => Days[m] = d
    BY DEF d
  <2> QED
    BY <1>1, <2>1, <2>2, <2>3
<1>8. Range(Days) = {Days[m] : m \in 1..L}
    BY <1>1 DEF Range
<1>9. {x \in Range(Days) : x < d /\ x + Baseline >= d /\ Valid(x)}
        = {Days[m] : m \in ValidTo(n, d)}
    BY <1>1, <1>7, <1>8 DEF ValidTo
<1>10. Walk[n + 1] = [queue |-> IF Valid(d) THEN Append(q, d) ELSE q,
                      seen |-> Append(w.seen, IF Valid(d) THEN q ELSE <<>>)]
    BY <1>3, Zenon DEF Compare, q
<1>11. BaseOf(n + 1) = IF ~Valid(d) THEN {} ELSE Range(q)
    BY <1>6, <1>9, Zenon DEF BaseOf, d
<1>12. Range(Walk[n + 1].queue) = {Days[m] : m \in ValidTo(n + 1, d)}
  <2>1. \A m \in 1..(n + 1) : m \in 1..n \/ m = n + 1
    OBVIOUS
  <2>2. n + 1 \in 1..(n + 1) /\ \A m \in 1..n : m \in 1..(n + 1)
    OBVIOUS
  <2>3. Days[n + 1] = d /\ d + Baseline >= d
    BY <1>1, HistoryAssumption DEF d
  <2>4. CASE Valid(d)
    <3>1. ValidTo(n + 1, d) = ValidTo(n, d) \cup {n + 1}
      BY <2>1, <2>2, <2>3, <2>4 DEF ValidTo
    <3>2. Range(Append(q, d)) = Range(q) \cup {d}
      BY <1>1, <1>5, RangeAppend
    <3>3. {Days[m] : m \in ValidTo(n + 1, d)}
            = {Days[m] : m \in ValidTo(n, d)} \cup {d}
      BY <2>3, <3>1
    <3> QED
      <4>1. Walk[n + 1].queue = Append(q, d)
        BY <1>10, <2>4
      <4>2. Range(Walk[n + 1].queue) = Range(q) \cup {d}
        BY <3>2, <4>1, Zenon
      <4> QED
        BY <1>6, <3>3, <4>2, Zenon
  <2>5. CASE ~Valid(d)
    <3>1. ValidTo(n + 1, d) = ValidTo(n, d)
      BY <2>1, <2>2, <2>3, <2>5 DEF ValidTo
    <3> QED
      BY <1>6, <1>10, <2>5, <3>1
  <2> QED
    BY <2>4, <2>5
<1>13. /\ Len(Walk[n + 1].seen) = n + 1
       /\ \A k \in 1..(n + 1) : Range(Walk[n + 1].seen[k]) = BaseOf(k)
  <2> DEFINE c == IF Valid(d) THEN q ELSE <<>>
  <2>1. c \in Seq(Nat)
    BY <1>5
  <2>2. Range(c) = BaseOf(n + 1)
    <3>1. Range(<<>>) = {}
      BY DEF Range
    <3> QED
      BY <1>11, <3>1
  <2>3. Walk[n + 1].seen = Append(w.seen, c)
    BY <1>10
  <2> HIDE DEF c
  <2>4. /\ Len(Append(w.seen, c)) = n + 1 /\ Append(w.seen, c)[n + 1] = c
        /\ \A k \in 1..n : Append(w.seen, c)[k] = w.seen[k]
    BY <1>2, <1>4, <2>1
  <2>5. \A k \in 1..(n + 1) : k \in 1..n \/ k = n + 1
    OBVIOUS
  <2> QED
    BY <1>4, <2>2, <2>3, <2>4, <2>5
<1>14. GoesUp(Walk[n + 1].queue)
  <2>1. \A x \in Range(q) : x < d
    BY <1>1, <1>6, <1>7 DEF ValidTo
  <2>2. GoesUp(Append(q, d))
    BY <1>1, <1>5, <2>1, UpAppend
  <2> QED
    BY <1>5, <1>10, <2>2
<1> QED
    BY <1>12, <1>13, <1>14 DEF WalkedTo, d

LEMMA WalkedAll ==
    ASSUME HistoryTypeOK
    PROVE  WalkedTo(Len(Days))
<1> DEFINE P == {n \in Nat : n <= Len(Days) => WalkedTo(n)}
<1>1. 0 \in P
  <2>1. Walk[0] = [queue |-> <<>>, seen |-> <<>>]
    BY WalkIs
  <2>2. Range(<<>>) = {} /\ ValidTo(0, Days[0]) = {} /\ GoesUp(<<>>)
    BY DEF Range, ValidTo, GoesUp
  <2>3. WalkedTo(0)
    BY <2>1, <2>2 DEF WalkedTo
  <2> QED
    BY <2>3
<1>2. \A n \in P : n + 1 \in P
  <2>1. Len(Days) \in Nat
    BY DaysAre
  <2>2. ASSUME NEW n \in Nat, n <= Len(Days) => WalkedTo(n), n + 1 <= Len(Days)
        PROVE  WalkedTo(n + 1)
    BY <2>1, <2>2, WalkedStep
  <2>3. \A n \in Nat : n + 1 \in Nat
    OBVIOUS
  <2> QED
    BY <2>2, <2>3
<1>3. P = Nat
  <2> P \in SUBSET Nat
    OBVIOUS
  <2> HIDE DEF P
  <2> QED
    BY <1>1, <1>2, NatSets
<1>4. Len(Days) \in P /\ Len(Days) <= Len(Days)
    BY <1>3, DaysAre
<1> QED
    BY <1>4

LEMMA BaselinesAre ==
    ASSUME HistoryTypeOK
    PROVE  BaselineIsValidDays
<1>1. DOMAIN Days = 1..Len(Days)
    BY DaysAre
<1>2. \A n \in 1..Len(Days) : Range(Compared[n]) = BaseOf(n)
    BY WalkedAll DEF WalkedTo, Compared
<1> QED
    BY <1>1, <1>2, Zenon DEF BaselineIsValidDays, BaseOf

\* A reply delay is the time between an inbound message and the answer that
\* directly follows it within the session (learning.py:444), and a valid day
\* is compared with the valid days of the baseline before it and no others
\* (emotion_cycle.py:244).
THEOREM ObservationsAreAlwaysRight == HistorySpec => []ObservationsAreRight
<1>1. HistoryTypeOK /\ ChatInOrder => ObservationsAreRight
    BY DelaysAre, BaselinesAre DEF ObservationsAreRight
<1> QED
    BY <1>1, HistoryAlways, PTL
=============================================================================
