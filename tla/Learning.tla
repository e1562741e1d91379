------------------------------ MODULE Learning ------------------------------
(***************************************************************************)
(* Learning from corrections and from observed messages: record-correction *)
(* (operations.py save_correction, corrections.py) and the refresh of      *)
(* learning.py, with the distill- commands of cli.py beside them.          *)
(*                                                                         *)
(* Every command and every refresh holds the state lock, so they do not    *)
(* interleave; a process may die, or the ledger may raise, between any two *)
(* transactions.  The model follows one scope; what the other scopes do to *)
(* a refresh of this one is the variable blocked.                          *)
(***************************************************************************)
EXTENDS Distillation

CONSTANTS
    Minimums,             \* values of learning.minimum_corrections
    Written, Requested,   \* bounds: payloads and protections the user puts
    MaxObserved,          \* bound: changes of the observed messages
    MaxCommands,          \* bound: the user's distill- commands
    MaxCrashes,           \* bound: deaths of a command
    ListLimit             \* records a list returns         (10,000)

ASSUME LearningAssumption ==
    /\ Minimums \subseteq Nat
    /\ Written \subseteq Payload /\ Requested \subseteq SUBSET Field
    /\ MaxObserved \in Nat /\ MaxCommands \in Nat /\ MaxCrashes \in Nat
    /\ Correction \subseteq Nat
    /\ ListLimit \in Nat /\ Cardinality(Correction) <= ListLimit

VARIABLES
    activateSafe,   \* learning.auto_activate_safe
    minimum,        \* learning.minimum_corrections
    recorded,       \* ledger: corrections
    candidates,     \* ledger: corrections with a candidate for this scope
    learnt,         \* ledger: version each "materialized" record names, or 0
    due,            \* the interval since the last complete refresh is over
    messages,       \* ledger: observed messages, by their number of changes
    blocked,        \* the emotion version protects a field of its payload
    pc,             \* the command under the lock: next step
    cur,            \* the version it made or found
    commands,       \* number of distill- commands so far
    crashes,        \* number of deaths so far
    everActive,     \* history: versions that have been active
    written         \* history: versions that the user put

ledger == <<recorded, candidates, learnt>>
counts == <<commands, crashes>>
config == <<activateSafe, minimum>>
vars == <<domain, versions, active, config, ledger, due, messages,
          blocked, pc, cur, counts, everActive, written>>

Steps == {"idle", "candidate", "put", "emotion", "emotion_activate",
          "groups", "groups_activate", "mark", "profile",
          "profile_activate", "complete"}

RefreshSteps == Steps \ {"idle", "candidate", "put"}

TypeOK ==
    /\ DistillationTypeOK
    /\ activateSafe \in BOOLEAN /\ minimum \in Minimums
    /\ recorded \subseteq Correction /\ candidates \subseteq recorded
    /\ learnt \in [Correction -> 0..Len(versions)]
    /\ due \in BOOLEAN /\ blocked \in BOOLEAN
    /\ messages \in 0..MaxObserved
    /\ pc \in Steps
    /\ cur \in 0..Len(versions)
    /\ pc \in {"put", "emotion_activate", "groups_activate", "mark",
               "profile_activate"} => cur # 0
    /\ commands \in 0..MaxCommands /\ crashes \in 0..MaxCrashes
    /\ everActive \cup written \subseteq 1..Len(versions)

Init ==
    /\ DistillationInit
    /\ activateSafe \in BOOLEAN /\ minimum \in Minimums
    /\ recorded = {} /\ candidates = {}
    /\ learnt = [c \in Correction |-> 0]
    /\ due = TRUE /\ blocked = FALSE
    /\ messages = 0
    /\ pc = "idle" /\ cur = 0
    /\ commands = 0 /\ crashes = 0
    /\ everActive = {} /\ written = {}

GoTo(step) == pc' = step

Activated(v) ==
    SetActive(v) /\ everActive' = everActive \cup {v} /\ UNCHANGED written

StaysActive == UNCHANGED <<domain, versions, active, everActive, written>>

-----------------------------------------------------------------------------
(* What a refresh reads.                                                   *)

LearnsFromCorrections == domain \in {"language_style", "relationship"}

\* Mutant: what is learnt already is not left out.
PendingAlways == candidates

Pending == {c \in candidates : learnt[c] = 0}

Covering(S) == {v \in 1..Len(versions) : S \subseteq versions[v].evidence}

\* The newest version of V, if there is one.
Newest(V) == {v \in V : \A u \in V : u <= v}

\* _aggregate_candidates adds to what the active version counted.
Aggregate(S) ==
    [PayloadOf(active) EXCEPT
        !.learned = [c \in Correction |->
                        PayloadOf(active).learned[c]
                          + (IF c \in S THEN 1 ELSE 0)]]

\* An emotion payload is made anew, a profile merged into the active payload.
EmotionPayload == [Empty EXCEPT !.observed = messages]

Profile == [PayloadOf(active) EXCEPT !.observed = messages]

SameAs(payload) ==
    {v \in 1..Len(versions) : versions[v].payload = payload}

RelationshipProtected == {"boundaries", "taboos"}

AgreesWithConfirmed ==
    \A f \in RelationshipProtected :
        PayloadOf(active)[f] = Confirmed(active)[f]

\* Mutant: more corrections than the minimum are needed.
MoreThanEnough == Cardinality(Pending) > minimum

Enough == Pending # {} /\ Cardinality(Pending) >= minimum

\* Mutant: a version found again is activated wherever it hangs.
MayActivateAnywhere(v) == activateSafe

\* A version found again is activated only in place of its parent.
MayActivate(v) ==
    /\ activateSafe
    /\ active = 0 \/ active = versions[v].parent

-----------------------------------------------------------------------------
(* record-correction: the correction, then its candidates, one by one.     *)

RecordCorrection(c) ==
    /\ pc = "idle"
    /\ c \notin recorded
    /\ \A d \in Correction : d < c => d \in recorded
    /\ recorded' = recorded \cup {c}
    /\ \/ GoTo("candidate")
       \/ GoTo("idle")       \* the final reply is the draft: no candidate
    /\ StaysActive
    /\ UNCHANGED <<config, candidates, learnt, due, messages, blocked,
                   cur, counts>>

ProposeCandidate ==
    /\ pc = "candidate"
    /\ \E c \in recorded :
          /\ \A d \in recorded : d <= c
          /\ candidates' = IF LearnsFromCorrections THEN candidates \cup {c}
                           ELSE candidates
    /\ GoTo("idle")
    /\ StaysActive
    /\ UNCHANGED <<config, recorded, learnt, due, messages, blocked,
                   cur, counts>>

-----------------------------------------------------------------------------
(* The user's commands distill-put, distill-activate, distill-rollback.    *)

Command ==
    /\ pc = "idle"
    /\ commands < MaxCommands
    /\ commands' = commands + 1
    /\ UNCHANGED <<config, ledger, due, messages, blocked, crashes>>

\* distill-put takes any payload, also one a refresh would compute, any
\* protected fields, and any evidence, also corrections that are pending.
Put(type, payload, requested, evidence, activate) ==
    /\ Command
    /\ Add(type, payload, requested, evidence)
    /\ written' = written \cup {Len(versions')}
    /\ cur' = IF activate THEN Len(versions') ELSE 0
    /\ GoTo(IF activate THEN "put" ELSE "idle")
    /\ UNCHANGED everActive

ActivatePut ==
    /\ pc = "put"
    /\ Activated(cur)
    /\ GoTo("idle") /\ cur' = 0
    /\ UNCHANGED <<config, ledger, due, messages, blocked, counts>>

UserActivates(v) ==
    /\ Command
    /\ Activated(v)
    /\ UNCHANGED <<pc, cur>>

UserRollsBack(v) ==
    /\ Command
    /\ Rollback(v)
    /\ UNCHANGED <<pc, cur, everActive, written>>

\* The user confirms an emotion version with a protected field.
UserPinsEmotion ==
    /\ pc = "idle"
    /\ commands < MaxCommands
    /\ commands' = commands + 1
    /\ domain # "emotion_cycle" /\ ~ blocked
    /\ blocked' = TRUE
    /\ StaysActive
    /\ UNCHANGED <<config, ledger, due, messages, pc, cur, crashes>>

-----------------------------------------------------------------------------
(* The world: messages arrive, the interval passes, a command dies.        *)

MessagesArrive ==
    /\ pc = "idle"
    /\ messages < MaxObserved
    /\ messages' = messages + 1
    /\ StaysActive
    /\ UNCHANGED <<config, ledger, due, blocked, pc, cur, counts>>

IntervalPasses ==
    /\ pc = "idle"
    /\ ~ due
    /\ due' = TRUE
    /\ StaysActive
    /\ UNCHANGED <<config, ledger, messages, blocked, pc, cur, counts>>

\* A death, or an exception of the ledger, which ends the refresh as well.
Crash ==
    /\ pc # "idle"
    /\ crashes < MaxCrashes
    /\ crashes' = crashes + 1
    /\ GoTo("idle") /\ cur' = 0
    /\ StaysActive
    /\ UNCHANGED <<config, ledger, due, messages, blocked, commands>>

-----------------------------------------------------------------------------
(* The refresh.                                                            *)

InRefresh == UNCHANGED <<config, recorded, candidates, messages,
                         blocked, counts>>

StartRefresh ==
    /\ pc = "idle"
    /\ GoTo("emotion")
    /\ StaysActive
    /\ InRefresh
    /\ UNCHANGED <<learnt, due, cur>>

\* run-once refreshes when the interval is over, distill-refresh --force at
\* once.
ScheduledRefresh == due /\ StartRefresh

ForcedRefresh == ~ due /\ StartRefresh

\* Nothing to do in this part: on to the next one.
Skip(next) ==
    /\ GoTo(next)
    /\ StaysActive
    /\ UNCHANGED cur

\* Mutant: a version found again is never activated.
TakeExistingAsIs(v, next) ==
    /\ StaysActive
    /\ cur' = v
    /\ GoTo(next)

\* A version with this payload or evidence exists.
TakeExisting(v, next) ==
    /\ IF MayActivate(v) THEN Activated(v) ELSE StaysActive
    /\ cur' = v
    /\ GoTo(next)

\* A new version is added; it is activated in the next transaction.
Make(payload, requested, evidence, activating, next) ==
    /\ Add("automatic", payload, requested, evidence)
    /\ cur' = Len(versions')
    /\ GoTo(IF activateSafe THEN activating ELSE next)
    /\ UNCHANGED <<everActive, written>>

\* Of the other domains the emotion part only matters when it raises, which
\* ends the whole refresh.
EmotionElsewhere ==
    /\ pc = "emotion"
    /\ domain # "emotion_cycle"
    /\ \/ Skip("groups")
       \/ blocked /\ messages > 0 /\ Skip("idle")
    /\ InRefresh /\ UNCHANGED <<learnt, due>>

EmotionUnchanged ==
    /\ pc = "emotion"
    /\ domain = "emotion_cycle"
    /\ messages = 0 \/ (active # 0 /\ PayloadOf(active) = EmotionPayload)
    /\ Skip("groups")
    /\ InRefresh /\ UNCHANGED <<learnt, due>>

EmotionChanged ==
    /\ pc = "emotion"
    /\ domain = "emotion_cycle"
    /\ messages > 0 /\ ~ (active # 0 /\ PayloadOf(active) = EmotionPayload)
    /\ \/ \E v \in Newest(SameAs(EmotionPayload)) : TakeExisting(v, "groups")
       \/ /\ SameAs(EmotionPayload) = {}
          /\ Make(EmotionPayload, {}, {}, "emotion_activate", "groups")
       \/ /\ SameAs(EmotionPayload) = {}
          /\ ~ Permitted("automatic", EmotionPayload, {})
          /\ Skip("idle")              \* the error is not caught here
    /\ InRefresh /\ UNCHANGED <<learnt, due>>

Groups ==
    /\ pc = "groups"
    /\ IF ~ Enough
       THEN Skip("profile")
       ELSE \/ \E v \in Newest(Covering(Pending)) : TakeExisting(v, "mark")
            \/ /\ Covering(Pending) = {}
               /\ Make(Aggregate(Pending), {}, Pending,
                       "groups_activate", "mark")
            \/ /\ Covering(Pending) = {}
               /\ ~ Permitted("automatic", Aggregate(Pending), {})
               /\ Skip("profile")      \* learned again at every refresh
    /\ InRefresh /\ UNCHANGED <<learnt, due>>

\* _materialize_candidates, one record and transaction each.
Mark ==
    /\ pc = "mark"
    /\ \E c \in Pending :
          /\ \A d \in Pending : c <= d
          /\ learnt' = [learnt EXCEPT ![c] = cur]
          /\ GoTo(IF Pending = {c} THEN "profile" ELSE "mark")
    /\ StaysActive
    /\ InRefresh /\ UNCHANGED <<due, cur>>

\* Mutant: a profile found again is activated like the other versions.
TakeProfileLikeOthers(v) == TakeExisting(v, "complete")

\* A profile found again is activated only where nothing is active.
TakeProfile(v) ==
    /\ IF activateSafe /\ active = 0 THEN Activated(v) ELSE StaysActive
    /\ GoTo("complete")
    /\ UNCHANGED cur

RefreshProfile ==
    /\ pc = "profile"
    /\ IF \/ domain # "relationship" \/ messages = 0
          \/ ~ AgreesWithConfirmed
          \/ active # 0 /\ PayloadOf(active) = Profile
       THEN Skip("complete")
       ELSE \/ \E v \in Newest(SameAs(Profile)) : TakeProfile(v)
            \/ /\ SameAs(Profile) = {}
               /\ Make(Profile, RelationshipProtected, {},
                       "profile_activate", "complete")
            \/ /\ SameAs(Profile) = {}
               /\ ~ Permitted("automatic", Profile, RelationshipProtected)
               /\ Skip("complete")
    /\ InRefresh /\ UNCHANGED <<learnt, due>>

ActivateMade ==
    /\ \/ pc = "emotion_activate" /\ GoTo("groups")
       \/ pc = "groups_activate" /\ GoTo("mark")
       \/ pc = "profile_activate" /\ GoTo("complete")
    /\ Activated(cur)
    /\ InRefresh /\ UNCHANGED <<learnt, due, cur>>

CompleteRefresh ==
    /\ pc = "complete"
    /\ due' = FALSE
    /\ GoTo("idle") /\ cur' = 0
    /\ StaysActive
    /\ InRefresh /\ UNCHANGED learnt

-----------------------------------------------------------------------------
UserNext ==
    \/ \E c \in Correction : RecordCorrection(c)
    \/ \E type \in CorrectionTypes, p \in Written, requested \in Requested,
          evidence \in SUBSET candidates, now \in BOOLEAN :
          Put(type, p, requested, evidence, now)
    \/ \E v \in 1..Len(versions) : UserActivates(v) \/ UserRollsBack(v)
    \/ UserPinsEmotion

RefreshStep ==
    \/ EmotionElsewhere \/ EmotionUnchanged \/ EmotionChanged \/ Groups
    \/ Mark \/ RefreshProfile \/ ActivateMade \/ CompleteRefresh

Next ==
    \/ UserNext
    \/ ProposeCandidate \/ ActivatePut
    \/ MessagesArrive \/ IntervalPasses \/ Crash
    \/ ScheduledRefresh \/ ForcedRefresh \/ RefreshStep

\* The service runs again and again, and a command under way goes on unless
\* it dies, which happens a bounded number of times.
Fairness ==
    /\ WF_vars(IntervalPasses)
    /\ WF_vars(ScheduledRefresh)
    /\ WF_vars(RefreshStep \/ ProposeCandidate \/ ActivatePut)

Spec == Init /\ [][Next]_vars /\ Fairness


-----------------------------------------------------------------------------
(* Properties.                                                             *)

\* An automatic version keeps, field by field, what any version on its line
\* protected since the user last confirmed one: nothing in a chain of learned
\* versions wears a protection down (create_version inherits protections).
ProtectedIsKept ==
    \A v \in 1..Len(versions) : \A u \in Lineage(v) \cup {0} :
        (\A w \in Lineage(v) : w > u => versions[w].type = "automatic") =>
            \A f \in Mandatory \cup ProtectsOf(u) :
                versions[v].payload[f] = PayloadOf(u)[f]

\* Every automatic version leaves the fields it protects as its parent has
\* them, and protects whatever its parent protects.
AutomaticKeeps ==
    \A v \in 1..Len(versions) :
        LET p == versions[v].parent
        IN  /\ Mandatory \cup ProtectsOf(p) \subseteq versions[v].protects
            /\ versions[v].type = "automatic" =>
                 ~ Touches(p, versions[v].payload, versions[v].protects)

\* A refresh never changes what the active version protects by a version the
\* user has not confirmed, wherever a death left the versions and whatever the
\* user put or activated in between.  It may put in force one the user confirmed
\* for this place and left inactive, when its payload or evidence is the same.
RefreshKeepsProtected ==
    [][ (/\ pc \in RefreshSteps
         /\ Touches(active, PayloadOf(active)', Mandatory \cup ProtectsOf(active)))
        => /\ versions[active'].type = "user_confirmed"
           /\ versions[active'].parent = active ]_vars

\* A correction is set aside as learnt only for a version that names it as
\* evidence, and that counts it unless the user wrote the version: also when
\* the version was made by a refresh that died.
LearntIsCounted ==
    \A c \in Correction : learnt[c] # 0 =>
        /\ c \in versions[learnt[c]].evidence
        /\ learnt[c] \notin written => versions[learnt[c]].payload.learned[c] > 0

\* The versions of refreshes that count a correction.
CountedBy(c) == {v \in (1..Len(versions)) \ written : c \in versions[v].evidence}

\* Repeating a refresh counts a correction again only after a refresh that
\* died: at most once more for every death.
CountedOncePerDeath ==
    \A c \in Correction : Cardinality(CountedBy(c)) <= 1 + crashes

\* What is set aside is counted, and hardly ever twice.
LearntIsCountedOnce == LearntIsCounted /\ CountedOncePerDeath

\* A correction is not set aside for a version that only needs activating:
\* when it is marked, that version is active, or the user's versions went
\* another way than through its parent.
LearntIsActivated ==
    [][ \A c \in Correction :
          (learnt'[c] # learnt[c] /\ activateSafe) =>
              \/ active = learnt'[c]
              \/ active \notin {0, versions[learnt'[c]].parent} ]_vars

\* A refresh does not bring back what the user left by a rollback: a version
\* that has been active is activated again only for the emotion cycle, or
\* because corrections that are due are all among its evidence, which takes a
\* refresh that died before it marked them, or a version of the user's.
RollbackHolds ==
    [][ (pc \in RefreshSteps /\ active' # active /\ active' \in everActive) =>
          \/ domain = "emotion_cycle"
          \/ /\ pc = "groups" /\ Pending # {} /\ Cardinality(Pending) >= minimum
             /\ Pending \subseteq versions[active'].evidence
             /\ crashes > 0 \/ active' \in written ]_vars

\* A complete refresh leaves the latest observation active while the user
\* gives no commands: in the emotion cycle whatever died before, in a
\* relationship if nothing died.
ObservationIsCurrent ==
    [][ (/\ pc = "complete" /\ pc' = "idle"
         /\ activateSafe /\ commands = 0
         /\ \/ domain = "emotion_cycle"
            \/ domain = "relationship" /\ crashes = 0)
          => PayloadOf(active).observed = messages ]_vars

\* What a refresh took note of is in force when it is done, corrections and
\* observations alike, as far as the user lets it.
LearntIsInForce == LearntIsActivated /\ ObservationIsCurrent

\* Once there are enough corrections, each is in the end evidence of a version
\* that corrections are set aside for, although refreshes die, unless the user
\* protects what is learnt, or a field of the emotion version, which ends every
\* refresh.
CorrectionsAreLearned ==
    \A c \in Correction :
        (c \in Pending /\ Cardinality(Pending) >= minimum)
          ~> \/ \E d \in Correction :
                   learnt[d] # 0 /\ c \in versions[learnt[d]].evidence
             \/ "learned" \in ProtectsOf(active)
             \/ blocked

-----------------------------------------------------------------------------
(* The inductive invariant of RefreshKeepsProtected and LearntIsCounted:    *)
(* what the parents, the evidence and the version at hand are like.         *)

\* A version was made of the active one, so while none is active none has a
\* parent.
ParentsWereActive ==
    active = 0 => \A v \in 1..Len(versions) : versions[v].parent = 0

\* A version made by a refresh counts its evidence.
EvidenceIsCounted ==
    \A v \in (1..Len(versions)) \ written : \A c \in versions[v].evidence :
        versions[v].payload.learned[c] > 0

\* The version a refresh is about to activate is its own, made of the active
\* one; the version it marks corrections with counts all of them.
AtHand ==
    /\ pc \in {"emotion_activate", "groups_activate", "profile_activate"} =>
         versions[cur].type = "automatic" /\ versions[cur].parent = active
    /\ pc \in {"groups_activate", "mark"} => Pending \subseteq versions[cur].evidence

LearningInv ==
    /\ AutomaticKeeps /\ LearntIsCounted
    /\ ParentsWereActive /\ EvidenceIsCounted /\ AtHand

-----------------------------------------------------------------------------
(* The inductive invariant of CountedOncePerDeath, LearntIsInForce and      *)
(* RollbackHolds: what versions count, which of them were active, and what  *)
(* they hold as long as the user gives no command.                          *)

Counting == pc \in {"groups_activate", "mark"}

\* A correction is counted once for every death, and once more when it is
\* set aside or about to be.
CountsInv ==
    \A c \in Correction :
        Cardinality(CountedBy(c))
          <= crashes + (IF learnt[c] # 0 \/ (Counting /\ c \in candidates)
                        THEN 1 ELSE 0)

\* As long as nothing died, no version of a refresh counts a correction that
\* is pending.
EvidenceInv ==
    \A v \in 1..Len(versions) :
        /\ versions[v].evidence \subseteq candidates
        /\ v \notin written /\ crashes = 0 /\ ~ Counting =>
             versions[v].evidence \cap Pending = {}

\* The version about to be activated has never been active, and the one
\* corrections are marked with is active unless the user's went another way.
ActiveInv ==
    /\ active = 0 => everActive = {}
    /\ pc \in {"emotion_activate", "groups_activate", "profile_activate"} =>
         cur \notin everActive
    /\ pc = "mark" /\ activateSafe =>
         active = cur \/ active \notin {0, versions[cur].parent}

\* Which parts of the refresh do something in which domain.
DomainInv ==
    /\ ~ LearnsFromCorrections => candidates = {} /\ ~ Counting
    /\ domain # "relationship" => pc # "profile_activate"
    /\ domain # "emotion_cycle" => pc # "emotion_activate"

Quiet == commands = 0

ObservedInv ==
    /\ Quiet => \A v \in 1..Len(versions) : versions[v].payload.observed <= messages
    /\ pc \in {"emotion_activate", "profile_activate"} =>
         versions[cur].payload.observed = messages

\* Without commands every version is the refresh's own.
QuietInv ==
    Quiet =>
        /\ pc # "put" /\ written = {}
        /\ \A v \in 1..Len(versions) :
              /\ versions[v].type = "automatic"
              /\ versions[v].payload.boundaries = 0
              /\ versions[v].payload.taboos = 0
              /\ domain = "relationship" => versions[v].protects \subseteq RelationshipProtected
              /\ ~ LearnsFromCorrections => versions[v].payload.learned = Empty.learned

Observed(v) == PayloadOf(v).observed

Latest == Len(versions)

\* In the emotion cycle the latest version is active or hangs on the active one.
EmotionInv ==
    Quiet /\ domain = "emotion_cycle" =>
        /\ \A u, v \in 1..Len(versions) : u < v => Observed(u) < Observed(v)
        /\ Latest # 0 => active \in {Latest, versions[Latest].parent}
        /\ pc = "emotion_activate" => cur = Latest
        /\ activateSafe /\ pc \in {"groups", "profile", "complete"} =>
             Observed(active) = messages

\* In a relationship where nothing died the latest version is active, or about
\* to be.
RelationshipInv ==
    Quiet /\ domain = "relationship" /\ crashes = 0 /\ activateSafe =>
        /\ \A u, v \in 1..Len(versions) : u < v => Observed(u) <= Observed(v)
        /\ IF pc \in {"groups_activate", "profile_activate"}
           THEN cur = Latest ELSE active = Latest
        /\ pc = "complete" => Observed(active) = messages

ForceInv ==
    /\ CountsInv /\ EvidenceInv /\ ActiveInv /\ DomainInv
    /\ ObservedInv /\ QuietInv /\ EmotionInv /\ RelationshipInv

=============================================================================
