---------------------------- MODULE LearningProofs ----------------------------
(***************************************************************************)
(* Proofs about Learning: whatever dies and whatever the user does between *)
(* two refreshes, learning never touches a protected field, and what is    *)
(* set aside as learnt is counted.                                         *)
(***************************************************************************)
EXTENDS Learning, FiniteSetTheorems, WellFoundedInduction, TLAPS

-----------------------------------------------------------------------------
(* Types.                                                                  *)

LEMMA EmptyType == Empty \in Payload
BY DistillationAssumption DEF Empty, Payload

LEMMA MandatoryType == Mandatory \subseteq Field
BY DEF Mandatory, Field

LEMMA VersionTypes ==
    ASSUME DistillationTypeOK, NEW v \in 1..Len(versions)
    PROVE  /\ versions[v] \in Version
           /\ versions[v].parent \in Nat
           /\ versions[v].parent \in 0..Len(versions) /\ versions[v].parent < v
           /\ versions[v].type \in CorrectionTypes
           /\ versions[v].payload \in Payload
           /\ versions[v].protects \subseteq Field
           /\ versions[v].evidence \subseteq Correction
<1>1. Len(versions) \in Nat /\ versions[v] \in Version
    BY DEF DistillationTypeOK
<1>2. versions[v].parent \in 0..(v - 1)
    BY DEF DistillationTypeOK
<1>3. v \in Nat /\ v <= Len(versions)
    BY <1>1
<1>4. versions[v].parent \in 0..Len(versions) /\ versions[v].parent < v
    BY <1>1, <1>2, <1>3
<1> QED
    BY <1>1, <1>4 DEF Version

LEMMA PayloadTypes ==
    ASSUME DistillationTypeOK, NEW v \in 0..Len(versions)
    PROVE  PayloadOf(v) \in Payload /\ ProtectsOf(v) \subseteq Field
<1>1. CASE v = 0
    BY <1>1, EmptyType DEF PayloadOf, ProtectsOf
<1>2. CASE v # 0
    <2>1. v \in 1..Len(versions)
        BY <1>2 DEF DistillationTypeOK
    <2> QED
        BY <1>2, <2>1, VersionTypes DEF PayloadOf, ProtectsOf
<1> QED
    BY <1>1, <1>2

\* What a transaction that adds a version leaves.
LEMMA AddFacts ==
    ASSUME DistillationTypeOK, NEW type, NEW payload, NEW requested, NEW evidence,
           Add(type, payload, requested, evidence)
    PROVE  /\ Len(versions) \in Nat /\ Len(versions') = Len(versions) + 1
           /\ \A v \in 1..Len(versions) : versions'[v] = versions[v]
           /\ versions'[Len(versions')]
                = Created(type, payload, requested, evidence)
           /\ \A v \in 1..Len(versions') :
                 v \in 1..Len(versions) \/ v = Len(versions')
           /\ active' = active /\ domain' = domain
BY DEF Add, DistillationTypeOK

LEMMA AddType ==
    ASSUME DistillationTypeOK, NEW type \in CorrectionTypes, NEW payload \in Payload,
           NEW requested \in SUBSET Field, NEW evidence \in SUBSET Correction,
           Add(type, payload, requested, evidence)
    PROVE  DistillationTypeOK'
<1> DEFINE new == Created(type, payload, requested, evidence)
<1>1. active \in 0..Len(versions) /\ active \in Nat /\ Len(versions) \in Nat
    BY DEF DistillationTypeOK
<1>2. Protections(active, requested) \subseteq Field
    BY <1>1, PayloadTypes, MandatoryType DEF Protections
<1>3. new \in Version /\ new.parent = active
    BY <1>1, <1>2 DEF Created, Version
<1>4. versions' \in Seq(Version)
    BY <1>3 DEF Add, DistillationTypeOK
<1> HIDE DEF new
<1>5. ASSUME NEW v \in 1..Len(versions') PROVE versions'[v].parent \in 0..(v - 1)
    <2>1. CASE v \in 1..Len(versions)
        BY <2>1, AddFacts DEF DistillationTypeOK
    <2>2. CASE v = Len(versions')
        <3>1. versions'[v] = new /\ v = Len(versions) + 1
            BY <2>2, AddFacts DEF new
        <3> QED
            BY <1>1, <1>3, <3>1
    <2> QED
        BY <2>1, <2>2, AddFacts
<1>6. active' \in 0..Len(versions') /\ domain' \in Domains
    BY <1>1, AddFacts DEF DistillationTypeOK
<1> QED
    BY <1>4, <1>5, <1>6 DEF DistillationTypeOK

LEMMA SetActiveType ==
    ASSUME DistillationTypeOK, NEW v \in 1..Len(versions),
           SetActive(v) \/ Rollback(v)
    PROVE  DistillationTypeOK' /\ versions' = versions /\ active' = v
BY DEF SetActive, Rollback, DistillationTypeOK

LEMMA AggregateType ==
    ASSUME DistillationTypeOK, NEW S
    PROVE  Aggregate(S) \in Payload
<1>1. PayloadOf(active) \in Payload
    BY PayloadTypes DEF DistillationTypeOK
<1>2. [c \in Correction |-> PayloadOf(active).learned[c]
                              + (IF c \in S THEN 1 ELSE 0)]
          \in [Correction -> Nat]
    BY <1>1 DEF Payload
<1> QED
    BY <1>1, <1>2 DEF Aggregate, Payload

LEMMA ObservedTypes ==
    ASSUME TypeOK
    PROVE  EmotionPayload \in Payload /\ Profile \in Payload
<1>1. messages \in Nat
    BY LearningAssumption DEF TypeOK
<1>2. PayloadOf(active) \in Payload
    BY PayloadTypes DEF TypeOK, DistillationTypeOK
<1> QED
    BY <1>1, <1>2, EmptyType DEF EmotionPayload, Profile, Payload

\* What the user may put.
LEMMA PutTypes ==
    ASSUME TypeOK, NEW p \in Written, NEW requested \in Requested,
           NEW evidence \in SUBSET candidates
    PROVE  p \in Payload /\ requested \subseteq Field /\ evidence \subseteq Correction
BY LearningAssumption DEF TypeOK

\* The Boolean variables.
Switches == activateSafe \in BOOLEAN /\ due \in BOOLEAN /\ blocked \in BOOLEAN

LEMMA InitType == Init => TypeOK
<1> SUFFICES ASSUME Init PROVE TypeOK
    OBVIOUS
<1>1. versions \in Seq(Version) /\ Len(versions) = 0
    BY DEF Init, DistillationInit
<1>2. DistillationTypeOK
    BY <1>1 DEF Init, DistillationInit, DistillationTypeOK
<1>3. learnt \in [Correction -> 0..Len(versions)] /\ cur \in 0..Len(versions)
    BY <1>1 DEF Init
<1>4. Switches
    BY DEF Init, Switches
<1>5. messages \in 0..MaxObserved /\ commands \in 0..MaxCommands
      /\ crashes \in 0..MaxCrashes
    BY LearningAssumption DEF Init
<1> QED
    BY <1>2, <1>3, <1>4, <1>5 DEF Init, TypeOK, Switches, Steps

\* The variables that grow with the versions.
LEMMA GrowType ==
    ASSUME TypeOK, DistillationTypeOK', Len(versions') >= Len(versions)
    PROVE  /\ learnt \in [Correction -> 0..Len(versions')]
           /\ cur \in 0..Len(versions')
           /\ everActive \cup written \subseteq 1..Len(versions')
<1>1. Len(versions) \in Nat /\ Len(versions') \in Nat
    BY DEF TypeOK, DistillationTypeOK
<1>2. 0..Len(versions) \subseteq 0..Len(versions')
      /\ 1..Len(versions) \subseteq 1..Len(versions')
    BY <1>1
<1> QED
    BY <1>2 DEF TypeOK

LEMMA SwitchesType == Switches /\ [Next]_vars => Switches'
<1> SUFFICES ASSUME Switches, [Next]_vars PROVE Switches'
    OBVIOUS
<1>1. UNCHANGED vars => Switches'
    BY Zenon DEF vars, config, Switches
<1>2. UserNext => Switches'
    BY Zenon DEF UserNext, RecordCorrection, Put, UserActivates, UserRollsBack,
             Command, UserPinsEmotion, config, Switches
<1>3. ProposeCandidate \/ ActivatePut => Switches'
    BY Zenon DEF ProposeCandidate, ActivatePut, config, Switches
<1>4. MessagesArrive \/ IntervalPasses \/ Crash => Switches'
    BY Zenon DEF MessagesArrive, IntervalPasses, Crash, config, Switches
<1>5. ScheduledRefresh \/ ForcedRefresh => Switches'
    BY Zenon DEF ScheduledRefresh, ForcedRefresh, StartRefresh, InRefresh, config,
             Switches
<1>6. RefreshStep => Switches'
    BY Zenon DEF RefreshStep, EmotionElsewhere, EmotionUnchanged, EmotionChanged,
             Groups, Mark, RefreshProfile, ActivateMade, CompleteRefresh,
             InRefresh, config, Switches
<1> QED
    BY <1>1, <1>2, <1>3, <1>4, <1>5, <1>6 DEF Next

\* An action that leaves the versions, or activates one of them.
LEMMA KeepType ==
    ASSUME TypeOK, Switches', versions' = versions, domain' = domain,
           active' \in 0..Len(versions),
           everActive' \subseteq 1..Len(versions), written' = written,
           minimum' = minimum, pc' \in Steps, cur' \in 0..Len(versions),
           pc' \in {"put", "emotion_activate", "groups_activate", "mark",
                   "profile_activate"} => cur' # 0,
           recorded' \subseteq Correction, candidates' \subseteq recorded',
           learnt' \in [Correction -> 0..Len(versions)],
           messages' \in 0..MaxObserved, commands' \in 0..MaxCommands,
           crashes' \in 0..MaxCrashes
    PROVE  TypeOK'
<1>1. DistillationTypeOK'
    BY DEF TypeOK, DistillationTypeOK
<1> QED
    BY <1>1 DEF TypeOK, Switches

\* An action that adds a version.
LEMMA AddedType ==
    ASSUME TypeOK, Switches', NEW type \in CorrectionTypes, NEW payload \in Payload,
           NEW requested \in SUBSET Field, NEW evidence \in SUBSET Correction,
           Add(type, payload, requested, evidence),
           UNCHANGED <<recorded, candidates, learnt, minimum, messages, everActive>>,
           written' \in {written, written \cup {Len(versions')}},
           pc' \in Steps, cur' \in {0, Len(versions')},
           pc' \in {"put", "emotion_activate", "groups_activate", "mark",
                   "profile_activate"} => cur' # 0,
           commands' \in 0..MaxCommands, crashes' \in 0..MaxCrashes
    PROVE  TypeOK'
<1>1. DistillationTypeOK /\ DistillationTypeOK'
    BY AddType DEF TypeOK
<1>2. Len(versions) \in Nat /\ Len(versions') = Len(versions) + 1
    BY <1>1, AddFacts
<1>3. /\ learnt \in [Correction -> 0..Len(versions')]
      /\ everActive \cup written' \subseteq 1..Len(versions')
    BY <1>1, <1>2, GrowType
<1>4. cur' \in 0..Len(versions')
    BY <1>2
<1> QED
    BY <1>1, <1>3, <1>4 DEF TypeOK, Switches

\* A user's command, before it is known what it does to the versions.
LEMMA CommandType ==
    ASSUME TypeOK, Command
    PROVE  /\ commands' \in 0..MaxCommands
           /\ UNCHANGED <<minimum, recorded, candidates, learnt, messages, crashes>>
           /\ pc = "idle"
BY LearningAssumption DEF Command, TypeOK, config, ledger

LEMMA ActivatedFacts ==
    ASSUME TypeOK, NEW v \in 1..Len(versions), Activated(v)
    PROVE  /\ versions' = versions /\ domain' = domain /\ active' = v
           /\ active' \in 0..Len(versions)
           /\ everActive' \subseteq 1..Len(versions) /\ written' = written
           /\ Activatable(v)
<1>1. /\ versions' = versions /\ domain' = domain /\ active' = v
      /\ written' = written
      /\ everActive' = everActive \cup {v} /\ Activatable(v)
    BY DEF Activated, SetActive
<1>2. v \in 0..Len(versions) /\ everActive \subseteq 1..Len(versions)
    BY DEF TypeOK, DistillationTypeOK
<1> QED
    BY <1>1, <1>2

LEMMA UserType ==
    ASSUME TypeOK, UserNext, Switches'
    PROVE  TypeOK'
<1>0. active \in 0..Len(versions) /\ everActive \subseteq 1..Len(versions)
    BY DEF TypeOK, DistillationTypeOK
<1>1. ASSUME NEW c \in Correction, RecordCorrection(c) PROVE TypeOK'
    <2>1. /\ versions' = versions /\ domain' = domain /\ active' = active
          /\ everActive' = everActive /\ written' = written
          /\ minimum' = minimum /\ candidates' = candidates /\ learnt' = learnt
          /\ messages' = messages /\ cur' = cur /\ commands' = commands
          /\ crashes' = crashes /\ recorded' = recorded \cup {c}
          /\ pc' \in {"candidate", "idle"}
        BY <1>1 DEF RecordCorrection, StaysActive, GoTo, config, counts
    <2> QED
        BY <1>0, <2>1, KeepType DEF TypeOK, Steps
<1>2. ASSUME NEW type \in CorrectionTypes, NEW p \in Written,
             NEW requested \in Requested, NEW evidence \in SUBSET candidates,
             NEW now \in BOOLEAN, Put(type, p, requested, evidence, now)
      PROVE  TypeOK'
    <2>1. /\ Command /\ Add(type, p, requested, evidence)
          /\ everActive' = everActive
          /\ written' = written \cup {Len(versions')}
          /\ \/ cur' = Len(versions') /\ pc' = "put"
             \/ cur' = 0 /\ pc' = "idle"
        BY <1>2 DEF Put, GoTo
    <2>2. p \in Payload /\ requested \subseteq Field /\ evidence \subseteq Correction
        BY PutTypes
    <2>3. Len(versions') # 0
        BY <2>1, AddFacts DEF TypeOK
    <2> QED
        BY <2>1, <2>2, <2>3, CommandType, AddedType DEF Steps, TypeOK
<1>3. ASSUME NEW v \in 1..Len(versions), UserActivates(v) PROVE TypeOK'
    <2>1. Command /\ Activated(v) /\ pc' = pc /\ cur' = cur
        BY <1>3 DEF UserActivates
    <2> QED
        BY <2>1, CommandType, ActivatedFacts, KeepType DEF TypeOK
<1>4. ASSUME NEW v \in 1..Len(versions), UserRollsBack(v) PROVE TypeOK'
    <2>1. /\ Command /\ Rollback(v) /\ pc' = pc /\ cur' = cur
          /\ everActive' = everActive /\ written' = written
        BY <1>4 DEF UserRollsBack
    <2>2. versions' = versions /\ domain' = domain /\ active' \in 0..Len(versions)
        BY <2>1 DEF Rollback, TypeOK, DistillationTypeOK
    <2> QED
        BY <1>0, <2>1, <2>2, CommandType, KeepType DEF TypeOK
<1>5. ASSUME UserPinsEmotion PROVE TypeOK'
    <2>1. commands' \in 0..MaxCommands
        BY <1>5, LearningAssumption DEF UserPinsEmotion, TypeOK
    <2> QED
        BY <1>0, <1>5, <2>1, KeepType
        DEF UserPinsEmotion, StaysActive, config, ledger, TypeOK
<1> QED
    BY <1>1, <1>2, <1>3, <1>4, <1>5 DEF UserNext

LEMMA WorldType ==
    ASSUME TypeOK, Switches',
           ProposeCandidate \/ ActivatePut \/ MessagesArrive \/ IntervalPasses
             \/ Crash \/ ScheduledRefresh \/ ForcedRefresh
    PROVE  TypeOK'
<1>0. active \in 0..Len(versions) /\ everActive \subseteq 1..Len(versions)
      /\ Len(versions) \in Nat
    BY DEF TypeOK, DistillationTypeOK
<1>1. CASE ProposeCandidate
    <2>1. /\ candidates' \subseteq recorded /\ recorded' = recorded
          /\ versions' = versions /\ domain' = domain /\ active' = active
          /\ everActive' = everActive /\ written' = written
          /\ minimum' = minimum /\ learnt' = learnt /\ messages' = messages /\ cur' = cur
          /\ commands' = commands /\ crashes' = crashes /\ pc' = "idle"
        BY <1>1 DEF ProposeCandidate, StaysActive, GoTo, config, counts, TypeOK
    <2> QED
        BY <1>0, <2>1, KeepType DEF TypeOK, Steps
<1>2. CASE ActivatePut
    <2>1. cur \in 1..Len(versions)
        BY <1>0, <1>2 DEF ActivatePut, TypeOK
    <2> QED
        BY <1>0, <1>2, <2>1, ActivatedFacts, KeepType
        DEF ActivatePut, GoTo, config, ledger, counts, TypeOK, Steps
<1>3. CASE MessagesArrive
    <2>1. messages' \in 0..MaxObserved
        BY <1>3, LearningAssumption DEF MessagesArrive, TypeOK
    <2> QED
        BY <1>0, <1>3, <2>1, KeepType
        DEF MessagesArrive, StaysActive, config, ledger, counts, TypeOK
<1>4. CASE IntervalPasses
    BY <1>0, <1>4, KeepType
    DEF IntervalPasses, StaysActive, config, ledger, counts, TypeOK
<1>5. CASE Crash
    <2>1. crashes' \in 0..MaxCrashes
        BY <1>5, LearningAssumption DEF Crash, TypeOK
    <2> QED
        BY <1>0, <1>5, <2>1, KeepType
        DEF Crash, GoTo, StaysActive, config, ledger, TypeOK, Steps
<1>6. CASE ScheduledRefresh \/ ForcedRefresh
    BY <1>0, <1>6, KeepType
    DEF ScheduledRefresh, ForcedRefresh, StartRefresh, GoTo, StaysActive,
        InRefresh, config, counts, TypeOK, Steps
<1> QED
    BY <1>1, <1>2, <1>3, <1>4, <1>5, <1>6

\* A part of the refresh that takes a version found or made before.
LEMMA FoundType ==
    ASSUME TypeOK, Switches', InRefresh, learnt' = learnt,
           \/ StaysActive
           \/ \E v \in 1..Len(versions) : Activated(v),
           pc' \in Steps, cur' \in 0..Len(versions),
           pc' \in {"put", "emotion_activate", "groups_activate", "mark",
                   "profile_activate"} => cur' # 0
    PROVE  TypeOK'
<1>1. /\ versions' = versions /\ domain' = domain /\ written' = written
      /\ active' \in 0..Len(versions) /\ everActive' \subseteq 1..Len(versions)
    <2>1. CASE StaysActive
        BY <2>1 DEF StaysActive, TypeOK, DistillationTypeOK
    <2>2. CASE \E v \in 1..Len(versions) : Activated(v)
        BY <2>2, ActivatedFacts
    <2> QED
        BY <2>1, <2>2
<1> QED
    BY <1>1, KeepType DEF InRefresh, config, counts, TypeOK

\* A part of the refresh that makes a version.
LEMMA MadeType ==
    ASSUME TypeOK, Switches', InRefresh, learnt' = learnt,
           NEW payload \in Payload, NEW requested \in SUBSET Field,
           NEW evidence \in SUBSET Correction,
           NEW activating \in Steps, NEW next \in Steps,
           Make(payload, requested, evidence, activating, next)
    PROVE  TypeOK'
<1>1. /\ Add("automatic", payload, requested, evidence)
      /\ cur' = Len(versions') /\ everActive' = everActive /\ written' = written
      /\ pc' \in {activating, next}
    BY DEF Make, GoTo
<1>2. Len(versions') # 0
    BY <1>1, AddFacts DEF TypeOK
<1> QED
    BY <1>1, <1>2, AddedType
    DEF InRefresh, config, counts, TypeOK, CorrectionTypes

LEMMA PendingType ==
    ASSUME TypeOK
    PROVE  Pending \subseteq Correction
BY DEF Pending, TypeOK

LEMMA RefreshType ==
    ASSUME TypeOK, RefreshStep, Switches'
    PROVE  TypeOK'
<1>0. cur \in 0..Len(versions) /\ Len(versions) \in Nat
    BY DEF TypeOK, DistillationTypeOK
<1>1. ASSUME NEW next \in Steps \ {"put", "emotion_activate", "groups_activate",
                                  "mark", "profile_activate"},
             Skip(next), InRefresh, learnt' = learnt
      PROVE  TypeOK'
    <2>1. StaysActive /\ pc' = next /\ cur' = cur
        BY <1>1 DEF Skip, GoTo
    <2> QED
        BY <1>0, <1>1, <2>1, FoundType
<1>2. ASSUME NEW v \in 1..Len(versions), NEW next \in {"groups", "mark"},
             TakeExisting(v, next), InRefresh, learnt' = learnt
      PROVE  TypeOK'
    <2>1. (StaysActive \/ Activated(v)) /\ pc' = next /\ cur' = v
        BY <1>2 DEF TakeExisting, GoTo
    <2>2. v \in 0..Len(versions) /\ v # 0 /\ next \in Steps
        BY <1>0 DEF Steps
    <2> QED
        BY <1>2, <2>1, <2>2, FoundType
<1>3. CASE EmotionElsewhere
    BY <1>1, <1>3 DEF EmotionElsewhere, Steps
<1>4. CASE EmotionUnchanged
    BY <1>1, <1>4 DEF EmotionUnchanged, Steps
<1>5. CASE EmotionChanged
    <2>1. InRefresh /\ learnt' = learnt
        BY <1>5 DEF EmotionChanged
    <2>2. CASE \E v \in Newest(SameAs(EmotionPayload)) : TakeExisting(v, "groups")
        BY <1>2, <2>1, <2>2 DEF Newest, SameAs
    <2>3. CASE Make(EmotionPayload, {}, {}, "emotion_activate", "groups")
        BY <2>1, <2>3, MadeType, ObservedTypes DEF Steps
    <2>4. CASE Skip("idle")
        BY <1>1, <2>1, <2>4 DEF Steps
    <2> QED
        BY <1>5, <2>2, <2>3, <2>4 DEF EmotionChanged
<1>6. CASE Groups
    <2>1. InRefresh /\ learnt' = learnt
        BY <1>6 DEF Groups
    <2>2. CASE \E v \in Newest(Covering(Pending)) : TakeExisting(v, "mark")
        BY <1>2, <2>1, <2>2 DEF Newest, Covering
    <2>3. CASE Make(Aggregate(Pending), {}, Pending, "groups_activate", "mark")
        BY <2>1, <2>3, MadeType, AggregateType, PendingType DEF Steps, TypeOK
    <2>4. CASE Skip("profile")
        BY <1>1, <2>1, <2>4 DEF Steps
    <2> QED
        BY <1>6, <2>2, <2>3, <2>4 DEF Groups
<1>7. CASE Mark
    <2>1. PICK c \in Pending : learnt' = [learnt EXCEPT ![c] = cur]
        BY <1>7 DEF Mark
    <2>2. learnt' \in [Correction -> 0..Len(versions)]
        BY <1>0, <2>1, PendingType DEF TypeOK
    <2>3. /\ versions' = versions /\ domain' = domain /\ active' = active
          /\ everActive' = everActive /\ written' = written
          /\ cur' = cur /\ cur # 0 /\ pc' \in {"mark", "profile"}
        BY <1>7 DEF Mark, StaysActive, GoTo, TypeOK
    <2> QED
        BY <1>0, <1>7, <2>2, <2>3, KeepType
        DEF Mark, InRefresh, config, counts, Steps, TypeOK, DistillationTypeOK
<1>8. CASE RefreshProfile
    <2>1. InRefresh /\ learnt' = learnt
        BY <1>8 DEF RefreshProfile
    <2>2. CASE \E v \in Newest(SameAs(Profile)) : TakeProfile(v)
        <3>1. PICK v \in 1..Len(versions) : TakeProfile(v)
            BY <2>2 DEF Newest, SameAs
        <3>2. (StaysActive \/ Activated(v)) /\ pc' = "complete" /\ cur' = cur
            BY <3>1 DEF TakeProfile, GoTo
        <3> QED
            BY <1>0, <2>1, <3>2, FoundType DEF Steps
    <2>3. CASE Make(Profile, RelationshipProtected, {}, "profile_activate",
                    "complete")
        <3>1. RelationshipProtected \subseteq Field
            BY DEF RelationshipProtected, Field
        <3> QED
            BY <2>1, <2>3, <3>1, MadeType, ObservedTypes DEF Steps
    <2>4. CASE Skip("complete")
        BY <1>1, <2>1, <2>4 DEF Steps
    <2> QED
        BY <1>8, <2>2, <2>3, <2>4 DEF RefreshProfile
<1>9. CASE ActivateMade
    <2>1. cur \in 1..Len(versions) /\ cur # 0
        BY <1>0, <1>9 DEF ActivateMade, TypeOK
    <2>2. Activated(cur) /\ cur' = cur /\ pc' \in {"groups", "mark", "complete"}
          /\ InRefresh /\ learnt' = learnt
        BY <1>9 DEF ActivateMade, GoTo
    <2> QED
        BY <1>0, <2>1, <2>2, FoundType DEF Steps
<1>10. CASE CompleteRefresh
    <2>1. StaysActive /\ pc' = "idle" /\ cur' = 0 /\ InRefresh /\ learnt' = learnt
        BY <1>10 DEF CompleteRefresh, GoTo
    <2> QED
        BY <1>0, <2>1, FoundType DEF Steps
<1> QED
    BY <1>3, <1>4, <1>5, <1>6, <1>7, <1>8, <1>9, <1>10 DEF RefreshStep

LEMMA NextType == TypeOK /\ [Next]_vars => TypeOK'
<1> SUFFICES ASSUME TypeOK, [Next]_vars PROVE TypeOK'
    OBVIOUS
<1>1. Switches'
    BY SwitchesType DEF TypeOK, Switches
<1>2. CASE UNCHANGED vars
    BY <1>2, <1>1, KeepType
    DEF vars, config, ledger, counts, TypeOK, DistillationTypeOK
<1>3. CASE UserNext
    BY <1>1, <1>3, UserType
<1>4. CASE RefreshStep
    BY <1>1, <1>4, RefreshType
<1> QED
    BY <1>1, <1>2, <1>3, <1>4, WorldType DEF Next

\* Versions, pointers and the refresh always have the shape the code reads
\* them with; a refresh that activates or marks has a version at hand.
THEOREM TypeCorrect == Spec => []TypeOK
BY InitType, NextType, PTL DEF Spec

-----------------------------------------------------------------------------
(* The inductive invariant.                                                *)

LEMMA InitInv == Init => LearningInv
<1> SUFFICES ASSUME Init PROVE LearningInv
    OBVIOUS
<1>1. 1..Len(versions) = {}
    BY DEF Init, DistillationInit
<1>2. AutomaticKeeps /\ ParentsWereActive /\ EvidenceIsCounted
    BY <1>1 DEF AutomaticKeeps, ParentsWereActive, EvidenceIsCounted
<1>3. LearntIsCounted
    BY DEF Init, LearntIsCounted
<1>4. AtHand
    BY DEF Init, AtHand
<1> QED
    BY <1>2, <1>3, <1>4 DEF LearningInv

\* The body of AutomaticKeeps.
Keeps(v) ==
    LET p == versions[v].parent
    IN  /\ Mandatory \cup ProtectsOf(p) \subseteq versions[v].protects
        /\ versions[v].type = "automatic" =>
             ~ Touches(p, versions[v].payload, versions[v].protects)

\* The parts of the invariant about the versions alone.
VersionsInv ==
    AutomaticKeeps /\ ParentsWereActive /\ EvidenceIsCounted

LEMMA SameVersionsInv ==
    ASSUME TypeOK, VersionsInv, versions' = versions, domain' = domain,
           active' = active \/ active' # 0, written' = written
    PROVE  VersionsInv'
<1>1. AutomaticKeeps'
    BY DEF VersionsInv, AutomaticKeeps, Touches, PayloadOf, ProtectsOf, Mandatory
<1>2. ParentsWereActive'
    BY DEF VersionsInv, ParentsWereActive
<1>3. EvidenceIsCounted'
    BY DEF VersionsInv, EvidenceIsCounted
<1> QED
    BY <1>1, <1>2, <1>3 DEF VersionsInv

LEMMA AddedInv ==
    ASSUME TypeOK, VersionsInv, NEW type \in CorrectionTypes, NEW payload \in Payload,
           NEW requested \in SUBSET Field, NEW evidence \in SUBSET Correction,
           Add(type, payload, requested, evidence),
           written \subseteq written',
           Len(versions') \in written' \/ \A c \in evidence : payload.learned[c] > 0
    PROVE  VersionsInv'
<1> DEFINE new == Created(type, payload, requested, evidence)
<1>0. DistillationTypeOK /\ active \in 0..Len(versions)
    BY DEF TypeOK, DistillationTypeOK
<1>1. /\ new.parent = active /\ new.type = type /\ new.payload = payload
      /\ new.evidence = evidence /\ new.protects = Protections(active, requested)
    BY DEF Created
<1> HIDE DEF new
<1>2. /\ \A v \in 1..Len(versions) : versions'[v] = versions[v]
      /\ versions'[Len(versions')] = new
      /\ \A v \in 1..Len(versions') : v \in 1..Len(versions) \/ v = Len(versions')
      /\ active' = active /\ domain' = domain
    BY <1>0, AddFacts DEF new
<1>4. Mandatory' = Mandatory
    BY <1>2 DEF Mandatory
<1>5. \A v \in 1..Len(versions) : versions[v].parent \in 0..Len(versions)
    BY <1>0, VersionTypes
<1>6. ASSUME NEW v \in 1..Len(versions')
      PROVE  Keeps(v)'
    <2>1. CASE v \in 1..Len(versions)
        <3> DEFINE p == versions[v].parent
        <3>1. versions'[v] = versions[v] /\ p \in 0..Len(versions)
            BY <1>2, <1>5, <2>1
        <3>2. p = 0 \/ (p # 0 /\ versions'[p] = versions[p])
            BY <1>2, <3>1
        <3>3. Keeps(v)
            BY <2>1 DEF VersionsInv, AutomaticKeeps, Keeps
        <3> QED
            BY <1>4, <3>1, <3>2, <3>3 DEF Keeps, Touches, PayloadOf, ProtectsOf
    <2>2. CASE v = Len(versions')
        <3>1. versions'[v] = new
            BY <1>2, <2>2
        <3>2. Mandatory \cup ProtectsOf(active) \subseteq new.protects
            BY <1>1 DEF Protections
        <3>3. type = "automatic" => ~ Touches(active, payload, new.protects)
            BY <1>1 DEF Add, Permitted
        <3>4. active = 0 \/ (active # 0 /\ versions'[active] = versions[active])
            BY <1>0, <1>2
        <3> QED
            BY <1>1, <1>4, <3>1, <3>2, <3>3, <3>4
            DEF Keeps, Touches, PayloadOf, ProtectsOf
    <2> QED
        BY <1>2, <2>1, <2>2
<1>7. AutomaticKeeps'
    BY <1>6 DEF AutomaticKeeps, Keeps
<1>8. ParentsWereActive'
    BY <1>1, <1>2 DEF VersionsInv, ParentsWereActive
<1>9. EvidenceIsCounted'
    BY <1>1, <1>2 DEF VersionsInv, EvidenceIsCounted
<1> QED
    BY <1>7, <1>8, <1>9 DEF VersionsInv

\* LearntIsCounted reads versions that stay as they are.
LEMMA LearntKept ==
    ASSUME TypeOK, LearntIsCounted, learnt' = learnt, written \subseteq written',
           \A v \in 1..Len(versions) : versions'[v] = versions[v]
    PROVE  LearntIsCounted'
<1>1. Len(versions) \in Nat /\ learnt \in [Correction -> 0..Len(versions)]
    BY DEF TypeOK, DistillationTypeOK
<1>2. ASSUME NEW c \in Correction, learnt[c] # 0
      PROVE  versions'[learnt[c]] = versions[learnt[c]]
    BY <1>1, <1>2
<1> QED
    BY <1>2 DEF LearntIsCounted

LEMMA InvParts ==
    /\ LearningInv <=> VersionsInv /\ LearntIsCounted /\ AtHand
    /\ LearningInv' <=> VersionsInv' /\ LearntIsCounted' /\ AtHand'
BY DEF LearningInv, VersionsInv

\* Steps that leave the refresh, or do not touch what AtHand is about.
Away == {"idle", "candidate", "put", "emotion", "groups", "profile", "complete"}

LEMMA AwayInv ==
    ASSUME pc' \in Away
    PROVE  AtHand'
BY DEF Away, AtHand

LEMMA UserInv ==
    ASSUME TypeOK, LearningInv, UserNext
    PROVE  LearningInv'
<1>0. VersionsInv /\ LearntIsCounted /\ AtHand
    BY InvParts
<1>1. ASSUME NEW c \in Correction, RecordCorrection(c) PROVE LearningInv'
    <2>1. /\ versions' = versions /\ domain' = domain /\ active' = active
          /\ learnt' = learnt /\ pc' \in Away /\ written' = written
        BY <1>1 DEF RecordCorrection, StaysActive, GoTo, Away
    <2> QED
        BY <1>0, <2>1, SameVersionsInv, LearntKept, AwayInv, InvParts
<1>2. ASSUME NEW type \in CorrectionTypes, NEW p \in Written,
             NEW requested \in Requested, NEW evidence \in SUBSET candidates,
             NEW now \in BOOLEAN, Put(type, p, requested, evidence, now)
      PROVE  LearningInv'
    <2>1. /\ Add(type, p, requested, evidence) /\ pc' \in Away /\ learnt' = learnt
          /\ written' = written \cup {Len(versions')}
        BY <1>2 DEF Put, GoTo, Away, Command, ledger
    <2>2. p \in Payload /\ requested \subseteq Field /\ evidence \subseteq Correction
        BY PutTypes
    <2>3. VersionsInv'
        BY <1>0, <2>1, <2>2, AddedInv
    <2>4. LearntIsCounted'
        BY <1>0, <2>1, AddFacts, LearntKept DEF TypeOK
    <2> QED
        BY <2>1, <2>3, <2>4, AwayInv, InvParts
<1>3. ASSUME NEW v \in 1..Len(versions), UserActivates(v) PROVE LearningInv'
    <2>1. /\ Activated(v) /\ pc' \in Away /\ learnt' = learnt
        BY <1>3 DEF UserActivates, Command, ledger, Away
    <2>2. /\ versions' = versions /\ domain' = domain /\ active' # 0
          /\ written' = written
        BY <2>1, ActivatedFacts
    <2> QED
        BY <1>0, <2>1, <2>2, SameVersionsInv, LearntKept, AwayInv, InvParts
<1>4. ASSUME NEW v \in 1..Len(versions), UserRollsBack(v) PROVE LearningInv'
    <2>1. /\ versions' = versions /\ domain' = domain /\ active' # 0
          /\ pc' \in Away /\ learnt' = learnt /\ written' = written
        BY <1>4 DEF UserRollsBack, Rollback, Command, ledger, Away
    <2> QED
        BY <1>0, <2>1, SameVersionsInv, LearntKept, AwayInv, InvParts
<1>5. ASSUME UserPinsEmotion PROVE LearningInv'
    <2>1. /\ versions' = versions /\ domain' = domain /\ active' = active
          /\ learnt' = learnt /\ pc' \in Away /\ written' = written
        BY <1>5 DEF UserPinsEmotion, StaysActive, ledger, Away
    <2> QED
        BY <1>0, <2>1, SameVersionsInv, LearntKept, AwayInv, InvParts
<1> QED
    BY <1>1, <1>2, <1>3, <1>4, <1>5 DEF UserNext

LEMMA WorldInv ==
    ASSUME TypeOK, LearningInv,
           ProposeCandidate \/ ActivatePut \/ MessagesArrive \/ IntervalPasses
             \/ Crash \/ ScheduledRefresh \/ ForcedRefresh
    PROVE  LearningInv'
<1>0. VersionsInv /\ LearntIsCounted /\ AtHand
    BY InvParts
<1>1. learnt' = learnt /\ pc' \in Away
    BY DEF ProposeCandidate, ActivatePut, MessagesArrive, IntervalPasses, Crash,
           ScheduledRefresh, ForcedRefresh, StartRefresh, GoTo, ledger, Away
<1>2. /\ versions' = versions /\ domain' = domain /\ written' = written
      /\ active' = active \/ active' # 0
    <2>1. CASE ActivatePut
        <3>1. cur \in 1..Len(versions) /\ Activated(cur)
            BY <2>1 DEF ActivatePut, TypeOK, DistillationTypeOK
        <3> QED
            BY <3>1, ActivatedFacts
    <2>2. CASE ~ ActivatePut
        BY <2>2 DEF ProposeCandidate, MessagesArrive, IntervalPasses, Crash,
                    ScheduledRefresh, ForcedRefresh, StartRefresh, StaysActive
    <2> QED
        BY <2>1, <2>2
<1> QED
    BY <1>0, <1>1, <1>2, SameVersionsInv, LearntKept, AwayInv, InvParts

LEMMA PendingKept ==
    ASSUME InRefresh, learnt' = learnt
    PROVE  Pending' = Pending
BY DEF InRefresh, Pending

\* A part of the refresh that leaves the versions or activates one, and goes
\* where AtHand does not reach.
LEMMA FoundInv ==
    ASSUME TypeOK, LearningInv, learnt' = learnt, pc' \in Away,
           StaysActive \/ \E v \in 1..Len(versions) : Activated(v)
    PROVE  LearningInv'
<1>1. /\ versions' = versions /\ domain' = domain /\ written' = written
      /\ active' = active \/ active' # 0
    <2>1. CASE StaysActive
        BY <2>1 DEF StaysActive
    <2>2. CASE \E v \in 1..Len(versions) : Activated(v)
        BY <2>2, ActivatedFacts
    <2> QED
        BY <2>1, <2>2
<1> QED
    BY <1>1, SameVersionsInv, LearntKept, AwayInv, InvParts

LEMMA MadeInv ==
    ASSUME TypeOK, LearningInv, InRefresh, learnt' = learnt,
           NEW payload \in Payload, NEW requested \in SUBSET Field,
           NEW evidence \in SUBSET Correction, NEW activating, NEW next,
           Make(payload, requested, evidence, activating, next),
           \A c \in evidence : payload.learned[c] > 0,
           {activating, next} \cap {"groups_activate", "mark"} # {}
               => Pending \subseteq evidence
    PROVE  LearningInv'
<1>1. /\ Add("automatic", payload, requested, evidence)
      /\ cur' = Len(versions') /\ pc' \in {activating, next}
      /\ written' = written
    BY DEF Make, GoTo
<1>2. VersionsInv /\ LearntIsCounted
    BY InvParts
<1>3. VersionsInv'
    BY <1>1, <1>2, AddedInv DEF CorrectionTypes
<1>4. LearntIsCounted'
    BY <1>1, <1>2, AddFacts, LearntKept DEF TypeOK
<1>5. /\ versions'[cur'] = Created("automatic", payload, requested, evidence)
      /\ active' = active
    BY <1>1, AddFacts DEF TypeOK
<1>6. /\ versions'[cur'].type = "automatic" /\ versions'[cur'].parent = active'
      /\ versions'[cur'].evidence = evidence
    BY <1>5 DEF Created
<1>7. AtHand'
    BY <1>1, <1>6, PendingKept DEF AtHand
<1> QED
    BY <1>3, <1>4, <1>7, InvParts

LEMMA AggregateCounts ==
    ASSUME TypeOK, NEW S \in SUBSET Correction, NEW c \in S
    PROVE  Aggregate(S).learned[c] > 0
<1>1. PayloadOf(active) \in Payload
    BY PayloadTypes DEF TypeOK, DistillationTypeOK
<1>2. PayloadOf(active).learned[c] \in Nat
    BY <1>1 DEF Payload
<1>3. Aggregate(S).learned =
          [d \in Correction |-> PayloadOf(active).learned[d]
                                  + (IF d \in S THEN 1 ELSE 0)]
    BY <1>1 DEF Aggregate, Payload
<1> QED
    BY <1>2, <1>3

LEMMA RefreshInv ==
    ASSUME TypeOK, LearningInv, RefreshStep
    PROVE  LearningInv'
<1>0. VersionsInv /\ LearntIsCounted /\ AtHand /\ Len(versions) \in Nat
    BY InvParts DEF TypeOK, DistillationTypeOK
<1>1. ASSUME NEW next \in Away, Skip(next), learnt' = learnt PROVE LearningInv'
    BY <1>1, FoundInv DEF Skip, GoTo
<1>2. CASE EmotionElsewhere \/ EmotionUnchanged
    BY <1>1, <1>2 DEF EmotionElsewhere, EmotionUnchanged, Away
<1>3. CASE EmotionChanged
    <2>1. InRefresh /\ learnt' = learnt
        BY <1>3 DEF EmotionChanged
    <2>2. CASE \E v \in Newest(SameAs(EmotionPayload)) : TakeExisting(v, "groups")
        <3>1. PICK v \in 1..Len(versions) : TakeExisting(v, "groups")
            BY <2>2 DEF Newest, SameAs
        <3> QED
            BY <2>1, <3>1, FoundInv DEF TakeExisting, GoTo, Away
    <2>3. CASE Make(EmotionPayload, {}, {}, "emotion_activate", "groups")
        BY <2>1, <2>3, MadeInv, ObservedTypes
    <2>4. CASE Skip("idle")
        BY <1>1, <2>1, <2>4 DEF Away
    <2> QED
        BY <1>3, <2>2, <2>3, <2>4 DEF EmotionChanged
<1>4. CASE Groups
    <2>1. InRefresh /\ learnt' = learnt
        BY <1>4 DEF Groups
    <2>2. CASE \E v \in Newest(Covering(Pending)) : TakeExisting(v, "mark")
        <3>1. PICK v \in 1..Len(versions) :
                 TakeExisting(v, "mark") /\ Pending \subseteq versions[v].evidence
            BY <2>2 DEF Newest, Covering
        <3>2. /\ versions' = versions /\ domain' = domain /\ written' = written
              /\ active' = active \/ active' # 0
            <4>1. CASE StaysActive
                BY <4>1 DEF StaysActive
            <4>2. CASE Activated(v)
                BY <4>2, ActivatedFacts
            <4> QED
                BY <3>1, <4>1, <4>2 DEF TakeExisting
        <3>3. pc' = "mark" /\ cur' = v
            BY <3>1 DEF TakeExisting, GoTo
        <3>4. AtHand'
            BY <2>1, <3>1, <3>2, <3>3, PendingKept DEF AtHand
        <3> QED
            BY <1>0, <2>1, <3>2, <3>4, SameVersionsInv, LearntKept, InvParts
    <2>3. CASE Make(Aggregate(Pending), {}, Pending, "groups_activate", "mark")
        BY <2>1, <2>3, MadeInv, AggregateType, AggregateCounts, PendingType
        DEF TypeOK
    <2>4. CASE Skip("profile")
        BY <1>1, <2>1, <2>4 DEF Away
    <2> QED
        BY <1>4, <2>2, <2>3, <2>4 DEF Groups
<1>5. CASE Mark
    <2>1. PICK c \in Pending : learnt' = [learnt EXCEPT ![c] = cur]
        BY <1>5 DEF Mark
    <2>2. /\ versions' = versions /\ domain' = domain /\ active' = active
          /\ cur' = cur /\ cur # 0 /\ pc = "mark" /\ pc' \in {"mark", "profile"}
          /\ candidates' = candidates /\ written' = written
        BY <1>5 DEF Mark, StaysActive, GoTo, InRefresh, TypeOK
    <2>3. c \in Correction /\ cur \in 1..Len(versions) /\ cur \in Nat
        BY <1>0, <2>1, <2>2, PendingType DEF TypeOK
    <2>4. Pending \subseteq versions[cur].evidence
        BY <1>0, <2>2 DEF AtHand
    <2>5. cur \notin written => versions[cur].payload.learned[c] > 0
        BY <1>0, <2>1, <2>3, <2>4 DEF VersionsInv, EvidenceIsCounted
    <2>6. \A d \in Correction : learnt'[d] = IF d = c THEN cur ELSE learnt[d]
        BY <2>1 DEF TypeOK
    <2>7. LearntIsCounted'
        BY <1>0, <2>1, <2>2, <2>4, <2>5, <2>6 DEF LearntIsCounted
    <2>8. Pending' \subseteq Pending
        BY <2>2, <2>3, <2>6 DEF Pending, TypeOK
    <2>9. AtHand'
        BY <2>2, <2>4, <2>8 DEF AtHand
    <2> QED
        BY <1>0, <2>2, <2>7, <2>9, SameVersionsInv, InvParts
<1>6. CASE RefreshProfile
    <2>1. InRefresh /\ learnt' = learnt /\ (domain # "relationship" => Skip("complete"))
        BY <1>6 DEF RefreshProfile
    <2>2. CASE \E v \in Newest(SameAs(Profile)) : TakeProfile(v)
        <3>1. PICK v \in 1..Len(versions) : TakeProfile(v)
            BY <2>2 DEF Newest, SameAs
        <3> QED
            BY <2>1, <3>1, FoundInv DEF TakeProfile, GoTo, Away
    <2>3. CASE /\ domain = "relationship"
               /\ Make(Profile, RelationshipProtected, {}, "profile_activate",
                       "complete")
        <3>1. RelationshipProtected \subseteq Field
            BY DEF RelationshipProtected, Field
        <3> QED
            BY <2>1, <2>3, <3>1, MadeInv, ObservedTypes
    <2>4. CASE Skip("complete")
        BY <1>1, <2>1, <2>4 DEF Away
    <2> QED
        BY <1>6, <2>1, <2>2, <2>3, <2>4 DEF RefreshProfile
<1>7. CASE ActivateMade
    <2>1. cur \in 1..Len(versions) /\ Activated(cur)
        BY <1>0, <1>7 DEF ActivateMade, TypeOK
    <2>2. /\ learnt' = learnt /\ cur' = cur /\ InRefresh
          /\ \/ pc' \in Away
             \/ pc = "groups_activate" /\ pc' = "mark"
        BY <1>7 DEF ActivateMade, GoTo, Away
    <2>3. /\ versions' = versions /\ domain' = domain /\ active' # 0
          /\ written' = written
        BY <2>1, ActivatedFacts
    <2>4. AtHand'
        <3>1. CASE pc' \in Away
            BY <3>1, AwayInv
        <3>2. CASE pc = "groups_activate" /\ pc' = "mark"
            BY <1>0, <2>2, <2>3, <3>2, PendingKept DEF AtHand
        <3> QED
            BY <2>2, <3>1, <3>2
    <2> QED
        BY <1>0, <2>2, <2>3, <2>4, SameVersionsInv, LearntKept, InvParts
<1>8. CASE CompleteRefresh
    BY <1>8, FoundInv DEF CompleteRefresh, GoTo, Away
<1> QED
    BY <1>2, <1>3, <1>4, <1>5, <1>6, <1>7, <1>8 DEF RefreshStep

LEMMA NextInv == TypeOK /\ LearningInv /\ [Next]_vars => LearningInv'
<1> SUFFICES ASSUME TypeOK, LearningInv, [Next]_vars PROVE LearningInv'
    OBVIOUS
<1>1. CASE UNCHANGED vars
    <2>1. /\ versions' = versions /\ domain' = domain /\ active' = active
          /\ learnt' = learnt /\ candidates' = candidates /\ pc' = pc /\ cur' = cur
          /\ written' = written
        BY <1>1 DEF vars, ledger
    <2>2. Pending' = Pending
        BY <2>1 DEF Pending
    <2>3. AtHand'
        BY <2>1, <2>2, InvParts DEF AtHand
    <2> QED
        BY <2>1, <2>3, SameVersionsInv, LearntKept, InvParts
<1>2. CASE UserNext
    BY <1>2, UserInv
<1>3. CASE RefreshStep
    BY <1>3, RefreshInv
<1> QED
    BY <1>1, <1>2, <1>3, WorldInv DEF Next

\* Between transactions, and between the steps of a refresh that may die at
\* any of them, versions keep what they protect, and only what a version
\* counts is marked.
THEOREM LearningIsSound == Spec => []LearningInv
BY InitType, NextType, InitInv, NextInv, PTL DEF Spec

-----------------------------------------------------------------------------
(* Theorems.                                                               *)

\* Every automatic version leaves the fields it protects as its parent has
\* them, and protects whatever its parent protects.
THEOREM AutomaticAlwaysKeeps == Spec => []AutomaticKeeps
<1>1. LearningInv => AutomaticKeeps
    BY DEF LearningInv
<1> QED
    BY <1>1, LearningIsSound, PTL

\* A correction set aside as learnt is evidence of the version its record names,
\* which counts it unless the user wrote it.
THEOREM LearntIsAlwaysCounted == Spec => []LearntIsCounted
<1>1. LearningInv => LearntIsCounted
    BY DEF LearningInv
<1> QED
    BY <1>1, LearningIsSound, PTL

\* What a refresh activates in place of the active version leaves the
\* protected fields of that one alone, unless the user confirmed it for it.
LEMMA ActivationKeeps ==
    ASSUME TypeOK, LearningInv, NEW v \in 1..Len(versions), Activated(v),
           active = 0 \/ active = versions[v].parent
    PROVE  \/ ~ Touches(active, PayloadOf(active)', Mandatory \cup ProtectsOf(active))
           \/ /\ versions[active'].type = "user_confirmed"
              /\ versions[active'].parent = active
<1>1. /\ PayloadOf(active)' = versions[v].payload
      /\ versions[v].parent = active /\ active' = v
    <2>1. active' = v /\ versions' = versions /\ v # 0
        BY ActivatedFacts DEF TypeOK, DistillationTypeOK
    <2>2. versions[v].parent = active
        BY DEF LearningInv, ParentsWereActive
    <2> QED
        BY <2>1, <2>2 DEF PayloadOf
<1>2. CASE versions[v].type = "automatic"
    <2>1. /\ Mandatory \cup ProtectsOf(active) \subseteq versions[v].protects
          /\ ~ Touches(active, versions[v].payload, versions[v].protects)
        BY <1>1, <1>2 DEF LearningInv, AutomaticKeeps
    <2> QED
        BY <1>1, <2>1 DEF Touches
<1>3. CASE versions[v].type # "automatic"
    <2>1. versions[v].type = "user_confirmed"
        BY <1>3, VersionTypes DEF TypeOK, CorrectionTypes
    <2> QED
        BY <1>1, <2>1
<1> QED
    BY <1>2, <1>3

LEMMA ActiveUnchanged ==
    ASSUME TypeOK, active' = active,
           \A v \in 1..Len(versions) : versions'[v] = versions[v]
    PROVE  ~ Touches(active, PayloadOf(active)', Mandatory \cup ProtectsOf(active))
<1>1. active = 0 \/ (active # 0 /\ versions'[active] = versions[active])
    BY DEF TypeOK, DistillationTypeOK
<1>2. PayloadOf(active)' = PayloadOf(active)
    BY <1>1 DEF PayloadOf
<1> QED
    BY <1>2 DEF Touches

LEMMA MadeKeeps ==
    ASSUME TypeOK, NEW payload, NEW requested, NEW evidence, NEW activating, NEW next,
           Make(payload, requested, evidence, activating, next)
    PROVE  ~ Touches(active, PayloadOf(active)', Mandatory \cup ProtectsOf(active))
<1>1. Add("automatic", payload, requested, evidence)
    BY DEF Make
<1>2. active' = active /\ \A v \in 1..Len(versions) : versions'[v] = versions[v]
    BY <1>1, AddFacts DEF TypeOK
<1> QED
    BY <1>2, ActiveUnchanged

LEMMA RefreshStepKeeps ==
    ASSUME TypeOK, LearningInv, RefreshStep
    PROVE  \/ ~ Touches(active, PayloadOf(active)', Mandatory \cup ProtectsOf(active))
           \/ /\ versions[active'].type = "user_confirmed"
              /\ versions[active'].parent = active
<1> DEFINE Kept ==
        \/ ~ Touches(active, PayloadOf(active)', Mandatory \cup ProtectsOf(active))
        \/ /\ versions[active'].type = "user_confirmed"
           /\ versions[active'].parent = active
<1>1. StaysActive => Kept
    BY ActiveUnchanged DEF StaysActive
<1>2. ASSUME NEW v \in 1..Len(versions), NEW next, TakeExisting(v, next)
      PROVE  Kept
    <2>1. StaysActive \/ (MayActivate(v) /\ Activated(v))
        BY <1>2 DEF TakeExisting
    <2> QED
        BY <1>1, <1>2, <2>1, ActivationKeeps DEF MayActivate
<1>3. CASE EmotionElsewhere \/ EmotionUnchanged \/ Mark \/ CompleteRefresh
    BY <1>1, <1>3
    DEF EmotionElsewhere, EmotionUnchanged, Mark, CompleteRefresh, Skip
<1>4. CASE EmotionChanged
    <2>1. CASE \E v \in Newest(SameAs(EmotionPayload)) : TakeExisting(v, "groups")
        BY <1>2, <1>4, <2>1 DEF EmotionChanged, Newest, SameAs
    <2>2. CASE Make(EmotionPayload, {}, {}, "emotion_activate", "groups")
        BY <2>2, MadeKeeps
    <2>3. CASE Skip("idle")
        BY <1>1, <2>3 DEF Skip
    <2> QED
        BY <1>4, <2>1, <2>2, <2>3 DEF EmotionChanged
<1>5. CASE Groups
    <2>1. CASE Enough /\ \E v \in Newest(Covering(Pending)) : TakeExisting(v, "mark")
        <3>1. PICK v \in 1..Len(versions) : TakeExisting(v, "mark")
            BY <2>1 DEF Newest, Covering
        <3> QED
            BY <1>2, <3>1
    <2>2. CASE Make(Aggregate(Pending), {}, Pending, "groups_activate", "mark")
        BY <2>2, MadeKeeps
    <2>3. CASE Skip("profile")
        BY <1>1, <2>3 DEF Skip
    <2> QED
        BY <1>5, <2>1, <2>2, <2>3 DEF Groups
<1>6. CASE RefreshProfile
    <2>1. CASE /\ domain = "relationship"
               /\ \E v \in Newest(SameAs(Profile)) : TakeProfile(v)
        <3>1. PICK v \in 1..Len(versions) :
                 TakeProfile(v) /\ versions[v].payload = Profile
            BY <2>1 DEF Newest, SameAs
        <3>2. StaysActive \/ (active = 0 /\ Activated(v))
            BY <3>1 DEF TakeProfile
        <3> QED
            BY <1>1, <2>1, <3>1, <3>2, ActivationKeeps
    <2>2. CASE Make(Profile, RelationshipProtected, {}, "profile_activate",
                    "complete")
        BY <2>2, MadeKeeps
    <2>3. CASE Skip("complete")
        BY <1>1, <2>3 DEF Skip
    <2> QED
        BY <1>6, <2>1, <2>2, <2>3 DEF RefreshProfile
<1>7. CASE ActivateMade
    <2>1. /\ cur \in 1..Len(versions) /\ Activated(cur)
          /\ pc \in {"emotion_activate", "groups_activate", "profile_activate"}
        BY <1>7 DEF ActivateMade, TypeOK, DistillationTypeOK
    <2>2. versions[cur].type = "automatic" /\ versions[cur].parent = active
        BY <2>1 DEF LearningInv, AtHand
    <2> QED
        BY <2>1, <2>2, ActivationKeeps
<1> QED
    BY <1>3, <1>4, <1>5, <1>6, <1>7 DEF RefreshStep

\* A refresh never changes what the active version protects by a version the
\* user has not confirmed in its place, wherever a death left the versions and
\* whatever the user put or activated in between.
THEOREM RefreshAlwaysKeepsProtected == Spec => RefreshKeepsProtected
<1> DEFINE Confirms == /\ versions[active'].type = "user_confirmed"
                       /\ versions[active'].parent = active
           Step == (/\ pc \in RefreshSteps
                    /\ Touches(active, PayloadOf(active)',
                               Mandatory \cup ProtectsOf(active)))
                   => Confirms
<1>1. TypeOK /\ LearningInv /\ [Next]_vars => [Step]_vars
    <2> SUFFICES ASSUME TypeOK, LearningInv, [Next]_vars, ~ UNCHANGED vars,
                        pc \in RefreshSteps
                 PROVE  \/ ~ Touches(active, PayloadOf(active)',
                                     Mandatory \cup ProtectsOf(active))
                        \/ Confirms
        OBVIOUS
    <2>1. pc \notin {"idle", "candidate", "put"}
        BY DEF RefreshSteps
    <2>2. RefreshStep \/ Crash
        BY <2>1 DEF Next, UserNext, RecordCorrection, Put, UserActivates, UserRollsBack,
                    Command, UserPinsEmotion, ProposeCandidate, ActivatePut,
                    MessagesArrive, IntervalPasses, ScheduledRefresh,
                    ForcedRefresh, StartRefresh
    <2>3. CASE Crash
        BY <2>3, ActiveUnchanged DEF Crash, StaysActive
    <2> QED
        BY <2>2, <2>3, RefreshStepKeeps
<1> QED
    BY <1>1, TypeCorrect, LearningIsSound, PTL DEF Spec, RefreshKeepsProtected

-----------------------------------------------------------------------------
(* Lines of versions.  Lineage is defined by recursion along the parents;   *)
(* that the recursion has a solution, and what holds all along a line, is   *)
(* proved by induction over a set of numbers, made with its least element.  *)

LEMMA NatSets ==
    ASSUME NEW P \in SUBSET Nat, 0 \in P, \A n \in P : n + 1 \in P
    PROVE  P = Nat
<1> DEFINE Q == Nat \ P
<1> SUFFICES ASSUME Q # {} PROVE FALSE
    OBVIOUS
<1>1. PICK n \in Q : \A m \in Q : ~ (<<m, n>> \in OpToRel(<, Nat))
  <2> Q \subseteq Nat
    OBVIOUS
  <2> HIDE DEF Q
  <2> QED
    BY NatLessThanWellFounded, WFMin
<1>2. n - 1 \in Q
    OBVIOUS
<1>3. <<n - 1, n>> \in OpToRel(<, Nat)
    BY <1>2 DEF OpToRel
<1> QED
    BY <1>1, <1>2, <1>3

Line(L) == L = [u \in 0..Len(versions) |->
                   IF u = 0 THEN {} ELSE {u} \cup L[versions[u].parent]]

LEMMA LineExists ==
    ASSUME DistillationTypeOK
    PROVE  \E L : Line(L)
<1> DEFINE Upto(L, n) ==
               L = [u \in 0..Len(versions) \cap 0..n |->
                       IF u = 0 THEN {} ELSE {u} \cup L[versions[u].parent]]
           P == {n \in Nat : \E L : Upto(L, n)}
<1>0. /\ Len(versions) \in Nat
      /\ \A u \in 1..Len(versions) : versions[u].parent \in 0..(u - 1)
    BY DEF DistillationTypeOK
<1>1. 0 \in P
  <2> DEFINE L == [u \in 0..Len(versions) \cap 0..0 |-> {}]
  <2>1. Upto(L, 0)
    OBVIOUS
  <2> QED
    BY <2>1
<1>2. \A n \in P : n + 1 \in P
  <2>0. \A n \in Nat : n + 1 \in Nat
    OBVIOUS
  <2> SUFFICES ASSUME NEW n \in Nat, NEW L, Upto(L, n)
               PROVE  \E M : Upto(M, n + 1)
    BY <2>0
  <2> DEFINE M == [u \in 0..Len(versions) \cap 0..(n + 1) |->
                      IF u = 0 THEN {} ELSE {u} \cup L[versions[u].parent]]
  <2>1. ASSUME NEW u \in 0..Len(versions) \cap 0..(n + 1), u # 0
        PROVE  /\ versions[u].parent \in 0..Len(versions) \cap 0..n
               /\ versions[u].parent \in 0..Len(versions) \cap 0..(n + 1)
    BY <2>1, <1>0
  <2>2. \A u \in 0..Len(versions) \cap 0..n :
           /\ u \in 0..Len(versions) \cap 0..(n + 1)
           /\ L[u] = IF u = 0 THEN {} ELSE {u} \cup L[versions[u].parent]
    <3>1. \A u \in 0..n : u \in 0..(n + 1)
      OBVIOUS
    <3>2. \A u \in 0..Len(versions) \cap 0..n :
             L[u] = IF u = 0 THEN {} ELSE {u} \cup L[versions[u].parent]
      OBVIOUS
    <3> QED
      BY <3>1, <3>2
  <2>3. \A u \in 0..Len(versions) \cap 0..n : M[u] = L[u]
    BY <2>2
  <2>4. \A u \in 0..Len(versions) \cap 0..(n + 1) :
           u # 0 => M[versions[u].parent] = L[versions[u].parent]
    BY <2>1, <2>3
  <2>5. Upto(M, n + 1)
    BY <2>4
  <2> QED
    BY <2>5
<1>3. P = Nat
  <2> P \in SUBSET Nat
    OBVIOUS
  <2> HIDE DEF P
  <2> QED
    BY <1>1, <1>2, NatSets
<1>4. PICK L : Upto(L, Len(versions))
    BY <1>0, <1>3
<1>5. 0..Len(versions) \cap 0..Len(versions) = 0..Len(versions)
    OBVIOUS
<1> QED
    BY <1>4, <1>5 DEF Line

\* The line of a version is the version and its parent's line.
LEMMA LineageIs ==
    ASSUME DistillationTypeOK
    PROVE  /\ Lineage(0) = {}
           /\ \A v \in 1..Len(versions) :
                 Lineage(v) = {v} \cup Lineage(versions[v].parent)
<1> DEFINE L == CHOOSE L : Line(L)
<1>0. Line(L)
    BY LineExists
<1>1. \A v : Lineage(v) = L[v]
    BY DEF Lineage, Line
<1> HIDE DEF L
<1>2. L[0] = {} /\ \A v \in 1..Len(versions) : L[v] = {v} \cup L[versions[v].parent]
    BY <1>0 DEF Line, DistillationTypeOK
<1> QED
    BY <1>1, <1>2

\* What ProtectedIsKept says of one version.
KeptSince(v) ==
    \A u \in Lineage(v) \cup {0} :
        (\A w \in Lineage(v) : w > u => versions[w].type = "automatic") =>
            \A f \in Mandatory \cup ProtectsOf(u) :
                versions[v].payload[f] = PayloadOf(u)[f]

\* What any version on a line protects, its last version protects as well.
Inherits(v) ==
    /\ Lineage(v) \subseteq 1..v
    /\ \A u \in Lineage(v) : ProtectsOf(u) \subseteq ProtectsOf(v)

LEMMA LinesKeep ==
    ASSUME DistillationTypeOK, AutomaticKeeps
    PROVE  \A v \in 1..Len(versions) : Inherits(v) /\ KeptSince(v)
<1> DEFINE P == {n \in Nat : \A v \in 1..Len(versions) :
                                v <= n => Inherits(v) /\ KeptSince(v)}
<1>1. 0 \in P
    OBVIOUS
<1>2. \A n \in P : n + 1 \in P
  <2>0. \A n \in Nat : n + 1 \in Nat
    OBVIOUS
  <2> SUFFICES ASSUME NEW n \in P, NEW v \in 1..Len(versions), v <= n + 1
               PROVE  Inherits(v) /\ KeptSince(v)
    BY <2>0
  <2> DEFINE p == versions[v].parent
  <2>1. /\ p \in 0..Len(versions) /\ p < v /\ v \in Nat /\ p \in Nat
        /\ Mandatory \cup ProtectsOf(p) \subseteq versions[v].protects
        /\ versions[v].type = "automatic" =>
             ~ Touches(p, versions[v].payload, versions[v].protects)
        /\ versions[v].protects = ProtectsOf(v)
    BY VersionTypes DEF AutomaticKeeps, ProtectsOf, DistillationTypeOK
  <2>2. Lineage(v) = {v} \cup Lineage(p)
    BY LineageIs
  <2>3. /\ p = 0 => Lineage(p) = {}
        /\ p # 0 => p \in 1..Len(versions) /\ Inherits(p) /\ KeptSince(p)
    <3>1. CASE p = 0
      BY <3>1, LineageIs
    <3>2. CASE p # 0
      <4>1. p \in 1..Len(versions) /\ p <= n
        BY <2>1, <3>2
      <4> QED
        BY <4>1, <3>2
    <3> QED
      BY <3>1, <3>2
  <2> HIDE DEF p, P
  <2>4. Lineage(p) \subseteq 1..p /\ \A u \in Lineage(p) : ProtectsOf(u) \subseteq ProtectsOf(p)
    BY <2>3 DEF Inherits
  <2>5. Inherits(v)
    BY <2>1, <2>2, <2>4 DEF Inherits
  <2>6. KeptSince(v)
    <3> SUFFICES ASSUME NEW u \in Lineage(v) \cup {0},
                        \A w \in Lineage(v) : w > u => versions[w].type = "automatic",
                        NEW f \in Mandatory \cup ProtectsOf(u)
                 PROVE  versions[v].payload[f] = PayloadOf(u)[f]
      BY DEF KeptSince
    <3>1. CASE u = v
      BY <3>1, <2>1 DEF PayloadOf
    <3>2. CASE u # v
      <4>1. u \in Lineage(p) \cup {0} /\ u \in Nat /\ u < v
        BY <3>2, <2>1, <2>2, <2>4
      <4>2. versions[v].type = "automatic"
        BY <4>1, <2>1, <2>2
      <4>3. f \in versions[v].protects
        BY <4>1, <2>1, <2>4 DEF ProtectsOf
      <4>4. PayloadOf(p)[f] = versions[v].payload[f]
        BY <4>2, <4>3, <2>1 DEF Touches
      <4>5. PayloadOf(p)[f] = PayloadOf(u)[f]
        <5>1. CASE p = 0
          BY <5>1, <4>1, <2>3
        <5>2. CASE p # 0
          BY <5>2, <4>1, <2>2, <2>3 DEF KeptSince, PayloadOf
        <5> QED
          BY <5>1, <5>2
      <4> QED
        BY <4>4, <4>5
    <3> QED
      BY <3>1, <3>2
  <2> QED
    BY <2>5, <2>6
<1>3. P = Nat
  <2> P \in SUBSET Nat
    OBVIOUS
  <2> HIDE DEF P
  <2> QED
    BY <1>1, <1>2, NatSets
<1>4. Len(versions) \in Nat
    BY DEF DistillationTypeOK
<1>5. Len(versions) \in P
    BY <1>3, <1>4
<1> QED
    BY <1>4, <1>5

\* No chain of learned versions, however long, wears down what a version on it
\* protected since the user last confirmed one (create_version,
\* activate_version, rollback).
THEOREM ProtectedIsAlwaysKept == Spec => []ProtectedIsKept
<1>1. TypeOK /\ LearningInv => ProtectedIsKept
    BY LinesKeep DEF TypeOK, LearningInv, ProtectedIsKept, KeptSince
<1> QED
    BY <1>1, TypeCorrect, LearningIsSound, PTL

-----------------------------------------------------------------------------
(* What is counted, what is in force, and what a rollback left: ForceInv    *)
(* through the three kinds of step: versions and pointer rest, the pointer  *)
(* moves, a version is added.                                               *)

LEMMA Numbers ==
    ASSUME TypeOK
    PROVE  /\ Len(versions) \in Nat /\ active \in Nat /\ active \in 0..Len(versions)
           /\ crashes \in Nat /\ commands \in Nat /\ messages \in Nat
           /\ \A v \in 1..Len(versions) :
                 /\ v \in Nat /\ v # 0
                 /\ versions[v].parent \in Nat /\ versions[v].parent < v
                 /\ versions[v].payload.observed \in Nat
                 /\ \A c \in Correction : versions[v].payload.learned[c] \in Nat
<1>1. Len(versions) \in Nat /\ active \in 0..Len(versions)
    BY DEF TypeOK, DistillationTypeOK
<1>2. crashes \in Nat /\ commands \in Nat /\ messages \in Nat
    BY LearningAssumption DEF TypeOK
<1>3. ASSUME NEW v \in 1..Len(versions)
      PROVE  /\ v \in Nat /\ v # 0
             /\ versions[v].parent \in Nat /\ versions[v].parent < v
             /\ versions[v].payload.observed \in Nat
             /\ \A c \in Correction : versions[v].payload.learned[c] \in Nat
    BY <1>1, VersionTypes DEF TypeOK, Payload
<1> QED
    BY <1>1, <1>2, <1>3

\* The versions that count a correction are finitely many.
LEMMA CountedNumber ==
    ASSUME TypeOK, NEW c
    PROVE  IsFiniteSet(CountedBy(c)) /\ Cardinality(CountedBy(c)) \in Nat
<1>1. CountedBy(c) \subseteq 1..Len(versions)
    BY DEF CountedBy
<1>2. IsFiniteSet(1..Len(versions))
    BY Numbers, FS_Interval
<1>3. IsFiniteSet(CountedBy(c))
    BY <1>1, <1>2, FS_Subset
<1> QED
    BY <1>3, FS_CardinalityType

\* A correction is set aside, or about to be.
Taken(c) == learnt[c] # 0 \/ (Counting /\ c \in candidates)

\* A step that adds no version of a refresh.
LEMMA CountsKept ==
    ASSUME TypeOK, CountsInv,
           \A c \in Correction : CountedBy(c)' = CountedBy(c),
           \/ crashes' = crashes + 1
           \/ crashes' = crashes /\ \A c \in Correction : Taken(c) => Taken(c)'
    PROVE  CountsInv'
<1> SUFFICES ASSUME NEW c \in Correction
             PROVE  Cardinality(CountedBy(c))'
                      <= crashes' + (IF Taken(c)' THEN 1 ELSE 0)
    BY DEF CountsInv, Taken
<1>1. Cardinality(CountedBy(c))' = Cardinality(CountedBy(c))
    OBVIOUS
<1>2. Cardinality(CountedBy(c)) <= crashes + (IF Taken(c) THEN 1 ELSE 0)
    BY DEF CountsInv, Taken
<1>3. Cardinality(CountedBy(c)) \in Nat /\ crashes \in Nat
    BY CountedNumber, Numbers
<1>4. crashes' = crashes + 1 \/ (crashes' = crashes /\ (Taken(c) => Taken(c)'))
    OBVIOUS
<1> HIDE DEF Taken
<1> QED
    BY <1>1, <1>2, <1>3, <1>4

LEMMA InitForce == Init => ForceInv
<1> SUFFICES ASSUME Init PROVE ForceInv
    OBVIOUS
<1>1. Len(versions) = 0 /\ 1..Len(versions) = {} /\ active = 0 /\ pc = "idle"
    BY DEF Init, DistillationInit
<1>2. EvidenceInv /\ ActiveInv /\ ObservedInv
    BY <1>1 DEF Init, EvidenceInv, ActiveInv, ObservedInv
<1>5. CountsInv
  <2>1. \A c \in Correction : CountedBy(c) = {}
    BY <1>1 DEF CountedBy
  <2>2. Cardinality({}) = 0
    BY FS_EmptySet
  <2>3. crashes = 0
    BY DEF Init
  <2> QED
    BY <2>1, <2>2, <2>3 DEF CountsInv
<1>3. DomainInv /\ QuietInv
    BY <1>1 DEF Init, DomainInv, QuietInv, Counting
<1>4. EmotionInv /\ RelationshipInv
    BY <1>1 DEF Init, EmotionInv, RelationshipInv, Latest
<1> QED
    BY <1>2, <1>3, <1>4, <1>5 DEF ForceInv

\* Steps that activate or mark something.
Acting == {"emotion_activate", "groups_activate", "profile_activate", "mark"}

\* What no step of a refresh or of the user changes: the scope's domain and
\* the switch.  Commands and deaths are only counted up, messages only come in.
Frame ==
    /\ domain' = domain /\ activateSafe' = activateSafe
    /\ commands' \in Nat /\ commands' >= commands
    /\ messages' \in Nat /\ messages' >= messages
    /\ messages' # messages => pc' = "idle"

\* The observation is in force where the refresh says so.
InForce(step, observed, count, deaths) ==
    /\ (/\ count = 0 /\ domain = "emotion_cycle" /\ activateSafe
        /\ step \in {"groups", "profile", "complete"})
         => observed = messages
    /\ (/\ count = 0 /\ domain = "relationship" /\ activateSafe /\ deaths = 0
        /\ step = "complete")
         => observed = messages

\* Versions and pointer rest.
Rests ==
    /\ Frame /\ StaysActive
    /\ UNCHANGED <<learnt, candidates, crashes>>
    /\ \/ pc' \in Away \ {"put"} /\ pc \notin Acting
       \/ pc' = pc /\ cur' = cur
       \/ /\ pc = "groups" /\ pc' = "mark" /\ LearnsFromCorrections
          /\ activateSafe => active \notin {0, versions[cur'].parent}

LEMMA RestsForce ==
    ASSUME TypeOK, ForceInv, Rests,
           InForce(pc', Observed(active), commands', crashes)
    PROVE  ForceInv'
<1>0. /\ versions' = versions /\ active' = active /\ domain' = domain
      /\ everActive' = everActive /\ activateSafe' = activateSafe
      /\ written' = written
      /\ learnt' = learnt /\ candidates' = candidates /\ crashes' = crashes
      /\ commands \in Nat /\ commands' \in Nat /\ commands' >= commands
      /\ messages \in Nat /\ messages' \in Nat /\ messages' >= messages
      /\ messages' # messages => pc' = "idle"
      /\ pc' \in {"emotion_activate", "groups_activate", "profile_activate", "put"}
           => pc' = pc /\ cur' = cur
      /\ pc' = "mark" =>
           \/ pc' = pc /\ cur' = cur
           \/ /\ LearnsFromCorrections
              /\ activateSafe => active \notin {0, versions[cur'].parent}
      /\ pc \in Acting => pc' = pc /\ cur' = cur
    BY Numbers DEF Rests, Frame, StaysActive, Away, Acting
<1>1. /\ Counting => Counting'
      /\ Counting' => Counting \/ LearnsFromCorrections
    BY <1>0 DEF Counting, Acting
<1>2. CountsInv'
  <2>1. \A c \in Correction : CountedBy(c)' = CountedBy(c)
    BY <1>0 DEF CountedBy
  <2>2. \A c \in Correction : Taken(c) => Taken(c)'
    BY <1>0, <1>1 DEF Taken
  <2> QED
    BY <1>0, <2>1, <2>2, CountsKept DEF ForceInv
<1>3. EvidenceInv'
    BY <1>0, <1>1 DEF ForceInv, EvidenceInv, Pending
<1>4. ActiveInv'
    BY <1>0 DEF ForceInv, ActiveInv
<1>5. DomainInv'
    BY <1>0, <1>1 DEF ForceInv, DomainInv, LearnsFromCorrections
<1>6. ObservedInv'
  <2>0. Quiet' => Quiet
    BY <1>0 DEF Quiet
  <2>1. ASSUME Quiet', NEW v \in 1..Len(versions)
        PROVE  versions[v].payload.observed <= messages'
    <3>1. /\ versions[v].payload.observed \in Nat
          /\ versions[v].payload.observed <= messages
      BY <2>0, <2>1, Numbers DEF ForceInv, ObservedInv
    <3> QED
      BY <3>1, <1>0
  <2>2. pc' \in {"emotion_activate", "profile_activate"} =>
            versions[cur].payload.observed = messages /\ cur' = cur
              /\ messages' = messages
    BY <1>0 DEF ForceInv, ObservedInv
  <2> QED
    BY <1>0, <2>1, <2>2 DEF ObservedInv
<1>7. commands' = 0 => commands = 0
    BY <1>0
<1>8. QuietInv'
    BY <1>0, <1>7 DEF ForceInv, QuietInv, Quiet, LearnsFromCorrections
<1>9. /\ \A v : Observed(v)' = Observed(v)
      /\ Latest' = Latest
    BY <1>0 DEF Observed, PayloadOf, Latest
<1>10. Observed(active)' = Observed(active)
    BY <1>0 DEF Observed, PayloadOf
<1>11. pc' \in {"groups", "profile", "complete"} => messages' = messages
    BY <1>0
<1>12. EmotionInv'
    BY <1>0, <1>7, <1>9, <1>10, <1>11 DEF ForceInv, EmotionInv, Quiet, InForce
<1>13. pc' \in {"groups_activate", "profile_activate"} <=>
           pc \in {"groups_activate", "profile_activate"}
    BY <1>0 DEF Acting
<1>14. RelationshipInv'
    BY <1>0, <1>7, <1>9, <1>10, <1>11, <1>13
    DEF ForceInv, RelationshipInv, Quiet, InForce, Acting
<1> QED
    BY <1>2, <1>3, <1>4, <1>5, <1>6, <1>8, <1>12, <1>14 DEF ForceInv

\* The pointer moves to v: v is activated, or the user goes back to it.
Moves(v) ==
    /\ Frame /\ versions' = versions /\ written' = written /\ active' = v
    /\ everActive \subseteq everActive' /\ everActive' \subseteq everActive \cup {v}
    /\ UNCHANGED <<learnt, candidates, crashes>>
    /\ pc' \notin {"emotion_activate", "groups_activate", "profile_activate", "put"}
    /\ Counting => pc' = "mark"
    /\ pc' = "mark" => cur' = v /\ LearnsFromCorrections

LEMMA MovesForce ==
    ASSUME TypeOK, ForceInv, NEW v \in 1..Len(versions), Moves(v),
           Quiet' /\ domain = "emotion_cycle" => v = Latest,
           Quiet' /\ domain = "relationship" /\ crashes = 0 /\ activateSafe
             => v = Latest,
           InForce(pc', Observed(v), commands', crashes)
    PROVE  ForceInv'
<1>0. /\ versions' = versions /\ active' = v /\ domain' = domain
      /\ written' = written
      /\ everActive' \subseteq everActive \cup {v} /\ activateSafe' = activateSafe
      /\ learnt' = learnt /\ candidates' = candidates /\ crashes' = crashes
      /\ commands \in Nat /\ commands' \in Nat /\ commands' >= commands
      /\ messages \in Nat /\ messages' \in Nat /\ messages' >= messages
      /\ messages' # messages => pc' = "idle"
      /\ v # 0 /\ v \in Nat
    BY Numbers DEF Moves, Frame
<1>1. Counting => Counting'
    BY DEF Moves, Counting
<1>2. CountsInv'
  <2>1. \A c \in Correction : CountedBy(c)' = CountedBy(c)
    BY <1>0 DEF CountedBy
  <2>2. \A c \in Correction : Taken(c) => Taken(c)'
    BY <1>0, <1>1 DEF Taken
  <2> QED
    BY <1>0, <2>1, <2>2, CountsKept DEF ForceInv
<1>3. EvidenceInv'
    BY <1>0, <1>1 DEF ForceInv, EvidenceInv, Pending
<1>4. ActiveInv'
    BY <1>0 DEF Moves, ActiveInv
<1>5. DomainInv'
    BY <1>0 DEF ForceInv, DomainInv, LearnsFromCorrections, Moves, Counting
<1>6. ObservedInv'
  <2>0. Quiet' => Quiet
    BY <1>0 DEF Quiet
  <2>1. ASSUME Quiet', NEW u \in 1..Len(versions)
        PROVE  versions[u].payload.observed <= messages'
    <3>1. /\ versions[u].payload.observed \in Nat
          /\ versions[u].payload.observed <= messages
      BY <2>0, <2>1, Numbers DEF ForceInv, ObservedInv
    <3> QED
      BY <3>1, <1>0
  <2> QED
    BY <1>0, <2>1 DEF ObservedInv, Moves
<1>7. commands' = 0 => commands = 0
    BY <1>0
<1>8. QuietInv'
    BY <1>0, <1>7 DEF ForceInv, QuietInv, Quiet, LearnsFromCorrections, Moves
<1>9. /\ \A u : Observed(u)' = Observed(u)
      /\ Latest' = Latest
    BY <1>0 DEF Observed, PayloadOf, Latest
<1>10. Observed(active)' = Observed(v)
    BY <1>0 DEF Observed, PayloadOf
<1>11. pc' \in {"groups", "profile", "complete"} => messages' = messages
    BY <1>0
<1>12. EmotionInv'
    BY <1>0, <1>7, <1>9, <1>10, <1>11
    DEF ForceInv, EmotionInv, Quiet, InForce, Moves
<1>13. RelationshipInv'
    BY <1>0, <1>7, <1>9, <1>10, <1>11
    DEF ForceInv, RelationshipInv, Quiet, InForce, Moves
<1> QED
    BY <1>2, <1>3, <1>4, <1>5, <1>6, <1>8, <1>12, <1>13 DEF ForceInv

\* A version is added, made of the active one.
Adds(payload, requested, evidence) ==
    /\ Frame
    /\ \E type \in CorrectionTypes :
          /\ Add(type, payload, requested, evidence)
          /\ Quiet' => type = "automatic"
    /\ UNCHANGED <<learnt, candidates, crashes, everActive>>
    /\ evidence \subseteq candidates
    /\ ~ Counting
    /\ Counting' => LearnsFromCorrections
    /\ written' \in {written, written \cup {Len(versions')}}
    /\ Len(versions') \notin written' =>
         evidence \subseteq Pending /\ (~ Counting' => evidence = {})
    /\ Quiet' => written' = written /\ payload.observed <= messages

\* Where the refresh, or the user, goes on from there.
GoesOn(payload) ==
    /\ pc' \in {"emotion_activate", "groups_activate", "profile_activate"} =>
         cur' = Len(versions')
    /\ pc' = "mark" => ~ activateSafe
    /\ pc' = "emotion_activate" => domain = "emotion_cycle"
    /\ pc' = "profile_activate" => domain = "relationship"
    /\ pc' \in {"emotion_activate", "profile_activate"} => payload.observed = messages

\* What the refresh makes when the user gave no command.
OwnVersion(payload, requested) ==
    /\ pc' # "put" /\ payload.boundaries = 0 /\ payload.taboos = 0
    /\ domain = "relationship" =>
         Protections(active, requested) \subseteq RelationshipProtected
    /\ ~ LearnsFromCorrections => payload.learned = Empty.learned
    /\ domain = "emotion_cycle" =>
         /\ \A v \in 1..Len(versions) : Observed(v) < payload.observed
         /\ activateSafe => pc' = "emotion_activate"
    /\ domain = "relationship" /\ crashes = 0 /\ activateSafe =>
         /\ pc \notin {"groups_activate", "profile_activate"}
         /\ pc' \in {"groups_activate", "profile_activate"}
         /\ Observed(active) <= payload.observed

LEMMA AddsFacts ==
    ASSUME TypeOK, NEW payload, NEW requested, NEW evidence,
           Adds(payload, requested, evidence)
    PROVE  LET n == Len(versions) + 1
           IN  /\ n \in Nat /\ Len(versions') = n /\ n > Len(versions) /\ n # 0
               /\ \A v \in 1..n : v \in 1..Len(versions) \/ v = n
               /\ \A v \in 1..Len(versions) : versions'[v] = versions[v] /\ v < n
               /\ versions'[n].payload = payload /\ versions'[n].evidence = evidence
               /\ versions'[n].parent = active
               /\ versions'[n].protects = Protections(active, requested)
               /\ Quiet' => versions'[n].type = "automatic"
               /\ active' = active /\ domain' = domain
<1>1. PICK type \in CorrectionTypes :
            Add(type, payload, requested, evidence) /\ (Quiet' => type = "automatic")
    BY DEF Adds
<1>2. versions'[Len(versions')] = Created(type, payload, requested, evidence)
    BY <1>1, AddFacts DEF TypeOK
<1> QED
    BY <1>1, <1>2, AddFacts DEF TypeOK, Created

LEMMA AddsForce ==
    ASSUME TypeOK, ForceInv, NEW payload \in Payload, NEW requested, NEW evidence,
           Adds(payload, requested, evidence), GoesOn(payload),
           Quiet' => OwnVersion(payload, requested)
    PROVE  ForceInv'
<1> DEFINE n == Len(versions) + 1
<1>0. /\ n \in Nat /\ Len(versions') = n /\ n > Len(versions) /\ n # 0
      /\ \A v \in 1..n : v \in 1..Len(versions) \/ v = n
      /\ \A v \in 1..Len(versions) : versions'[v] = versions[v] /\ v < n
      /\ versions'[n].payload = payload /\ versions'[n].evidence = evidence
      /\ versions'[n].parent = active
      /\ versions'[n].protects = Protections(active, requested)
      /\ Quiet' => versions'[n].type = "automatic"
      /\ active' = active /\ domain' = domain
    BY AddsFacts
<1> HIDE DEF n
<1>1. /\ learnt' = learnt /\ candidates' = candidates /\ crashes' = crashes
      /\ everActive' = everActive /\ activateSafe' = activateSafe
      /\ evidence \subseteq candidates /\ ~ Counting
      /\ written' \in {written, written \cup {n}}
      /\ n \notin written' =>
           evidence \subseteq Pending /\ (~ Counting' => evidence = {})
      /\ Quiet' => written' = written /\ payload.observed <= messages
      /\ commands \in Nat /\ commands' \in Nat /\ commands' >= commands
      /\ messages \in Nat /\ messages' \in Nat /\ messages' >= messages
      /\ messages' # messages => pc' = "idle"
      /\ payload.observed \in Nat
    BY <1>0, Numbers DEF Adds, Frame, Payload
<1>2. CountsInv'
  <2> SUFFICES ASSUME NEW c \in Correction
               PROVE  Cardinality(CountedBy(c))'
                        <= crashes + (IF learnt[c] # 0 \/ (Counting' /\ c \in candidates)
                                      THEN 1 ELSE 0)
    BY <1>1 DEF CountsInv
  <2>0. n \notin written /\ written \subseteq 1..Len(versions)
    BY <1>0 DEF TypeOK
  <2>1. /\ IsFiniteSet(CountedBy(c)) /\ Cardinality(CountedBy(c)) \in Nat
        /\ n \notin CountedBy(c) /\ crashes \in Nat
        /\ Cardinality(CountedBy(c)) <= crashes + (IF learnt[c] # 0 THEN 1 ELSE 0)
    <3>1. n \notin CountedBy(c)
      BY <1>0 DEF CountedBy
    <3>2. Cardinality(CountedBy(c)) <= crashes + (IF learnt[c] # 0 THEN 1 ELSE 0)
      BY <1>1 DEF ForceInv, CountsInv
    <3> QED
      BY <3>1, <3>2, Numbers, CountedNumber
  <2>2. CASE n \notin written' /\ c \in evidence
    <3>1. learnt[c] = 0 /\ c \in candidates /\ Counting'
      BY <1>1, <2>2 DEF Pending
    <3>2. CountedBy(c)' = CountedBy(c) \cup {n}
      BY <1>0, <1>1, <2>0, <2>2 DEF CountedBy
    <3>3. Cardinality(CountedBy(c) \cup {n}) = Cardinality(CountedBy(c)) + 1
      BY <2>1, FS_AddElement
    <3> QED
      BY <2>1, <3>1, <3>2, <3>3
  <2>3. CASE ~ (n \notin written' /\ c \in evidence)
    <3>1. CountedBy(c)' = CountedBy(c)
      BY <1>0, <1>1, <2>0, <2>3 DEF CountedBy
    <3> QED
      BY <2>1, <3>1
  <2> QED
    BY <2>2, <2>3
<1>3. EvidenceInv'
  <2>1. ASSUME NEW v \in 1..n
        PROVE  /\ versions'[v].evidence \subseteq candidates
               /\ v \notin written' /\ crashes = 0 /\ ~ Counting' =>
                    versions'[v].evidence \cap Pending = {}
    <3>1. CASE v = n
      BY <1>0, <1>1, <3>1
    <3>2. CASE v \in 1..Len(versions)
      BY <1>0, <1>1, <3>2 DEF ForceInv, EvidenceInv
    <3> QED
      BY <1>0, <3>1, <3>2
  <2>2. Pending' = Pending
    BY <1>1 DEF Pending
  <2> QED
    BY <1>0, <1>1, <2>1, <2>2 DEF EvidenceInv
<1>4. ActiveInv'
  <2>1. n \notin everActive
    BY <1>0 DEF TypeOK
  <2> QED
    BY <1>0, <1>1, <2>1 DEF ForceInv, ActiveInv, GoesOn
<1>5. DomainInv'
    BY <1>0, <1>1 DEF ForceInv, DomainInv, LearnsFromCorrections, Adds, GoesOn
<1>6. ObservedInv'
  <2>0. Quiet' => Quiet
    BY <1>1 DEF Quiet
  <2>1. ASSUME Quiet', NEW v \in 1..n
        PROVE  versions'[v].payload.observed <= messages'
    <3>1. CASE v = n
      BY <1>0, <1>1, <2>1, <3>1
    <3>2. CASE v \in 1..Len(versions)
      <4>1. /\ versions[v].payload.observed \in Nat
            /\ versions[v].payload.observed <= messages
        BY <2>0, <2>1, <3>2, Numbers DEF ForceInv, ObservedInv
      <4> QED
        BY <1>0, <1>1, <3>2, <4>1
    <3> QED
      BY <1>0, <3>1, <3>2
  <2> QED
    BY <1>0, <1>1, <2>1 DEF ObservedInv, GoesOn
<1>7. Quiet' => Quiet
    BY <1>1 DEF Quiet
<1>8. QuietInv'
  <2>1. ASSUME Quiet', NEW v \in 1..n
        PROVE  /\ versions'[v].type = "automatic"
               /\ versions'[v].payload.boundaries = 0
               /\ versions'[v].payload.taboos = 0
               /\ domain = "relationship" =>
                    versions'[v].protects \subseteq RelationshipProtected
               /\ ~ LearnsFromCorrections => versions'[v].payload.learned = Empty.learned
    <3>1. CASE v = n
      BY <1>0, <2>1, <3>1 DEF OwnVersion
    <3>2. CASE v \in 1..Len(versions)
      BY <1>0, <1>7, <2>1, <3>2 DEF ForceInv, QuietInv
    <3> QED
      BY <1>0, <3>1, <3>2
  <2> QED
    BY <1>0, <1>1, <1>7, <2>1
    DEF QuietInv, OwnVersion, LearnsFromCorrections, ForceInv
<1>9. /\ \A v \in 1..Len(versions) : Observed(v)' = Observed(v)
      /\ \A v : v = n => Observed(v)' = payload.observed
      /\ Observed(active)' = Observed(active)
      /\ Latest' = n /\ Observed(active) \in Nat
      /\ \A v \in 1..Len(versions) : Observed(v) \in Nat
  <2>1. ASSUME NEW v \in 0..Len(versions)
        PROVE  Observed(v)' = Observed(v) /\ Observed(v) \in Nat
    <3>1. v # 0 => v \in 1..Len(versions)
      OBVIOUS
    <3> QED
      BY <1>0, <3>1, Numbers DEF Observed, PayloadOf, Empty
  <2>2. active \in 0..Len(versions)
    BY Numbers
  <2>3. Observed(active)' = Observed(active)
    BY <1>0, <2>1, <2>2
  <2>4. ASSUME NEW v, v = n
        PROVE  Observed(v)' = payload.observed
    BY <1>0, <2>4 DEF Observed, PayloadOf
  <2>5. Latest' = n
    BY <1>0 DEF Latest
  <2> QED
    BY <2>1, <2>2, <2>3, <2>4, <2>5
<1>10. EmotionInv'
  <2> SUFFICES ASSUME Quiet', domain = "emotion_cycle"
               PROVE  EmotionInv'
    BY <1>0 DEF EmotionInv
  <2>1. ASSUME NEW u \in 1..n, NEW v \in 1..n, u < v
        PROVE  Observed(u)' < Observed(v)'
    <3>1. u \in 1..Len(versions)
      BY <1>0, <2>1
    <3>2. CASE v = n
      BY <1>9, <3>1, <3>2 DEF OwnVersion
    <3>3. CASE v \in 1..Len(versions)
      BY <1>7, <1>9, <2>1, <3>1, <3>3 DEF ForceInv, EmotionInv
    <3> QED
      BY <1>0, <3>2, <3>3
  <2> QED
    BY <1>0, <1>1, <1>9, <2>1 DEF EmotionInv, OwnVersion, GoesOn
<1>11. RelationshipInv'
  <2> SUFFICES ASSUME Quiet', domain = "relationship", crashes = 0, activateSafe
               PROVE  RelationshipInv'
    BY <1>0, <1>1 DEF RelationshipInv
  <2>1. ASSUME NEW u \in 1..n, NEW v \in 1..n, u < v
        PROVE  Observed(u)' <= Observed(v)'
    <3>1. u \in 1..Len(versions)
      BY <1>0, <2>1
    <3>2. CASE v = n
      <4>1. active = Latest /\ Latest \in 1..Len(versions) /\ u <= Latest
        BY <1>0, <1>7, <3>1, Numbers DEF ForceInv, RelationshipInv, OwnVersion, Latest
      <4>2. Observed(u) <= Observed(active)
        BY <1>7, <3>1, <4>1, <1>9 DEF ForceInv, RelationshipInv
      <4> QED
        BY <1>1, <1>9, <3>1, <3>2, <4>2 DEF OwnVersion
    <3>3. CASE v \in 1..Len(versions)
      BY <1>7, <1>9, <2>1, <3>1, <3>3 DEF ForceInv, RelationshipInv
    <3> QED
      BY <1>0, <3>2, <3>3
  <2> QED
    BY <1>0, <1>1, <1>9, <2>1 DEF RelationshipInv, OwnVersion, GoesOn
<1> QED
    BY <1>2, <1>3, <1>4, <1>5, <1>6, <1>8, <1>10, <1>11 DEF ForceInv

LEMMA CrashForce ==
    ASSUME TypeOK, ForceInv, Crash
    PROVE  ForceInv'
<1>0. /\ versions' = versions /\ active' = active /\ domain' = domain
      /\ everActive' = everActive /\ activateSafe' = activateSafe
      /\ written' = written
      /\ learnt' = learnt /\ candidates' = candidates
      /\ crashes \in Nat /\ crashes' = crashes + 1
      /\ commands' = commands /\ messages' = messages /\ pc' = "idle"
    BY Numbers DEF Crash, StaysActive, GoTo, config, ledger
<1>1. CountsInv'
  <2>1. \A c \in Correction : CountedBy(c)' = CountedBy(c)
    BY <1>0 DEF CountedBy
  <2> QED
    BY <1>0, <2>1, CountsKept DEF ForceInv
<1>2. EvidenceInv'
    BY <1>0 DEF ForceInv, EvidenceInv
<1>3. ActiveInv' /\ DomainInv' /\ ObservedInv' /\ QuietInv'
    BY <1>0 DEF ForceInv, ActiveInv, DomainInv, ObservedInv, QuietInv, Quiet,
                LearnsFromCorrections, Counting
<1>4. /\ \A u : Observed(u)' = Observed(u)
      /\ Latest' = Latest
    BY <1>0 DEF Observed, PayloadOf, Latest
<1>5. EmotionInv' /\ RelationshipInv'
    BY <1>0, <1>4 DEF ForceInv, EmotionInv, RelationshipInv, Quiet
<1> QED
    BY <1>1, <1>2, <1>3, <1>5 DEF ForceInv

LEMMA CandidateForce ==
    ASSUME TypeOK, ForceInv, ProposeCandidate
    PROVE  ForceInv'
<1>0. /\ versions' = versions /\ active' = active /\ domain' = domain
      /\ everActive' = everActive /\ activateSafe' = activateSafe
      /\ written' = written
      /\ learnt' = learnt /\ candidates \subseteq candidates'
      /\ ~ LearnsFromCorrections => candidates' = candidates
      /\ crashes' = crashes /\ commands' = commands /\ messages' = messages
      /\ pc = "candidate" /\ pc' = "idle"
    BY DEF ProposeCandidate, StaysActive, GoTo, config, counts
<1>1. ~ Counting /\ ~ Counting'
    BY <1>0 DEF Counting
<1>2. CountsInv'
  <2>1. \A c \in Correction : CountedBy(c)' = CountedBy(c)
    BY <1>0 DEF CountedBy
  <2>2. \A c \in Correction : Taken(c) => Taken(c)'
    BY <1>0, <1>1 DEF Taken
  <2> QED
    BY <1>0, <2>1, <2>2, CountsKept DEF ForceInv
<1>3. EvidenceInv'
    BY <1>0, <1>1 DEF ForceInv, EvidenceInv, Pending
<1>4. ActiveInv' /\ DomainInv' /\ ObservedInv' /\ QuietInv'
    BY <1>0, <1>1 DEF ForceInv, ActiveInv, DomainInv, ObservedInv, QuietInv, Quiet,
                LearnsFromCorrections
<1>5. /\ \A u : Observed(u)' = Observed(u)
      /\ Latest' = Latest
    BY <1>0 DEF Observed, PayloadOf, Latest
<1>6. EmotionInv' /\ RelationshipInv'
    BY <1>0, <1>5 DEF ForceInv, EmotionInv, RelationshipInv, Quiet
<1> QED
    BY <1>2, <1>3, <1>4, <1>6 DEF ForceInv

LEMMA MarkForce ==
    ASSUME TypeOK, ForceInv, Mark
    PROVE  ForceInv'
<1>1. PICK c \in Pending :
            /\ learnt' = [learnt EXCEPT ![c] = cur]
            /\ pc' = IF Pending = {c} THEN "profile" ELSE "mark"
    BY DEF Mark, GoTo
<1>0. /\ versions' = versions /\ active' = active /\ domain' = domain
      /\ everActive' = everActive /\ activateSafe' = activateSafe
      /\ written' = written
      /\ candidates' = candidates /\ crashes' = crashes /\ commands' = commands
      /\ messages' = messages /\ pc = "mark" /\ cur' = cur /\ cur # 0
      /\ c \in Correction /\ c \in candidates
      /\ \A d \in Correction : learnt'[d] = IF d = c THEN cur ELSE learnt[d]
    BY <1>1, PendingType
    DEF Mark, StaysActive, GoTo, InRefresh, config, counts, TypeOK, Pending
<1>2. Counting /\ (Counting' <=> Pending # {c})
    BY <1>0, <1>1 DEF Counting
<1>3. Pending' = Pending \ {c}
    BY <1>0, PendingType DEF Pending, TypeOK
<1>4. CountsInv'
  <2>1. \A d \in Correction : CountedBy(d)' = CountedBy(d)
    BY <1>0 DEF CountedBy
  <2>2. \A d \in Correction : Taken(d) => Taken(d)'
    BY <1>0, <1>2 DEF Taken, Pending
  <2> QED
    BY <1>0, <2>1, <2>2, CountsKept DEF ForceInv
<1>5. EvidenceInv'
    BY <1>0, <1>2, <1>3 DEF ForceInv, EvidenceInv
<1>6. ActiveInv' /\ ObservedInv' /\ QuietInv'
    BY <1>0, <1>1 DEF ForceInv, ActiveInv, ObservedInv, QuietInv, Quiet,
                LearnsFromCorrections
<1>7. DomainInv'
    BY <1>0, <1>1, <1>2 DEF ForceInv, DomainInv, LearnsFromCorrections
<1>8. /\ \A u : Observed(u)' = Observed(u)
      /\ Latest' = Latest
    BY <1>0 DEF Observed, PayloadOf, Latest
<1>9. domain # "emotion_cycle"
    BY <1>2 DEF ForceInv, DomainInv, LearnsFromCorrections
<1>10. EmotionInv' /\ RelationshipInv'
    BY <1>0, <1>1, <1>8, <1>9 DEF ForceInv, EmotionInv, RelationshipInv, Quiet
<1> QED
    BY <1>4, <1>5, <1>6, <1>7, <1>10 DEF ForceInv

-----------------------------------------------------------------------------
(* Each action is one of these steps.                                      *)

Confirms(C) ==
    C = [u \in 0..Len(versions) |->
            CASE u = 0 -> Empty
              [] u # 0 /\ versions[u].type = "user_confirmed" -> versions[u].payload
              [] OTHER -> C[versions[u].parent]]

\* Where every version is automatic, the user confirmed nothing.
LEMMA NothingConfirmed ==
    ASSUME DistillationTypeOK, NEW v \in 0..Len(versions),
           \A u \in 1..Len(versions) : versions[u].type = "automatic"
    PROVE  Confirmed(v) = Empty
<1> DEFINE C == CHOOSE C : Confirms(C)
           P == {n \in Nat : \A u \in 0..Len(versions) : u <= n => C[u] = Empty}
<1>0. /\ Len(versions) \in Nat
      /\ \A u \in 1..Len(versions) : versions[u].parent \in 0..(u - 1)
      /\ \A u \in 0..Len(versions) : u # 0 => u \in 1..Len(versions)
    BY DEF DistillationTypeOK
<1>1. \E D : Confirms(D)
  <2> DEFINE D == [u \in 0..Len(versions) |-> Empty]
  <2>1. \A u \in 0..Len(versions) :
           u # 0 => /\ versions[u].type # "user_confirmed"
                    /\ D[versions[u].parent] = Empty
    BY <1>0
  <2>2. Confirms(D)
    BY <2>1 DEF Confirms
  <2> QED
    BY <2>2
<1>2. Confirms(C)
    BY <1>1
<1>3. Confirmed(v) = C[v]
    BY DEF Confirmed, Confirms
<1> HIDE DEF C
<1>4. /\ C[0] = Empty
      /\ \A u \in 1..Len(versions) : C[u] = C[versions[u].parent]
  <2>1. \A u \in 0..Len(versions) :
           C[u] = CASE u = 0 -> Empty
                    [] u # 0 /\ versions[u].type = "user_confirmed" -> versions[u].payload
                    [] OTHER -> C[versions[u].parent]
    BY <1>2 DEF Confirms
  <2>2. C[0] = Empty
    BY <2>1, <1>0
  <2>3. ASSUME NEW u \in 1..Len(versions)
        PROVE  C[u] = C[versions[u].parent]
    <3>1. u \in 0..Len(versions) /\ u # 0 /\ versions[u].type # "user_confirmed"
      BY <1>0
    <3> QED
      BY <2>1, <3>1
  <2> QED
    BY <2>2, <2>3
<1>5. 0 \in P
    BY <1>4
<1>6. \A n \in P : n + 1 \in P
  <2>0. \A n \in Nat : n + 1 \in Nat
    OBVIOUS
  <2> SUFFICES ASSUME NEW n \in P, NEW u \in 0..Len(versions), u <= n + 1
               PROVE  C[u] = Empty
    BY <2>0
  <2>1. CASE u = 0
    BY <2>1, <1>4
  <2>2. CASE u # 0
    <3>1. versions[u].parent \in 0..Len(versions) /\ versions[u].parent <= n
      BY <1>0, <2>2
    <3> QED
      BY <1>0, <1>4, <2>2, <3>1
  <2> QED
    BY <2>1, <2>2
<1>7. P = Nat
  <2> P \in SUBSET Nat
    OBVIOUS
  <2> HIDE DEF P
  <2> QED
    BY <1>5, <1>6, NatSets
<1>8. Len(versions) \in P
    BY <1>0, <1>7
<1> QED
    BY <1>0, <1>3, <1>8

LEMMA NotInForceYet ==
    ASSUME NEW step, step \notin {"groups", "profile", "complete"},
           NEW observed, NEW count, NEW deaths
    PROVE  InForce(step, observed, count, deaths)
BY DEF InForce

\* What a version made from the active one may have observed.
LEMMA ActiveWithin ==
    ASSUME TypeOK, ForceInv
    PROVE  /\ PayloadOf(active) \in Payload /\ Observed(active) \in Nat
           /\ Quiet => Observed(active) <= messages
<1>1. CASE active = 0
  <2>1. PayloadOf(active) = Empty
    BY <1>1 DEF PayloadOf
  <2> QED
    BY <2>1, Numbers, EmptyType DEF Empty, Observed
<1>2. CASE active # 0
  <2>1. active \in 1..Len(versions) /\ PayloadOf(active) = versions[active].payload
    BY <1>2, Numbers DEF PayloadOf
  <2> QED
    BY <2>1, Numbers, PayloadTypes
    DEF ForceInv, ObservedInv, Observed, TypeOK
<1> QED
    BY <1>1, <1>2

LEMMA UserForce ==
    ASSUME TypeOK, ForceInv, UserNext
    PROVE  ForceInv'
<1>0. commands \in Nat /\ messages \in Nat /\ commands + 1 # 0
      /\ commands + 1 \in Nat /\ commands + 1 >= commands
    BY Numbers
<1>1. ASSUME NEW c \in Correction, RecordCorrection(c) PROVE ForceInv'
  <2>1. Rests /\ pc' \in {"candidate", "idle"}
    BY <1>0, <1>1 DEF RecordCorrection, Rests, Frame, StaysActive, GoTo, config,
                      counts, Away, Acting
  <2> QED
    BY <2>1, NotInForceYet, RestsForce
<1>2. ASSUME Command
      PROVE  /\ Frame \/ domain' # domain
             /\ UNCHANGED <<learnt, candidates, crashes, messages, activateSafe>>
             /\ pc = "idle" /\ ~ Counting /\ ~ Quiet'
    BY <1>0, <1>2 DEF Command, config, ledger, Frame, Counting, Quiet
<1>3. ASSUME NEW type \in CorrectionTypes, NEW p \in Written,
             NEW requested \in Requested, NEW evidence \in SUBSET candidates,
             NEW now \in BOOLEAN, Put(type, p, requested, evidence, now)
      PROVE  ForceInv'
  <2>1. /\ Command /\ Add(type, p, requested, evidence) /\ everActive' = everActive
        /\ written' = written \cup {Len(versions')}
        /\ pc' \in {"put", "idle"} /\ domain' = domain
    BY <1>3 DEF Put, GoTo, Add
  <2>2. p \in Payload
    BY PutTypes
  <2>3. ~ Counting' /\ ~ Counting
    BY <1>2, <2>1 DEF Counting
  <2>4. Adds(p, requested, evidence)
    BY <1>2, <2>1, <2>3 DEF Adds
  <2>5. GoesOn(p)
    BY <2>1 DEF GoesOn
  <2> QED
    BY <1>2, <2>1, <2>2, <2>4, <2>5, AddsForce
<1>4. ASSUME NEW v \in 1..Len(versions), UserActivates(v) PROVE ForceInv'
  <2>1. Command /\ Activated(v) /\ pc' = pc /\ cur' = cur /\ pc = "idle"
    BY <1>2, <1>4 DEF UserActivates
  <2>2. Moves(v)
    BY <1>2, <2>1 DEF Moves, Activated, SetActive
  <2> QED
    BY <1>2, <2>1, <2>2, NotInForceYet, MovesForce
<1>5. ASSUME NEW v \in 1..Len(versions), UserRollsBack(v) PROVE ForceInv'
  <2>1. /\ Command /\ Rollback(v) /\ pc' = pc /\ cur' = cur /\ everActive' = everActive
        /\ pc = "idle" /\ written' = written
    BY <1>2, <1>5 DEF UserRollsBack
  <2>2. Moves(v)
    BY <1>2, <2>1 DEF Moves, Rollback
  <2> QED
    BY <1>2, <2>1, <2>2, NotInForceYet, MovesForce
<1>6. ASSUME UserPinsEmotion PROVE ForceInv'
  <2>1. Rests /\ pc' = "idle"
    BY <1>0, <1>6 DEF UserPinsEmotion, Rests, Frame, StaysActive, config, ledger
  <2> QED
    BY <2>1, NotInForceYet, RestsForce
<1> QED
    BY <1>1, <1>3, <1>4, <1>5, <1>6 DEF UserNext

LEMMA WorldForce ==
    ASSUME TypeOK, ForceInv,
           ActivatePut \/ MessagesArrive \/ IntervalPasses
             \/ ScheduledRefresh \/ ForcedRefresh
    PROVE  ForceInv'
<1>0. commands \in Nat /\ messages \in Nat /\ messages + 1 \in Nat
      /\ messages + 1 >= messages
    BY Numbers
<1>1. CASE ActivatePut
  <2>1. cur \in 1..Len(versions) /\ Activated(cur) /\ pc = "put" /\ pc' = "idle"
    BY <1>1, Numbers DEF ActivatePut, GoTo, TypeOK
  <2>2. commands' = commands /\ ~ Quiet'
    BY <1>1, <2>1 DEF ActivatePut, counts, Quiet, ForceInv, QuietInv
  <2>3. Moves(cur)
    BY <1>0, <1>1, <2>1 DEF ActivatePut, config, ledger, counts, Moves, Frame, Activated,
                           SetActive, Counting
  <2> QED
    BY <2>1, <2>2, <2>3, NotInForceYet, MovesForce
<1>2. CASE MessagesArrive \/ IntervalPasses
  <2>1. Rests /\ pc' = "idle"
    BY <1>0, <1>2 DEF MessagesArrive, IntervalPasses, Rests, Frame, StaysActive, config,
                      ledger, counts
  <2> QED
    BY <2>1, NotInForceYet, RestsForce
<1>3. CASE ScheduledRefresh \/ ForcedRefresh
  <2>1. Rests /\ pc' = "emotion"
    BY <1>0, <1>3 DEF ScheduledRefresh, ForcedRefresh, StartRefresh, GoTo, StaysActive,
                      InRefresh, config, counts, Rests, Frame, Away, Acting
  <2> QED
    BY <2>1, NotInForceYet, RestsForce
<1> QED
    BY <1>1, <1>2, <1>3
-----------------------------------------------------------------------------
(* The refresh, part by part.                                              *)

\* What the parts of a refresh leave alone.
LEMMA InFrame ==
    ASSUME TypeOK, InRefresh, domain' = domain
    PROVE  /\ Frame /\ commands' = commands /\ (Quiet' <=> Quiet)
           /\ candidates' = candidates /\ crashes' = crashes
BY Numbers DEF InRefresh, config, counts, Frame, Quiet

\* A part with nothing to do goes on to the next one.
LEMMA SkipForce ==
    ASSUME TypeOK, ForceInv, InRefresh, learnt' = learnt, NEW next, Skip(next),
           pc \in {"emotion", "groups", "profile"},
           next \in {"idle", "groups", "profile", "complete"},
           InForce(next, Observed(active), commands, crashes)
    PROVE  ForceInv'
<1>1. domain' = domain /\ StaysActive /\ pc' = next
    BY DEF Skip, StaysActive, GoTo
<1>2. Rests /\ commands' = commands
    BY <1>1, InFrame DEF Rests, Away, Acting
<1> QED
    BY <1>1, <1>2, RestsForce

\* While the user gives no command, the active version keeps what nobody but
\* the user writes, and there is no other confirmation.
LEMMA QuietActive ==
    ASSUME TypeOK, ForceInv, Quiet
    PROVE  /\ PayloadOf(active).boundaries = 0 /\ PayloadOf(active).taboos = 0
           /\ domain = "relationship" => ProtectsOf(active) \subseteq RelationshipProtected
           /\ Confirmed(active) = Empty
<1>1. active \in 0..Len(versions)
    BY Numbers
<1>2. Confirmed(active) = Empty
    BY <1>1, NothingConfirmed DEF ForceInv, QuietInv, TypeOK
<1>3. CASE active = 0
    BY <1>2, <1>3 DEF PayloadOf, ProtectsOf, Empty
<1>4. CASE active # 0
  <2>1. active \in 1..Len(versions)
    BY <1>1, <1>4
  <2> QED
    BY <1>2, <1>4, <2>1 DEF PayloadOf, ProtectsOf, ForceInv, QuietInv
<1> QED
    BY <1>3, <1>4

\* Where versions do not observe less than earlier ones, the latest has
\* observed as much as any.
LEMMA LatestObserved ==
    ASSUME TypeOK, NEW v \in 1..Len(versions),
           \A u, w \in 1..Len(versions) : u < w => Observed(u) <= Observed(w)
    PROVE  /\ Latest \in 1..Len(versions)
           /\ Observed(v) <= Observed(Latest)
<1>1. Latest \in 1..Len(versions) /\ (v = Latest \/ v < Latest)
    BY Numbers DEF Latest
<1>2. Observed(v) \in Nat
    BY Numbers DEF Observed, PayloadOf
<1> QED
    BY <1>1, <1>2

LEMMA VersionObserved ==
    ASSUME TypeOK, ForceInv, NEW v \in 1..Len(versions)
    PROVE  /\ Observed(v) = versions[v].payload.observed /\ Observed(v) \in Nat
           /\ Quiet => Observed(v) <= messages
BY Numbers DEF Observed, PayloadOf, ForceInv, ObservedInv

LEMMA EmotionForce ==
    ASSUME TypeOK, ForceInv, EmotionElsewhere \/ EmotionUnchanged \/ EmotionChanged
    PROVE  ForceInv'
<1>0. InRefresh /\ learnt' = learnt /\ pc = "emotion" /\ messages \in Nat
    BY Numbers DEF EmotionElsewhere, EmotionUnchanged, EmotionChanged
<1>1. CASE EmotionElsewhere
  <2>1. PICK next \in {"groups", "idle"} : Skip(next)
    BY <1>1 DEF EmotionElsewhere
  <2>2. InForce(next, Observed(active), commands, crashes)
    BY <1>1 DEF InForce, EmotionElsewhere
  <2> QED
    BY <1>0, <2>1, <2>2, SkipForce
<1>2. CASE EmotionUnchanged
  <2>1. Quiet => Observed(active) = messages
    <3>1. CASE messages = 0
      <4>1. Observed(active) \in Nat /\ (Quiet => Observed(active) <= messages)
        BY ActiveWithin
      <4> QED
        BY <3>1, <4>1
    <3>2. CASE PayloadOf(active) = EmotionPayload
      BY <3>2 DEF Observed, EmotionPayload, Empty
    <3> QED
      BY <1>2, <3>1, <3>2 DEF EmotionUnchanged
  <2>2. InForce("groups", Observed(active), commands, crashes)
    BY <1>2, <2>1 DEF InForce, Quiet, EmotionUnchanged
  <2> QED
    BY <1>0, <1>2, <2>2, SkipForce DEF EmotionUnchanged
<1>3. ASSUME domain = "emotion_cycle", NEW v \in Newest(SameAs(EmotionPayload)),
             TakeExisting(v, "groups")
      PROVE  ForceInv'
  <2>1. /\ v \in 1..Len(versions) /\ Observed(v) = messages /\ pc' = "groups"
        /\ v # 0
    BY <1>3, VersionObserved
    DEF Newest, SameAs, EmotionPayload, Empty, TakeExisting, GoTo
  <2>2. Quiet => v = Latest
    <3>1. SUFFICES ASSUME Quiet, v # Latest PROVE FALSE
      OBVIOUS
    <3>2. Latest \in 1..Len(versions) /\ v < Latest
      BY <2>1, <3>1, Numbers DEF Latest
    <3>3. Observed(v) < Observed(Latest)
      BY <1>3, <2>1, <3>1, <3>2 DEF ForceInv, EmotionInv
    <3>4. Observed(Latest) <= messages /\ Observed(Latest) \in Nat
      BY <3>1, <3>2, VersionObserved
    <3> QED
      BY <1>0, <2>1, <3>3, <3>4
  <2>3. CASE MayActivate(v)
    <3>1. Activated(v)
      BY <1>3, <2>3 DEF TakeExisting
    <3>2. domain' = domain /\ Moves(v)
      BY <1>0, <2>1, <3>1, InFrame DEF Activated, SetActive, Moves, Counting
    <3>3. InForce(pc', Observed(v), commands', crashes)
      BY <2>1 DEF InForce
    <3>4. Quiet' => v = Latest
      BY <1>0, <2>2, <3>2, InFrame
    <3> QED
      BY <1>3, <2>1, <3>2, <3>3, <3>4, MovesForce
  <2>4. CASE ~ MayActivate(v)
    <3>1. StaysActive /\ domain' = domain
      BY <1>3, <2>4 DEF TakeExisting, StaysActive
    <3>2. Rests
      BY <1>0, <2>1, <3>1, InFrame DEF Rests, Away, Acting
    <3>3. Quiet /\ activateSafe => active = v
      BY <1>3, <2>1, <2>2, <2>4 DEF MayActivate, ForceInv, EmotionInv
    <3>4. InForce(pc', Observed(active), commands', crashes)
      BY <1>0, <1>3, <2>1, <3>1, <3>3, InFrame DEF InForce, Quiet
    <3> QED
      BY <3>2, <3>4, RestsForce
  <2> QED
    BY <2>3, <2>4
<1>4. ASSUME domain = "emotion_cycle", SameAs(EmotionPayload) = {},
             Make(EmotionPayload, {}, {}, "emotion_activate", "groups")
      PROVE  ForceInv'
  <2>1. /\ Add("automatic", EmotionPayload, {}, {}) /\ cur' = Len(versions')
        /\ pc' = IF activateSafe THEN "emotion_activate" ELSE "groups"
        /\ everActive' = everActive /\ written' = written /\ domain' = domain
    BY <1>4 DEF Make, GoTo, Add
  <2>2. /\ EmotionPayload.observed = messages /\ EmotionPayload.learned = Empty.learned
        /\ EmotionPayload.boundaries = 0 /\ EmotionPayload.taboos = 0
        /\ EmotionPayload \in Payload
    BY ObservedTypes DEF EmotionPayload, Empty
  <2>3. ~ Counting /\ ~ Counting' /\ crashes \in Nat
    BY <1>0, <2>1, Numbers DEF Counting
  <2>4. Adds(EmotionPayload, {}, {})
    BY <1>0, <2>1, <2>2, <2>3, InFrame DEF Adds, CorrectionTypes
  <2>5. GoesOn(EmotionPayload)
    BY <1>4, <2>1, <2>2 DEF GoesOn
  <2>6. ASSUME Quiet, NEW v \in 1..Len(versions)
        PROVE  Observed(v) < messages
    <3>1. Observed(v) # messages
      <4>1. /\ versions[v].payload \in Payload
            /\ versions[v].payload.boundaries = 0 /\ versions[v].payload.taboos = 0
            /\ versions[v].payload.learned = Empty.learned
        BY <1>4, <2>6, VersionTypes
        DEF ForceInv, QuietInv, LearnsFromCorrections, TypeOK
      <4>2. versions[v].payload # EmotionPayload
        BY <1>4 DEF SameAs
      <4> QED
        BY <2>2, <4>1, <4>2, VersionObserved DEF Payload
    <3> QED
      BY <1>0, <2>6, <3>1, VersionObserved
  <2>7. Quiet => OwnVersion(EmotionPayload, {})
    BY <1>4, <2>1, <2>2, <2>6 DEF OwnVersion
  <2> QED
    BY <1>0, <2>1, <2>2, <2>4, <2>5, <2>7, InFrame, AddsForce
<1>5. CASE EmotionChanged
  <2>1. CASE Skip("idle")
    <3>1. InForce("idle", Observed(active), commands, crashes)
      BY NotInForceYet
    <3> QED
      BY <1>0, <2>1, <3>1, SkipForce
  <2> QED
    BY <1>3, <1>4, <1>5, <2>1 DEF EmotionChanged
<1> QED
    BY <1>1, <1>2, <1>5
LEMMA GroupsForce ==
    ASSUME TypeOK, ForceInv, Groups
    PROVE  ForceInv'
<1>0. InRefresh /\ learnt' = learnt /\ pc = "groups" /\ ~ Counting
    BY DEF Groups, Counting
<1>1. ASSUME Skip("profile") PROVE ForceInv'
  <2>1. InForce("profile", Observed(active), commands, crashes)
    BY <1>0 DEF InForce, ForceInv, EmotionInv, Quiet
  <2> QED
    BY <1>0, <1>1, <2>1, SkipForce
<1>2. ASSUME Pending # {}
      PROVE  LearnsFromCorrections /\ domain # "emotion_cycle"
    BY <1>2 DEF ForceInv, DomainInv, Pending, LearnsFromCorrections
<1>3. ASSUME Pending # {}, NEW v \in Newest(Covering(Pending)), TakeExisting(v, "mark")
      PROVE  ForceInv'
  <2>1. /\ v \in 1..Len(versions) /\ Pending \subseteq versions[v].evidence
        /\ pc' = "mark" /\ cur' = v
    BY <1>3 DEF Newest, Covering, TakeExisting, GoTo
  <2>2. CASE MayActivate(v)
    <3>1. Activated(v)
      BY <1>3, <2>2 DEF TakeExisting
    <3>2. domain' = domain /\ Moves(v)
      BY <1>0, <1>2, <1>3, <2>1, <3>1, InFrame DEF Activated, SetActive, Moves, Counting
    <3>3. crashes # 0 \/ v \in written
      BY <1>0, <1>3, <2>1 DEF ForceInv, EvidenceInv
    <3>4. Quiet' => crashes # 0
      BY <1>0, <3>2, <3>3, InFrame DEF ForceInv, QuietInv
    <3> QED
      BY <1>2, <1>3, <2>1, <3>2, <3>4, NotInForceYet, MovesForce
  <2>3. CASE ~ MayActivate(v)
    <3>1. StaysActive /\ domain' = domain
      BY <1>3, <2>3 DEF TakeExisting, StaysActive
    <3>2. Rests
      BY <1>0, <1>2, <1>3, <2>1, <2>3, <3>1, InFrame DEF Rests, MayActivate
    <3> QED
      BY <2>1, <3>2, NotInForceYet, RestsForce
  <2> QED
    BY <2>2, <2>3
<1>4. ASSUME Pending # {},
             Make(Aggregate(Pending), {}, Pending, "groups_activate", "mark")
      PROVE  ForceInv'
  <2>1. /\ Add("automatic", Aggregate(Pending), {}, Pending) /\ cur' = Len(versions')
        /\ pc' = IF activateSafe THEN "groups_activate" ELSE "mark"
        /\ everActive' = everActive /\ written' = written /\ domain' = domain
    BY <1>4 DEF Make, GoTo, Add
  <2>2. PayloadOf(active) \in Payload /\ Pending \in SUBSET Correction
    BY ActiveWithin, <1>0, PendingType
  <2>3. /\ Aggregate(Pending).observed = Observed(active)
        /\ Aggregate(Pending).boundaries = PayloadOf(active).boundaries
        /\ Aggregate(Pending).taboos = PayloadOf(active).taboos
        /\ Aggregate(Pending).learned =
             [c \in Correction |-> PayloadOf(active).learned[c]
                                     + (IF c \in Pending THEN 1 ELSE 0)]
    BY <2>2 DEF Aggregate, Observed, Payload
  <2>4. Aggregate(Pending) \in Payload
    BY <2>2, AggregateType DEF TypeOK
  <2>5. Counting'
    BY <2>1 DEF Counting
  <2>7. Adds(Aggregate(Pending), {}, Pending)
    BY <1>0, <1>2, <1>4, <2>1, <2>3, <2>5, InFrame, ActiveWithin
    DEF Adds, CorrectionTypes, Pending
  <2>8. GoesOn(Aggregate(Pending))
    BY <2>1 DEF GoesOn
  <2>9. Quiet => OwnVersion(Aggregate(Pending), {})
    <3>1. SUFFICES ASSUME Quiet PROVE OwnVersion(Aggregate(Pending), {})
      OBVIOUS
    <3>2. domain = "relationship" => Protections(active, {}) \subseteq RelationshipProtected
      BY <3>1, QuietActive DEF Protections, Mandatory, RelationshipProtected
    <3>3. Observed(active) <= Observed(active)
      BY <1>0, ActiveWithin
    <3> QED
      BY <1>0, <1>2, <1>4, <2>1, <2>3, <3>1, <3>2, <3>3, QuietActive DEF OwnVersion
  <2> QED
    BY <1>0, <2>1, <2>4, <2>7, <2>8, <2>9, InFrame, AddsForce
<1> QED
    BY <1>1, <1>3, <1>4 DEF Groups, Enough

LEMMA ProfileForce ==
    ASSUME TypeOK, ForceInv, RefreshProfile
    PROVE  ForceInv'
<1>0. /\ InRefresh /\ learnt' = learnt /\ pc = "profile" /\ ~ Counting
      /\ messages \in Nat
    BY Numbers DEF RefreshProfile, Counting
<1>1. PayloadOf(active) \in Payload /\ Observed(active) \in Nat
      /\ (Quiet => Observed(active) <= messages)
    BY ActiveWithin
<1>2. /\ Profile.observed = messages
      /\ Profile.boundaries = PayloadOf(active).boundaries
      /\ Profile.taboos = PayloadOf(active).taboos
      /\ Profile.learned = PayloadOf(active).learned
      /\ Profile \in Payload
    BY <1>0, <1>1 DEF Profile, Payload
<1>3. ASSUME Skip("complete"),
             domain = "relationship" /\ Quiet /\ crashes = 0 /\ activateSafe
               => Observed(active) = messages
      PROVE  ForceInv'
  <2>1. InForce("complete", Observed(active), commands, crashes)
    BY <1>0, <1>3 DEF InForce, ForceInv, EmotionInv, Quiet
  <2> QED
    BY <1>0, <1>3, <2>1, SkipForce
<1>4. CASE \/ domain # "relationship" \/ messages = 0
           \/ ~ AgreesWithConfirmed
           \/ active # 0 /\ PayloadOf(active) = Profile
  <2>1. Skip("complete")
    BY <1>4 DEF RefreshProfile
  <2>2. Quiet => AgreesWithConfirmed
    BY QuietActive DEF AgreesWithConfirmed, RelationshipProtected, Empty
  <2>3. Quiet /\ messages = 0 => Observed(active) = messages
    BY <1>0, <1>1
  <2>4. PayloadOf(active) = Profile => Observed(active) = messages
    BY <1>2 DEF Observed
  <2> QED
    BY <1>3, <1>4, <2>1, <2>2, <2>3, <2>4
<1>5. ASSUME domain = "relationship", NEW v \in Newest(SameAs(Profile)), TakeProfile(v)
      PROVE  ForceInv'
  <2>1. /\ v \in 1..Len(versions) /\ Observed(v) = messages /\ pc' = "complete"
        /\ cur' = cur
    BY <1>2, <1>5, VersionObserved DEF Newest, SameAs, TakeProfile, GoTo
  <2>2. ASSUME Quiet, crashes = 0, activateSafe
        PROVE  active = Latest /\ active # 0 /\ Observed(active) = messages
    <3>1. /\ active = Latest
          /\ \A u, w \in 1..Len(versions) : u < w => Observed(u) <= Observed(w)
      BY <1>0, <1>5, <2>2 DEF ForceInv, RelationshipInv
    <3>2. Latest \in 1..Len(versions) /\ Observed(v) <= Observed(Latest)
      BY <2>1, <3>1, LatestObserved
    <3> QED
      BY <1>0, <1>1, <2>1, <2>2, <3>1, <3>2
  <2>3. CASE activateSafe /\ active = 0
    <3>1. Activated(v)
      BY <1>5, <2>3 DEF TakeProfile
    <3>2. domain' = domain /\ Moves(v)
      BY <1>0, <2>1, <3>1, InFrame DEF Activated, SetActive, Moves, Counting
    <3>3. InForce(pc', Observed(v), commands', crashes)
      BY <1>0, <1>5, <2>1, <3>2, InFrame DEF InForce
    <3> QED
      BY <1>0, <1>5, <2>1, <2>2, <2>3, <3>2, <3>3, InFrame, MovesForce
  <2>4. CASE ~ (activateSafe /\ active = 0)
    <3>1. StaysActive /\ domain' = domain
      BY <1>5, <2>4 DEF TakeProfile, StaysActive
    <3>2. Rests
      BY <1>0, <2>1, <3>1, InFrame DEF Rests, Away, Acting
    <3>3. InForce(pc', Observed(active), commands', crashes)
      BY <1>0, <1>5, <2>2, <3>1, InFrame DEF InForce, Quiet
    <3> QED
      BY <3>2, <3>3, RestsForce
  <2> QED
    BY <2>3, <2>4
<1>6. ASSUME domain = "relationship",
             Make(Profile, RelationshipProtected, {}, "profile_activate", "complete")
      PROVE  ForceInv'
  <2>1. /\ Add("automatic", Profile, RelationshipProtected, {}) /\ cur' = Len(versions')
        /\ pc' = IF activateSafe THEN "profile_activate" ELSE "complete"
        /\ everActive' = everActive /\ written' = written /\ domain' = domain
    BY <1>6 DEF Make, GoTo, Add
  <2>2. ~ Counting'
    BY <2>1 DEF Counting
  <2>3. Adds(Profile, RelationshipProtected, {})
    BY <1>0, <1>2, <2>1, <2>2, InFrame, ActiveWithin DEF Adds, CorrectionTypes
  <2>4. GoesOn(Profile)
    BY <1>2, <1>6, <2>1 DEF GoesOn
  <2>5. Quiet => OwnVersion(Profile, RelationshipProtected)
    <3>1. SUFFICES ASSUME Quiet PROVE OwnVersion(Profile, RelationshipProtected)
      OBVIOUS
    <3>2. Protections(active, RelationshipProtected) \subseteq RelationshipProtected
      BY <1>6, <3>1, QuietActive DEF Protections, Mandatory, RelationshipProtected
    <3> QED
      BY <1>0, <1>1, <1>2, <1>6, <2>1, <3>1, <3>2, QuietActive
      DEF OwnVersion, LearnsFromCorrections
  <2> QED
    BY <1>0, <1>2, <2>1, <2>3, <2>4, <2>5, InFrame, AddsForce
<1>7. ASSUME domain = "relationship", Skip("complete"),
             ~ Permitted("automatic", Profile, RelationshipProtected)
      PROVE  ForceInv'
  <2>1. PICK f \in Protections(active, RelationshipProtected) :
              PayloadOf(active)[f] # Profile[f]
    BY <1>7 DEF Permitted, Touches
  <2>2. Quiet => f \in {"boundaries", "taboos"}
    BY <1>7, <2>1, QuietActive DEF Protections, Mandatory, RelationshipProtected
  <2>3. ~ Quiet
    BY <1>2, <2>1, <2>2
  <2> QED
    BY <1>3, <1>7, <2>3
<1> QED
    BY <1>4, <1>5, <1>6, <1>7 DEF RefreshProfile

LEMMA MadeForce ==
    ASSUME TypeOK, ForceInv, ActivateMade
    PROVE  ForceInv'
<1>1. /\ InRefresh /\ learnt' = learnt /\ cur' = cur /\ Activated(cur)
      /\ cur \in 1..Len(versions)
      /\ \/ pc = "emotion_activate" /\ pc' = "groups"
         \/ pc = "groups_activate" /\ pc' = "mark"
         \/ pc = "profile_activate" /\ pc' = "complete"
    BY Numbers DEF ActivateMade, GoTo, TypeOK
<1>2. domain' = domain /\ activateSafe' = activateSafe
    BY <1>1 DEF Activated, SetActive, InRefresh, config
<1>3. Moves(cur)
    BY <1>1, <1>2, InFrame
    DEF Activated, SetActive, Moves, Counting, ForceInv, DomainInv
<1>4. InForce(pc', Observed(cur), commands', crashes)
    BY <1>1, <1>2, InFrame, VersionObserved DEF InForce, ForceInv, DomainInv, ObservedInv
<1>5. Quiet' /\ domain = "emotion_cycle" => cur = Latest
    BY <1>1, <1>2, InFrame
    DEF ForceInv, DomainInv, EmotionInv, LearnsFromCorrections, Counting
<1>6. Quiet' /\ domain = "relationship" /\ crashes = 0 /\ activateSafe => cur = Latest
    BY <1>1, <1>2, InFrame DEF ForceInv, DomainInv, RelationshipInv
<1> QED
    BY <1>1, <1>3, <1>4, <1>5, <1>6, MovesForce

LEMMA CompleteForce ==
    ASSUME TypeOK, ForceInv, CompleteRefresh
    PROVE  ForceInv'
<1>1. domain' = domain /\ pc' = "idle" /\ pc = "complete" /\ StaysActive
      /\ InRefresh /\ learnt' = learnt
    BY DEF CompleteRefresh, StaysActive, GoTo
<1>2. Rests
    BY <1>1, InFrame DEF Rests, Away, Acting
<1> QED
    BY <1>1, <1>2, NotInForceYet, RestsForce

LEMMA NextForce == TypeOK /\ ForceInv /\ [Next]_vars => ForceInv'
<1> SUFFICES ASSUME TypeOK, ForceInv, [Next]_vars PROVE ForceInv'
    OBVIOUS
<1>1. CASE RefreshStep
    BY <1>1, EmotionForce, GroupsForce, MarkForce, ProfileForce, MadeForce,
       CompleteForce DEF RefreshStep
<1>2. CASE UNCHANGED vars
  <2>1. /\ UNCHANGED <<domain, versions, active, learnt, candidates, messages,
                       activateSafe, pc, cur, commands, crashes, everActive,
                       written>>
    BY <1>2 DEF vars, config, counts, ledger
  <2>2. /\ \A v : Observed(v)' = Observed(v)
        /\ Latest' = Latest /\ Counting' = Counting
    BY <2>1 DEF Observed, PayloadOf, Latest, Counting
  <2>3. CountsInv' /\ EvidenceInv' /\ ActiveInv' /\ DomainInv' /\ ObservedInv'
    BY <2>1, <2>2 DEF ForceInv, CountsInv, EvidenceInv, ActiveInv, DomainInv,
                      ObservedInv, Pending, LearnsFromCorrections, CountedBy, Quiet
  <2>4. QuietInv' /\ EmotionInv' /\ RelationshipInv'
    BY <2>1, <2>2 DEF ForceInv, QuietInv, EmotionInv, RelationshipInv, Quiet,
                      LearnsFromCorrections
  <2> QED
    BY <2>3, <2>4 DEF ForceInv
<1> QED
    BY <1>1, <1>2, UserForce, WorldForce, CandidateForce, CrashForce DEF Next

\* The invariant behind what is counted and what is in force: in every state
\* of every execution, for every set of corrections and every bound.
THEOREM ForceIsSound == Spec => []ForceInv
<1>1. TypeOK /\ ForceInv /\ [Next]_vars => ForceInv'
    BY NextForce
<1> QED
    BY <1>1, InitForce, TypeCorrect, PTL DEF Spec

\* A correction is set aside only for a version that names it as evidence, and
\* counts it unless the user wrote that version; and no more versions of
\* refreshes count it than one for every death and one besides.
THEOREM LearntIsAlwaysCountedOnce == Spec => []LearntIsCountedOnce
<1>1. TypeOK /\ ForceInv => CountedOncePerDeath
  <2> SUFFICES ASSUME TypeOK, ForceInv, NEW c \in Correction
               PROVE  Cardinality(CountedBy(c)) <= 1 + crashes
    BY DEF CountedOncePerDeath
  <2>1. /\ Cardinality(CountedBy(c))
             <= crashes + (IF learnt[c] # 0 \/ (Counting /\ c \in candidates)
                           THEN 1 ELSE 0)
        /\ Cardinality(CountedBy(c)) \in Nat /\ crashes \in Nat
    BY Numbers, CountedNumber DEF ForceInv, CountsInv
  <2> QED
    BY <2>1
<1>2. LearntIsCounted /\ CountedOncePerDeath => LearntIsCountedOnce
    BY DEF LearntIsCountedOnce
<1> QED
    BY <1>1, <1>2, TypeCorrect, ForceIsSound, LearntIsAlwaysCounted, PTL

\* When a correction is marked, the version it names is active if the switch
\* is on, unless the user's versions went another way.
LEMMA MarkedIsActive ==
    TypeOK /\ ForceInv /\ [Next]_vars =>
        \A c \in Correction :
          (learnt'[c] # learnt[c] /\ activateSafe) =>
              \/ active = learnt'[c]
              \/ active \notin {0, versions[learnt'[c]].parent}
<1> SUFFICES ASSUME TypeOK, ForceInv, [Next]_vars, NEW c \in Correction,
                    learnt'[c] # learnt[c], activateSafe
             PROVE  \/ active = learnt'[c]
                    \/ active \notin {0, versions[learnt'[c]].parent}
    OBVIOUS
<1>1. learnt' = learnt \/ Mark
    BY DEF Next, vars, UserNext, RefreshStep, ledger, RecordCorrection, Put, Command,
           UserActivates, UserRollsBack, UserPinsEmotion, ProposeCandidate, ActivatePut,
           MessagesArrive, IntervalPasses, Crash, ScheduledRefresh, ForcedRefresh,
           StartRefresh, EmotionElsewhere, EmotionUnchanged, EmotionChanged, Groups,
           RefreshProfile, ActivateMade, CompleteRefresh
<1>2. PICK d \in Pending : learnt' = [learnt EXCEPT ![d] = cur] /\ pc = "mark"
    BY <1>1 DEF Mark
<1>3. learnt'[c] = cur
    BY <1>2 DEF TypeOK
<1> QED
    BY <1>2, <1>3 DEF ForceInv, ActiveInv

\* When a refresh is complete the latest observation is active.
LEMMA CompleteIsCurrent ==
    TypeOK /\ ForceInv /\ [Next]_vars =>
        ((/\ pc = "complete" /\ pc' = "idle"
          /\ activateSafe /\ commands = 0
          /\ \/ domain = "emotion_cycle"
             \/ domain = "relationship" /\ crashes = 0)
           => PayloadOf(active).observed = messages)
BY DEF ForceInv, EmotionInv, RelationshipInv, Quiet, Observed

\* What a refresh took note of is in force when it is done.
THEOREM LearntIsAlwaysInForce == Spec => LearntIsInForce
<1>1. TypeOK /\ ForceInv /\ [Next]_vars =>
        [\A c \in Correction :
          (learnt'[c] # learnt[c] /\ activateSafe) =>
              \/ active = learnt'[c]
              \/ active \notin {0, versions[learnt'[c]].parent}]_vars
    BY MarkedIsActive
<1>2. TypeOK /\ ForceInv /\ [Next]_vars =>
        [(/\ pc = "complete" /\ pc' = "idle"
          /\ activateSafe /\ commands = 0
          /\ \/ domain = "emotion_cycle"
             \/ domain = "relationship" /\ crashes = 0)
           => PayloadOf(active).observed = messages]_vars
    BY CompleteIsCurrent
<1>3. Spec => LearntIsActivated
    BY <1>1, TypeCorrect, ForceIsSound, PTL DEF Spec, LearntIsActivated
<1>4. Spec => ObservationIsCurrent
    BY <1>2, TypeCorrect, ForceIsSound, PTL DEF Spec, ObservationIsCurrent
<1>5. Spec => LearntIsActivated /\ ObservationIsCurrent
    BY <1>3, <1>4
<1> QED
    BY <1>5 DEF LearntIsInForce

\* A refresh activates what was active before only in the emotion cycle, or
\* because its evidence holds all that is due.
LEMMA RefreshHolds ==
    TypeOK /\ ForceInv /\ [Next]_vars =>
        ((pc \in RefreshSteps /\ active' # active /\ active' \in everActive) =>
            \/ domain = "emotion_cycle"
            \/ /\ pc = "groups" /\ Pending # {} /\ Cardinality(Pending) >= minimum
               /\ Pending \subseteq versions[active'].evidence
               /\ crashes > 0 \/ active' \in written)
<1> SUFFICES ASSUME TypeOK, ForceInv, [Next]_vars,
                    pc \in RefreshSteps, active' # active, active' \in everActive,
                    domain # "emotion_cycle"
             PROVE  /\ pc = "groups" /\ Pending # {} /\ Cardinality(Pending) >= minimum
                    /\ Pending \subseteq versions[active'].evidence
                    /\ crashes > 0 \/ active' \in written
    OBVIOUS
<1>0. crashes \in Nat /\ (crashes # 0 => crashes > 0)
    BY Numbers
<1>1. RefreshStep
  <2>1. pc \notin {"idle", "candidate", "put"}
    BY DEF RefreshSteps
  <2>2. ~ Crash
    BY DEF Crash, StaysActive
  <2> QED
    BY <2>1, <2>2 DEF Next, vars, UserNext, RecordCorrection, Put, Command, UserActivates,
           UserRollsBack, UserPinsEmotion, ProposeCandidate, ActivatePut,
           MessagesArrive, IntervalPasses, ScheduledRefresh, ForcedRefresh, StartRefresh
<1>2. CASE Groups
  <2>1. Enough /\ pc = "groups"
    <3>1. ~ Skip("profile")
      BY DEF Skip, StaysActive
    <3> QED
      BY <1>2, <3>1 DEF Groups
  <2>2. PICK v \in Newest(Covering(Pending)) : TakeExisting(v, "mark")
    <3>1. ~ Skip("profile")
      BY DEF Skip, StaysActive
    <3>2. ~ Make(Aggregate(Pending), {}, Pending, "groups_activate", "mark")
      BY DEF Make, Add
    <3> QED
      BY <1>2, <3>1, <3>2 DEF Groups
  <2>3. v \in 1..Len(versions) /\ Pending \subseteq versions[v].evidence
    BY DEF Newest, Covering
  <2>4. crashes # 0 \/ v \in written
    BY <2>1, <2>3 DEF ForceInv, EvidenceInv, Counting, Enough
  <2>5. active' = v
    BY <2>2 DEF TakeExisting, StaysActive, Activated, SetActive
  <2> QED
    BY <1>0, <2>1, <2>3, <2>4, <2>5 DEF Enough
<1>3. CASE RefreshProfile
  <2>1. activateSafe /\ active = 0
    <3>1. ~ Skip("complete") /\ ~ StaysActive
      BY DEF Skip, StaysActive
    <3>2. ~ Make(Profile, RelationshipProtected, {}, "profile_activate", "complete")
      BY DEF Make, Add
    <3>3. PICK v \in Newest(SameAs(Profile)) : TakeProfile(v)
      BY <1>3, <3>1, <3>2 DEF RefreshProfile
    <3> QED
      BY <3>1, <3>3 DEF TakeProfile
  <2> QED
    BY <2>1 DEF ForceInv, ActiveInv
<1>4. CASE ActivateMade
  <2>1. active' = cur
        /\ pc \in {"emotion_activate", "groups_activate", "profile_activate"}
    BY <1>4 DEF ActivateMade, Activated, SetActive
  <2> QED
    BY <2>1 DEF ForceInv, ActiveInv
<1>5. CASE EmotionElsewhere \/ EmotionUnchanged \/ EmotionChanged \/ Mark
             \/ CompleteRefresh
    BY <1>5 DEF EmotionElsewhere, EmotionUnchanged, EmotionChanged, Mark,
                CompleteRefresh, Skip, StaysActive
<1> QED
    BY <1>1, <1>2, <1>3, <1>4, <1>5 DEF RefreshStep

\* A refresh does not bring back what the user left by a rollback.
THEOREM RollbackAlwaysHolds == Spec => RollbackHolds
<1>1. TypeOK /\ ForceInv /\ [Next]_vars =>
        [(pc \in RefreshSteps /\ active' # active /\ active' \in everActive) =>
            \/ domain = "emotion_cycle"
            \/ /\ pc = "groups" /\ Pending # {} /\ Cardinality(Pending) >= minimum
               /\ Pending \subseteq versions[active'].evidence
               /\ crashes > 0 \/ active' \in written]_vars
    BY RefreshHolds
<1> QED
    BY <1>1, TypeCorrect, ForceIsSound, PTL DEF Spec, RollbackHolds
=============================================================================
