------------------------- MODULE AgentRuntimeProofs -------------------------
(***************************************************************************)
(* Proofs about AgentRuntime for every set of contacts, messages, texts,   *)
(* configurations and bounds that satisfies RuntimeAssumption.             *)
(***************************************************************************)
EXTENDS AgentRuntime, FiniteSetTheorems, TLAPS

USE DEF external, control, records, sends, locals

LEMMA EventFields ==
    \A e \in Event : e[1] \in Contact /\ e[2] \in 1..MaxMessages
BY DEF Event

LEMMA ConstantTypes ==
    /\ MaxMessages \in Nat /\ MaxTime \in Nat /\ CanaryTTL \in Nat
    /\ Time \subseteq Nat /\ 0 \in Time
    /\ 0 \in 0..MaxMessages
    /\ NoEvent \notin Event
    /\ Delays \subseteq Nat
    /\ \A cfg \in Configs : cfg.mode \in Modes
BY RuntimeAssumption DEF Time

LEMMA InitTypeOK == Init => TypeOK
<1> SUFFICES ASSUME Init PROVE TypeOK
    OBVIOUS
<1> USE ConstantTypes DEF Init
<1>1. /\ now \in Time /\ outbox \subseteq Event /\ config \in Configs
      /\ markers \subseteq {"pause", "kill"} /\ bootstrapped \in BOOLEAN
    OBVIOUS
<1>2. wx \in [Contact -> Seq(Message)]
    OBVIOUS
<1>3. /\ clicks \in [Event -> Nat]
      /\ canary \in [Event -> Nat \cup {Never}]
      /\ reservedAt \in [Event -> Time \cup {Never}]
      /\ result \in [Event -> Time \cup {Never}]
    OBVIOUS
<1>4. /\ process \in [Event -> ProcessKinds \cup {"none"}]
      /\ draft \in [Event -> Draft \cup {NoDraft}]
      /\ marker \in [Event -> {"none", "claimed", "blocked"}]
      /\ attempt \in [Event -> SendStatuses]
    BY DEF SendStatuses
<1>5. /\ seen \in [Contact -> 0..MaxMessages]
      /\ identity \in [Contact -> Version \cup {NoVersion}]
    OBVIOUS
<1>6. /\ pc \in LoopSteps \cup SendSteps \cup DraftSteps
      /\ cur \in Event \cup {NoEvent}
      /\ ret \in {"due", "events"}
      /\ snap \in [Contact -> 0..MaxMessages]
      /\ todo \subseteq Event /\ base \subseteq 1..MaxMessages
      /\ clickStart \in Time /\ pend \in Draft \cup {NoDraft}
    BY DEF LoopSteps
<1> QED
    BY <1>1, <1>2, <1>3, <1>4, <1>5, <1>6 DEF TypeOK

-----------------------------------------------------------------------------
\* Leaving a run, or moving on inside it, keeps the local variables typed.
LEMMA ForgetRunType ==
    ASSUME ForgetRun
    PROVE  /\ pc' \in LoopSteps /\ cur' = NoEvent /\ ret' \in {"due", "events"}
           /\ snap' \in [Contact -> 0..MaxMessages]
           /\ todo' \subseteq Event /\ base' \subseteq 1..MaxMessages
           /\ clickStart' \in Time /\ pend' \in Draft \cup {NoDraft}
BY ConstantTypes DEF ForgetRun, LoopSteps

LEMMA SendStepType ==
    ASSUME TypeOK, NEW e \in Event, SendStep(e)
    PROVE  TypeOK'
<1> USE ConstantTypes, EventFields DEF TypeOK, At, Return, GoTo, SendSteps,
        DraftSteps, LoopSteps, SendStatuses
<1>1. CASE DeclineSend(e)
    BY <1>1 DEF DeclineSend
<1>2. CASE RecheckLatest(e)
  <2>1. seen' \in [Contact -> 0..MaxMessages]
    BY <1>2 DEF RecheckLatest, PollResults
  <2>2. GoTo("claim") \/ Return
    BY <1>2 DEF RecheckLatest
  <2>3. UNCHANGED <<external, control, canary, bootstrapped, process, draft,
                    identity, sends>>
    BY <1>2 DEF RecheckLatest
  <2> QED
    BY <2>1, <2>2, <2>3
<1>3. CASE PreflightRefused(e)
    BY <1>3 DEF PreflightRefused
<1>4. CASE Claim(e)
    BY <1>4 DEF Claim
<1>5. CASE ReserveRefused(e)
    BY <1>5 DEF ReserveRefused
<1>6. CASE Reserve(e)
    BY <1>6 DEF Reserve
<1>7. CASE BeginSending(e)
    BY <1>7 DEF BeginSending
<1>8. CASE ReadbackBaseline(e)
  <2>1. seen' \in [Contact -> 0..MaxMessages] /\ base' \subseteq 1..MaxMessages
    BY <1>8 DEF ReadbackBaseline, PollResults, Outbound
  <2>2. /\ clickStart' = now /\ pc' = "consume"
        /\ UNCHANGED <<external, control, canary, bootstrapped, process, draft,
                       identity, sends, cur, ret, snap, todo, pend>>
    BY <1>8 DEF ReadbackBaseline
  <2> QED
    BY <2>1, <2>2
<1>9. CASE ConsumeCanary(e)
    BY <1>9 DEF ConsumeCanary
<1>10. CASE PressReturn(e)
  <2>1. clicks' \in [Event -> Nat] /\ outbox' \subseteq Event
    BY <1>10 DEF PressReturn
  <2>2. /\ pc' \in SendSteps
        /\ UNCHANGED <<now, wx, control, canary, records, sends, cur, ret,
                       snap, todo, base, clickStart, pend>>
    BY <1>10 DEF PressReturn
  <2> QED
    BY <2>1, <2>2
<1>11. CASE StepFails(e)
    BY <1>11 DEF StepFails
<1>12. CASE RecordFailed(e)
    BY <1>12 DEF RecordFailed
<1>13. CASE RecordSent(e)
    BY <1>13 DEF RecordSent
<1>14. CASE ReadbackConfirm(e)
    BY <1>14 DEF ReadbackConfirm, PollResults
<1>15. CASE RecordConfirmed(e)
    BY <1>15 DEF RecordConfirmed
<1>16. CASE RecordResult(e)
    BY <1>16 DEF RecordResult
<1> HIDE DEF TypeOK, At, Return, GoTo, SendSteps, DraftSteps, LoopSteps,
        SendStatuses
<1> QED
    BY <1>1, <1>2, <1>3, <1>4, <1>5, <1>6, <1>7, <1>8, <1>9, <1>10, <1>11,
       <1>12, <1>13, <1>14, <1>15, <1>16 DEF SendStep

LEMMA LoopStepType ==
    ASSUME TypeOK, StartRun \/ LoopStep \/ Crash
    PROVE  TypeOK'
<1> USE ConstantTypes, EventFields DEF TypeOK, LoopSteps
<1>1. CASE StartRun
    BY <1>1 DEF StartRun, PollResults
<1>2. CASE Crash
    BY <1>2, ForgetRunType DEF Crash
<1>3. CASE BootstrapComplete
    BY <1>3, ForgetRunType DEF BootstrapComplete
<1>4. CASE LearningRefresh
    BY <1>4 DEF LearningRefresh
<1>5. CASE DueDone
    BY <1>5 DEF DueDone
<1>6. CASE EndRun
    BY <1>6, ForgetRunType DEF EndRun
<1>7. ASSUME NEW e \in Event, BootstrapObserve(e)
      PROVE  TypeOK'
    BY <1>7 DEF BootstrapObserve, ProcessKinds
<1>8. ASSUME NEW e \in Event, BlockDraft(e)
      PROVE  TypeOK'
    BY <1>8 DEF BlockDraft
<1>9. ASSUME NEW e \in Event, PickDueDraft(e)
      PROVE  TypeOK'
    BY <1>9 DEF PickDueDraft, SendSteps
<1>10. ASSUME NEW e \in Event, FilterEvent(e)
       PROVE  TypeOK'
    BY <1>10 DEF FilterEvent, SkipReason, ProcessKinds
<1>11. ASSUME NEW e \in Event, RecordDraft(e)
       PROVE  TypeOK'
    BY <1>11 DEF RecordDraft, DraftSteps
<1>12. ASSUME NEW e \in Event, DraftConflict(e)
       PROVE  TypeOK'
    BY <1>12, ForgetRunType DEF DraftConflict
<1>13. ASSUME NEW e \in Event, RecordProcessed(e)
       PROVE  TypeOK'
    BY <1>13 DEF RecordProcessed, ProcessKinds, SendSteps
<1>14. ASSUME NEW e \in Event, NEW kind \in {"model_failed", "no_reply"},
              ModelDeclines(e, kind)
       PROVE  TypeOK'
    BY <1>14 DEF ModelDeclines, ProcessKinds
<1>15. ASSUME NEW e \in Event, NEW status \in DraftStatuses,
              NEW body \in Body \cup {OtherText}, NEW delay \in Delays,
              DecideDraft(e, status, body, delay)
       PROVE  TypeOK'
  <2>0. /\ wx[e[1]] \in Seq(Message)
        /\ e[2] \in 1..Len(wx[e[1]])
    BY <1>15 DEF DecideDraft, NextUp, Unprocessed, IsInbound
  <2>1. Row(e).at \in Nat
    <3>1. Row(e) \in Message
      BY <2>0 DEF Row
    <3>2. \A m \in Message : m.at \in Time
      BY DEF Message
    <3> QED
      BY <3>1, <3>2
  <2>2. pend' \in Draft
    <3>1. config.mode \in Modes /\ Row(e).at + delay \in Nat
      BY <2>1
    <3>2. identity[e[1]] \in Version \cup {NoVersion}
      OBVIOUS
    <3>3. pend' = [status |-> status, mode |-> config.mode, body |-> body,
                   notBefore |-> Row(e).at + delay,
                   version |-> identity[e[1]]]
      BY <1>15 DEF DecideDraft
    <3> HIDE DEF TypeOK
    <3> QED
      BY <3>1, <3>2, <3>3 DEF Draft
  <2>3. pc' \in DraftSteps /\ cur' = e
    BY <1>15 DEF DecideDraft, DraftSteps
  <2> QED
    BY <2>2, <2>3, <1>15 DEF DecideDraft
<1> HIDE DEF TypeOK, LoopSteps
<1> QED
    BY <1>1, <1>2, <1>3, <1>4, <1>5, <1>6, <1>7, <1>8, <1>9, <1>10, <1>11,
       <1>12, <1>13, <1>14, <1>15 DEF LoopStep

LEMMA EnvironmentStepType ==
    ASSUME TypeOK, ProgressInv, UserStep \/ WorldStep
    PROVE  TypeOK'
<1> USE ConstantTypes, EventFields DEF TypeOK
<1>1. ASSUME NEW e \in Event, NEW ttl \in 1..CanaryTTL, ArmCanary(e, ttl)
      PROVE  TypeOK'
  <2>1. now + ttl \in Nat
    BY ConstantTypes
  <2> QED
    BY <1>1, <2>1 DEF ArmCanary, CanArm
<1>2. ASSUME NEW c \in Contact, NEW v \in Activations,
             ActivateIdentity(c, v)
      PROVE  TypeOK'
  <2>1. v \in Version \cup {NoVersion}
    BY RuntimeAssumption
  <2> QED
    BY <1>2, <2>1 DEF ActivateIdentity
<1>3. ASSUME NEW cfg \in Configs, Reconfigure(cfg)
      PROVE  TypeOK'
    BY <1>3 DEF Reconfigure
<1>4. ASSUME NEW cmd \in Commands, ControlCommand(cmd)
      PROVE  TypeOK'
    BY <1>4 DEF ControlCommand
<1>5. ASSUME NEW c \in Contact, NEW row \in Message, Append1(c, row)
      PROVE  wx' \in [Contact -> Seq(Message)]
    BY <1>5 DEF Append1
<1>6. ASSUME NEW c \in Contact, NEW kind \in Kinds, Receive(c, kind)
      PROVE  TypeOK'
  <2>1. [dir |-> "inbound", kind |-> kind, at |-> now] \in Message
    BY DEF Message
  <2> QED
    BY <1>5, <1>6, <2>1 DEF Receive
<1>7. ASSUME NEW c \in Contact, NEW body \in Body \cup {OtherText},
             ManualSend(c, body)
      PROVE  TypeOK'
  <2>1. [dir |-> "outbound", body |-> body, at |-> now] \in Message
    BY DEF Message
  <2> QED
    BY <1>5, <1>7, <2>1 DEF ManualSend
<1>8. ASSUME NEW e \in Event, Deliver(e)
      PROVE  TypeOK'
  <2>0. draft[e].status = "autopilot_candidate"
    BY <1>8 DEF Deliver, ProgressInv, DurableInv
  <2>1. draft[e] \in Draft
    BY <2>0 DEF NoDraft
  <2>2. [dir |-> "outbound", body |-> draft[e].body, at |-> now] \in Message
    BY <2>1 DEF Message, Draft
  <2> QED
    BY <1>5, <1>8, <2>2 DEF Deliver
<1>9. CASE Tick
    BY <1>9, RuntimeAssumption DEF Tick, Time
<1>10. ASSUME NEW e \in Event, ArmCanaryUndone(e)
       PROVE  TypeOK'
    BY <1>10 DEF ArmCanaryUndone, CanArm
<1> HIDE DEF TypeOK
<1> QED
    BY <1>10, <1>1, <1>2, <1>3, <1>4, <1>6, <1>7, <1>8, <1>9
       DEF UserStep, WorldStep
LEMMA NextType ==
    ASSUME TypeOK, ProgressInv, [Next]_vars
    PROVE  TypeOK'
<1>1. CASE UNCHANGED vars
    BY <1>1 DEF vars, TypeOK
<1> QED
    BY <1>1, SendStepType, LoopStepType, EnvironmentStepType DEF Next, RunStep

-----------------------------------------------------------------------------
LEMMA InitProgressInv == Init => ProgressInv
<1> SUFFICES ASSUME Init PROVE ProgressInv
    OBVIOUS
<1>1. DurableInv
    BY DEF Init, DurableInv, NoDraft
<1>2. LoopInv /\ SendInv
    BY DEF Init, LoopInv, SendInv, SendSteps, DraftSteps
<1> QED
    BY <1>1, <1>2 DEF ProgressInv

-----------------------------------------------------------------------------
LEMMA SendStepKeeps ==
    ASSUME TypeOK, ProgressInv, NEW e \in Event, SendStep(e)
    PROVE  ProgressInv'
<1> USE DEF TypeOK, ProgressInv, DurableInv, LoopInv, SendInv, StatusAt, At,
        Return, GoTo, SendSteps, DraftSteps, LoopSteps
<1>1. CASE DeclineSend(e)
    BY <1>1 DEF DeclineSend
<1>2. CASE RecheckLatest(e)
  <2>1. /\ pc = "cand" /\ cur = e /\ marker[e] = "none"
        /\ UNCHANGED <<external, control, canary, bootstrapped, process, draft,
                       identity, sends>>
        /\ GoTo("claim") \/ Return
    BY <1>2 DEF RecheckLatest, MaySend
  <2> QED
    BY <2>1
<1>3. CASE PreflightRefused(e)
    BY <1>3 DEF PreflightRefused
<1>4. CASE Claim(e)
    BY <1>4 DEF Claim
<1>5. CASE ReserveRefused(e)
    BY <1>5 DEF ReserveRefused
<1>6. CASE Reserve(e)
    BY <1>6 DEF Reserve
<1>7. CASE BeginSending(e)
    BY <1>7 DEF BeginSending
<1>8. CASE ReadbackBaseline(e)
    BY <1>8 DEF ReadbackBaseline
<1>9. CASE ConsumeCanary(e)
    BY <1>9 DEF ConsumeCanary
<1>10. CASE PressReturn(e)
    BY <1>10 DEF PressReturn
<1>11. CASE StepFails(e)
    BY <1>11 DEF StepFails
<1>12. CASE RecordFailed(e)
    BY <1>12 DEF RecordFailed
<1>13. CASE RecordSent(e)
    BY <1>13 DEF RecordSent
<1>14. CASE ReadbackConfirm(e)
    BY <1>14 DEF ReadbackConfirm
<1>15. CASE RecordConfirmed(e)
    BY <1>15 DEF RecordConfirmed
<1>16. CASE RecordResult(e)
    BY <1>16 DEF RecordResult
<1> HIDE DEF TypeOK, ProgressInv, DurableInv, LoopInv, SendInv, StatusAt, At,
        Return, GoTo, SendSteps, DraftSteps, LoopSteps
<1> QED
    BY <1>1, <1>2, <1>3, <1>4, <1>5, <1>6, <1>7, <1>8, <1>9, <1>10, <1>11,
       <1>12, <1>13, <1>14, <1>15, <1>16
       DEF SendStep

LEMMA LoopStepKeeps ==
    ASSUME TypeOK, ProgressInv, StartRun \/ LoopStep \/ Crash
    PROVE  ProgressInv'
<1> USE DEF TypeOK, ProgressInv, DurableInv, LoopInv, SendInv, StatusAt,
        SendSteps, DraftSteps, LoopSteps
<1>1. CASE StartRun
    BY <1>1 DEF StartRun, ForgetRun
<1>2. CASE Crash
    BY <1>2 DEF Crash, ForgetRun
<1>3. CASE BootstrapComplete
    BY <1>3 DEF BootstrapComplete, ForgetRun
<1>4. CASE LearningRefresh
    BY <1>4 DEF LearningRefresh, ForgetRun
<1>5. CASE DueDone
    BY <1>5 DEF DueDone, ForgetRun
<1>6. CASE EndRun
    BY <1>6 DEF EndRun, ForgetRun
<1>7. ASSUME NEW e \in Event, BootstrapObserve(e)
      PROVE  ProgressInv'
    BY <1>7 DEF BootstrapObserve
<1>8. ASSUME NEW e \in Event, BlockDraft(e)
      PROVE  ProgressInv'
    BY <1>8 DEF BlockDraft
<1>9. ASSUME NEW e \in Event, PickDueDraft(e)
      PROVE  ProgressInv'
    BY <1>9 DEF PickDueDraft
<1>10. ASSUME NEW e \in Event, FilterEvent(e)
       PROVE  ProgressInv'
    BY <1>10 DEF FilterEvent, SkipReason
<1>11. ASSUME NEW e \in Event, RecordDraft(e)
       PROVE  ProgressInv'
  <2>1. CASE draft[e] = pend
    <3>1. draft' = draft
      BY <1>11, <2>1 DEF RecordDraft
    <3> QED
      BY <1>11, <2>1, <3>1 DEF RecordDraft
  <2>2. CASE draft[e] = NoDraft
    <3>1. marker[e] = "none" /\ clicks[e] = 0
      BY <2>2 DEF NoDraft
    <3>2. draft'[e] = pend /\ \A f \in Event \ {e} : draft'[f] = draft[f]
      BY <1>11 DEF RecordDraft
    <3>3. /\ pc = "draft" /\ cur = e /\ todo = {} /\ bootstrapped
          /\ process[e] = "none"
      BY <1>11 DEF RecordDraft
    <3>4. DurableInv'
      BY <1>11, <3>1, <3>2, <3>3 DEF RecordDraft
    <3> QED
      BY <1>11, <3>2, <3>3, <3>4 DEF RecordDraft
  <2> QED
    BY <1>11, <2>1, <2>2 DEF RecordDraft
<1>12. ASSUME NEW e \in Event, DraftConflict(e)
       PROVE  ProgressInv'
    BY <1>12 DEF DraftConflict, ForgetRun
<1>13. ASSUME NEW e \in Event, RecordProcessed(e)
       PROVE  ProgressInv'
    BY <1>13 DEF RecordProcessed
<1>14. ASSUME NEW e \in Event, NEW kind \in {"model_failed", "no_reply"},
              ModelDeclines(e, kind)
       PROVE  ProgressInv'
    BY <1>14 DEF ModelDeclines
<1>15. ASSUME NEW e \in Event, NEW status \in DraftStatuses,
              NEW body \in Body \cup {OtherText}, NEW delay \in Delays,
              DecideDraft(e, status, body, delay)
       PROVE  ProgressInv'
  <2>1. /\ pc = "events" /\ process[e] = "none"
        /\ pc' = "draft" /\ cur' = e /\ pend'.status = status
        /\ UNCHANGED <<external, control, canary, records, sends, ret, snap,
                       todo, base, clickStart>>
    BY <1>15 DEF DecideDraft, NextUp, Unprocessed
  <2>2. pend' # NoDraft
    BY <2>1 DEF NoDraft, DraftStatuses
  <2> QED
    BY <2>1, <2>2
<1> HIDE DEF TypeOK, ProgressInv, DurableInv, LoopInv, SendInv, StatusAt,
        SendSteps, DraftSteps, LoopSteps
<1> QED
    BY <1>1, <1>2, <1>3, <1>4, <1>5, <1>6, <1>7, <1>8, <1>9, <1>10, <1>11,
       <1>12, <1>13, <1>14, <1>15 DEF LoopStep

LEMMA EnvironmentStepKeeps ==
    ASSUME TypeOK, ProgressInv, UserStep \/ WorldStep
    PROVE  ProgressInv'
<1> USE DEF TypeOK, ProgressInv, DurableInv, LoopInv, SendInv, StatusAt,
        SendSteps, DraftSteps, LoopSteps
<1>1. ASSUME NEW e \in Event, NEW ttl \in 1..CanaryTTL, ArmCanary(e, ttl)
      PROVE  ProgressInv'
    BY <1>1 DEF ArmCanary, CanArm
<1>2. ASSUME NEW c \in Contact, NEW v \in Activations,
             ActivateIdentity(c, v)
      PROVE  ProgressInv'
    BY <1>2 DEF ActivateIdentity
<1>3. ASSUME NEW cfg \in Configs, Reconfigure(cfg)
      PROVE  ProgressInv'
    BY <1>3 DEF Reconfigure
<1>4. ASSUME NEW cmd \in Commands, ControlCommand(cmd)
      PROVE  ProgressInv'
    BY <1>4 DEF ControlCommand
<1>5. ASSUME NEW c \in Contact, NEW kind \in Kinds, Receive(c, kind)
      PROVE  ProgressInv'
    BY <1>5 DEF Receive
<1>6. ASSUME NEW c \in Contact, NEW body \in Body \cup {OtherText},
             ManualSend(c, body)
      PROVE  ProgressInv'
    BY <1>6 DEF ManualSend
<1>7. ASSUME NEW e \in Event, Deliver(e)
      PROVE  ProgressInv'
    BY <1>7 DEF Deliver
<1>8. CASE Tick
    BY <1>8 DEF Tick
<1>10. ASSUME NEW e \in Event, ArmCanaryUndone(e)
       PROVE  ProgressInv'
    BY <1>10 DEF ArmCanaryUndone, CanArm
<1> HIDE DEF TypeOK, ProgressInv, DurableInv, LoopInv, SendInv, StatusAt,
        SendSteps, DraftSteps, LoopSteps
<1> QED
    BY <1>10, <1>1, <1>2, <1>3, <1>4, <1>5, <1>6, <1>7, <1>8
       DEF UserStep, WorldStep

LEMMA NextProgressInv ==
    ASSUME TypeOK, ProgressInv, [Next]_vars
    PROVE  ProgressInv'
<1>1. CASE UNCHANGED vars
    BY <1>1 DEF vars, ProgressInv, DurableInv, LoopInv, SendInv, StatusAt
<1> QED
    BY <1>1, SendStepKeeps, LoopStepKeeps, EnvironmentStepKeeps
       DEF Next, RunStep

-----------------------------------------------------------------------------
\* A draft in hand is a draft, so its delay is a time.
LEMMA DraftInHand ==
    ASSUME TypeOK, ProgressInv
    PROVE  /\ \A e \in todo : draft[e] \in Draft /\ draft[e].notBefore \in Nat
           /\ pc \in SendSteps => /\ cur \in Event /\ draft[cur] \in Draft
                                  /\ draft[cur].notBefore \in Nat
<1>1. \A e \in Event : draft[e].status = "autopilot_candidate" =>
          draft[e] \in Draft /\ draft[e].notBefore \in Nat
    BY DEF TypeOK, NoDraft, Draft
<1> QED
    BY <1>1 DEF TypeOK, ProgressInv, DurableInv, LoopInv

LEMMA SendStepAuthority ==
    ASSUME TypeOK, ProgressInv, AuthorityInv, NEW e \in Event, SendStep(e)
    PROVE  AuthorityInv'
<1> USE EventFields DEF AuthorityInv, At, Return, GoTo, SendSteps, SendEnabled,
        IsLatest
<1>0. ret \in {"due", "events"}
    BY DEF TypeOK
<1> USE <1>0
<1>1. CASE DeclineSend(e)
    BY <1>1 DEF DeclineSend
<1>2. CASE RecheckLatest(e)
    BY <1>2 DEF RecheckLatest, MaySend
<1>3. CASE PreflightRefused(e)
    BY <1>3 DEF PreflightRefused
<1>4. CASE Claim(e)
    BY <1>4 DEF Claim
<1>5. CASE ReserveRefused(e)
    BY <1>5 DEF ReserveRefused
<1>6. CASE Reserve(e)
    BY <1>6 DEF Reserve
<1>7. CASE BeginSending(e)
    BY <1>7 DEF BeginSending
<1>8. CASE ReadbackBaseline(e)
    BY <1>8 DEF ReadbackBaseline
<1>9. CASE ConsumeCanary(e)
    BY <1>9 DEF ConsumeCanary
<1>10. CASE PressReturn(e)
    BY <1>10 DEF PressReturn
<1>11. CASE StepFails(e)
    BY <1>11 DEF StepFails
<1>12. CASE RecordFailed(e)
    BY <1>12 DEF RecordFailed
<1>13. CASE RecordSent(e)
    BY <1>13 DEF RecordSent
<1>14. CASE ReadbackConfirm(e)
    BY <1>14 DEF ReadbackConfirm
<1>15. CASE RecordConfirmed(e)
    BY <1>15 DEF RecordConfirmed
<1>16. CASE RecordResult(e)
    BY <1>16 DEF RecordResult
<1> HIDE DEF AuthorityInv, At, Return, GoTo, SendSteps, SendEnabled, IsLatest
<1> QED
    BY <1>1, <1>2, <1>3, <1>4, <1>5, <1>6, <1>7, <1>8, <1>9, <1>10, <1>11,
       <1>12, <1>13, <1>14, <1>15, <1>16
       DEF SendStep

LEMMA LoopStepAuthority ==
    ASSUME TypeOK, ProgressInv, AuthorityInv, StartRun \/ LoopStep \/ Crash
    PROVE  AuthorityInv'
<1> USE DEF AuthorityInv, ForgetRun, SendSteps, DraftSteps, LoopSteps
<1>1. CASE StartRun
    BY <1>1 DEF StartRun
<1>2. CASE Crash
    BY <1>2 DEF Crash
<1>3. CASE BootstrapComplete
    BY <1>3 DEF BootstrapComplete
<1>4. CASE LearningRefresh
    BY <1>4 DEF LearningRefresh
<1>5. CASE DueDone
    BY <1>5 DEF DueDone
<1>6. CASE EndRun
    BY <1>6 DEF EndRun
<1>7. ASSUME NEW e \in Event, BootstrapObserve(e)
      PROVE  AuthorityInv'
    BY <1>7 DEF BootstrapObserve
<1>8. ASSUME NEW e \in Event, BlockDraft(e)
      PROVE  AuthorityInv'
    BY <1>8 DEF BlockDraft
<1>9. ASSUME NEW e \in Event, PickDueDraft(e)
      PROVE  AuthorityInv'
    BY <1>9 DEF PickDueDraft
<1>10. ASSUME NEW e \in Event, FilterEvent(e)
       PROVE  AuthorityInv'
    BY <1>10 DEF FilterEvent
<1>11. ASSUME NEW e \in Event, RecordDraft(e)
       PROVE  AuthorityInv'
    BY <1>11 DEF RecordDraft, ProgressInv, LoopInv
<1>12. ASSUME NEW e \in Event, DraftConflict(e)
       PROVE  AuthorityInv'
    BY <1>12 DEF DraftConflict
<1>13. ASSUME NEW e \in Event, RecordProcessed(e)
       PROVE  AuthorityInv'
  <2>1. /\ pc = "processed" /\ cur = e /\ todo = {} /\ draft[e] = pend
        /\ pend \in Draft
    BY <1>13 DEF RecordProcessed, ProgressInv, LoopInv, TypeOK
  <2>2. pend.notBefore \in Nat /\ now \in Nat
    BY <2>1, ConstantTypes DEF Draft, TypeOK
  <2>3. /\ pc' = "cand" => cur' = e /\ pend.notBefore <= now
        /\ pc' \in {"cand", "events"}
        /\ UNCHANGED <<now, draft, todo>>
    BY <2>2, <1>13 DEF RecordProcessed
  <2> QED
    BY <2>1, <2>3
<1>14. ASSUME NEW e \in Event, NEW kind \in {"model_failed", "no_reply"},
              ModelDeclines(e, kind)
       PROVE  AuthorityInv'
    BY <1>14 DEF ModelDeclines
<1>15. ASSUME NEW e \in Event, NEW status \in DraftStatuses,
              NEW body \in Body \cup {OtherText}, NEW delay \in Delays,
              DecideDraft(e, status, body, delay)
       PROVE  AuthorityInv'
    BY <1>15 DEF DecideDraft
<1> HIDE DEF AuthorityInv, ForgetRun, SendSteps, DraftSteps, LoopSteps
<1> QED
    BY <1>1, <1>2, <1>3, <1>4, <1>5, <1>6, <1>7, <1>8, <1>9, <1>10, <1>11,
       <1>12, <1>13, <1>14, <1>15 DEF LoopStep

LEMMA EnvironmentStepAuthority ==
    ASSUME TypeOK, ProgressInv, AuthorityInv, UserStep \/ WorldStep
    PROVE  AuthorityInv'
<1> USE DEF AuthorityInv, SendEnabled, IsLatest
<1>0. "idle" \notin SendSteps
    BY DEF SendSteps
<1> USE <1>0
<1>1. ASSUME NEW e \in Event, NEW ttl \in 1..CanaryTTL, ArmCanary(e, ttl)
      PROVE  AuthorityInv'
    BY <1>1 DEF ArmCanary, CanArm
<1>2. ASSUME NEW c \in Contact, NEW v \in Activations,
             ActivateIdentity(c, v)
      PROVE  AuthorityInv'
    BY <1>2 DEF ActivateIdentity
<1>3. ASSUME NEW cfg \in Configs, Reconfigure(cfg)
      PROVE  AuthorityInv'
    BY <1>3 DEF Reconfigure
<1>4. ASSUME NEW cmd \in Commands, ControlCommand(cmd)
      PROVE  AuthorityInv'
    BY <1>4 DEF ControlCommand
<1>5. ASSUME NEW c \in Contact, NEW kind \in Kinds, Receive(c, kind)
      PROVE  AuthorityInv'
    BY <1>5 DEF Receive
<1>6. ASSUME NEW c \in Contact, NEW body \in Body \cup {OtherText},
             ManualSend(c, body)
      PROVE  AuthorityInv'
    BY <1>6 DEF ManualSend
<1>7. ASSUME NEW e \in Event, Deliver(e)
      PROVE  AuthorityInv'
    BY <1>7 DEF Deliver
<1>8. CASE Tick
  <2>1. now \in Nat /\ now' \in Nat /\ now <= now'
    BY <1>8, ConstantTypes DEF Tick, TypeOK
  <2> QED
    BY <1>8, <2>1, DraftInHand, ConstantTypes DEF Tick
<1>10. ASSUME NEW e \in Event, ArmCanaryUndone(e)
       PROVE  AuthorityInv'
    BY <1>10 DEF ArmCanaryUndone, CanArm
<1> HIDE DEF AuthorityInv, SendEnabled, IsLatest
<1> QED
    BY <1>10, <1>1, <1>2, <1>3, <1>4, <1>5, <1>6, <1>7, <1>8
       DEF UserStep, WorldStep

LEMMA NextAuthorityInv ==
    ASSUME TypeOK, ProgressInv, AuthorityInv, [Next]_vars
    PROVE  AuthorityInv'
<1>1. CASE UNCHANGED vars
    BY <1>1 DEF vars, AuthorityInv, SendEnabled, IsLatest
<1> QED
    BY <1>1, SendStepAuthority, LoopStepAuthority, EnvironmentStepAuthority
       DEF Next, RunStep

-----------------------------------------------------------------------------
\* Types, the progress of the run and the authority it carries are inductive
\* together, from the empty ledger on, over every crash and restart.
THEOREM PipelineSafe == Spec => [](TypeOK /\ PipelineInv)
<1>1. Init => TypeOK /\ PipelineInv
    BY InitTypeOK, InitProgressInv DEF PipelineInv, AuthorityInv, Init,
       SendSteps
<1>2. TypeOK /\ PipelineInv /\ [Next]_vars => (TypeOK /\ PipelineInv)'
    BY NextType, NextProgressInv, NextAuthorityInv DEF PipelineInv
<1> QED
    BY <1>1, <1>2, PTL DEF Spec

\* Every variable keeps its type: in particular the ledger never holds a
\* status, a record kind or a draft outside the ones the code writes.
THEOREM TypeCorrect == Spec => []TypeOK
BY PipelineSafe, PTL

\* Return is pressed at most once for the draft of one message
\* (_send_candidate), for any number of messages, crashes and restarts.
THEOREM SingleClick == Spec => []AtMostOneClick
<1>1. PipelineInv => AtMostOneClick
    BY DEF PipelineInv, ProgressInv, DurableInv, AtMostOneClick
<1> QED
    BY <1>1, PipelineSafe, PTL

\* A pressed reply has used up its claim and its canary, so no later run can
\* press it again on the authority of the first.
THEOREM ClickUsesUpAuthority == Spec => []ClickSpendsAuthority
<1>1. PipelineInv => ClickSpendsAuthority
    BY DEF PipelineInv, ProgressInv, DurableInv, ClickSpendsAuthority
<1> QED
    BY <1>1, PipelineSafe, PTL

\* A "sent" or "readback_confirmed" attempt was clicked, and a send-result
\* record belongs to a confirmed attempt.
THEOREM NoFalseSent == Spec => []ConfirmedWasClicked
<1>1. PipelineInv => ConfirmedWasClicked
    BY DEF PipelineInv, ProgressInv, DurableInv, ConfirmedWasClicked
<1> QED
    BY <1>1, PipelineSafe, PTL

\* Whatever crashes, what became of each press is what the ledger and the
\* Keychain tell (_send_candidate).
THEOREM EveryClickIsAccounted == Spec => []ClicksAreAccounted
BY SingleClick, ClickUsesUpAuthority, NoFalseSent, PTL DEF ClicksAreAccounted

\* What the first run found is never drafted or answered.
THEOREM HistoryIsSafe == Spec => []HistoryNeverAnswered
<1>1. PipelineInv => HistoryNeverAnswered
    BY DEF PipelineInv, ProgressInv, DurableInv, HistoryNeverAnswered, NoDraft
<1> QED
    BY <1>1, PipelineSafe, PTL

-----------------------------------------------------------------------------
\* Which steps write each durable table; every other step leaves it alone.
WritesProcess(e) ==
    \/ BootstrapObserve(e) \/ FilterEvent(e) \/ RecordProcessed(e)
    \/ \E kind \in {"model_failed", "no_reply"} : ModelDeclines(e, kind)
WritesMarker(e) == BlockDraft(e) \/ Claim(e)
WritesCanary(e) ==
    \/ ConsumeCanary(e) \/ ArmCanaryUndone(e)
    \/ \E ttl \in 1..CanaryTTL : ArmCanary(e, ttl)
WritesAttempt(e) ==
    \/ Reserve(e) \/ BeginSending(e) \/ RecordFailed(e) \/ RecordSent(e)
    \/ RecordConfirmed(e)

Writers ==
    /\ process' # process => \E e \in Event : WritesProcess(e)
    /\ draft' # draft => \E e \in Event : RecordDraft(e)
    /\ marker' # marker => \E e \in Event : WritesMarker(e)
    /\ canary' # canary => \E e \in Event : WritesCanary(e)
    /\ attempt' # attempt => \E e \in Event : WritesAttempt(e)
    /\ reservedAt' # reservedAt => \E e \in Event : Reserve(e)
    /\ clicks' # clicks => \E e \in Event : PressReturn(e)

LEMMA OneWriter ==
    ASSUME [Next]_vars
    PROVE  Writers
<1> USE DEF Writers, WritesProcess, WritesMarker, WritesCanary, WritesAttempt
<1>1. ASSUME NEW e \in Event, SendStep(e)
      PROVE  Writers
    BY <1>1 DEF SendStep, DeclineSend, RecheckLatest, PreflightRefused,
        ReserveRefused, ReadbackBaseline, StepFails, ReadbackConfirm,
        RecordResult, Claim, Reserve, BeginSending, ConsumeCanary, PressReturn,
        RecordFailed, RecordSent, RecordConfirmed
<1>2. CASE StartRun \/ Crash
    BY <1>2 DEF StartRun, Crash
<1>3. CASE LoopStep
    BY <1>3 DEF LoopStep, BootstrapComplete, LearningRefresh, DueDone, EndRun,
        PickDueDraft, DraftConflict, DecideDraft, BootstrapObserve, BlockDraft,
        FilterEvent, RecordDraft, RecordProcessed, ModelDeclines
<1>4. CASE UserStep
    BY <1>4 DEF UserStep, ArmCanary, ArmCanaryUndone, ActivateIdentity,
        Reconfigure, ControlCommand
<1>5. CASE WorldStep
    BY <1>5 DEF WorldStep, Receive, ManualSend, Deliver, Tick
<1>6. CASE UNCHANGED vars
    BY <1>6 DEF vars
<1> QED
    BY <1>1, <1>2, <1>3, <1>4, <1>5, <1>6 DEF Next, RunStep

LEMMA StepKeepsRecords == TypeOK /\ PipelineInv /\ [Next]_vars => KeepsRecords
<1> SUFFICES ASSUME TypeOK, PipelineInv, [Next]_vars
             PROVE  KeepsRecords
  OBVIOUS
<1> USE DEF TypeOK, PipelineInv, ProgressInv, DurableInv, LoopInv, SendInv,
        DraftSteps
<1>1. ASSUME NEW e \in Event, process[e] # "none"
      PROVE  process'[e] = process[e]
  <2>1. ASSUME NEW f \in Event, WritesProcess(f)
        PROVE  /\ process[f] = "none"
               /\ \A g \in Event \ {f} : process'[g] = process[g]
    <3>1. process[f] = "none"
      BY <2>1 DEF WritesProcess, BootstrapObserve, FilterEvent,
          RecordProcessed, ModelDeclines, NextUp, Unprocessed
    <3>2. \A g \in Event \ {f} : process'[g] = process[g]
      BY <2>1 DEF WritesProcess, BootstrapObserve, FilterEvent,
          RecordProcessed, ModelDeclines
    <3> QED
      BY <3>1, <3>2
  <2> QED
    BY <1>1, <2>1, OneWriter DEF Writers
<1>2. ASSUME NEW e \in Event, draft[e] # NoDraft
      PROVE  draft'[e] = draft[e]
  BY <1>2, OneWriter DEF Writers, RecordDraft
<1>3. ASSUME NEW e \in Event, marker[e] # "none"
      PROVE  marker'[e] = marker[e]
  BY <1>3, OneWriter DEF Writers, WritesMarker, BlockDraft, Claim, At,
      SendSteps
<1> QED
  BY <1>1, <1>2, <1>3 DEF KeepsRecords

\* Processing records, drafts and claim or block markers are never rewritten.
THEOREM RecordsStay == Spec => RecordsAreFinal
BY StepKeepsRecords, PipelineSafe, PTL DEF Spec, RecordsAreFinal

\* No step asks the ledger for a transition its table refuses, so an attempt
\* never leaves a final status and never skips "sending".
THEOREM AttemptOrder == Spec => AttemptMovesForward
<1>1. TypeOK /\ PipelineInv /\ [Next]_vars => MovesAttempt
  <2> SUFFICES ASSUME TypeOK, PipelineInv, [Next]_vars
               PROVE  MovesAttempt
    OBVIOUS
  <2>1. ASSUME NEW e \in Event, WritesAttempt(e)
        PROVE  /\ <<attempt[e], attempt'[e]>> \in SendTransitions
               /\ \A f \in Event \ {e} : attempt'[f] = attempt[f]
    BY <2>1 DEF WritesAttempt, Reserve, BeginSending, RecordFailed,
        RecordSent, RecordConfirmed, At, SendTransitions, TypeOK, PipelineInv,
        ProgressInv, SendInv, StatusAt, SendSteps
  <2> QED
    BY <2>1, OneWriter DEF Writers, MovesAttempt
<1> QED
  BY <1>1, PipelineSafe, PTL DEF Spec, AttemptMovesForward

\* The claim is taken only while the message is the newest known row.
THEOREM ClaimIsOfLatest == Spec => ClaimedWhileLatest
<1>1. TypeOK /\ PipelineInv /\ [Next]_vars => ClaimsLatest
  <2> SUFFICES ASSUME TypeOK, PipelineInv, [Next]_vars
               PROVE  ClaimsLatest
    OBVIOUS
  <2>1. ASSUME NEW e \in Event, WritesMarker(e)
        PROVE  /\ marker'[e] = "claimed" => IsLatest(e, seen)
               /\ \A f \in Event \ {e} : marker'[f] = marker[f]
    BY <2>1 DEF WritesMarker, BlockDraft, Claim, At, TypeOK, PipelineInv,
        AuthorityInv
  <2> QED
    BY <2>1, OneWriter DEF Writers, ClaimsLatest
<1> QED
  BY <1>1, PipelineSafe, PTL DEF Spec, ClaimedWhileLatest

\* Return is pressed only under a configuration that sends to the contact,
\* after the delay of the draft, and after the first run has completed.
THEOREM ClickIsAuthorised == Spec => ClickWithinAuthority
<1>1. TypeOK /\ PipelineInv /\ [Next]_vars => ClicksWithAuthority
  <2> SUFFICES ASSUME TypeOK, PipelineInv, [Next]_vars
               PROVE  ClicksWithAuthority
    OBVIOUS
  <2>1. ASSUME NEW e \in Event, PressReturn(e)
        PROVE  /\ SendEnabled(e[1]) /\ draft[e].notBefore <= now
               /\ identity[e[1]] # NoVersion /\ bootstrapped
               /\ \A f \in Event \ {e} : clicks'[f] = clicks[f]
    BY <2>1 DEF PressReturn, At, TypeOK, PipelineInv, ProgressInv,
        LoopInv, AuthorityInv, SendSteps
  <2> QED
    BY <2>1, OneWriter DEF Writers, ClicksWithAuthority
<1> QED
  BY <1>1, PipelineSafe, PTL DEF Spec, ClickWithinAuthority

-----------------------------------------------------------------------------
\* An attempt has a draft with a body, and that draft is final.
LEMMA AttemptHasDraft ==
    ASSUME TypeOK, PipelineInv, NEW e \in Event, attempt[e] # "none"
    PROVE  draft[e] # NoDraft
BY DEF PipelineInv, ProgressInv, DurableInv, NoDraft

\* reserve_send refuses an equal text inside the window, so equal texts to one
\* contact are spaced, whatever became of the earlier attempt.
THEOREM SpacedSends == Spec => []EqualSendsAreSpaced
<1>1. Init => EqualSendsAreSpaced
  BY DEF Init, EqualSendsAreSpaced
<1>2. TypeOK /\ PipelineInv /\ EqualSendsAreSpaced /\ [Next]_vars
      => EqualSendsAreSpaced'
  <2> SUFFICES ASSUME TypeOK, PipelineInv, EqualSendsAreSpaced, [Next]_vars,
                      NEW e \in Event, NEW f \in Event, e # f, e[1] = f[1],
                      attempt'[e] # "none", attempt'[f] # "none",
                      draft'[e].body = draft'[f].body
               PROVE  \/ reservedAt'[e] > reservedAt'[f] + DedupeWindow
                      \/ reservedAt'[f] > reservedAt'[e] + DedupeWindow
    BY DEF EqualSendsAreSpaced
  <2>1. \A g \in Event : attempt[g] # "none" => draft'[g] = draft[g]
    BY StepKeepsRecords, AttemptHasDraft DEF KeepsRecords
  <2>2. /\ now \in Int /\ DedupeWindow \in Int
        /\ \A g \in Event : reservedAt[g] \in Int
    <3>1. DedupeWindow \in Int
      BY RuntimeAssumption
    <3>2. Never \in Int
      BY DEF Never
    <3>3. now \in Int
      BY ConstantTypes DEF TypeOK
    <3>4. \A g \in Event : reservedAt[g] \in Time \cup {Never}
      BY DEF TypeOK
    <3>5. \A t \in Time : t \in Int
      BY DEF Time
    <3>6. ASSUME NEW g \in Event
          PROVE  reservedAt[g] \in Int
      BY <3>2, <3>4, <3>5
    <3> QED
      BY <3>1, <3>3, <3>6
  <2>3. ASSUME NEW g \in Event, Reserve(g)
        PROVE  /\ reservedAt' = [reservedAt EXCEPT ![g] = now]
               /\ attempt' = [attempt EXCEPT ![g] = "reserved"]
               /\ draft' = draft
               /\ \A h \in Event \ {g} :
                     (/\ h[1] = g[1] /\ attempt[h] # "none"
                      /\ draft[h].body = draft[g].body)
                     => now > reservedAt[h] + DedupeWindow
    BY <2>2, <2>3 DEF Reserve, DuplicateSend
  <2>4. CASE \E g \in Event : Reserve(g)
    <3>1. PICK g \in Event : Reserve(g)
      BY <2>4
    <3>2. CASE g = e
      BY <2>3, <3>1, <3>2 DEF TypeOK
    <3>3. CASE g = f
      BY <2>3, <3>1, <3>3 DEF TypeOK
    <3>4. CASE g # e /\ g # f
      BY <2>3, <3>1, <3>4 DEF TypeOK, EqualSendsAreSpaced
    <3> QED
      BY <3>2, <3>3, <3>4
  <2>5. CASE ~ \E g \in Event : Reserve(g)
    <3>1. reservedAt' = reservedAt
      BY <2>5, OneWriter DEF Writers
    <3>2. ASSUME NEW h \in Event, WritesAttempt(h), ~ Reserve(h)
          PROVE  /\ attempt[h] # "none"
                 /\ \A g \in Event \ {h} : attempt'[g] = attempt[g]
      <4>1. attempt[h] # "none"
        BY <3>2 DEF WritesAttempt, BeginSending, RecordFailed, RecordSent,
            RecordConfirmed, At, PipelineInv, ProgressInv, SendInv, StatusAt,
            SendSteps
      <4>2. \A g \in Event \ {h} : attempt'[g] = attempt[g]
        BY <3>2 DEF WritesAttempt, BeginSending, RecordFailed, RecordSent,
            RecordConfirmed, TypeOK
      <4> QED
        BY <4>1, <4>2
    <3>3. attempt[e] # "none" /\ attempt[f] # "none"
      BY <2>5, <3>2, OneWriter DEF Writers
    <3> QED
      BY <2>1, <3>1, <3>3 DEF EqualSendsAreSpaced
  <2> QED
    BY <2>4, <2>5
<1> QED
  BY <1>1, <1>2, PipelineSafe, PTL DEF Spec

-----------------------------------------------------------------------------
\* A step that leaves claims, canaries and clicks alone stutters in SendOnce.
LEMMA PromiseStutter ==
    ASSUME UNCHANGED <<marker, canary, clicks>>
    PROVE  UNCHANGED Promise!vars
BY DEF Promise!vars, phaseBar, tokenBar

LEMMA PromiseStep == TypeOK /\ PipelineInv /\ [Next]_vars
                         => [Promise!Next]_(Promise!vars)
<1> SUFFICES ASSUME TypeOK, PipelineInv, [Next]_vars
             PROVE  [Promise!Next]_(Promise!vars)
  OBVIOUS
<1> USE DEF Promise!vars, Promise!Next, phaseBar, tokenBar, TypeOK
<1>1. ASSUME NEW e \in Event, BlockDraft(e)
      PROVE  Promise!Block(e)
  BY <1>1 DEF BlockDraft, Promise!Block, PipelineInv, ProgressInv, DurableInv
<1>2. ASSUME NEW e \in Event, Claim(e)
      PROVE  Promise!Claim(e)
  <2>1. canary[e] # Never
    BY <1>2, ConstantTypes DEF Claim, CanaryValid, Never
  <2>2. marker[e] = "none"
    BY <1>2 DEF Claim, At, PipelineInv, ProgressInv, SendInv
  <2>3. /\ marker' = [marker EXCEPT ![e] = "claimed"]
        /\ UNCHANGED <<canary, clicks>>
    BY <1>2 DEF Claim
  <2>4. phaseBar' = [phaseBar EXCEPT ![e] = "claimed"]
    BY <2>2, <2>3
  <2>5. tokenBar' = tokenBar
    BY <2>1, <2>3
  <2> QED
    BY <2>1, <2>2, <2>3, <2>4, <2>5 DEF Promise!Claim
<1>3. ASSUME NEW e \in Event, ConsumeCanary(e)
      PROVE  Promise!Spend(e)
  <2>1. canary[e] # Never
    BY <1>3, ConstantTypes DEF ConsumeCanary, CanaryValid, Never
  <2>2. marker[e] = "claimed"
    BY <1>3 DEF ConsumeCanary, At, PipelineInv, ProgressInv, SendInv, SendSteps
  <2>3. /\ canary' = [canary EXCEPT ![e] = Never]
        /\ UNCHANGED <<marker, clicks>>
    BY <1>3 DEF ConsumeCanary
  <2>4. tokenBar' = [tokenBar EXCEPT ![e] = "spent"]
    BY <2>2, <2>3
  <2> QED
    BY <2>1, <2>2, <2>3, <2>4 DEF Promise!Spend
<1>4. ASSUME NEW e \in Event, NEW ttl \in 1..CanaryTTL, ArmCanary(e, ttl)
      PROVE  Promise!Arm(e)
  <2>1. now + ttl # Never
    BY ConstantTypes DEF Never
  <2>2. /\ canary' = [canary EXCEPT ![e] = now + ttl]
        /\ UNCHANGED <<marker, clicks>>
        /\ marker[e] = "none"
    BY <1>4 DEF ArmCanary, CanArm
  <2>3. tokenBar' = [tokenBar EXCEPT ![e] = "armed"]
    BY <2>1, <2>2
  <2> QED
    BY <2>2, <2>3 DEF Promise!Arm
<1>5. ASSUME NEW e \in Event, PressReturn(e)
      PROVE  Promise!Press(e)
  <2>1. /\ clicks' = [clicks EXCEPT ![e] = clicks[e] + 1]
        /\ UNCHANGED <<marker, canary>>
    BY <1>5 DEF PressReturn
  <2>2. clicks[e] = 0 /\ marker[e] = "claimed" /\ canary[e] = Never
    BY <1>5 DEF PressReturn, At, PipelineInv, ProgressInv, SendInv, SendSteps
  <2>3. clicks' = [clicks EXCEPT ![e] = 1]
    BY <2>1, <2>2
  <2> QED
    BY <2>1, <2>2, <2>3 DEF Promise!Press
<1>6. ASSUME NEW e \in Event, ArmCanaryUndone(e)
      PROVE  Promise!Disarm(e)
  <2>1. /\ canary' = [canary EXCEPT ![e] = Never]
        /\ UNCHANGED <<marker, clicks>>
        /\ marker[e] = "none"
    BY <1>6 DEF ArmCanaryUndone, CanArm
  <2>2. tokenBar' = [tokenBar EXCEPT ![e] = "absent"]
    BY <2>1
  <2> QED
    BY <2>1, <2>2 DEF Promise!Disarm
<1> QED
  BY <1>1, <1>2, <1>3, <1>4, <1>5, <1>6, PromiseStutter, OneWriter
     DEF Writers, WritesMarker, WritesCanary

\* With every crash and restart, the pipeline is an implementation of SendOnce:
\* one token granted by a person, one claim, one press for each draft.
THEOREM PipelineImplementsSendOnce == Spec => KeepsPromise
<1>1. Init => Promise!Init
  BY DEF Init, Promise!Init, phaseBar, tokenBar
<1> QED
  BY <1>1, PromiseStep, PipelineSafe, PTL DEF Spec, KeepsPromise, Promise!Spec

-----------------------------------------------------------------------------
(* The hourly limit, on top of the pipeline's invariant.                   *)

LEMMA RecentResultsFinite ==
    ASSUME NEW c \in Contact
    PROVE  IsFiniteSet(RecentResults(c))
<1>1. IsFiniteSet({c} \X (1..MaxMessages))
  <2>1. IsFiniteSet({c})
    BY FS_Singleton
  <2>2. IsFiniteSet(1..MaxMessages)
    BY FS_Interval, ConstantTypes
  <2> QED
    BY <2>1, <2>2, FS_Product
<1>2. RecentResults(c) \subseteq {c} \X (1..MaxMessages)
    BY DEF RecentResults, Event
<1> QED
    BY <1>1, <1>2, FS_Subset

\* Time passing only takes results out of the window.
LEMMA AllowanceStays ==
    ASSUME TypeOK, TypeOK', result' = result, now <= now',
           NEW c \in Contact, FrequencyAllowed(c)
    PROVE  FrequencyAllowed(c)'
<1>1. RecentResults(c)' \subseteq RecentResults(c)
  <2>1. /\ result \in [Event -> Time \cup {Never}]
        /\ now \in Nat /\ now' \in Nat /\ FrequencyWindow \in Nat
    BY RuntimeAssumption DEF TypeOK, Time
  <2>2. \A e \in Event : result[e] # Never => result[e] \in Nat
    BY <2>1, ConstantTypes
  <2> QED
    BY <2>1, <2>2 DEF RecentResults
<1>2. /\ IsFiniteSet(RecentResults(c)')
      /\ Cardinality(RecentResults(c)') <= Cardinality(RecentResults(c))
    BY <1>1, RecentResultsFinite, FS_Subset
<1>3. Cardinality(RecentResults(c)) \in Nat
      /\ Cardinality(RecentResults(c)') \in Nat
    BY <1>2, RecentResultsFinite, FS_CardinalityType
<1> QED
    BY <1>2, <1>3, RuntimeAssumption DEF FrequencyAllowed

\* Where the result of a send is recorded the run goes back to its loop; every
\* other step leaves the results alone.
LEMMA ResultsStay ==
    ASSUME TypeOK, [Next]_vars, ~ \E e \in Event : RecordResult(e)
    PROVE  result' = result /\ now <= now'
<1>0. now \in Nat
    BY ConstantTypes DEF TypeOK
<1>1. ASSUME NEW e \in Event, SendStep(e)
      PROVE  result' = result /\ now' = now
    BY <1>1 DEF SendStep, DeclineSend, RecheckLatest, PreflightRefused,
        ReserveRefused, ReadbackBaseline, StepFails, ReadbackConfirm, Claim,
        Reserve, BeginSending, ConsumeCanary, PressReturn, RecordFailed,
        RecordSent, RecordConfirmed
<1>2. CASE StartRun \/ Crash
    BY <1>0, <1>2 DEF StartRun, Crash
<1>3. CASE LoopStep
    BY <1>0, <1>3 DEF LoopStep, BootstrapComplete, LearningRefresh, DueDone, EndRun,
        PickDueDraft, DraftConflict, DecideDraft, BootstrapObserve, BlockDraft,
        FilterEvent, RecordDraft, RecordProcessed, ModelDeclines
<1>4. CASE UserStep
    BY <1>0, <1>4 DEF UserStep, ArmCanary, ArmCanaryUndone, ActivateIdentity,
        Reconfigure, ControlCommand
<1>5. CASE WorldStep
  <2>1. CASE Tick
    BY <1>0, <2>1 DEF Tick
  <2>2. ASSUME NEW c \in Contact, NEW kind \in Kinds, Receive(c, kind)
        PROVE  result' = result /\ now' = now
    BY <2>2 DEF Receive
  <2>3. ASSUME NEW c \in Contact, NEW body \in Body \cup {OtherText},
               ManualSend(c, body)
        PROVE  result' = result /\ now' = now
    BY <2>3 DEF ManualSend
  <2>4. ASSUME NEW e \in Event, Deliver(e)
        PROVE  result' = result /\ now' = now
    BY <2>4 DEF Deliver
  <2> QED
    BY <1>0, <1>5, <2>1, <2>2, <2>3, <2>4 DEF WorldStep
<1>6. CASE UNCHANGED vars
    BY <1>0, <1>6 DEF vars
<1> QED
    BY <1>0, <1>1, <1>2, <1>3, <1>4, <1>5, <1>6 DEF Next, RunStep

LEMMA NextLimitInv ==
    ASSUME TypeOK, TypeOK', PipelineInv, LimitInv, [Next]_vars
    PROVE  LimitInv'
<1>1. ASSUME NEW e \in Event, RecordResult(e)
      PROVE  LimitInv'
    BY <1>1 DEF RecordResult, Return, LimitInv, TypeOK, DraftSteps
<1>2. CASE ~ \E e \in Event : RecordResult(e)
  <2>1. \A c \in Contact : FrequencyAllowed(c) => FrequencyAllowed(c)'
    BY <1>2, ResultsStay, AllowanceStays
  <2>2. pc \in {"cand", "claim"} \cup DraftSteps => cur[1] \in Contact
    BY EventFields DEF PipelineInv, ProgressInv, LoopInv, SendSteps, DraftSteps
  <2>3. ASSUME pc' \in {"cand", "claim"}
        PROVE  \/ cur' = cur /\ pc \in {"cand", "claim"}
               \/ /\ cur' = cur /\ pc \in DraftSteps
                  /\ pend.status = "autopilot_candidate"
               \/ cur' \in Event /\ FrequencyAllowed(cur'[1])
    <3>1. ASSUME NEW e \in Event, SendStep(e)
          PROVE  cur' = cur /\ pc \in {"cand", "claim"}
      BY <2>3, <3>1 DEF SendStep, DeclineSend, RecheckLatest,
          PreflightRefused, Claim, ReserveRefused, Reserve, BeginSending,
          ReadbackBaseline, ConsumeCanary, PressReturn, StepFails,
          RecordFailed, RecordSent, ReadbackConfirm, RecordConfirmed,
          RecordResult, At, Return, GoTo, TypeOK
    <3>2. CASE StartRun \/ Crash
      BY <2>3, <3>2 DEF StartRun, Crash, ForgetRun
    <3>3. CASE LoopStep
      BY <2>3, <3>3 DEF LoopStep, BootstrapComplete, LearningRefresh, DueDone,
          EndRun, PickDueDraft, DraftConflict, DecideDraft, BootstrapObserve,
          BlockDraft, FilterEvent, RecordDraft, RecordProcessed,
          ModelDeclines, Revalidated, ForgetRun, locals, DraftSteps
    <3>4. CASE UserStep \/ WorldStep \/ UNCHANGED vars
      BY <2>3, <3>4 DEF UserStep, ArmCanary, ArmCanaryUndone,
          ActivateIdentity, Reconfigure, ControlCommand, WorldStep, Receive,
          ManualSend, Deliver, Tick, vars, locals
    <3> QED
      BY <3>1, <3>2, <3>3, <3>4 DEF Next, RunStep
  <2>4. ASSUME pc' \in DraftSteps, pend'.status = "autopilot_candidate"
        PROVE  \/ /\ cur' = cur /\ pc \in DraftSteps
                  /\ pend.status = "autopilot_candidate"
               \/ cur' \in Event /\ FrequencyAllowed(cur'[1])
    <3>1. ASSUME NEW e \in Event, SendStep(e)
          PROVE  FALSE
      BY <2>4, <3>1 DEF SendStep, DeclineSend, RecheckLatest,
          PreflightRefused, Claim, ReserveRefused, Reserve, BeginSending,
          ReadbackBaseline, ConsumeCanary, PressReturn, StepFails,
          RecordFailed, RecordSent, ReadbackConfirm, RecordConfirmed,
          RecordResult, At, Return, GoTo, TypeOK, DraftSteps
    <3>2. CASE StartRun \/ Crash
      BY <2>4, <3>2 DEF StartRun, Crash, ForgetRun, DraftSteps
    <3>3. ASSUME NEW e \in Event, NEW status \in DraftStatuses,
                 NEW body \in Body \cup {OtherText}, NEW delay \in Delays,
                 DecideDraft(e, status, body, delay)
          PROVE  cur' \in Event /\ FrequencyAllowed(cur'[1])
      BY <2>4, <3>3 DEF DecideDraft, GateActions
    <3>4. CASE LoopStep
      BY <2>4, <3>3, <3>4 DEF LoopStep, BootstrapComplete, LearningRefresh,
          DueDone, EndRun, PickDueDraft, DraftConflict, BootstrapObserve,
          BlockDraft, FilterEvent, RecordDraft, RecordProcessed,
          ModelDeclines, ForgetRun, locals, DraftSteps
    <3>5. CASE UserStep \/ WorldStep \/ UNCHANGED vars
      BY <2>4, <3>5 DEF UserStep, ArmCanary, ArmCanaryUndone,
          ActivateIdentity, Reconfigure, ControlCommand, WorldStep, Receive,
          ManualSend, Deliver, Tick, vars, locals
    <3> QED
      BY <3>1, <3>2, <3>4, <3>5 DEF Next, RunStep
  <2> QED
    BY <2>1, <2>2, <2>3, <2>4, EventFields DEF LimitInv
<1> QED
    BY <1>1, <1>2

\* Between the frequency check and the claim nothing uses up the limit.
THEOREM LimitHolds == Spec => []LimitInv
<1>1. Init => LimitInv
    BY DEF Init, LimitInv, DraftSteps
<1>2. TypeOK /\ PipelineInv /\ TypeOK' /\ LimitInv /\ [Next]_vars => LimitInv'
    BY NextLimitInv
<1> QED
    BY <1>1, <1>2, PipelineSafe, PTL DEF Spec

\* No draft is claimed once the contact's hourly limit is used up.
THEOREM ClaimIsBelowLimit == Spec => ClaimedBelowLimit
<1>1. TypeOK /\ LimitInv /\ [Next]_vars => ClaimsBelowLimit
  <2> SUFFICES ASSUME TypeOK, LimitInv, [Next]_vars
               PROVE  ClaimsBelowLimit
    OBVIOUS
  <2>1. ASSUME NEW e \in Event, WritesMarker(e)
        PROVE  /\ marker'[e] = "claimed" => FrequencyAllowed(e[1])
               /\ \A f \in Event \ {e} : marker'[f] = marker[f]
    BY <2>1 DEF WritesMarker, BlockDraft, Claim, At, TypeOK, LimitInv
  <2> QED
    BY <2>1, OneWriter DEF Writers, ClaimsBelowLimit, FrequencyAllowed
<1> QED
  BY <1>1, LimitHolds, PipelineSafe, PTL DEF Spec, ClaimedBelowLimit
=============================================================================
