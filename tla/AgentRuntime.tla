---------------------------- MODULE AgentRuntime ----------------------------
(***************************************************************************)
(* The autopilot send pipeline: one short-lived `run-once` process at a    *)
(* time (runtime.py, under the state lock), the durable ledger records it  *)
(* writes one transaction at a time, the Keychain canaries a person arms,  *)
(* and the WeChat database it polls while messages keep arriving.          *)
(*                                                                         *)
(* The process may die between any two steps; what it wrote so far stays,  *)
(* and the next run starts from the durable state alone.                   *)
(*                                                                         *)
(* An inbound message, its draft, its claim marker, its send attempt and   *)
(* its canary all have identifiers derived from the same event, so every   *)
(* durable table is a function of Event.                                   *)
(***************************************************************************)
EXTENDS Integers, Sequences, FiniteSets

CONSTANTS
    Contact,          \* pseudonymous contact keys
    Body,             \* canned acknowledgements an autopilot draft may hold
    OtherText,        \* any text that is not one of them
    Version,          \* ids of user-confirmed relationship versions
    NoVersion,        \* the contact has no verified UI identity
    Activations,      \* versions the user activates; NoVersion withdraws one
    NoEvent,          \* no draft is in hand
    Kinds,            \* kinds of inbound message that occur
    Configs,          \* configurations the user may run with
    Commands,         \* control commands the user gives
    Delays,           \* reply delays the render controls may choose
    MaxMessages,      \* bound: messages per contact
    MaxTime,          \* bound: clock
    CanaryTTL,        \* longest life of a canary          (600 s in the code)
    DedupeWindow,     \* equal sends are refused this long (300 s)
    FrequencyWindow,  \* window of the per-contact limit   (3600 s)
    HourlyLimit       \* confirmed sends per window and contact

Modes == {"observe", "shadow", "approve", "autopilot"}
Event == Contact \X (1..MaxMessages)
Time == 0..MaxTime
Never == -1

ASSUME RuntimeAssumption ==
    /\ NoEvent \notin Event
    /\ NoVersion \notin Version
    /\ Activations \subseteq Version \cup {NoVersion}
    /\ OtherText \notin Body
    /\ Kinds \subseteq {"request", "sensitive", "chatter"}
    /\ MaxMessages \in Nat /\ MaxTime \in Nat
    /\ CanaryTTL \in Nat /\ DedupeWindow \in Nat
    /\ FrequencyWindow \in Nat /\ HourlyLimit \in Nat
    /\ Delays \subseteq Nat
    /\ \A cfg \in Configs :
          /\ cfg.mode \in Modes
          /\ cfg.realSend \in BOOLEAN
          /\ cfg.realSend => cfg.mode = "autopilot"

VARIABLES
    now,            \* the clock
    wx,             \* per contact, the rows of the WeChat database in order
    outbox,         \* events whose reply was sent but has no database row yet
    clicks,         \* how often Return was pressed for the draft of an event
    config,         \* the configuration the next run loads
    markers,        \* pause and kill-switch files that exist
    canary,         \* Keychain: expiry of the canary armed for an event
    seen,           \* ledger: how many rows of each contact are ingested
    bootstrapped,   \* ledger: the bootstrap record exists
    process,        \* ledger: processing record of an event
    draft,          \* ledger: draft record of an event
    marker,         \* ledger: draft-send record, terminal for the draft
    attempt,        \* ledger: send_attempts.status
    reservedAt,     \* ledger: send_attempts.reserved_at
    result,         \* ledger: time of the "confirmed" send-result record
    identity,       \* ledger: active verified relationship version
    pc, cur, ret,   \* the run: next step, event in hand, loop to return to
    snap,           \* the run: rows known when it started
    todo,           \* the run: due drafts still to examine
    base,           \* the run: outbound rows known before the click
    clickStart,     \* the run: click_started
    pend            \* the run: draft decided but not yet recorded

external == <<now, wx, outbox, clicks>>
control == <<config, markers>>
records == <<seen, bootstrapped, process, draft, identity>>
sends == <<marker, attempt, reservedAt, result>>
locals == <<pc, cur, ret, snap, todo, base, clickStart, pend>>
vars == <<external, control, canary, records, sends, locals>>

-----------------------------------------------------------------------------
Message == [dir: {"inbound"}, kind: Kinds, at: Time]
           \cup [dir: {"outbound"}, body: Body \cup {OtherText}, at: Time]

DraftStatuses ==
    {"autopilot_candidate", "approval_required", "draft_only",
     "manual_required"}
Draft == [status: DraftStatuses, mode: Modes, body: Body \cup {OtherText},
          notBefore: Nat, version: Version \cup {NoVersion}]
NoDraft == [status |-> "none"]

ProcessKinds ==
    {"bootstrap_observed", "superseded", "observed", "rule_no_reply",
     "model_failed", "no_reply", "drafted"}

SendStatuses ==
    {"none", "reserved", "sending", "sent", "failed", "readback_confirmed"}

SendSteps ==
    {"cand", "claim", "reserve", "sending", "baseline", "consume", "ui",
     "mark_sent", "confirm", "record_confirmed", "record_result", "fail"}
DraftSteps == {"draft", "processed"}
LoopSteps == {"idle", "bootstrap", "learn", "due", "events"}

TypeOK ==
    /\ now \in Time
    /\ wx \in [Contact -> Seq(Message)]
    /\ outbox \subseteq Event
    /\ clicks \in [Event -> Nat]
    /\ config \in Configs
    /\ markers \subseteq {"pause", "kill"}
    /\ canary \in [Event -> Nat \cup {Never}]
    /\ seen \in [Contact -> 0..MaxMessages]
    /\ bootstrapped \in BOOLEAN
    /\ process \in [Event -> ProcessKinds \cup {"none"}]
    /\ draft \in [Event -> Draft \cup {NoDraft}]
    /\ marker \in [Event -> {"none", "claimed", "blocked"}]
    /\ attempt \in [Event -> SendStatuses]
    /\ reservedAt \in [Event -> Time \cup {Never}]
    /\ result \in [Event -> Time \cup {Never}]
    /\ identity \in [Contact -> Version \cup {NoVersion}]
    /\ pc \in LoopSteps \cup SendSteps \cup DraftSteps
    /\ cur \in Event \cup {NoEvent}
    /\ ret \in {"due", "events"}
    /\ snap \in [Contact -> 0..MaxMessages]
    /\ todo \subseteq Event
    /\ base \subseteq 1..MaxMessages
    /\ clickStart \in Time
    /\ pend \in Draft \cup {NoDraft}

Init ==
    /\ now = 0
    /\ wx = [c \in Contact |-> <<>>]
    /\ outbox = {}
    /\ clicks = [e \in Event |-> 0]
    /\ config \in Configs
    /\ markers = {}
    /\ canary = [e \in Event |-> Never]
    /\ seen = [c \in Contact |-> 0]
    /\ bootstrapped = FALSE
    /\ process = [e \in Event |-> "none"]
    /\ draft = [e \in Event |-> NoDraft]
    /\ marker = [e \in Event |-> "none"]
    /\ attempt = [e \in Event |-> "none"]
    /\ reservedAt = [e \in Event |-> Never]
    /\ result = [e \in Event |-> Never]
    /\ identity \in [Contact -> Version \cup {NoVersion}]
    /\ pc = "idle" /\ cur = NoEvent /\ ret = "due"
    /\ snap = [c \in Contact |-> 0]
    /\ todo = {} /\ base = {} /\ clickStart = 0 /\ pend = NoDraft

-----------------------------------------------------------------------------
(* Reading the ledger.                                                     *)

\* A poll ingests, per contact, a prefix of the rows the database holds: a
\* table whose query fails only adds a warning, and the poll still returns.
PollResults ==
    {n \in [Contact -> 0..MaxMessages] :
        \A c \in Contact : seen[c] <= n[c] /\ n[c] <= Len(wx[c])}

Row(e) == wx[e[1]][e[2]]
IsInbound(e) == e[2] <= Len(wx[e[1]]) /\ Row(e).dir = "inbound"

\* Events of the run's snapshot that still need a processing record; they are
\* handled in order of position, so only the first of a contact is next.
Unprocessed(e) == e[2] <= snap[e[1]] /\ IsInbound(e) /\ process[e] = "none"
NextUp(e) ==
    Unprocessed(e) /\ \A i \in 1..(e[2] - 1) : ~ Unprocessed(<<e[1], i>>)

IsLatest(e, known) == e[2] = known[e[1]]

\* Confirmed results of the contact that still count against its limit.
RecentResults(c) ==
    {e \in Event : /\ e[1] = c
                   /\ result[e] # Never
                   /\ result[e] >= now - FrequencyWindow}

\* Mutant: one more send than the limit.
FrequencyAllowedOneMore(c) == Cardinality(RecentResults(c)) <= HourlyLimit

FrequencyAllowed(c) == Cardinality(RecentResults(c)) < HourlyLimit

CanaryValid(e) == now < canary[e]

\* Mutant: an equal text exactly one window ago is let through.
DuplicateSendOffByOne(e) ==
    \E f \in Event \ {e} :
        /\ f[1] = e[1]
        /\ attempt[f] # "none"
        /\ draft[f].body = draft[e].body
        /\ reservedAt[f] > now - DedupeWindow

DuplicateSend(e) ==
    \E f \in Event \ {e} :
        /\ f[1] = e[1]
        /\ attempt[f] # "none"
        /\ draft[f].body = draft[e].body
        /\ reservedAt[f] >= now - DedupeWindow

\* Outbound rows of the contact among the first n, from a given second on.
Outbound(c, n, from) ==
    {i \in 1..n : wx[c][i].dir = "outbound" /\ wx[c][i].at >= from}

\* A row the baseline does not know and that lies above its high watermark.
AboveBaseline(i) == \A j \in base : j < i

SendEnabled(c) ==
    config.realSend /\ config.mode = "autopilot" /\ c \in config.allow

-----------------------------------------------------------------------------
(* The outer loop of run_once.                                             *)

\* Mutant: one observed record counts as a completed bootstrap.
StartRunHalfBootstrapped ==
    /\ pc = "idle"
    /\ markers = {}
    /\ \E n \in PollResults : seen' = n /\ snap' = n
    /\ pc' = IF \E e \in Event : process[e] = "bootstrap_observed"
             THEN "learn" ELSE "bootstrap"
    /\ UNCHANGED <<external, control, canary, bootstrapped, process, draft,
                   identity, sends, cur, ret, todo, base, clickStart, pend>>

StartRun ==
    /\ pc = "idle"
    /\ markers = {}
    /\ \E n \in PollResults : seen' = n /\ snap' = n
    /\ pc' = IF bootstrapped THEN "learn" ELSE "bootstrap"
    /\ UNCHANGED <<external, control, canary, bootstrapped, process, draft,
                   identity, sends, cur, ret, todo, base, clickStart, pend>>

\* What the process held in memory is gone: it returned, or it died, or an
\* exception nobody catches ended it.
ForgetRun ==
    /\ pc' = "idle" /\ cur' = NoEvent /\ ret' = "due"
    /\ snap' = [c \in Contact |-> 0]
    /\ todo' = {} /\ base' = {} /\ clickStart' = 0 /\ pend' = NoDraft

Crash ==
    /\ pc # "idle"
    /\ ForgetRun
    /\ UNCHANGED <<external, control, canary, records, sends>>

\* First run: history is marked as observed, one record at a time.
BootstrapObserve(e) ==
    /\ pc = "bootstrap"
    /\ NextUp(e)
    /\ process' = [process EXCEPT ![e] = "bootstrap_observed"]
    /\ UNCHANGED <<external, control, canary, seen, bootstrapped, draft,
                   identity, sends, locals>>

BootstrapComplete ==
    /\ pc = "bootstrap"
    /\ \A e \in Event : ~ Unprocessed(e)
    /\ bootstrapped' = TRUE
    /\ ForgetRun
    /\ UNCHANGED <<external, control, canary, seen, process, draft, identity,
                   sends>>

\* A refresh may activate a new relationship version that keeps the
\* user-confirmed identity pair; then the due drafts are listed.
LearningRefresh ==
    /\ pc = "learn"
    /\ identity' \in [Contact -> Version \cup {NoVersion}]
    /\ \A c \in Contact :
          identity[c] = NoVersion <=> identity'[c] = NoVersion
    /\ pc' = "due"
    /\ todo' = IF config.realSend
               THEN {e \in Event : /\ draft[e].status = "autopilot_candidate"
                                   /\ marker[e] = "none"
                                   /\ draft[e].notBefore <= now}
               ELSE {}
    /\ UNCHANGED <<external, control, canary, seen, bootstrapped, process,
                   draft, sends, cur, ret, snap, base, clickStart, pend>>

\* Gate revalidation of a stored draft, without a second model call.
Revalidated(e) ==
    /\ config.mode = "autopilot"
    /\ e[1] \in config.allow
    /\ FrequencyAllowed(e[1])

BlockDraft(e) ==
    /\ pc = "due" /\ e \in todo
    /\ ~ Revalidated(e)
    /\ marker' = [marker EXCEPT ![e] = "blocked"]
    /\ todo' = todo \ {e}
    /\ UNCHANGED <<external, control, canary, records, attempt, reservedAt,
                   result, pc, cur, ret, snap, base, clickStart, pend>>

\* Mutant: the due draft is examined again after each attempt.
PickDueDraftAgain(e) ==
    /\ pc = "due" /\ e \in todo
    /\ Revalidated(e)
    /\ pc' = "cand" /\ cur' = e /\ ret' = "due"
    /\ UNCHANGED <<external, control, canary, records, sends, snap, todo, base,
                   clickStart, pend>>

PickDueDraft(e) ==
    /\ pc = "due" /\ e \in todo
    /\ Revalidated(e)
    /\ pc' = "cand" /\ cur' = e /\ ret' = "due"
    /\ todo' = todo \ {e}
    /\ UNCHANGED <<external, control, canary, records, sends, snap, base,
                   clickStart, pend>>

DueDone ==
    /\ pc = "due" /\ todo = {}
    /\ pc' = "events"
    /\ UNCHANGED <<external, control, canary, records, sends, cur, ret, snap,
                   todo, base, clickStart, pend>>

EndRun ==
    /\ pc = "events"
    /\ \A e \in Event : ~ Unprocessed(e)
    /\ ForgetRun
    /\ UNCHANGED <<external, control, canary, records, sends>>

-----------------------------------------------------------------------------
(* The event loop of run_once.                                             *)

\* No model is needed: a newer message of the contact exists, the mode only
\* observes, or the local rules see nothing to answer.
SkipReason(e) ==
    IF ~ IsLatest(e, snap) THEN "superseded"
    ELSE IF config.mode = "observe" THEN "observed"
    ELSE IF Row(e).kind = "chatter" THEN "rule_no_reply"
    ELSE "none"

FilterEvent(e) ==
    /\ pc = "events" /\ NextUp(e)
    /\ SkipReason(e) # "none"
    /\ process' = [process EXCEPT ![e] = SkipReason(e)]
    /\ UNCHANGED <<external, control, canary, seen, bootstrapped, draft,
                   identity, sends, locals>>

ModelDeclines(e, kind) ==
    /\ pc = "events" /\ NextUp(e)
    /\ SkipReason(e) = "none"
    /\ Row(e).kind = "request"
    /\ process' = [process EXCEPT ![e] = kind]
    /\ UNCHANGED <<external, control, canary, seen, bootstrapped, draft,
                   identity, sends, locals>>

\* Draft statuses the gate and the post-render gate can give. A sensitive
\* message goes to a person; a full-confidence answer takes the status of the
\* mode, and only an allowlisted contact below its limit has one.
GateActions(e) ==
    IF Row(e).kind = "sensitive" THEN {"manual_required"}
    ELSE {"manual_required", "draft_only"} \cup
         (IF e[1] \in config.allow /\ FrequencyAllowed(e[1])
          THEN CASE config.mode = "approve" -> {"approval_required"}
                 [] config.mode = "autopilot" -> {"autopilot_candidate"}
                 [] OTHER -> {}
          ELSE {})

DecideDraft(e, status, body, delay) ==
    /\ pc = "events" /\ NextUp(e)
    /\ SkipReason(e) = "none"
    /\ status \in GateActions(e)
    /\ body \in IF status = "autopilot_candidate" THEN Body ELSE {OtherText}
    /\ pend' = [status |-> status, mode |-> config.mode, body |-> body,
                notBefore |-> Row(e).at + delay, version |-> identity[e[1]]]
    /\ pc' = "draft" /\ cur' = e
    /\ UNCHANGED <<external, control, canary, records, sends, ret, snap, todo,
                   base, clickStart>>

\* The draft id is derived from the event, and the record is immutable: the
\* same payload is accepted again, another one raises out of run_once.
RecordDraft(e) ==
    /\ pc = "draft" /\ cur = e
    /\ draft[e] \in {NoDraft, pend}
    /\ draft' = [draft EXCEPT ![e] = pend]
    /\ pc' = "processed"
    /\ UNCHANGED <<external, control, canary, seen, bootstrapped, process,
                   identity, sends, cur, ret, snap, todo, base, clickStart,
                   pend>>

\* What the record holds beyond this model (the context, the decision) may
\* differ from the stored one even where the rest is the same.
DraftConflict(e) ==
    /\ pc = "draft" /\ cur = e
    /\ draft[e] # NoDraft
    /\ ForgetRun
    /\ UNCHANGED <<external, control, canary, records, sends>>

RecordProcessed(e) ==
    /\ pc = "processed" /\ cur = e
    /\ process' = [process EXCEPT ![e] = "drafted"]
    /\ IF /\ pend.status = "autopilot_candidate"
          /\ config.realSend
          /\ now >= pend.notBefore
       THEN pc' = "cand" /\ cur' = e
       ELSE pc' = "events" /\ cur' = NoEvent
    /\ ret' = "events"
    /\ pend' = NoDraft
    /\ UNCHANGED <<external, control, canary, seen, bootstrapped, draft,
                   identity, sends, snap, todo, base, clickStart>>

-----------------------------------------------------------------------------
(* _send_candidate, one durable effect or external call per step.          *)

At(step, e) == pc = step /\ cur = e

\* Back to the loop that called _send_candidate.
Return ==
    /\ pc' = ret /\ cur' = NoEvent
    /\ base' = {} /\ clickStart' = 0
    /\ UNCHANGED <<ret, snap, todo, pend>>

GoTo(step) ==
    /\ pc' = step
    /\ UNCHANGED <<cur, ret, snap, todo, base, clickStart, pend>>

\* Mutant: a contact that lost its verified identity is still typed to.
MaySendUnverified(e) == SendEnabled(e[1]) /\ marker[e] = "none"

MaySend(e) ==
    SendEnabled(e[1]) /\ marker[e] = "none" /\ identity[e[1]] # NoVersion

DeclineSend(e) ==
    /\ At("cand", e)
    /\ ~ MaySend(e)
    /\ Return
    /\ UNCHANGED <<external, control, canary, records, sends>>

\* Mutant: the poll is made, but the snapshot of the run is consulted.
RecheckLatestInSnapshot(e) ==
    /\ At("cand", e)
    /\ MaySend(e)
    /\ \E n \in PollResults :
          /\ seen' = n
          /\ IF IsLatest(e, snap) THEN GoTo("claim") ELSE Return
    /\ UNCHANGED <<external, control, canary, bootstrapped, process, draft,
                   identity, sends>>

\* Re-read, and give up unless the event is still the contact's latest row.
RecheckLatest(e) ==
    /\ At("cand", e)
    /\ MaySend(e)
    /\ \E n \in PollResults :
          /\ seen' = n
          /\ IF IsLatest(e, n) THEN GoTo("claim") ELSE Return
    /\ UNCHANGED <<external, control, canary, bootstrapped, process, draft,
                   identity, sends>>

\* Without a valid canary nothing is recorded and the draft stays pending.
PreflightRefused(e) ==
    /\ At("claim", e)
    /\ ~ CanaryValid(e)
    /\ Return
    /\ UNCHANGED <<external, control, canary, records, sends>>

\* Mutant: the draft is claimed before the canary is looked at.
ClaimUnarmed(e) ==
    /\ At("claim", e)
    /\ marker' = [marker EXCEPT ![e] = "claimed"]
    /\ GoTo("reserve")
    /\ UNCHANGED <<external, control, canary, records, attempt, reservedAt,
                   result>>

Claim(e) ==
    /\ At("claim", e)
    /\ CanaryValid(e)
    /\ marker' = [marker EXCEPT ![e] = "claimed"]
    /\ GoTo("reserve")
    /\ UNCHANGED <<external, control, canary, records, attempt, reservedAt,
                   result>>

ReserveRefused(e) ==
    /\ At("reserve", e)
    /\ DuplicateSend(e)
    /\ Return
    /\ UNCHANGED <<external, control, canary, records, sends>>

Reserve(e) ==
    /\ At("reserve", e)
    /\ ~ DuplicateSend(e)
    /\ attempt' = [attempt EXCEPT ![e] = "reserved"]
    /\ reservedAt' = [reservedAt EXCEPT ![e] = now]
    /\ GoTo("sending")
    /\ UNCHANGED <<external, control, canary, records, marker, result>>

BeginSending(e) ==
    /\ At("sending", e)
    /\ attempt' = [attempt EXCEPT ![e] = "sending"]
    /\ GoTo("baseline")
    /\ UNCHANGED <<external, control, canary, records, marker, reservedAt,
                   result>>

\* A second poll, which may ingest newer rows of the contact; only the
\* outbound ones matter to what follows.
ReadbackBaseline(e) ==
    /\ At("baseline", e)
    /\ \E n \in PollResults :
          /\ seen' = n
          /\ base' = Outbound(e[1], n[e[1]], Row(e).at)
    /\ clickStart' = now
    /\ pc' = "consume"
    /\ UNCHANGED <<external, control, canary, bootstrapped, process, draft,
                   identity, sends, cur, ret, snap, todo, pend>>

\* The sender deletes the canary before it touches the user interface.
ConsumeCanary(e) ==
    /\ At("consume", e)
    /\ CanaryValid(e)
    /\ canary' = [canary EXCEPT ![e] = Never]
    /\ GoTo("ui")
    /\ UNCHANGED <<external, control, records, sends>>

\* Return is pressed; the script may still end without its final marker.
PressReturn(e) ==
    /\ At("ui", e)
    /\ clicks' = [clicks EXCEPT ![e] = @ + 1]
    /\ outbox' = outbox \cup {e}
    /\ GoTo("mark_sent") \/ GoTo("fail")
    /\ UNCHANGED <<now, wx, control, canary, records, sends>>

\* The baseline could not be read, the canary lapsed, the sender is not
\* available, the window did not match, or the readback raised.
StepFails(e) ==
    /\ \E step \in {"baseline", "consume", "ui", "confirm"} : At(step, e)
    /\ GoTo("fail")
    /\ UNCHANGED <<external, control, canary, records, sends>>

\* Mutant: the claim is released, so that a later run may try again.
RecordFailedReleases(e) ==
    /\ At("fail", e)
    /\ attempt' = [attempt EXCEPT ![e] = "failed"]
    /\ marker' = [marker EXCEPT ![e] = "none"]
    /\ Return
    /\ UNCHANGED <<external, control, canary, records, reservedAt, result>>

RecordFailed(e) ==
    /\ At("fail", e)
    /\ attempt' = [attempt EXCEPT ![e] = "failed"]
    /\ Return
    /\ UNCHANGED <<external, control, canary, records, marker, reservedAt,
                   result>>

RecordSent(e) ==
    /\ At("mark_sent", e)
    /\ attempt' = [attempt EXCEPT ![e] = "sent"]
    /\ GoTo("confirm")
    /\ UNCHANGED <<external, control, canary, records, marker, reservedAt,
                   result>>

\* An exact outbound row above the watermark confirms the click.
ReadbackConfirm(e) ==
    /\ At("confirm", e)
    /\ \E n \in PollResults :
          /\ seen' = n
          /\ IF \E i \in Outbound(e[1], n[e[1]], clickStart) :
                   AboveBaseline(i) /\ wx[e[1]][i].body = draft[e].body
             THEN GoTo("record_confirmed")
             ELSE GoTo("fail")
    /\ UNCHANGED <<external, control, canary, bootstrapped, process, draft,
                   identity, sends>>

RecordConfirmed(e) ==
    /\ At("record_confirmed", e)
    /\ attempt' = [attempt EXCEPT ![e] = "readback_confirmed"]
    /\ GoTo("record_result")
    /\ UNCHANGED <<external, control, canary, records, marker, reservedAt,
                   result>>

RecordResult(e) ==
    /\ At("record_result", e)
    /\ result' = [result EXCEPT ![e] = now]
    /\ Return
    /\ UNCHANGED <<external, control, canary, records, marker, attempt,
                   reservedAt>>

-----------------------------------------------------------------------------
(* The person and the outside world.                                       *)

\* arm-send-canary, under the state lock, for a due unclaimed candidate whose
\* stored identity version is the active one.
CanArm(e) ==
    /\ pc = "idle"
    /\ SendEnabled(e[1])
    /\ draft[e] # NoDraft
    /\ draft[e].status = "autopilot_candidate" /\ draft[e].mode = "autopilot"
    /\ identity[e[1]] # NoVersion /\ identity[e[1]] = draft[e].version
    /\ draft[e].notBefore <= now
    /\ marker[e] = "none"

ArmCanary(e, ttl) ==
    /\ CanArm(e)
    /\ ttl \in 1..CanaryTTL
    /\ canary' = [canary EXCEPT ![e] = now + ttl]
    /\ UNCHANGED <<external, control, records, sends, locals>>

\* The canary was stored, but its ledger record could not be written, so the
\* command takes the canary back, with the one an earlier command had armed.
ArmCanaryUndone(e) ==
    /\ CanArm(e)
    /\ canary' = [canary EXCEPT ![e] = Never]
    /\ UNCHANGED <<external, control, records, sends, locals>>

\* The user activates, replaces or rolls back a contact's identity version.
ActivateIdentity(c, v) ==
    /\ pc = "idle"
    /\ v # identity[c]
    /\ identity' = [identity EXCEPT ![c] = v]
    /\ UNCHANGED <<external, control, canary, seen, bootstrapped, process,
                   draft, sends, locals>>

\* A run loads the configuration once, so an edit counts from the next run.
Reconfigure(cfg) ==
    /\ pc = "idle"
    /\ cfg # config
    /\ config' = cfg
    /\ UNCHANGED <<external, markers, canary, records, sends, locals>>

\* pause, resume and the kill switch take no lock. Enabling the switch writes
\* two files, and may be cut short after the first.
ControlCommand(cmd) ==
    /\ \/ cmd = "pause" /\ markers' = markers \cup {"pause"}
       \/ /\ cmd = "resume" /\ "kill" \notin markers
          /\ markers' = markers \ {"pause"}
       \/ /\ cmd = "kill"
          /\ markers' \in {markers \cup {"kill"}, {"kill", "pause"}}
       \/ cmd = "clear" /\ markers' = markers \ {"kill"}
    /\ UNCHANGED <<external, config, canary, records, sends, locals>>

Append1(c, row) ==
    /\ Len(wx[c]) < MaxMessages
    /\ wx' = [wx EXCEPT ![c] = Append(@, row)]

Receive(c, kind) ==
    /\ Append1(c, [dir |-> "inbound", kind |-> kind, at |-> now])
    /\ UNCHANGED <<now, outbox, clicks, control, canary, records, sends,
                   locals>>

ManualSend(c, body) ==
    /\ Append1(c, [dir |-> "outbound", body |-> body, at |-> now])
    /\ UNCHANGED <<now, outbox, clicks, control, canary, records, sends,
                   locals>>

\* WeChat writes the row of a pressed reply some time later, if ever.
Deliver(e) ==
    /\ e \in outbox
    /\ Append1(e[1], [dir |-> "outbound", body |-> draft[e].body,
                      at |-> now])
    /\ outbox' = outbox \ {e}
    /\ UNCHANGED <<now, clicks, control, canary, records, sends, locals>>

Tick ==
    /\ now < MaxTime
    /\ now' = now + 1
    /\ UNCHANGED <<wx, outbox, clicks, control, canary, records, sends,
                   locals>>

-----------------------------------------------------------------------------
SendStep(e) ==
    \/ DeclineSend(e) \/ RecheckLatest(e)
    \/ PreflightRefused(e) \/ Claim(e)
    \/ ReserveRefused(e) \/ Reserve(e) \/ BeginSending(e)
    \/ ReadbackBaseline(e) \/ ConsumeCanary(e) \/ PressReturn(e)
    \/ StepFails(e) \/ RecordFailed(e)
    \/ RecordSent(e) \/ ReadbackConfirm(e)
    \/ RecordConfirmed(e) \/ RecordResult(e)

LoopStep ==
    \/ BootstrapComplete \/ LearningRefresh \/ DueDone \/ EndRun
    \/ \E e \in Event :
          \/ BootstrapObserve(e) \/ BlockDraft(e) \/ PickDueDraft(e)
          \/ FilterEvent(e) \/ RecordDraft(e) \/ DraftConflict(e)
          \/ RecordProcessed(e)
          \/ \E kind \in {"model_failed", "no_reply"} : ModelDeclines(e, kind)
          \/ \E status \in DraftStatuses, body \in Body \cup {OtherText},
                delay \in Delays : DecideDraft(e, status, body, delay)

RunStep == StartRun \/ LoopStep \/ \E e \in Event : SendStep(e)

UserStep ==
    \/ \E e \in Event :
          ArmCanaryUndone(e) \/ \E ttl \in 1..CanaryTTL : ArmCanary(e, ttl)
    \/ \E c \in Contact, v \in Activations : ActivateIdentity(c, v)
    \/ \E cfg \in Configs : Reconfigure(cfg)
    \/ \E cmd \in Commands : ControlCommand(cmd)

WorldStep ==
    \/ \E c \in Contact, kind \in Kinds : Receive(c, kind)
    \/ \E c \in Contact, body \in Body \cup {OtherText} : ManualSend(c, body)
    \/ \E e \in Event : Deliver(e)
    \/ Tick

Next == RunStep \/ Crash \/ UserStep \/ WorldStep

Spec == Init /\ [][Next]_vars

\* A started run keeps taking its own steps until it returns or dies.
FairSpec == Spec /\ WF_vars(LoopStep \/ \E e \in Event : SendStep(e))

-----------------------------------------------------------------------------
(* Properties.                                                             *)

\* Across crashes, restarts and re-armed canaries, Return is pressed at most
\* once for the draft of one message (_send_candidate claims before it clicks).
AtMostOneClick == \A e \in Event : clicks[e] <= 1

\* A pressed reply was claimed by its draft, was an autopilot candidate, and
\* left no live canary behind that a later run could spend again.
ClickSpendsAuthority ==
    \A e \in Event : clicks[e] > 0 =>
        /\ marker[e] = "claimed"
        /\ canary[e] = Never
        /\ draft[e].status = "autopilot_candidate"

\* The ledger never says "sent" or "readback_confirmed" of a reply for which
\* Return was not pressed, and only a confirmed attempt is counted as a send.
ConfirmedWasClicked ==
    \A e \in Event :
        /\ attempt[e] \in {"sent", "readback_confirmed"} => clicks[e] = 1
        /\ result[e] # Never => attempt[e] = "readback_confirmed"

\* What became of a press can be told from what outlives the process: it was
\* the only one for its message, it used up claim and canary, and nothing is
\* called sent without it (_send_candidate).
ClicksAreAccounted ==
    AtMostOneClick /\ ClickSpendsAuthority /\ ConfirmedWasClicked

\* A message found by the first run is never drafted or answered, and nothing
\* is until all of them are marked, however often that run died on the way.
HistoryNeverAnswered ==
    \A e \in Event :
        process[e] = "bootstrap_observed" \/ ~ bootstrapped =>
            draft[e] = NoDraft /\ clicks[e] = 0

\* Two attempts to send one contact the same text are more than the dedupe
\* window apart (reserve_send), whatever became of the first one.
EqualSendsAreSpaced ==
    \A e, f \in Event :
        (/\ e # f /\ e[1] = f[1]
         /\ attempt[e] # "none" /\ attempt[f] # "none"
         /\ draft[e].body = draft[f].body)
        => \/ reservedAt[e] > reservedAt[f] + DedupeWindow
           \/ reservedAt[f] > reservedAt[e] + DedupeWindow

\* Runtime records are immutable: a processing record, a draft and a claim or
\* block marker, once written, never change, crash or not.
KeepsRecords ==
    \A e \in Event :
        /\ process[e] # "none" => process'[e] = process[e]
        /\ draft[e] # NoDraft => draft'[e] = draft[e]
        /\ marker[e] # "none" => marker'[e] = marker[e]

RecordsAreFinal == [][KeepsRecords]_vars

\* A send attempt only moves forward, one stage at a time: stricter than the
\* ledger's own table, which would let a reserved attempt be called sent.
SendTransitions ==
    {<<"none", "reserved">>, <<"reserved", "sending">>,
     <<"sending", "sent">>, <<"sending", "failed">>,
     <<"sent", "readback_confirmed">>, <<"sent", "failed">>}

MovesAttempt ==
    \A e \in Event :
        attempt'[e] # attempt[e]
            => <<attempt[e], attempt'[e]>> \in SendTransitions

AttemptMovesForward == [][MovesAttempt]_vars

\* The one claim of a draft is spent only while its message is the newest row
\* of the contact that the ledger knows.
ClaimsLatest ==
    \A e \in Event :
        marker'[e] = "claimed" /\ marker[e] = "none" => IsLatest(e, seen)

ClaimedWhileLatest == [][ClaimsLatest]_vars

\* Return is pressed only under a configuration that allows real sends to the
\* contact now, after the draft's delay, and never before bootstrap is done.
ClicksWithAuthority ==
    \A e \in Event : clicks'[e] # clicks[e] =>
        /\ SendEnabled(e[1])
        /\ draft[e].notBefore <= now
        /\ identity[e[1]] # NoVersion
        /\ bootstrapped

ClickWithinAuthority == [][ClicksWithAuthority]_vars

\* No draft is claimed once the results of the last window use up the contact's
\* hourly limit, however many drafts wait and whichever loop hands them over.
ClaimsBelowLimit ==
    \A e \in Event :
        marker'[e] = "claimed" /\ marker[e] = "none"
            => Cardinality(RecentResults(e[1])) < HourlyLimit

ClaimedBelowLimit == [][ClaimsBelowLimit]_vars

\* docs/PERSONAL_CHAT_AGENT.md: "Immediately before UI mutation it polls again
\* and requires the source event to remain the latest event".
ClickOnLatest ==
    [][\A e \in Event : clicks'[e] # clicks[e] => IsLatest(e, seen)]_vars

\* A started run comes to its end and releases the state lock: neither the due
\* drafts nor the event loop can keep it going for ever.
RunEnds == pc # "idle" ~> pc = "idle"

-----------------------------------------------------------------------------
(* The inductive invariant: what each step of a run may rely on.           *)

\* Facts about one message that hold whatever the run is doing.
DurableInv ==
    \A e \in Event :
        /\ clicks[e] \in {0, 1}
        /\ clicks[e] = 1 => marker[e] = "claimed" /\ canary[e] = Never
        /\ e \in outbox => clicks[e] = 1
        /\ marker[e] # "none" => draft[e].status = "autopilot_candidate"
        /\ attempt[e] # "none" => marker[e] = "claimed"
        /\ attempt[e] \in {"sent", "readback_confirmed"} => clicks[e] = 1
        /\ result[e] # Never => attempt[e] = "readback_confirmed"
        /\ process[e] = "bootstrap_observed" => draft[e] = NoDraft
        /\ ~ bootstrapped => draft[e] = NoDraft
        /\ e \in todo =>
              draft[e].status = "autopilot_candidate" /\ marker[e] = "none"

\* Where the run is, and what it holds.
LoopInv ==
    /\ pc = "bootstrap" => ~ bootstrapped
    /\ pc \notin {"idle", "bootstrap"} => bootstrapped
    /\ pc \in {"events"} \cup DraftSteps => todo = {}
    /\ pc \in SendSteps /\ ret = "events" => todo = {}
    /\ pc \in SendSteps \cup DraftSteps => cur \in Event \ todo
    /\ pc \in DraftSteps => process[cur] = "none" /\ pend # NoDraft
    /\ pc = "processed" => draft[cur] = pend
    /\ pc \in SendSteps => draft[cur].status = "autopilot_candidate"

\* How far the send of the event in hand has come, step by step.
StatusAt(step) ==
    CASE step \in {"cand", "claim", "reserve"} -> {"none"}
      [] step = "sending" -> {"reserved"}
      [] step \in {"baseline", "consume", "ui", "mark_sent"} -> {"sending"}
      [] step \in {"confirm", "record_confirmed"} -> {"sent"}
      [] step = "record_result" -> {"readback_confirmed"}
      [] OTHER -> {"sending", "sent"}

SendInv ==
    /\ pc = "claim" => marker[cur] = "none"
    /\ pc \in SendSteps \ {"cand", "claim"} => marker[cur] = "claimed"
    /\ pc \in SendSteps \ {"cand"} => attempt[cur] \in StatusAt(pc)
    /\ pc \in {"reserve", "sending", "baseline", "consume", "ui"}
          => clicks[cur] = 0
    /\ pc = "ui" => canary[cur] = Never
    /\ pc \in {"mark_sent", "confirm", "record_confirmed", "record_result"}
          => clicks[cur] = 1

ProgressInv == DurableInv /\ LoopInv /\ SendInv

\* What the guards passed on the way still promise: nothing may undo them
\* while the run goes on.
AuthorityInv ==
    /\ \A e \in todo : draft[e].notBefore <= now
    /\ pc \in SendSteps => draft[cur].notBefore <= now
    /\ pc = "claim" => IsLatest(cur, seen)
    /\ pc \in SendSteps \ {"cand"}
          => SendEnabled(cur[1]) /\ identity[cur[1]] # NoVersion

PipelineInv == ProgressInv /\ AuthorityInv

\* What the frequency check promised still holds when the draft is claimed.
LimitInv ==
    /\ pc \in {"cand", "claim"} => FrequencyAllowed(cur[1])
    /\ pc \in DraftSteps /\ pend.status = "autopilot_candidate"
          => FrequencyAllowed(cur[1])

-----------------------------------------------------------------------------
(* The pipeline implements the one-press promise of SendOnce.              *)

tokenBar ==
    [e \in Event |-> IF canary[e] # Never THEN "armed"
                     ELSE IF marker[e] = "claimed" THEN "spent" ELSE "absent"]
phaseBar == [e \in Event |-> IF marker[e] = "none" THEN "open" ELSE marker[e]]

Promise == INSTANCE SendOnce
    WITH Draft <- Event, phase <- phaseBar, token <- tokenBar,
         presses <- clicks

\* Every behaviour of the pipeline, with its crashes and restarts, is one that
\* SendOnce allows: one token, one claim and one press per draft.
KeepsPromise == Promise!Spec
=============================================================================
