# A formal model of the personal chat agent

The repository holds a local WeChat assistant for macOS. Its current part,
`src/personal_agent/`, reads the decrypted WeChat message database, decides with a model
whether and how to answer a message, and, when the user has opened every gate, types an
acknowledgement and presses Return. Around it are the first generation of file-based
commands, which share the package and some of its files, and a portrait analyser that
shares nothing with the agent.

The verification is about the agent: what it may send, how often, on whose authority,
what it says and learns afterwards, and what its stores hold, when the process may die
after any step and messages arrive at any moment.

Paths below are relative to `src/personal_agent/` unless they start otherwise.

## 1. Inventory

| Component | State it keeps | Operations | Properties that make it correct |
|---|---|---|---|
| Send pipeline (`runtime.py`, `sender.py`) | in memory only: snapshot, due list, event in hand, readback baseline | `run_once`, `_due_autopilot_sends`, `_send_candidate`, `CanaryGuard`, `MacOSAccessibilitySender.execute` | one press per draft across crashes and restarts; no press without claim, canary, configuration and due time; no "sent" without a press; history is never answered; a run ends |
| Encrypted ledger (`ledger.py`) | events, cursors, immutable runtime records, send attempts, active pointers, audit chain, one SQLite transaction at a time | `ingest_events`, `append_runtime_record`, `reserve_send`, `transition_send`, `set_active`, `verify_audit_chain` | records never change; equal texts are spaced; a pointer names an existing record; the chain verifies after any prefix of commits |
| WeChat reader (`wechat_reader.py`) | per-shard cursor, bootstrap cutoff (both in the ledger) | `poll`, `readback_baseline`, `readback_confirm` | nothing after the cutoff is lost, nothing before it counts as new; a poll may fail table by table; readback confirms only a new exact row |
| Approvals, canary, corrections (`operations.py`) | approval and draft records, Keychain canaries | `approve_draft`, `typing_validate_draft`, `arm_send_canary`, `save_correction` | one approval, one use; approval, draft text and identity version agree when they are used |
| Cost ledger (`runtime_state.py`, `costs.py`) | runtime records in the encrypted ledger, under the state lock of the caller | `reserve`, `commit`, `refund`, `snapshot` | the day's reservations plus charges never pass the limit, crashes and midnight included |
| Distillation (`distillation.py`) | immutable versions with parents, active pointer | `create_version`, `activate`, `rollback` | what a version protects is kept along its line; what is left unactivated by a death is neither lost nor activated over the user's choice |
| Learning (`learning.py`, `corrections.py`, `emotion_cycle.py`) | new versions derived from corrections | `refresh_distillation` | evidence is counted once, or once more per death; a refresh changes what the active version protects only by a version the user confirmed; what the user rolled back stays back unless evidence of theirs calls for it; corrections are learnt in the end |
| Decision (`decision.py`) | none | `detect_sensitive_risks`, `evaluate_gate`, `render_reply` | what is sent unseen is an acknowledgement that states and promises nothing; it is allowed at the moment it is sent, and not early |
| Configuration, service (`config.py`, `service.py`) | config file, pause and kill-switch files, LaunchAgent file, launchd job | `load_config`, `validate_safety`, `install_service`, `uninstall_service`, `pause`, `resume`, `set_kill_switch` | real sending needs autopilot; the kill switch also pauses; a loaded job has its plist, as far as `launchctl print` tells the truth |
| Storage, Keychain (`storage.py`, `crypto_store.py`) | state lock, atomic files, keys | `state_lock`, `atomic_write_json`, Keychain calls | mutual exclusion; a file is the old or the new one |
| Models (`models.py`) | none | provider calls | a malformed answer is no reply |
| Legacy commands (`builder.py`, `ingest.py`, `policy.py`, `cli.py`) | a directory of generated files, draft store, audit file, identity secret | `build`, `draft`, `review` | the manifest is not ahead of its files; no draft and no review is lost; overlapping exports are imported once |
| Replay, report, database tools, portrait analyser | files a command writes | one-shot | not concurrent; not modelled |

How they interact. launchd (or the user) starts a short-lived `run-once` process. It
takes the state lock, polls the reader into the ledger, refreshes what was learned,
sends due drafts, and then handles each new inbound message: local rules, model, gate,
draft record, processing record and, for a due autopilot candidate, `_send_candidate`.
Commands the user gives (`arm-send-canary`, `approve`, `distill activate`) take the same
lock, so they run between runs; the pause and kill-switch commands take no lock. A
person types in WeChat at any moment and the database changes under the running process.
All that outlives a process is in the ledger, the Keychain and the control files.

What is hard: a crash between two durable writes of one send; a click whose outcome is
unknown (time-out, missing row); state that was checked before the claim and is used
after it (latest message, identity version, canary); one message decided twice; polls
that see a part of the database; the first run dying half way through the history; equal
texts sent too close together; versions that were made and not activated; several files
or tables that must agree although each is written by itself; a row that reads
differently the second time. The list with one line of code for each is `hazards` in
`PROJECT.json`.

## 2. Modules

| Module | Models |
|---|---|
| `SendOnce` | abstract specification: what is promised about one draft |
| `AgentRuntime` | the send pipeline, the records and the Keychain entries it uses, user commands, WeChat |
| `MessageReader` | the reader's polls, its cursors in the ledger, and the changing database |
| `EventIdentity` | the identity the reader gives a row, across shards, overlaps and edits |
| `CostLedger` | the daily model budget: its journal, a model call, the clock passing midnight |
| `Approvals` | the commands that approve a draft and type it for validation |
| `Decisions` | one message from filter to gate, rendering, and the moment a due draft is handed over |
| `History` | what is computed from a chat: import, queue, reply delays, baseline days |
| `Distillation` | versions of what is known of a contact: parents, protected fields, activation |
| `Learning` | corrections, the refresh that learns from them, and the user's commands about versions |
| `AuditedStore` | abstract specification: a store that changes one object at a time, each change with its audit entry |
| `Ledger` | the encrypted database, opened and written statement by statement |
| `Bundle` | the directory of the legacy commands, file by file |
| `ServiceControl` | the LaunchAgent, launchd and the control markers |
| `MC*` | instances for TLC; `MCStorage` composes the three stores, `MCDecisions` the decision with what it reads |
| `*Proofs` | theorems, for all values of the constants; `MessageReaderProofs` is also about `EventIdentity`, `BundleProofs` about `ServiceControl`, `LearningProofs` about `Distillation` |

The modules meet in the ledger and are composed only where one relies on what another
does: `Learning` extends `Distillation`, and `AgentRuntime` holds the reader as one step
that brings in any later part of the rows, the budget as never exhausted (a refused
reservation is one more way for `ModelDeclines`), the decision as any outcome
`Decisions` can reach, and draft and identity version as `Approvals` reads them.
`MCStorage` and `MCDecisions` put modules side by side that share no variable; a
variable `part` says which of them a behaviour works with, so no interleaving is lost.

### AgentRuntime and the code

One action is one durable effect or one external call, so that a crash may fall between
any two of them; `Crash` (and every exception that leaves `run_once`) clears the run's
variables and nothing else.

* *State.* `wx` is the WeChat database, one ordered sequence of rows per contact (one
  shard, so that the position order `(create_time, local_id)` is the order of the
  sequence). `seen` is what the ledger has ingested of it. `process`, `draft` and
  `marker` are the immutable runtime records (`processing`, `draft`, `draft-send`);
  their identifiers are derived from the event, which is why each is a function of
  `Event`. `attempt`, `reservedAt` and `result` are the send attempt and the
  `send-result` record. `canary` is the Keychain entry of the attempt. `identity` is the
  active relationship version with a verified pair of labels. `pc`, `cur`, `ret`,
  `snap`, `todo`, `base`, `clickStart`, `pend` are what the process holds in memory.
* *Run.* `StartRun` .. `EndRun` are `run_once`: the poll, `BootstrapObserve` and
  `BootstrapComplete` (first run), `LearningRefresh`, the due drafts (`BlockDraft`,
  `PickDueDraft`, `DueDone`), and per event `FilterEvent`, `ModelDeclines` or
  `DecideDraft`, `RecordDraft` or `DraftConflict`, `RecordProcessed`.
* *Send.* `_send_candidate` in its order: `DeclineSend`, `RecheckLatest`,
  `PreflightRefused`, `Claim`, `ReserveRefused`, `Reserve`, `BeginSending`,
  `ReadbackBaseline`, `ConsumeCanary`, `PressReturn`, `StepFails`, `RecordFailed`,
  `RecordSent`, `ReadbackConfirm`, `RecordConfirmed`, `RecordResult`.
* *Others.* `ArmCanary` and `ArmCanaryUndone` (`arm-send-canary`, with its clean-up when
  the record cannot be written), `ActivateIdentity`, `Reconfigure`, `ControlCommand`;
  and the world: `Receive`, `ManualSend`, `Deliver` (the row of a pressed reply appears
  late, or never), `Tick`.

What is abstracted: the text of a message is a kind, the text of a reply is one of a few
canned bodies or "other", the model's answer is any outcome the gate can give, and the
learning refresh is a change of version that keeps verified contacts verified. Every
poll may miss rows of a contact, since a table whose query fails only adds a warning.
The limit of events handled per run, the window of 10,000 events that are read back and
the cost gate are taken as not exceeded.

### SendOnce

Per draft: a token that is absent, armed or spent; a phase that is open, claimed or
blocked; a count of presses. A draft is claimed at most once and under a token, the
token is spent at most once, and there is at most one press, after the token is spent.
`AgentRuntime` refines it with `phaseBar` and `tokenBar`; runs, restarts, clock and
database are stutters.

### MessageReader and the code

`AgentRuntime` lets a poll bring in any later part of a contact's rows. `MessageReader`
is the poll itself.

* *State.* `rows[t]` is a message table of WeChat, a set of rows with `create_time`,
  `local_id` and whether the reader can turn the row into an event. `cursor[t]` and
  `stored[t]` are the table's cursor and the events the ledger holds; `cutoff` is the
  completion time of the first run. `since`, `todo`, `table`, `page`, `batch` are the
  locals of one `poll`.
* *Actions.* `StartRun` computes the start for tables without a cursor (the look-back in
  a first run, the cutoff afterwards); `OpenTable` takes the cursor minus the overlap,
  or writes the first cursor; `QueryPage`, `EmptyPage`, `QueryFails` are one query each;
  `CommitPage` is `ingest_events`, rows and cursor in one transaction; `SkipTable` a
  table whose metadata cannot be read; `EndRun` the completion of the run. `Crash` may
  fall between any two. `Write` puts a row into the database with a `create_time` that
  may lie back by `MaxLag`; `Appear` makes a table (a new shard) visible.
* *History.* `from` and `known` (start and rows of the visit in hand), `origin` (where a
  table was first opened) and `late` (rows that appeared behind what was already read)
  are read by properties only.

Several polls of one run are several runs of this module. Rows do not change here once
written; `EventIdentity` has those that do.

### EventIdentity and the code

One contact with a table in several shards. The ledger's events have an identity that is
a digest of contact and `local_id`, and of the whole reading when that one is taken.

* *State.* `shelf[s]` are the rows of a shard, `named` the shards whose `Name2Id` holds
  the user, `decoder` whether this process can decompress; what is read of a row is its
  `Canonical` form. `events` and `passed` are the ledger; `visit` is what a poll holds
  of the shard in hand, with the identities it gave (`page_identities`).
* *Actions.* `WriteRow`, `EditRow`, `NameUser` are WeChat. `BeginPoll`, `OpenShard`,
  `QueryRows`, `ReadRow`, `StorePage`, `EndPoll` are `poll`; `IdentityOf` is
  `_event_id`, which looks at the page and at the ledger. A row of
  unknown direction is named and then left out of what is stored.
* *Consequence.* A row that is edited, or read first without a decompressor and later
  with one, is two readings and two events; the properties are about readings.

### CostLedger and the code

* *State.* `status`, `day`, `estimated`, `actual` are the journal: per reservation
  identifier its last record, its `budget_date`, its estimate and what was committed.
  `today` is the date of the clock. `call` holds the locals of the one model call under
  way; the state lock admits no second. `billed` is what the provider will charge, which
  the program never sees.
* *Actions.* `BeginCall` and `CheckBudget` are the two halves of `reserve`, since it
  reads the clock once for the date of the reservation and `snapshot` reads it again;
  `Reserve` writes the record. `Send` is the request, `Commit` a valid answer, `Refund`
  every other end the program sees, and `Crash` may fall between any two, as may
  `Midnight`.
* *Abstracted.* Money is a natural number. A call is assumed to cost at most its
  estimate, which is computed from an upper bound of the prompt and the requested
  `max_tokens`. Output the provider does not report is charged at the byte length of the
  answer (`models.py:435`), which is less than the bill if hidden tokens are billed too;
  the model takes `Commit` to cover the bill. Limits do not change and the clock is not
  set back. `snapshot` reads at most 10,000 records of a day, which the largest call
  limit the configuration admits (1,000) does not reach. `DailyCostLedger` (`costs.py`),
  the variant in memory, is not used by the agent and not modelled.

`TodayWithinLimit`, a part of `BudgetHolds`, also says that the gate's own cost test,
`calls <= daily_call_limit` (`runtime.py:850` and `:1071`), is true whenever it is
reached: what limits spending is `reserve`, not the gate.

### Approvals and the code

* *State.* `approvals` and `typings` are the runtime records of the two action kinds;
  `active` and `bound` are the contact's active identity version and the one recorded in
  a draft. `typed` counts, per approval, the commands that put the reply on the screen.
* *Actions.* `Approve` is `approve_draft`. `typing_validate_draft` is `StartTyping`
  (mode, latest approval, not consumed, not expired, identity in force), `Type` with
  `Drift` to the second backend or `TypingFails`, and `RecordTyping`. `Activate` stands
  for every command that changes the active version; like the others it holds the state
  lock, so it waits for `pc = "idle"`. The configuration file can change at any time
  (`Reconfigure`).
* *Lists.* An action list comes in the order of second and identifier, the first 100
  (`Listed`, `Sooner`). Identifiers are random, so the model lets a record take any free
  one. With more than 100 approvals of a draft the list is cut: approvals of a later
  second are never seen, one of the last second may be displaced by another, and a use
  that falls off the list of uses no longer counts, so that it may be recorded twice.
  `RecordedOnce` and the first part of `TypingIsAuthorised` are therefore stated while
  no draft has more approvals than a list returns (`WithinList`); the identity and
  `TypingGoesForward` hold beyond it.
* *Clock.* It is not set back.

### Decisions and the code

* *State.* One message: its `kind`, where it is (`stage`), the decision, the draft
  record, and what the world looks like now (`config`, `reached` limits, `now`). A text
  is the set of marks the gate can tell apart: a canned acknowledgement has none, others
  are of the contact's own wording, sensitive, or a commitment.
* *Actions.* `Filter` and `DecideByRule` are the local rules; `AskModel` any response a
  provider can give, which fails unless it is exactly one decision; `Conclude` ends a
  message that needs no reply; `MakeDraft` is the gate, rendering with relationship and
  emotion, style, and the gate over the styled text. `Due` and `StillFit` are the
  revalidation of a later run, which ends in `Block`, for good, or in `Hand`, from where
  `AgentRuntime` takes over. `Tick`, and once there is a draft `Reconfigure` and
  `LimitsChange`, may come between any two runs. A draft that nobody reviews expires in
  the code; here it stays.

### History and the code

Nothing here is stateful but the chat and the exports made of it: `Imported` is
`ingest.py` over any list of overlapping exports (`Occurrence` counts equal messages
within one file), `Pending` the triage queue of `policy.py`, `Observation` the one pass
of `learning.py` that tells sessions, reply delays and waiting messages apart, and
`Compared` the days a day is compared with in `emotion_cycle.py`, kept in a queue that
drops days from its front (`Walk`). A day is valid by its messages, their characters and
a confidence; a text has a size and is telling or not, and the confidence is a set of
triples, since only its threshold matters here (`Confident`). Events with equal time and
place are ordered by identifier in the code, of which the model keeps the occurrence.
Each is checked against a definition that says directly what the result should be, for
every chat within the bounds.

### Distillation, Learning and the code

* *State.* One scope, whose domain is any of the four; `versions` in the order they were
  made, each with its parent, type, protected fields, payload and evidence; `active`. A
  payload is the user's boundaries, how often each correction is counted, and the
  observation of the messages. `recorded`, `candidates` and `learnt` are the corrections
  on their way; `everActive` and `written` (versions the user put) are read by
  properties only.
* *User.* `RecordCorrection` and `ProposeCandidate` are the two transactions of
  `save_correction`; `Put` and `ActivatePut` those of `distill-put`; `UserActivates`,
  `UserRollsBack`, `UserPinsEmotion`. `Put` takes any type, any payload of `Written` and
  protected fields of `Requested` (bounds of the instance, any sets in the proofs),
  and as evidence any candidates, also pending ones. Evidence that is no candidate is
  left out: nothing reads it. Such a version may be left inactive, and a refresh that
  computes its payload or looks for its evidence finds and activates it. That is why
  four properties name the versions of the user: a refresh may put in force one the user
  confirmed although it changes a protected field (`RefreshKeepsProtected`); a
  correction may be set aside for one that names it and counts nothing
  (`LearntIsCountedOnce`); one that was rolled back may come back because its evidence
  is due (`RollbackHolds`); and corrections may end as evidence of one
  (`CorrectionsAreLearned`).
* *Refresh.* `ScheduledRefresh` or `ForcedRefresh`, then `EmotionElsewhere`,
  `EmotionUnchanged` or `EmotionChanged`, `Groups`, `Mark` (one correction at a time),
  `RefreshProfile`, with `ActivateMade` as the second transaction after each version
  made, and `CompleteRefresh`. `Crash` may fall between any two.
* *Abstracted.* What the other scopes do to a refresh is the variable `blocked`: a
  protected field of an emotion version ends every refresh. Lists are assumed to return
  everything (`LearningAssumption`); the code returns the oldest 10,000. The
  configuration does not change within a behaviour. The fields a profile computes from
  drafts (`learning.py:325`) are part of the observation. A payload of the user's that
  holds text where `correction_learning` has numbers makes a refresh raise; such
  payloads are not considered.

### Ledger, AuditedStore and the code

* *State.* `db` is the committed database (schema version, keys its rows were written
  under, events, cursor, records, pointers, sends, chain, head) and `work` what the open
  transaction has made of it; `conn` the key each process has it open with.
* *Actions.* `Open` with its checks of schema and key; `IngestEvents`, `InsertRow`,
  `MoveCursor`; `AppendRecord`, `SetActive`, `ReserveSend`, `TransitionSend`; after
  each, `AppendAudit` (the entry and the stored head) and `Commit`. `Rollback` and
  `Close` may come at any statement, for an exception or a death.
* *Pointers.* `AppendRecord` with `activate` writes a record and its pointer under one
  entry. `AppendAgain` is the same call for a record that is there: the pointer moves
  and the call returns before the entry (`ledger.py:1308`), so that the chain does not
  tell it. No command of the program passes `activate`; a test does, for new records
  (`tests/test_ledger_integrity.py:149`). `quiet` names the scopes whose pointer was
  last moved without an entry, and `LedgerAgrees` says of these only that the pointer
  leads to a record of its scope.
* *Abstraction.* `AuditedStore` has no transactions: one step adds a record, in force or
  not, puts one in force, begins or advances a send or reads on, and appends the entry
  that says so; only to put a record in force again needs no entry. The refinement maps
  the variables to `db`; an ingest of new events without a cursor, an upgrade and
  everything inside a transaction are stutters. Hashes do not collide, and a row can be
  read under its key only. A ledger of an older release that holds sends and nothing
  else, which the code would upgrade, is not an initial state.

### Bundle and the code

A generated file is the number of the build it comes from. `BuildSteps` and `DraftSteps`
are the order of `build` and of `draft` and `review`; each file is written to a
temporary name (`WriteTemp`) and renamed (`Replace`), the audit line appended
(`WriteAudit`). The checks of the directory precede the lock (`Prepare`, `StateDir`,
`Lock`). `Raise`, `Refused` and `CommandDies` may fall at any step; a dead command
leaves its temporary file, which the next build refuses to work beside until the user
removes it (`CleanUp`). `styled` says whether the manifest names the style context,
which a build without a style removes three steps before it replaces the manifest: if
that build ends in between, the old manifest names a file that is gone
(`builder.py:176`). The dashboard is written after the manifest that names it.
`ManifestDescribes` states both cases instead of excluding the two files. A line of the
audit file that a death cuts short is taken as not written.

### ServiceControl and the code

`StartInstall`, `WritePlist`, `Bootout`, `Bootstrap`, `Kickstart` are `install_service`;
`StartUninstall`, `Stop`, `ConfirmGone`, `Unlink` are `uninstall_service`; `Pause`,
`ResumeCheck` and `ResumeUnlink`, `Kill` and `KillPause`, `Clear` the markers; `Login`
and `Logout` are launchd. `ConfirmGone` takes every error of `launchctl print` for the
absence of the job, as the code does, also a time-out or a failed start
(`service.py:89`, `:174`); `blind` remembers that this happened while the job was
loaded, and `LoadedHasPlist` holds up to it. None takes a lock. The marker commands
interleave freely with everything; an install and an uninstall are assumed to be run one
at a time (`serving`), because nothing in the code keeps two apart. `raced` remembers
that a resume or a death came between the two steps of the kill switch.

## 3. Runs

| Run | Checks | Shows |
|---|---|---|
| `pipeline` | `ClicksAreAccounted`, `HistoryNeverAnswered`, `EqualSendsAreSpaced`, `ClaimedWhileLatest`, `ClickWithinAuthority`, `KeepsPromise` | with crashes after every step, re-armed canaries, late rows, allowlist and identity changes: one press per draft, authority used up, no false "sent", refinement of `SendOnce` |
| `run_loop` | `RunEnds` | every mode, kind of message and control command: a run comes to its end |
| `hourly_limit` | `ClaimedBelowLimit` | three messages, hourly limit 1: no draft is claimed once a counted result is inside the hour, from either loop |
| `stale_latest` | `ClickOnLatest`, violated | the latest-event check is older than the click |
| `reader` | `NoGap`, `ReplayIsBounded`, `VisitMissesNothing`, `RowsArrive` | late and unreadable rows, equal seconds, failed queries, crashes: the cursor passes nothing that is not stored; the overlap reaches back by its length, once and not again and again; a visit without a fault is complete; a readable row within the overlap of the cursor reaches the ledger in the end |
| `late_shard` | `NoHistoryReplayed`, violated | rows older than the cutoff come in through the overlap |
| `budget` | `BudgetHolds`, `NothingIsForgotten` | calls that fail, die or are caught by midnight: the day in progress is within its limits, a past day over them by one call at most, the journal covers the bill, a reservation is never given back |
| `approvals` | `RecordedOnce`, `TypingIsAuthorised`, `TypingGoesForward` | failures and deaths between check, typing and record, several approvals of one draft in one second or many, more than a list returns: one recorded use each while the list is whole, typed under the draft's identity, and never on an approval of an earlier second than one already used |
| `typed_twice` | `UsedOnce`, violated | a failure after typing leaves the approval usable |
| `learning` | `ProtectedIsKept`, `LearntIsCountedOnce`, `RefreshKeepsProtected`, `LearntIsInForce`, `RollbackHolds`, `CorrectionsAreLearned` | every domain, refreshes that die between any two transactions and a command of the user at any point, also one that puts a version a refresh will find: protections last along a line of versions, a refresh counts a correction once (or once more per death), a rollback holds but for the cases named, corrections are learnt in the end |
| `storage` | `LedgerAgrees`, `OpenedIsReadable`, `CommitsOneChange`; `ManifestDescribes`, `AuditIsTrue`, `NothingIsLost`; `LoadedHasPlist`, `KillIsPaused`, `InstalledIsCurrent` | two processes at each store, raising or dying anywhere: what is written by several statements, files or calls agrees, with the exceptions each property states; the ledger refines `AuditedStore` |
| `decisions` | `HandedIsSafe`, `HandingIsDue`, `EmotionNeverGrants`; `ImportIsTheChat`, `QueueIsUnanswered`, `ObservationsAreRight`; `ReadingsAreNamed`, `VisitStoresRows` | what is sent unseen is harmless and allowed at that moment; what is read from a chat is what the chat says; every reading has one identity and no page is refused |

Several of these are conjunctions of properties with a definition each:
`ClicksAreAccounted` is one press, authority used up and no false "sent"; `BudgetHolds`
limits and bill; `LedgerAgrees` the chain, what it explains, and the pointers. The
definitions beside them say which part is which.

Bounds. `pipeline`: one contact, two messages, two instants, one canned body, one
identity version, canaries of one second, dedupe window 0, hourly limit 1. Every durable
table is per message, and messages of different contacts meet only in the loops, where
one is handled at a time; two messages of one contact are what supersession, the latest
check, duplicates, the hourly limit and a manual row that looks like the reply need. Two
instants suffice to arm and to lapse, to be due and not yet due, and to be inside and
outside the dedupe window (equal instants are inside, since the bound is inclusive).
`run_loop` has one message, and all configurations and commands instead. `stale_latest`
always runs in the sending configuration. `hourly_limit` has a third message, so that a
further candidate exists when one reply is confirmed, and runs in the sending
configuration as well; its user activates an identity version and never withdraws one,
which no guard of the limit reads.

`reader`: one table, since a visit touches one table and shares nothing but `since` with
the others; three rows and pages of two, so that a page is full, short or ends inside a
second; three instants with a look-back and an overlap of one, so that rows lie before,
in and after the overlap; one fault, which is a crash or a failed query or a table
skipped. `late_shard` has four instants.

`budget`: two days, so that midnight comes once; four calls, so that the call limit of
two can be filled, refused and passed by one and the second day opened; estimates of 1
and 2 under a cost limit of 3, so that either limit may be the one that refuses and a
call can fit by cost and not by number or the reverse. `approvals`: one draft, since no
guard of the commands relates two; two versions, so that the active one can be neither
absent nor the draft's; lists of two under four approvals and four uses, so that a list
is cut on either side of a second; three instants and a lifetime of one second, so that
an approval can lapse; two uses of one approval (`MaxUses`), which is one more than it
should have. `typed_twice` has two approvals and the code's list of 100.

`learning`: two corrections and a minimum of one or two, so that they are learnt singly,
together or too late for one another; two observations, so that one is superseded; one
command of the user and one death, each at any point. What the user puts is what a
refresh would compute of one observation, or that with a boundary and both corrections
counted; it protects nothing, or all that a refresh changes; any candidates are its
evidence.

`storage`: two processes, keys, events, records and scopes, so that a batch can collide
half way, a pointer can name another scope's record and a second key can be tried; three
entries of the chain, which a record, its activation and a send or cursor fill; a fourth
hash for an entry rolled back. Two commands, two drafts, two builds and one fault for
the directory: one of two may be interrupted and the other go on. Two callers, two
plists and one death for the service.

`decisions`: answers that differ from one that may be sent in at most two of seven
fields, confidences on both sides of both thresholds; delays below and above one
another. Chats of four messages in two texts, so that messages have equal ones,
pauses of zero (the same second), below and above the silence that ends a session, two
exports at any two moments. The texts are of size 2 and 1 with a minimum of three and
two messages a day, and only one is telling, so that each condition can be the one that
makes a day invalid. Two shards of two rows and one with one `local_id`, one edit
or late sender, pages of two, an overlap of one.

The proofs below hold for all these values, where there is one.

Fairness. In `AgentRuntime`, `FairSpec` is `Spec` with weak fairness of the running
process's own steps, taken together: a started process runs on until it returns or dies.
Nothing is assumed of `StartRun`, `Crash`, the user, WeChat or the clock. `RunEnds` then
says that the loops make progress: it would not follow if a due draft that stays pending
were picked again. In `MessageReader` it also assumes `WF(StartRun)`: launchd starts a
run every poll interval (`service.py:105`); faults are bounded by `MaxFaults`, without
which no reader could promise anything. `Learning` assumes the same of time and the
scheduled refresh (`IntervalPasses`, `ScheduledRefresh`), since every run starts one
when it is due, and of the steps of a command that has begun; none of the user's
commands, of new messages, or of deaths. A step that waits for an external program is
bounded by that program's time-out in the code.

Deadlock is checked in all runs but `storage` and `decisions`: the agent can always be
started again. Those two have bounded histories (entries, builds, messages, rows) and
really stop when they are full.

### Places where code and documents differ

Three have a run that shows them:

* `docs/PERSONAL_CHAT_AGENT.md:275` asks for the latest-event check "immediately before
  UI mutation". The code checks, then claims, reserves and polls once more for the
  readback baseline; what that poll brings is not compared (`runtime.py:690`). What does
  hold is `ClaimedWhileLatest`.
* `docs/PERSONAL_CHAT_AGENT.md:78` says a table discovered after bootstrap cannot replay
  history. The first poll opens it at the cutoff, but the next one subtracts the overlap
  from that (`wechat_reader.py:965`). The same holds for a table known at bootstrap that
  was quiet since. What does hold is `ReplayIsBounded`: never more than one overlap,
  however often it is polled.
* `README.md:59` says `typing-validate` consumes an approval once. The record of the use
  follows the typing (`operations.py:362`), so that a failure in between leaves an
  approval that can be typed again until it expires. What does hold is `RecordedOnce`.

Others were met and have no run:

* `README.md:164` says the click path revalidates the identity version recorded in the
  draft. `arm_send_canary` does, and so does typing; `_send_candidate` looks up the
  active version and drops its identifier (`runtime.py:621`). What does hold is that the
  contact has a verified identity at the click (`ClickWithinAuthority`).
* `docs/SECURITY.md:128` says the daily limits hold per day in the configured timezone.
  `reserve` reads the clock twice (`runtime_state.py:217` and `:219`); around midnight
  it checks the new day and charges the old one. What does hold is `BudgetHolds`: today
  is within its limits, a day that is over passes them by one call at most.
* `docs/SECURITY.md:162` says approval rejects a changed or absent pair of labels.
  `approve_draft` (`operations.py:267`) does not look at it; typing and arming do. What
  does hold is `TypingIsAuthorised`.
* The hourly cap (`docs/SECURITY.md:133`) counts `send-result` records, and the attempt
  is confirmed (`runtime.py:756`) one transaction before that record; after a crash in
  between the send is not counted (`ClaimedBelowLimit` is the cap over recorded
  results).
* The latest approval (`docs/PERSONAL_CHAT_AGENT.md:65`) is the last by second and
  random identifier (`operations.py:304`), and of the first hundred; what does hold is
  `TypingGoesForward`, that no approval of an earlier second is typed after it.
* `uninstall-service` prints `"stopped": true` also when `launchctl print` only timed
  out (`service.py:174`), and then removes the plist of a job that may be loaded.

## 4. Proofs

Each theorem is proved from the assumptions named in the module of its component, for
any values of the constants and any bounds. All properties of the passing runs but the
three that speak of what happens in the end are theorems. The type invariants and the
inductive invariants are not in the runs, since TLC would only repeat on one instance
what is proved for all.

`AgentRuntimeProofs` (from `RuntimeAssumption`: what the constants are; real sending
implies autopilot, which `validate_safety` enforces):

| Theorem | States |
|---|---|
| `PipelineSafe`, `TypeCorrect` | `PipelineInv` and `TypeOK` are invariants |
| `SingleClick`, `ClickUsesUpAuthority`, `NoFalseSent`, together `EveryClickIsAccounted`; `HistoryIsSafe`, `SpacedSends` | the safety invariants of run `pipeline` |
| `RecordsStay`, `AttemptOrder` | records are never rewritten; an attempt never skips or repeats a stage |
| `ClaimIsOfLatest`, `ClickIsAuthorised` | the action properties of run `pipeline` |
| `LimitHolds`, `ClaimIsBelowLimit` | run `hourly_limit` |
| `PipelineImplementsSendOnce` | `AgentRuntime` implements `SendOnce` |

The inductive invariant is `TypeOK /\ PipelineInv`. That a draft is clicked once is not
inductive alone: the click at step `ui` is safe only because the event in hand has not
been clicked (`SendInv`), which holds because the claim was made in this very run (no
marker before it), which holds because only unmarked candidates enter the due list and a
draft in hand leaves it (`LoopInv`, `DurableInv`). That a row in `outbox` comes from a
click keeps the text of a late row defined. `AuthorityInv` carries what the guards on
the way established up to the click: configuration, verified identity, due time. One
writer at a time does the rest: all steps of the user need `pc = "idle"`, except the
control files, on which nothing in a run depends after its start. `EqualSendsAreSpaced`
has an induction of its own, on top of `PipelineInv`: a reservation is dated now and no
reservation is dated later. `LimitInv` is a third: between the check of the hourly limit
and the claim no result is recorded and the clock only moves forward, so that the set of
recent results can only shrink.

`MessageReaderProofs` proves, from `ReaderAssumption`, that `TypeOK /\ ReaderInv` is
inductive (`ReaderSafe`), and from it `NothingIsSkipped`, `ReplayStaysBounded` and
`VisitsAreComplete`. `NoGap` is not inductive: while a visit is inside the overlap the
page lags behind the cursor, so `VisitInv` says of every row of the table in hand that
it is stored, in the batch, or still ahead of the later of the two; `PlaceInv` orders
cursor, page and start of the visit and says that a short page has left nothing of what
the visit found; `RowsInv` makes `local_id` a key, so that a stored id means one row.
For `EventIdentity` it proves `IdentitySafe`, `NoPageIsRefused`, `ReadingsAreStoredOnce`
and both as `NamingIsSound`: an identity with the whole reading in it is only ever given
beside an event that has the short one (`Named`), so a reading has one identity,
whichever it meets first; page and ledger must satisfy that together. From it follows
`VisitAlwaysStoresRows`, with `SettledInv`: of every row the visit has settled on, the
reading is held by the ledger or the batch, or the row is unread on the page, or still
ahead of the visit, and a short page leaves none ahead. That a row of unknown direction
takes an identity without being stored is why `IdentityInv` has to be part of it.

`CostLedgerProofs` proves, from `CostAssumption`, `CallLimitHolds` (`BudgetInv`),
`ReservationsStay` (`NothingIsForgotten`) and `CostLimitHolds` (`BudgetHolds`). That
today's calls are within the limit is not inductive alone: `Reserve` adds one to the day
of the call in hand, which may be over. `BudgetInv` says that no entry is later than
today, so that a new day starts empty, that the day of a call in hand still has its
limit, and that a call checked today has room. It follows that a day that is over has at
most one call too many, since afterwards no call is dated there. `MoneyInv` says the
same of cost (`CostInv`), and of each call that its charge covers its bill
(`EachIsCovered`), for which the call under way must be the reserved one at its estimate
(`UnderWay`): a commit that replaced anything else would lower a charge below its bill.
The laws of sums it needs (`SumWithout`, `SumGrows`, `SumOfSame`) are proved there too.

`ApprovalsProofs` proves, from `ApprovalAssumption`, `UseIsRecordedOnce`,
`TypingHasAuthority` and `TypingAlwaysGoesForward`, for any number of approvals, also
past the limit of the list. `ApprovalInv` (`ApprovalsAreSound`) says that the approval
in hand has no recorded use while no list is cut, and its draft's identity is in force,
until the command ends. Lemma `UsesWithin` shows that a draft has no more uses than
approvals, each having at most one, so that the list of uses is whole when that of the
approvals is (`ListedInFull`) and a usable approval is unused (`UsableIsUnused`). For
the order of the seconds the lists may be cut: `Reached` says that fewer approvals than
a list returns are of an earlier second. That is true of the latest on the list when it
is taken and of every approval that was used, and it stays true because an approval is
dated now. So each of those used was in the list, and not after its latest
(`LatestIsForward`).

`DecisionsProofs` proves `HandingIsSafe`, `SendingIsDue` and `EmotionGrantsNothing`.
What is handed was gated in an earlier run, so `DecisionInv` keeps what the gate saw: a
candidate carries no marks, its answer states and promises nothing, and its time is the
later of what relationship and emotion asked for.

For `History` it proves `ImportIsAlwaysTheChat`, `QueueIsAlwaysUnanswered` and
`ObservationsAreAlwaysRight`, for chats and exports of any length. All that is inductive
over the steps is `HistoryTypeOK` and `ChatInOrder`; the work is in the functions.

* *Import.* A message and the number of equal ones before it determine its place
  (`EventsDiffer`), and are the same in every file that has the message (`FilesAre`).
  The files give one event per message of the longest (`EventsAre`), and their order is
  that of the chat (`BeforeIsPlace`), messages of one second included.
* *Queue.* What follows the last outbound message is an interval of the chat
  (`PendingIs`).
* *Delays and sessions.* `SeenTo(n)` says what the pass holds after n messages: the
  delays of all pairs so far, the starts, and of the message before only its time and
  whether it waits for an answer. `ChatInOrder` is needed for the code's `0 <= delay`.
* *Baselines.* `WalkedTo(n)` says that the queue holds the valid days within reach of
  the n-th day, in order. The order is what makes it right to drop from the front only:
  without it a day too old could hide behind one that is not.

`LearningProofs` proves all safety properties of run `learning`. `LearningInv`
(`LearningIsSound`) gives `RefreshAlwaysKeepsProtected`, `AutomaticAlwaysKeeps` and
`LearntIsAlwaysCounted`; it has what a refresh relies on between its transactions: the
version it is about to activate is its own and a child of the active one (`AtHand`),
which no command can disturb because it holds the lock, and what it will mark is in the
evidence of the version it made or found. `EvidenceIsCounted` is about versions the user
did not put. A version that is found and activated is automatic, and then keeps what its
parent protects, or the user's, which `RefreshKeepsProtected` allows.
`ProtectedIsAlwaysKept` follows from `AutomaticAlwaysKeeps` along a line of versions, by
induction over the version's number.

`ForceInv` (`ForceIsSound`) is inductive beside it and gives
`LearntIsAlwaysCountedOnce`, `LearntIsAlwaysInForce` and `RollbackAlwaysHolds`.
`CountsInv` allows a correction one count per death and one more when it is set aside or
about to be: a death between counting and marking turns the second into the first. It
compares the number of versions that name the correction and were not put by the user,
with which a version of the user's has nothing to do. `EvidenceInv` says that, as long
as nothing died, no such version names a correction that is still pending, so that a
version found again is the user's or one a death left behind; that is the exception of
`RollbackHolds`. `ActiveInv` says that what is about to be activated never was. For the
observation, `ObservedInv` and `QuietInv` say that without commands every version is the
refresh's own; then the latest version is active or hangs on the active one
(`EmotionInv`), and in a relationship, where nothing looks for a version left behind, it
is active unless something died (`RelationshipInv`).

`LedgerProofs` proves `LedgerAlwaysAgrees`, `OpenedCanBeRead`, `RecordsStay` and the
refinement `LedgerImplementsAuditedStore`. `LedgerInv` speaks of `db` and of `work`: the
open transaction has only added, by at most one change that the chain does not tell yet,
and that is the entry it will append (`ExplainsWith`), or by the pointer of a record
appended again, whose scope is in `quiet`; a rollback is then harmless and a commit is
one step of `AuditedStore` (`WorkInv`). What is in force is told by two kinds of entry,
of which the last counts (`SaysInForce`).

`BundleProofs` proves `ManifestIsSound`, `AuditIsAlwaysTrue`, `NothingIsEverLost` from
`BundleInv`: past the lock a command is alone, so that what it has checked and read
stays true until it writes. Of the style context it says at each step of a build which
build's it is. For `ServiceControl` it proves `LoadedAlwaysHasPlist`,
`KillAlwaysPauses` and `InstalledIsAlwaysCurrent` from `ServiceInv`, which says per step
of a command what plist and job are.

Induction. The library's induction theorems take an operator as a parameter, which the
provers cannot instantiate. `NatSets` says instead that a set of naturals with 0 and
the successor of each of its members is all of them, from the least element of a
well-founded order; the induction of a lemma is about the set of numbers that it holds
for. `SubsetsOf` says the same of the subsets of a finite set, for sums.
`Recursion` gives the existence of a function defined step by step, without which
nothing is known of its values. Sorting and selecting are opaque to the provers as the
community modules define them, so `History` has them as `Sorted`, by the number of
members before each, and `Picked`, and `Ranks` says that any list of a set in order is
its `Sorted`.

Only model-checked:

* `RunEnds`, `RowsArrive`, `CorrectionsAreLearned`: liveness under fairness and
  `ENABLED` are beyond the prover;
* the violated statements, which are counterexamples.

## 5. Plan

Done: the send pipeline, the reader and its identities, the budget, approvals,
decisions, history, distillation and learning, the ledger, the directory of the legacy
commands, the service and its markers; `SendOnce` and `AuditedStore` as abstract
specifications with their refinements proved; every safety and action property of the
passing runs as a theorem.

To come, in this order:

1. Abstract specifications of the approval (a token with one recorded use) and of the
   budget (overdrawn by one call at most), with refinements.
2. A draft that is decided again after a death (`runtime.py:1107`): a property about the
   progress of the runs after it.
3. Lists that are cut in the refresh (`learning.py:153`), with limits small enough to be
   reached, as `Approvals` has them.

## 6. Not modelled, and why

Cryptography and key storage (assumed to work: hashes do not collide and a row reads
under its key only), the import of salt keys, the Accessibility script's search of the
window (one step that succeeds, fails, or presses and then fails), prompts and HTTP (any
response), the byte formats of WeChat's rows, SQLite and SQLCipher themselves (a
transaction is atomic), the wording of drafts and the content of generated profiles,
argument parsing and printing. The offline replay and report, the database tools and the
portrait analyser are one-shot computations over files that keep no state another part
changes.
