-------------------------------- MODULE Ledger --------------------------------
(***************************************************************************)
(* The encrypted ledger (ledger.py): opening and upgrading the database,   *)
(* its write transactions statement by statement, and the audit chain that *)
(* every transaction extends.                                              *)
(*                                                                         *)
(* BEGIN IMMEDIATE lets one transaction write at a time: db is what is     *)
(* committed, work is what the open transaction has made of it.  At every  *)
(* statement the transaction may raise or its process die, and SQLite then *)
(* goes back to db.  A call that changes nothing (a key reserved already,  *)
(* a record appended again, unless it is put in force, a refused           *)
(* transition) is a stutter.  The keyed hashes do not collide: the hash of *)
(* an entry is a number no other entry has, and a row can be read with the *)
(* key it was written under only.                                          *)
(***************************************************************************)
EXTENDS Naturals, Sequences

CONSTANTS
    Process, Key,         \* processes; values the state key has had
    EventId, Body,        \* event identities (their number is their position)
    RecordId, Scope,      \* runtime records; scopes with an active record
    Payload,              \* contents of runtime records
    SendKey,              \* idempotency keys
    Schema,               \* SCHEMA_VERSION                       (3)
    MaxBatch,             \* events of one call             (100,000)
    MaxEntries,           \* bound: entries of the audit chain
    MaxHashes,            \* bound: entries made, rolled back ones included
    None                  \* no row, no key, no process

Statuses == {"reserved", "sending", "sent", "failed", "cancelled",
             "readback_confirmed"}

\* What an entry of the audit chain tells of an object: of a record its scope
\* and whether it was put in force with it, not its payload.
Told == [kind: {"record"}, object: RecordId, value: Scope \X BOOLEAN]
        \cup [kind: {"active"}, object: Scope, value: RecordId]
        \cup [kind: {"send"}, object: SendKey, value: Statuses]
        \cup [kind: {"cursor"}, object: {"events"}, value: Nat]

ASSUME LedgerAssumption ==
    /\ EventId \subseteq Nat
    /\ Schema \in Nat \ {0} /\ MaxBatch \in Nat
    /\ MaxEntries \in Nat /\ MaxHashes \in Nat
    /\ None \notin Process \cup Key \cup Body \cup Scope \cup RecordId
    /\ None \notin Nat \cup Statuses \cup Told
    /\ None \notin (Scope \X Payload) \cup (Scope \X BOOLEAN)

VARIABLES
    db,        \* the committed database
    work,      \* the database as the open transaction sees it
    conn,      \* the key each process has the ledger open with, or None
    owner,     \* the process of the open transaction, or None
    using,     \* the key of that process
    step,      \* the next statement of the transaction
    batch,     \* ingest: the rows left, the cursor asked for, whether one is new
    entry,     \* the audit entry the transaction will append
    hashes     \* number of audit entries made, rolled back ones included

vars == <<db, work, conn, owner, using, step, batch, entry, hashes>>

\* _SEND_TRANSITIONS
SendTransitions ==
    [reserved |-> {"sending", "sent", "failed", "cancelled"},
     sending |-> {"sent", "failed", "cancelled"},
     sent |-> {"readback_confirmed", "failed"},
     failed |-> {"cancelled"},
     readback_confirmed |-> {},
     cancelled |-> {}]

\* A row of the audit chain.
Entry == [told: Told, hash: Nat, prev: Nat]

\* signed: the keys the protected rows are written under (None: an event, a
\* record or a pointer of an older schema, without an integrity tag).  quiet is
\* not in the database: the scopes whose pointer was last moved by a record
\* appended again, of which no audit entry tells.
Database ==
    [version: 0..(Schema + 1), key: Key \cup {None},
     signed: SUBSET (Key \cup {None}),
     events: [EventId -> Body \cup {None}],
     cursor: Nat \cup {None},
     records: [RecordId -> (Scope \X Payload) \cup {None}],
     active: [Scope -> RecordId \cup {None}], quiet: SUBSET Scope,
     sends: [SendKey -> Statuses \cup {None}],
     chain: Seq(Entry), head: [sequence: Nat, hash: Nat]]

Event == [id: EventId, body: Body]
NoBatch == [rows |-> <<>>, cursor |-> 0, new |-> FALSE]

TypeOK ==
    /\ db \in Database /\ work \in Database
    /\ conn \in [Process -> Key \cup {None}]
    /\ owner \in Process \cup {None} /\ using \in Key \cup {None}
    /\ owner # None => using \in Key
    /\ step \in {"idle", "rows", "audit", "commit"}
    /\ batch \in [rows: Seq(Event), cursor: Nat, new: BOOLEAN]
    /\ entry \in Told \cup {None} /\ (step = "audit" => entry # None)
    /\ hashes \in Nat

\* A new file, a ledger of an older release (with rows or not), or one that a
\* newer release has opened.
Init ==
    /\ db \in [version: {0, Schema - 1, Schema + 1}, key: {None},
               signed: SUBSET {None},
               events: [EventId -> {None}], cursor: {None},
               records: [RecordId -> {None}], active: [Scope -> {None}],
               quiet: {{}},
               sends: [SendKey -> {None}],
               chain: {<<>>}, head: {[sequence |-> 0, hash |-> 0]}]
    /\ db.version = 0 => db.signed = {}
    /\ work = db
    /\ conn = [p \in Process |-> None]
    /\ owner = None /\ using = None /\ step = "idle"
    /\ batch = NoBatch /\ entry = None
    /\ hashes = 0

-----------------------------------------------------------------------------
(* Transactions.                                                           *)

Begin(p, k) == owner = None /\ owner' = p /\ using' = k

Idle == owner' = None /\ using' = None /\ step' = "idle"
        /\ batch' = NoBatch /\ entry' = None

\* Mutant: the error handler commits what was done so far.
CommitAnyway(p) ==
    /\ owner = p /\ owner # None
    /\ Idle
    /\ db' = work /\ work' = work
    /\ UNCHANGED <<conn, hashes>>

\* ROLLBACK, whatever statement raised.
Rollback(p) ==
    /\ owner = p /\ owner # None
    /\ Idle
    /\ work' = db
    /\ UNCHANGED <<db, conn, hashes>>

\* COMMIT; the transaction of __init__ leaves the ledger open.
Commit(p) ==
    /\ owner = p /\ owner # None /\ step = "commit"
    /\ db' = work /\ conn' = [conn EXCEPT ![p] = using]
    /\ Idle
    /\ UNCHANGED <<work, hashes>>

\* close, or the death of the process.
Close(p) ==
    /\ conn[p] # None \/ owner = p
    /\ conn' = [conn EXCEPT ![p] = None]
    /\ IF owner = p
       THEN Idle /\ work' = db
       ELSE UNCHANGED <<owner, using, step, batch, entry, work>>
    /\ UNCHANGED <<db, hashes>>

\* The rest of the transaction: an audit entry that tells of an object.
Tell(kind, object, value) ==
    /\ step' = "audit"
    /\ entry' = [kind |-> kind, object |-> object, value |-> value]

LastHash(chain) == IF chain = <<>> THEN 0 ELSE chain[Len(chain)].hash

\* Mutant: the stored head is not brought up to date.
AppendWithoutHead(p) ==
    /\ owner = p /\ owner # None /\ step = "audit"
    /\ hashes' = hashes + 1
    /\ work' = [work EXCEPT
                  !.chain = Append(@, [told |-> entry, hash |-> hashes + 1,
                                       prev |-> LastHash(work.chain)])]
    /\ step' = "commit"
    /\ UNCHANGED <<db, conn, owner, using, batch, entry>>

AppendAudit(p) ==
    /\ owner = p /\ owner # None /\ step = "audit"
    /\ hashes' = hashes + 1
    /\ work' = [work EXCEPT
                  !.chain = Append(@, [told |-> entry, hash |-> hashes + 1,
                                       prev |-> LastHash(work.chain)]),
                  !.head = [sequence |-> Len(work.chain) + 1,
                            hash |-> hashes + 1]]
    /\ step' = "commit"
    /\ UNCHANGED <<db, conn, owner, using, batch, entry>>

\* The integrity checks of _event_from_row, _runtime_record_from_row and
\* _reservation_from_row: every protected row is written under this key.
Reads(k, database) == database.signed \subseteq {k}

-----------------------------------------------------------------------------
(* Opening the ledger.                                                     *)

\* Mutant: a ledger of an older release is upgraded with its rows in it.
UpgradesAlways(k) == db.key \in {None, k}

\* _initialize_schema refuses a newer schema, another key, and an older
\* ledger that already holds events, records or pointers.  It does not count
\* sends; an older ledger with sends only is not among the initial states.
Opens(k) ==
    /\ db.version <= Schema
    /\ db.key \in {None, k}
    /\ db.version = Schema \/ None \notin db.signed

Open(p, k) ==
    /\ conn[p] = None /\ Begin(p, k)
    /\ Opens(k)
    /\ work' = [db EXCEPT !.version = Schema, !.key = k]
    /\ step' = "commit"
    /\ UNCHANGED <<db, conn, batch, entry, hashes>>

-----------------------------------------------------------------------------
(* The operations: each begins the transaction and runs up to the audit.   *)

\* The second line is the bounds.
Ready(p) ==
    /\ conn[p] # None /\ Begin(p, conn[p])
    /\ Len(db.chain) < MaxEntries /\ hashes < MaxHashes

\* ingest_events: the rows, then the cursor.
IngestEvents(p, rows, cursor) ==
    /\ Ready(p)
    /\ batch' = [rows |-> rows, cursor |-> cursor, new |-> FALSE]
    /\ step' = "rows"
    /\ UNCHANGED <<db, work, conn, entry, hashes>>

\* INSERT OR IGNORE; another event under the same id raises
\* EventCollisionError, which is Rollback.
InsertRow(p) ==
    /\ owner = p /\ owner # None /\ step = "rows" /\ batch.rows # <<>>
    /\ LET event == Head(batch.rows)
           stored == work.events[event.id]
       IN /\ stored = None \/ (stored = event.body /\ Reads(using, work))
          /\ work' = [work EXCEPT !.events[event.id] = event.body,
                                  !.signed = @ \cup {using}]
          /\ batch' = [batch EXCEPT !.rows = Tail(@),
                                    !.new = @ \/ stored = None]
    /\ UNCHANGED <<db, conn, owner, using, step, entry, hashes>>

CursorAfter(old, asked) ==
    IF old = None \/ (old \in Nat /\ old < asked) THEN asked ELSE old

MoveCursor(p) ==
    /\ owner = p /\ owner # None /\ step = "rows" /\ batch.rows = <<>>
    /\ LET after == CursorAfter(work.cursor, batch.cursor)
       IN /\ work' = [work EXCEPT !.cursor = after]
          /\ IF batch.new \/ after # work.cursor
             THEN Tell("cursor", "events", after)
             ELSE step' = "commit" /\ UNCHANGED entry
    /\ UNCHANGED <<db, conn, owner, using, batch, hashes>>

ReserveSend(p, k) ==
    /\ Ready(p)
    /\ db.sends[k] = None
    /\ work' = [work EXCEPT !.sends[k] = "reserved",
                            !.signed = @ \cup {conn[p]}]
    /\ Tell("send", k, "reserved")
    /\ UNCHANGED <<db, conn, batch, hashes>>

\* from is the expected status where the caller names one.
TransitionSend(p, k, from, to) ==
    /\ Ready(p)
    /\ db.sends[k] = from
    /\ to \in SendTransitions[from]
    /\ work' = [work EXCEPT !.sends[k] = to,
                            !.signed = @ \cup {conn[p]}]
    /\ Tell("send", k, to)
    /\ UNCHANGED <<db, conn, batch, hashes>>

\* append_runtime_record of a new id: the record, with activate the pointer of
\* its scope, and one entry for both.  Another payload under an id that is
\* there raises IdempotencyConflictError.
AppendRecord(p, id, scope, payload, activate) ==
    /\ Ready(p)
    /\ db.records[id] = None
    /\ work' = [work EXCEPT
                  !.records[id] = <<scope, payload>>,
                  !.active[scope] = IF activate THEN id ELSE @,
                  !.quiet = IF activate THEN @ \ {scope} ELSE @,
                  !.signed = @ \cup {conn[p]}]
    /\ Tell("record", id, <<scope, activate>>)
    /\ UNCHANGED <<db, conn, batch, hashes>>

\* The same record again, with activate: the pointer moves, and the call
\* returns before the audit entry.  Without activate nothing changes.
AppendAgain(p, id, scope, payload) ==
    /\ Ready(p)
    /\ db.records[id] = <<scope, payload>> /\ Reads(conn[p], db)
    /\ db.active[scope] # id
    /\ work' = [work EXCEPT !.active[scope] = id, !.quiet = @ \cup {scope}]
    /\ step' = "commit"
    /\ UNCHANGED <<db, conn, batch, entry, hashes>>

SetActive(p, scope, id) ==
    /\ Ready(p)
    /\ db.records[id] # None /\ db.records[id][1] = scope
    /\ work' = [work EXCEPT !.active[scope] = id, !.quiet = @ \ {scope}]
    /\ Tell("active", scope, id)
    /\ UNCHANGED <<db, conn, batch, hashes>>

-----------------------------------------------------------------------------
\* Of a batch without a cursor of the caller the largest position is taken.
Batches == UNION {[1..n -> Event] : n \in 0..MaxBatch}
Cursors == EventId

Next ==
    \E p \in Process :
        \/ \E k \in Key : Open(p, k)
        \/ Close(p) \/ Rollback(p) \/ Commit(p) \/ AppendAudit(p)
        \/ \E rows \in Batches, c \in Cursors : IngestEvents(p, rows, c)
        \/ InsertRow(p) \/ MoveCursor(p)
        \/ \E k \in SendKey : ReserveSend(p, k)
        \/ \E k \in SendKey, from, to \in Statuses :
              TransitionSend(p, k, from, to)
        \/ \E id \in RecordId, scope \in Scope, payload \in Payload :
              \/ \E b \in BOOLEAN : AppendRecord(p, id, scope, payload, b)
              \/ AppendAgain(p, id, scope, payload)
        \/ \E id \in RecordId, scope \in Scope : SetActive(p, scope, id)

Spec == Init /\ [][Next]_vars

-----------------------------------------------------------------------------
(* Safety.                                                                 *)

\* verify_audit_chain: links, continuity, and the stored head.
Verifies(chain, head) ==
    /\ head.sequence = Len(chain)
    /\ head.hash = LastHash(chain)
    /\ \A i \in DOMAIN chain :
          chain[i].prev = IF i = 1 THEN 0 ELSE chain[i - 1].hash

\* The committed audit chain is always one that verify_audit_chain accepts,
\* whatever transaction raised or died on the way.
ChainVerifies == Verifies(db.chain, db.head)

\* What a chain says of an object last.
SaysLast(chain, kind, object, value) ==
    LET About_(i) == chain[i].told.kind = kind /\ chain[i].told.object = object
    IN IF value = None THEN \A i \in DOMAIN chain : ~About_(i)
       ELSE \E i \in DOMAIN chain :
               /\ About_(i) /\ chain[i].told.value = value
               /\ \A j \in DOMAIN chain : j > i => ~About_(j)

\* An entry that puts a record in force in scope s, and that record.
PutsInForce(told, s) ==
    \/ told.kind = "active" /\ told.object = s
    \/ told.kind = "record" /\ told.value = <<s, TRUE>>

Puts(told) == IF told.kind = "active" THEN told.value ELSE told.object

\* What a chain put in force in scope s last.
SaysInForce(chain, s, id) ==
    IF id = None THEN \A i \in DOMAIN chain : ~PutsInForce(chain[i].told, s)
    ELSE \E i \in DOMAIN chain :
            /\ PutsInForce(chain[i].told, s) /\ Puts(chain[i].told) = id
            /\ \A j \in DOMAIN chain : j > i => ~PutsInForce(chain[j].told, s)

\* What a chain says of a record: nothing before it is there, then its scope.
SaysRecord(chain, id, row) ==
    IF row = None THEN SaysLast(chain, "record", id, None)
    ELSE \E b \in BOOLEAN : SaysLast(chain, "record", id, <<row[1], b>>)

Explains(d) ==
    /\ \A id \in RecordId : SaysRecord(d.chain, id, d.records[id])
    /\ \A s \in Scope \ d.quiet : SaysInForce(d.chain, s, d.active[s])
    /\ \A k \in SendKey : SaysLast(d.chain, "send", k, d.sends[k])
    /\ SaysLast(d.chain, "cursor", "events", d.cursor)

\* The audit chain explains the state: which records there are and in which
\* scope, the status of every send and the cursor are what the chain last said
\* of them, and so is the record in force in a scope, unless its pointer was
\* last moved by a record appended again, which leaves no entry.
AuditExplains == Explains(db)

\* get_active_runtime_record: no pointer, or a pointer to a record that passes
\* its checks; anything else is an integrity error.
ActiveReads(s) ==
    \/ db.active[s] = None
    \/ db.records[db.active[s]] \in {s} \X Payload

\* An active pointer names a committed record of its own scope, so
\* get_active_runtime_record never fails its integrity check.
PointersNameRecords == \A s \in Scope : ActiveReads(s)

\* Audit chain, tables and pointers agree in every committed state: the chain
\* verifies, its last words on each object are what the tables hold (but for
\* pointers that a repeated append moved), and every pointer leads to a record.
LedgerAgrees == ChainVerifies /\ AuditExplains /\ PointersNameRecords

\* A process that has the ledger open can read all of it: the schema is its
\* own, and every protected row is written under the key it holds, whatever
\* keys the state key has had and whatever release made the file.
OpenedIsReadable ==
    \A p \in Process : conn[p] # None =>
        /\ db.version = Schema /\ db.key = conn[p]
        /\ Reads(conn[p], db)

\* e keeps what d has recorded.
Grows(d, e) ==
    /\ \A id \in EventId : d.events[id] # None => e.events[id] = d.events[id]
    /\ \A id \in RecordId : d.records[id] # None => e.records[id] = d.records[id]
    /\ d.cursor # None => e.cursor # None /\ e.cursor >= d.cursor
    /\ \A k \in SendKey : d.sends[k] # None =>
          \/ e.sends[k] = d.sends[k]
          \/ e.sends[k] \in SendTransitions[d.sends[k]]
    /\ Len(e.chain) >= Len(d.chain)
    /\ \A i \in DOMAIN d.chain : e.chain[i] = d.chain[i]

\* What is recorded stays: no event or record is changed or removed, the
\* cursor never moves back, a send takes only steps of _SEND_TRANSITIONS (and
\* none out of readback_confirmed or cancelled), and the chain only grows.
RecordedStays == [][Grows(db, db')]_db

\* The ledger as those who use it see it: whatever the statements of its
\* transactions, and wherever they end, the committed database takes the steps
\* of AuditedStore: one operation at a time, together with the audit entry that
\* tells of it, or a pointer moved without one by a record appended again.
Audited == INSTANCE AuditedStore WITH
    records <- db.records, active <- db.active, sends <- db.sends,
    cursor <- db.cursor,
    log <- [i \in DOMAIN db.chain |-> db.chain[i].told],
    Follows <- SendTransitions

CommitsOneChange == Audited!Spec

-----------------------------------------------------------------------------
(* The inductive invariant: what holds of the committed database holds of  *)
(* the one at work, save for the object whose audit entry is to come.      *)

Pointed(d) ==
    \A s \in Scope : d.active[s] # None =>
        d.records[d.active[s]] # None /\ d.records[d.active[s]][1] = s

\* d with the entry e appended to its chain explains itself.
ExplainsWith(d, e) ==
    /\ \A id \in RecordId :
          IF e.kind = "record" /\ e.object = id
          THEN d.records[id] # None /\ d.records[id][1] = e.value[1]
          ELSE SaysRecord(d.chain, id, d.records[id])
    /\ \A s \in Scope :
          IF PutsInForce(e, s) THEN d.active[s] = Puts(e)
          ELSE s \notin d.quiet => SaysInForce(d.chain, s, d.active[s])
    /\ \A k \in SendKey :
          IF e.kind = "send" /\ e.object = k THEN d.sends[k] = e.value
          ELSE SaysLast(d.chain, "send", k, d.sends[k])
    /\ IF e.kind = "cursor" THEN d.cursor = e.value
       ELSE SaysLast(d.chain, "cursor", "events", d.cursor)

KeyInv ==
    /\ IF db.version = Schema THEN db.key # None /\ db.signed \subseteq {db.key}
       ELSE db.signed \subseteq {None}
    /\ \A p \in Process : conn[p] # None =>
          db.version = Schema /\ db.key = conn[p]
    /\ owner # None =>
          /\ work.version = Schema /\ work.key = using
          /\ work.signed \subseteq {using}
          /\ db.key \in {None, using}

ChainInv ==
    /\ Verifies(db.chain, db.head) /\ Verifies(work.chain, work.head)
    /\ Explains(db)
    /\ IF step = "audit" THEN ExplainsWith(work, entry) ELSE Explains(work)

LedgerInv ==
    /\ owner = None => work = db /\ step = "idle"
    /\ Pointed(db) /\ Pointed(work)
    /\ Grows(db, work)
    /\ KeyInv
    /\ ChainInv

\* e is d with what t tells, which d allows.
Changes(d, e, t) ==
    /\ CASE t.kind = "record" -> d.records[t.object] = None
         [] t.kind = "active" -> /\ d.records[t.value] # None
                                 /\ d.records[t.value][1] = t.object
         [] t.kind = "send" -> IF d.sends[t.object] = None
                               THEN t.value = "reserved"
                               ELSE t.value \in SendTransitions[d.sends[t.object]]
         [] t.kind = "cursor" -> d.cursor = None \/ t.value >= d.cursor
    /\ IF t.kind = "record"
       THEN \E payload \in Payload :
               e.records = [d.records EXCEPT ![t.object] = <<t.value[1], payload>>]
       ELSE e.records = d.records
    /\ e.active = CASE t.kind = "active" -> [d.active EXCEPT ![t.object] = t.value]
                    [] t.kind = "record" /\ t.value[2] ->
                         [d.active EXCEPT ![t.value[1]] = t.object]
                    [] OTHER -> d.active
    /\ e.sends = IF t.kind = "send"
                 THEN [d.sends EXCEPT ![t.object] = t.value] ELSE d.sends
    /\ e.cursor = IF t.kind = "cursor" THEN t.value ELSE d.cursor

\* e is d with a pointer moved by a record appended again.
MovesQuietly(d, e) ==
    /\ \E s \in Scope, id \in RecordId :
          /\ d.records[id] # None /\ d.records[id][1] = s
          /\ e.active = [d.active EXCEPT ![s] = id]
    /\ e.records = d.records /\ e.sends = d.sends
    /\ e.cursor = d.cursor /\ e.chain = d.chain

SameFacts(d, e) ==
    /\ e.records = d.records /\ e.active = d.active /\ e.sends = d.sends
    /\ e.cursor = d.cursor /\ e.chain = d.chain

\* How far the open transaction is from the committed database.
WorkInv ==
    /\ step = "rows" => SameFacts(db, work)
    /\ step = "audit" => Changes(db, work, entry) /\ work.chain = db.chain
    /\ step = "commit" =>
          \/ SameFacts(db, work) \/ MovesQuietly(db, work)
          \/ LET last == work.chain[Len(work.chain)]
             IN /\ Len(work.chain) = Len(db.chain) + 1
                /\ work.chain = Append(db.chain, last)
                /\ Changes(db, work, last.told)
=============================================================================
