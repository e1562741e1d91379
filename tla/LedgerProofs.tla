----------------------------- MODULE LedgerProofs -----------------------------
(***************************************************************************)
(* Proofs about Ledger: whatever transaction raised or died on the way,    *)
(* the committed audit chain verifies, explains the committed state,       *)
(* nothing that was recorded is lost, and the whole is an AuditedStore.    *)
(***************************************************************************)
EXTENDS Ledger, TLAPS

-----------------------------------------------------------------------------
(* Types.                                                                  *)

LEMMA FieldTypes ==
    ASSUME NEW d \in Database
    PROVE  /\ d.version \in 0..(Schema + 1) /\ d.key \in Key \cup {None}
           /\ d.signed \in SUBSET (Key \cup {None})
           /\ d.events \in [EventId -> Body \cup {None}]
           /\ d.cursor \in Nat \cup {None}
           /\ d.records \in [RecordId -> (Scope \X Payload) \cup {None}]
           /\ d.active \in [Scope -> RecordId \cup {None}]
           /\ d.quiet \in SUBSET Scope
           /\ d.sends \in [SendKey -> Statuses \cup {None}]
           /\ d.chain \in Seq(Entry)
           /\ d.head \in [sequence: Nat, hash: Nat]
           /\ d = [version |-> d.version, key |-> d.key, signed |-> d.signed,
                   events |-> d.events, cursor |-> d.cursor,
                   records |-> d.records, active |-> d.active, quiet |-> d.quiet,
                   sends |-> d.sends, chain |-> d.chain, head |-> d.head]
BY DEF Database

LEMMA ToldTypes ==
    ASSUME NEW e \in Told
    PROVE  /\ e.value # None
           /\ e.kind = "record" => e.object \in RecordId
                                   /\ e.value \in Scope \X BOOLEAN
           /\ e.kind = "active" => e.object \in Scope /\ e.value \in RecordId
           /\ e.kind = "send" => e.object \in SendKey /\ e.value \in Statuses
           /\ e.kind = "cursor" => e.object = "events" /\ e.value \in Nat
           /\ e.kind \in {"record", "active", "send", "cursor"}
BY LedgerAssumption DEF Told

LEMMA SendTypes ==
    ASSUME NEW s \in Statuses
    PROVE  SendTransitions[s] \subseteq Statuses
BY DEF Statuses, SendTransitions

LEMMA LastHashType ==
    ASSUME NEW c \in Seq(Entry)
    PROVE  LastHash(c) \in Nat
<1>1. CASE c = <<>>
    BY <1>1 DEF LastHash
<1>2. CASE c # <<>>
    <2>1. Len(c) \in 1..Len(c)
        BY <1>2
    <2>2. c[Len(c)] \in Entry
        BY <2>1
    <2> QED
        BY <1>2, <2>2 DEF LastHash, Entry
<1> QED
    BY <1>1, <1>2

\* The entry AppendAudit makes.
NewEntry == [told |-> entry, hash |-> hashes + 1,
             prev |-> LastHash(work.chain)]

LEMMA NewEntryType ==
    ASSUME TypeOK, step = "audit"
    PROVE  NewEntry \in Entry /\ entry \in Told
<1>1. work.chain \in Seq(Entry)
    BY FieldTypes DEF TypeOK
<1>2. entry \in Told /\ hashes \in Nat
    BY DEF TypeOK
<1>3. LastHash(work.chain) \in Nat
    BY <1>1, LastHashType
<1> QED
    BY <1>1, <1>2, <1>3 DEF NewEntry, Entry

LEMMA BatchTypes ==
    ASSUME NEW rows \in Batches
    PROVE  rows \in Seq(Event)
BY LedgerAssumption DEF Batches

LEMMA InitType == Init => TypeOK
<1> SUFFICES ASSUME Init PROVE TypeOK
    OBVIOUS
<1>1. db.version \in 0..(Schema + 1)
    BY LedgerAssumption DEF Init
<1>2. db \in Database
    <2>1. PICK v \in {0, Schema - 1, Schema + 1}, g \in SUBSET {None},
               e \in [EventId -> {None}], r \in [RecordId -> {None}],
               a \in [Scope -> {None}], s \in [SendKey -> {None}] :
              db = [version |-> v, key |-> None, signed |-> g, events |-> e,
                    cursor |-> None, records |-> r, active |-> a, quiet |-> {},
                    sends |-> s, chain |-> <<>>, head |-> [sequence |-> 0, hash |-> 0]]
        BY DEF Init
    <2>2. v \in 0..(Schema + 1)
        BY <1>1, <2>1
    <2>3. <<>> \in Seq(Entry)
        OBVIOUS
    <2>4. /\ e \in [EventId -> Body \cup {None}]
          /\ r \in [RecordId -> (Scope \X Payload) \cup {None}]
          /\ a \in [Scope -> RecordId \cup {None}]
          /\ s \in [SendKey -> Statuses \cup {None}]
        OBVIOUS
    <2> QED
        BY <2>1, <2>2, <2>3, <2>4 DEF Database
<1> QED
    BY <1>2 DEF Init, TypeOK, NoBatch

LEMMA OpenType ==
    ASSUME TypeOK, NEW p \in Process, NEW k \in Key, Open(p, k)
    PROVE  TypeOK'
<1>1. db \in Database /\ Schema \in 0..(Schema + 1)
    BY LedgerAssumption DEF TypeOK
<1>2. work' \in Database
    BY <1>1 DEF Open, Database
<1> QED
    BY <1>2 DEF Open, Begin, TypeOK

LEMMA EndType ==
    ASSUME TypeOK, NEW p \in Process, Rollback(p) \/ Commit(p) \/ Close(p)
    PROVE  TypeOK'
<1>1. work' \in Database /\ db' \in Database
    BY DEF Rollback, Commit, Close, TypeOK
<1>2. conn' \in [Process -> Key \cup {None}]
    BY DEF Rollback, Commit, Close, TypeOK
<1>3. hashes' \in Nat
    BY DEF Rollback, Commit, Close, TypeOK
<1>4. CASE Idle
    BY <1>1, <1>2, <1>3, <1>4 DEF Idle, TypeOK, NoBatch
<1>5. CASE UNCHANGED <<owner, using, step, batch, entry>>
    BY <1>1, <1>2, <1>3, <1>5 DEF TypeOK
<1> QED
    BY <1>4, <1>5 DEF Rollback, Commit, Close

LEMMA AuditType ==
    ASSUME TypeOK, NEW p \in Process, AppendAudit(p)
    PROVE  TypeOK'
<1>1. NewEntry \in Entry /\ work.chain \in Seq(Entry) /\ hashes \in Nat
    BY NewEntryType, FieldTypes DEF AppendAudit, TypeOK
<1>2. Append(work.chain, NewEntry) \in Seq(Entry)
    BY <1>1
<1>3. [sequence |-> Len(work.chain) + 1, hash |-> hashes + 1]
          \in [sequence: Nat, hash: Nat]
    BY <1>1
<1>4. work' = [work EXCEPT !.chain = Append(work.chain, NewEntry),
                           !.head = [sequence |-> Len(work.chain) + 1,
                                     hash |-> hashes + 1]]
    BY DEF AppendAudit, NewEntry
<1>5. work' \in Database
    BY <1>2, <1>3, <1>4 DEF TypeOK, Database
<1> QED
    BY <1>1, <1>5 DEF AppendAudit, TypeOK

LEMMA InsertType ==
    ASSUME TypeOK, NEW p \in Process, InsertRow(p)
    PROVE  TypeOK'
<1>1. batch.rows \in Seq(Event) /\ batch.rows # <<>>
    BY DEF InsertRow, TypeOK
<1>2. Head(batch.rows) \in Event /\ Tail(batch.rows) \in Seq(Event)
    BY <1>1
<1>3. Head(batch.rows).id \in EventId /\ Head(batch.rows).body \in Body
    BY <1>2 DEF Event
<1>4. using \in Key
    BY DEF InsertRow, TypeOK
<1>5. work' \in Database
    BY <1>3, <1>4 DEF InsertRow, TypeOK, Database
<1>6. batch' \in [rows: Seq(Event), cursor: Nat, new: BOOLEAN]
    BY <1>2, Zenon DEF InsertRow, TypeOK
<1> QED
    BY <1>5, <1>6 DEF InsertRow, TypeOK

LEMMA CursorAfterType ==
    ASSUME NEW old \in Nat \cup {None}, NEW asked \in Nat
    PROVE  /\ CursorAfter(old, asked) \in Nat
           /\ old # None => CursorAfter(old, asked) >= old
BY DEF CursorAfter

LEMMA MoveType ==
    ASSUME TypeOK, NEW p \in Process, MoveCursor(p)
    PROVE  TypeOK'
<1> DEFINE after == CursorAfter(work.cursor, batch.cursor)
<1>1. work.cursor \in Nat \cup {None} /\ batch.cursor \in Nat
    BY FieldTypes DEF TypeOK
<1>2. after \in Nat
    BY <1>1, CursorAfterType
<1>3. work' = [work EXCEPT !.cursor = after]
    BY DEF MoveCursor
<1> HIDE DEF after
<1>4. work' \in Database
    BY <1>2, <1>3 DEF TypeOK, Database
<1>5. [kind |-> "cursor", object |-> "events", value |-> after] \in Told
    BY <1>2 DEF Told
<1>6. entry' \in Told \cup {None} /\ step' \in {"audit", "commit"}
      /\ (step' = "audit" => entry' # None)
    <2>1. CASE step' = "commit" /\ UNCHANGED entry
        BY <2>1 DEF TypeOK
    <2>2. CASE Tell("cursor", "events", after)
        BY <1>5, <2>2, LedgerAssumption DEF Tell
    <2> QED
        BY <2>1, <2>2 DEF MoveCursor, after
<1> QED
    BY <1>4, <1>6 DEF MoveCursor, TypeOK

\* A transaction that is ready to begin finds the committed database at work.
LEMMA SendType ==
    ASSUME TypeOK, NEW p \in Process, NEW k \in SendKey, NEW to \in Statuses,
           Ready(p), Tell("send", k, to),
           work' = [work EXCEPT !.sends[k] = to,
                                !.signed = @ \cup {conn[p]}],
           UNCHANGED <<db, conn, batch, hashes>>
    PROVE  TypeOK'
<1>1. conn[p] \in Key
    BY DEF Ready, TypeOK
<1>2. work' \in Database
    BY <1>1 DEF TypeOK, Database
<1>3. [kind |-> "send", object |-> k, value |-> to] \in Told
    BY DEF Told
<1>4. entry' \in Told /\ entry' # None
    BY <1>3, LedgerAssumption DEF Tell
<1> QED
    BY <1>1, <1>2, <1>4 DEF Ready, Begin, Tell, TypeOK

LEMMA RecordType ==
    ASSUME TypeOK, NEW p \in Process, NEW id \in RecordId, NEW scope \in Scope,
           NEW payload \in Payload, NEW activate \in BOOLEAN,
           AppendRecord(p, id, scope, payload, activate)
    PROVE  TypeOK'
<1> DEFINE row == <<scope, payload>>
           told == <<scope, activate>>
<1>1. /\ conn[p] \in Key /\ row \in Scope \X Payload
      /\ told \in Scope \X BOOLEAN
    BY DEF AppendRecord, Ready, TypeOK
<1>2. work' = [work EXCEPT !.records[id] = row,
                           !.active[scope] = IF activate THEN id ELSE @,
                           !.quiet = IF activate THEN @ \ {scope} ELSE @,
                           !.signed = @ \cup {conn[p]}]
    BY DEF AppendRecord
<1>3. entry' = [kind |-> "record", object |-> id, value |-> told]
    BY DEF AppendRecord, Tell
<1> HIDE DEF row, told
<1>4. work' \in Database
    <2>1. CASE activate
        BY <1>1, <1>2, <2>1 DEF TypeOK, Database
    <2>2. CASE ~activate
        <3>1. work' = [work EXCEPT !.records[id] = row,
                                   !.active[scope] = @,
                                   !.signed = @ \cup {conn[p]}]
            BY <1>2, <2>2 DEF TypeOK, Database
        <3> QED
            BY <1>1, <3>1 DEF TypeOK, Database
    <2> QED
        BY <2>1, <2>2
<1>5. entry' \in Told
    BY <1>1, <1>3 DEF Told
<1>6. entry' # None
    BY <1>5, LedgerAssumption
<1> QED
    BY <1>1, <1>4, <1>5, <1>6 DEF AppendRecord, Ready, Begin, Tell, TypeOK

LEMMA AgainType ==
    ASSUME TypeOK, NEW p \in Process, NEW id \in RecordId, NEW scope \in Scope,
           NEW payload \in Payload, AppendAgain(p, id, scope, payload)
    PROVE  TypeOK'
<1>1. conn[p] \in Key
    BY DEF AppendAgain, Ready, TypeOK
<1>2. work' \in Database
    BY DEF AppendAgain, TypeOK, Database
<1> QED
    BY <1>1, <1>2 DEF AppendAgain, Ready, Begin, TypeOK

LEMMA ActiveType ==
    ASSUME TypeOK, NEW p \in Process, NEW id \in RecordId, NEW scope \in Scope,
           SetActive(p, scope, id)
    PROVE  TypeOK'
<1>1. conn[p] \in Key
    BY DEF SetActive, Ready, TypeOK
<1>2. work' \in Database
    BY DEF SetActive, TypeOK, Database
<1>3. entry' = [kind |-> "active", object |-> scope, value |-> id]
    BY DEF SetActive, Tell
<1>4. entry' \in Told
    BY <1>3 DEF Told
<1>5. entry' # None
    BY <1>4, LedgerAssumption
<1> QED
    BY <1>1, <1>2, <1>4, <1>5 DEF SetActive, Ready, Begin, Tell, TypeOK

LEMMA IngestType ==
    ASSUME TypeOK, NEW p \in Process, NEW rows \in Batches, NEW c \in Cursors,
           IngestEvents(p, rows, c)
    PROVE  TypeOK'
<1>1. conn[p] \in Key
    BY DEF IngestEvents, Ready, TypeOK
<1>2. rows \in Seq(Event) /\ c \in Nat
    BY BatchTypes, LedgerAssumption DEF Cursors
<1>3. batch' \in [rows: Seq(Event), cursor: Nat, new: BOOLEAN]
    BY <1>2 DEF IngestEvents
<1> QED
    BY <1>1, <1>3 DEF IngestEvents, Ready, Begin, TypeOK

LEMMA NextType == TypeOK /\ [Next]_vars => TypeOK'
<1> SUFFICES ASSUME TypeOK, [Next]_vars PROVE TypeOK'
    OBVIOUS
<1>1. CASE UNCHANGED vars
    BY <1>1 DEF vars, TypeOK
<1>2. ASSUME NEW p \in Process, NEW k \in Key, Open(p, k) PROVE TypeOK'
    BY <1>2, OpenType
<1>3. ASSUME NEW p \in Process, Rollback(p) \/ Commit(p) \/ Close(p)
      PROVE  TypeOK'
    BY <1>3, EndType
<1>4. ASSUME NEW p \in Process,
             AppendAudit(p) \/ InsertRow(p) \/ MoveCursor(p)
      PROVE  TypeOK'
    BY <1>4, AuditType, InsertType, MoveType
<1>5. ASSUME NEW p \in Process, NEW rows \in Batches, NEW c \in Cursors,
             IngestEvents(p, rows, c)
      PROVE  TypeOK'
    BY <1>5, IngestType
<1>6. ASSUME NEW p \in Process, NEW k \in SendKey, ReserveSend(p, k)
      PROVE  TypeOK'
    BY <1>6, SendType DEF ReserveSend, Statuses
<1>7. ASSUME NEW p \in Process, NEW k \in SendKey,
             NEW from \in Statuses, NEW to \in Statuses,
             TransitionSend(p, k, from, to)
      PROVE  TypeOK'
    BY <1>7, SendType DEF TransitionSend
<1>8. ASSUME NEW p \in Process, NEW id \in RecordId, NEW scope \in Scope,
             NEW payload \in Payload,
             (\E b \in BOOLEAN : AppendRecord(p, id, scope, payload, b))
             \/ AppendAgain(p, id, scope, payload)
      PROVE  TypeOK'
    BY <1>8, RecordType, AgainType
<1>9. ASSUME NEW p \in Process, NEW id \in RecordId, NEW scope \in Scope,
             SetActive(p, scope, id)
      PROVE  TypeOK'
    BY <1>9, ActiveType
<1> QED
    BY <1>1, <1>2, <1>3, <1>4, <1>5, <1>6, <1>7, <1>8, <1>9 DEF Next

\* The database always has the shape the operations read it with.
THEOREM TypeCorrect == Spec => []TypeOK
BY InitType, NextType, PTL DEF Spec

-----------------------------------------------------------------------------
(* The chain.                                                              *)

LEMMA Appended ==
    ASSUME NEW c \in Seq(Entry), NEW e \in Entry
    PROVE  /\ Len(c) \in Nat /\ Len(Append(c, e)) = Len(c) + 1
           /\ Append(c, e)[Len(c) + 1] = e
           /\ \A i \in 1..Len(c) : Append(c, e)[i] = c[i]
           /\ DOMAIN c = 1..Len(c)
           /\ DOMAIN Append(c, e) = 1..(Len(c) + 1)
           /\ Append(c, e) # <<>>
OBVIOUS

\* The entry appended last is what the chain says of its object last.
LEMMA SaysAppended ==
    ASSUME NEW c \in Seq(Entry), NEW e \in Entry
    PROVE  SaysLast(Append(c, e), e.told.kind, e.told.object, e.told.value)
<1> DEFINE d == Append(c, e)
<1>1. Len(c) + 1 \in DOMAIN d /\ d[Len(c) + 1] = e
    BY Appended
<1>2. \A j \in DOMAIN d : ~(j > Len(c) + 1)
    BY Appended
<1>3. e.told.value # None
    BY ToldTypes DEF Entry
<1> HIDE DEF d
<1> QED
    BY <1>1, <1>2, <1>3 DEF SaysLast, d

\* Of any other object it says what it said before.
LEMMA SaysOther ==
    ASSUME NEW c \in Seq(Entry), NEW e \in Entry, NEW kind, NEW object, NEW value,
           SaysLast(c, kind, object, value),
           ~(e.told.kind = kind /\ e.told.object = object)
    PROVE  SaysLast(Append(c, e), kind, object, value)
<1> DEFINE d == Append(c, e)
<1> DEFINE About(s, i) == s[i].told.kind = kind /\ s[i].told.object = object
<1>1. /\ Len(c) \in Nat /\ DOMAIN c = 1..Len(c)
      /\ DOMAIN d = 1..(Len(c) + 1)
      /\ \A i \in DOMAIN c : d[i] = c[i]
    BY Appended
<1>2. ~About(d, Len(c) + 1)
    BY Appended
<1>3. CASE value = None
    <2>1. \A i \in DOMAIN c : ~About(c, i)
        BY <1>3 DEF SaysLast
    <2>2. \A i \in DOMAIN d : i \in DOMAIN c \/ i = Len(c) + 1
        BY <1>1
    <2>3. \A i \in DOMAIN d : ~About(d, i)
        BY <1>1, <1>2, <2>1, <2>2
    <2> QED
        BY <1>3, <2>3 DEF SaysLast
<1>4. CASE value # None
    <2>1. PICK i \in DOMAIN c :
             /\ About(c, i) /\ c[i].told.value = value
             /\ \A j \in DOMAIN c : j > i => ~About(c, j)
        BY <1>4 DEF SaysLast
    <2>2. i \in DOMAIN d /\ About(d, i) /\ d[i].told.value = value
        BY <1>1, <2>1
    <2>3. \A j \in DOMAIN d : j \in DOMAIN c \/ j = Len(c) + 1
        BY <1>1
    <2>4. \A j \in DOMAIN d : j > i => ~About(d, j)
        BY <1>1, <1>2, <2>1, <2>3
    <2> QED
        BY <1>4, <2>2, <2>4 DEF SaysLast
<1> QED
    BY <1>3, <1>4

\* An entry that puts a record in force is the last to say what is.
LEMMA ForceAppended ==
    ASSUME NEW c \in Seq(Entry), NEW e \in Entry, NEW s \in Scope,
           PutsInForce(e.told, s)
    PROVE  SaysInForce(Append(c, e), s, Puts(e.told))
<1> DEFINE d == Append(c, e)
<1>1. Len(c) + 1 \in DOMAIN d /\ d[Len(c) + 1] = e
    BY Appended
<1>2. \A j \in DOMAIN d : ~(j > Len(c) + 1)
    BY Appended
<1>3. Puts(e.told) # None
    <2>1. e.told \in Told
        BY DEF Entry
    <2>2. Puts(e.told) \in RecordId
        BY <2>1, ToldTypes DEF PutsInForce, Puts
    <2> QED
        BY <2>2, LedgerAssumption
<1> HIDE DEF d
<1> QED
    BY <1>1, <1>2, <1>3 DEF SaysInForce, d

\* Any other entry leaves it as it was.
LEMMA ForceOther ==
    ASSUME NEW c \in Seq(Entry), NEW e \in Entry, NEW s, NEW id,
           SaysInForce(c, s, id), ~PutsInForce(e.told, s)
    PROVE  SaysInForce(Append(c, e), s, id)
<1> DEFINE d == Append(c, e)
<1>1. /\ Len(c) \in Nat /\ DOMAIN c = 1..Len(c)
      /\ DOMAIN d = 1..(Len(c) + 1)
      /\ \A i \in DOMAIN c : d[i] = c[i]
      /\ d[Len(c) + 1] = e
    BY Appended
<1> HIDE DEF d
<1>2. \A i \in DOMAIN d : i \in DOMAIN c \/ i = Len(c) + 1
    BY <1>1
<1>3. CASE id = None
    <2>1. \A i \in DOMAIN c : ~PutsInForce(c[i].told, s)
        BY <1>3 DEF SaysInForce
    <2>2. \A i \in DOMAIN d : ~PutsInForce(d[i].told, s)
        BY <1>1, <1>2, <2>1
    <2> QED
        BY <1>3, <2>2 DEF SaysInForce, d
<1>4. CASE id # None
    <2>1. PICK i \in DOMAIN c :
             /\ PutsInForce(c[i].told, s) /\ Puts(c[i].told) = id
             /\ \A j \in DOMAIN c : j > i => ~PutsInForce(c[j].told, s)
        BY <1>4 DEF SaysInForce
    <2>2. i \in DOMAIN d /\ PutsInForce(d[i].told, s) /\ Puts(d[i].told) = id
        BY <1>1, <2>1
    <2>3. \A j \in DOMAIN d : j > i => ~PutsInForce(d[j].told, s)
        BY <1>1, <1>2, <2>1
    <2> QED
        BY <1>4, <2>2, <2>3 DEF SaysInForce, d
<1> QED
    BY <1>3, <1>4

\* What is said of a record that the entry is not about.
LEMMA RecordOther ==
    ASSUME NEW c \in Seq(Entry), NEW e \in Entry, NEW id, NEW row,
           SaysRecord(c, id, row),
           ~(e.told.kind = "record" /\ e.told.object = id)
    PROVE  SaysRecord(Append(c, e), id, row)
<1>1. CASE row = None
    BY <1>1, SaysOther DEF SaysRecord
<1>2. CASE row # None
    <2>1. PICK b \in BOOLEAN : SaysLast(c, "record", id, <<row[1], b>>)
        BY <1>2 DEF SaysRecord
    <2>2. SaysLast(Append(c, e), "record", id, <<row[1], b>>)
        BY <2>1, SaysOther
    <2> QED
        BY <1>2, <2>2 DEF SaysRecord
<1> QED
    BY <1>1, <1>2

\* What is said of the record that the entry is about.
LEMMA RecordAppended ==
    ASSUME NEW c \in Seq(Entry), NEW e \in Entry, NEW row,
           e.told.kind = "record", row # None, row[1] = e.told.value[1]
    PROVE  SaysRecord(Append(c, e), e.told.object, row)
<1>1. e.told.value \in Scope \X BOOLEAN
    BY ToldTypes DEF Entry
<1>2. PICK b \in BOOLEAN : e.told.value = <<row[1], b>>
    BY <1>1
<1>3. SaysLast(Append(c, e), "record", e.told.object, <<row[1], b>>)
    BY <1>2, SaysAppended
<1> QED
    BY <1>3 DEF SaysRecord

LEMMA VerifiesAppended ==
    ASSUME NEW c \in Seq(Entry), NEW e \in Entry, NEW h,
           Verifies(c, h), e.prev = LastHash(c)
    PROVE  Verifies(Append(c, e), [sequence |-> Len(c) + 1, hash |-> e.hash])
<1> DEFINE d == Append(c, e)
<1>1. /\ Len(c) \in Nat /\ DOMAIN c = 1..Len(c) /\ Len(d) = Len(c) + 1
      /\ DOMAIN d = 1..(Len(c) + 1) /\ d[Len(c) + 1] = e
      /\ \A i \in DOMAIN c : d[i] = c[i]
      /\ d # <<>>
    BY Appended
<1> HIDE DEF d
<1>2. LastHash(d) = e.hash
    BY <1>1 DEF LastHash
<1>3. ASSUME NEW i \in DOMAIN d
      PROVE  d[i].prev = IF i = 1 THEN 0 ELSE d[i - 1].hash
    <2>1. CASE i \in DOMAIN c
        <3>1. c[i].prev = IF i = 1 THEN 0 ELSE c[i - 1].hash
            BY <2>1 DEF Verifies
        <3>2. i # 1 => i - 1 \in DOMAIN c
            BY <1>1, <2>1
        <3> QED
            BY <1>1, <2>1, <3>1, <3>2
    <2>2. CASE i = Len(c) + 1
        <3>1. CASE c = <<>>
            BY <1>1, <2>2, <3>1 DEF LastHash
        <3>2. CASE c # <<>>
            <4>1. Len(c) \in DOMAIN c
                BY <1>1, <3>2
            <4> QED
                BY <1>1, <2>2, <3>2, <4>1 DEF LastHash
        <3> QED
            BY <3>1, <3>2
    <2> QED
        BY <1>1, <1>3, <2>1, <2>2
<1> QED
    BY <1>1, <1>2, <1>3 DEF Verifies, d

-----------------------------------------------------------------------------
(* The inductive invariant: opening a ledger, ending a transaction.        *)

LEMMA GrowsSelf ==
    ASSUME NEW d \in Database
    PROVE  Grows(d, d)
<1>1. d.cursor \in Nat \cup {None} /\ Len(d.chain) \in Nat
    BY FieldTypes
<1>2. d.cursor # None => d.cursor >= d.cursor
    BY <1>1
<1> QED
    BY <1>1, <1>2 DEF Grows

\* What reads other fields than those that changed.
LEMMA SameFields ==
    ASSUME NEW c, NEW d, NEW e,
           e.events = d.events, e.records = d.records, e.cursor = d.cursor,
           e.active = d.active, e.sends = d.sends, e.chain = d.chain,
           e.quiet = d.quiet
    PROVE  /\ Pointed(d) => Pointed(e)
           /\ Grows(c, d) => Grows(c, e)
           /\ Explains(d) => Explains(e)
<1>1. Pointed(d) => Pointed(e)
    BY DEF Pointed
<1>2. Grows(c, d) => Grows(c, e)
    BY DEF Grows
<1>3. Explains(d) => Explains(e)
    BY DEF Explains
<1> QED
    BY <1>1, <1>2, <1>3

LEMMA InitInv == Init => LedgerInv
<1> SUFFICES ASSUME Init PROVE LedgerInv
    OBVIOUS
<1>1. TypeOK
    BY InitType
<1>2. work = db /\ step = "idle" /\ owner = None
    BY DEF Init
<1>3. /\ db.active \in [Scope -> {None}] /\ db.records \in [RecordId -> {None}]
      /\ db.sends \in [SendKey -> {None}] /\ db.cursor = None
      /\ db.chain = <<>> /\ db.head = [sequence |-> 0, hash |-> 0]
      /\ db.version # Schema
    BY LedgerAssumption DEF Init
<1>4. Pointed(db)
    BY <1>3 DEF Pointed
<1>5. Grows(db, work)
    BY <1>1, <1>2, GrowsSelf DEF TypeOK
<1>6. KeyInv
    BY <1>2, <1>3 DEF Init, KeyInv
<1>7. Verifies(db.chain, db.head)
    BY <1>3 DEF Verifies, LastHash
<1>8. \A kind, object : SaysLast(db.chain, kind, object, None)
    BY <1>3 DEF SaysLast
<1>9. Explains(db)
    BY <1>3, <1>8 DEF Explains, SaysRecord, SaysInForce
<1> QED
    BY <1>2, <1>4, <1>5, <1>6, <1>7, <1>9 DEF LedgerInv, ChainInv

LEMMA OpenInv ==
    ASSUME TypeOK, LedgerInv, NEW p \in Process, NEW k \in Key, Open(p, k)
    PROVE  LedgerInv'
<1>1. /\ owner = None /\ owner' = p /\ p # None /\ using' = k /\ k # None
      /\ step' = "commit" /\ db' = db /\ conn' = conn
    BY LedgerAssumption DEF Open, Begin
<1>2. work' = [db EXCEPT !.version = Schema, !.key = k]
    BY DEF Open
<1>3. /\ work'.events = db.events /\ work'.records = db.records
      /\ work'.cursor = db.cursor /\ work'.active = db.active
      /\ work'.sends = db.sends /\ work'.chain = db.chain
      /\ work'.head = db.head /\ work'.signed = db.signed
      /\ work'.version = Schema /\ work'.key = k /\ work'.quiet = db.quiet
    BY <1>2, FieldTypes DEF TypeOK
<1>4. Pointed(db) /\ KeyInv /\ ChainInv
    BY DEF LedgerInv
<1>5. Grows(db, db)
    BY GrowsSelf DEF TypeOK
<1>6. Pointed(work') /\ Grows(db, work') /\ Explains(work')
    BY <1>3, <1>4, <1>5, SameFields DEF ChainInv
<1>7. KeyInv'
    <2>1. Opens(k)
        BY DEF Open
    <2>2. db.signed \subseteq {k} /\ db.key \in {None, k}
        BY <1>4, <2>1 DEF Opens, KeyInv
    <2> QED
        BY <1>1, <1>3, <1>4, <2>2 DEF KeyInv
<1>8. ChainInv'
    BY <1>1, <1>3, <1>4, <1>6 DEF ChainInv
<1> QED
    BY <1>1, <1>4, <1>6, <1>7, <1>8 DEF LedgerInv

LEMMA EndInv ==
    ASSUME TypeOK, LedgerInv, NEW p \in Process,
           Rollback(p) \/ Commit(p) \/ Close(p)
    PROVE  LedgerInv'
<1>1. Pointed(db) /\ Pointed(work) /\ KeyInv /\ ChainInv /\ Grows(db, work)
    BY DEF LedgerInv
<1>2. Grows(db, db) /\ Grows(work, work)
    BY GrowsSelf DEF TypeOK
<1>3. CASE Idle /\ work' = db /\ db' = db /\ \A q \in Process : conn'[q] \in {conn[q], None}
    <2>1. owner' = None /\ step' = "idle"
        BY <1>3 DEF Idle
    <2>2. KeyInv'
        BY <1>1, <1>3, <2>1 DEF KeyInv
    <2>3. ChainInv'
        BY <1>1, <1>3, <2>1 DEF ChainInv
    <2> QED
        BY <1>1, <1>2, <1>3, <2>1, <2>2, <2>3 DEF LedgerInv
<1>4. CASE Commit(p)
    <2>1. owner' = None /\ step' = "idle" /\ db' = work /\ work' = work
          /\ owner # None /\ step = "commit"
        BY <1>4 DEF Commit, Idle
    <2>2. using \in Key /\ using # None
        BY <2>1, LedgerAssumption DEF TypeOK
    <2>3. \A q \in Process : conn'[q] = IF q = p THEN using ELSE conn[q]
        BY <1>4 DEF Commit, TypeOK
    <2>4. /\ work.version = Schema /\ work.key = using
          /\ work.signed \subseteq {using} /\ db.key \in {None, using}
        BY <1>1, <2>1 DEF KeyInv
    <2>5. ASSUME NEW q \in Process, conn'[q] # None
          PROVE  work.key = conn'[q]
        <3>1. CASE q = p
            BY <2>3, <2>4, <3>1
        <3>2. CASE q # p
            <4>1. conn[q] # None /\ conn'[q] = conn[q]
                BY <2>3, <2>5, <3>2
            <4> QED
                BY <1>1, <2>4, <4>1 DEF KeyInv
        <3> QED
            BY <3>1, <3>2
    <2>6. KeyInv'
        BY <2>1, <2>2, <2>4, <2>5 DEF KeyInv
    <2>7. ChainInv'
        BY <1>1, <2>1 DEF ChainInv
    <2> QED
        BY <1>1, <1>2, <2>1, <2>6, <2>7 DEF LedgerInv
<1>5. CASE Rollback(p)
    BY <1>3, <1>5 DEF Rollback
<1>6. CASE Close(p)
    <2>1. /\ db' = db
          /\ \A q \in Process : conn'[q] = IF q = p THEN None ELSE conn[q]
        BY <1>6 DEF Close, TypeOK
    <2>2. CASE owner = p
        BY <1>3, <1>6, <2>1, <2>2 DEF Close
    <2>3. CASE owner # p
        <3>1. UNCHANGED <<db, owner, using, step, batch, entry, work>>
            BY <1>6, <2>3 DEF Close
        <3>2. KeyInv'
            BY <1>1, <2>1, <3>1 DEF KeyInv
        <3>3. ChainInv'
            BY <1>1, <3>1 DEF ChainInv
        <3> QED
            BY <1>1, <3>1, <3>2, <3>3 DEF LedgerInv
    <2> QED
        BY <2>2, <2>3
<1> QED
    BY <1>4, <1>5, <1>6

-----------------------------------------------------------------------------
(* The inductive invariant: the statements of a transaction.               *)

\* What does not change when a statement of the open transaction changes work.
LEMMA StatementKeeps ==
    ASSUME TypeOK, LedgerInv, owner # None,
           UNCHANGED <<db, conn, owner, using>>,
           work'.version = work.version, work'.key = work.key,
           work'.signed \subseteq work.signed \cup {using}
    PROVE  KeyInv'
BY DEF LedgerInv, KeyInv

LEMMA AuditInv ==
    ASSUME TypeOK, LedgerInv, NEW p \in Process, AppendAudit(p)
    PROVE  LedgerInv'
<1> DEFINE c == work.chain
           after == Append(c, NewEntry)
<1>1. /\ owner # None /\ owner' = owner /\ step = "audit" /\ step' = "commit"
      /\ db' = db /\ conn' = conn /\ using' = using
    BY DEF AppendAudit
<1>2. NewEntry \in Entry /\ entry \in Told /\ c \in Seq(Entry)
    BY <1>1, NewEntryType, FieldTypes DEF TypeOK
<1>3. /\ work'.events = work.events /\ work'.records = work.records
      /\ work'.cursor = work.cursor /\ work'.active = work.active
      /\ work'.sends = work.sends /\ work'.version = work.version
      /\ work'.key = work.key /\ work'.signed = work.signed
      /\ work'.quiet = work.quiet /\ work'.chain = after
      /\ work'.head = [sequence |-> Len(c) + 1, hash |-> NewEntry.hash]
    BY FieldTypes DEF AppendAudit, NewEntry, TypeOK
<1>4. NewEntry.told = entry /\ NewEntry.prev = LastHash(c)
    BY DEF NewEntry
<1>5. Pointed(db) /\ Pointed(work) /\ ChainInv /\ Grows(db, work)
    BY DEF LedgerInv
<1>6. /\ Len(c) \in Nat /\ DOMAIN c = 1..Len(c) /\ Len(after) = Len(c) + 1
      /\ \A i \in DOMAIN c : after[i] = c[i]
    BY <1>2, Appended
<1>7. ASSUME NEW kind, NEW object, NEW value,
             ~(entry.kind = kind /\ entry.object = object),
             SaysLast(c, kind, object, value)
      PROVE  SaysLast(after, kind, object, value)
    BY <1>2, <1>4, <1>7, SaysOther
<1>8. SaysLast(after, entry.kind, entry.object, entry.value)
    BY <1>2, <1>4, SaysAppended
<1>9. Verifies(after, work'.head)
    BY <1>2, <1>3, <1>4, <1>5, VerifiesAppended DEF ChainInv
<1> HIDE DEF after
<1>10. Pointed(work')
    BY <1>3, <1>5 DEF Pointed
<1>11. Grows(db, work')
    <2>1. db.chain \in Seq(Entry)
        BY FieldTypes DEF TypeOK
    <2>2. /\ Len(db.chain) \in Nat /\ DOMAIN db.chain = 1..Len(db.chain)
          /\ Len(c) >= Len(db.chain)
          /\ \A i \in DOMAIN db.chain : c[i] = db.chain[i]
        BY <1>5, <2>1 DEF Grows
    <2>3. /\ Len(after) >= Len(db.chain)
          /\ \A i \in DOMAIN db.chain : after[i] = db.chain[i]
        BY <1>6, <2>2
    <2> QED
        BY <1>3, <1>5, <2>3 DEF Grows
<1>12. KeyInv'
    BY <1>1, <1>3, StatementKeeps
<1>13. Explains(work')
    <2>1. ExplainsWith(work, entry)
        BY <1>1, <1>5 DEF ChainInv
    <2>2. ASSUME NEW id \in RecordId
          PROVE  SaysRecord(after, id, work.records[id])
        <3>1. CASE entry.kind = "record" /\ entry.object = id
            <4>1. /\ work.records[id] # None
                  /\ work.records[id][1] = entry.value[1]
                BY <2>1, <3>1 DEF ExplainsWith
            <4> QED
                BY <1>2, <1>4, <3>1, <4>1, RecordAppended DEF after
        <3>2. CASE ~(entry.kind = "record" /\ entry.object = id)
            <4>1. SaysRecord(c, id, work.records[id])
                BY <2>1, <3>2 DEF ExplainsWith
            <4> QED
                BY <1>2, <1>4, <3>2, <4>1, RecordOther DEF after
        <3> QED
            BY <3>1, <3>2
    <2>3. ASSUME NEW s \in Scope \ work.quiet
          PROVE  SaysInForce(after, s, work.active[s])
        <3>1. CASE PutsInForce(entry, s)
            <4>1. work.active[s] = Puts(entry)
                BY <2>1, <3>1 DEF ExplainsWith
            <4> QED
                BY <1>2, <1>4, <3>1, <4>1, ForceAppended DEF after
        <3>2. CASE ~PutsInForce(entry, s)
            <4>1. SaysInForce(c, s, work.active[s])
                BY <2>1, <3>2 DEF ExplainsWith
            <4> QED
                BY <1>2, <1>4, <3>2, <4>1, ForceOther DEF after
        <3> QED
            BY <3>1, <3>2
    <2>4. ASSUME NEW k \in SendKey
          PROVE  SaysLast(after, "send", k, work.sends[k])
        BY <1>7, <1>8, <2>1 DEF ExplainsWith
    <2>5. SaysLast(after, "cursor", "events", work.cursor)
        BY <1>2, <1>7, <1>8, <2>1, ToldTypes DEF ExplainsWith
    <2> QED
        BY <1>3, <2>2, <2>3, <2>4, <2>5 DEF Explains
<1>14. ChainInv'
    BY <1>1, <1>3, <1>5, <1>9, <1>13 DEF ChainInv
<1> QED
    BY <1>1, <1>5, <1>10, <1>11, <1>12, <1>14 DEF LedgerInv

LEMMA InsertInv ==
    ASSUME TypeOK, LedgerInv, NEW p \in Process, InsertRow(p)
    PROVE  LedgerInv'
<1> DEFINE event == Head(batch.rows)
<1>1. /\ owner # None /\ owner' = owner /\ step = "rows" /\ step' = "rows"
      /\ db' = db /\ conn' = conn /\ using' = using /\ entry' = entry
      /\ work.events[event.id] = None \/ work.events[event.id] = event.body
    BY DEF InsertRow
<1>2. /\ work'.records = work.records /\ work'.cursor = work.cursor
      /\ work'.active = work.active /\ work'.sends = work.sends
      /\ work'.quiet = work.quiet
      /\ work'.version = work.version /\ work'.key = work.key
      /\ work'.chain = work.chain /\ work'.head = work.head
      /\ work'.signed = work.signed \cup {using}
      /\ work'.events = [work.events EXCEPT ![event.id] = event.body]
    BY FieldTypes DEF InsertRow, TypeOK
<1>3. Pointed(db) /\ Pointed(work) /\ ChainInv /\ Grows(db, work)
    BY DEF LedgerInv
<1>4. Pointed(work')
    BY <1>2, <1>3 DEF Pointed
<1>5. Grows(db, work')
    <2>1. work.events \in [EventId -> Body \cup {None}]
        BY FieldTypes DEF TypeOK
    <2>2. ASSUME NEW id \in EventId, db.events[id] # None
          PROVE  work'.events[id] = db.events[id]
        BY <1>1, <1>2, <1>3, <2>1, <2>2 DEF Grows
    <2> QED
        BY <1>2, <1>3, <2>2 DEF Grows
<1>6. KeyInv'
    BY <1>1, <1>2, StatementKeeps
<1>7. Explains(work')
    BY <1>1, <1>2, <1>3 DEF ChainInv, Explains
<1>8. ChainInv'
    BY <1>1, <1>2, <1>3, <1>7 DEF ChainInv
<1> QED
    BY <1>1, <1>3, <1>4, <1>5, <1>6, <1>8 DEF LedgerInv

LEMMA MoveInv ==
    ASSUME TypeOK, LedgerInv, NEW p \in Process, MoveCursor(p)
    PROVE  LedgerInv'
<1> DEFINE after == CursorAfter(work.cursor, batch.cursor)
<1>1. /\ owner # None /\ owner' = owner /\ step = "rows"
      /\ db' = db /\ conn' = conn /\ using' = using
    BY DEF MoveCursor
<1>2. /\ work'.events = work.events /\ work'.records = work.records
      /\ work'.active = work.active /\ work'.sends = work.sends
      /\ work'.quiet = work.quiet
      /\ work'.version = work.version /\ work'.key = work.key
      /\ work'.chain = work.chain /\ work'.head = work.head
      /\ work'.signed = work.signed /\ work'.cursor = after
    BY FieldTypes DEF MoveCursor, TypeOK
<1>3. Pointed(db) /\ Pointed(work) /\ ChainInv /\ Grows(db, work)
    BY DEF LedgerInv
<1>4. /\ work.cursor \in Nat \cup {None} /\ db.cursor \in Nat \cup {None}
      /\ batch.cursor \in Nat
    BY FieldTypes DEF TypeOK
<1>5. after \in Nat /\ (work.cursor # None => after >= work.cursor)
    BY <1>4, CursorAfterType
<1>6. \/ after = work.cursor /\ step' = "commit"
      \/ /\ step' = "audit"
         /\ entry' = [kind |-> "cursor", object |-> "events", value |-> after]
    BY DEF MoveCursor, Tell
<1> HIDE DEF after
<1>7. Pointed(work')
    BY <1>2, <1>3 DEF Pointed
<1>8. Grows(db, work')
    <2>1. db.cursor # None => after # None /\ after >= db.cursor
        BY <1>3, <1>4, <1>5, LedgerAssumption DEF Grows
    <2> QED
        BY <1>2, <1>3, <2>1 DEF Grows
<1>9. KeyInv'
    BY <1>1, <1>2, StatementKeeps
<1>10. Explains(work)
    BY <1>1, <1>3 DEF ChainInv
<1>11. ChainInv'
    <2>1. CASE after = work.cursor /\ step' = "commit"
        <3>1. Explains(work')
            BY <1>2, <1>10, <2>1 DEF Explains
        <3> QED
            BY <1>1, <1>2, <1>3, <2>1, <3>1 DEF ChainInv
    <2>2. CASE /\ step' = "audit"
               /\ entry' = [kind |-> "cursor", object |-> "events", value |-> after]
        <3>1. ExplainsWith(work', entry')
            BY <1>2, <1>10, <2>2 DEF Explains, ExplainsWith, PutsInForce
        <3> QED
            BY <1>1, <1>2, <1>3, <2>2, <3>1 DEF ChainInv
    <2> QED
        BY <1>6, <2>1, <2>2
<1> QED
    BY <1>1, <1>3, <1>7, <1>8, <1>9, <1>11 DEF LedgerInv

-----------------------------------------------------------------------------
(* The inductive invariant: the operations.                                *)

LEMMA ReadyKeeps ==
    ASSUME TypeOK, LedgerInv, NEW p \in Process, Ready(p)
    PROVE  /\ work = db /\ owner = None /\ step = "idle"
           /\ owner' = p /\ p # None /\ using' = conn[p]
           /\ Pointed(db) /\ Grows(db, db) /\ Explains(db)
           /\ Verifies(db.chain, db.head)
           /\ /\ db' = db /\ conn' = conn
              /\ work'.version = db.version /\ work'.key = db.key
              /\ work'.signed \subseteq db.signed \cup {conn[p]}
              => KeyInv'
<1>1. owner = None /\ owner' = p /\ p # None /\ using' = conn[p] /\ conn[p] # None
    BY LedgerAssumption DEF Ready, Begin
<1>2. work = db /\ step = "idle" /\ Pointed(db) /\ KeyInv /\ ChainInv
    BY <1>1 DEF LedgerInv
<1>3. Grows(db, db)
    BY GrowsSelf DEF TypeOK
<1>4. db.version = Schema /\ db.key = conn[p] /\ db.signed \subseteq {conn[p]}
    BY <1>1, <1>2 DEF KeyInv
<1>5. ASSUME db' = db, conn' = conn,
             work'.version = db.version, work'.key = db.key,
             work'.signed \subseteq db.signed \cup {conn[p]}
      PROVE  KeyInv'
    BY <1>1, <1>2, <1>4, <1>5 DEF KeyInv
<1> QED
    BY <1>1, <1>2, <1>3, <1>5 DEF ChainInv

LEMMA IngestInv ==
    ASSUME TypeOK, LedgerInv, NEW p \in Process, NEW rows \in Batches,
           NEW c \in Cursors, IngestEvents(p, rows, c)
    PROVE  LedgerInv'
<1>1. Ready(p) /\ db' = db /\ work' = work /\ conn' = conn /\ step' = "rows"
    BY DEF IngestEvents
<1>2. KeyInv'
    BY <1>1, ReadyKeeps
<1>3. ChainInv'
    BY <1>1, ReadyKeeps DEF ChainInv
<1> QED
    BY <1>1, <1>2, <1>3, ReadyKeeps DEF LedgerInv

LEMMA SendInv ==
    ASSUME TypeOK, LedgerInv, NEW p \in Process, NEW k \in SendKey, NEW to \in Statuses,
           Ready(p), Tell("send", k, to),
           db.sends[k] # None => to \in SendTransitions[db.sends[k]],
           work' = [work EXCEPT !.sends[k] = to,
                                !.signed = @ \cup {conn[p]}],
           UNCHANGED <<db, conn, batch, hashes>>
    PROVE  LedgerInv'
<1>1. /\ db' = db /\ conn' = conn /\ step' = "audit"
      /\ entry' = [kind |-> "send", object |-> k, value |-> to]
    BY DEF Tell
<1>2. /\ work = db /\ owner' # None /\ Pointed(db) /\ Grows(db, db)
      /\ Explains(db) /\ Verifies(db.chain, db.head)
    BY ReadyKeeps
<1>3. db.sends \in [SendKey -> Statuses \cup {None}]
    BY FieldTypes DEF TypeOK
<1>4. /\ work'.events = db.events /\ work'.records = db.records
      /\ work'.active = db.active /\ work'.cursor = db.cursor
      /\ work'.version = db.version /\ work'.key = db.key
      /\ work'.chain = db.chain /\ work'.head = db.head
      /\ work'.signed = db.signed \cup {conn[p]} /\ work'.quiet = db.quiet
      /\ work'.sends = [db.sends EXCEPT ![k] = to]
    BY <1>2, FieldTypes DEF TypeOK
<1>5. Pointed(work')
    BY <1>2, <1>4 DEF Pointed
<1>6. Grows(db, work')
    <2>1. ASSUME NEW i \in SendKey, db.sends[i] # None
          PROVE  \/ work'.sends[i] = db.sends[i]
                 \/ work'.sends[i] \in SendTransitions[db.sends[i]]
        BY <1>3, <1>4, <2>1
    <2> QED
        BY <1>2, <1>4, <2>1 DEF Grows
<1>7. KeyInv'
    BY <1>1, <1>4, ReadyKeeps
<1>8. ExplainsWith(work', entry')
    BY <1>1, <1>2, <1>3, <1>4 DEF Explains, ExplainsWith, PutsInForce
<1>9. ChainInv'
    BY <1>1, <1>2, <1>4, <1>8 DEF ChainInv
<1> QED
    BY <1>1, <1>2, <1>5, <1>6, <1>7, <1>9 DEF LedgerInv

LEMMA RecordInv ==
    ASSUME TypeOK, LedgerInv, NEW p \in Process, NEW id \in RecordId,
           NEW scope \in Scope, NEW payload \in Payload, NEW activate \in BOOLEAN,
           AppendRecord(p, id, scope, payload, activate)
    PROVE  LedgerInv'
<1> DEFINE row == <<scope, payload>>
           told == <<scope, activate>>
<1>1. /\ db' = db /\ conn' = conn /\ step' = "audit" /\ Ready(p)
      /\ entry' = [kind |-> "record", object |-> id, value |-> told]
      /\ db.records[id] = None
    BY DEF AppendRecord, Tell
<1>2. /\ work = db /\ owner' # None /\ Pointed(db) /\ Grows(db, db)
      /\ Explains(db) /\ Verifies(db.chain, db.head)
    BY <1>1, ReadyKeeps
<1>3. /\ db.records \in [RecordId -> (Scope \X Payload) \cup {None}]
      /\ db.active \in [Scope -> RecordId \cup {None}]
    BY FieldTypes DEF TypeOK
<1>4. /\ work'.events = db.events /\ work'.sends = db.sends
      /\ work'.active = [db.active EXCEPT ![scope] = IF activate THEN id ELSE @]
      /\ work'.quiet = IF activate THEN db.quiet \ {scope} ELSE db.quiet
      /\ work'.cursor = db.cursor
      /\ work'.version = db.version /\ work'.key = db.key
      /\ work'.chain = db.chain /\ work'.head = db.head
      /\ work'.signed = db.signed \cup {conn[p]}
      /\ work'.records = [db.records EXCEPT ![id] = row]
    BY <1>2, FieldTypes DEF AppendRecord, TypeOK
<1>5. row # None /\ row[1] = scope /\ told[1] = scope /\ id # None
    BY LedgerAssumption
<1>6. told = <<scope, TRUE>> <=> activate
    OBVIOUS
<1>7. \A s \in Scope : told = <<s, TRUE>> <=> s = scope /\ activate
    OBVIOUS
<1> HIDE DEF row, told
<1>8. Pointed(work')
    <2>1. ASSUME NEW s \in Scope, work'.active[s] # None
          PROVE  /\ work'.records[work'.active[s]] # None
                 /\ work'.records[work'.active[s]][1] = s
        <3>1. CASE s = scope /\ activate
            <4>1. work'.active[s] = id /\ work'.records[id] = row
                BY <1>3, <1>4, <3>1
            <4> QED
                BY <1>5, <3>1, <4>1
        <3>2. CASE ~(s = scope /\ activate)
            <4>1. work'.active[s] = db.active[s]
                BY <1>3, <1>4, <3>2
            <4>2. /\ db.records[db.active[s]] # None
                  /\ db.records[db.active[s]][1] = s
                  /\ db.active[s] \in RecordId
                BY <1>2, <1>3, <2>1, <4>1 DEF Pointed
            <4>3. work'.records[db.active[s]] = db.records[db.active[s]]
                BY <1>1, <1>3, <1>4, <4>2
            <4> QED
                BY <4>1, <4>2, <4>3
        <3> QED
            BY <3>1, <3>2
    <2> QED
        BY <2>1 DEF Pointed
<1>9. Grows(db, work')
    BY <1>1, <1>2, <1>3, <1>4 DEF Grows
<1>10. KeyInv'
    BY <1>1, <1>4, ReadyKeeps
<1>11. ExplainsWith(work', entry')
    <2>1. ASSUME NEW i \in RecordId
          PROVE  IF i = id
                 THEN /\ work'.records[i] # None
                      /\ work'.records[i][1] = told[1]
                 ELSE SaysRecord(work'.chain, i, work'.records[i])
        BY <1>2, <1>3, <1>4, <1>5 DEF Explains
    <2>2. ASSUME NEW s \in Scope
          PROVE  IF s = scope /\ activate THEN work'.active[s] = id
                 ELSE s \notin work'.quiet
                         => SaysInForce(work'.chain, s, work'.active[s])
        BY <1>2, <1>3, <1>4 DEF Explains
    <2>3. \A s \in Scope : PutsInForce(entry', s) <=> s = scope /\ activate
        BY <1>1, <1>7 DEF PutsInForce
    <2>4. Puts(entry') = id
        BY <1>1 DEF Puts
    <2> QED
        BY <1>1, <1>2, <1>4, <2>1, <2>2, <2>3, <2>4 DEF Explains, ExplainsWith
<1>12. ChainInv'
    BY <1>1, <1>2, <1>4, <1>11 DEF ChainInv
<1> QED
    BY <1>1, <1>2, <1>8, <1>9, <1>10, <1>12 DEF LedgerInv

LEMMA AgainInv ==
    ASSUME TypeOK, LedgerInv, NEW p \in Process, NEW id \in RecordId,
           NEW scope \in Scope, NEW payload \in Payload,
           AppendAgain(p, id, scope, payload)
    PROVE  LedgerInv'
<1>1. /\ db' = db /\ conn' = conn /\ step' = "commit" /\ Ready(p)
      /\ db.records[id] = <<scope, payload>>
    BY DEF AppendAgain
<1>2. /\ work = db /\ owner' # None /\ Pointed(db) /\ Grows(db, db)
      /\ Explains(db) /\ Verifies(db.chain, db.head)
    BY <1>1, ReadyKeeps
<1>3. db.active \in [Scope -> RecordId \cup {None}]
    BY FieldTypes DEF TypeOK
<1>4. /\ work'.events = db.events /\ work'.sends = db.sends
      /\ work'.records = db.records /\ work'.cursor = db.cursor
      /\ work'.version = db.version /\ work'.key = db.key
      /\ work'.chain = db.chain /\ work'.head = db.head
      /\ work'.signed = db.signed /\ work'.quiet = db.quiet \cup {scope}
      /\ work'.active = [db.active EXCEPT ![scope] = id]
    BY <1>2, FieldTypes DEF AppendAgain, TypeOK
<1>5. db.records[id] # None /\ db.records[id][1] = scope
    BY <1>1, LedgerAssumption
<1>6. Pointed(work')
    BY <1>2, <1>3, <1>4, <1>5 DEF Pointed
<1>7. Grows(db, work')
    BY <1>2, <1>4 DEF Grows
<1>8. KeyInv'
    BY <1>1, <1>4, ReadyKeeps
<1>9. Explains(work')
    BY <1>2, <1>3, <1>4 DEF Explains
<1>10. ChainInv'
    BY <1>1, <1>2, <1>4, <1>9 DEF ChainInv
<1> QED
    BY <1>1, <1>2, <1>6, <1>7, <1>8, <1>10 DEF LedgerInv

LEMMA ActiveInv ==
    ASSUME TypeOK, LedgerInv, NEW p \in Process, NEW id \in RecordId,
           NEW scope \in Scope, SetActive(p, scope, id)
    PROVE  LedgerInv'
<1>1. /\ db' = db /\ conn' = conn /\ step' = "audit" /\ Ready(p)
      /\ entry' = [kind |-> "active", object |-> scope, value |-> id]
      /\ db.records[id] # None /\ db.records[id][1] = scope
    BY DEF SetActive, Tell
<1>2. /\ work = db /\ owner' # None /\ Pointed(db) /\ Grows(db, db)
      /\ Explains(db) /\ Verifies(db.chain, db.head)
    BY <1>1, ReadyKeeps
<1>3. db.active \in [Scope -> RecordId \cup {None}]
    BY FieldTypes DEF TypeOK
<1>4. /\ work'.events = db.events /\ work'.sends = db.sends
      /\ work'.records = db.records /\ work'.cursor = db.cursor
      /\ work'.version = db.version /\ work'.key = db.key
      /\ work'.chain = db.chain /\ work'.head = db.head
      /\ work'.signed = db.signed /\ work'.quiet = db.quiet \ {scope}
      /\ work'.active = [db.active EXCEPT ![scope] = id]
    BY <1>2, FieldTypes DEF SetActive, TypeOK
<1>5. Pointed(work')
    BY <1>1, <1>2, <1>3, <1>4 DEF Pointed
<1>6. Grows(db, work')
    BY <1>2, <1>4 DEF Grows
<1>7. KeyInv'
    BY <1>1, <1>4, ReadyKeeps
<1>8. ExplainsWith(work', entry')
    BY <1>1, <1>2, <1>3, <1>4 DEF Explains, ExplainsWith, PutsInForce, Puts
<1>9. ChainInv'
    BY <1>1, <1>2, <1>4, <1>8 DEF ChainInv
<1> QED
    BY <1>1, <1>2, <1>5, <1>6, <1>7, <1>9 DEF LedgerInv

LEMMA NextInv == TypeOK /\ LedgerInv /\ [Next]_vars => LedgerInv'
<1> SUFFICES ASSUME TypeOK, LedgerInv, [Next]_vars PROVE LedgerInv'
    OBVIOUS
<1>1. CASE UNCHANGED vars
    BY <1>1 DEF vars, LedgerInv, KeyInv, ChainInv
<1>2. ASSUME NEW p \in Process, NEW k \in Key, Open(p, k) PROVE LedgerInv'
    BY <1>2, OpenInv
<1>3. ASSUME NEW p \in Process, Rollback(p) \/ Commit(p) \/ Close(p)
      PROVE  LedgerInv'
    BY <1>3, EndInv
<1>4. ASSUME NEW p \in Process,
             AppendAudit(p) \/ InsertRow(p) \/ MoveCursor(p)
      PROVE  LedgerInv'
    BY <1>4, AuditInv, InsertInv, MoveInv
<1>5. ASSUME NEW p \in Process, NEW rows \in Batches, NEW c \in Cursors,
             IngestEvents(p, rows, c)
      PROVE  LedgerInv'
    BY <1>5, IngestInv
<1>6. ASSUME NEW p \in Process, NEW k \in SendKey, ReserveSend(p, k)
      PROVE  LedgerInv'
    BY <1>6, SendInv DEF ReserveSend, Statuses
<1>7. ASSUME NEW p \in Process, NEW k \in SendKey,
             NEW from \in Statuses, NEW to \in Statuses,
             TransitionSend(p, k, from, to)
      PROVE  LedgerInv'
    BY <1>7, SendInv DEF TransitionSend
<1>8. ASSUME NEW p \in Process, NEW id \in RecordId, NEW scope \in Scope,
             NEW payload \in Payload,
             (\E b \in BOOLEAN : AppendRecord(p, id, scope, payload, b))
             \/ AppendAgain(p, id, scope, payload)
      PROVE  LedgerInv'
    BY <1>8, RecordInv, AgainInv
<1>9. ASSUME NEW p \in Process, NEW id \in RecordId, NEW scope \in Scope,
             SetActive(p, scope, id)
      PROVE  LedgerInv'
    BY <1>9, ActiveInv
<1> QED
    BY <1>1, <1>2, <1>3, <1>4, <1>5, <1>6, <1>7, <1>8, <1>9 DEF Next

-----------------------------------------------------------------------------
(* Theorems.                                                               *)

\* Between transactions nothing is half done; within one, the database at
\* work is the committed one grown, with at most one audit entry to come.
THEOREM LedgerIsSound == Spec => []LedgerInv
BY InitType, NextType, InitInv, NextInv, PTL DEF Spec

\* verify_audit_chain accepts the committed chain, whatever transaction
\* raised or died.
THEOREM ChainAlwaysVerifies == Spec => []ChainVerifies
<1>1. LedgerInv => ChainVerifies
    BY DEF LedgerInv, ChainInv, ChainVerifies
<1> QED
    BY <1>1, LedgerIsSound, PTL

\* Every record and its scope, every send status and the cursor are what the
\* audit chain last said of them, and so is the record in force in a scope,
\* unless a record appended again moved its pointer last: no other transaction
\* changes one of them without its entry.
THEOREM ChainAlwaysExplains == Spec => []AuditExplains
<1>1. LedgerInv => AuditExplains
    BY DEF LedgerInv, ChainInv, AuditExplains
<1> QED
    BY <1>1, LedgerIsSound, PTL

\* get_active_runtime_record always finds a record of the scope asked for.
THEOREM PointersAreSound == Spec => []PointersNameRecords
<1>1. TypeOK /\ LedgerInv => PointersNameRecords
    <2> SUFFICES ASSUME TypeOK, LedgerInv, NEW s \in Scope
                 PROVE  ActiveReads(s)
        BY DEF PointersNameRecords
    <2>1. /\ db.active \in [Scope -> RecordId \cup {None}]
          /\ db.records \in [RecordId -> (Scope \X Payload) \cup {None}]
        BY FieldTypes DEF TypeOK
    <2>2. db.active[s] # None => db.records[db.active[s]] \in {s} \X Payload
        BY <2>1 DEF LedgerInv, Pointed
    <2> QED
        BY <2>2 DEF ActiveReads
<1> QED
    BY <1>1, TypeCorrect, LedgerIsSound, PTL

\* Audit chain, tables and pointers agree in every committed state, whatever
\* transaction raised or died, but for the pointers that a record appended
\* again moved without an entry.
THEOREM LedgerAlwaysAgrees == Spec => []LedgerAgrees
BY ChainAlwaysVerifies, ChainAlwaysExplains, PointersAreSound, PTL DEF LedgerAgrees

\* A process that has the ledger open reads every protected row of it.
THEOREM OpenedCanBeRead == Spec => []OpenedIsReadable
<1>1. LedgerInv => OpenedIsReadable
    BY DEF LedgerInv, KeyInv, OpenedIsReadable, Reads
<1> QED
    BY <1>1, LedgerIsSound, PTL

\* Only a commit changes the committed database.
LEMMA OnlyCommit ==
    ASSUME [Next]_vars
    PROVE  db' = db \/ \E p \in Process : Commit(p)
<1>1. ASSUME NEW p \in Process, NEW id \in RecordId, NEW scope \in Scope,
             NEW payload \in Payload, NEW b \in BOOLEAN,
             AppendRecord(p, id, scope, payload, b)
      PROVE  db' = db
    BY <1>1 DEF AppendRecord
<1>2. ASSUME NEW p \in Process, NEW id \in RecordId, NEW scope \in Scope,
             NEW payload \in Payload, AppendAgain(p, id, scope, payload)
      PROVE  db' = db
    BY <1>2 DEF AppendAgain
<1>3. ASSUME NEW p \in Process, NEW id \in RecordId, NEW scope \in Scope,
             SetActive(p, scope, id)
      PROVE  db' = db
    BY <1>3 DEF SetActive
<1>4. ASSUME NEW p \in Process, NEW k \in SendKey, ReserveSend(p, k)
      PROVE  db' = db
    BY <1>4 DEF ReserveSend
<1>5. ASSUME NEW p \in Process, NEW k \in SendKey, NEW from, NEW to,
             TransitionSend(p, k, from, to)
      PROVE  db' = db
    BY <1>5 DEF TransitionSend
<1>6. ASSUME NEW p \in Process,
             \/ \E k \in Key : Open(p, k)
             \/ Close(p) \/ Rollback(p) \/ AppendAudit(p)
             \/ \E rows \in Batches, c \in Cursors : IngestEvents(p, rows, c)
             \/ InsertRow(p) \/ MoveCursor(p)
      PROVE  db' = db
    BY <1>6 DEF Open, Close, Rollback, AppendAudit, IngestEvents, InsertRow,
                MoveCursor
<1>7. CASE UNCHANGED vars
    BY <1>7 DEF vars
<1> QED
    BY <1>1, <1>2, <1>3, <1>4, <1>5, <1>6, <1>7 DEF Next

\* No step of any process changes or removes what was committed.
THEOREM RecordsStay == Spec => RecordedStays
<1>1. TypeOK /\ LedgerInv /\ [Next]_vars => [Grows(db, db')]_db
    <2> SUFFICES ASSUME TypeOK, LedgerInv, [Next]_vars, db' # db
                 PROVE  Grows(db, db')
        OBVIOUS
    <2>1. db' = work
        BY OnlyCommit DEF Commit
    <2> QED
        BY <2>1 DEF LedgerInv
<1> QED
    BY <1>1, TypeCorrect, LedgerIsSound, PTL DEF Spec, RecordedStays

-----------------------------------------------------------------------------
(* Ledger implements AuditedStore.                                         *)

\* What the entry in hand changes, before and after it is appended.
LEMMA ReadyWork ==
    ASSUME TypeOK, LedgerInv, NEW p \in Process, Ready(p), db' = db
    PROVE  work = db /\ db \in Database
BY ReadyKeeps DEF TypeOK

LEMMA SendWork ==
    ASSUME TypeOK, LedgerInv, NEW p \in Process, NEW k \in SendKey, NEW to \in Statuses,
           Ready(p), Tell("send", k, to), db' = db,
           IF db.sends[k] = None THEN to = "reserved"
           ELSE to \in SendTransitions[db.sends[k]],
           work' = [work EXCEPT !.sends[k] = to,
                                !.signed = @ \cup {conn[p]}]
    PROVE  WorkInv'
<1>1. work = db /\ db \in Database
    BY ReadyWork
<1>2. /\ work'.records = db.records /\ work'.active = db.active
      /\ work'.cursor = db.cursor /\ work'.chain = db.chain
      /\ work'.sends = [db.sends EXCEPT ![k] = to]
    BY <1>1, FieldTypes
<1>3. /\ step' = "audit"
      /\ entry' = [kind |-> "send", object |-> k, value |-> to]
    BY DEF Tell
<1>4. Changes(db, work', entry')
    BY <1>2, <1>3 DEF Changes
<1> QED
    BY <1>2, <1>3, <1>4 DEF WorkInv

LEMMA RecordWork ==
    ASSUME TypeOK, LedgerInv, NEW p \in Process, NEW id \in RecordId,
           NEW scope \in Scope, NEW payload \in Payload, NEW activate \in BOOLEAN,
           AppendRecord(p, id, scope, payload, activate)
    PROVE  WorkInv'
<1>1. work = db /\ db \in Database /\ db' = db
    BY ReadyWork DEF AppendRecord
<1>2. /\ work'.sends = db.sends
      /\ work'.active = [db.active EXCEPT ![scope] = IF activate THEN id ELSE @]
      /\ work'.cursor = db.cursor /\ work'.chain = db.chain
      /\ work'.records = [db.records EXCEPT ![id] = <<scope, payload>>]
    BY <1>1, FieldTypes DEF AppendRecord
<1>3. /\ step' = "audit" /\ db.records[id] = None
      /\ entry' = [kind |-> "record", object |-> id,
                   value |-> <<scope, activate>>]
    BY DEF AppendRecord, Tell
<1>4. ~activate => work'.active = db.active
    BY <1>1, <1>2, FieldTypes
<1>5. Changes(db, work', entry')
    BY <1>2, <1>3, <1>4 DEF Changes
<1> QED
    BY <1>1, <1>2, <1>3, <1>5 DEF WorkInv

LEMMA AgainWork ==
    ASSUME TypeOK, LedgerInv, NEW p \in Process, NEW id \in RecordId,
           NEW scope \in Scope, NEW payload \in Payload,
           AppendAgain(p, id, scope, payload)
    PROVE  WorkInv'
<1>1. work = db /\ db \in Database /\ db' = db /\ step' = "commit"
    BY ReadyWork DEF AppendAgain
<1>2. /\ work'.sends = db.sends /\ work'.records = db.records
      /\ work'.cursor = db.cursor /\ work'.chain = db.chain
      /\ work'.active = [db.active EXCEPT ![scope] = id]
    BY <1>1, FieldTypes DEF AppendAgain
<1>3. db.records[id] # None /\ db.records[id][1] = scope
    BY LedgerAssumption DEF AppendAgain
<1>4. MovesQuietly(db, work')
    BY <1>2, <1>3 DEF MovesQuietly
<1> QED
    BY <1>1, <1>4 DEF WorkInv

LEMMA ActiveWork ==
    ASSUME TypeOK, LedgerInv, NEW p \in Process, NEW id \in RecordId,
           NEW scope \in Scope, SetActive(p, scope, id)
    PROVE  WorkInv'
<1>1. work = db /\ db \in Database /\ db' = db
    BY ReadyWork DEF SetActive
<1>2. /\ work'.sends = db.sends /\ work'.records = db.records
      /\ work'.cursor = db.cursor /\ work'.chain = db.chain
      /\ work'.active = [db.active EXCEPT ![scope] = id]
    BY <1>1, FieldTypes DEF SetActive
<1>3. /\ step' = "audit" /\ db.records[id] # None /\ db.records[id][1] = scope
      /\ entry' = [kind |-> "active", object |-> scope, value |-> id]
    BY DEF SetActive, Tell
<1>4. Changes(db, work', entry')
    BY <1>2, <1>3 DEF Changes
<1> QED
    BY <1>1, <1>2, <1>3, <1>4 DEF WorkInv

LEMMA MoveWork ==
    ASSUME TypeOK, LedgerInv, WorkInv, NEW p \in Process, MoveCursor(p)
    PROVE  WorkInv'
<1> DEFINE after == CursorAfter(work.cursor, batch.cursor)
<1>1. /\ db \in Database /\ work \in Database /\ db' = db
      /\ batch.cursor \in Nat /\ SameFacts(db, work)
    BY DEF TypeOK, MoveCursor, WorkInv
<1>2. /\ work'.records = db.records /\ work'.active = db.active
      /\ work'.sends = db.sends /\ work'.chain = db.chain
      /\ work'.cursor = after
    BY <1>1, FieldTypes DEF MoveCursor, SameFacts
<1>3. work.cursor = db.cursor /\ db.cursor \in Nat \cup {None}
    BY <1>1, FieldTypes DEF SameFacts
<1>4. db.cursor = None \/ after >= db.cursor
    BY <1>1, <1>3 DEF CursorAfter
<1>5. CASE step' = "audit"
  <2>1. entry' = [kind |-> "cursor", object |-> "events", value |-> after]
    BY <1>5 DEF MoveCursor, Tell
  <2>2. Changes(db, work', entry')
    BY <1>2, <1>4, <2>1 DEF Changes
  <2> QED
    BY <1>1, <1>2, <1>5, <2>2 DEF WorkInv
<1>6. CASE step' = "commit" /\ after = work.cursor
    BY <1>1, <1>2, <1>3, <1>6 DEF WorkInv, SameFacts
<1> QED
    BY <1>5, <1>6 DEF MoveCursor, Tell

LEMMA AuditWork ==
    ASSUME TypeOK, LedgerInv, WorkInv, NEW p \in Process, AppendAudit(p)
    PROVE  WorkInv'
<1> DEFINE c == work.chain
<1>1. /\ step = "audit" /\ step' = "commit" /\ db' = db
      /\ work \in Database /\ db \in Database
    BY DEF AppendAudit, TypeOK
<1>2. NewEntry \in Entry /\ c \in Seq(Entry)
    BY <1>1, NewEntryType, FieldTypes
<1>3. /\ work'.records = work.records /\ work'.active = work.active
      /\ work'.cursor = work.cursor /\ work'.sends = work.sends
      /\ work'.chain = Append(c, NewEntry)
    BY <1>1, FieldTypes DEF AppendAudit, NewEntry
<1>4. Changes(db, work, entry) /\ c = db.chain
    BY <1>1 DEF WorkInv
<1>5. Changes(db, work', entry) /\ NewEntry.told = entry
    BY <1>3, <1>4 DEF Changes, NewEntry
<1>6. /\ Len(work'.chain) = Len(db.chain) + 1
      /\ work'.chain[Len(work'.chain)] = NewEntry
      /\ work'.chain = Append(db.chain, NewEntry)
    BY <1>2, <1>3, <1>4, Appended
<1> QED
    BY <1>1, <1>5, <1>6 DEF WorkInv

LEMMA NextWork == TypeOK /\ LedgerInv /\ WorkInv /\ [Next]_vars => WorkInv'
<1> SUFFICES ASSUME TypeOK, LedgerInv, WorkInv, [Next]_vars PROVE WorkInv'
    OBVIOUS
<1>1. ASSUME UNCHANGED <<db, work, step, entry>>
      PROVE  WorkInv'
    BY <1>1 DEF WorkInv, SameFacts, MovesQuietly, Changes
<1>2. ASSUME step' = "idle"
      PROVE  WorkInv'
    BY <1>2 DEF WorkInv
<1>3. ASSUME NEW p \in Process, NEW k \in Key, Open(p, k)
      PROVE  WorkInv'
  <2>1. step' = "commit" /\ db' = db /\ db \in Database
    BY <1>3 DEF Open, TypeOK
  <2>2. SameFacts(db, work')
    BY <1>3, <2>1, FieldTypes DEF Open, SameFacts
  <2> QED
    BY <2>1, <2>2 DEF WorkInv, SameFacts
<1>4. ASSUME NEW p \in Process, Close(p) \/ Rollback(p) \/ Commit(p)
      PROVE  WorkInv'
    BY <1>1, <1>2, <1>4 DEF Close, Rollback, Commit, Idle
<1>5. ASSUME NEW p \in Process, NEW rows \in Batches, NEW c \in Cursors,
             IngestEvents(p, rows, c)
      PROVE  WorkInv'
  <2>1. work' = db' /\ step' = "rows"
    BY <1>5, ReadyWork DEF IngestEvents
  <2> QED
    BY <2>1 DEF WorkInv, SameFacts
<1>6. ASSUME NEW p \in Process, InsertRow(p)
      PROVE  WorkInv'
  <2>1. step = "rows" /\ step' = "rows" /\ db' = db /\ work \in Database
    BY <1>6 DEF InsertRow, TypeOK
  <2>2. /\ work'.records = work.records /\ work'.active = work.active
        /\ work'.cursor = work.cursor /\ work'.sends = work.sends
        /\ work'.chain = work.chain
    BY <1>6, <2>1, FieldTypes DEF InsertRow
  <2> QED
    BY <2>1, <2>2 DEF WorkInv, SameFacts
<1>7. ASSUME NEW p \in Process, NEW k \in SendKey, ReserveSend(p, k)
      PROVE  WorkInv'
    BY <1>7, SendWork DEF ReserveSend, Statuses
<1>8. ASSUME NEW p \in Process, NEW k \in SendKey,
             NEW from \in Statuses, NEW to \in Statuses,
             TransitionSend(p, k, from, to)
      PROVE  WorkInv'
  <2>1. None \notin Statuses
    BY LedgerAssumption
  <2> QED
    BY <1>8, <2>1, SendWork DEF TransitionSend
<1>9. CASE UNCHANGED vars
    BY <1>1, <1>9 DEF vars
<1> QED
    BY <1>3, <1>4, <1>5, <1>6, <1>7, <1>8, <1>9, RecordWork, AgainWork,
       ActiveWork, MoveWork, AuditWork DEF Next

\* The log of a chain, and of the chain with an entry more.
Log(c) == [i \in DOMAIN c |-> c[i].told]

LEMMA LogAppended ==
    ASSUME NEW c \in Seq(Entry), NEW e \in Entry
    PROVE  Log(Append(c, e)) = Append(Log(c), e.told)
<1>1. Log(c) \in Seq(Told) /\ Len(Log(c)) = Len(c)
  <2>1. DOMAIN c = 1..Len(c) /\ Len(c) \in Nat
    BY Appended
  <2>2. \A i \in 1..Len(c) : c[i] \in Entry
    BY <2>1
  <2>3. Log(c) \in [1..Len(c) -> Told]
    BY <2>1, <2>2 DEF Log, Entry
  <2>4. Log(c) \in Seq(Told)
    BY <2>1, <2>3
  <2> QED
    BY <2>1, <2>4 DEF Log
<1>2. e.told \in Told
    BY DEF Entry
<1>3. /\ DOMAIN Log(Append(c, e)) = 1..(Len(c) + 1)
      /\ \A i \in 1..Len(c) : Log(Append(c, e))[i] = c[i].told
      /\ Log(Append(c, e))[Len(c) + 1] = e.told
    BY Appended DEF Log
<1>4. /\ DOMAIN Append(Log(c), e.told) = 1..(Len(c) + 1)
      /\ \A i \in 1..Len(c) : Append(Log(c), e.told)[i] = c[i].told
      /\ Append(Log(c), e.told)[Len(c) + 1] = e.told
    BY <1>1, <1>2, Appended DEF Log
<1>5. Log(Append(c, e)) = [i \in 1..(Len(c) + 1) |-> Log(Append(c, e))[i]]
    BY <1>3 DEF Log
<1>6. Append(Log(c), e.told) = [i \in 1..(Len(c) + 1) |-> Append(Log(c), e.told)[i]]
    BY <1>1, <1>2, <1>4
<1>7. \A i \in 1..(Len(c) + 1) : Log(Append(c, e))[i] = Append(Log(c), e.told)[i]
    BY <1>3, <1>4, Appended
<1> QED
    BY <1>5, <1>6, <1>7

LEMMA StoreInit == Init => Audited!Init
<1> SUFFICES ASSUME Init PROVE Audited!Init
    OBVIOUS
<1>1. /\ db.records = [id \in RecordId |-> None]
      /\ db.active = [s \in Scope |-> None]
      /\ db.sends = [k \in SendKey |-> None]
      /\ db.cursor = None /\ db.chain = <<>>
    BY DEF Init
<1>2. [i \in DOMAIN db.chain |-> db.chain[i].told] = <<>>
    BY <1>1
<1> QED
    BY <1>1, <1>2 DEF Audited!Init

LEMMA StoreStep ==
    ASSUME TypeOK, LedgerInv, WorkInv, [Next]_vars
    PROVE  [Audited!Next]_(Audited!vars)
<1> USE DEF Audited!vars
<1>1. ASSUME db' = db
      PROVE  UNCHANGED Audited!vars
    BY <1>1
<1>2. ASSUME NEW p \in Process, Commit(p)
      PROVE  Audited!Next \/ UNCHANGED Audited!vars
  <2>1. step = "commit" /\ db' = work /\ db \in Database /\ work \in Database
    BY <1>2 DEF Commit, TypeOK
  <2>2. CASE SameFacts(db, work)
    BY <2>1, <2>2 DEF SameFacts
  <2>3. CASE MovesQuietly(db, work)
    <3>1. PICK s \in Scope, id \in RecordId :
             /\ db.records[id] # None /\ db.records[id][1] = s
             /\ work.active = [db.active EXCEPT ![s] = id]
      BY <2>3 DEF MovesQuietly
    <3>2. Audited!PutInForceAgain(s, id)
      BY <2>1, <2>3, <3>1 DEF MovesQuietly, Audited!PutInForceAgain
    <3> QED
      BY <3>2 DEF Audited!Next
  <2>4. CASE ~SameFacts(db, work) /\ ~MovesQuietly(db, work)
    <3> DEFINE last == work.chain[Len(work.chain)]
               t == last.told
    <3>1. /\ Len(work.chain) = Len(db.chain) + 1
          /\ work.chain = Append(db.chain, last)
          /\ Changes(db, work, t)
      BY <2>1, <2>4 DEF WorkInv
    <3>2. db.chain \in Seq(Entry) /\ work.chain \in Seq(Entry)
      BY <2>1, FieldTypes
    <3>3. last \in Entry /\ t \in Told
      <4>1. Len(work.chain) \in DOMAIN work.chain
        BY <3>1, <3>2
      <4>2. last \in Entry
        BY <3>2, <4>1
      <4> QED
        BY <4>2 DEF Entry
    <3> HIDE DEF last
    <3>4. Log(db'.chain) = Append(Log(db.chain), t)
      BY <2>1, <3>1, <3>2, <3>3, LogAppended
    <3>5. t = [kind |-> t.kind, object |-> t.object, value |-> t.value]
      BY <3>3 DEF Told
    <3>6. Audited!Tell(t.kind, t.object, t.value)
      BY <3>4, <3>5 DEF Log, Audited!Tell
    <3>7. CASE t.kind = "record"
      <4>1. PICK scope \in Scope, b \in BOOLEAN : t.value = <<scope, b>>
        BY <3>3, <3>7, ToldTypes
      <4>2. PICK payload \in Payload :
               db'.records = [db.records EXCEPT ![t.object] = <<scope, payload>>]
        <5>1. PICK q \in Payload :
                 work.records = [db.records EXCEPT ![t.object] = <<t.value[1], q>>]
          BY <3>1, <3>7 DEF Changes
        <5>2. t.value[1] = scope
          BY <4>1
        <5> QED
          BY <2>1, <5>1, <5>2
      <4>3. Audited!Tell("record", t.object, <<scope, b>>)
        BY <3>6, <3>7, <4>1 DEF Audited!Tell
      <4>4. /\ db.records[t.object] = None
            /\ db'.active = IF b THEN [db.active EXCEPT ![scope] = t.object]
                            ELSE db.active
            /\ db'.sends = db.sends /\ db'.cursor = db.cursor
        <5>1. b \in BOOLEAN /\ t.value[2] = b /\ t.value[1] = scope
          BY <4>1
        <5>2. db.records[t.object] = None /\ db'.sends = db.sends /\ db'.cursor = db.cursor
          BY <2>1, <3>1, <3>7 DEF Changes
        <5>3. db'.active = IF t.value[2]
                           THEN [db.active EXCEPT ![t.value[1]] = t.object]
                           ELSE db.active
          BY <2>1, <3>1, <3>7 DEF Changes
        <5> QED
          BY <5>1, <5>2, <5>3
      <4>5. Audited!AddRecord(t.object, scope, payload, b)
        BY <4>2, <4>3, <4>4 DEF Audited!AddRecord
      <4> QED
        BY <3>3, <3>7, <4>5, ToldTypes DEF Audited!Next
    <3>8. CASE t.kind = "active"
      <4>1. Audited!PutInForce(t.object, t.value)
        BY <2>1, <3>1, <3>6, <3>8 DEF Changes, Audited!PutInForce
      <4> QED
        BY <3>3, <3>8, <4>1, ToldTypes DEF Audited!Next
    <3>9. CASE t.kind = "send"
      <4>1. /\ db'.sends = [db.sends EXCEPT ![t.object] = t.value]
            /\ db'.records = db.records /\ db'.active = db.active
            /\ db'.cursor = db.cursor
        BY <2>1, <3>1, <3>9 DEF Changes
      <4>2. CASE db.sends[t.object] = None
        <5>1. t.value = "reserved"
          BY <3>1, <3>9, <4>2 DEF Changes
        <5>2. Audited!Tell("send", t.object, "reserved")
          BY <3>6, <3>9, <5>1 DEF Audited!Tell
        <5>3. Audited!BeginSend(t.object)
          BY <4>1, <4>2, <5>1, <5>2 DEF Audited!BeginSend
        <5> QED
          BY <3>3, <3>9, <5>3, ToldTypes DEF Audited!Next
      <4>3. CASE db.sends[t.object] # None
        <5>1. t.value \in SendTransitions[db.sends[t.object]]
          BY <3>1, <3>9, <4>3 DEF Changes
        <5>2. Audited!AdvanceSend(t.object, t.value)
          BY <3>6, <3>9, <4>1, <4>3, <5>1 DEF Audited!AdvanceSend
        <5>3. t.value \in DOMAIN SendTransitions /\ t.object \in SendKey
          BY <3>3, <3>9, ToldTypes DEF Statuses, SendTransitions
        <5> QED
          BY <5>2, <5>3 DEF Audited!Next
      <4> QED
        BY <4>2, <4>3
    <3>10. CASE t.kind = "cursor"
      <4>1. /\ db'.cursor = t.value /\ t.value \in Nat /\ t.object = "events"
            /\ db.cursor = None \/ t.value >= db.cursor
            /\ db'.records = db.records /\ db'.active = db.active
            /\ db'.sends = db.sends
        BY <2>1, <3>1, <3>3, <3>10, ToldTypes DEF Changes
      <4>2. Audited!Tell("cursor", "events", db'.cursor)
        BY <3>6, <3>10, <4>1 DEF Audited!Tell
      <4>3. Audited!ReadOn
        BY <4>1, <4>2 DEF Audited!ReadOn
      <4> QED
        BY <4>3 DEF Audited!Next
    <3> QED
      BY <3>3, <3>7, <3>8, <3>9, <3>10, ToldTypes
  <2> QED
    BY <2>2, <2>3, <2>4
<1>3. db' = db \/ \E p \in Process : Commit(p)
    BY OnlyCommit
<1> QED
    BY <1>1, <1>2, <1>3

\* Whatever raised or died, the ledger is a store that takes one operation at a
\* time in the same moment as its log: no reader of a committed state sees half
\* of an operation, two at once, an entry without its change, or a change
\* without its entry, the pointer that a record appended again moves excepted.
THEOREM LedgerImplementsAuditedStore == Spec => CommitsOneChange
<1>1. Init => WorkInv
    BY DEF Init, WorkInv
<1>2. TypeOK /\ LedgerInv /\ WorkInv /\ [Next]_vars
         => WorkInv' /\ [Audited!Next]_(Audited!vars)
    BY NextWork, StoreStep
<1> QED
    BY <1>1, <1>2, StoreInit, TypeCorrect, LedgerIsSound, PTL
       DEF Spec, CommitsOneChange, Audited!Spec
=============================================================================
