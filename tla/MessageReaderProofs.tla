------------------------ MODULE MessageReaderProofs ------------------------
(***************************************************************************)
(* Proofs about MessageReader for any tables, rows, look-back, overlap,    *)
(* page size and number of faults, and about EventIdentity for any shards, *)
(* rows, contents and edits.                                               *)
(***************************************************************************)
EXTENDS MessageReader, EventIdentity, FiniteSetTheorems, SequenceTheorems, TLAPS

USE DEF world, ledger, run, history

LEMMA ConstantTypes ==
    /\ MaxTime \in Nat /\ MaxRows \in Nat /\ Overlap \in Nat
    /\ PageRows \in Nat /\ MaxFaults \in Nat
    /\ Time = 0..MaxTime /\ 0 \in Time /\ Never \notin Time
BY ReaderAssumption DEF Time, Never

LEMMA PositionParts ==
    ASSUME NEW p \in Position
    PROVE  p[1] \in Int /\ p[2] \in Int /\ p = <<p[1], p[2]>>
BY ConstantTypes DEF Position

LEMMA RowPosition ==
    ASSUME NEW r \in Row
    PROVE  /\ Pos(r) \in Position
           /\ Pos(r)[1] = r.at /\ Pos(r)[2] = r.id
           /\ r.at \in Nat /\ r.id \in Nat /\ r.id >= 1
BY ConstantTypes DEF Row, Position, Pos

\* Positions are totally ordered.
LEMMA BeforeIsTotal ==
    ASSUME NEW p \in Position, NEW q \in Position
    PROVE  Before(p, q) \/ Before(q, p) \/ p = q
BY PositionParts DEF Before

LEMMA BeforeIsStrict ==
    ASSUME NEW p \in Position, NEW q \in Position, NEW r \in Position
    PROVE  /\ Before(p, q) => ~ Before(q, p)
           /\ Before(p, q) /\ ~ Before(r, q) => Before(p, r)
           /\ ~ Before(q, p) /\ Before(q, r) => Before(p, r)
           /\ ~ Before(q, p) /\ ~ Before(r, q) => ~ Before(r, p)
BY PositionParts DEF Before

LEMMA LaterIsLater ==
    ASSUME NEW p \in Position, NEW q \in Position
    PROVE  /\ Later(p, q) \in Position
           /\ ~ Before(Later(p, q), p) /\ ~ Before(Later(p, q), q)
           /\ Later(p, q) \in {p, q}
BY BeforeIsStrict DEF Later

-----------------------------------------------------------------------------
LEMMA LeaveTableTypes ==
    ASSUME TypeOK, LeaveTable
    PROVE  /\ page' \in Position /\ batch' \subseteq Row
           /\ from' \in Position /\ known' \subseteq Row
           /\ table' = table /\ origin' = origin /\ late' = late
BY ConstantTypes DEF LeaveTable, Position, NoCursor

LEMMA InitTypeOK == Init => TypeOK
BY ConstantTypes, ReaderAssumption DEF Init, TypeOK, Position, NoCursor

LEMMA NextTypeOK ==
    ASSUME TypeOK, RowsInv, [Next]_vars
    PROVE  TypeOK'
<1> USE ConstantTypes
<1>1. CASE StartRun
    BY <1>1, ReaderAssumption DEF TypeOK, StartRun, Never
<1>2. ASSUME NEW t \in Table, OpenTable(t)
      PROVE  TypeOK'
  <2>1. page' \in Position
    <3>1. cursor[t] \in Position /\ cursor[t][1] \in Int
          /\ cursor[t][1] <= MaxTime
      BY DEF TypeOK, Position
    <3>2. <<since, -1>> \in Position
      BY DEF TypeOK, Position
    <3>3. ~ (cursor[t][1] < Overlap) => cursor[t][1] - Overlap \in Time
      BY <3>1
    <3>4. (IF cursor[t][1] < Overlap THEN -1
           ELSE cursor[t][1] - Overlap) \in Time \cup {-1}
      BY <3>3
    <3>5. <<IF cursor[t][1] < Overlap THEN -1
            ELSE cursor[t][1] - Overlap, -1>> \in Position
      BY <3>4 DEF Position
    <3> QED
      BY <1>2, <3>2, <3>5 DEF OpenTable
  <2>2. cursor' \in [Table -> Position]
    <3>1. <<since, 0>> \in Position
      BY DEF TypeOK, Position
    <3> QED
      BY <1>2, <3>1 DEF TypeOK, OpenTable
  <2>3. origin' \in [Table -> Time \cup {Never}]
    BY <1>2 DEF TypeOK, OpenTable
  <2> QED
    BY <1>2, <2>1, <2>2, <2>3 DEF TypeOK, OpenTable
<1>3. ASSUME NEW t \in Table, SkipTable(t)
      PROVE  TypeOK'
    BY <1>3 DEF TypeOK, SkipTable
<1>4. CASE QueryPage
  <2>1. Ahead \subseteq Row
    BY DEF TypeOK, Ahead
  <2>2. \A last \in Ahead : Pos(last) \in Position /\ UpTo(last) \subseteq Row
    BY <2>1, RowPosition DEF UpTo
  <2> QED
    BY <1>4, <2>2 DEF TypeOK, QueryPage
<1>5. CASE EmptyPage \/ QueryFails \/ EndRun \/ Crash
    BY <1>5, LeaveTableTypes DEF TypeOK, EmptyPage, QueryFails, EndRun, Crash
<1>6. CASE CommitPage
  <2>1. {r.id : r \in {x \in batch : x.kind = "known"}} \subseteq 1..MaxRows
    BY DEF TypeOK, Row
  <2>2. Later(cursor[table], page) \in Position
    BY LaterIsLater DEF TypeOK
  <2> QED
    BY <1>6, <2>1, <2>2, LeaveTableTypes DEF TypeOK, CommitPage, NextPage
<1>7. ASSUME NEW t \in Table, NEW kind \in Kinds, NEW at \in 0..now,
             Write(t, kind, at)
      PROVE  TypeOK'
  <2> DEFINE id == Cardinality(rows[t]) + 1
  <2>1. id \in 1..MaxRows
    <3>1. Cardinality(rows[t]) \in Nat
      BY FS_CardinalityType DEF RowsInv
    <3> QED
      BY <1>7, <3>1 DEF Write
  <2>2. at \in Time
    BY DEF TypeOK
  <2>3. [at |-> at, id |-> id, kind |-> kind] \in Row
    BY <2>1, <2>2 DEF Row
  <2>4. rows' \in [Table -> SUBSET Row]
    BY <1>7, <2>3 DEF TypeOK, Write
  <2>5. late' \in [Table -> SUBSET (1..MaxRows)]
    BY <1>7, <2>1 DEF TypeOK, Write
  <2> QED
    BY <1>7, <2>4, <2>5 DEF TypeOK, Write
<1>8. ASSUME NEW t \in Table, Appear(t)
      PROVE  TypeOK'
    BY <1>8 DEF TypeOK, Appear
<1>9. CASE Tick
    BY <1>9 DEF TypeOK, Tick
<1>10. CASE UNCHANGED vars
    BY <1>10 DEF TypeOK, vars
<1> QED
    BY <1>1, <1>2, <1>3, <1>4, <1>5, <1>6, <1>7, <1>8, <1>9, <1>10
       DEF Next, ReadStep, FaultStep, WorldStep

-----------------------------------------------------------------------------
(* Each action keeps the invariant.                                        *)

LEMMA InitReaderInv == Init => ReaderInv
<1> SUFFICES ASSUME Init PROVE ReaderInv
    OBVIOUS
<1>1. RowsInv
    BY FS_EmptySet DEF Init, RowsInv
<1>2. PlaceInv /\ NoGap /\ ReplayIsBounded /\ VisitInv
    BY DEF Init, PlaceInv, NoGap, ReplayIsBounded, VisitInv
<1> QED
    BY <1>1, <1>2 DEF ReaderInv

\* Rows of a table, and what is needed of them everywhere.
LEMMA RowTypes ==
    ASSUME TypeOK, NEW t \in Table, NEW r \in rows[t]
    PROVE  /\ r \in Row /\ Pos(r) \in Position
           /\ Pos(r)[1] = r.at /\ Pos(r)[2] = r.id
           /\ r.at \in Nat /\ r.id \in Nat /\ r.id >= 1
<1>1. r \in Row
    BY DEF TypeOK
<1> QED
    BY <1>1, RowPosition

LEMMA NewPlace ==
    ASSUME TypeOK, PlaceInv, NEW t \in Table, OpenTable(t)
    PROVE  /\ page' \in Position /\ cursor'[t] \in Position
           /\ cursor'[t] # NoCursor
           /\ origin'[t] \in Int /\ origin'[t] # Never
           /\ ~ Before(cursor'[t], <<origin'[t], 0>>)
           /\ ~ Before(cursor'[t], page')
           /\ page'[1] >= origin'[t] - Overlap
<1> USE ConstantTypes
<1>1. CASE cursor[t] = NoCursor
  <2>1. /\ page' = <<since, -1>> /\ cursor'[t] = <<since, 0>>
        /\ origin'[t] = since
    BY <1>1 DEF OpenTable, TypeOK
  <2>2. since \in Nat /\ since \in Time
    BY DEF TypeOK
  <2>3. <<since, -1>> \in Position /\ <<since, 0>> \in Position
    BY <2>2 DEF Position
  <2> QED
    BY <2>1, <2>2, <2>3 DEF Before, NoCursor, Never
<1>2. CASE cursor[t] # NoCursor
  <2> DEFINE c == cursor[t]
             o == origin[t]
  <2>1. /\ page' = <<IF c[1] < Overlap THEN -1 ELSE c[1] - Overlap, -1>>
        /\ cursor'[t] = c /\ origin'[t] = o
    BY <1>2 DEF OpenTable
  <2>2. o \in Int /\ o # Never /\ o >= 0 /\ ~ Before(c, <<o, 0>>)
    BY <1>2 DEF PlaceInv, TypeOK, Never
  <2>3. c \in Position /\ c[1] \in Int /\ c[2] \in Int
        /\ c[1] >= -1 /\ c[2] >= -1 /\ c[1] <= MaxTime
    BY DEF TypeOK, Position
  <2>4. c[1] >= o
    BY <2>2, <2>3 DEF Before
  <2>5. page'[1] \in Time \cup {-1} /\ page'[2] = -1
        /\ page'[1] <= c[1] /\ page'[1] >= o - Overlap
    <3>1. CASE c[1] < Overlap
      <4>1. page' = <<-1, -1>>
        BY <2>1, <3>1
      <4>2. page'[1] = -1 /\ page'[2] = -1
        BY <4>1
      <4> QED
        BY <2>2, <2>3, <2>4, <3>1, <4>2
    <3>2. CASE ~ (c[1] < Overlap)
      <4>1. page' = <<c[1] - Overlap, -1>>
        BY <2>1, <3>2
      <4>2. page'[1] = c[1] - Overlap /\ page'[2] = -1
        BY <4>1
      <4> QED
        BY <2>2, <2>3, <2>4, <3>2, <4>2
    <3> QED
      BY <3>1, <3>2
  <2>6. page' \in Position
    BY <2>1, <2>5 DEF Position
  <2>7. ~ Before(c, page')
    BY <2>3, <2>5 DEF Before
  <2> QED
    BY <1>2, <2>1, <2>2, <2>3, <2>5, <2>6, <2>7
<1> QED
    BY <1>1, <1>2

LEMMA OpenTableKeeps ==
    ASSUME TypeOK, ReaderInv, NEW t \in Table, OpenTable(t)
    PROVE  ReaderInv'
<1> USE ConstantTypes DEF ReaderInv
<1>1. /\ rows' = rows /\ stored' = stored /\ late' = late
      /\ pc' = "query" /\ table' = t /\ from' = page' /\ known' = rows[t]
    BY DEF OpenTable
<1>2. \A u \in Table : u # t => cursor'[u] = cursor[u] /\ origin'[u] = origin[u]
    BY DEF OpenTable, TypeOK
<1>3. RowsInv'
    BY <1>1 DEF RowsInv
<1>4. PlaceInv'
  <2>1. \A u \in Table :
          /\ cursor'[u] = NoCursor => stored[u] = {}
          /\ cursor'[u] # NoCursor =>
                origin'[u] # Never /\ ~ Before(cursor'[u], <<origin'[u], 0>>)
    BY <1>2, NewPlace DEF PlaceInv
  <2>2. ~ Before(page', page')
    BY NewPlace, BeforeIsStrict
  <2> QED
    BY <1>1, <2>1, <2>2, NewPlace DEF PlaceInv
<1>5. NoGap'
  <2> SUFFICES ASSUME NEW u \in Table, NEW r \in rows[u],
                      r.kind = "known", r.id \notin late[u],
                      cursor'[u] # NoCursor, r.at >= origin'[u],
                      ~ Before(cursor'[u], Pos(r))
               PROVE  r.id \in stored[u]
    BY <1>1 DEF NoGap
  <2>1. CASE u = t /\ cursor[t] = NoCursor
    <3>1. cursor'[t] = <<since, 0>> /\ origin'[t] = since /\ since \in Nat
      BY <2>1 DEF OpenTable, TypeOK
    <3> QED
      BY <2>1, <3>1, RowTypes DEF Before
  <2>2. CASE ~ (u = t /\ cursor[t] = NoCursor)
    <3>1. cursor'[u] = cursor[u] /\ origin'[u] = origin[u]
      BY <2>2, <1>2 DEF OpenTable
    <3> QED
      BY <3>1 DEF NoGap
  <2> QED
    BY <2>1, <2>2
<1>6. ReplayIsBounded'
  <2> SUFFICES ASSUME NEW u \in Table, NEW r \in rows[u], r.id \in stored[u]
               PROVE  r.at >= origin'[u] - Overlap
    BY <1>1 DEF ReplayIsBounded
  <2>1. cursor[u] # NoCursor
    BY DEF PlaceInv
  <2>2. origin'[u] = origin[u]
    BY <2>1, <1>2 DEF OpenTable
  <2> QED
    BY <2>2 DEF ReplayIsBounded
<1>7. VisitInv'
  <2>1. Later(cursor'[t], page') = cursor'[t]
    BY NewPlace DEF Later
  <2>2. \A r \in rows[t] :
          r.kind = "known" /\ r.id \notin late[t] /\ r.at >= origin'[t]
              => r.id \in stored[t] \/ Before(cursor'[t], Pos(r))
    BY <1>1, <1>5, NewPlace DEF NoGap
  <2> QED
    BY <1>1, <2>1, <2>2 DEF VisitInv, Handled
<1> QED
    BY <1>3, <1>4, <1>5, <1>6, <1>7

LEMMA QueryPageKeeps ==
    ASSUME TypeOK, ReaderInv, QueryPage
    PROVE  ReaderInv'
<1> USE ConstantTypes DEF ReaderInv
<1>1. PICK last \in Ahead :
          /\ UpTo(last) = Ahead \/ Cardinality(UpTo(last)) = PageRows
          /\ batch' = UpTo(last) /\ page' = Pos(last)
    BY DEF QueryPage
<1>2. /\ rows' = rows /\ stored' = stored /\ late' = late /\ table' = table
      /\ cursor' = cursor /\ origin' = origin /\ from' = from
      /\ known' = known /\ pc = "query" /\ pc' = "commit"
    BY DEF QueryPage
<1>3. /\ cursor[table] \in Position /\ page \in Position /\ from \in Position
      /\ ~ Before(cursor[table], page) /\ ~ Before(page, from)
    BY <1>2 DEF TypeOK, PlaceInv
<1>4. \A r \in rows[table] : Pos(r) \in Position
    BY RowTypes DEF TypeOK
<1>5. page' \in Position /\ Before(page, page') /\ Before(from, page')
    BY <1>1, <1>3, <1>4, BeforeIsStrict DEF Ahead
<1>6. RowsInv' /\ NoGap' /\ ReplayIsBounded'
    BY <1>2 DEF RowsInv, NoGap, ReplayIsBounded
<1>7. PlaceInv'
  <2>1. /\ batch' \subseteq rows[table]
        /\ \A r \in batch' : Before(from, Pos(r)) /\ ~ Before(page', Pos(r))
    BY <1>1, <1>3, <1>4, BeforeIsStrict DEF UpTo, Ahead
  <2>2. \/ Cardinality(batch') = PageRows
        \/ \A r \in known : ~ Before(page', Pos(r))
    <3> SUFFICES ASSUME UpTo(last) = Ahead, NEW r \in known,
                        Before(page', Pos(r))
                 PROVE  FALSE
      BY <1>1
    <3>1. r \in rows[table]
      BY <1>2 DEF PlaceInv
    <3>2. r \in Ahead
      BY <3>1, <1>3, <1>4, <1>5, BeforeIsStrict DEF Ahead
    <3> QED
      BY <3>2, <1>1 DEF UpTo
  <2> QED
    BY <1>2, <1>5, <2>1, <2>2 DEF PlaceInv
<1>8. VisitInv'
  <2>1. ASSUME NEW r \in rows[table], Before(page, Pos(r))
        PROVE  r \in batch' \/ Before(page', Pos(r))
    BY <2>1, <1>1 DEF UpTo, Ahead
  <2>2. ASSUME NEW r \in known, r.kind = "known", Before(from, Pos(r))
        PROVE  Handled(r)' \/ Before(page', Pos(r))
    BY <2>1, <2>2, <1>2 DEF VisitInv, Handled, PlaceInv
  <2>3. ASSUME NEW r \in rows[table], r.kind = "known",
               r.id \notin late[table], r.at >= origin[table]
        PROVE  Handled(r)' \/ Before(Later(cursor[table], page'), Pos(r))
    <3>1. r.id \in stored[table] \/ Before(cursor[table], Pos(r))
      BY <2>3, <1>2, <1>3 DEF VisitInv, Handled, Later
    <3>2. Before(cursor[table], Pos(r)) => Before(page, Pos(r))
      BY <1>3, <1>4, BeforeIsStrict
    <3>3. \/ r.id \in stored[table] \/ r \in batch'
          \/ Before(cursor[table], Pos(r)) /\ Before(page', Pos(r))
      BY <3>1, <3>2, <2>1
    <3> QED
      BY <3>3, <1>2 DEF Handled, Later
  <2> QED
    BY <1>2, <2>2, <2>3 DEF VisitInv
<1> QED
    BY <1>6, <1>7, <1>8

\* The cursor and the page after a commit.
LEMMA CommittedPlace ==
    ASSUME TypeOK, PlaceInv, pc = "commit"
    PROVE  /\ Later(cursor[table], page) \in Position
           /\ Later(cursor[table], page) # NoCursor
           /\ ~ Before(Later(cursor[table], page), cursor[table])
           /\ ~ Before(Later(cursor[table], page), page)
           /\ origin[table] # Never
           /\ ~ Before(Later(cursor[table], page), <<origin[table], 0>>)
<1> USE ConstantTypes
<1> DEFINE c == cursor[table]
           l == Later(c, page)
           o == <<origin[table], 0>>
<1>1. c \in Position /\ page \in Position /\ c # NoCursor
    BY DEF TypeOK, PlaceInv
<1>2. /\ l \in Position /\ ~ Before(l, c) /\ ~ Before(l, page)
    BY <1>1, LaterIsLater
<1>3. origin[table] # Never /\ ~ Before(c, o) /\ table \in Table
    BY <1>1 DEF PlaceInv, TypeOK
<1>4. o \in Position /\ origin[table] >= 0
    BY <1>3 DEF TypeOK, Position, Never
<1>5. ~ Before(l, o)
    BY <1>1, <1>2, <1>3, <1>4, BeforeIsStrict
<1>6. l # NoCursor
  <2>1. NoCursor[1] = -1 /\ o[1] = origin[table] /\ -1 < origin[table]
    BY <1>3, <1>4 DEF NoCursor, TypeOK
  <2>2. Before(NoCursor, o)
    BY <2>1 DEF Before
  <2> QED
    BY <1>5, <2>2
<1> QED
    BY <1>2, <1>3, <1>5, <1>6

LEMMA CommitPageKeeps ==
    ASSUME TypeOK, ReaderInv, CommitPage
    PROVE  ReaderInv'
<1> USE ConstantTypes DEF ReaderInv
<1>1. /\ rows' = rows /\ late' = late /\ table' = table
      /\ origin' = origin /\ batch' = {}
      /\ pc = "commit" /\ pc' \in {"tables", "query"}
      /\ pc' = "query" => page' = page /\ from' = from /\ known' = known
    BY DEF CommitPage, LeaveTable, NextPage
<1>2. /\ cursor'[table] = Later(cursor[table], page)
      /\ stored'[table] = stored[table]
              \cup {r.id : r \in {x \in batch : x.kind = "known"}}
      /\ \A t \in Table : t # table => cursor'[t] = cursor[t]
                                    /\ stored'[t] = stored[t]
      /\ table \in Table /\ batch \subseteq rows[table]
    BY <1>1 DEF CommitPage, TypeOK, PlaceInv
<1>3. \A r \in rows[table] :
        r.kind = "known" /\ Handled(r) => r.id \in stored'[table]
    BY <1>2 DEF Handled
<1>4. RowsInv'
  <2>1. \A t \in Table : \A i \in stored'[t] : \E r \in rows[t] : r.id = i
    BY <1>2 DEF RowsInv
  <2> QED
    BY <1>1, <2>1 DEF RowsInv
<1>5. PlaceInv'
  <2>1. \A t \in Table :
          /\ cursor'[t] = NoCursor => stored'[t] = {}
          /\ cursor'[t] # NoCursor =>
                origin[t] # Never /\ ~ Before(cursor'[t], <<origin[t], 0>>)
    BY <1>1, <1>2, CommittedPlace DEF PlaceInv
  <2>2. ~ Before(page, from)
    BY <1>1, BeforeIsStrict DEF PlaceInv, TypeOK
  <2> QED
    BY <1>1, <1>2, <2>1, <2>2, CommittedPlace DEF PlaceInv
<1>6. NoGap'
  <2> SUFFICES ASSUME NEW t \in Table, NEW r \in rows[t],
                      r.kind = "known", r.id \notin late[t],
                      cursor'[t] # NoCursor, r.at >= origin[t],
                      ~ Before(cursor'[t], Pos(r))
               PROVE  r.id \in stored'[t]
    BY <1>1 DEF NoGap
  <2>1. CASE t = table
    BY <2>1, <1>1, <1>2, <1>3 DEF VisitInv
  <2>2. CASE t # table
    BY <2>2, <1>2 DEF NoGap
  <2> QED
    BY <2>1, <2>2
<1>7. ReplayIsBounded'
  <2> SUFFICES ASSUME NEW t \in Table, NEW r \in rows[t], r.id \in stored'[t]
               PROVE  r.at >= origin[t] - Overlap
    BY <1>1 DEF ReplayIsBounded
  <2>1. CASE r.id \in stored[t]
    BY <2>1 DEF ReplayIsBounded
  <2>2. CASE r.id \notin stored[t]
    <3>1. t = table
      BY <2>2, <1>2
    <3>2. PICK x \in batch : x.id = r.id
      BY <2>2, <3>1, <1>2
    <3>3. x = r
      BY <3>1, <3>2, <1>2 DEF RowsInv
    <3>4. Before(from, Pos(r)) /\ from[1] >= origin[t] - Overlap
      BY <3>1, <3>2, <3>3, <1>1 DEF PlaceInv
    <3>5. from[1] \in Int /\ origin[t] \in Int
      BY PositionParts DEF TypeOK, Never
    <3> QED
      BY <3>4, <3>5, RowTypes DEF Before
  <2> QED
    BY <2>1, <2>2
<1>8. VisitInv'
  <2>1. Later(cursor'[table], page) = cursor'[table]
    BY <1>2, <1>1, CommittedPlace DEF Later
  <2>2. \A r \in rows[table] : Handled(r)' <=> r.id \in stored'[table]
    BY <1>1 DEF Handled
  <2>3. known \subseteq rows[table]
    BY <1>1 DEF PlaceInv
  <2> QED
    BY <1>1, <1>2, <1>3, <2>1, <2>2, <2>3 DEF VisitInv
<1> QED
    BY <1>4, <1>5, <1>6, <1>7, <1>8

LEMMA WriteKeeps ==
    ASSUME TypeOK, ReaderInv,
           NEW t \in Table, NEW kind \in Kinds, NEW at \in 0..now,
           Write(t, kind, at)
    PROVE  ReaderInv'
<1> USE ConstantTypes DEF ReaderInv
<1> DEFINE new == [at |-> at, id |-> Cardinality(rows[t]) + 1, kind |-> kind]
<1>1. /\ rows'[t] = rows[t] \cup {new}
      /\ \A u \in Table : u # t => rows'[u] = rows[u] /\ late'[u] = late[u]
      /\ late[t] \subseteq late'[t]
      /\ WrittenBehind(t, <<at, new.id>>) => new.id \in late'[t]
    BY DEF Write, TypeOK
<1>2. /\ cursor' = cursor /\ stored' = stored /\ pc' = pc /\ table' = table
      /\ page' = page /\ batch' = batch /\ from' = from /\ known' = known
      /\ origin' = origin
    BY DEF Write
<1>3. IsFiniteSet(rows[t]) /\ Cardinality(rows[t]) \in Nat
    BY FS_CardinalityType DEF RowsInv
<1>4. \A r \in rows[t] : r.id \in Nat /\ r.id < new.id
    BY <1>3, RowTypes DEF RowsInv
<1>5. new \notin rows[t]
    BY <1>4
<1>6. new.id \notin stored[t]
    BY <1>4 DEF RowsInv
<1>7. RowsInv'
  <2>1. IsFiniteSet(rows'[t]) /\ Cardinality(rows'[t]) = Cardinality(rows[t]) + 1
    <3>1. /\ IsFiniteSet(rows[t] \cup {new})
          /\ Cardinality(rows[t] \cup {new}) = Cardinality(rows[t]) + 1
      BY <1>3, <1>5, FS_AddElement
    <3> QED
      BY <1>1, <3>1
  <2>2. \A r \in rows'[t] : r.id <= Cardinality(rows'[t])
    BY <1>1, <1>3, <1>4, <2>1
  <2>3. \A r, x \in rows'[t] : r.id = x.id => r = x
    BY <1>1, <1>4 DEF RowsInv
  <2>4. \A i \in stored[t] : \E r \in rows'[t] : r.id = i
    BY <1>1 DEF RowsInv
  <2> QED
    BY <1>1, <1>2, <2>1, <2>2, <2>3, <2>4 DEF RowsInv
<1>8. PlaceInv'
  <2>1. table \in Table /\ rows[table] \subseteq rows'[table]
    BY <1>1 DEF TypeOK
  <2>2. pc \in {"query", "commit"} => known \subseteq rows'[table]
    BY <2>1 DEF PlaceInv
  <2>3. pc = "commit" => batch \subseteq rows'[table]
    BY <2>1 DEF PlaceInv
  <2> QED
    BY <1>2, <2>2, <2>3 DEF PlaceInv
<1>9. NoGap'
  <2> SUFFICES ASSUME NEW u \in Table, NEW r \in rows'[u],
                      r.kind = "known", r.id \notin late'[u],
                      cursor[u] # NoCursor, r.at >= origin[u],
                      ~ Before(cursor[u], Pos(r))
               PROVE  r.id \in stored[u]
    BY <1>2 DEF NoGap
  <2>1. CASE r \in rows[u]
    BY <2>1, <1>1 DEF NoGap
  <2>2. CASE r \notin rows[u]
    <3>1. u = t /\ r = new
      BY <2>2, <1>1
    <3> QED
      BY <3>1, <1>1 DEF WrittenBehind, Pos
  <2> QED
    BY <2>1, <2>2
<1>10. ReplayIsBounded'
    BY <1>1, <1>2, <1>6 DEF ReplayIsBounded
<1>11. VisitInv'
  <2> SUFFICES ASSUME pc \in {"query", "commit"}
               PROVE  VisitInv'
    BY <1>2 DEF VisitInv
  <2>1. ASSUME NEW r \in rows'[table], r.kind = "known",
               r.id \notin late'[table], r.at >= origin[table]
        PROVE  Handled(r) \/ Before(Later(cursor[table], page), Pos(r))
    <3>1. CASE r \in rows[table]
      <4>1. r.id \notin late[table]
        BY <2>1, <1>1 DEF TypeOK
      <4> QED
        BY <2>1, <3>1, <4>1 DEF VisitInv
    <3>2. CASE r \notin rows[table]
      <4>1. table = t /\ r = new
        BY <3>2, <1>1 DEF TypeOK
      <4>2. ~ WrittenBehind(t, Pos(r))
        BY <2>1, <4>1, <1>1 DEF Pos
      <4> QED
        BY <4>1, <4>2 DEF WrittenBehind, Later
    <3> QED
      BY <3>1, <3>2
  <2> QED
    BY <1>2, <2>1 DEF VisitInv, Handled
<1> QED
    BY <1>7, <1>8, <1>9, <1>10, <1>11

LEMMA NextReaderInv ==
    ASSUME TypeOK, ReaderInv, [Next]_vars
    PROVE  ReaderInv'
<1>1. ASSUME NEW t \in Table, OpenTable(t)
      PROVE  ReaderInv'
    BY <1>1, OpenTableKeeps
<1>2. CASE QueryPage
    BY <1>2, QueryPageKeeps
<1>3. CASE CommitPage
    BY <1>3, CommitPageKeeps
<1>4. ASSUME NEW t \in Table, NEW kind \in Kinds, NEW at \in 0..now,
             Write(t, kind, at)
      PROVE  ReaderInv'
    BY <1>4, WriteKeeps
<1>5. ASSUME \/ StartRun \/ EmptyPage \/ QueryFails \/ EndRun \/ Crash
             \/ \E t \in Table : SkipTable(t) \/ Appear(t)
             \/ Tick \/ UNCHANGED vars
      PROVE  ReaderInv'
  <2>1. /\ rows' = rows /\ cursor' = cursor /\ stored' = stored
        /\ origin' = origin /\ late' = late
        /\ \/ pc' \notin {"query", "commit"}
           \/ /\ pc' = pc /\ table' = table /\ page' = page /\ batch' = batch
              /\ from' = from /\ known' = known
    BY <1>5 DEF StartRun, EmptyPage, QueryFails, EndRun, Crash, SkipTable,
                LeaveTable, Appear, Tick, vars
  <2>2. RowsInv' /\ NoGap' /\ ReplayIsBounded'
    BY <2>1 DEF ReaderInv, RowsInv, NoGap, ReplayIsBounded
  <2>3. PlaceInv'
    BY <2>1 DEF ReaderInv, PlaceInv
  <2>4. VisitInv'
    BY <2>1 DEF ReaderInv, VisitInv, Handled
  <2> QED
    BY <2>2, <2>3, <2>4 DEF ReaderInv
<1> QED
    BY <1>1, <1>2, <1>3, <1>4, <1>5
       DEF Next, ReadStep, FaultStep, WorldStep

-----------------------------------------------------------------------------
(* Theorems.                                                               *)

\* Types, the shape of the tables, and what a visit has still to store are
\* inductive together: runs, crashes, failed queries and late rows keep them.
THEOREM ReaderSafe == Spec => [](TypeOK /\ ReaderInv)
<1>1. Init => TypeOK /\ ReaderInv
    BY InitTypeOK, InitReaderInv
<1>2. TypeOK /\ ReaderInv /\ [Next]_vars => (TypeOK /\ ReaderInv)'
    BY NextTypeOK, NextReaderInv DEF ReaderInv
<1> QED
    BY <1>1, <1>2, PTL DEF Spec

\* Cursors, stored rows and the visit at work keep their types
\* (WeChatReader.poll).
THEOREM TypeCorrect == Spec => []TypeOK
    BY ReaderSafe, PTL

\* The cursor of a table never passes a readable row that is not stored,
\* unless the row appeared behind it (WeChatReader.poll, ingest_events).
THEOREM NothingIsSkipped == Spec => []NoGap
    BY ReaderSafe, PTL DEF ReaderInv

\* The overlap never brings in a row older than the place where the table was
\* first opened by more than its length (WeChatReader.poll).
THEOREM ReplayStaysBounded == Spec => []ReplayIsBounded
    BY ReaderSafe, PTL DEF ReaderInv

LEMMA VisitStep ==
    ASSUME TypeOK, ReaderInv, [Next]_vars
    PROVE  VisitIsComplete
<1> SUFFICES ASSUME pc \in {"query", "commit"}, pc' = "tables",
                    faults' = faults,
                    NEW r \in known, r.kind = "known", Before(from, Pos(r))
             PROVE  r.id \in stored'[table]
    BY DEF VisitIsComplete
<1>1. /\ Handled(r) \/ Before(page, Pos(r))
      /\ known \subseteq rows[table]
    BY DEF ReaderInv, VisitInv, PlaceInv
<1>2. CASE EmptyPage
  <2>1. ~ Before(page, Pos(r))
    BY <1>1, <1>2 DEF EmptyPage, Ahead
  <2> QED
    BY <1>1, <1>2, <2>1 DEF EmptyPage, Handled
<1>3. CASE CommitPage
  <2>1. ~ Before(page, Pos(r))
    <3>1. pc = "commit" /\ Cardinality(batch) # PageRows
      BY <1>3, ConstantTypes DEF CommitPage, NextPage
    <3> QED
      BY <3>1 DEF ReaderInv, PlaceInv
  <2> QED
    BY <1>1, <1>3, <2>1 DEF CommitPage, Handled, TypeOK
<1>4. CASE QueryFails
    BY <1>4 DEF QueryFails, TypeOK
<1>5. EmptyPage \/ CommitPage \/ QueryFails
    BY DEF Next, ReadStep, FaultStep, WorldStep, StartRun, OpenTable, SkipTable,
           QueryPage, EndRun, Crash, Write, Appear, Tick, vars
<1> QED
    BY <1>2, <1>3, <1>4, <1>5

\* A visit that ends without a fault has stored what it found in and beyond
\* the overlap, in however many pages (WeChatReader.poll).
THEOREM VisitsAreComplete == Spec => VisitMissesNothing
<1>1. TypeOK /\ ReaderInv /\ [Next]_vars => [VisitIsComplete]_vars
    BY VisitStep
<1> QED
    BY <1>1, ReaderSafe, PTL DEF Spec, VisitMissesNothing

-----------------------------------------------------------------------------
(* Identities (EventIdentity).                                             *)

LEMMA Names ==
    /\ \A m, n : Base(m) = Base(n) => m = n
    /\ \A q, r : Collision(q) = Collision(r) => q = r
    /\ \A n, r : Base(n) # Collision(r)
<1>1. \A m, n : Base(m) = Base(n) => m = n
    BY DEF Base
<1>2. \A q, r : Collision(q) = Collision(r) => q = r
    BY DEF Collision
<1>3. ASSUME NEW n, NEW r PROVE Base(n) # Collision(r)
    <2>1. Len(Base(n)) = 1 /\ Len(Collision(r)) = 2
        BY DEF Base, Collision
    <2> QED
        BY <2>1
<1> QED
    BY <1>1, <1>2, <1>3

LEMMA EventType ==
    ASSUME IdentityTypeOK, NEW row \in AnyRow
    PROVE  /\ Reading(row) \in Canonical
           /\ [id |-> IdentityOf(Reading(row)), reading |-> Reading(row)]
                 \in StoredEvent
<1>1. Reading(row) \in Canonical
    BY DEF IdentityTypeOK, Reading, AnyRow, Canonical, Visit
<1>2. \A r \in Canonical : [id |-> IdentityOf(r), reading |-> r] \in StoredEvent
    BY DEF IdentityOf, StoredEvent, Identity, Base, Collision, Canonical
<1> QED
    BY <1>1, <1>2

LEMMA VisitParts ==
    ASSUME visit \in Visit
    PROVE  /\ visit.at \in Nat /\ visit.page \in Seq(AnyRow)
           /\ visit.seen \subseteq StoredEvent
           /\ visit.batch \subseteq StoredEvent
           /\ visit.shard \in Shard \cup {0}
BY DEF Visit

LEMMA Resting ==
    /\ NoVisit \in Visit /\ BackToShards \in Visit
    /\ NoVisit.seen = {} /\ NoVisit.batch = {} /\ NoVisit.step = "idle"
    /\ BackToShards.seen = {} /\ BackToShards.batch = {}
    /\ BackToShards.step = "shards"
<1>1. NoVisit \in Visit
  <2>1. <<>> \in Seq(AnyRow) /\ 0 \in Nat
    OBVIOUS
  <2> QED
    BY <2>1 DEF NoVisit, Visit
<1>2. BackToShards \in Visit
    BY <1>1 DEF BackToShards, Visit
<1> QED
    BY <1>1, <1>2 DEF NoVisit, BackToShards

LEMMA NextRowsType ==
    ASSUME IdentityTypeOK, visit.step = "query", visit.shard \in Shard
    PROVE  NextRows \in Seq(AnyRow) /\ Len(NextRows) \in Nat
<1> DEFINE shelved == shelf[visit.shard]
           end == IF visit.at + PageSize < Len(shelved) THEN visit.at + PageSize
                  ELSE Len(shelved)
<1>1. shelved \in Seq(AnyRow) /\ visit.at \in Nat /\ PageSize \in Nat
    BY VisitParts, IdentityAssumption DEF IdentityTypeOK
<1>2. end \in Nat /\ end <= Len(shelved)
    BY <1>1
<1>3. \A i \in (visit.at + 1)..end : shelved[i] \in AnyRow
    BY <1>1, <1>2
<1>4. SubSeq(shelved, visit.at + 1, end) \in Seq(AnyRow)
    BY <1>1, <1>2, <1>3, SubSeqProperties
<1>5. NextRows \in Seq(AnyRow)
    BY <1>4 DEF NextRows
<1> QED
    BY <1>5

LEMMA InitIdentity == IdentityInit => IdentityTypeOK /\ IdentityInv
<1> SUFFICES ASSUME IdentityInit PROVE IdentityTypeOK /\ IdentityInv
    OBVIOUS
<1>1. \A s \in Shard : shelf[s] = <<>> /\ <<>> \in Seq(AnyRow)
    BY DEF IdentityInit
<1>2. shelf \in [Shard -> Seq(AnyRow)]
    BY <1>1 DEF IdentityInit
<1>3. IdentityTypeOK
    BY <1>2, Resting, IdentityAssumption DEF IdentityInit, IdentityTypeOK
<1>4. events = {} /\ visit.seen = {} /\ visit.batch = {}
    BY Resting DEF IdentityInit
<1> QED
    BY <1>3, <1>4 DEF IdentityInv, Named, KnownOf, Storable

\* What changes only the place of the visit.
LEMMA OpenShardTypes ==
    ASSUME IdentityTypeOK, NEW s \in Shard, OpenShard(s)
    PROVE  IdentityTypeOK'
<1>1. Behind(s) \in Nat
    BY IdentityAssumption DEF Behind, IdentityTypeOK
<1>2. DOMAIN shelf[s] \subseteq Nat
    BY DEF IdentityTypeOK
<1>3. visit' \in Visit /\ visit'.shard = s
  <2>1. <<>> \in Seq(AnyRow) /\ (s \in named) \in BOOLEAN
    OBVIOUS
  <2>2. visit' = [step |-> "query", shard |-> s, start |-> Behind(s),
                  at |-> Behind(s), known |-> (s \in named), page |-> <<>>,
                  full |-> FALSE, seen |-> {}, batch |-> {},
                  settled |-> DOMAIN shelf[s]]
    BY DEF OpenShard, NoVisit
  <2> QED
    BY <1>1, <1>2, <2>1, <2>2 DEF Visit
<1> QED
    BY <1>3 DEF OpenShard, chats, IdentityTypeOK

LEMMA PagesType ==
    ASSUME IdentityTypeOK, QueryRows
    PROVE  IdentityTypeOK'
<1>1. visit.shard \in Shard /\ visit.step = "query"
    BY DEF QueryRows, IdentityTypeOK
<1>2. NextRows \in Seq(AnyRow) /\ Len(NextRows) \in Nat
    BY <1>1, NextRowsType
<1>3. visit \in Visit /\ visit.at + Len(NextRows) \in Nat
    BY <1>2, VisitParts DEF IdentityTypeOK
<1>4. (Len(NextRows) = PageSize) \in BOOLEAN
    OBVIOUS
<1>5. [visit EXCEPT !.step = "rows", !.page = NextRows,
                    !.full = (Len(NextRows) = PageSize),
                    !.at = @ + Len(NextRows)] \in Visit
    BY <1>2, <1>3, <1>4 DEF Visit
<1>6. visit' \in Visit
    BY <1>5, Resting DEF QueryRows
<1>7. visit'.step \in {"query", "rows"} => visit'.shard = visit.shard
    BY <1>3, Resting DEF QueryRows, Visit
<1> QED
    BY <1>1, <1>6, <1>7 DEF QueryRows, chats, IdentityTypeOK

LEMMA RowsType ==
    ASSUME IdentityTypeOK, ReadRow
    PROVE  /\ IdentityTypeOK'
           /\ LET r == Reading(Head(visit.page))
                  e == [id |-> IdentityOf(r), reading |-> r]
              IN /\ e \in StoredEvent
                 /\ visit'.seen = visit.seen \cup {e}
                 /\ visit'.batch = visit.batch \cup {e}
<1> DEFINE r == Reading(Head(visit.page))
           e == [id |-> IdentityOf(r), reading |-> r]
<1>1. visit \in Visit /\ visit.page \in Seq(AnyRow) /\ visit.page # <<>>
    BY VisitParts DEF IdentityTypeOK, ReadRow
<1>2. Head(visit.page) \in AnyRow /\ Tail(visit.page) \in Seq(AnyRow)
    BY <1>1, HeadTailProperties
<1>3. e \in StoredEvent
    BY <1>2, EventType
<1>4. visit' = [visit EXCEPT !.page = Tail(@), !.seen = @ \cup {e},
                             !.batch = @ \cup {e}]
    BY DEF ReadRow
<1> HIDE DEF e
<1>5. visit' \in Visit /\ visit'.shard = visit.shard /\ visit'.step = visit.step
    BY <1>1, <1>2, <1>3, <1>4 DEF Visit
<1>6. /\ visit'.seen = visit.seen \cup {e}
      /\ visit'.batch = visit.batch \cup {e}
    BY <1>1, <1>4 DEF Visit
<1>7. IdentityTypeOK'
    BY <1>5 DEF ReadRow, chats, IdentityTypeOK
<1> QED
    BY <1>3, <1>6, <1>7 DEF e

LEMMA StoreTypes ==
    ASSUME IdentityTypeOK, StorePage
    PROVE  IdentityTypeOK'
<1>1. visit \in Visit /\ visit.at \in Nat /\ visit.shard \in Shard
      /\ Storable \subseteq StoredEvent
    BY VisitParts DEF IdentityTypeOK, StorePage, Storable
<1>2. [visit EXCEPT !.step = "query", !.batch = {}] \in Visit
    BY <1>1 DEF Visit
<1>3. [visit EXCEPT !.step = "query", !.batch = {}].shard = visit.shard
    BY <1>1 DEF Visit
<1>4. visit' \in Visit /\ (visit'.step \in {"query", "rows"} => visit'.shard \in Shard)
    BY <1>1, <1>2, <1>3, Resting DEF StorePage
<1>5. events' \subseteq StoredEvent
    BY <1>1 DEF StorePage, IdentityTypeOK
<1>6. passed' \in [Shard -> Nat]
    BY <1>1 DEF StorePage, IdentityTypeOK
<1>7. toVisit' \subseteq Shard
    BY DEF StorePage, IdentityTypeOK
<1> QED
    BY <1>4, <1>5, <1>6, <1>7 DEF StorePage, chats, IdentityTypeOK

LEMMA EditTypes ==
    ASSUME IdentityTypeOK, NEW s \in Shard, NEW c \in Content,
           NEW i \in DOMAIN shelf[s], EditRow(s, i, c)
    PROVE  /\ IdentityTypeOK'
           /\ visit'.seen = visit.seen /\ visit'.batch = visit.batch
<1>1. visit \in Visit /\ shelf[s] \in Seq(AnyRow) /\ shelf[s][i] \in AnyRow
    BY DEF IdentityTypeOK
<1>2. [shelf[s][i] EXCEPT !.content = c] \in AnyRow
    BY <1>1 DEF AnyRow
<1>3. [shelf[s] EXCEPT ![i].content = c] \in Seq(AnyRow)
    BY <1>1, <1>2, ExceptSeq
<1>4. shelf' \in [Shard -> Seq(AnyRow)]
    BY <1>3 DEF EditRow, IdentityTypeOK
<1>5. /\ visit' \in Visit /\ visit'.seen = visit.seen
      /\ visit'.batch = visit.batch /\ visit'.shard = visit.shard
      /\ visit'.step = visit.step
    BY <1>1 DEF EditRow, Visit
<1>6. changes' \in 0..MaxChanges
    BY IdentityAssumption DEF EditRow, IdentityTypeOK
<1> QED
    BY <1>4, <1>5, <1>6 DEF EditRow, IdentityTypeOK

LEMMA NextIdentityTypes ==
    ASSUME IdentityTypeOK, [IdentityNext]_identityVars
    PROVE  IdentityTypeOK'
<1>1. ASSUME NEW d \in BOOLEAN, BeginPoll(d)
      PROVE  IdentityTypeOK'
  <2>1. visit' = BackToShards
    BY <1>1 DEF BeginPoll, BackToShards
  <2> QED
    BY <1>1, <2>1, Resting DEF BeginPoll, chats, IdentityTypeOK
<1>2. ASSUME NEW s \in Shard, OpenShard(s) \/ NameUser(s)
      PROVE  IdentityTypeOK'
  <2>1. CASE NameUser(s)
    BY <2>1, IdentityAssumption DEF NameUser, IdentityTypeOK
  <2> QED
    BY <1>2, <2>1, OpenShardTypes
<1>3. CASE QueryRows
    BY <1>3, PagesType
<1>4. CASE ReadRow
    BY <1>4, RowsType
<1>5. CASE StorePage
    BY <1>5, StoreTypes
<1>6. CASE EndPoll
    BY <1>6, Resting DEF EndPoll, chats, IdentityTypeOK
<1>7. ASSUME NEW s \in Shard, NEW row \in ShardRow, WriteRow(s, row)
      PROVE  IdentityTypeOK'
  <2>1. row \in AnyRow
    BY IdentityAssumption DEF AnyRow
  <2>2. Append(shelf[s], row) \in Seq(AnyRow)
    BY <2>1 DEF IdentityTypeOK
  <2> QED
    BY <1>7, <2>2 DEF WriteRow, IdentityTypeOK
<1>8. ASSUME NEW s \in Shard, NEW c \in Content, NEW i \in DOMAIN shelf[s],
             EditRow(s, i, c)
      PROVE  IdentityTypeOK'
    BY <1>8, EditTypes
<1>9. CASE UNCHANGED identityVars
    BY <1>9 DEF identityVars, chats, IdentityTypeOK
<1> QED
    BY <1>1, <1>2, <1>3, <1>4, <1>5, <1>6, <1>7, <1>8, <1>9 DEF IdentityNext

\* A row read joins the events of its page under an identity that is free or
\* its own.
LEMMA ReadRowKeeps ==
    ASSUME IdentityTypeOK, IdentityInv, ReadRow
    PROVE  IdentityInv'
<1> DEFINE r == Reading(Head(visit.page))
           e == [id |-> IdentityOf(r), reading |-> r]
           directed == r.direction # "unknown"
           kept == events \cup Storable
<1>1. /\ e \in StoredEvent /\ e.id = IdentityOf(r) /\ e.reading = r
      /\ visit'.seen = visit.seen \cup {e}
      /\ visit'.batch = visit.batch \cup {e}
      /\ events' = events
    BY RowsType DEF ReadRow
<1>2. /\ visit.seen \subseteq StoredEvent /\ visit.batch \subseteq visit.seen
      /\ events \subseteq StoredEvent
    BY VisitParts DEF IdentityTypeOK, IdentityInv
<1>3. Storable' = Storable \cup (IF directed THEN {e} ELSE {})
    BY <1>1 DEF Storable
<1>4. kept \subseteq StoredEvent /\ Storable \subseteq visit.seen
    BY <1>2 DEF Storable
<1>5. \A f, g \in StoredEvent : f.id = g.id /\ f.reading = g.reading => f = g
    BY DEF StoredEvent
<1>6. IdentityOf(r) \in {Base(r.local), Collision(r)}
    BY DEF IdentityOf
<1> HIDE DEF e, r
<1>7. ASSUME directed, e.id = Base(r.local)
      PROVE  \A f \in kept : f.id = e.id => f = e
  <2>1. \A f \in visit.seen \cup events : f.id = Base(r.local) => f.reading = r
    BY <1>1, <1>7, Names DEF IdentityOf, Taken
  <2> QED
    BY <1>1, <1>4, <1>5, <1>7, <2>1
<1>8. ASSUME e.id = Collision(r)
      PROVE  \A f \in kept : f.id = e.id => f = e
  <2> SUFFICES ASSUME NEW f \in kept, f.id = e.id PROVE f = e
    OBVIOUS
  <2>1. f.id \in {Base(f.reading.local), Collision(f.reading)}
    BY DEF IdentityInv, Named
  <2>2. f.reading = r
    BY <1>8, <2>1, Names
  <2> QED
    BY <1>1, <1>4, <1>5, <2>2
<1>9. ASSUME directed, e.id = Collision(r)
      PROVE  \E f \in kept : f.id = Base(r.local) /\ f.reading # r
  <2>1. Taken(Base(r.local), r, visit.seen) \/ Taken(Base(r.local), r, events)
    BY <1>1, <1>9, Names DEF IdentityOf
  <2>2. PICK f \in visit.seen \cup events :
                f.id = Base(r.local) /\ f.reading # r
    BY <2>1 DEF Taken
  <2>3. CASE f \in visit.seen
    <3>1. f.reading.direction # "unknown"
      BY <2>2, <2>3, Names DEF IdentityInv
    <3> QED
      BY <2>2, <2>3, <3>1 DEF IdentityInv, KnownOf
  <2> QED
    BY <2>2, <2>3
<1>10. Named(events \cup Storable')
  <2>1. CASE ~directed
    BY <2>1, <1>3 DEF IdentityInv
  <2>2. CASE directed
    <3>1. events \cup Storable' = kept \cup {e}
      BY <1>3, <2>2
    <3>2. \A f \in kept : f.id = e.id => f = e
      BY <1>1, <1>6, <1>7, <1>8, <2>2
    <3>3. \A f, g \in kept \cup {e} : f.id = g.id => f = g
      BY <3>2 DEF IdentityInv, Named
    <3>4. \A f \in kept :
             /\ f.id \in {Base(f.reading.local), Collision(f.reading)}
             /\ f.id = Collision(f.reading) =>
                   \E g \in kept :
                       g.id = Base(f.reading.local) /\ g.reading # f.reading
      BY DEF IdentityInv, Named
    <3>5. /\ e.id \in {Base(r.local), Collision(r)}
          /\ e.id = Collision(r) =>
                \E g \in kept : g.id = Base(r.local) /\ g.reading # r
      BY <1>1, <1>6, <1>9, <2>2
    <3> QED
      BY <1>1, <3>1, <3>3, <3>4, <3>5 DEF Named
  <2> QED
    BY <2>1, <2>2
<1>11. KnownOf(visit'.seen) \subseteq events \cup Storable'
    BY <1>1, <1>3 DEF IdentityInv, KnownOf
<1>12. \A f \in visit'.seen :
          f.reading.direction = "unknown" => f.id = Collision(f.reading)
    BY <1>1 DEF IdentityInv, IdentityOf
<1>13. /\ Named(events') /\ KnownOf(events') = events'
       /\ visit'.batch \subseteq visit'.seen
    BY <1>1, <1>2 DEF IdentityInv
<1> QED
    BY <1>1, <1>10, <1>11, <1>12, <1>13 DEF IdentityInv

LEMMA StoreKeeps ==
    ASSUME IdentityTypeOK, IdentityInv, StorePage
    PROVE  IdentityInv'
<1>1. Fits(Storable)
    BY DEF Fits, IdentityInv, Named
<1>2. visit \in Visit
    BY DEF IdentityTypeOK
<1>3. /\ events' = events \cup Storable
      /\ visit'.batch = {} /\ visit'.seen \subseteq visit.seen
    BY <1>1, <1>2, Resting DEF StorePage, Visit
<1>4. Storable' = {}
    BY <1>3 DEF Storable
<1>5. Named(events') /\ Named(events' \cup Storable')
    BY <1>3, <1>4 DEF IdentityInv
<1>6. KnownOf(events') = events'
    BY <1>3 DEF IdentityInv, KnownOf, Storable
<1>7. KnownOf(visit'.seen) \subseteq events' \cup Storable'
    BY <1>3 DEF IdentityInv, KnownOf
<1> QED
    BY <1>3, <1>5, <1>6, <1>7 DEF IdentityInv

LEMMA NextIdentityInv ==
    ASSUME IdentityTypeOK, IdentityInv, [IdentityNext]_identityVars
    PROVE  IdentityInv'
<1>1. ASSUME events' = events,
             \/ visit'.seen = visit.seen /\ visit'.batch = visit.batch
             \/ visit'.seen = {} /\ visit'.batch = {}
      PROVE  IdentityInv'
  <2>1. CASE visit'.seen = visit.seen /\ visit'.batch = visit.batch
    BY <1>1, <2>1 DEF IdentityInv, Named, KnownOf, Storable
  <2>2. CASE visit'.seen = {} /\ visit'.batch = {}
    BY <1>1, <2>2 DEF IdentityInv, Named, KnownOf, Storable
  <2> QED
    BY <1>1, <2>1, <2>2
<1>2. CASE \E d \in BOOLEAN : BeginPoll(d)
    BY <1>1, <1>2, Resting DEF BeginPoll, BackToShards
<1>3. CASE \E s \in Shard : OpenShard(s) \/ NameUser(s)
    BY <1>1, <1>3 DEF OpenShard, NoVisit, NameUser
<1>4. CASE QueryRows
  <2>1. \/ visit'.seen = visit.seen /\ visit'.batch = visit.batch
        \/ visit'.seen = {} /\ visit'.batch = {}
    BY <1>4, Resting DEF QueryRows, IdentityTypeOK, Visit
  <2> QED
    BY <1>1, <1>4, <2>1 DEF QueryRows
<1>5. CASE ReadRow
    BY <1>5, ReadRowKeeps
<1>6. CASE StorePage
    BY <1>6, StoreKeeps
<1>7. CASE EndPoll
    BY <1>1, <1>7, Resting DEF EndPoll
<1>8. CASE \E s \in Shard, row \in ShardRow : WriteRow(s, row)
    BY <1>1, <1>8 DEF WriteRow
<1>9. ASSUME NEW s \in Shard, NEW c \in Content, NEW i \in DOMAIN shelf[s],
             EditRow(s, i, c)
      PROVE  IdentityInv'
    BY <1>1, <1>9, EditTypes DEF EditRow
<1>10. CASE UNCHANGED identityVars
    BY <1>1, <1>10 DEF identityVars
<1> QED
    BY <1>2, <1>3, <1>4, <1>5, <1>6, <1>7, <1>8, <1>9, <1>10 DEF IdentityNext

\* Under whatever identities the ledger and the page at work hold, they name
\* one reading each (_event_id, ingest_events).
THEOREM IdentitySafe == IdentitySpec => [](IdentityTypeOK /\ IdentityInv)
<1>1. IdentityInit => IdentityTypeOK /\ IdentityInv
    BY InitIdentity
<1>2. IdentityTypeOK /\ IdentityInv /\ [IdentityNext]_identityVars
         => (IdentityTypeOK /\ IdentityInv)'
    BY NextIdentityTypes, NextIdentityInv
<1> QED
    BY <1>1, <1>2, PTL DEF IdentitySpec

\* No page is refused for a collision, so no row can hold up every later poll
\* (_event_id, ingest_events).
THEOREM NoPageIsRefused == IdentitySpec => []PagesFit
<1>1. IdentityInv => PagesFit
    BY DEF IdentityInv, Named, PagesFit, Fits
<1> QED
    BY <1>1, IdentitySafe, PTL

\* The same reading of a message is one event, in whichever shard and however
\* often it is read (_event_id).
THEOREM ReadingsAreStoredOnce == IdentitySpec => []OneEventPerReading
<1>1. ASSUME IdentityTypeOK, IdentityInv PROVE OneEventPerReading
  <2> SUFFICES ASSUME NEW e \in events, NEW f \in events,
                      e.reading = f.reading
               PROVE  e = f
    BY DEF OneEventPerReading
  <2>1. \A g, h \in events : g.id = h.id => g = h
    BY <1>1 DEF IdentityInv, Named
  <2>2. CASE e.id = Collision(f.reading) /\ f.id = Base(f.reading.local)
    <3>1. PICK g \in events : g.id = f.id /\ g.reading # e.reading
      BY <1>1, <2>2 DEF IdentityInv, Named
    <3> QED
      BY <2>1, <3>1
  <2>3. CASE f.id = Collision(f.reading) /\ e.id = Base(f.reading.local)
    <3>1. PICK g \in events : g.id = e.id /\ g.reading # f.reading
      BY <1>1, <2>3 DEF IdentityInv, Named
    <3> QED
      BY <2>1, <3>1
  <2>4. CASE e.id = f.id
    BY <2>1, <2>4
  <2> QED
    BY <1>1, <2>2, <2>3, <2>4 DEF IdentityInv, Named
<1> QED
    BY <1>1, IdentitySafe, PTL

\* Identities are chosen so that no page is refused and no reading is doubled,
\* for any shards, edits and page size.
THEOREM NamingIsSound == IdentitySpec => []ReadingsAreNamed
BY NoPageIsRefused, ReadingsAreStoredOnce, PTL DEF ReadingsAreNamed
-----------------------------------------------------------------------------
(* What a visit has stored when it comes to its end.                       *)

\* The next rows are the following ones; a page that is short reaches the end.
LEMMA NextRowsAre ==
    ASSUME IdentityTypeOK, visit.step = "query", visit.shard \in Shard
    PROVE  LET n == Len(NextRows)
               shelved == shelf[visit.shard]
           IN  /\ n \in Nat /\ visit.at \in Nat /\ Len(shelved) \in Nat
               /\ \A j \in 1..n : NextRows[j] = shelved[visit.at + j]
               /\ n # PageSize \/ NextRows = <<>> => Len(shelved) <= visit.at + n
<1> DEFINE n == Len(NextRows)
           shelved == shelf[visit.shard]
           end == IF visit.at + PageSize < Len(shelved) THEN visit.at + PageSize
                  ELSE Len(shelved)
<1>1. /\ shelved \in Seq(AnyRow) /\ visit.at \in Nat /\ PageSize \in Nat /\ PageSize # 0
      /\ Len(shelved) \in Nat
    BY VisitParts, IdentityAssumption DEF IdentityTypeOK
<1>2. /\ end \in Nat /\ end <= Len(shelved)
      /\ end = visit.at + PageSize \/ end = Len(shelved)
    BY <1>1
<1>3. \A i \in (visit.at + 1)..end : shelved[i] \in AnyRow
    BY <1>1, <1>2
<1>4. NextRows = SubSeq(shelved, visit.at + 1, end)
    BY DEF NextRows
<1> HIDE DEF end, shelved
<1>5. /\ n = IF visit.at + 1 <= end THEN end - (visit.at + 1) + 1 ELSE 0
      /\ \A j \in 1..n : NextRows[j] = shelved[visit.at + 1 + j - 1]
  <2>1. /\ Len(NextRows) = IF visit.at + 1 <= end THEN end - (visit.at + 1) + 1 ELSE 0
        /\ \A j \in 1..(end - (visit.at + 1) + 1) :
              NextRows[j] = shelved[visit.at + 1 + j - 1]
    <3>1. \A m, k \in Int :
             (\A i \in m..k : shelved[i] \in AnyRow) =>
                /\ Len(SubSeq(shelved, m, k)) = IF m <= k THEN k - m + 1 ELSE 0
                /\ \A j \in 1..(k - m + 1) : SubSeq(shelved, m, k)[j] = shelved[m + j - 1]
      BY SubSeqProperties
    <3>2. visit.at + 1 \in Int /\ end \in Int
      BY <1>1, <1>2
    <3> QED
      BY <1>3, <1>4, <3>1, <3>2
  <2>2. CASE visit.at + 1 <= end
    BY <2>1, <2>2
  <2>3. CASE ~ (visit.at + 1 <= end)
    BY <2>1, <2>3
  <2> QED
    BY <2>2, <2>3
<1>6. \A j \in 1..n : visit.at + 1 + j - 1 = visit.at + j
    BY <1>1, <1>2, <1>5
<1>7. n \in Nat
    BY <1>1, <1>2, <1>5
<1>8. \A j \in 1..n : NextRows[j] = shelved[visit.at + j]
    BY <1>5, <1>6
<1>9. NextRows = <<>> => n = 0
    OBVIOUS
<1>10. n # PageSize \/ NextRows = <<>> => Len(shelved) <= visit.at + n
    BY <1>1, <1>2, <1>5, <1>7, <1>9
<1> QED
    BY <1>1, <1>7, <1>8, <1>10 DEF shelved

\* A visit between two pages, or between two shards.
LEMMA RestingIsSettled ==
    ASSUME visit'.step \notin {"query", "rows"}
    PROVE  SettledInv'
BY DEF SettledInv

\* What is held stays held when nothing leaves the page at work or the ledger.
LEMMA QuerySettles ==
    ASSUME IdentityTypeOK, SettledInv, QueryRows
    PROVE  SettledInv'
<1>1. /\ visit.step = "query" /\ visit.shard \in Shard /\ visit \in Visit
      /\ visit.page = <<>> /\ visit.batch = {} /\ Len(visit.page) = 0
      /\ shelf' = shelf /\ events' = events /\ decoder' = decoder
      /\ visit.settled \subseteq DOMAIN shelf[visit.shard]
      /\ visit.settled \subseteq Nat /\ visit.start \in Nat
    BY DEF QueryRows, chats, IdentityTypeOK, SettledInv, Visit
<1> DEFINE n == Len(NextRows)
           shelved == shelf[visit.shard]
<1>2. /\ n \in Nat /\ visit.at \in Nat /\ Len(shelved) \in Nat
      /\ \A j \in 1..n : NextRows[j] = shelved[visit.at + j]
      /\ n # PageSize \/ NextRows = <<>> => Len(shelved) <= visit.at + n
    BY <1>1, NextRowsAre
<1>3. CASE NextRows = <<>>
  <2>1. visit' = BackToShards
    BY <1>3 DEF QueryRows
  <2> QED
    BY <2>1, Resting, RestingIsSettled
<1>4. CASE NextRows # <<>>
  <2>1. visit' = [visit EXCEPT !.step = "rows", !.page = NextRows,
                               !.full = (Len(NextRows) = PageSize),
                               !.at = @ + Len(NextRows)]
    BY <1>4 DEF QueryRows
  <2>2. /\ visit'.step = "rows" /\ visit'.page = NextRows /\ visit'.shard = visit.shard
        /\ visit'.full = (n = PageSize) /\ visit'.at = visit.at + n
        /\ visit'.settled = visit.settled /\ visit'.batch = visit.batch
        /\ visit'.known = visit.known /\ visit'.start = visit.start
    BY <1>1, <2>1 DEF Visit
  <2>3. /\ \A row : Reading(row)' = Reading(row)
        /\ \A r : Holds(r)' = Holds(r)
    BY <1>1, <2>2 DEF Reading, Holds, Storable
  <2> HIDE DEF n
  <2>4. ASSUME NEW i \in visit.settled
        PROVE  \/ i <= visit.start \/ i > visit.at + n
               \/ Holds(Reading(shelved[i]))
               \/ /\ i - (visit.at + n) + n \in 1..n
                  /\ NextRows[i - (visit.at + n) + n] = shelved[i]
    <3>1. i \in Nat
      BY <1>1
    <3>2. \/ i <= visit.start \/ i > visit.at \/ Holds(Reading(shelved[i]))
          \/ Unread(i) \in 1..Len(visit.page)
      BY <1>1 DEF SettledInv
    <3>3. CASE i > visit.at /\ i <= visit.at + n
      <4>1. /\ i - visit.at \in 1..n /\ visit.at + (i - visit.at) = i
            /\ i - (visit.at + n) + n = i - visit.at
        BY <1>2, <3>1, <3>3
      <4> QED
        BY <1>2, <4>1
    <3> QED
      BY <1>1, <1>2, <3>1, <3>2, <3>3
  <2>5. ASSUME n # PageSize, NEW i \in visit.settled
        PROVE  i <= visit.at + n
    <3>1. i \in 1..Len(shelved)
      BY <1>1 DEF IdentityTypeOK
    <3> QED
      BY <1>2, <2>5, <3>1
  <2>6. \A i : Unread(i)' = i - (visit.at + n) + n
    BY <2>2 DEF Unread, n
  <2>7. Len(visit'.page) = n
    BY <2>2 DEF n
  <2> QED
    BY <1>1, <2>2, <2>3, <2>4, <2>5, <2>6, <2>7 DEF SettledInv
<1> QED
    BY <1>3, <1>4

LEMMA ReadSettles ==
    ASSUME IdentityTypeOK, SettledInv, ReadRow
    PROVE  SettledInv'
<1> DEFINE r == Reading(Head(visit.page))
           e == [id |-> IdentityOf(r), reading |-> r]
           shelved == shelf[visit.shard]
<1>1. /\ visit.step = "rows" /\ visit \in Visit /\ visit.page \in Seq(AnyRow)
      /\ visit.page # <<>> /\ visit.at \in Nat
      /\ shelf' = shelf /\ events' = events /\ decoder' = decoder
      /\ visit.settled \subseteq DOMAIN shelved
      /\ visit.settled \subseteq Nat
    BY VisitParts DEF ReadRow, chats, IdentityTypeOK, SettledInv, Visit
<1>2. visit' = [visit EXCEPT !.page = Tail(@), !.seen = @ \cup {e},
                             !.batch = @ \cup {e}]
    BY DEF ReadRow
<1> HIDE DEF e
<1>3. /\ visit'.step = "rows" /\ visit'.page = Tail(visit.page)
      /\ visit'.shard = visit.shard /\ visit'.full = visit.full
      /\ visit'.at = visit.at /\ visit'.settled = visit.settled
      /\ visit'.batch = visit.batch \cup {e}
      /\ visit'.known = visit.known /\ visit'.start = visit.start
    BY <1>1, <1>2 DEF Visit
<1> DEFINE n == Len(visit.page)
<1>4. /\ n \in Nat /\ n # 0 /\ Len(Tail(visit.page)) = n - 1
      /\ Head(visit.page) = visit.page[1]
      /\ \A j \in 1..(n - 1) : Tail(visit.page)[j] = visit.page[j + 1]
    BY <1>1
<1>5. /\ \A row : Reading(row)' = Reading(row)
      /\ e.reading = r
    BY <1>1, <1>3 DEF Reading, e
<1>6. /\ Storable \subseteq Storable'
      /\ r.direction # "unknown" => e \in Storable'
    BY <1>3, <1>5 DEF Storable
<1>7. /\ \A q : Holds(q) => Holds(q)'
      /\ \A q : q = r => Holds(q)'
    BY <1>1, <1>5, <1>6 DEF Holds
<1> HIDE DEF r
<1>8. ASSUME NEW i \in visit.settled
      PROVE  \/ i <= visit.start \/ i > visit.at
             \/ Holds(Reading(shelved[i]))'
             \/ /\ Unread(i) - 1 \in 1..(n - 1)
                /\ Tail(visit.page)[Unread(i) - 1] = shelved[i]
  <2>1. i \in Nat /\ Unread(i) \in Int
    BY <1>1, <1>4 DEF Unread
  <2>2. CASE Holds(Reading(shelved[i]))
    <3>1. Reading(shelved[i])' = Reading(shelved[i])
      BY <1>1, <1>3 DEF Reading
    <3> QED
      BY <2>2, <1>7, <3>1, <1>1, <1>3, <1>5
  <2>3. CASE Unread(i) \in 1..n /\ visit.page[Unread(i)] = shelved[i]
    <3>1. CASE Unread(i) = 1
      <4>1. r = Reading(shelved[i])
        BY <1>4, <2>3, <3>1 DEF r
      <4>2. Holds(Reading(shelved[i]))'
        <5>1. Reading(shelved[i])' = r
          BY <1>1, <1>3, <4>1 DEF Reading
        <5> QED
          BY <1>7, <5>1
      <4> QED
        BY <4>2
    <3>2. CASE Unread(i) # 1
      <4>1. Unread(i) - 1 \in 1..(n - 1) /\ Unread(i) - 1 + 1 = Unread(i)
        BY <1>4, <2>1, <2>3, <3>2
      <4> QED
        BY <1>4, <2>3, <4>1
    <3> QED
      BY <3>1, <3>2
  <2> QED
    BY <1>1, <2>2, <2>3 DEF SettledInv
<1>9. \A i \in visit.settled : Unread(i)' = Unread(i) - 1
    BY <1>1, <1>3, <1>4 DEF Unread
<1>10. Len(visit'.page) = n - 1
    BY <1>3, <1>4
<1>11. ~ visit.full => \A i \in visit.settled : i <= visit.at
    BY <1>1 DEF SettledInv
<1> QED
    BY <1>1, <1>3, <1>8, <1>9, <1>10, <1>11 DEF SettledInv

LEMMA StoreSettles ==
    ASSUME IdentityTypeOK, IdentityInv, SettledInv, StorePage
    PROVE  SettledInv'
<1>1. Fits(Storable)
    BY DEF Fits, IdentityInv, Named
<1>2. /\ visit.step = "rows" /\ visit.page = <<>> /\ Len(visit.page) = 0
      /\ visit \in Visit /\ visit.at \in Nat /\ visit.settled \subseteq Nat
      /\ shelf' = shelf /\ decoder' = decoder /\ events' = events \cup Storable
    BY <1>1, VisitParts DEF StorePage, chats, IdentityTypeOK, Visit
<1>3. CASE visit.full
  <2>1. /\ visit'.step = "query" /\ visit'.page = visit.page /\ visit'.batch = {}
        /\ visit'.shard = visit.shard /\ visit'.at = visit.at
        /\ visit'.settled = visit.settled /\ visit'.known = visit.known
        /\ visit'.start = visit.start
    BY <1>1, <1>2, <1>3 DEF StorePage, Visit
  <2>2. Storable' = {}
    BY <2>1 DEF Storable
  <2>3. /\ \A row : Reading(row)' = Reading(row)
        /\ \A q : Holds(q)' = Holds(q)
    BY <1>2, <2>1, <2>2 DEF Reading, Holds
  <2>4. \A i : Unread(i)' = Unread(i)
    BY <2>1 DEF Unread
  <2> QED
    BY <1>2, <2>1, <2>3, <2>4 DEF SettledInv
<1>4. CASE ~ visit.full
    BY <1>1, <1>4, Resting, RestingIsSettled DEF StorePage
<1> QED
    BY <1>3, <1>4

LEMMA WorldSettles ==
    ASSUME IdentityTypeOK, SettledInv,
           \/ \E s \in Shard : NameUser(s)
           \/ \E s \in Shard, row \in ShardRow : WriteRow(s, row)
           \/ UNCHANGED identityVars
    PROVE  SettledInv'
<1>1. /\ visit' = visit /\ decoder' = decoder /\ events' = events
    BY DEF NameUser, WriteRow, identityVars
<1>2. ASSUME visit.shard \in Shard
      PROVE  /\ DOMAIN shelf[visit.shard] \subseteq DOMAIN shelf'[visit.shard]
             /\ \A i \in DOMAIN shelf[visit.shard] :
                   shelf'[visit.shard][i] = shelf[visit.shard][i]
  <2>1. CASE shelf' = shelf
    BY <2>1
  <2>2. CASE \E s \in Shard, row \in ShardRow : WriteRow(s, row)
    <3>1. PICK s \in Shard, row \in ShardRow : WriteRow(s, row)
      BY <2>2
    <3>2. shelf[s] \in Seq(AnyRow)
      BY DEF IdentityTypeOK
    <3>3. /\ Len(Append(shelf[s], row)) = Len(shelf[s]) + 1
          /\ \A i \in 1..Len(shelf[s]) : Append(shelf[s], row)[i] = shelf[s][i]
      BY <3>2
    <3>4. /\ DOMAIN shelf[s] \subseteq DOMAIN Append(shelf[s], row)
          /\ \A i \in DOMAIN shelf[s] : Append(shelf[s], row)[i] = shelf[s][i]
      BY <3>2, <3>3
    <3> QED
      BY <1>2, <3>1, <3>4 DEF WriteRow, IdentityTypeOK
  <2> QED
    BY <2>1, <2>2 DEF NameUser, identityVars, chats
<1>3. /\ \A row : Reading(row)' = Reading(row)
      /\ \A q : Holds(q)' = Holds(q)
      /\ \A i : Unread(i)' = Unread(i)
    BY <1>1 DEF Reading, Holds, Storable, Unread
<1>4. visit.step \in {"query", "rows"} => visit.shard \in Shard
    BY DEF IdentityTypeOK
<1>5. ASSUME visit.step \in {"query", "rows"}
      PROVE  /\ visit.settled \subseteq DOMAIN shelf'[visit.shard]
             /\ \A i \in visit.settled :
                   shelf'[visit.shard][i] = shelf[visit.shard][i]
    BY <1>2, <1>4, <1>5 DEF SettledInv
<1> QED
    BY <1>1, <1>3, <1>5 DEF SettledInv

LEMMA EditSettles ==
    ASSUME IdentityTypeOK, SettledInv, NEW s \in Shard, NEW c \in Content,
           NEW k \in DOMAIN shelf[s], EditRow(s, k, c)
    PROVE  SettledInv'
<1>1. /\ visit \in Visit /\ shelf[s] \in Seq(AnyRow)
      /\ decoder' = decoder /\ events' = events
      /\ shelf' = [shelf EXCEPT ![s] = [shelf[s] EXCEPT ![k].content = c]]
    BY DEF EditRow, IdentityTypeOK
<1>2. /\ visit'.step = visit.step /\ visit'.page = visit.page
      /\ visit'.batch = visit.batch /\ visit'.shard = visit.shard
      /\ visit'.at = visit.at /\ visit'.known = visit.known
      /\ visit'.start = visit.start /\ visit'.full = visit.full
      /\ visit'.settled = (IF visit.shard = s THEN visit.settled \ {k}
                           ELSE visit.settled)
    BY <1>1 DEF EditRow, Visit
<1>3. /\ \A row : Reading(row)' = Reading(row)
      /\ \A q : Holds(q)' = Holds(q)
      /\ \A i : Unread(i)' = Unread(i)
    BY <1>1, <1>2 DEF Reading, Holds, Storable, Unread
<1>4. ASSUME visit.step \in {"query", "rows"}
      PROVE  /\ visit'.settled \subseteq visit.settled
             /\ visit'.settled \subseteq DOMAIN shelf'[visit.shard]
             /\ \A i \in visit'.settled :
                   shelf'[visit.shard][i] = shelf[visit.shard][i]
  <2>1. visit.shard \in Shard /\ visit.settled \subseteq DOMAIN shelf[visit.shard]
    BY <1>4 DEF IdentityTypeOK, SettledInv
  <2>2. \A i \in DOMAIN shelf[s] :
          /\ i \in DOMAIN [shelf[s] EXCEPT ![k].content = c]
          /\ i # k => [shelf[s] EXCEPT ![k].content = c][i] = shelf[s][i]
    BY <1>1
  <2> QED
    BY <1>1, <1>2, <2>1, <2>2 DEF IdentityTypeOK
<1>5. visit.step \in {"query", "rows"} =>
        \A i \in visit'.settled :
           \/ i <= visit.start \/ i > visit.at
           \/ Holds(Reading(shelf'[visit.shard][i]))
           \/ /\ Unread(i) \in 1..Len(visit.page)
              /\ visit.page[Unread(i)] = shelf'[visit.shard][i]
    BY <1>4 DEF SettledInv
<1> QED
    BY <1>2, <1>3, <1>4, <1>5 DEF SettledInv

LEMMA NextSettled ==
    ASSUME IdentityTypeOK, IdentityInv, SettledInv, [IdentityNext]_identityVars
    PROVE  SettledInv'
<1>1. ASSUME NEW s \in Shard, OpenShard(s) PROVE SettledInv'
  <2>1. /\ visit'.step = "query" /\ visit'.page = <<>> /\ visit'.batch = {}
        /\ visit'.settled = DOMAIN shelf[s] /\ visit'.shard = s /\ shelf' = shelf
        /\ visit'.start = Behind(s) /\ visit'.at = Behind(s)
    BY <1>1 DEF OpenShard, NoVisit, chats
  <2>2. Behind(s) \in Nat /\ DOMAIN shelf[s] \subseteq Nat
    BY IdentityAssumption DEF Behind, IdentityTypeOK
  <2>3. \A i \in DOMAIN shelf[s] : i <= Behind(s) \/ i > Behind(s)
    BY <2>2
  <2> QED
    BY <2>1, <2>3 DEF SettledInv
<1>2. CASE \E d \in BOOLEAN : BeginPoll(d)
    BY <1>2, RestingIsSettled DEF BeginPoll, NoVisit
<1>3. CASE EndPoll
    BY <1>3, Resting, RestingIsSettled DEF EndPoll
<1> QED
    BY <1>1, <1>2, <1>3, QuerySettles, ReadSettles, StoreSettles, WorldSettles,
       EditSettles DEF IdentityNext

LEMMA EndOfVisit ==
    ASSUME IdentityTypeOK, IdentityInv, SettledInv, [IdentityNext]_identityVars,
           visit.step \in {"query", "rows"}, visit'.step = "shards",
           NEW i \in visit.settled, i > visit.start,
           Reading(shelf[visit.shard][i]).direction # "unknown"
    PROVE  \E e \in events' : e.reading = Reading(shelf[visit.shard][i])
<1>0. /\ visit \in Visit /\ visit.shard \in Shard /\ visit.at \in Nat
      /\ visit.start \in Nat /\ i \in Nat
      /\ i \in 1..Len(shelf[visit.shard])
    BY VisitParts DEF IdentityTypeOK, SettledInv, Visit
<1>1. CASE QueryRows
  <2>1. visit.step = "query" /\ NextRows = <<>> /\ events' = events
        /\ visit.page = <<>> /\ visit.batch = {} /\ Len(visit.page) = 0
    BY <1>0, <1>1 DEF QueryRows, SettledInv, Visit
  <2>2. Len(shelf[visit.shard]) <= visit.at + 0
    BY <1>0, <2>1, NextRowsAre
  <2>3. i <= visit.at
    BY <1>0, <2>2, NextRowsAre, <2>1
  <2>4. Holds(Reading(shelf[visit.shard][i])) /\ Storable = {}
    BY <1>0, <2>1, <2>3 DEF SettledInv, Storable
  <2> QED
    BY <2>1, <2>4 DEF Holds
<1>2. CASE StorePage
  <2>1. Fits(Storable)
    BY DEF Fits, IdentityInv, Named
  <2>2. /\ visit.step = "rows" /\ visit.page = <<>> /\ Len(visit.page) = 0
        /\ events' = events \cup Storable /\ ~ visit.full
    BY <1>0, <1>2, <2>1 DEF StorePage, Visit
  <2>3. Holds(Reading(shelf[visit.shard][i]))
    BY <1>0, <2>2 DEF SettledInv
  <2> QED
    BY <2>2, <2>3 DEF Holds
<1>3. CASE \E d \in BOOLEAN : BeginPoll(d)
    BY <1>3 DEF BeginPoll
<1>4. CASE \E s \in Shard : OpenShard(s) \/ NameUser(s)
    BY <1>4 DEF OpenShard, NameUser
<1>5. CASE ReadRow \/ EndPoll
    BY <1>0, <1>5, Resting DEF ReadRow, EndPoll, Visit
<1>6. CASE \E s \in Shard, row \in ShardRow : WriteRow(s, row)
    BY <1>6 DEF WriteRow
<1>7. CASE \E s \in Shard, c \in Content : \E k \in DOMAIN shelf[s] : EditRow(s, k, c)
    BY <1>0, <1>7 DEF EditRow, Visit
<1>8. CASE UNCHANGED identityVars
    BY <1>8 DEF identityVars
<1> QED
    BY <1>1, <1>2, <1>3, <1>4, <1>5, <1>6, <1>7, <1>8 DEF IdentityNext

\* A visit that comes to its end has stored every row of the overlap and beyond
\* that nobody edited meanwhile and whose direction it knew (poll, _row_event,
\* ingest_events), for any page size, overlap and shards.
THEOREM VisitAlwaysStoresRows == IdentitySpec => VisitStoresRows
<1>1. IdentityInit => SettledInv
    BY Resting DEF IdentityInit, SettledInv
<1>2. IdentityTypeOK /\ IdentityInv /\ SettledInv /\ [IdentityNext]_identityVars
        => SettledInv'
    BY NextSettled
<1>3. IdentityTypeOK /\ IdentityInv /\ SettledInv /\ [IdentityNext]_identityVars =>
        [visit.step \in {"query", "rows"} /\ visit'.step = "shards" =>
         \A i \in visit.settled :
            LET r == Reading(shelf[visit.shard][i]) IN
            (i > visit.start /\ r.direction # "unknown")
              => \E e \in events' : e.reading = r]_visit
    BY EndOfVisit
<1> QED
    BY <1>1, <1>2, <1>3, IdentitySafe, PTL DEF IdentitySpec, VisitStoresRows
=============================================================================
