--------------------------- MODULE MessageReader ---------------------------
(***************************************************************************)
(* The incremental reader (wechat_reader.py, WeChatReader.poll) and the    *)
(* cursors it keeps in the ledger (ingest_events).                         *)
(*                                                                         *)
(* A run visits every message table it can find, pages through the rows    *)
(* behind the table's cursor minus an overlap, and commits each page with  *)
(* the new cursor in one transaction.  Rows appear meanwhile, not always   *)
(* in the order of their create_time; queries fail; the process dies.      *)
(***************************************************************************)
EXTENDS Integers, FiniteSets

CONSTANTS
    Table,       \* message tables, one per shard and contact
    Kinds,       \* kinds of row that occur
    Lookback,    \* the first run starts this far back        (86400 s)
    Overlap,     \* a poll starts this far behind its cursor  (300 s)
    PageRows,    \* rows per query
    MaxLag,      \* bound: how old a row is when it appears
    MaxTime,     \* bound: clock
    MaxRows,     \* bound: rows per table
    MaxFaults    \* bound: crashes and failed queries

Time == 0..MaxTime
Never == -1

ASSUME ReaderAssumption ==
    /\ Kinds \subseteq {"known", "unreadable"}
    /\ Lookback \in Nat /\ Overlap \in Nat
    /\ PageRows \in Nat \ {0}
    /\ MaxLag \in Nat /\ MaxTime \in Nat
    /\ MaxRows \in Nat /\ MaxFaults \in Nat

VARIABLES
    now,       \* the clock
    faults,    \* crashes and failed queries so far
    visible,   \* tables that discovery finds
    rows,      \* per table, the rows of the database
    cursor,    \* ledger: cursor of a table
    stored,    \* ledger: local_ids of the rows held as events
    cutoff,    \* ledger: completion time of the first run
    pc,        \* the run: next step
    since,     \* the run: where a table without a cursor starts
    todo,      \* the run: tables still to visit
    table,     \* the run: table in hand
    page,      \* the run: position up to which the table was read
    batch,     \* the run: rows fetched and not yet committed
    from,      \* history: where this visit of the table started
    known,     \* history: rows the table had when this visit started
    origin,    \* history: where the first visit of a table started
    late       \* history: rows that appeared behind what was already read

world == <<now, visible, rows>>
ledger == <<cursor, stored, cutoff>>
run == <<pc, since, todo, table, page, batch>>
history == <<from, known, origin, late>>
vars == <<world, faults, ledger, run, history>>

-----------------------------------------------------------------------------
Position == (Time \cup {-1}) \X (-1..MaxRows)
NoCursor == <<-1, -1>>
Row == [at : Time, id : 1..MaxRows, kind : Kinds]

Pos(r) == <<r.at, r.id>>
Before(p, q) == p[1] < q[1] \/ (p[1] = q[1] /\ p[2] < q[2])
Later(p, q) == IF Before(p, q) THEN q ELSE p

TypeOK ==
    /\ now \in Time
    /\ faults \in 0..MaxFaults
    /\ visible \subseteq Table
    /\ rows \in [Table -> SUBSET Row]
    /\ cursor \in [Table -> Position]
    /\ stored \in [Table -> SUBSET (1..MaxRows)]
    /\ cutoff \in Time \cup {Never}
    /\ pc \in {"idle", "tables", "query", "commit"}
    /\ since \in Time
    /\ todo \subseteq Table
    /\ table \in Table
    /\ page \in Position
    /\ batch \subseteq Row
    /\ from \in Position
    /\ known \subseteq Row
    /\ origin \in [Table -> Time \cup {Never}]
    /\ late \in [Table -> SUBSET (1..MaxRows)]

Init ==
    /\ now = 0 /\ faults = 0
    /\ visible \in SUBSET Table
    /\ rows = [t \in Table |-> {}]
    /\ cursor = [t \in Table |-> NoCursor]
    /\ stored = [t \in Table |-> {}]
    /\ cutoff = Never
    /\ pc = "idle" /\ since = 0 /\ todo = {}
    /\ table \in Table
    /\ page = NoCursor /\ batch = {} /\ from = NoCursor /\ known = {}
    /\ origin = [t \in Table |-> Never]
    /\ late = [t \in Table |-> {}]

-----------------------------------------------------------------------------
(* One run: every table once.                                              *)

\* The first run looks back a fixed time; later ones give a table they have
\* never seen the time at which the first run completed.
StartRun ==
    /\ pc = "idle"
    /\ since' = IF cutoff # Never THEN cutoff
                ELSE IF now < Lookback THEN 0 ELSE now - Lookback
    /\ todo' = visible
    /\ pc' = "tables"
    /\ UNCHANGED <<world, faults, ledger, table, page, batch, history>>

\* Mutant: the overlap is forgotten, the table resumes at its cursor.
OpenTableAtCursor(t) ==
    /\ pc = "tables" /\ t \in todo
    /\ IF cursor[t] = NoCursor
       THEN /\ page' = <<since, -1>>
            /\ cursor' = [cursor EXCEPT ![t] = <<since, 0>>]
            /\ origin' = [origin EXCEPT ![t] = since]
       ELSE page' = cursor[t] /\ UNCHANGED <<cursor, origin>>
    /\ pc' = "query" /\ table' = t /\ todo' = todo \ {t}
    /\ from' = page' /\ known' = rows[t]
    /\ UNCHANGED <<world, faults, stored, cutoff, since, batch, late>>

\* A table without a cursor gets one before its first row is read.
OpenTable(t) ==
    /\ pc = "tables" /\ t \in todo
    /\ IF cursor[t] = NoCursor
       THEN /\ page' = <<since, -1>>
            /\ cursor' = [cursor EXCEPT ![t] = <<since, 0>>]
            /\ origin' = [origin EXCEPT ![t] = since]
       ELSE /\ page' = <<IF cursor[t][1] < Overlap THEN -1
                         ELSE cursor[t][1] - Overlap, -1>>
            /\ UNCHANGED <<cursor, origin>>
    /\ pc' = "query" /\ table' = t /\ todo' = todo \ {t}
    /\ from' = page' /\ known' = rows[t]
    /\ UNCHANGED <<world, faults, stored, cutoff, since, batch, late>>

\* The identity or the columns of the table could not be read.
SkipTable(t) ==
    /\ pc = "tables" /\ t \in todo
    /\ faults < MaxFaults
    /\ faults' = faults + 1
    /\ todo' = todo \ {t}
    /\ UNCHANGED <<world, ledger, pc, since, table, page, batch, history>>

\* Mutant: rows of the second in which a page ended are taken for read.
AheadBySecond == {r \in rows[table] : page[1] < r.at}

Ahead == {r \in rows[table] : Before(page, Pos(r))}
UpTo(last) == {r \in Ahead : ~ Before(Pos(last), Pos(r))}

\* The first rows after the page's position, at most a page of them.
QueryPage ==
    /\ pc = "query"
    /\ \E last \in Ahead :
          /\ Cardinality(UpTo(last)) <= PageRows
          /\ UpTo(last) = Ahead \/ Cardinality(UpTo(last)) = PageRows
          /\ batch' = UpTo(last)
          /\ page' = Pos(last)
    /\ pc' = "commit"
    /\ UNCHANGED <<world, faults, ledger, since, todo, table, history>>

\* The locals of a visit are gone.
LeaveTable ==
    /\ page' = NoCursor /\ batch' = {}
    /\ from' = NoCursor /\ known' = {}
    /\ UNCHANGED <<table, origin, late>>

EmptyPage ==
    /\ pc = "query"
    /\ Ahead = {}
    /\ pc' = "tables" /\ LeaveTable
    /\ UNCHANGED <<world, faults, ledger, since, todo>>

QueryFails ==
    /\ pc = "query"
    /\ faults < MaxFaults
    /\ faults' = faults + 1
    /\ pc' = "tables" /\ LeaveTable
    /\ UNCHANGED <<world, ledger, since, todo>>

NextPage ==
    /\ pc' = "query" /\ batch' = {}
    /\ UNCHANGED <<table, page, history>>

\* Mutant: the cursor follows the page, back into the overlap.
CommitPageBack ==
    /\ pc = "commit"
    /\ stored' = [stored EXCEPT ![table] =
                      @ \cup {r.id : r \in {x \in batch : x.kind = "known"}}]
    /\ cursor' = [cursor EXCEPT ![table] = page]
    /\ IF Cardinality(batch) < PageRows
       THEN pc' = "tables" /\ LeaveTable
       ELSE NextPage
    /\ UNCHANGED <<world, faults, cutoff, since, todo>>

\* Mutant: a page counts as short when rows of it could not be read.
CommitPageCountsStored ==
    /\ pc = "commit"
    /\ stored' = [stored EXCEPT ![table] =
                      @ \cup {r.id : r \in {x \in batch : x.kind = "known"}}]
    /\ cursor' = [cursor EXCEPT ![table] = Later(@, page)]
    /\ IF Cardinality({r \in batch : r.kind = "known"}) < PageRows
       THEN pc' = "tables" /\ LeaveTable
       ELSE NextPage
    /\ UNCHANGED <<world, faults, cutoff, since, todo>>

\* ingest_events: the rows that could be read and the cursor, which never goes
\* back, in one transaction.  A short page was the last one.
CommitPage ==
    /\ pc = "commit"
    /\ stored' = [stored EXCEPT ![table] =
                      @ \cup {r.id : r \in {x \in batch : x.kind = "known"}}]
    /\ cursor' = [cursor EXCEPT ![table] = Later(@, page)]
    /\ IF Cardinality(batch) < PageRows
       THEN pc' = "tables" /\ LeaveTable
       ELSE NextPage
    /\ UNCHANGED <<world, faults, cutoff, since, todo>>

\* The first run ends with the record of its completion.
EndRun ==
    /\ pc = "tables" /\ todo = {}
    /\ cutoff' = IF cutoff = Never THEN now ELSE cutoff
    /\ pc' = "idle" /\ since' = 0
    /\ UNCHANGED <<world, faults, cursor, stored, todo, table, page, batch,
                   history>>

Crash ==
    /\ pc # "idle"
    /\ faults < MaxFaults
    /\ faults' = faults + 1
    /\ pc' = "idle" /\ since' = 0 /\ todo' = {} /\ LeaveTable
    /\ UNCHANGED <<world, ledger>>

-----------------------------------------------------------------------------
(* WeChat.                                                                 *)

\* A row gets the next local_id of its table, and a create_time that may lie
\* some way back when it becomes visible.
WrittenBehind(t, p) ==
    \/ ~ Before(cursor[t], p)
    \/ pc \in {"query", "commit"} /\ table = t /\ ~ Before(page, p)

Write(t, kind, at) ==
    LET id == Cardinality(rows[t]) + 1 IN
    /\ id <= MaxRows
    /\ at >= now - MaxLag
    /\ rows' = [rows EXCEPT ![t] =
                    @ \cup {[at |-> at, id |-> id, kind |-> kind]}]
    /\ late' = [late EXCEPT ![t] =
                    IF WrittenBehind(t, <<at, id>>) THEN @ \cup {id} ELSE @]
    /\ UNCHANGED <<now, visible, faults, ledger, run, from, known, origin>>

Appear(t) ==
    /\ t \notin visible
    /\ visible' = visible \cup {t}
    /\ UNCHANGED <<now, rows, faults, ledger, run, history>>

Tick ==
    /\ now < MaxTime
    /\ now' = now + 1
    /\ UNCHANGED <<visible, rows, faults, ledger, run, history>>

ReadStep ==
    \/ \E t \in Table : OpenTable(t)
    \/ QueryPage \/ EmptyPage \/ CommitPage \/ EndRun

FaultStep == (\E t \in Table : SkipTable(t)) \/ QueryFails \/ Crash

WorldStep ==
    \/ \E t \in Table, kind \in Kinds, at \in 0..now : Write(t, kind, at)
    \/ \E t \in Table : Appear(t)
    \/ Tick

Next == StartRun \/ ReadStep \/ FaultStep \/ WorldStep

Spec == Init /\ [][Next]_vars

\* launchd starts a run every interval, and a started run goes on.
FairSpec == Spec /\ WF_vars(StartRun) /\ WF_vars(ReadStep)

-----------------------------------------------------------------------------
(* Properties.                                                             *)

\* Wherever the cursor of a table stands, every readable row it has passed is
\* in the ledger, unless the row appeared behind what was already read: pages,
\* restarts, failed queries and equal seconds at a page's end lose nothing.
NoGap ==
    \A t \in Table : \A r \in rows[t] :
        (/\ r.kind = "known" /\ r.id \notin late[t]
         /\ cursor[t] # NoCursor
         /\ r.at >= origin[t]
         /\ ~ Before(cursor[t], Pos(r)))
        => r.id \in stored[t]

\* The overlap reaches behind the place where a table was first opened, but by
\* no more than its length, however often the table is polled.
ReplayIsBounded ==
    \A t \in Table : \A r \in rows[t] :
        r.id \in stored[t] => r.at >= origin[t] - Overlap

\* A visit of a table that ends without a fault has stored every readable row
\* of the overlap and beyond that existed when it began, late ones included.
VisitIsComplete ==
    (/\ pc \in {"query", "commit"} /\ pc' = "tables" /\ faults' = faults)
    => \A r \in known :
          r.kind = "known" /\ Before(from, Pos(r)) => r.id \in stored'[table]

VisitMissesNothing == [][VisitIsComplete]_vars

\* A readable row that lies within the overlap of its table's cursor, or ahead
\* of it, between two runs reaches the ledger, whatever goes wrong on the way.
InReach(t, i) ==
    /\ t \in visible /\ cursor[t] # NoCursor
    /\ \E r \in rows[t] : /\ r.id = i /\ r.kind = "known"
                          /\ r.at >= cursor[t][1] - Overlap

RowsArrive ==
    \A t \in Table, i \in 1..MaxRows :
        (pc = "idle" /\ InReach(t, i)) ~> i \in stored[t]

\* docs/PERSONAL_CHAT_AGENT.md: "A table discovered after bootstrap starts at
\* the persisted global completion cutoff, so newly visible shards cannot
\* replay pre-install history".
NoHistoryReplayed ==
    \A t \in Table : \A r \in rows[t] :
        cutoff # Never /\ origin[t] = cutoff /\ r.id \in stored[t]
            => r.at >= cutoff

-----------------------------------------------------------------------------
(* The inductive invariant.                                                *)

\* local_ids are dense and unique, and the ledger holds rows that exist.
RowsInv ==
    \A t \in Table :
        /\ IsFiniteSet(rows[t])
        /\ \A r \in rows[t] : r.id <= Cardinality(rows[t])
        /\ \A r, x \in rows[t] : r.id = x.id => r = x
        /\ \A i \in stored[t] : \E r \in rows[t] : r.id = i

\* Where cursors and pages may stand.
PlaceInv ==
    /\ \A t \in Table :
          /\ cursor[t] = NoCursor => stored[t] = {}
          /\ cursor[t] # NoCursor =>
                origin[t] # Never /\ ~ Before(cursor[t], <<origin[t], 0>>)
    /\ pc \in {"query", "commit"} =>
          /\ cursor[table] # NoCursor
          /\ from[1] >= origin[table] - Overlap
          /\ known \subseteq rows[table]
    /\ pc = "query" =>
          ~ Before(cursor[table], page) /\ ~ Before(page, from)
    /\ pc = "commit" =>
          /\ batch \subseteq rows[table]
          /\ \A r \in batch : Before(from, Pos(r)) /\ ~ Before(page, Pos(r))
          /\ Before(from, page)
          /\ \/ Cardinality(batch) = PageRows
             \/ \A r \in known : ~ Before(page, Pos(r))

\* What has been read of the table in hand, and what is about to be stored.
Handled(r) == r.id \in stored[table] \/ (pc = "commit" /\ r \in batch)

VisitInv ==
    pc \in {"query", "commit"} =>
        /\ \A r \in known :
              r.kind = "known" /\ Before(from, Pos(r))
                  => Handled(r) \/ Before(page, Pos(r))
        /\ \A r \in rows[table] :
              (/\ r.kind = "known" /\ r.id \notin late[table]
               /\ r.at >= origin[table])
                  => Handled(r) \/ Before(Later(cursor[table], page), Pos(r))

ReaderInv ==
    RowsInv /\ PlaceInv /\ NoGap /\ ReplayIsBounded /\ VisitInv
=============================================================================
