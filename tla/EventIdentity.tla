---------------------------- MODULE EventIdentity ----------------------------
(***************************************************************************)
(* The identity of a WeChat row in the ledger (wechat_reader.py _row_event *)
(* and _event_id): the same local_id occurs in several shards of a contact,*)
(* a row is read again with every overlap, and what is read of it changes, *)
(* because WeChat edits it, its sender is resolved later, or a process     *)
(* comes without a decompressor.                                           *)
(*                                                                         *)
(* One contact; rows are in cursor order, late ones are MessageReader's.   *)
(* A row's content stands for its create_time, local_type and body; keyed  *)
(* digests do not collide.  The order of the shards is left open.          *)
(***************************************************************************)
EXTENDS Integers, Sequences

CONSTANTS
    Shard,        \* message_N.db files that hold a table of the contact
    LocalId,      \* local_ids of the contact's tables
    ShardRow,     \* rows WeChat may write
    Content,      \* what an edit may make of a row
    Reach,        \* rows inside the overlap
    PageSize,     \* rows per query
    MaxShelf,     \* bound: rows written to each shard
    MaxChanges    \* bound: rows edited, senders resolved

ASSUME IdentityAssumption ==
    /\ ShardRow \subseteq [local : LocalId, content : Content,
                           zipped : BOOLEAN, sender : {"contact", "self"}]
    /\ Reach \in Nat /\ PageSize \in Nat \ {0}
    /\ MaxShelf \in [Shard -> Nat] /\ MaxChanges \in Nat

VARIABLES
    shelf,       \* WeChat: the rows of each shard
    named,       \* WeChat: shards whose Name2Id holds the user
    changes,     \* number of edits and resolved senders so far
    events,      \* ledger: identities with what was read under them
    passed,      \* ledger: the cursor of each shard
    decoder,     \* the process has a zstd decompressor
    toVisit,     \* the poll: shards still to read
    visit        \* the poll: what it holds of the shard in hand

chats == <<shelf, named, changes>>
identityVars == <<chats, events, passed, decoder, toVisit, visit>>

AnyRow == [local : LocalId, content : Content, zipped : BOOLEAN,
           sender : {"contact", "self"}]

\* The canonical form of a row, as one poll sees it.
Canonical == [local : LocalId, content : Content, decoded : BOOLEAN,
              direction : {"inbound", "outbound", "unknown"}]

\* The keyed digest of contact and local_id, and of these with the reading.
Base(local) == <<local>>
Collision(reading) == <<reading.local, reading>>

Identity == {Base(n) : n \in LocalId} \cup (LocalId \X Canonical)
StoredEvent == [id : Identity, reading : Canonical]

\* step: where the visit is; start, at: rows it skips and has passed; known:
\* the user is in Name2Id as read; page: rows fetched, full: as many as asked
\* for; seen: page_identities; batch: events of the page; settled:
\* history, the rows that stayed as they were when the shard was opened.
NoVisit == [step |-> "idle", shard |-> 0, start |-> 0, at |-> 0, known |-> FALSE,
            page |-> <<>>, full |-> FALSE, seen |-> {}, batch |-> {},
            settled |-> {}]

Visit == [step : {"idle", "shards", "query", "rows"}, shard : Shard \cup {0},
          start : Nat, at : Nat, known : BOOLEAN, page : Seq(AnyRow),
          full : BOOLEAN, seen : SUBSET StoredEvent, batch : SUBSET StoredEvent,
          settled : SUBSET Nat]

IdentityInit ==
    /\ shelf = [s \in Shard |-> <<>>] /\ named = {} /\ changes = 0
    /\ events = {} /\ passed = [s \in Shard |-> 0]
    /\ decoder = TRUE /\ toVisit = {} /\ visit = NoVisit

-----------------------------------------------------------------------------
(* What is read of a row, and under which identity.                        *)

\* _direction with the user's own name; _decode_content.
Reading(row) ==
    [local |-> row.local, content |-> row.content,
     decoded |-> (decoder \/ ~row.zipped),
     direction |-> CASE row.sender = "contact" -> "inbound"
                     [] row.sender = "self" /\ visit.known -> "outbound"
                     [] OTHER -> "unknown"]

Taken(id, reading, among) ==
    \E e \in among : e.id = id /\ e.reading # reading

\* Mutant: rows of the page that are not stored yet are not looked at.
IdentityOfStored(reading) ==
    IF reading.direction = "unknown" \/ Taken(Base(reading.local), reading, events)
    THEN Collision(reading) ELSE Base(reading.local)

\* The base identity belongs to the first reading of known direction.
IdentityOf(reading) ==
    IF \/ reading.direction = "unknown"
       \/ Taken(Base(reading.local), reading, visit.seen)
       \/ Taken(Base(reading.local), reading, events)
    THEN Collision(reading) ELSE Base(reading.local)

-----------------------------------------------------------------------------
(* A poll.                                                                 *)

BeginPoll(decodes) ==
    /\ visit.step = "idle"
    /\ visit' = [NoVisit EXCEPT !.step = "shards"]
    /\ toVisit' = Shard /\ decoder' = decodes
    /\ UNCHANGED <<chats, events, passed>>

Behind(s) == IF passed[s] < Reach THEN 0 ELSE passed[s] - Reach

OpenShard(s) ==
    /\ visit.step = "shards" /\ s \in toVisit
    /\ toVisit' = toVisit \ {s}
    /\ visit' = [NoVisit EXCEPT !.step = "query", !.shard = s,
                                !.start = Behind(s), !.at = Behind(s),
                                !.known = (s \in named),
                                !.settled = DOMAIN shelf[s]]
    /\ UNCHANGED <<chats, events, passed, decoder>>

NextRows ==
    LET rows == shelf[visit.shard]
        end == IF visit.at + PageSize < Len(rows) THEN visit.at + PageSize
               ELSE Len(rows)
    IN SubSeq(rows, visit.at + 1, end)

BackToShards == [NoVisit EXCEPT !.step = "shards"]

QueryRows ==
    /\ visit.step = "query"
    /\ visit' = IF NextRows = <<>> THEN BackToShards
                ELSE [visit EXCEPT !.step = "rows", !.page = NextRows,
                                   !.full = (Len(NextRows) = PageSize),
                                   !.at = @ + Len(NextRows)]
    /\ UNCHANGED <<chats, events, passed, decoder, toVisit>>

ReadRow ==
    /\ visit.step = "rows" /\ visit.page # <<>>
    /\ LET r == Reading(Head(visit.page))
           e == [id |-> IdentityOf(r), reading |-> r]
       IN visit' = [visit EXCEPT !.page = Tail(@), !.seen = @ \cup {e},
                                 !.batch = @ \cup {e}]
    /\ UNCHANGED <<chats, events, passed, decoder, toVisit>>

\* INSERT OR IGNORE finds the same event or raises EventCollisionError.
Fits(new) ==
    \A e \in new : \A f \in new \cup events : e.id = f.id => e = f

\* Mutant: a page with a row of unknown direction is given up.
StorableOrNothing ==
    IF \E e \in visit.batch : e.reading.direction = "unknown" THEN {}
    ELSE visit.batch

\* The ledger refuses unknown directions; the page is then tried without them.
Storable == {e \in visit.batch : e.reading.direction # "unknown"}

\* One transaction with the cursor; a collision would end the run.  A short
\* page was the last one.
StorePage ==
    /\ visit.step = "rows" /\ visit.page = <<>>
    /\ IF Fits(Storable)
       THEN /\ events' = events \cup Storable
            /\ passed' = [passed EXCEPT ![visit.shard] =
                             IF visit.at > @ THEN visit.at ELSE @]
            /\ visit' = IF visit.full
                        THEN [visit EXCEPT !.step = "query", !.batch = {}]
                        ELSE BackToShards
            /\ UNCHANGED toVisit
       ELSE visit' = NoVisit /\ toVisit' = {} /\ UNCHANGED <<events, passed>>
    /\ UNCHANGED <<chats, decoder>>

\* The end of a poll, or of its process.
EndPoll ==
    /\ visit.step # "idle"
    /\ visit' = NoVisit /\ toVisit' = {}
    /\ UNCHANGED <<chats, events, passed, decoder>>

-----------------------------------------------------------------------------
(* WeChat.                                                                 *)

WriteRow(s, row) ==
    /\ Len(shelf[s]) < MaxShelf[s]
    /\ shelf' = [shelf EXCEPT ![s] = Append(@, row)]
    /\ UNCHANGED <<named, changes, events, passed, decoder, toVisit, visit>>

\* A message is withdrawn or edited, in its place.
EditRow(s, i, content) ==
    /\ changes < MaxChanges /\ changes' = changes + 1
    /\ content # shelf[s][i].content
    /\ shelf' = [shelf EXCEPT ![s][i].content = content]
    /\ visit' = [visit EXCEPT !.settled = IF visit.shard = s THEN @ \ {i} ELSE @]
    /\ UNCHANGED <<named, events, passed, decoder, toVisit>>

NameUser(s) ==
    /\ s \notin named /\ named' = named \cup {s}
    /\ changes < MaxChanges /\ changes' = changes + 1
    /\ UNCHANGED <<shelf, events, passed, decoder, toVisit, visit>>

IdentityNext ==
    \/ \E d \in BOOLEAN : BeginPoll(d)
    \/ \E s \in Shard : OpenShard(s) \/ NameUser(s)
    \/ QueryRows \/ ReadRow \/ StorePage \/ EndPoll
    \/ \E s \in Shard, row \in ShardRow : WriteRow(s, row)
    \/ \E s \in Shard, c \in Content : \E i \in DOMAIN shelf[s] : EditRow(s, i, c)

IdentitySpec == IdentityInit /\ [][IdentityNext]_identityVars

-----------------------------------------------------------------------------
(* Properties.                                                             *)

IdentityTypeOK ==
    /\ shelf \in [Shard -> Seq(AnyRow)] /\ named \subseteq Shard
    /\ changes \in 0..MaxChanges
    /\ events \subseteq StoredEvent
    /\ passed \in [Shard -> Nat]
    /\ decoder \in BOOLEAN /\ toVisit \subseteq Shard
    /\ visit \in Visit
    /\ visit.step \in {"query", "rows"} => visit.shard \in Shard

\* No page is refused for a collision (ledger.py:777), which would stop every
\* later poll at the same page: equal local_ids of two shards, of one page, or
\* of one row before and after an edit get identities of their own.
PagesFit ==
    visit.step = "rows" /\ visit.page = <<>> => Fits(Storable)

\* Read again with every overlap, from either shard and under whatever Name2Id
\* and decompressor, the same reading of a message is one event.
OneEventPerReading ==
    \A e, f \in events : e.reading = f.reading => e = f

\* The choice of identities neither refuses a page nor doubles a reading.
ReadingsAreNamed == PagesFit /\ OneEventPerReading

\* A visit that comes to its end has stored every row of the overlap and
\* beyond whose direction it knew, also beside rows of unknown direction.
VisitStoresRows ==
    [][visit.step \in {"query", "rows"} /\ visit'.step = "shards" =>
         \A i \in visit.settled :
            LET r == Reading(shelf[visit.shard][i]) IN
            (i > visit.start /\ r.direction # "unknown")
              => \E e \in events' : e.reading = r]_visit

-----------------------------------------------------------------------------
(* The inductive invariant.                                                *)

\* An identity names one reading, a collision identity its own, beside the
\* other one that has the base identity.
Named(among) ==
    /\ \A e, f \in among : e.id = f.id => e = f
    /\ \A e \in among :
          /\ e.id \in {Base(e.reading.local), Collision(e.reading)}
          /\ e.id = Collision(e.reading) =>
                \E f \in among :
                    f.id = Base(e.reading.local) /\ f.reading # e.reading

KnownOf(among) == {e \in among : e.reading.direction # "unknown"}

IdentityInv ==
    /\ Named(events)
    /\ Named(events \cup Storable)
    /\ KnownOf(visit.seen) \subseteq events \cup Storable
    /\ visit.batch \subseteq visit.seen
    /\ KnownOf(events) = events
    /\ \A e \in visit.seen :
          e.reading.direction = "unknown" => e.id = Collision(e.reading)

\* The place of row i in what is left of the page.
Unread(i) == i - visit.at + Len(visit.page)

Holds(reading) ==
    reading.direction # "unknown" =>
        \E e \in events \cup Storable : e.reading = reading

\* A row that stayed as it was is held, waits on the page, or is still ahead;
\* a short page leaves none ahead.
SettledInv ==
    /\ visit.step = "query" => visit.page = <<>> /\ visit.batch = {}
    /\ visit.step \in {"query", "rows"} =>
         /\ visit.settled \subseteq DOMAIN shelf[visit.shard]
         /\ \A i \in visit.settled :
               \/ i <= visit.start \/ i > visit.at
               \/ Holds(Reading(shelf[visit.shard][i]))
               \/ /\ Unread(i) \in 1..Len(visit.page)
                  /\ visit.page[Unread(i)] = shelf[visit.shard][i]
    /\ visit.step = "rows" /\ ~ visit.full =>
         \A i \in visit.settled : i <= visit.at
=============================================================================
