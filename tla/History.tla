------------------------------ MODULE History -------------------------------
(***************************************************************************)
(* How the program reads a chat: the import of overlapping exports         *)
(* (ingest.py), the queue of unanswered messages (policy.py), reply delays *)
(* and sessions (learning.py), and the days an emotion proxy is compared   *)
(* with (emotion_cycle.py). Pure functions of a history that only grows.   *)
(***************************************************************************)
EXTENDS Naturals, FiniteSets, SequencesExt

CONSTANTS
    Text,
    Size,         \* characters of a text
    Telling,      \* texts that say something of a mood
    Pause,        \* time that may pass between two messages
    Gap,          \* silence that ends a session             (6 h)
    DayLength,
    MinPerDay,    \* own messages that make a day valid       (5)
    MinSize,      \* characters that do                       (40)
    Confident,    \* messages, characters and telling ones of a day
                  \* that give enough confidence              (0.45)
    Baseline,     \* days a day is compared with              (28)
    MaxMessages,  \* bound: messages of the chat
    MaxExports    \* bound: exports made of it

ASSUME HistoryAssumption ==
    /\ Pause \subseteq Nat /\ Gap \in Nat /\ DayLength \in Nat \ {0}
    /\ Size \in [Text -> Nat] /\ Telling \subseteq Text
    /\ MinPerDay \in Nat \ {0} /\ MinSize \in Nat /\ Baseline \in Nat
    /\ MaxMessages \in Nat /\ MaxExports \in Nat

VARIABLES
    chat,     \* messages with one contact, as export_contact.py writes them
    exports   \* lengths of the chat when it was exported

historyVars == <<chat, exports>>

Message == [at : Nat, direction : {"in", "out"}, text : Text]

HistoryInit == chat = <<>> /\ exports = <<>>

Say(pause, dir, text) ==
    /\ Len(chat) < MaxMessages
    /\ chat' = Append(chat, [at |-> pause + IF chat = <<>> THEN 0 ELSE Last(chat).at,
                             direction |-> dir, text |-> text])
    /\ UNCHANGED exports

\* A file holds the whole chat so far, in order of its seconds.
Export ==
    /\ Len(exports) < MaxExports
    /\ exports' = Append(exports, Len(chat))
    /\ UNCHANGED chat

HistoryNext ==
    \/ Export
    \/ \E p \in Pause, d \in {"in", "out"}, t \in Text : Say(p, d, t)

HistorySpec == HistoryInit /\ [][HistoryNext]_historyVars

-----------------------------------------------------------------------------
(* The members of S in an order: the n-th has n - 1 before it.             *)

Sorted(S, before(_, _)) ==
    [n \in 1..Cardinality(S) |->
        CHOOSE x \in S : Cardinality({y \in S : before(y, x)}) = n - 1]

\* What a sequence has at the places of I.
Picked(s, I) == [n \in 1..Cardinality(I) |-> s[Sorted(I, <)[n]]]

-----------------------------------------------------------------------------
(* normalize_exports. The exported rows have no identifier: a message is   *)
(* known by its fields and by how often they occurred before in its file.  *)

File(n) == SubSeq(chat, 1, n)

\* Mutant: occurrences are counted over all the files.
OccurrenceInAll(files, k, i) ==
    LET before == {y \in (1..k) \X (1..MaxMessages) :
                     y[2] \in DOMAIN files[y[1]] /\ (y[1] < k \/ y[2] < i)}
    IN Cardinality({x \in before : files[x[1]][x[2]] = files[k][i]})

Occurrence(files, k, i) ==
    Cardinality({j \in 1..(i - 1) : files[k][j] = files[k][i]})

Id(files, k, i) == <<files[k][i], Occurrence(files, k, i)>>

\* Mutant: the place of a message in its file does not order its second.
BeforeByText(x, y) ==
    \/ x.id[1].at < y.id[1].at
    \/ x.id[1].at = y.id[1].at /\ x.id[1].direction = "in"
         /\ y.id[1].direction = "out"
    \/ x.id[1].at = y.id[1].at /\ x.id[1].direction = y.id[1].direction
         /\ \/ x.id[2] < y.id[2]
            \/ x.id[2] = y.id[2] /\ x.place < y.place

\* By time, then by the place in the file that gave the message first; the
\* identifier is left to tell events apart that have both in common.
Before(x, y) ==
    \/ x.id[1].at < y.id[1].at
    \/ x.id[1].at = y.id[1].at /\ x.place < y.place
    \/ x.id[1].at = y.id[1].at /\ x.place = y.place /\ x.id[2] < y.id[2]

Imported(files) ==
    LET rows == {x \in (1..Len(files)) \X (1..MaxMessages) :
                   x[2] \in DOMAIN files[x[1]]}
        new == {x \in rows : \A y \in rows :
                  y[1] < x[1] => Id(files, y[1], y[2]) # Id(files, x[1], x[2])}
    IN Sorted({[id |-> Id(files, x[1], x[2]), place |-> x[2]] : x \in new}, Before)

Messages(events) == [i \in DOMAIN events |-> events[i].id[1]]

-----------------------------------------------------------------------------
(* triage_pending_inbound, over the messages of one contact.               *)

Pending(ms) ==
    LET out == {i \in DOMAIN ms : ms[i].direction = "out"}
        last == IF out = {} THEN 0
                ELSE CHOOSE i \in out : \A j \in out : j <= i
    IN Picked(ms, {i \in (last + 1)..Len(ms) : ms[i].direction = "in"})

-----------------------------------------------------------------------------
(* _relationship_observation: one pass over the text messages.             *)

Start == [starts |-> <<>>, delays |-> <<>>, waiting |-> <<>>, previous |-> <<>>]

NewSession(o, m) == o.previous = <<>> \/ m.at - o.previous[1] > Gap

Observe(o, m) ==
    LET waiting == IF NewSession(o, m) THEN <<>> ELSE o.waiting IN
    [starts |-> IF NewSession(o, m) THEN Append(o.starts, m.direction)
                ELSE o.starts,
     delays |-> IF m.direction = "out" /\ waiting # <<>>
                   /\ m.at - waiting[1] \in 0..Gap
                THEN Append(o.delays, m.at - waiting[1]) ELSE o.delays,
     waiting |-> IF m.direction = "in" THEN <<m.at>> ELSE <<>>,
     previous |-> <<m.at>>]

\* The observation of the first n messages.
Observed[n \in 0..Len(chat)] ==
    IF n = 0 THEN Start ELSE Observe(Observed[n - 1], chat[n])

Observation == Observed[Len(chat)]

-----------------------------------------------------------------------------
(* calculate_emotion_cycle: the days before, kept in a queue.              *)

Day(m) == m.at \div DayLength

Days ==
    LET own == {Day(chat[i]) : i \in {j \in DOMAIN chat : chat[j].direction = "out"}}
    IN Sorted(own, <)

Own(d) == {i \in DOMAIN chat : chat[i].direction = "out" /\ Day(chat[i]) = d}

Characters(d) == MapThenSumSet(LAMBDA i : Size[chat[i].text], Own(d))

Valid(d) ==
    /\ Cardinality(Own(d)) >= MinPerDay
    /\ Characters(d) >= MinSize
    /\ <<Cardinality(Own(d)), Characters(d),
         Cardinality({i \in Own(d) : chat[i].text \in Telling})>> \in Confident

\* Days are dropped from the front of the queue, up to one that is not too old.
Recent(queue, d) ==
    Picked(queue, {i \in DOMAIN queue : \E j \in 1..i : queue[j] + Baseline >= d})

\* Mutant: every day enters the queue.
CompareAll(w, d) ==
    [queue |-> Append(Recent(w.queue, d), d),
     seen |-> Append(w.seen, IF Valid(d) THEN Recent(w.queue, d) ELSE <<>>)]

\* A day that is not valid is compared with nothing and enters no baseline.
Compare(w, d) ==
    [queue |-> IF Valid(d) THEN Append(Recent(w.queue, d), d)
               ELSE Recent(w.queue, d),
     seen |-> Append(w.seen, IF Valid(d) THEN Recent(w.queue, d) ELSE <<>>)]

\* The comparison of the first n days.
Walk[n \in 0..Len(Days)] ==
    IF n = 0 THEN [queue |-> <<>>, seen |-> <<>>]
    ELSE Compare(Walk[n - 1], Days[n])

Compared == Walk[Len(Days)].seen

-----------------------------------------------------------------------------
Largest(S) == CHOOSE n \in S : \A m \in S : m <= n

\* However the exports of a growing chat overlap and in whatever order they
\* are given, the import is the longest of them: no message twice, none lost,
\* and those of one second in their order (ingest.py:102).
ImportIsTheChat ==
    exports # <<>> =>
      \A order \in {exports, Reverse(exports)} :
        Messages(Imported([k \in DOMAIN order |-> File(order[k])]))
          = File(Largest(Range(exports)))

\* A message is in the queue exactly if the user wrote nothing after it, also
\* within the same second (policy.py:134).
QueueIsUnanswered ==
    exports # <<>> =>
      LET files == [k \in DOMAIN exports |-> File(exports[k])]
          ms == File(Largest(Range(exports)))
          open == {i \in DOMAIN ms : \A j \in i..Len(ms) : ms[j].direction = "in"}
      IN Pending(Messages(Imported(files)))
           = [i \in 1..Cardinality(open) |-> ms[Len(ms) - Cardinality(open) + i]]

\* A reply delay is the time between an inbound message and the user's answer
\* that directly follows it within the session, and a session starts after
\* every long silence (learning.py:444).
DelaysArePairs ==
    LET Joined(i) == chat[i + 1].at - chat[i].at <= Gap
        pairs == {i \in 1..(Len(chat) - 1) : Joined(i)
                    /\ chat[i].direction = "in" /\ chat[i + 1].direction = "out"}
        starts == {i \in DOMAIN chat : i = 1 \/ ~Joined(i - 1)}
    IN /\ Observation.delays =
            [n \in 1..Cardinality(pairs) |->
               LET i == Sorted(pairs, <)[n] IN chat[i + 1].at - chat[i].at]
       /\ Observation.starts =
            [n \in 1..Cardinality(starts) |->
               chat[Sorted(starts, <)[n]].direction]

\* A valid day is compared with the valid days of the baseline before it and
\* no others, and a day with too little text is compared with nothing
\* (emotion_cycle.py:244).
BaselineIsValidDays ==
    \A n \in DOMAIN Days :
      Range(Compared[n]) =
        IF ~Valid(Days[n]) THEN {}
        ELSE {d \in Range(Days) : d < Days[n] /\ d + Baseline >= Days[n] /\ Valid(d)}

\* What is learnt of a chat is what is in it: delays, sessions and baselines.
ObservationsAreRight == DelaysArePairs /\ BaselineIsValidDays

-----------------------------------------------------------------------------
(* The inductive invariant.                                                *)

HistoryTypeOK ==
    /\ chat \in Seq(Message) /\ Len(chat) <= MaxMessages
    /\ exports \in Seq(Nat) /\ \A k \in DOMAIN exports : exports[k] <= Len(chat)

\* The seconds of a chat do not go back.
ChatInOrder ==
    \A i, j \in DOMAIN chat : i <= j => chat[i].at <= chat[j].at
=============================================================================
