---------------------------- MODULE AuditedStore -----------------------------
(***************************************************************************)
(* What the encrypted ledger promises to those who use it, whatever raises *)
(* or dies: a store that takes one operation at a time, in the same moment *)
(* as a log that tells of it, and that forgets nothing.  One operation the *)
(* log does not tell of: putting a record in force by appending it again.  *)
(***************************************************************************)
EXTENDS Naturals, Sequences

CONSTANTS
    RecordId, Scope, Payload, SendKey,
    Follows,     \* the statuses that may follow each status of a send
    None

VARIABLES
    records,     \* written once
    active,      \* the record in force in each scope
    sends,       \* the status of each send
    cursor,      \* how far the events have been read
    log          \* what was told of each change, in order

vars == <<records, active, sends, cursor, log>>

Init ==
    /\ records = [id \in RecordId |-> None]
    /\ active = [s \in Scope |-> None]
    /\ sends = [k \in SendKey |-> None]
    /\ cursor = None
    /\ log = <<>>

Tell(kind, object, value) ==
    log' = Append(log, [kind |-> kind, object |-> object, value |-> value])

\* inForce: the record is put in force in its scope with it.
AddRecord(id, scope, payload, inForce) ==
    /\ records[id] = None
    /\ records' = [records EXCEPT ![id] = <<scope, payload>>]
    /\ active' = IF inForce THEN [active EXCEPT ![scope] = id] ELSE active
    /\ Tell("record", id, <<scope, inForce>>)
    /\ UNCHANGED <<sends, cursor>>

PutInForce(scope, id) ==
    /\ records[id] # None /\ records[id][1] = scope
    /\ active' = [active EXCEPT ![scope] = id]
    /\ Tell("active", scope, id)
    /\ UNCHANGED <<records, sends, cursor>>

\* Without a word in the log.
PutInForceAgain(scope, id) ==
    /\ records[id] # None /\ records[id][1] = scope
    /\ active' = [active EXCEPT ![scope] = id]
    /\ UNCHANGED <<records, sends, cursor, log>>

BeginSend(k) ==
    /\ sends[k] = None
    /\ sends' = [sends EXCEPT ![k] = "reserved"]
    /\ Tell("send", k, "reserved")
    /\ UNCHANGED <<records, active, cursor>>

AdvanceSend(k, status) ==
    /\ sends[k] # None /\ status \in Follows[sends[k]]
    /\ sends' = [sends EXCEPT ![k] = status]
    /\ Tell("send", k, status)
    /\ UNCHANGED <<records, active, cursor>>

\* Events that are found behind the cursor leave it where it is.
ReadOn ==
    /\ cursor' \in Nat /\ (cursor = None \/ cursor' >= cursor)
    /\ Tell("cursor", "events", cursor')
    /\ UNCHANGED <<records, active, sends>>

Next ==
    \/ \E id \in RecordId, scope \in Scope, payload \in Payload, b \in BOOLEAN :
          AddRecord(id, scope, payload, b)
    \/ \E scope \in Scope, id \in RecordId :
          PutInForce(scope, id) \/ PutInForceAgain(scope, id)
    \/ \E k \in SendKey : BeginSend(k)
    \/ \E k \in SendKey, status \in DOMAIN Follows : AdvanceSend(k, status)
    \/ ReadOn

Spec == Init /\ [][Next]_vars
=============================================================================
