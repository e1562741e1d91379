----------------------------- MODULE CostLedger -----------------------------
(***************************************************************************)
(* The daily model budget (runtime_state.py, PersistentDailyCostLedger) as *)
(* a model call uses it (models.py, generate_reply_decision).              *)
(*                                                                         *)
(* A call is reserved in the encrypted journal before it is made and is    *)
(* closed as committed or failed afterwards.  The state lock admits one    *)
(* process at a time; it may die, and midnight may pass, between any two   *)
(* steps.                                                                  *)
(***************************************************************************)
EXTENDS Integers, FiniteSets, Functions

CONSTANTS
    Ids,         \* reservation identifiers
    NoId,        \* no reservation yet
    Estimates,   \* maximum costs of the requests that occur
    MaxCalls,    \* cost.daily_call_limit
    MaxCost,     \* cost.daily_usd_limit
    MaxDay       \* bound: last day

ASSUME CostAssumption ==
    /\ NoId \notin Ids
    /\ Estimates \subseteq Nat
    /\ MaxCalls \in Nat /\ MaxCost \in Nat /\ MaxDay \in Nat

Days == 0..MaxDay
Amounts == UNION {0..e : e \in Estimates}

VARIABLES
    today,      \* date of the wall clock
    status,     \* journal: the last record of a reservation
    day,        \* journal: budget_date of a reservation
    estimated,  \* journal: estimated_cost
    actual,     \* journal: actual_cost of a committed one
    billed,     \* the provider: what a call costs
    pc,         \* the call under way: next step
    call        \* the call under way: id, date and estimate

journal == <<status, day, estimated, actual>>
vars == <<today, journal, billed, pc, call>>

TypeOK ==
    /\ today \in Days
    /\ status \in [Ids -> {"none", "reserved", "committed", "failed"}]
    /\ day \in [Ids -> Days]
    /\ estimated \in [Ids -> Estimates \cup {0}]
    /\ actual \in [Ids -> Amounts \cup {0}]
    /\ billed \in [Ids -> Amounts \cup {0}]
    /\ pc \in {"idle", "dated", "checked", "reserved", "sent"}
    /\ call \in [id : Ids \cup {NoId}, day : Days, estimate : Estimates \cup {0}]
    /\ pc \in {"reserved", "sent"} => call.id \in Ids

Init ==
    /\ today = 0
    /\ status = [i \in Ids |-> "none"]
    /\ day = [i \in Ids |-> 0]
    /\ estimated = [i \in Ids |-> 0]
    /\ actual = [i \in Ids |-> 0]
    /\ billed = [i \in Ids |-> 0]
    /\ pc = "idle"
    /\ call = [id |-> NoId, day |-> 0, estimate |-> 0]

-----------------------------------------------------------------------------
(* What the journal says of a day (snapshot).                              *)

OfDay(d) == {i \in Ids : status[i] # "none" /\ day[i] = d}
Calls(d) == Cardinality(OfDay(d))

Charge(i) == IF status[i] = "committed" THEN actual[i] ELSE estimated[i]
Cost(d) == SumFunctionOnSet([i \in Ids |-> Charge(i)], OfDay(d))

-----------------------------------------------------------------------------
(* One model call.                                                         *)

\* reserve reads the clock for the date of the reservation ...
BeginCall(e) ==
    /\ pc = "idle"
    /\ call' = [id |-> NoId, day |-> today, estimate |-> e]
    /\ pc' = "dated"
    /\ UNCHANGED <<today, journal, billed>>

\* ... and snapshot reads it again for the date of the usage.
CheckBudget ==
    /\ pc = "dated"
    /\ pc' = IF /\ Calls(today) + 1 <= MaxCalls
                /\ Cost(today) + call.estimate <= MaxCost
             THEN "checked" ELSE "idle"
    /\ UNCHANGED <<today, journal, billed, call>>

Reserve(i) ==
    /\ pc = "checked" /\ status[i] = "none"
    /\ status' = [status EXCEPT ![i] = "reserved"]
    /\ day' = [day EXCEPT ![i] = call.day]
    /\ estimated' = [estimated EXCEPT ![i] = call.estimate]
    /\ call' = [call EXCEPT !.id = i]
    /\ pc' = "reserved"
    /\ UNCHANGED <<today, actual, billed>>

\* The request is made; the estimate is an upper bound of what it costs.
Send ==
    /\ pc = "reserved"
    /\ \E cost \in 0..call.estimate : billed' = [billed EXCEPT ![call.id] = cost]
    /\ pc' = "sent"
    /\ UNCHANGED <<today, journal, call>>

\* Mutant: the process keeps the date for its next call.
CommitKeepsDate ==
    /\ pc = "sent" /\ status[call.id] = "reserved"
    /\ \E cost \in billed[call.id]..estimated[call.id] :
          actual' = [actual EXCEPT ![call.id] = cost]
    /\ status' = [status EXCEPT ![call.id] = "committed"]
    /\ pc' = "dated"
    /\ UNCHANGED <<today, day, estimated, billed, call>>

\* A valid answer: usage up to the reserved bounds is committed.  Input the
\* provider does not report is taken at its bound, output at the bytes of the
\* answer, which it covers where no tokens but the answer's are billed.
Commit ==
    /\ pc = "sent" /\ status[call.id] = "reserved"
    /\ \E cost \in billed[call.id]..estimated[call.id] :
          actual' = [actual EXCEPT ![call.id] = cost]
    /\ status' = [status EXCEPT ![call.id] = "committed"]
    /\ pc' = "idle"
    /\ UNCHANGED <<today, day, estimated, billed, call>>

\* Mutant: the reservation of a failed call is given back.
RefundReleases ==
    /\ pc = "sent" /\ status[call.id] = "reserved"
    /\ status' = [status EXCEPT ![call.id] = "none"]
    /\ pc' = "idle"
    /\ UNCHANGED <<today, day, estimated, actual, billed, call>>

\* Time-out, malformed answer, or usage above the reserved bounds.
Refund ==
    /\ pc = "sent" /\ status[call.id] = "reserved"
    /\ status' = [status EXCEPT ![call.id] = "failed"]
    /\ pc' = "idle"
    /\ UNCHANGED <<today, day, estimated, actual, billed, call>>

Crash ==
    /\ pc # "idle"
    /\ pc' = "idle"
    /\ UNCHANGED <<today, journal, billed, call>>

Midnight ==
    /\ today < MaxDay
    /\ today' = today + 1
    /\ UNCHANGED <<journal, billed, pc, call>>

Next ==
    \/ \E e \in Estimates : BeginCall(e)
    \/ CheckBudget
    \/ \E i \in Ids : Reserve(i)
    \/ Send \/ Commit \/ Refund \/ Crash \/ Midnight

Spec == Init /\ [][Next]_vars

-----------------------------------------------------------------------------
(* Properties.                                                             *)

\* The day in progress is within both limits, whatever calls crashed, failed
\* or were caught by midnight.
TodayWithinLimit == Calls(today) <= MaxCalls /\ Cost(today) <= MaxCost

\* A day that is over exceeds its limits by one call at most, whose cost a day
\* without any call would have admitted.
OverdraftIsOneCall ==
    \A d \in Days : Calls(d) <= MaxCalls + 1 /\ Cost(d) <= 2 * MaxCost

\* What the journal charges to a day covers what the calls of that day cost,
\* also when the outcome of a call was lost with its process.
ChargeCoversBill ==
    \A d \in Days :
        SumFunctionOnSet(billed, {i \in Ids : billed[i] > 0 /\ day[i] = d}) <= Cost(d)

\* The limits bound what is spent (reserve): today is within them, a past day
\* exceeds them by one call at most, and no call costs more than its day shows.
BudgetHolds == TodayWithinLimit /\ OverdraftIsOneCall /\ ChargeCoversBill

\* A call that counts against a day counts for good, and only a commit may
\* lower what it is charged, never below its bill.
CallsKeepCounting ==
    \A i \in Ids : status[i] # "none" =>
        /\ status'[i] # "none" /\ day'[i] = day[i]
        /\ Charge(i)' # Charge(i) =>
              status[i] = "reserved" /\ Charge(i)' \in billed[i]..Charge(i)

NothingIsForgotten == [][CallsKeepCounting]_vars

-----------------------------------------------------------------------------
(* The inductive invariant of the call limit.                              *)

BudgetInv ==
    /\ IsFiniteSet({i \in Ids : status[i] # "none"})
    /\ \A i \in Ids : status[i] # "none" => day[i] <= today
    /\ pc # "idle" => call.day <= today
    /\ pc \in {"dated", "checked"} => Calls(call.day) <= MaxCalls
    /\ pc = "checked" /\ call.day = today => Calls(today) + 1 <= MaxCalls
    /\ Calls(today) <= MaxCalls
    /\ \A d \in Days : Calls(d) <= MaxCalls + 1

-----------------------------------------------------------------------------
(* The inductive invariant of the cost limit: it relates what is reserved, *)
(* charged and billed to the step and the date of the call under way.      *)

\* A call that was never reserved has no charge and no bill, and no call is
\* charged less than its bill.
EachIsCovered ==
    \A i \in Ids :
        /\ status[i] = "none" => actual[i] = 0 /\ billed[i] = 0
        /\ actual[i] <= estimated[i] /\ billed[i] <= Charge(i)

\* The call under way is the reserved one, at its estimate.
UnderWay ==
    pc \in {"reserved", "sent"} =>
        status[call.id] = "reserved" /\ estimated[call.id] = call.estimate

\* What was checked still holds when the reservation is written.
CostInv ==
    /\ pc \in {"dated", "checked"} => Cost(call.day) <= MaxCost
    /\ pc = "checked" => call.estimate <= MaxCost
    /\ pc = "checked" /\ call.day = today => Cost(today) + call.estimate <= MaxCost
    /\ Cost(today) <= MaxCost
    /\ \A d \in Days : Cost(d) <= 2 * MaxCost

MoneyInv == EachIsCovered /\ UnderWay /\ CostInv
=============================================================================
