----------------------------- MODULE MCDecisions ----------------------------
(***************************************************************************)
(* Decisions about one message, what is read from the history they are     *)
(* made with, and the identities under which that history is stored, on a  *)
(* small instance: an answer differs from one that may be sent in at most  *)
(* two of its fields. The three share no variable, so a behaviour works    *)
(* with one of them and the others stay at their start.                    *)
(***************************************************************************)
EXTENDS Decisions, History, EventIdentity

CONSTANTS t, u

VARIABLE part

readingVars == <<part, decisionVars, historyVars, identityVars>>

Sendable ==
    [stance |-> {}, facts |-> "none", commitments |-> FALSE, risk |-> "low",
     confidence |-> 92, reply |-> TRUE, context |-> TRUE]

Answers ==
    {d \in [stance : Stances, facts : {"none", "grounded", "ungrounded", "risky"},
            commitments : BOOLEAN, risk : {"low", "other"},
            confidence : {69, 70, 91, 92}, reply : BOOLEAN, context : BOOLEAN] :
       Cardinality({f \in DOMAIN d : d[f] # Sendable[f]}) <= 2}

Sizes == [x \in Text |-> IF x = t THEN 2 ELSE 1]

\* A day without a telling message gives no confidence.
ConfidentDays == {x \in (0..4) \X (0..8) \X (0..4) : x[3] > 0}

Rows ==
    {[local |-> 1, content |-> 1, zipped |-> FALSE, sender |-> "self"],
     [local |-> 1, content |-> 1, zipped |-> TRUE, sender |-> "contact"]}

Shelves == [s \in Shard |-> IF s = 1 THEN 2 ELSE 1]

ReadingInit ==
    /\ part \in {"decision", "history", "identity"}
    /\ DecisionInit /\ HistoryInit /\ IdentityInit
    /\ part # "decision" =>
         kind = "chat" /\ reached = {} /\ config.mode = "observe" /\ ~config.allowed

ReadingNext ==
    \/ part = "decision" /\ DecisionNext
          /\ UNCHANGED <<part, historyVars, identityVars>>
    \/ part = "history" /\ HistoryNext
          /\ UNCHANGED <<part, decisionVars, identityVars>>
    \/ part = "identity" /\ IdentityNext
          /\ UNCHANGED <<part, decisionVars, historyVars>>

ReadingSpec == ReadingInit /\ [][ReadingNext]_readingVars
=============================================================================
