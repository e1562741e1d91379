------------------------------ MODULE SendOnce ------------------------------
(***************************************************************************)
(* What the send pipeline promises about one draft, whatever the process,  *)
(* the clock and WeChat do: a person grants one token, the draft is claimed*)
(* at most once and only under a token, the token is spent at most once,   *)
(* and Return is pressed at most once, after the token is spent.           *)
(***************************************************************************)
EXTENDS Naturals

CONSTANT Draft

VARIABLES
    phase,    \* "open", then "claimed" or "blocked" for ever
    token,    \* the person's authorisation: "absent", "armed" or "spent"
    presses   \* how often Return was pressed

vars == <<phase, token, presses>>

Init ==
    /\ phase = [d \in Draft |-> "open"]
    /\ token = [d \in Draft |-> "absent"]
    /\ presses = [d \in Draft |-> 0]

\* Arming again before the claim replaces the token; it does not add one.
Arm(d) ==
    /\ phase[d] = "open"
    /\ token' = [token EXCEPT ![d] = "armed"]
    /\ UNCHANGED <<phase, presses>>

\* The grant is taken back before it was used.
Disarm(d) ==
    /\ phase[d] = "open"
    /\ token' = [token EXCEPT ![d] = "absent"]
    /\ UNCHANGED <<phase, presses>>

Block(d) ==
    /\ phase[d] = "open"
    /\ phase' = [phase EXCEPT ![d] = "blocked"]
    /\ UNCHANGED <<token, presses>>

Claim(d) ==
    /\ phase[d] = "open"
    /\ token[d] = "armed"
    /\ phase' = [phase EXCEPT ![d] = "claimed"]
    /\ UNCHANGED <<token, presses>>

Spend(d) ==
    /\ phase[d] = "claimed"
    /\ token[d] = "armed"
    /\ token' = [token EXCEPT ![d] = "spent"]
    /\ UNCHANGED <<phase, presses>>

Press(d) ==
    /\ phase[d] = "claimed"
    /\ token[d] = "spent"
    /\ presses[d] = 0
    /\ presses' = [presses EXCEPT ![d] = 1]
    /\ UNCHANGED <<phase, token>>

Next ==
    \E d \in Draft :
        Arm(d) \/ Disarm(d) \/ Block(d) \/ Claim(d) \/ Spend(d) \/ Press(d)

Spec == Init /\ [][Next]_vars
=============================================================================
