---------------------------- MODULE MCApprovals -----------------------------
(* Small instances of Approvals.                                           *)
EXTENDS Approvals, TLC

CONSTANTS d1, v1, v2

\* Nothing tells the identity versions apart.
Versions == Permutations({v1, v2})

=============================================================================
