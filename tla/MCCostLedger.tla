---------------------------- MODULE MCCostLedger ----------------------------
(* Small instances of CostLedger.                                          *)
EXTENDS CostLedger, TLC

CONSTANTS i1, i2, i3, i4

Interchangeable == Permutations(Ids)

=============================================================================
