-------------------------- MODULE MCMessageReader --------------------------
(* Small instances of MessageReader.                                       *)
EXTENDS MessageReader

CONSTANT t1

=============================================================================
