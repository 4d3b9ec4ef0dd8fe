------------------------ MODULE MCOperationRegistry ------------------------
(* Small instances of OperationRegistry for TLC. *)
EXTENDS OperationRegistry, TLC

Symmetry == Permutations(Ops)
=============================================================================
