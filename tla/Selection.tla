------------------------------ MODULE Selection ------------------------------
(***************************************************************************)
(* A list with some of its elements taken out, as a recursive function     *)
(* that the proofs can reason about.                                       *)
(***************************************************************************)
EXTENDS Integers, Sequences

\* The elements of s that are in T, in their order.
Filtered(s, T) ==
    LET f[n \in 0..Len(s)] == IF n = 0 THEN <<>> ELSE IF s[n] \in T THEN Append(f[n - 1], s[n]) ELSE f[n - 1]
    IN f[Len(s)]
=============================================================================
