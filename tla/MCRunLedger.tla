----------------------------- MODULE MCRunLedger -----------------------------
(* Instances of RunLedger for TLC. *)
EXTENDS RunLedger, TLC

CONSTANTS n1, n2, n3

Turns == Permutations(Turn)
=============================================================================
