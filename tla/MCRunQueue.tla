----------------------------- MODULE MCRunQueue -----------------------------
(* Small instances of RunQueue for TLC. *)
EXTENDS RunQueue, TLC

CONSTANTS w1, w2

Symmetry == Permutations(Worker) \union Permutations(Revision)
=============================================================================
