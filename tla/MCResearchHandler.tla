-------------------------- MODULE MCResearchHandler --------------------------
(* Small instances of ResearchHandler for TLC. *)
EXTENDS ResearchHandler, TLC

CONSTANTS w1, w2

Symmetry == Permutations(Worker)
=============================================================================
