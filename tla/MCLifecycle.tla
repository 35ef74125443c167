---------------------------- MODULE MCLifecycle ----------------------------
(* Lifecycle on small instances; see the .cfg files.                        *)
EXTENDS Lifecycle, TLC

CONSTANTS o1, o2   \* opportunities

\* Opportunities are treated alike.
Alike == Permutations(Opportunity)
=============================================================================
