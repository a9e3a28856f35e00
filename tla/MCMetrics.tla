----------------------------- MODULE MCMetrics -----------------------------
(* Two metric names, two label tuples, three bucket bounds.                   *)
EXTENDS Metrics, TLC

CONSTANTS m, n, plain, other

MCNumber == {-1, 2}

Symmetry == Permutations(Name) \cup Permutations(Label)
=============================================================================
