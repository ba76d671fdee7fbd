--------------------------- MODULE MCEventDispatch ---------------------------
(***************************************************************************)
(* EventDispatch for TLC: the small programs its runs explore.              *)
(***************************************************************************)
EXTENDS EventDispatch

CONSTANTS c1, c2, c3, w1, w2, e1, e2

\* Sound for the runs without liveness: no definition tells clients apart.
ClientSymmetry == Permutations({c1, c2, c3})
=============================================================================
