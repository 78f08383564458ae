--------------------------- MODULE MCFuncBinding ---------------------------
(***************************************************************************)
(* Model values for FuncBinding: two functions can be there at once, or    *)
(* one that is being collected, one that is being pushed and an object.    *)
(***************************************************************************)
EXTENDS FuncBinding, TLC

CONSTANTS x1, x2, u1, u2, u3, c1, c2

MCTargets == {x1, x2}
MCUdataAddrs == {u1, u2, u3}
MCClosureAddrs == {c1, c2}

Symmetry ==
  Permutations(MCTargets) \cup Permutations(MCUdataAddrs) \cup Permutations(MCClosureAddrs)
=============================================================================
