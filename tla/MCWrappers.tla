----------------------------- MODULE MCWrappers -----------------------------
(***************************************************************************)
(* Model values for Wrappers: two tables, two functions, four wrappers   *)
(* and slots left for references that no wrapper gives back.               *)
(***************************************************************************)
EXTENDS Wrappers, TLC

CONSTANTS v1, v2, f1, f2, h1, h2, h3, h4

MCLuaValues == {v1, v2, f1, f2}
MCFunctions == {f1, f2}
MCHandles == {h1, h2, h3, h4}

Symmetry ==
  Permutations({v1, v2}) \cup Permutations(MCFunctions) \cup Permutations(MCHandles)
=============================================================================
