-------------------------- MODULE MCUserdataRefs --------------------------
(***************************************************************************)
(* Model values for UserdataRefs.  Two objects and three blocks let one    *)
(* object have two holders while another is pushed, finalized and pushed   *)
(* again; the indices bound lets two failed pushes leave holes.            *)
(***************************************************************************)
EXTENDS UserdataRefs

CONSTANTS o1, o2, p1, u1, u2, u3

MCObjects == {o1, o2}
MCPrimitives == {p1}
MCUserdata == {u1, u2, u3}

=============================================================================
