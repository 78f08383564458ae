----------------------------- MODULE MCLuaTable -----------------------------
(* Small sets of keys for a table: the integers collide in small hash parts, and*)
(* so do the strings and the objects.                                           *)
EXTENDS LuaTable, TLC
CONSTANTS s1, s2, o1, o2
MCNumbers == {1, 2, 3, 4, 5, 9}
MCHash    == (s1 :> 2) @@ (s2 :> 3)
MCAddress == (o1 :> 2) @@ (o2 :> 5)
MCPrograms == {{1, 2, 3, 5}, {2, 4, 9, s2}, {3, s1, o1}, {s2, o1, o2}}
MCSizes == {[narray |-> 0, nhash |-> 0], [narray |-> 3, nhash |-> 1]}
=============================================================================
