------------------------------ MODULE MCDetach ------------------------------
(***************************************************************************)
(* Graphs for Detach, over tables a, b, c.  The numbers' and the strings'  *)
(* property names overlap: n1 and s1 are 1 and "1".  sp and sl are the     *)
(* strings "__proto__" and "length".  u1 and u2 are two userdata of the JS *)
(* object o.                                                               *)
(***************************************************************************)
EXTENDS Detach

CONSTANTS a, b, c, n1, s1, s2, sp, sl, u1, u2, o, bottom

MCTables == {a, b, c}
MCScalars == {n1, s1, s2, sp, sl, u1, u2}
MCJsValue == (u1 :> o) @@ (u2 :> o) @@ [v \in {n1, s1, s2, sp, sl} |-> v]
MCName == (n1 :> "1") @@ (s1 :> "1") @@ (s2 :> "x") @@ (sp :> "__proto__") @@ (sl :> "length") @@
          (o :> "[object Object]")
MCIndex == "1" :> 1
MCAsLength == (n1 :> 1) @@ (s1 :> 1)
MCDictTypes == {"Array", "Object", "Map", Detected}
MCBelow == <<bottom, bottom>>

\* A table with the keys K and values from V, in all ways.
Contents(K, V) == { {<<k, s[k]>> : k \in K} : s \in [K -> V] }

MCGraphs ==
  { (a :> fa) @@ (b :> fb) @@ (c :> fc) :
      fa \in UNION {Contents(K, {s2, b, c}) : K \in {{n1, s1}, {n1, s2}, {u1, u2}, {b, c}, {s2, c}}}
            \cup Contents({n1, sl}, {n1, s2, b}) \cup Contents({sp, s2}, {a, b, c, s1, u1}),
      fb \in {{}, {<<c, a>>}, {<<sp, a>>}} \cup Contents({s2}, {a, b}) \cup Contents({n1, s2}, {a, c}),
      fc \in {{}} \cup Contents({s1}, {n1, a, c}) }

\* A chain of tables, each the only value of the one before.
DeepTables == 1 .. 25
DeepBelow == <<>>
DeepGraphs == { [t \in DeepTables |-> IF t < 25 THEN {<<s1, t + 1>>} ELSE {}] }
=============================================================================
