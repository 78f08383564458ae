---------------------------- MODULE MCPushTable ----------------------------
(***************************************************************************)
(* Object graphs for PushTable, over objects a, b, c and two LuaTables.    *)
(*                                                                         *)
(* Flat objects hold scalars, LuaTables, fields that throw and themselves;  *)
(* the graphs of references are all those with up to two fields for a and  *)
(* b and one for c, and those where b throws after it has pushed c.        *)
(***************************************************************************)
EXTENDS PushTable

CONSTANTS a, b, c, h1, h2, v1, v2, t1, t2, t3

MCObjects == {a, b, c}
MCHandles == {h1, h2}
OneHandle == {h1}
MCTables == {t1, t2, t3}
MCLuaValues == {v1, v2} \cup MCTables

Graph(fa, fb, fc) == (a :> fa) @@ (b :> fb) @@ (c :> fc)

FlatGraphs ==
  { Graph(<<Scalar, a>>, <<h1, b, h1>>, <<>>),
    Graph(<<a, h1, a>>, <<Scalar, Bad>>, <<Bad, c>>) }

UpTo(n, S) == UNION {[1 .. k -> S] : k \in 0 .. n}

ReferenceGraphs ==
  { Graph(fa, fb, fc) : fa \in UpTo(2, MCObjects), fb \in UpTo(2, MCObjects) \cup {<<c, Bad>>},
                        fc \in UpTo(1, MCObjects) }

MCGraphs == FlatGraphs \cup ReferenceGraphs

Nested == { Graph(<<b>>, <<Scalar>>, <<>>) }

Symmetry == Permutations({v1, v2}) \cup Permutations(MCTables)
=============================================================================
