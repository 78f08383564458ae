------------------------------- MODULE Detach -------------------------------
(***************************************************************************)
(* LuaTable.$detach (src/src/table.ts): a graph of Lua tables is copied    *)
(* into JS Maps by recursion over lua_next, with the tables and the keys   *)
(* under way on the Lua stack, and the Maps then become what the caller    *)
(* asked for.                                                              *)
(*                                                                         *)
(* The recursion is the sequence frames, one frame per active detachTable. *)
(***************************************************************************)
EXTENDS MapTransform

CONSTANTS
  LuaTables,   \* addresses of Lua tables
  LuaScalars,  \* Lua values that are no tables
  JsValue,     \* what getValue makes of them; two userdata may hold the
               \* same JS object
  Graphs,      \* the tables' contents: table -> set of <<key, value>>
  DictTypes,   \* the dictType of a call, Detected for mapTransform's own default
  Below,       \* what is on the Lua stack when $detach is called
  Nil

LuaValues == LuaTables \cup LuaScalars

ASSUME ScalarsAreNotTables == LuaTables \cap LuaScalars = {}
ASSUME BelowAssumption == Below \in Seq(Range(Below))
ASSUME JsValueAssumption == JsValue \in [LuaScalars -> JsScalars]
ASSUME GraphsAssumption ==
  \A g \in Graphs :
    /\ g \in [LuaTables -> SUBSET (LuaValues \X LuaValues)]
    /\ \A t \in LuaTables : \A e, f \in g[t] : e[1] = f[1] => e = f

VARIABLES
  graph,       \* the Lua tables; nothing modifies them during the copy
  stack,       \* the Lua stack
  frames,      \* active calls: [index, map, left, at, key]
  refs,        \* refs: address of a table -> its Map
  done         \* $detach has returned or thrown

detachVars == <<graph, stack, frames, refs, done, maps>>
vars == <<detachVars, transformVars>>

Init ==
  /\ graph \in Graphs
  /\ stack = Below
  /\ frames = <<>>
  /\ refs = <<>>
  /\ maps = <<>>
  /\ done = FALSE
  /\ TransformInit

-----------------------------------------------------------------------------
Detaching == frames # <<>>

Frame == Last(frames)

\* Mutant of AbsIndex: the position below the table's.
AbsIndexBelow(s, i) == Len(s) - i

\* lua_absindex of the index -i in stack s.
AbsIndex(s, i) == Len(s) - i + 1

\* detachTable(-i) on a table that is not in refs, with s the stack and rest
\* the calls below, up to the first lua_next.
EnterTable(i, s, rest) ==
  LET t == s[Len(s) - i + 1] IN
  /\ maps' = Append(maps, [of |-> t, entries |-> <<>>])
  /\ refs' = Put(refs, t, Len(maps) + 1)
  /\ stack' = Append(s, Nil)
  /\ frames' = Append(rest, [index |-> AbsIndex(s, i), map |-> Len(maps) + 1,
                             left |-> graph[t], at |-> "next", key |-> Nil])

\* $detach on the wrapper of table t: its registry slot is pushed first.
Start(t) ==
  /\ ~Detaching /\ ~Transforming /\ ~done
  /\ EnterTable(1, Append(stack, t), <<>>)
  /\ UNCHANGED <<graph, done, transformVars>>

\* Map.set: a key that is there keeps its place.
MapSet(entries, key, v) ==
  IF \E k \in DOMAIN entries : entries[k][1] = key
  THEN [k \in DOMAIN entries |-> IF entries[k][1] = key THEN <<key, v>> ELSE entries[k]]
  ELSE Append(entries, <<key, v>>)

\* The key of the top frame of fs is converted.
GotKey(fs, m) == [fs EXCEPT ![Len(fs)].key = m, ![Len(fs)].at = "value"]

\* The value of the top frame of fs is converted: result.set, and pop.
GotValue(fs, s, v) ==
  LET f == Last(fs) IN
  /\ maps' = [maps EXCEPT ![f.map].entries = MapSet(@, f.key, v)]
  /\ stack' = Front(s)
  /\ frames' = [fs EXCEPT ![Len(fs)].at = "next"]

\* What lua_next has still to find: it looks for the entries in the table at
\* the frame's index of the stack as it is now.
Remaining ==
  LET t == stack[Frame.index] IN
  IF t \in LuaTables THEN Frame.left \cap graph[t] ELSE {}

\* lua_next finds another entry: the key on the stack is replaced by the next
\* one, and its value pushed.
NextEntry ==
  /\ Detaching /\ Frame.at = "next"
  /\ \E e \in Remaining :
       /\ stack' = Front(stack) \o e
       /\ frames' = [frames EXCEPT ![Len(frames)].at = "key",
                                   ![Len(frames)].left = @ \ {e}]
  /\ UNCHANGED <<graph, refs, maps, done, transformVars>>

\* What a value that starts no nested call becomes: a table met before its Map.
Known(v) == v \in LuaScalars \cup DOMAIN refs

Converted(v) == IF v \in LuaTables THEN MapRef(refs[v]) ELSE JsValue[v]

Key == stack[Len(stack) - 1]

ConvertKey ==
  /\ Detaching /\ Frame.at = "key"
  /\ \/ /\ Known(Key)
        /\ frames' = GotKey(frames, Converted(Key))
        /\ UNCHANGED <<stack, refs, maps>>
     \/ ~Known(Key) /\ EnterTable(2, stack, frames)
  /\ UNCHANGED <<graph, done, transformVars>>

ConvertValue ==
  /\ Detaching /\ Frame.at = "value"
  /\ \/ Known(Last(stack)) /\ GotValue(frames, stack, Converted(Last(stack))) /\ UNCHANGED refs
     \/ ~Known(Last(stack)) /\ EnterTable(1, stack, frames)
  /\ UNCHANGED <<graph, done, transformVars>>

\* lua_next finds no entry and pops the key: the call returns its Map to the
\* one that waits for it.
ReturnNested ==
  /\ Detaching /\ Frame.at = "next" /\ Remaining = {}
  /\ Len(frames) > 1
  /\ LET below == Front(frames) s == Front(stack) m == MapRef(Frame.map) IN
       \/ Last(below).at = "key" /\ frames' = GotKey(below, m) /\ stack' = s /\ UNCHANGED maps
       \/ Last(below).at = "value" /\ GotValue(below, s, m)
  /\ UNCHANGED <<graph, refs, done, transformVars>>

\* The outermost call returns: $detach pops the table and transforms the Map.
ReturnOutermost ==
  /\ Detaching /\ Frame.at = "next" /\ Remaining = {}
  /\ Len(frames) = 1
  /\ frames' = <<>>
  /\ stack' = Front(Front(stack))
  /\ \E t \in DictTypes : StartTransform(Frame.map, t)
  /\ done' = (calls' = <<>>)
  /\ UNCHANGED <<graph, refs, maps>>

Transform ==
  /\ TransformStep
  /\ done' = (calls' = <<>>)
  /\ UNCHANGED <<graph, stack, frames, refs, maps>>

Next ==
  \/ \E t \in LuaTables : Start(t)
  \/ NextEntry
  \/ ConvertKey
  \/ ConvertValue
  \/ ReturnNested
  \/ ReturnOutermost
  \/ Transform

Spec == Init /\ [][Next]_vars

-----------------------------------------------------------------------------
(***************************************************************************)
(* Properties.                                                             *)
(***************************************************************************)

\* Type invariant of the two recursions: detachTable's calls and its refs
\* (table.ts:89), mapTransform's calls and options.refs.
DetachTypeOK ==
  /\ stack \in Seq(LuaValues \cup Range(Below) \cup {Nil})
  /\ \A k \in DOMAIN frames :
       /\ frames[k].map \in DOMAIN maps
       /\ frames[k].index \in DOMAIN stack
       /\ frames[k].left \subseteq graph[maps[frames[k].map].of]
       /\ frames[k].at \in {"next", "key", "value"}
       /\ frames[k].key \in JsScalars \cup MapRefs \cup {Nil}
  /\ refs \in [DOMAIN refs -> DOMAIN maps] /\ DOMAIN refs \subseteq LuaTables
  /\ \A i \in DOMAIN maps :
       /\ maps[i].of \in LuaTables
       /\ \A k \in DOMAIN maps[i].entries :
            maps[i].entries[k] \in (JsScalars \cup MapRefs) \X (JsScalars \cup MapRefs)
  /\ wanted \in DictTypes \cup {Detected}
  /\ copies \in [DOMAIN copies -> DOMAIN results] /\ DOMAIN copies \subseteq DOMAIN maps
  /\ \A k \in DOMAIN calls :
       calls[k].map \in DOMAIN maps /\ calls[k].result \in DOMAIN results
  /\ \A j \in DOMAIN results : results[j].proto \in {0} \cup DOMAIN results
  /\ thrown \in BOOLEAN /\ done \in BOOLEAN

\* The JS value of v once everything is detached.
ImageIs(v, w) ==
  IF v \in LuaTables THEN \E i \in DOMAIN maps : maps[i].of = v /\ w = MapRef(i)
  ELSE w = JsValue[v]

\* When the copy is complete the Maps form the graph of the Lua tables: the keys
\* of a Map are its table's keys, each once, and each value belongs to its key.
\* Two userdata of one JS object are one key of the Map (table.ts:98-108). The
\* Lua stack is as $detach found it, whichever calls it took (table.ts:49-51;
\* table-stack.test.js, "without consuming").
DetachedMapsMirrorTables ==
  ~Detaching =>
    /\ stack = Below
    /\ \A i \in DOMAIN maps :
        LET entries == graph[maps[i].of] keys == KeysOf(i) IN
        /\ IsInjective(keys)
        /\ \A e \in entries : \E k \in DOMAIN keys : ImageIs(e[1], keys[k])
        /\ \A k \in DOMAIN keys : \E e \in entries :
             ImageIs(e[1], keys[k]) /\ ImageIs(e[2], maps[i].entries[k][2])

\* The result of a value: of a Map, what mapTransform made of it if it made
\* something, and itself only where it is meant to stay a Map.
ResultIs(v, w) ==
  IF v \in MapRefs
  THEN \/ \E j \in DOMAIN results : results[j].of = v[2] /\ w = ResultRef(j)
       \/ DictType(v[2]) = "Map" /\ w = v
  ELSE w = v

\* The name of the k-th of the entries makes a property of r, and no later one
\* has it.
Stays(r, entries, k) ==
  LET name(l) == PropertyName(entries[l][1]) IN
  IsOwn(r, name(k)) /\ \A l \in DOMAIN entries : l > k => name(l) # name(k)

\* A later key sets the length of the array r, and may remove the element that
\* the k-th of the entries made.
MayBeCut(r, entries, k) ==
  LET x == PropertyName(entries[k][1]) IN
  /\ r.array /\ x \in DOMAIN Index
  /\ \E l \in DOMAIN entries :
       /\ l > k /\ PropertyName(entries[l][1]) = LengthName
       /\ entries[l][2] \in DOMAIN AsLength => AsLength[entries[l][2]] <= Index[x]

\* The last entry under the name "__proto__" made result r inherit from the
\* result of its value, if that is a Map that became one.
InheritsAsAsked(r, entries) ==
  \A k \in DOMAIN entries :
    (/\ PropertyName(entries[k][1]) = ProtoName
     /\ \A l \in DOMAIN entries : l > k => PropertyName(entries[l][1]) # ProtoName
     /\ entries[k][2] \in MapRefs /\ DictType(entries[k][2][2]) # "Map")
      => r.proto # 0 /\ results[r.proto].of = entries[k][2][2]

\* A Map has a Map under "__proto__", or an array is given a "length" that is
\* none.
AssignmentMayThrow ==
  \E j \in DOMAIN results :
    \E e \in Range(maps[results[j].of].entries) :
      \/ PropertyName(e[1]) = ProtoName /\ e[2] \in MapRefs
      \/ PropertyName(e[1]) = LengthName /\ results[j].array /\ e[2] \notin DOMAIN AsLength

\* The objects and arrays form the graph of the Maps (map-transform.ts:34-60):
\* a property is what the last key of its name has, and such a key has its
\* property unless a later "length" removed it; no two keys of a Map have the
\* same name where mapTransform chose the type itself (map-transform.ts:12-31);
\* and a Map under "__proto__" becomes what the result inherits from. It throws
\* only where one of these two names explains it.
ResultsMirrorMaps ==
  done =>
    IF thrown THEN AssignmentMayThrow ELSE
    \A j \in DOMAIN results :
      LET r == results[j] entries == maps[r.of].entries
          name(k) == PropertyName(entries[k][1]) IN
      /\ \A x \in DOMAIN r.props :
           \E k \in DOMAIN entries :
             Stays(r, entries, k) /\ name(k) = x /\ ResultIs(entries[k][2], r.props[x])
      /\ \A k \in DOMAIN entries :
           Stays(r, entries, k) => name(k) \in DOMAIN r.props \/ MayBeCut(r, entries, k)
      /\ wanted = Detected => \A k, l \in DOMAIN entries : name(k) = name(l) => k = l
      /\ InheritsAsAsked(r, entries)

\* Every key of a Map whose names mapTransform found to differ is a property of
\* its result (map-transform.ts:12-31).
NoKeyIsLost ==
  done /\ wanted = Detected =>
    ~thrown /\ \A j \in DOMAIN results :
                 Cardinality(DOMAIN results[j].props) = Len(maps[results[j].of].entries)

\* The steps still to come: entries of tables without a Map and of the active
\* calls, and the same for the Maps.
DetachWorkLeft ==
  LET phase(f) == IF f.at = "next" THEN 0 ELSE IF f.at = "key" THEN 2 ELSE 1 IN
  MapThenSumSet(LAMBDA t : 3 * Cardinality(graph[t]) + 2, LuaTables \ {maps[i].of : i \in DOMAIN maps})
  + FoldLeft(LAMBDA n, f : n + 3 * Cardinality(f.left) + phase(f) + 1, 0, frames)

TransformWorkLeft ==
  MapThenSumSet(LAMBDA i : Len(maps[i].entries) + 2, DOMAIN maps \ {results[j].of : j \in DOMAIN results})
  + FoldLeft(LAMBDA n, c : n + Len(maps[c.map].entries) - c.next + 2, 0, calls)

\* $detach of any graph, cyclic ones included, makes one Map per table and one
\* result per Map, and so it returns within a number of steps that its tables
\* and their entries bound (engine.test.js:92-122, "circular references").
DetachMakesProgress ==
  [][/\ Detaching => DetachWorkLeft' < DetachWorkLeft
     /\ Transforming => TransformWorkLeft' < TransformWorkLeft]_vars

\* The positions the Lua stack has room for when nothing has grown it: the
\* array of stack_init without the entry of its first call (lstate.c:41-60).
StackSize == 2 * 20 + 5 - 1

\* The copy stays inside the stack it was given: the manual makes whoever uses
\* the API "responsible for controlling stack overflow", with lua_checkstack
\* (lua/doc/manual.html:2309-2322).
StackStaysInBounds == Len(stack) <= StackSize
=============================================================================
