----------------------------- MODULE PushTable -----------------------------
(***************************************************************************)
(* LuaThread.pushTable (src/src/thread.ts): a JS object graph is copied    *)
(* into new Lua tables by recursion, with a registry reference per table   *)
(* so that an object met again is not copied twice.  The wrappers of       *)
(* LuaRegistry live beside it and share the registry.                      *)
(*                                                                         *)
(* The recursion is the sequence frames, one frame per active call.        *)
(***************************************************************************)
EXTENDS LuaRegistry, SequencesExt, TLC

CONSTANTS
  Objects,   \* plain JS objects and arrays
  Graphs,    \* the object graphs: object -> sequence of field values
  Tables,    \* Lua tables the pushes create, a subset of LuaValues
  Scalar,    \* a field that is a number, string or boolean
  Bad        \* a field whose conversion throws (a bigint, api.ts:381)

ASSUME TablesAssumption == Tables \subseteq LuaValues
ASSUME GraphsAssumption ==
  Graphs \subseteq [Objects -> Seq(Objects \cup Handles \cup {Scalar, Bad})]
ASSUME FieldsAssumption ==
  /\ Objects \cap Handles = {}
  /\ {Scalar, Bad} \cap (Objects \cup Handles) = {} /\ Scalar # Bad

VARIABLES
  graph,     \* the JS objects; the runs do not modify them between pushes
  frames,    \* active pushTable calls: [obj, table, next]
  refs,      \* options.refs in insertion order: <<object, reference>>
  heap,      \* Lua table -> [fields, of]: its fields so far, and (history)
             \* the object it copies
  throwing,  \* an exception is unwinding the calls
  root       \* the table of the last completed push; Nil otherwise

pushVars == <<graph, frames, refs, heap, throwing, root>>
vars == <<registryVars, pushVars>>

Init ==
  /\ RegistryInit
  /\ graph \in Graphs
  /\ frames = <<>>
  /\ refs = <<>>
  /\ heap = <<>>
  /\ throwing = FALSE
  /\ root = Nil

-----------------------------------------------------------------------------
Idle == frames = <<>>

Top == Last(frames)

Field == graph[Top.obj][Top.next]

AllFieldsPushed == Top.next > Len(graph[Top.obj])

\* Mutant of RefOf: the lookup does not compare the key.
RefOfLatest(o) == {Last(refs)[2]}

\* The reference options.refs has for object o, if any.
RefOf(o) == {p[2] : p \in {q \in ToSet(refs) : q[1] = o}}

\* Mutant of SetField: the loop does not go on to the next field.
SetFieldAgain(v) ==
  /\ heap' = [heap EXCEPT ![Top.table].fields = Append(SubSeq(@, 1, Top.next - 1), v)]
  /\ UNCHANGED frames

\* lua_settable on the table of the top frame with value v.
SetField(v) ==
  /\ heap' = [heap EXCEPT ![Top.table].fields = Append(@, v)]
  /\ frames' = [frames EXCEPT ![Len(frames)].next = @ + 1]

\* The heap h with a new table for object o.
WithTable(h, tab, o) ==
  [t \in DOMAIN h \cup {tab} |-> IF t = tab THEN [fields |-> <<>>, of |-> o] ELSE h[t]]

\* createtable, luaL_ref, rawgeti, refs.set: a call reaches its try block.
\* The table comes back from the registry slot it was just stored in.
Enter(o, rest) ==
  \E tab \in Tables \ DOMAIN heap, r \in RefChoices(registry) :
    /\ registry' = LuaLRef(registry, tab, r)
    /\ heap' = WithTable(heap, tab, o)
    /\ frames' = Append(rest, [obj |-> o, table |-> tab, next |-> 1])
    /\ refs' = Append(refs, <<o, r>>)
    /\ UNCHANGED handles

\* The bound of the runs: a push starts while it cannot exceed MaxRef.
Room == \A s \in Slots : s > MaxRef - Cardinality(Objects) => registry[s] = Nil

\* pushValue(o) from the outside: fresh options, so refs starts empty.  What
\* earlier pushes created is of no concern to this one.
StartPush(o) ==
  /\ Idle /\ Room
  /\ root' = Nil
  /\ throwing' = FALSE
  /\ \E tab \in Tables, r \in RefChoices(registry) :
       /\ registry' = LuaLRef(registry, tab, r)
       /\ heap' = WithTable(<<>>, tab, o)
       /\ frames' = <<[obj |-> o, table |-> tab, next |-> 1]>>
       /\ refs' = <<<<o, r>>>>
  /\ UNCHANGED <<handles, graph>>

Running == ~Idle /\ ~throwing

PushScalarField ==
  /\ Running /\ ~AllFieldsPushed /\ Field = Scalar
  /\ SetField(Scalar)
  /\ UNCHANGED <<registryVars, graph, refs, throwing, root>>

\* A LuaTable inside the object goes through its own reference.
PushHandleField ==
  /\ Running /\ ~AllFieldsPushed
  /\ Field \in LiveHandles
  /\ SetField(registry[handles[Field].ref])
  /\ UNCHANGED <<registryVars, graph, refs, throwing, root>>

\* An object already in options.refs is looked up by its reference.
PushKnownObject ==
  /\ Running /\ ~AllFieldsPushed
  /\ \E r \in RefOf(Field) : SetField(registry[r])
  /\ UNCHANGED <<registryVars, graph, refs, throwing, root>>

PushNewObject ==
  /\ Running /\ ~AllFieldsPushed
  /\ Field \in Objects
  /\ RefOf(Field) = {}
  /\ Enter(Field, frames)
  /\ UNCHANGED <<graph, throwing, root>>

\* A destroyed LuaTable (its proxy throws) or a value ref cannot take.
PushFieldThrows ==
  /\ Running /\ ~AllFieldsPushed
  /\ Field = Bad \/ Field \in Handles \ LiveHandles
  /\ throwing' = TRUE
  /\ UNCHANGED <<registryVars, graph, frames, refs, heap, root>>

\* Mutant of ReleaseRefs: the references are not given back.
ReleaseNothing == registry

\* The finally block: every reference of options.refs is given back, those of
\* the calls that are still active and those of finished calls included.
ReleaseRefs == FoldLeft(LAMBDA t, p : LuaLUnref(t, p[2]), registry, refs)

\* The call ends: its table is left on the stack for the caller to store.
Leave ==
  /\ ~Idle
  /\ throwing \/ AllFieldsPushed
  /\ registry' = ReleaseRefs
  /\ frames' =
       IF throwing \/ Len(frames) = 1 THEN Front(frames)
       ELSE [Front(frames) EXCEPT ![Len(frames) - 1].next = @ + 1]
  /\ heap' =
       IF throwing \/ Len(frames) = 1 THEN heap
       ELSE [heap EXCEPT ![frames[Len(frames) - 1].table].fields = Append(@, Top.table)]
  /\ root' = IF Len(frames) = 1 /\ ~throwing THEN Top.table ELSE root
  /\ UNCHANGED <<handles, graph, refs, throwing>>

\* A wrapper is made or destroyed between two pushes; what the last push
\* returned has been consumed by then.
WrapOrDestroy ==
  /\ Idle
  /\ \E h \in Handles : Drop(h) \/ \E v \in LuaValues \ Tables : Hold(h, v)
  /\ root' = Nil /\ heap' = <<>> /\ refs' = <<>> /\ throwing' = FALSE
  /\ UNCHANGED <<graph, frames>>

\* A push is one synchronous call: once started, nothing else runs until it
\* has returned.
PushStep ==
  \/ PushScalarField
  \/ PushHandleField
  \/ PushKnownObject
  \/ PushNewObject
  \/ PushFieldThrows
  \/ Leave

Next ==
  \/ \E o \in Objects : StartPush(o)
  \/ PushStep
  \/ WrapOrDestroy

Spec == Init /\ [][Next]_vars

-----------------------------------------------------------------------------
(***************************************************************************)
(* Properties.                                                             *)
(***************************************************************************)

\* Type invariant: the recursion's frames, the references pushTable keeps in
\* options.refs (thread.ts:174) and the tables it has filled so far.
PushTypeOK ==
  /\ RegistryTypeOK
  /\ graph \in Graphs
  /\ frames \in Seq([obj : Objects, table : Tables, next : Nat \ {0}])
  /\ refs \in Seq(Objects \X (Slots \ {0}))
  /\ DOMAIN heap \subseteq Tables
  /\ throwing \in BOOLEAN
  /\ root \in Tables \cup {Nil}

\* No object nests another; it may refer to itself.
Flat == \A o \in Objects : ToSet(graph[o]) \cap Objects \subseteq {o}

\* No object is the value of two fields, and none is inside itself.
Tree ==
  /\ \A p \in Objects :
       \A o, q \in Objects : \A j \in DOMAIN graph[o], k \in DOMAIN graph[q] :
         graph[o][j] = p /\ graph[q][k] = p => o = q /\ j = k
  /\ \A S \in SUBSET Objects \ {{}} :
       \E o \in S : \A p \in S : o \notin ToSet(graph[p])

\* No object holds a LuaTable or a Lua function.
HoldsNoHandle == \A o \in Objects : ToSet(graph[o]) \cap Handles = {}

\* Whether Lua value v is what a field f of an object must become.
IsImageOf(v, f) ==
  IF f \in Objects THEN v \in DOMAIN heap /\ heap[v].of = f
  ELSE v = IF f \in Handles THEN handles[f].value ELSE f

\* When the push of a flat object or of a tree returns, the Lua tables form the
\* same graph as the JS objects: one table per object, every field the image of
\* the object's field (comment thread.ts:171, engine.test.js:75-86, 143-161). Of
\* a tree that holds a LuaTable it is not claimed: what an earlier push has done
\* to the free list may have put another table in the slot of the LuaTable.
PushedImageIsIsomorphic ==
  root # Nil /\ (Flat \/ (Tree /\ HoldsNoHandle)) =>
    \A t \in DOMAIN heap :
      LET fields == graph[heap[t].of] IN
      /\ DOMAIN heap[t].fields = DOMAIN fields
      /\ \A k \in DOMAIN fields : IsImageOf(heap[t].fields[k], fields[k])

\* The calls still to come: fields of the objects that have no table yet, and
\* what is left of the active calls.
WorkLeft ==
  MapThenSumSet(LAMBDA o : Len(graph[o]) + 2, Objects \ {heap[t].of : t \in DOMAIN heap})
  + FoldLeft(LAMBDA n, f : n + Len(graph[f.obj]) - f.next + 2, 0, frames)
  + (IF throwing THEN 0 ELSE 1)

\* A push of any graph, cyclic ones included, copies no object twice, and so it
\* returns or throws within a number of steps that its objects and their fields
\* bound, even after a reference in options.refs has been given back (engine.test.js:75-86,
\* "receive JS object with circular references on lua should succeed").
PushMakesProgress == [][~Idle => WorkLeft' < WorkLeft]_vars

\* Pushing flat objects disturbs no wrapper at any step, and between two pushes
\* the registry holds exactly the wrappers' references: a push, whether it
\* returned or threw, gave back all of its own (the finally block,
\* thread.ts:186-191) and none of theirs.
PushReleasesItsRefs ==
  Flat =>
    /\ HandleReadsItsValue
    /\ Idle => FreeListSound /\ ValueSlots = {handles[h].ref : h \in LiveHandles}
=============================================================================
