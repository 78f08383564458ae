---------------------------- MODULE LuaRegistry ----------------------------
(***************************************************************************)
(* Integer references in Lua's registry: luaL_ref and luaL_unref           *)
(* (src/lua/src/lauxlib.c), and the JS wrappers of Lua values that hold    *)
(* such references for as long as they live (src/src/table.ts,             *)
(* LuaThread.getFunction).  Slot 0 heads a linked list of freed slots,     *)
(* threaded through the slots themselves.                                  *)
(***************************************************************************)
EXTENDS Naturals, FiniteSets

CONSTANTS
  LuaValues,  \* Lua tables and functions that get referenced
  Handles,    \* JS wrappers
  Nil,        \* Lua's nil
  MaxRef      \* bound on the slots the runs use

ASSUME MaxRefAssumption == MaxRef \in Nat
ASSUME NilAssumption == Nil \notin LuaValues /\ Nil \notin Nat
ASSUME ValuesAreNotNumbers == LuaValues \cap Nat = {}

VARIABLES
  registry,   \* slot -> a Lua value, a number (free list) or Nil
  handles     \* wrapper -> [ref, value]; ref is 0 while there is no wrapper

registryVars == <<registry, handles>>

Slots == 0 .. MaxRef

NoHandle == [ref |-> 0, value |-> Nil]

RegistryInit ==
  /\ registry = [s \in Slots |-> Nil]
  /\ handles = [h \in Handles |-> NoHandle]

-----------------------------------------------------------------------------
\* lua_tointeger of slot 0: anything that is not a number counts as 0.
FreeHead(t) == IF t[0] \in Nat THEN t[0] ELSE 0

\* What lua_objlen may answer: any n with t[n] present and t[n + 1] nil.
Borders(t) ==
  {n \in Slots : /\ n = 0 \/ t[n] # Nil
                 /\ n = MaxRef \/ t[n + 1] = Nil}

\* The slots luaL_ref may choose.
RefChoices(t) ==
  IF FreeHead(t) # 0 THEN {FreeHead(t)} ELSE {n + 1 : n \in Borders(t)} \cap Slots

\* Mutant of LuaLRef: the head of the list is read but not advanced.
LuaLRefKeepsHead(t, v, r) == [t EXCEPT ![r] = v]

\* luaL_ref stores v in the chosen slot r and unlinks r if it was free.
LuaLRef(t, v, r) ==
  IF FreeHead(t) # 0 THEN [t EXCEPT ![0] = t[r], ![r] = v] ELSE [t EXCEPT ![r] = v]

\* luaL_unref links slot r in front of the list.
LuaLUnref(t, r) == [t EXCEPT ![r] = t[0], ![0] = r]

-----------------------------------------------------------------------------

\* A wrapper is made for v: pushvalue, luaL_ref.
Hold(h, v) ==
  /\ handles[h] = NoHandle
  /\ \E r \in RefChoices(registry) :
       /\ registry' = LuaLRef(registry, v, r)
       /\ handles' = [handles EXCEPT ![h] = [ref |-> r, value |-> v]]

\* $destroy of the wrapper, once: luaL_unref, and the wrapper is dead.
Drop(h) ==
  /\ handles[h] # NoHandle
  /\ registry' = LuaLUnref(registry, handles[h].ref)
  /\ handles' = [handles EXCEPT ![h] = NoHandle]

-----------------------------------------------------------------------------
(***************************************************************************)
(* Properties.                                                             *)
(***************************************************************************)
\* Type invariant: a slot holds a value, a link of the free list or nil, and a
\* wrapper an integer reference (luaL_ref returns no other, lauxlib.c:481-501).
RegistryTypeOK ==
  /\ registry \in [Slots -> Nat \cup LuaValues \cup {Nil}]
  /\ handles \in [Handles -> [ref : Slots, value : LuaValues \cup {Nil}]]

LiveHandles == {h \in Handles : handles[h] # NoHandle}

\* Every live wrapper finds its own value in the registry (table.ts:70 and
\* thread.ts:239 read it back with lua_rawgeti), and no two wrappers share a
\* slot: the manual's "a reference is a unique integer key".
HandleReadsItsValue ==
  \A h \in LiveHandles :
    /\ registry[handles[h].ref] = handles[h].value
    /\ \A k \in LiveHandles \ {h} : handles[k].ref # handles[h].ref

\* The slots met when the free list is followed n links from its head.
Chain[n \in Nat] ==
  IF n = 0 THEN FreeHead(registry)
  ELSE IF Chain[n - 1] = 0 THEN 0
  ELSE IF registry[Chain[n - 1]] \in Nat THEN registry[Chain[n - 1]] ELSE 0

FreeSlots == {Chain[n] : n \in 0 .. MaxRef} \ {0}

ValueSlots == {s \in Slots \ {0} : registry[s] \in LuaValues}

\* The free list ends, meets no slot that holds a value, and together with the
\* values accounts for every slot that was ever used: nothing is lost and
\* nothing is handed out twice (lauxlib.c:488-498, 504-512).
FreeListSound ==
  /\ Chain[MaxRef] = 0
  /\ FreeSlots \cap ValueSlots = {}
  /\ \E n \in Slots : FreeSlots \cup ValueSlots = 1 .. n

=============================================================================
