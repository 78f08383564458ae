----------------------------- MODULE Wrappers -----------------------------
(***************************************************************************)
(* JS wrappers of Lua values: the LuaTable proxies of src/src/table.ts and *)
(* the functions LuaThread.getFunction returns.  pointerRefs, keyed by the *)
(* value's address, makes one wrapper serve every later read of the same   *)
(* value; the registry reference of the wrapper keeps the value, and with  *)
(* it the address, from being reused.                                      *)
(***************************************************************************)
EXTENDS LuaRegistry, Functions

CONSTANT
  Functions   \* the Lua values that are functions; the others are tables

ASSUME FunctionsAssumption == Functions \subseteq LuaValues

VARIABLE
  pointerRefs   \* Lua value -> its wrapper, a JS Map keyed by lua_topointer

vars == <<registryVars, pointerRefs>>

Init == RegistryInit /\ pointerRefs = <<>>

-----------------------------------------------------------------------------
IsCached(v) == v \in DOMAIN pointerRefs

Uncached(v) == Restrict(pointerRefs, DOMAIN pointerRefs \ {v})

\* getTable or getFunction of a value without a wrapper.
Wrap(h, v) ==
  /\ ~IsCached(v)
  /\ Hold(h, v)
  /\ pointerRefs' = [x \in DOMAIN pointerRefs \cup {v} |-> IF x = v THEN h ELSE pointerRefs[x]]

\* Mutant of RefetchFunction: getTable, too, takes a reference before it looks.
RefetchAny(v) ==
  /\ IsCached(v)
  /\ \E r \in RefChoices(registry) : registry' = LuaLRef(registry, v, r)
  /\ UNCHANGED <<handles, pointerRefs>>

\* getFunction of a function that has a wrapper takes a reference before it
\* looks, and returns the wrapper.  (getTable looks first: nothing changes.)
RefetchFunction(v) ==
  /\ v \in Functions
  /\ IsCached(v)
  /\ \E r \in RefChoices(registry) : registry' = LuaLRef(registry, v, r)
  /\ UNCHANGED <<handles, pointerRefs>>

\* Mutant of Destroy: the cached wrapper survives its destruction.
DestroyKeepsCache(h) ==
  /\ Drop(h)
  /\ UNCHANGED pointerRefs

\* $destroy of a live wrapper, once.  (The proxy of a destroyed LuaTable throws
\* on any access; that a function is not destroyed twice is up to the caller.)
Destroy(h) ==
  /\ Drop(h)
  /\ pointerRefs' = Uncached(handles[h].value)

Next ==
  \/ \E h \in Handles : Destroy(h) \/ \E v \in LuaValues : Wrap(h, v)
  \/ \E v \in LuaValues : RefetchFunction(v)

Spec == Init /\ [][Next]_vars

-----------------------------------------------------------------------------
(***************************************************************************)
(* Properties.                                                             *)
(***************************************************************************)
\* Type invariant: pointerRefs leads from values to wrappers (api.ts:161).
WrappersTypeOK ==
  /\ RegistryTypeOK
  /\ pointerRefs \in [DOMAIN pointerRefs -> Handles]
  /\ DOMAIN pointerRefs \subseteq LuaValues

\* Reading the same Lua value twice gives the same JS wrapper, until it is
\* destroyed: pointerRefs (table.ts:115-117, thread.ts:225-227) names exactly
\* the live wrappers, each under its own value.
OneWrapperPerValue ==
  /\ DOMAIN pointerRefs = {handles[h].value : h \in LiveHandles}
  /\ \A v \in DOMAIN pointerRefs : handles[pointerRefs[v]].value = v
  /\ \A h, k \in LiveHandles : handles[h].value = handles[k].value => h = k

\* A table is kept in the registry only for a live wrapper, which can give it
\* back: getTable looks for a wrapper before it takes a reference
\* (table.ts:113-119).
TablesAnchoredByWrappers ==
  \A s \in ValueSlots :
    registry[s] \notin Functions => \E h \in LiveHandles : handles[h].ref = s
=============================================================================
