--------------------------- MODULE UserdataRefs ---------------------------
(***************************************************************************)
(* The Lua userdata that carry JS values, and the table they point into.   *)
(* LuaThread.pushValue and the push of the 'js-function' type take a       *)
(* reference and store its index in a new userdata; Lua's collector hands  *)
(* a dead userdata to the registered __gc function, which gives the        *)
(* reference back; lua_close does so for every userdata that is left.      *)
(***************************************************************************)
EXTENDS RefTable

CONSTANTS
  Userdata,   \* heap blocks userdata can occupy; a freed block is reused
  NoObject,   \* "no JS value"
  MaxIndex,   \* bound on the indices the runs hand out
  MaxLost     \* no reference is put at risk once this many are lost per object

ASSUME NoObjectAssumption == NoObject \notin Values
ASSUME BoundsAssumption == MaxIndex \in Nat /\ MaxLost \in Nat
ASSUME UserdataAssumption == IsFiniteSet(Userdata)

VARIABLES
  userdata,   \* block -> [index, gc]: the stored index (0 when the block is
              \* free), and whether the metatable has the __gc function
  closed,     \* LuaGlobal.close was called
  held,       \* history: the JS value a live block was created for
  lost        \* history: references taken that no finalizer will give back

vars == <<tableVars, userdata, closed, held, lost>>

Free == [index |-> 0, gc |-> FALSE]

Live(u) == userdata[u].index # 0

Init ==
  /\ TableInit
  /\ userdata = [u \in Userdata |-> Free]
  /\ closed = FALSE
  /\ held = [u \in Userdata |-> NoObject]
  /\ lost = [o \in Objects |-> 0]

-----------------------------------------------------------------------------
\* getRef applied to the index stored in userdata block u (getValue, __index).
GetRef(u) ==
  IF IsBound(userdata[u].index) THEN referenceMap[userdata[u].index] ELSE NoObject

\* A value is pushed into block u.  gc is FALSE for a JsType.decorate value,
\* whose own metatable has no __gc unless the caller put one there.
PushValue(o, u, gc) ==
  /\ ~closed
  /\ ~Live(u)
  /\ gc \/ lost[o] < MaxLost
  /\ RefIndex(o) <= MaxIndex
  /\ Ref(o)
  /\ userdata' = [userdata EXCEPT ![u] = [index |-> RefIndex(o), gc |-> gc]]
  /\ held' = [held EXCEPT ![u] = o]
  /\ UNCHANGED <<closed, lost>>

\* ref(o) succeeds, then lua_newuserdata runs out of memory and unwinds past
\* the code that would have stored the index.
PushValueNoMemory(o) ==
  /\ ~closed
  /\ lost[o] < MaxLost
  /\ RefIndex(o) <= MaxIndex
  /\ Ref(o)
  /\ lost' = [lost EXCEPT ![o] = @ + 1]
  /\ UNCHANGED <<userdata, closed, held>>

\* A primitive without a Lua counterpart: ref throws half way.
PushValueThrows(v) ==
  /\ ~closed
  /\ NextIndex <= MaxIndex
  /\ RefThrows(v)
  /\ UNCHANGED <<userdata, closed, held, lost>>

FreeBlock(u) ==
  /\ userdata' = [userdata EXCEPT ![u] = Free]
  /\ held' = [held EXCEPT ![u] = NoObject]

\* The collector, at any time it finds u dead, and lua_close for every block
\* left: the __gc function gives the reference back.
Finalize(u) ==
  /\ Live(u)
  /\ userdata[u].gc
  /\ Unref(userdata[u].index)
  /\ FreeBlock(u)
  /\ UNCHANGED <<closed, lost>>

\* A block whose metatable has no __gc is swept without a callback.
Sweep(u) ==
  /\ Live(u)
  /\ ~userdata[u].gc
  /\ FreeBlock(u)
  /\ lost' = [lost EXCEPT ![held[u]] = @ + 1]
  /\ UNCHANGED <<tableVars, closed>>

Close ==
  /\ ~closed
  /\ closed' = TRUE
  /\ UNCHANGED <<tableVars, userdata, held, lost>>

Next ==
  \/ \E o \in Objects, u \in Userdata, gc \in BOOLEAN : PushValue(o, u, gc)
  \/ \E o \in Objects : PushValueNoMemory(o)
  \/ \E v \in Primitives : PushValueThrows(v)
  \/ \E u \in Userdata : Finalize(u) \/ Sweep(u)
  \/ Close

Spec == Init /\ [][Next]_vars

\* lua_close does not return before it has finalized and freed every block.
Fairness == \A u \in Userdata : WF_vars(closed /\ (Finalize(u) \/ Sweep(u)))

FairSpec == Spec /\ Fairness

-----------------------------------------------------------------------------
(***************************************************************************)
(* Properties.                                                             *)
(***************************************************************************)

\* The userdata that hold object o.
Holders(o) == {u \in Userdata : held[u] = o}

\* Type invariant of the table and of the userdata blocks.
TypeOK ==
  /\ TableTypeOK
  /\ userdata \in [Userdata -> [index : Nat, gc : BOOLEAN]]
  /\ closed \in BOOLEAN
  /\ held \in [Userdata -> Objects \cup {NoObject}]
  /\ lost \in [Objects -> Nat]

\* A live userdata block reads back, through getRef (api.ts:411-413), the very
\* object it was created for: no index is handed to a second object while a
\* userdata still stores it, whatever the order of pushes, collections and
\* failed pushes.
HolderReadsItsObject ==
  \A u \in Userdata : Live(u) => GetRef(u) = held[u]

\* refCount (api.ts:370-409) is exactly the number of userdata that hold the
\* object plus the references that were lost; an object nobody holds is out
\* of the table.
RefCountExact ==
  \A o \in Objects : RefCount(o) = Cardinality(Holders(o)) + lost[o]

\* The comment at api.ts:378 and the size + 1 rule at api.ts:379: the index of
\* the next new value is never 0, which userdata would read as a null pointer,
\* and never one that is still bound.
NextIndexIsFree == NextIndex # 0 /\ ~IsBound(NextIndex)

\* The two early returns of unref (api.ts:393-401) are never taken by a
\* finalizer: the second would give back an index whose value stays bound.
FinalizerFindsItsEntry ==
  \A u \in Userdata : Live(u) =>
    /\ IsBound(userdata[u].index)
    /\ IsTracked(referenceMap[userdata[u].index])

\* A block is live exactly while it holds an object.
LiveIffHeld == \A u \in Userdata : Live(u) <=> held[u] # NoObject

\* The inductive invariant behind the properties above: an index read from a
\* userdata can be trusted only because the counts are exact, and the counts
\* only because the map and the tracker agree on every object's index.
IInv ==
  /\ TypeOK
  /\ TableInv
  /\ LiveIffHeld
  /\ HolderReadsItsObject
  /\ RefCountExact

\* Bound and available indices never overlap and leave no gap.
IndicesPartitioned == IndexSpace

\* A step that gives an index back is the death of its last holder: a value
\* leaves the map only when its only remaining holder is finalized.
OnlyLastHolderReleases ==
  [][\A i \in DOMAIN referenceMap :
       i \notin DOMAIN referenceMap' =>
         \E u \in Userdata : Holders(referenceMap[i]) = {u} /\ ~Live(u)']_vars

\* After close (global.ts:59-75, lua_close finalizes every userdata) the only
\* values still pinned are those whose reference was lost.
CloseReleasesAll ==
  closed ~> /\ \A u \in Userdata : ~Live(u)
            /\ \A o \in DOMAIN referenceTracker : lost[o] > 0

-----------------------------------------------------------------------------
\* The abstract specification: what the table promises to the two heaps.
Pins == INSTANCE ObjectPins WITH
  Objects <- Objects,
  Primitives <- Primitives,
  Userdata <- Userdata,
  NoObject <- NoObject,
  holds <- [u \in Userdata |-> IF Live(u) THEN GetRef(u) ELSE NoObject],
  pinned <- Range(referenceMap),
  leaked <- {o \in Objects : lost[o] > 0} \cup (Range(referenceMap) \cap Primitives),
  weak <- {u \in Userdata : Live(u) /\ ~userdata[u].gc}

\* The table implements ObjectPins: an object is strongly referenced from
\* JavaScript exactly while a userdata holds it, or its reference was lost.
ImplementsPins == Pins!Spec
=============================================================================
