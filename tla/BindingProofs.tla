--------------------------- MODULE BindingProofs ---------------------------
(***************************************************************************)
(* Safety of the two bindings that cross the border by reference: Lua      *)
(* values wrapped in JS (Wrappers), for every set of values and handles    *)
(* and any number of registry slots, and JS functions in Lua               *)
(* (FuncBinding), for every set of targets and addresses.  The two share   *)
(* no state; each part has an invariant of its own.                        *)
(***************************************************************************)
EXTENDS Wrappers, FuncBinding, LuaRegistryProofs

(***************************************************************************)
(* Part 1: wrappers of Lua values.                                         *)
(***************************************************************************)
IInv ==
  /\ WrappersTypeOK
  /\ FreeListIsList
  /\ HandlesHold
  /\ HandleReadsItsValue
  /\ OneWrapperPerValue
  /\ TablesAnchoredByWrappers

-----------------------------------------------------------------------------
LEMMA InitIInv == Init => IInv
<1> SUFFICES ASSUME Init PROVE IInv
  OBVIOUS
<1> USE DEF Init, RegistryInit
<1>1. LiveHandles = {} /\ DOMAIN pointerRefs = {}
  BY DEF LiveHandles
<1>2. WrappersTypeOK
  BY MaxRefAssumption, <1>1 DEF WrappersTypeOK, RegistryTypeOK, NoHandle, Slots
<1>3. FreeList({}, [s \in Slots |-> 0])
  BY FreshRegistry
<1>4. TablesAnchoredByWrappers
  BY NilAssumption DEF TablesAnchoredByWrappers, ValueSlots
<1>5. OneWrapperPerValue
  BY <1>1 DEF OneWrapperPerValue
<1> QED
  BY <1>1, <1>2, <1>3, <1>4, <1>5 DEF IInv, FreeListIsList, HandlesHold, HandleReadsItsValue

LEMMA WrapStep ==
  ASSUME IInv, NEW h \in Handles, NEW v \in LuaValues, Wrap(h, v)
  PROVE  IInv'
<1> USE DEF IInv, WrappersTypeOK
<1>1. PICK r \in RefChoices(registry) :
        /\ registry' = LuaLRef(registry, v, r)
        /\ handles' = [handles EXCEPT ![h] = [ref |-> r, value |-> v]]
  BY DEF Wrap, Hold
<1>2. /\ r \in Slots \ {0}
      /\ registry[r] \notin LuaValues
      /\ registry' \in [Slots -> Nat \cup LuaValues \cup {Nil}]
      /\ registry'[r] = v
      /\ \A s \in Slots \ {0, r} : registry'[s] = registry[s]
      /\ FreeListIsList'
  BY <1>1, RefEffect
<1>3. /\ handles[h] = NoHandle
      /\ handles' \in [Handles -> [ref : Slots, value : LuaValues \cup {Nil}]]
      /\ handles'[h] = [ref |-> r, value |-> v]
      /\ \A k \in Handles \ {h} : handles'[k] = handles[k]
  BY <1>1, <1>2 DEF Wrap, Hold, RegistryTypeOK
<1>4. LiveHandles' = LiveHandles \cup {h} /\ h \notin LiveHandles
  BY <1>2, <1>3 DEF LiveHandles, NoHandle
<1>5. /\ DOMAIN pointerRefs' = DOMAIN pointerRefs \cup {v}
      /\ v \notin DOMAIN pointerRefs
      /\ pointerRefs'[v] = h
      /\ \A x \in DOMAIN pointerRefs : pointerRefs'[x] = pointerRefs[x]
      /\ pointerRefs' \in [DOMAIN pointerRefs' -> Handles]
  BY DEF Wrap, IsCached
<1>6. \A k \in LiveHandles : handles[k].ref # r /\ handles[k].ref \in Slots \ {0}
  BY <1>2 DEF HandleReadsItsValue, HandlesHold
<1>7. WrappersTypeOK'
  BY <1>2, <1>3, <1>5 DEF RegistryTypeOK, Slots
<1>8. HandlesHold'
  BY <1>2, <1>3, <1>4 DEF HandlesHold, Slots, LiveHandles
<1>9. HandleReadsItsValue'
  BY <1>2, <1>3, <1>4, <1>6 DEF HandleReadsItsValue, LiveHandles
<1>10. OneWrapperPerValue'
  <2>1. \A k \in LiveHandles : handles'[k] = handles[k] /\ handles[k].value \in DOMAIN pointerRefs
    BY <1>3, <1>4 DEF OneWrapperPerValue, LiveHandles
  <2>2. DOMAIN pointerRefs' = {handles'[k].value : k \in LiveHandles'}
    BY <2>1, <1>3, <1>4, <1>5 DEF OneWrapperPerValue
  <2>3. \A x \in DOMAIN pointerRefs : pointerRefs[x] \in Handles \ {h}
    BY <1>3, NilAssumption DEF OneWrapperPerValue, NoHandle
  <2>4. \A x \in DOMAIN pointerRefs' : handles'[pointerRefs'[x]].value = x
    BY <2>3, <1>3, <1>5 DEF OneWrapperPerValue
  <2>5. \A j, k \in LiveHandles' : handles'[j].value = handles'[k].value => j = k
    BY <2>1, <1>3, <1>4, <1>5 DEF OneWrapperPerValue
  <2> QED
    BY <2>2, <2>4, <2>5 DEF OneWrapperPerValue
<1>11. TablesAnchoredByWrappers'
  <2> SUFFICES ASSUME NEW s \in Slots \ {0}, registry'[s] \in LuaValues, registry'[s] \notin Functions
               PROVE  \E k \in LiveHandles' : handles'[k].ref = s
    BY DEF TablesAnchoredByWrappers, ValueSlots, Slots
  <2>1. CASE s = r
    BY <2>1, <1>3, <1>4
  <2>2. CASE s # r
    <3>1. PICK k \in LiveHandles : handles[k].ref = s
      BY <2>2, <1>2 DEF TablesAnchoredByWrappers, ValueSlots
    <3> QED
      BY <3>1, <1>3, <1>4 DEF LiveHandles
  <2> QED
    BY <2>1, <2>2
<1> QED
  BY <1>2, <1>7, <1>8, <1>9, <1>10, <1>11

LEMMA RefetchStep ==
  ASSUME IInv, NEW v \in LuaValues, RefetchFunction(v)
  PROVE  IInv'
<1> USE DEF IInv, WrappersTypeOK
<1>1. PICK r \in RefChoices(registry) : registry' = LuaLRef(registry, v, r)
  BY DEF RefetchFunction
<1>2. v \in Functions /\ handles' = handles /\ pointerRefs' = pointerRefs
  BY DEF RefetchFunction
<1>3. /\ r \in Slots \ {0}
      /\ registry[r] \notin LuaValues
      /\ registry' \in [Slots -> Nat \cup LuaValues \cup {Nil}]
      /\ registry'[r] = v
      /\ \A s \in Slots \ {0, r} : registry'[s] = registry[s]
      /\ FreeListIsList'
  BY <1>1, RefEffect
<1>4. LiveHandles' = LiveHandles
  BY <1>2 DEF LiveHandles
<1>5. \A k \in LiveHandles : handles[k].ref \in Slots \ {0, r}
  BY <1>3 DEF HandleReadsItsValue, HandlesHold
<1>6. WrappersTypeOK' /\ HandlesHold' /\ OneWrapperPerValue'
  BY <1>2, <1>3, <1>4 DEF RegistryTypeOK, HandlesHold, OneWrapperPerValue, Slots
<1>7. HandleReadsItsValue'
  BY <1>2, <1>3, <1>4, <1>5 DEF HandleReadsItsValue
<1>8. TablesAnchoredByWrappers'
  BY <1>2, <1>3, <1>4 DEF TablesAnchoredByWrappers, ValueSlots, Slots
<1> QED
  BY <1>3, <1>6, <1>7, <1>8

LEMMA DestroyStep ==
  ASSUME IInv, NEW h \in Handles, Destroy(h)
  PROVE  IInv'
<1> USE DEF IInv, WrappersTypeOK
<1> DEFINE r == handles[h].ref
           v == handles[h].value
<1>1. /\ h \in LiveHandles
      /\ registry' = LuaLUnref(registry, r)
      /\ handles' = [handles EXCEPT ![h] = NoHandle]
  BY DEF Destroy, Drop, LiveHandles
<1>2. r \in Slots \ {0} /\ v \in LuaValues /\ registry[r] = v
  BY <1>1 DEF HandlesHold, HandleReadsItsValue
<1>3. /\ registry' \in [Slots -> Nat \cup LuaValues \cup {Nil}]
      /\ registry'[r] \notin LuaValues
      /\ \A s \in Slots \ {0, r} : registry'[s] = registry[s]
      /\ FreeListIsList'
  BY <1>1, <1>2, UnrefEffect
<1>4. /\ handles' \in [Handles -> [ref : Slots, value : LuaValues \cup {Nil}]]
      /\ handles'[h] = NoHandle
      /\ \A k \in Handles \ {h} : handles'[k] = handles[k]
  BY <1>1, MaxRefAssumption DEF RegistryTypeOK, NoHandle, Slots
<1>5. LiveHandles' = LiveHandles \ {h}
  BY <1>4 DEF LiveHandles
<1>6. /\ DOMAIN pointerRefs' = DOMAIN pointerRefs \ {v}
      /\ \A x \in DOMAIN pointerRefs \ {v} : pointerRefs'[x] = pointerRefs[x]
      /\ pointerRefs' \in [DOMAIN pointerRefs' -> Handles]
  BY DEF Destroy, Uncached, Restrict
<1>7. WrappersTypeOK'
  BY <1>3, <1>4, <1>6 DEF RegistryTypeOK, Slots
<1>8. HandlesHold'
  BY <1>4, <1>5 DEF HandlesHold, Slots, LiveHandles
<1>9. \A k \in LiveHandles \ {h} : handles[k].ref \in Slots \ {0, r}
  BY <1>1 DEF HandleReadsItsValue, HandlesHold
<1>10. HandleReadsItsValue'
  BY <1>3, <1>4, <1>5, <1>9 DEF HandleReadsItsValue, LiveHandles
<1>11. OneWrapperPerValue'
  <2>1. \A k \in LiveHandles \ {h} : handles[k].value # v /\ handles'[k] = handles[k]
    BY <1>1, <1>4 DEF OneWrapperPerValue, LiveHandles
  <2>2. DOMAIN pointerRefs' = {handles'[k].value : k \in LiveHandles'}
    BY <2>1, <1>5, <1>6 DEF OneWrapperPerValue
  <2>3. \A x \in DOMAIN pointerRefs' : handles'[pointerRefs'[x]].value = x
    BY <1>4, <1>6 DEF OneWrapperPerValue
  <2>4. \A j, k \in LiveHandles' : handles'[j].value = handles'[k].value => j = k
    BY <2>1, <1>5 DEF OneWrapperPerValue
  <2> QED
    BY <2>2, <2>3, <2>4 DEF OneWrapperPerValue
<1>12. TablesAnchoredByWrappers'
  <2> SUFFICES ASSUME NEW s \in Slots \ {0}, registry'[s] \in LuaValues, registry'[s] \notin Functions
               PROVE  \E k \in LiveHandles' : handles'[k].ref = s
    BY DEF TablesAnchoredByWrappers, ValueSlots, Slots
  <2>1. s # r /\ registry[s] = registry'[s]
    BY <1>3
  <2>2. PICK k \in LiveHandles : handles[k].ref = s
    BY <2>1 DEF TablesAnchoredByWrappers, ValueSlots
  <2>3. k # h
    BY <2>1, <2>2
  <2> QED
    BY <2>2, <2>3, <1>4, <1>5 DEF LiveHandles
<1> QED
  BY <1>3, <1>7, <1>8, <1>10, <1>11, <1>12

LEMMA Stutter == IInv /\ UNCHANGED vars => IInv'
<1> SUFFICES ASSUME IInv, UNCHANGED vars PROVE IInv'
  OBVIOUS
<1>1. registry' = registry /\ handles' = handles /\ pointerRefs' = pointerRefs
  BY DEF vars, registryVars
<1>2. LiveHandles' = LiveHandles /\ ValueSlots' = ValueSlots
  BY <1>1 DEF LiveHandles, ValueSlots
<1>3. FreeListIsList'
  BY <1>1, <1>2 DEF IInv, FreeListIsList, FreeList
<1>4. WrappersTypeOK'
  BY <1>1 DEF IInv, WrappersTypeOK, RegistryTypeOK
<1>5. HandlesHold' /\ HandleReadsItsValue'
  BY <1>1, <1>2 DEF IInv, HandlesHold, HandleReadsItsValue
<1>6. OneWrapperPerValue' /\ TablesAnchoredByWrappers'
  BY <1>1, <1>2 DEF IInv, OneWrapperPerValue, TablesAnchoredByWrappers
<1> QED
  BY <1>3, <1>4, <1>5, <1>6 DEF IInv

\* The inductive invariant: the free list is a list of slots without values, and
\* live wrappers, their slots and the entries of pointerRefs name one another.
THEOREM WrapperSafety == Spec => []IInv
<1>1. IInv /\ [Next]_vars => IInv'
  <2> SUFFICES ASSUME IInv, [Next]_vars PROVE IInv'
    OBVIOUS
  <2>1. ASSUME NEW h \in Handles, Destroy(h) PROVE IInv'
    BY <2>1, DestroyStep
  <2>2. ASSUME NEW h \in Handles, NEW v \in LuaValues, Wrap(h, v) PROVE IInv'
    BY <2>2, WrapStep
  <2>3. ASSUME NEW v \in LuaValues, RefetchFunction(v) PROVE IInv'
    BY <2>3, RefetchStep
  <2>4. CASE UNCHANGED vars
    BY <2>4, Stutter
  <2> QED
    BY <2>1, <2>2, <2>3, <2>4 DEF Next
<1> QED
  BY InitIInv, <1>1, PTL DEF Spec

\* For any number of wrappers, values and slots: a live wrapper reads its own value
\* back from the registry and shares its slot with no other (lauxlib.c:481-512,
\* table.ts:70, thread.ts:239).
THEOREM WrappersReadTheirValues == Spec => []HandleReadsItsValue
<1>1. IInv => HandleReadsItsValue
  BY DEF IInv
<1> QED
  BY WrapperSafety, <1>1, PTL

\* pointerRefs names exactly the live wrappers, one for each value (table.ts:115-117).
THEOREM OneWrapper == Spec => []OneWrapperPerValue
<1>1. IInv => OneWrapperPerValue
  BY DEF IInv
<1> QED
  BY WrapperSafety, <1>1, PTL

\* A table in the registry has a live wrapper that can give it back (table.ts:113-119).
THEOREM TablesAreAnchored == Spec => []TablesAnchoredByWrappers
<1>1. IInv => TablesAnchoredByWrappers
  BY DEF IInv
<1> QED
  BY WrapperSafety, <1>1, PTL

\* Nothing is lost: the free list ends, meets no slot that holds a value, and with
\* the values accounts for every slot ever used (lauxlib.c:488-498, 504-512).
THEOREM NothingIsLost == Spec => []FreeListSound
<1>1. IInv => FreeListSound
  BY FreeListIsSound DEF IInv
<1> QED
  BY WrapperSafety, <1>1, PTL

\* A slot that is handed out belongs to no live wrapper: luaL_ref, asked for a
\* reference in any reachable state, names a slot other than 0 that holds no value.
THEOREM FreshReferences ==
  Spec => [](\A r \in RefChoices(registry) : r # 0 /\ registry[r] \notin LuaValues)
<1>1. ASSUME IInv, NEW r \in RefChoices(registry)
      PROVE  r # 0 /\ registry[r] \notin LuaValues
  <2>1. PICK F, rank : FreeList(F, rank)
    BY <1>1 DEF IInv, FreeListIsList
  <2>2. CASE FreeHead(registry) # 0
    <3>1. r = registry[0] /\ r \in Nat \ {0}
      BY <1>1, <2>2 DEF RefChoices, FreeHead
    <3>2. r \in F
      BY <2>1, <3>1, NilAssumption DEF FreeList
    <3> QED
      BY <2>1, <3>1, <3>2, FreeSlotsHoldNoValue
  <2>3. CASE FreeHead(registry) = 0
    <3>1. PICK n \in Borders(registry) : r = n + 1 /\ r \in Slots
      BY <1>1, <2>3 DEF RefChoices
    <3> QED
      BY <3>1, MaxRefAssumption, NilAssumption DEF Borders, Slots
  <2> QED
    BY <2>2, <2>3
<1>2. IInv => \A r \in RefChoices(registry) : r # 0 /\ registry[r] \notin LuaValues
  BY <1>1
<1> QED
  BY WrapperSafety, <1>2, PTL

(***************************************************************************)
(* Part 2: JS functions in Lua, however pushes, drops and the phases of    *)
(* the collector interleave.                                               *)
(***************************************************************************)
\* The mark phase leaves what Lua code can reach, and the userdata a reachable
\* closure has as its upvalue: a call of the closure finds its JS function.
RootedBlocksStay ==
  \A a \in rooted :
    /\ block[a].state # "condemned"
    /\ block[a].kind = "closure" =>
         /\ block[a].up \in UdataAddrs
         /\ block[block[a].up].kind = "userdata"
         /\ block[block[a].up].target = block[a].target
         /\ block[block[a].up].state = "live"

BindIInv == FuncTypeOK /\ RootedBlocksStay /\ RedirectsAreOwned

BlockType ==
  [kind : Kinds, target : Targets \cup {NoTarget}, up : Addrs \cup {NoTarget},
   state : {"live", "condemned", "queued", "finalized"}]

-----------------------------------------------------------------------------
\* What a Map.set and a Map.delete do to a map.
LEMMA PutEffect ==
  ASSUME NEW f, NEW k, NEW v
  PROVE  /\ DOMAIN Put(f, k, v) = DOMAIN f \cup {k}
         /\ Put(f, k, v)[k] = v
         /\ \A x \in DOMAIN f \ {k} : Put(f, k, v)[x] = f[x]
BY DEF Put

LEMMA DeletedEffect ==
  ASSUME NEW f, NEW k
  PROVE  /\ DOMAIN Deleted(f, k) = DOMAIN f \ {k}
         /\ \A x \in DOMAIN f \ {k} : Deleted(f, k)[x] = f[x]
BY DEF Deleted, Restrict

LEMMA PutType ==
  ASSUME NEW K, NEW V, NEW f, f \in [DOMAIN f -> V], DOMAIN f \subseteq K, NEW k \in K, NEW v \in V
  PROVE  Put(f, k, v) \in [DOMAIN Put(f, k, v) -> V] /\ DOMAIN Put(f, k, v) \subseteq K
BY DEF Put

LEMMA DeletedType ==
  ASSUME NEW K, NEW V, NEW f, f \in [DOMAIN f -> V], DOMAIN f \subseteq K, NEW k
  PROVE  Deleted(f, k) \in [DOMAIN Deleted(f, k) -> V] /\ DOMAIN Deleted(f, k) \subseteq K
BY DEF Deleted, Restrict

LEMMA BindInitIInv == BindInit => BindIInv
BY DEF BindInit, BindIInv, FuncTypeOK, RootedBlocksStay, RedirectsAreOwned, FreeBlock, Kinds, IsFree

-----------------------------------------------------------------------------
LEMMA PushFunctionStep ==
  ASSUME BindIInv, NEW t \in Targets, NEW u \in UdataAddrs, NEW c \in ClosureAddrs, PushFunction(t, u, c)
  PROVE  BindIInv'
<1> USE DEF BindIInv, FuncTypeOK
<1>1. u \in Addrs /\ c \in Addrs /\ u # c
  BY AddrsAssumption DEF Addrs
<1>2. /\ block' \in [Addrs -> BlockType]
      /\ block'[u] = [kind |-> "userdata", target |-> t, up |-> NoTarget, state |-> "live"]
      /\ block'[c] = [kind |-> "closure", target |-> t, up |-> u, state |-> "live"]
      /\ \A a \in Addrs \ {u, c} : block'[a] = block[a]
  BY <1>1 DEF PushFunction, BlockType, Kinds
<1>3. block[u].kind = "free" /\ block[c].kind = "free"
  BY DEF PushFunction, IsFree
<1>4. /\ pointerRedirect' = Put(pointerRedirect, u, c)
      /\ indexMap' = Put(indexMap, c, t)
      /\ rooted' = rooted \cup {c}
      /\ gcstate' = gcstate
  BY DEF PushFunction
<1>5. u \notin rooted /\ c \notin rooted
  BY <1>3 DEF IsFree
<1>9. /\ DOMAIN indexMap' = DOMAIN indexMap \cup {c}
      /\ DOMAIN pointerRedirect' = DOMAIN pointerRedirect \cup {u}
      /\ pointerRedirect'[u] = c
      /\ \A x \in DOMAIN pointerRedirect \ {u} : pointerRedirect'[x] = pointerRedirect[x]
  <2>1. DOMAIN indexMap' = DOMAIN indexMap \cup {c}
    BY <1>4, PutEffect, Zenon
  <2>2. DOMAIN pointerRedirect' = DOMAIN pointerRedirect \cup {u} /\ pointerRedirect'[u] = c
    BY <1>4 DEF Put
  <2>3. \A x \in DOMAIN pointerRedirect \ {u} : pointerRedirect'[x] = pointerRedirect[x]
    BY <1>4 DEF Put
  <2> QED
    BY <2>1, <2>2, <2>3
<1>6. FuncTypeOK'
  <2>1. rooted' \subseteq {a \in Addrs : ~IsFree(a)'}
    BY <1>1, <1>2, <1>4, <1>5 DEF IsFree
  <2> QED
    BY <2>1, <1>2, <1>4, PutType DEF BlockType
<1>7. RootedBlocksStay'
  <2> SUFFICES ASSUME NEW a \in rooted' PROVE RootedBlocksStay!(a)'
    BY DEF RootedBlocksStay
  <2>1. CASE a = c
    BY <2>1, <1>2
  <2>2. CASE a \in rooted
    <3>1. block'[a] = block[a]
      BY <2>2, <1>2, <1>5
    <3>2. ASSUME block[a].kind = "closure" PROVE block'[block[a].up] = block[block[a].up]
      BY <3>2, <2>2, <1>2, <1>3 DEF RootedBlocksStay, Addrs
    <3> QED
      BY <2>2, <3>1, <3>2 DEF RootedBlocksStay
  <2> QED
    BY <2>1, <2>2, <1>4
<1>8. RedirectsAreOwned'
  <2> SUFFICES ASSUME NEW d \in DOMAIN indexMap' PROVE RedirectsAreOwned!(d)'
    BY DEF RedirectsAreOwned
  <2>1. CASE d = c
    BY <2>1, <1>2, <1>9
  <2>2. CASE d # c
    <3>1. d \in DOMAIN indexMap
      BY <2>2, <1>9
    <3>2. PICK w \in DOMAIN pointerRedirect : RedirectsAreOwned!(d)!(w)
      BY <3>1 DEF RedirectsAreOwned
    <3>3. w \notin {u, c} /\ w \in Addrs
      BY <3>2, <1>3 DEF Addrs
    <3> QED
      BY <3>2, <3>3, <1>2, <1>9
  <2> QED
    BY <2>1, <2>2
<1> QED
  BY <1>6, <1>7, <1>8

LEMMA PushObjectStep ==
  ASSUME BindIInv, NEW t \in Targets, NEW u \in UdataAddrs, PushObject(t, u)
  PROVE  BindIInv'
<1> USE DEF BindIInv, FuncTypeOK
<1>1. u \in Addrs
  BY DEF Addrs
<1>2. /\ block' \in [Addrs -> BlockType]
      /\ block'[u] = [kind |-> "object", target |-> t, up |-> NoTarget, state |-> "live"]
      /\ \A a \in Addrs \ {u} : block'[a] = block[a]
  BY <1>1 DEF PushObject, BlockType, Kinds
<1>3. block[u].kind = "free" /\ u \notin rooted
  BY DEF PushObject, IsFree
<1>4. /\ pointerRedirect' = pointerRedirect
      /\ indexMap' = indexMap
      /\ rooted' = rooted \cup {u}
      /\ gcstate' = gcstate
  BY DEF PushObject
<1>5. FuncTypeOK'
  <2>1. rooted' \subseteq {a \in Addrs : ~IsFree(a)'}
    BY <1>1, <1>2, <1>3, <1>4 DEF IsFree
  <2> QED
    BY <2>1, <1>2, <1>4 DEF BlockType
<1>6. RootedBlocksStay'
  <2> SUFFICES ASSUME NEW a \in rooted' PROVE RootedBlocksStay!(a)'
    BY DEF RootedBlocksStay
  <2>1. CASE a = u
    BY <2>1, <1>2
  <2>2. CASE a \in rooted
    <3>1. block'[a] = block[a]
      BY <2>2, <1>2, <1>3
    <3>2. ASSUME block[a].kind = "closure" PROVE block'[block[a].up] = block[block[a].up]
      BY <3>2, <2>2, <1>2, <1>3 DEF RootedBlocksStay, Addrs
    <3> QED
      BY <2>2, <3>1, <3>2 DEF RootedBlocksStay
  <2> QED
    BY <2>1, <2>2, <1>4
<1>7. RedirectsAreOwned'
  <2> SUFFICES ASSUME NEW d \in DOMAIN indexMap PROVE RedirectsAreOwned!(d)'
    BY <1>4 DEF RedirectsAreOwned
  <2>1. PICK w \in DOMAIN pointerRedirect : RedirectsAreOwned!(d)!(w)
    BY DEF RedirectsAreOwned
  <2>2. w # u /\ w \in Addrs
    BY <2>1, <1>3 DEF Addrs
  <2> QED
    BY <2>1, <2>2, <1>2, <1>4
<1> QED
  BY <1>5, <1>6, <1>7

LEMMA LetGoStep ==
  ASSUME BindIInv, NEW a \in Addrs, LetGo(a)
  PROVE  BindIInv'
BY DEF BindIInv, FuncTypeOK, LetGo, RootedBlocksStay, RedirectsAreOwned, IsFree

LEMMA AtomicStep ==
  ASSUME BindIInv, Atomic
  PROVE  BindIInv'
<1> USE DEF BindIInv, FuncTypeOK
<1>1. /\ DOMAIN block' = Addrs
      /\ \A a \in Addrs : block'[a] = [block[a] EXCEPT !.state = Phase(a)]
      /\ rooted' = rooted /\ pointerRedirect' = pointerRedirect /\ indexMap' = indexMap
      /\ gcstate' = "sweep"
  BY DEF Atomic
<1>2. \A a \in Addrs : Phase(a) \in {"live", "condemned", "queued", "finalized"}
  BY DEF Phase
<1>3. \A a \in Addrs : /\ block'[a] \in BlockType
                       /\ block'[a].kind = block[a].kind
                       /\ block'[a].target = block[a].target
                       /\ block'[a].up = block[a].up
                       /\ block'[a].state = Phase(a)
  BY <1>1, <1>2 DEF BlockType
<1>4. block' \in [Addrs -> BlockType]
  BY <1>1, <1>3 DEF Atomic
<1>5. FuncTypeOK'
  BY <1>1, <1>3, <1>4 DEF BlockType, IsFree
<1>6. RootedBlocksStay'
  <2> SUFFICES ASSUME NEW a \in rooted PROVE RootedBlocksStay!(a)'
    BY <1>1 DEF RootedBlocksStay
  <2>1. a \in Addrs /\ Phase(a) = block[a].state
    BY DEF Phase, Reachable
  <2>2. ASSUME block[a].kind = "closure"
        PROVE  block[a].up \in Addrs /\ Phase(block[a].up) = block[block[a].up].state
    BY <2>2 DEF Phase, Reachable, RootedBlocksStay, Addrs
  <2> QED
    BY <2>1, <2>2, <1>3 DEF RootedBlocksStay
<1>7. RedirectsAreOwned'
  <2> SUFFICES ASSUME NEW d \in DOMAIN indexMap PROVE RedirectsAreOwned!(d)'
    BY <1>1 DEF RedirectsAreOwned
  <2>1. PICK w \in DOMAIN pointerRedirect : RedirectsAreOwned!(d)!(w)
    BY DEF RedirectsAreOwned
  <2>2. w \in Addrs /\ Phase(w) \in {"live", "queued"}
    BY <2>1 DEF Phase, IsFree, Addrs
  <2> QED
    BY <2>1, <2>2, <1>1, <1>3
<1> QED
  BY <1>5, <1>6, <1>7

LEMMA SweepStep ==
  ASSUME BindIInv, NEW a \in Addrs, Sweep(a)
  PROVE  BindIInv'
<1> USE DEF BindIInv, FuncTypeOK
<1>1. /\ block' \in [Addrs -> BlockType]
      /\ \A b \in Addrs \ {a} : block'[b] = block[b]
      /\ block[a].state = "condemned"
      /\ rooted' = rooted /\ pointerRedirect' = pointerRedirect /\ indexMap' = indexMap
      /\ gcstate' = gcstate
  BY DEF Sweep, BlockType, FreeBlock, Kinds
<1>2. a \notin rooted
  BY <1>1 DEF RootedBlocksStay
<1>3. FuncTypeOK'
  BY <1>1, <1>2 DEF BlockType, IsFree
<1>4. RootedBlocksStay'
  BY <1>1, <1>2 DEF RootedBlocksStay, Addrs
<1>5. RedirectsAreOwned'
  <2> SUFFICES ASSUME NEW d \in DOMAIN indexMap PROVE RedirectsAreOwned!(d)'
    BY <1>1 DEF RedirectsAreOwned
  <2>1. PICK w \in DOMAIN pointerRedirect : RedirectsAreOwned!(d)!(w)
    BY DEF RedirectsAreOwned
  <2>2. w \in Addrs /\ w # a
    BY <2>1, <1>1 DEF Addrs
  <2> QED
    BY <2>1, <2>2, <1>1
<1> QED
  BY <1>3, <1>4, <1>5

LEMMA FinalizeStep ==
  ASSUME BindIInv, NEW u \in UdataAddrs, Finalize(u)
  PROVE  BindIInv'
<1> USE DEF BindIInv, FuncTypeOK
<1>1. u \in Addrs
  BY DEF Addrs
<1>2. /\ block' \in [Addrs -> BlockType]
      /\ \A a \in Addrs \ {u} : block'[a] = block[a]
      /\ block'[u].kind = block[u].kind /\ block'[u].target = block[u].target
      /\ block'[u].up = block[u].up /\ block'[u].state = "finalized"
      /\ block[u].state = "queued"
  BY <1>1 DEF Finalize, BlockType
<1>3. /\ rooted' = rooted /\ pointerRedirect' = pointerRedirect /\ gcstate' = gcstate
      /\ indexMap' = RemoveIndexRedirect(u)
  BY DEF Finalize
<1>4. FuncTypeOK'
  <2>1. indexMap' \in [DOMAIN indexMap' -> Targets] /\ DOMAIN indexMap' \subseteq ClosureAddrs
    BY <1>3, DeletedType DEF RemoveIndexRedirect
  <2>2. rooted' \subseteq {a \in Addrs : ~IsFree(a)'}
    BY <1>2, <1>3 DEF IsFree
  <2> QED
    BY <2>1, <2>2, <1>2, <1>3 DEF BlockType
<1>5. RootedBlocksStay'
  <2> SUFFICES ASSUME NEW a \in rooted PROVE RootedBlocksStay!(a)'
    BY <1>3 DEF RootedBlocksStay
  <2>1. block'[a].kind = block[a].kind /\ block'[a].up = block[a].up /\ block'[a].target = block[a].target
    BY <1>2
  <2>2. block'[a].state # "condemned"
    BY <1>2 DEF RootedBlocksStay
  <2>3. ASSUME block[a].kind = "closure" PROVE block'[block[a].up] = block[block[a].up]
    BY <2>3, <1>2 DEF RootedBlocksStay, Addrs
  <2> QED
    BY <2>1, <2>2, <2>3 DEF RootedBlocksStay
<1>6. RedirectsAreOwned'
  <2> SUFFICES ASSUME NEW d \in DOMAIN indexMap' PROVE RedirectsAreOwned!(d)'
    BY DEF RedirectsAreOwned
  <2>1. d \in DOMAIN indexMap /\ (u \in DOMAIN pointerRedirect => d # pointerRedirect[u])
    <3>1. CASE u \in DOMAIN pointerRedirect
      <4>1. indexMap' = Deleted(indexMap, pointerRedirect[u])
        BY <3>1, <1>3 DEF RemoveIndexRedirect
      <4>2. DOMAIN indexMap' = DOMAIN indexMap \ {pointerRedirect[u]}
        BY <4>1, DeletedEffect, Zenon
      <4> QED
        BY <4>2
    <3>2. CASE u \notin DOMAIN pointerRedirect
      BY <3>2, <1>3 DEF RemoveIndexRedirect
    <3> QED
      BY <3>1, <3>2
  <2>2. PICK w \in DOMAIN pointerRedirect : RedirectsAreOwned!(d)!(w)
    BY <2>1 DEF RedirectsAreOwned
  <2>3. w \in Addrs /\ w # u
    BY <2>1, <2>2 DEF Addrs
  <2> QED
    BY <2>2, <2>3, <1>2, <1>3
<1> QED
  BY <1>4, <1>5, <1>6

\* SweepEnds, FinalizeEnds and stuttering change the phase of the collector at most.
LEMMA PhaseStep ==
  ASSUME BindIInv, SweepEnds \/ FinalizeEnds \/ UNCHANGED bindVars
  PROVE  BindIInv'
BY DEF BindIInv, FuncTypeOK, RootedBlocksStay, RedirectsAreOwned, IsFree, SweepEnds, FinalizeEnds, bindVars

\* The inductive invariant of pushes, drops and the collector's phases.
THEOREM BindingSafety == BindSpec => []BindIInv
<1>1. BindIInv /\ [BindNext]_bindVars => BindIInv'
  <2> SUFFICES ASSUME BindIInv, [BindNext]_bindVars PROVE BindIInv'
    OBVIOUS
  <2>1. ASSUME NEW t \in Targets, NEW u \in UdataAddrs, NEW c \in ClosureAddrs, PushFunction(t, u, c)
        PROVE  BindIInv'
    BY <2>1, PushFunctionStep
  <2>2. ASSUME NEW t \in Targets, NEW u \in UdataAddrs, PushObject(t, u) PROVE BindIInv'
    BY <2>2, PushObjectStep
  <2>3. ASSUME NEW a \in Addrs, LetGo(a) PROVE BindIInv'
    BY <2>3, LetGoStep
  <2>4. ASSUME NEW a \in Addrs, Sweep(a) PROVE BindIInv'
    BY <2>4, SweepStep
  <2>5. ASSUME NEW u \in UdataAddrs, Finalize(u) PROVE BindIInv'
    BY <2>5, FinalizeStep
  <2>6. CASE Atomic
    BY <2>6, AtomicStep
  <2>7. CASE SweepEnds \/ FinalizeEnds \/ UNCHANGED bindVars
    BY <2>7, PhaseStep
  <2> QED
    BY <2>1, <2>2, <2>3, <2>4, <2>5, <2>6, <2>7 DEF BindNext
<1> QED
  BY BindInitIInv, <1>1, PTL DEF BindSpec

\* Every entry of indexMap has a userdata whose finalizer is still to run and will
\* delete it (func-manager.ts:36-39), also when addresses are used again.
THEOREM RedirectsHaveOwners == BindSpec => []RedirectsAreOwned
<1>1. BindIInv => RedirectsAreOwned
  BY DEF BindIInv
<1> QED
  BY BindingSafety, <1>1, PTL

\* The collector takes neither a closure Lua code can reach nor the userdata that
\* is its upvalue, from which a call reads the JS function (lua.ts:170-182).
THEOREM ReachableClosuresStay == BindSpec => []RootedBlocksStay
<1>1. BindIInv => RootedBlocksStay
  BY DEF BindIInv
<1> QED
  BY BindingSafety, <1>1, PTL
=============================================================================
