-------------------------- MODULE LuaRegistryProofs --------------------------
(***************************************************************************)
(* Lemmas about the integer references of lauxlib.c, for any number of     *)
(* slots.  The heart of them is the free list: a list threaded through the *)
(* slots is well formed when every slot on it has a rank, its distance     *)
(* from the end.                                                           *)
(***************************************************************************)
EXTENDS LuaRegistry, FiniteSetTheorems, WellFoundedInduction, TLAPS

\* F is the set of the free slots and rank[s] the number of links from s to the
\* end of the list.  The head, slot 0, comes before all of them.
FreeList(F, rank) ==
  /\ F \subseteq Slots \ {0}
  /\ rank \in [Slots -> Nat]
  /\ \A s \in F \cup {0} : \/ rank[s] = 0 /\ registry[s] = Nil
                           \/ registry[s] \in F /\ rank[s] = rank[registry[s]] + 1
  /\ \A s \in F : rank[s] < rank[0]
  /\ \A s, p \in F : rank[s] = rank[p] => s = p
  /\ \A s \in Slots \ {0} : registry[s] \in Nat => s \in F
  /\ \E n \in Slots : F \cup ValueSlots = 1 .. n

\* luaL_ref and luaL_unref keep the list of the freed slots a list.
FreeListIsList == \E F, rank : FreeList(F, rank)

\* A live wrapper has a value and a slot; no slot but 0 has both uses.
HandlesHold ==
  \A h \in LiveHandles : handles[h].ref \in Slots \ {0} /\ handles[h].value \in LuaValues

-----------------------------------------------------------------------------
LEMMA SlotsAreNumbers == 0 \in Slots /\ Slots \subseteq Nat
BY MaxRefAssumption DEF Slots

\* To begin with no slot is free and none is used.
LEMMA FreshRegistry ==
  ASSUME registry = [s \in Slots |-> Nil]
  PROVE  FreeList({}, [s \in Slots |-> 0]) /\ FreeListIsList
<1>1. ValueSlots = 1 .. 0
  BY NilAssumption DEF ValueSlots
<1>2. FreeList({}, [s \in Slots |-> 0])
  BY <1>1, MaxRefAssumption, NilAssumption DEF FreeList, Slots
<1> QED
  BY <1>2 DEF FreeListIsList

\* A free slot never holds a value: what is handed out next is in nobody's use.
LEMMA FreeSlotsHoldNoValue ==
  ASSUME NEW F, NEW rank, FreeList(F, rank), NEW s \in F \cup {0}
  PROVE  registry[s] \notin LuaValues
<1>1. F \subseteq Nat
  BY SlotsAreNumbers DEF FreeList
<1>2. registry[s] = Nil \/ registry[s] \in F
  BY DEF FreeList
<1> QED
  BY <1>1, <1>2, NilAssumption, ValuesAreNotNumbers

\* When the list is empty no slot but 0 can hold a link.
LEMMA EmptyListHasNoSlots ==
  ASSUME NEW F, NEW rank, FreeList(F, rank), FreeHead(registry) = 0
  PROVE  F = {} /\ registry[0] = Nil
<1>1. registry[0] \notin F
  <2>1. F \subseteq Nat \ {0}
    BY SlotsAreNumbers DEF FreeList
  <2> QED
    BY <2>1 DEF FreeHead
<1>2. rank[0] = 0 /\ registry[0] = Nil
  BY <1>1 DEF FreeList
<1>3. \A s \in F : FALSE
  BY <1>2 DEF FreeList, Slots
<1> QED
  BY <1>2, <1>3

\* luaL_ref of a value: it chooses a slot other than 0 that holds no value, and
\* changes no other slot but 0; the free list remains one.
LEMMA RefEffect ==
  ASSUME RegistryTypeOK, FreeListIsList,
         NEW v \in LuaValues, NEW r \in RefChoices(registry),
         registry' = LuaLRef(registry, v, r)
  PROVE  /\ r \in Slots \ {0}
         /\ registry[r] \notin LuaValues
         /\ registry' \in [Slots -> Nat \cup LuaValues \cup {Nil}]
         /\ registry'[r] = v
         /\ \A s \in Slots \ {0, r} : registry'[s] = registry[s]
         /\ registry'[0] \notin LuaValues
         /\ FreeListIsList'
<1> PICK F, rank : FreeList(F, rank)
  BY DEF FreeListIsList
<1>0. 0 \in Slots /\ Slots \subseteq Nat /\ v \notin Nat /\ v # Nil
  BY MaxRefAssumption, ValuesAreNotNumbers, NilAssumption DEF Slots
<1>1. CASE FreeHead(registry) # 0
  <2>1. r = registry[0] /\ r \in Nat \ {0}
    BY <1>1 DEF RefChoices, FreeHead
  <2>2. r \in F /\ rank[0] = rank[r] + 1
    BY <2>1, NilAssumption DEF FreeList
  <2>3. r \in Slots \ {0} /\ registry[r] \notin LuaValues
    BY <2>2, FreeSlotsHoldNoValue DEF FreeList
  <2>4. registry' = [registry EXCEPT ![0] = registry[r], ![r] = v]
    BY <1>1 DEF LuaLRef
  <2>5. /\ registry' \in [Slots -> Nat \cup LuaValues \cup {Nil}]
        /\ registry'[r] = v
        /\ registry'[0] = registry[r]
        /\ \A s \in Slots \ {0, r} : registry'[s] = registry[s]
    BY <2>3, <2>4, <1>0 DEF RegistryTypeOK
  <2> DEFINE G == F \ {r}
             rankG == [rank EXCEPT ![0] = rank[r]]
  <2>6. /\ rankG \in [Slots -> Nat]
        /\ rankG[0] = rank[r]
        /\ \A s \in F : rankG[s] = rank[s]
    BY <2>3, <1>0 DEF FreeList
  <2>7. \A s \in G : rank[s] < rank[r]
    BY <2>2, <1>0 DEF FreeList
  <2>8. \A s \in F : registry[s] # r
    <3> SUFFICES ASSUME NEW s \in F, registry[s] = r PROVE FALSE
      OBVIOUS
    <3>1. rank[s] = rank[r] + 1 \/ r = Nil
      BY DEF FreeList
    <3>2. rank[s] < rank[0] /\ r # Nil
      BY <2>1, NilAssumption DEF FreeList
    <3>3. rank[s] \in Nat /\ rank[r] \in Nat
      BY <2>2 DEF FreeList
    <3> QED
      BY <2>2, <3>1, <3>2, <3>3
  <2>9. \A s \in G \cup {0} : \/ rankG[s] = 0 /\ registry'[s] = Nil
                              \/ registry'[s] \in G /\ rankG[s] = rankG[registry'[s]] + 1
    <3>1. CASE registry[r] = Nil /\ rank[r] = 0
      <4>1. rankG[0] = 0 /\ registry'[0] = Nil
        BY <2>5, <2>6, <3>1
      <4>2. \A s \in G : /\ rankG[s] = rank[s]
                         /\ registry'[s] = registry[s]
        BY <2>5, <2>6 DEF FreeList
      <4>3. \A s \in G : \/ rank[s] = 0 /\ registry[s] = Nil
                         \/ registry[s] \in G /\ rank[s] = rankG[registry[s]] + 1
        BY <2>6, <2>8 DEF FreeList
      <4> QED
        BY <4>1, <4>2, <4>3
    <3>2. CASE registry[r] \in F /\ rank[r] = rank[registry[r]] + 1
      <4>1. registry'[0] \in G /\ rankG[0] = rankG[registry'[0]] + 1
        BY <2>2, <2>5, <2>6, <2>8, <3>2
      <4>2. \A s \in G : /\ rankG[s] = rank[s]
                         /\ registry'[s] = registry[s]
        BY <2>5, <2>6 DEF FreeList
      <4>3. \A s \in G : \/ rank[s] = 0 /\ registry[s] = Nil
                         \/ registry[s] \in G /\ rank[s] = rankG[registry[s]] + 1
        BY <2>6, <2>8 DEF FreeList
      <4> QED
        BY <4>1, <4>2, <4>3
    <3> QED
      BY <2>2, <3>1, <3>2 DEF FreeList
  <2>10. \A s \in Slots \ {0} : registry'[s] \in Nat => s \in G
    BY <2>5, <1>0 DEF FreeList
  <2>11. G \cup ValueSlots' = F \cup ValueSlots
    <3>1. ValueSlots' = ValueSlots \cup {r}
      BY <2>3, <2>5 DEF ValueSlots, Slots
    <3> QED
      BY <2>2, <3>1
  <2>12. FreeList(G, rankG)'
    BY <2>6, <2>7, <2>9, <2>10, <2>11 DEF FreeList, Slots
  <2>13. registry'[0] \notin LuaValues
    BY <2>3, <2>5
  <2> QED
    BY <2>3, <2>5, <2>12, <2>13 DEF FreeListIsList
<1>2. CASE FreeHead(registry) = 0
  <2>1. F = {} /\ registry[0] = Nil
    BY <1>2, EmptyListHasNoSlots
  <2>2. PICK n \in Slots : ValueSlots = 1 .. n
    BY <2>1 DEF FreeList
  <2>3. r \in Slots \ {0} /\ registry[r] = Nil /\ r = n + 1
    <3>1. PICK m \in Borders(registry) : r = m + 1 /\ r \in Slots
      BY <1>2 DEF RefChoices
    <3>2. m \in Slots /\ registry[m + 1] = Nil /\ (m = 0 \/ registry[m] # Nil)
      BY <3>1, MaxRefAssumption DEF Borders, Slots
    <3>3. \A s \in Slots \ {0} : s <= n => registry[s] \in LuaValues
      BY <2>2, MaxRefAssumption DEF ValueSlots, Slots
    <3>4. \A s \in Slots \ {0} : registry[s] # Nil => s <= n
      BY <2>1, <2>2, MaxRefAssumption DEF FreeList, RegistryTypeOK, ValueSlots, Slots
    <3>5. m <= n
      BY <3>2, <3>4, MaxRefAssumption DEF Slots
    <3>6. ~ m + 1 <= n
      BY <3>1, <3>2, <3>3, NilAssumption, MaxRefAssumption DEF Slots
    <3> QED
      BY <3>1, <3>2, <3>5, <3>6, MaxRefAssumption DEF Slots
  <2>4. registry' = [registry EXCEPT ![r] = v]
    BY <1>2 DEF LuaLRef
  <2>5. /\ registry' \in [Slots -> Nat \cup LuaValues \cup {Nil}]
        /\ registry'[r] = v
        /\ registry'[0] = Nil
        /\ \A s \in Slots \ {0, r} : registry'[s] = registry[s]
    BY <2>1, <2>3, <2>4, <1>0 DEF RegistryTypeOK
  <2>6. ValueSlots' = ValueSlots \cup {r}
    BY <2>3, <2>5 DEF ValueSlots, Slots
  <2>7. ValueSlots' = 1 .. r
    BY <2>2, <2>3, <2>6, MaxRefAssumption DEF Slots
  <2>8. FreeList({}, rank)'
    BY <2>1, <2>3, <2>5, <2>7, <1>0, EmptyListHasNoSlots, <1>2 DEF FreeList
  <2> QED
    BY <2>3, <2>5, <2>8, NilAssumption DEF FreeListIsList
<1> QED
  BY <1>1, <1>2

\* luaL_unref of a slot that holds a value: the slot joins the list in front.
LEMMA UnrefEffect ==
  ASSUME RegistryTypeOK, FreeListIsList,
         NEW r \in Slots \ {0}, registry[r] \in LuaValues,
         registry' = LuaLUnref(registry, r)
  PROVE  /\ registry' \in [Slots -> Nat \cup LuaValues \cup {Nil}]
         /\ registry'[r] \notin LuaValues
         /\ registry'[0] \notin LuaValues
         /\ \A s \in Slots \ {0, r} : registry'[s] = registry[s]
         /\ FreeListIsList'
<1> PICK F, rank : FreeList(F, rank)
  BY DEF FreeListIsList
<1>1. 0 \in Slots /\ Slots \subseteq Nat /\ LuaValues \cap Nat = {}
  BY MaxRefAssumption, ValuesAreNotNumbers DEF Slots
<1>2. registry[0] \notin LuaValues /\ r \notin F
  BY FreeSlotsHoldNoValue
<1>3. /\ registry' \in [Slots -> Nat \cup LuaValues \cup {Nil}]
      /\ registry'[r] = registry[0]
      /\ registry'[0] = r
      /\ \A s \in Slots \ {0, r} : registry'[s] = registry[s]
  BY <1>1 DEF RegistryTypeOK, LuaLUnref
<1> DEFINE G == F \cup {r}
           rankG == [rank EXCEPT ![r] = rank[0], ![0] = rank[0] + 1]
<1>4. /\ rankG \in [Slots -> Nat]
      /\ rankG[0] = rank[0] + 1
      /\ rankG[r] = rank[0]
      /\ \A s \in F : rankG[s] = rank[s]
  BY <1>1, <1>2 DEF FreeList
<1>5. \A s \in F : registry'[s] = registry[s]
  BY <1>2, <1>3 DEF FreeList
<1>6. \A s \in G \cup {0} : \/ rankG[s] = 0 /\ registry'[s] = Nil
                            \/ registry'[s] \in G /\ rankG[s] = rankG[registry'[s]] + 1
  <2>1. \A s \in F : \/ rankG[s] = 0 /\ registry'[s] = Nil
                     \/ registry'[s] \in G /\ rankG[s] = rankG[registry'[s]] + 1
    BY <1>4, <1>5 DEF FreeList
  <2>2. \/ rankG[r] = 0 /\ registry'[r] = Nil
        \/ registry'[r] \in G /\ rankG[r] = rankG[registry'[r]] + 1
    BY <1>3, <1>4 DEF FreeList
  <2>3. registry'[0] \in G /\ rankG[0] = rankG[registry'[0]] + 1
    BY <1>3, <1>4
  <2> QED
    BY <2>1, <2>2, <2>3
<1>7. /\ \A s \in G : rankG[s] < rankG[0]
      /\ \A s, p \in G : rankG[s] = rankG[p] => s = p
  BY <1>1, <1>4 DEF FreeList
<1>8. \A s \in Slots \ {0} : registry'[s] \in Nat => s \in G
  BY <1>3 DEF FreeList
<1>9. G \cup ValueSlots' = F \cup ValueSlots
  <2>1. ValueSlots' = ValueSlots \ {r} /\ r \in ValueSlots
    BY <1>2, <1>3 DEF ValueSlots, Slots
  <2> QED
    BY <2>1
<1>10. FreeList(G, rankG)'
  BY <1>4, <1>6, <1>7, <1>8, <1>9 DEF FreeList, Slots
<1>11. registry'[0] \notin LuaValues
  BY <1>1, <1>3
<1> QED
  BY <1>2, <1>3, <1>10, <1>11 DEF FreeListIsList

-----------------------------------------------------------------------------
\* A set of natural numbers has a least element.
LEMMA LeastNumber ==
  ASSUME NEW T, T \subseteq Nat, T # {}
  PROVE  \E n \in T : \A m \in T : n <= m
<1> DEFINE R == {p \in Nat \X Nat : p[1] < p[2]}
<1>1. IsWellFoundedOn(R, Nat)
  BY NatLessThanWellFounded DEF OpToRel
<1> HIDE DEF R
<1>2. \E n \in T : \A m \in T : ~ (<<m, n>> \in R)
  BY <1>1, WFMin
<1>3. PICK n \in T : \A m \in T : ~ (<<m, n>> \in R)
  BY <1>2
<1>4. ASSUME NEW m \in T PROVE n <= m
  <2>1. <<m, n>> \in Nat \X Nat /\ m \in Nat /\ n \in Nat
    OBVIOUS
  <2>2. ~ m < n
    BY <1>3, <2>1 DEF R
  <2> QED
    BY <2>1, <2>2
<1> QED
  BY <1>4

\* The ranks below that of the head are all taken.
LEMMA RanksHaveNoGaps ==
  ASSUME NEW F, NEW rank, FreeList(F, rank), NEW n \in Nat, n < rank[0]
  PROVE  \E p \in F : rank[p] + n + 1 = rank[0]
<1> DEFINE T == {m \in Nat : m < rank[0] /\ \A p \in F : rank[p] + m + 1 # rank[0]}
<1> SUFFICES ASSUME T # {} PROVE FALSE
  OBVIOUS
<1>1. PICK m \in T : \A k \in T : m <= k
  BY LeastNumber
<1>2. \A s \in F \cup {0} : s \in Slots /\ rank[s] \in Nat
  BY SlotsAreNumbers DEF FreeList
\* The slot that has the rank above.
<1>3. PICK p \in F \cup {0} : rank[p] + m = rank[0]
  <2>1. CASE m = 0
    BY <1>2, <2>1
  <2>2. CASE m # 0
    <3>1. m - 1 \in Nat /\ m - 1 < rank[0] /\ ~ m <= m - 1
      BY <1>1, <1>2, <2>2
    <3>2. m - 1 \notin T
      BY <1>1, <3>1
    <3>3. PICK q \in F : rank[q] + (m - 1) + 1 = rank[0]
      BY <3>1, <3>2
    <3> QED
      BY <1>1, <1>2, <3>1, <3>3
  <2> QED
    BY <2>1, <2>2
<1>4. rank[p] # 0
  BY <1>1, <1>2, <1>3
<1>5. registry[p] \in F /\ rank[p] = rank[registry[p]] + 1
  BY <1>4 DEF FreeList
<1>6. rank[registry[p]] \in Nat /\ rank[p] \in Nat /\ rank[0] \in Nat
  BY <1>2, <1>5
<1>7. rank[registry[p]] + m + 1 = rank[0]
  BY <1>1, <1>3, <1>5, <1>6
<1> QED
  BY <1>1, <1>5, <1>7

\* The slot n links from the head of a list with ranks: the rank tells which.
Walk(F, rank, n) ==
  IF \E s \in F : rank[s] + n + 1 = rank[0]
  THEN CHOOSE s \in F : rank[s] + n + 1 = rank[0] ELSE 0

LEMMA WalkFinds ==
  ASSUME NEW F, NEW rank, FreeList(F, rank), NEW n \in Nat, NEW s \in F,
         rank[s] + n + 1 = rank[0]
  PROVE  Walk(F, rank, n) = s
<1> DEFINE x == Walk(F, rank, n)
<1>1. x \in F /\ rank[x] + n + 1 = rank[0]
  BY DEF Walk
<1>2. rank[x] \in Nat /\ rank[s] \in Nat /\ rank[0] \in Nat
  BY <1>1, SlotsAreNumbers DEF FreeList
<1> HIDE DEF x
<1>3. rank[x] = rank[s]
  BY <1>1, <1>2
<1>4. x = s
  BY <1>1, <1>3 DEF FreeList
<1> QED
  BY <1>4 DEF x

LEMMA WalkEnds ==
  ASSUME NEW F, NEW rank, FreeList(F, rank), NEW n \in Nat,
         \A s \in F : rank[s] + n + 1 # rank[0]
  PROVE  Walk(F, rank, n) = 0
BY DEF Walk

\* What follows slot s in the list, 0 at its end.
Link(s) == IF registry[s] \in Nat THEN registry[s] ELSE 0

LEMMA WalkFollowsLinks ==
  ASSUME NEW F, NEW rank, FreeList(F, rank)
  PROVE  /\ Walk(F, rank, 0) = FreeHead(registry)
         /\ \A n \in Nat \ {0} :
              Walk(F, rank, n) = IF Walk(F, rank, n - 1) = 0 THEN 0 ELSE Link(Walk(F, rank, n - 1))
<1>1. /\ F \subseteq Nat \ {0} /\ 0 \in Slots
      /\ \A s \in F \cup {0} : rank[s] \in Nat
  BY SlotsAreNumbers DEF FreeList
\* From a slot p, the head included, to the next.
<1>2. ASSUME NEW p \in F \cup {0}, NEW n \in Nat, rank[p] + n = rank[0]
      PROVE  Walk(F, rank, n) = Link(p)
  <2>1. CASE registry[p] \in F /\ rank[p] = rank[registry[p]] + 1
    <3> DEFINE q == registry[p]
    <3>1. rank[p] \in Nat /\ rank[q] \in Nat /\ rank[0] \in Nat /\ q \in Nat
      BY <1>1, <2>1
    <3>2. rank[q] + n + 1 = rank[0]
      BY <1>2, <2>1, <3>1
    <3>3. Walk(F, rank, n) = q
      BY <2>1, <3>2, WalkFinds
    <3> QED
      BY <3>1, <3>3 DEF Link
  <2>2. CASE registry[p] = Nil /\ rank[p] = 0
    <3>1. \A s \in F : rank[s] + n + 1 # rank[0]
      BY <1>1, <1>2, <2>2
    <3> QED
      BY <2>2, <3>1, WalkEnds, NilAssumption DEF Link
  <2> QED
    BY <2>1, <2>2 DEF FreeList
<1>3. Walk(F, rank, 0) = FreeHead(registry)
  BY <1>1, <1>2 DEF Link, FreeHead
<1>4. ASSUME NEW n \in Nat \ {0}
      PROVE  Walk(F, rank, n) = IF Walk(F, rank, n - 1) = 0 THEN 0 ELSE Link(Walk(F, rank, n - 1))
  <2>1. n - 1 \in Nat
    OBVIOUS
  <2>2. CASE \E p \in F : rank[p] + (n - 1) + 1 = rank[0]
    <3>1. PICK p \in F : rank[p] + (n - 1) + 1 = rank[0]
      BY <2>2
    <3>2. Walk(F, rank, n - 1) = p /\ p # 0
      BY <1>1, <2>1, <3>1, WalkFinds
    <3>3. rank[p] + n = rank[0]
      BY <1>1, <3>1
    <3>4. Walk(F, rank, n) = Link(p)
      BY <1>2, <3>3
    <3> QED
      BY <3>2, <3>4
  <2>3. CASE \A p \in F : rank[p] + (n - 1) + 1 # rank[0]
    <3>1. Walk(F, rank, n - 1) = 0
      BY <2>1, <2>3, WalkEnds
    <3>2. \A s \in F : rank[s] + n + 1 # rank[0]
      <4> SUFFICES ASSUME NEW s \in F, rank[s] + n + 1 = rank[0] PROVE FALSE
        OBVIOUS
      <4>1. n - 1 < rank[0]
        BY <1>1
      <4> QED
        BY <2>1, <2>3, <4>1, RanksHaveNoGaps
    <3> QED
      BY <3>1, <3>2, WalkEnds
  <2> QED
    BY <2>2, <2>3
<1> QED
  BY <1>3, <1>4

\* The recursive definition of Chain has the walk as its only solution.
LEMMA ChainIsWalk ==
  ASSUME NEW F, NEW rank, FreeList(F, rank)
  PROVE  \A n \in Nat : Chain[n] = Walk(F, rank, n)
<1> DEFINE follows(f) == f = [n \in Nat |-> IF n = 0 THEN FreeHead(registry)
                                          ELSE IF f[n - 1] = 0 THEN 0
                                          ELSE IF registry[f[n - 1]] \in Nat THEN registry[f[n - 1]] ELSE 0]
           walk == [n \in Nat |-> Walk(F, rank, n)]
<1>1. follows(walk)
  <2>1. ASSUME NEW n \in Nat
        PROVE  walk[n] = IF n = 0 THEN FreeHead(registry)
                         ELSE IF walk[n - 1] = 0 THEN 0
                         ELSE IF registry[walk[n - 1]] \in Nat THEN registry[walk[n - 1]] ELSE 0
    <3>1. n # 0 => n - 1 \in Nat
      OBVIOUS
    <3> QED
      BY <3>1, WalkFollowsLinks DEF Link
  <2> QED
    BY <2>1
<1>2. Chain = CHOOSE f : follows(f)
  BY DEF Chain
<1>3. follows(Chain)
  <2> HIDE DEF follows, walk
  <2> QED
    BY <1>1, <1>2
<1>4. /\ Chain[0] = FreeHead(registry)
      /\ \A n \in Nat \ {0} : Chain[n] = IF Chain[n - 1] = 0 THEN 0 ELSE Link(Chain[n - 1])
  BY <1>3 DEF Link
<1> DEFINE T == {n \in Nat : Chain[n] # Walk(F, rank, n)}
<1> SUFFICES ASSUME T # {} PROVE FALSE
  OBVIOUS
<1>5. PICK n \in T : \A m \in T : n <= m
  BY LeastNumber
<1>6. n # 0
  BY <1>4, WalkFollowsLinks
<1>7. n - 1 \in Nat /\ ~ n <= n - 1
  BY <1>6
<1>8. Chain[n - 1] = Walk(F, rank, n - 1)
  BY <1>5, <1>7
<1> QED
  BY <1>4, <1>6, <1>8, WalkFollowsLinks

\* A list whose slots have ranks is as long as it has slots, and at most MaxRef.
LEMMA ListFits ==
  ASSUME NEW F, NEW rank, FreeList(F, rank)
  PROVE  rank[0] <= MaxRef
<1>1. rank[0] \in Nat /\ F \subseteq 1 .. MaxRef /\ \A s \in F : rank[s] \in Nat
  BY SlotsAreNumbers DEF FreeList, Slots
<1>2. IsFiniteSet(F) /\ Cardinality(F) <= MaxRef
  <2>1. IsFiniteSet(1 .. MaxRef) /\ Cardinality(1 .. MaxRef) = MaxRef
    BY MaxRefAssumption, FS_Interval
  <2> QED
    BY <1>1, <2>1, FS_Subset
<1> DEFINE N == 1 .. rank[0]
           w == [n \in N |-> Walk(F, rank, n - 1)]
<1>3. \A n \in N : w[n] \in F /\ rank[w[n]] + n = rank[0]
  <2> SUFFICES ASSUME NEW n \in N PROVE w[n] \in F /\ rank[w[n]] + n = rank[0]
    OBVIOUS
  <2>1. n - 1 \in Nat /\ n - 1 < rank[0]
    BY <1>1
  <2>2. PICK p \in F : rank[p] + (n - 1) + 1 = rank[0]
    BY <2>1, RanksHaveNoGaps
  <2>3. w[n] = p
    BY <2>1, <2>2, WalkFinds
  <2> QED
    BY <1>1, <2>2, <2>3
<1>4. w \in Injection(N, F)
  <2>1. w \in [N -> F]
    BY <1>3
  <2>2. ASSUME NEW m \in N, NEW n \in N, w[m] = w[n] PROVE m = n
    <3> HIDE DEF w
    <3>1. rank[w[m]] \in Nat /\ rank[w[m]] + m = rank[0] /\ rank[w[m]] + n = rank[0]
      BY <1>1, <1>3, <2>2
    <3> QED
      BY <1>1, <3>1
  <2> QED
    BY <2>1, <2>2 DEF Injection, IsInjective
<1>5. Cardinality(N) <= Cardinality(F)
  BY <1>2, <1>4, FS_Injection
<1>6. Cardinality(N) = rank[0]
  BY <1>1, FS_Interval
<1>7. Cardinality(F) \in Nat
  BY <1>2, FS_CardinalityType
<1> QED
  BY <1>1, <1>2, <1>5, <1>6, <1>7, MaxRefAssumption

\* Whatever has the ranks of a list is the list the chain of links meets, and it
\* accounts with the values for every slot that was used.
LEMMA FreeListIsSound ==
  ASSUME FreeListIsList
  PROVE  FreeListSound
<1> PICK F, rank : FreeList(F, rank)
  BY DEF FreeListIsList
<1>1. /\ F \subseteq Slots \ {0} /\ F \subseteq Nat
      /\ rank[0] \in Nat /\ rank[0] <= MaxRef
      /\ \A s \in F : rank[s] \in Nat /\ rank[s] < rank[0]
  BY ListFits, SlotsAreNumbers DEF FreeList
<1>2. \A n \in Nat : Chain[n] = Walk(F, rank, n)
  BY ChainIsWalk
<1>3. Chain[MaxRef] = 0
  <2>1. \A s \in F : rank[s] + MaxRef + 1 # rank[0]
    BY <1>1, MaxRefAssumption
  <2> QED
    BY <1>2, <2>1, WalkEnds, MaxRefAssumption
<1>4. FreeSlots = F
  <2>1. ASSUME NEW n \in Nat PROVE Chain[n] \in F \cup {0}
    BY <1>2 DEF Walk
  <2>2. ASSUME NEW s \in F PROVE \E n \in 0 .. MaxRef : Chain[n] = s
    <3> DEFINE n == rank[0] - 1 - rank[s]
    <3>1. n \in 0 .. MaxRef /\ n \in Nat /\ rank[s] + n + 1 = rank[0]
      BY <1>1, MaxRefAssumption
    <3>2. Walk(F, rank, n) = s
      BY <3>1, WalkFinds
    <3> QED
      BY <1>2, <3>1, <3>2
  <2>3. \A n \in 0 .. MaxRef : n \in Nat
    BY MaxRefAssumption
  <2> QED
    BY <1>1, <2>1, <2>2, <2>3 DEF FreeSlots
<1>5. F \cap ValueSlots = {}
  BY <1>1, FreeSlotsHoldNoValue DEF ValueSlots
<1> QED
  BY <1>3, <1>4, <1>5 DEF FreeListSound, FreeList
=============================================================================
