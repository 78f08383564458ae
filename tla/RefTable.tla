----------------------------- MODULE RefTable -----------------------------
(***************************************************************************)
(* The reference table of LuaApi (src/src/api.ts): the JS values that Lua  *)
(* userdata point at.  Lua stores a small integer; referenceMap keeps the  *)
(* value alive on the JS side, referenceTracker (a WeakMap) counts the     *)
(* userdata that hold it, and availableReferences recycles the integers.   *)
(*                                                                         *)
(* This module has the state and the two operations, Ref and Unref.  Who   *)
(* calls them, and when, is the business of the modules that extend it.    *)
(***************************************************************************)
EXTENDS Naturals, Sequences, FiniteSets, SequencesExt

CONSTANTS
  Objects,     \* JS values a WeakMap accepts as keys
  Primitives   \* JS values it rejects (bigint, registered symbol)

ASSUME DisjointValues == Objects \cap Primitives = {}

VARIABLES
  referenceMap,         \* index -> value, a JS Map
  referenceTracker,     \* object -> [refCount, index], a JS WeakMap
  availableReferences   \* indices given back, used as a stack

tableVars == <<referenceMap, referenceTracker, availableReferences>>

Values == Objects \cup Primitives

TableInit ==
  /\ referenceMap = <<>>
  /\ referenceTracker = <<>>
  /\ availableReferences = <<>>

-----------------------------------------------------------------------------
IsBound(i) == i \in DOMAIN referenceMap

IsTracked(v) == v \in DOMAIN referenceTracker

\* The count kept for object o; 0 when it is not in the table.
RefCount(o) == IF IsTracked(o) THEN referenceTracker[o].refCount ELSE 0

\* The index the next value will get: the last one given back, else size + 1.
FreshIndex == Cardinality(DOMAIN referenceMap) + 1

NextIndex ==
  IF availableReferences = <<>> THEN FreshIndex ELSE Last(availableReferences)

\* What ref(v) returns.
RefIndex(v) == IF IsTracked(v) THEN referenceTracker[v].index ELSE NextIndex

\* The index is taken: popped off the stack (a no-op when it is empty), and
\* the value stored under it.
Bind(v) ==
  /\ referenceMap' = [i \in DOMAIN referenceMap \cup {NextIndex} |->
                        IF i = NextIndex THEN v ELSE referenceMap[i]]
  /\ availableReferences' =
       IF availableReferences = <<>> THEN <<>> ELSE Front(availableReferences)

RefAgain(v) ==
  /\ IsTracked(v)
  /\ referenceTracker' = [referenceTracker EXCEPT ![v].refCount = @ + 1]
  /\ UNCHANGED <<referenceMap, availableReferences>>

RefFirst(v) ==
  /\ v \in Objects
  /\ ~IsTracked(v)
  /\ Bind(v)
  /\ referenceTracker' =
       [o \in DOMAIN referenceTracker \cup {v} |->
          IF o = v THEN [refCount |-> 1, index |-> NextIndex]
                   ELSE referenceTracker[o]]

\* ref(v) returns RefIndex(v).
Ref(v) == RefAgain(v) \/ RefFirst(v)

\* WeakMap.set throws a TypeError for a primitive, after the value was bound.
RefThrows(v) ==
  /\ v \in Primitives
  /\ Bind(v)
  /\ UNCHANGED referenceTracker

ReleaseOne(i) ==
  LET v == referenceMap[i] IN
  /\ referenceTracker[v].refCount > 1
  /\ referenceTracker' = [referenceTracker EXCEPT ![v].refCount = @ - 1]
  /\ UNCHANGED <<referenceMap, availableReferences>>

\* Mutant of ReleaseLast: the entry goes although one more holder is left.
ReleaseLastEarly(i) ==
  LET v == referenceMap[i] IN
  /\ referenceTracker[v].refCount <= 2
  /\ referenceTracker' = [o \in DOMAIN referenceTracker \ {v} |-> referenceTracker[o]]
  /\ referenceMap' = [j \in DOMAIN referenceMap \ {i} |-> referenceMap[j]]
  /\ availableReferences' = Append(availableReferences, i)

\* Mutant of ReleaseLast: the value stays in the map.
ReleaseLastKeepsValue(i) ==
  LET v == referenceMap[i] IN
  /\ referenceTracker[v].refCount <= 1
  /\ referenceTracker' = [o \in DOMAIN referenceTracker \ {v} |-> referenceTracker[o]]
  /\ availableReferences' = Append(availableReferences, i)
  /\ UNCHANGED referenceMap

\* Mutant of ReleaseLast: the metadata stays in the tracker.
ReleaseLastKeepsMetadata(i) ==
  LET v == referenceMap[i] IN
  /\ referenceTracker[v].refCount <= 1
  /\ referenceMap' = [j \in DOMAIN referenceMap \ {i} |-> referenceMap[j]]
  /\ availableReferences' = Append(availableReferences, i)
  /\ UNCHANGED referenceTracker

ReleaseLast(i) ==
  LET v == referenceMap[i] IN
  /\ referenceTracker[v].refCount <= 1
  /\ referenceTracker' = [o \in DOMAIN referenceTracker \ {v} |-> referenceTracker[o]]
  /\ referenceMap' = [j \in DOMAIN referenceMap \ {i} |-> referenceMap[j]]
  /\ availableReferences' = Append(availableReferences, i)

\* unref(i).  The two early returns: an unbound index is ignored, and a bound
\* one without metadata is given back while its value stays in the map.
Unref(i) ==
  IF ~IsBound(i) THEN UNCHANGED tableVars
  ELSE IF ~IsTracked(referenceMap[i])
       THEN /\ availableReferences' = Append(availableReferences, i)
            /\ UNCHANGED <<referenceMap, referenceTracker>>
       ELSE ReleaseOne(i) \/ ReleaseLast(i)

-----------------------------------------------------------------------------
\* The named parts of the table's invariant.

TableTypeOK ==
  /\ referenceMap \in [DOMAIN referenceMap -> Values]
  /\ DOMAIN referenceMap \subseteq Nat \ {0}
  /\ referenceTracker \in
       [DOMAIN referenceTracker -> [refCount : Nat \ {0}, index : Nat \ {0}]]
  /\ DOMAIN referenceTracker \subseteq Objects
  /\ availableReferences \in Seq(Nat \ {0})

\* A tracked object is bound under the index its metadata names, and every
\* bound object is tracked there.
MapMatchesTracker ==
  /\ \A o \in DOMAIN referenceTracker :
       LET i == referenceTracker[o].index
       IN  i \in DOMAIN referenceMap /\ referenceMap[i] = o
  /\ \A i \in DOMAIN referenceMap :
       referenceMap[i] \in Objects =>
         /\ referenceMap[i] \in DOMAIN referenceTracker
         /\ referenceTracker[referenceMap[i]].index = i

\* Bound and available indices are the numbers 1 .. n, each exactly once, so
\* that size + 1 is unused whenever no index is available (api.ts:378-379).
IndexSpace ==
  LET n == Cardinality(DOMAIN referenceMap) + Len(availableReferences) IN
  /\ DOMAIN referenceMap \cup Range(availableReferences) = 1 .. n
  /\ DOMAIN referenceMap \cap Range(availableReferences) = {}
  /\ IsInjective(availableReferences)

\* The invariant every sequence of Ref, RefThrows and matched Unref keeps.
TableInv ==
  /\ TableTypeOK
  /\ IsFiniteSet(DOMAIN referenceMap)
  /\ MapMatchesTracker
  /\ IndexSpace
=============================================================================
