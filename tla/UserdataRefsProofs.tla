------------------------ MODULE UserdataRefsProofs ------------------------
(***************************************************************************)
(* Safety of RefTable and UserdataRefs for every set of objects,           *)
(* primitives and blocks.                                                  *)
(***************************************************************************)
EXTENDS UserdataRefs, FiniteSetTheorems, TLAPS

-----------------------------------------------------------------------------
(***************************************************************************)
(* The operations of RefTable: each keeps TableInv.                        *)
(***************************************************************************)
\* The index handed to the next value is positive and not in use, whether it
\* is recycled or size + 1.
LEMMA NextIndexUnused ==
  ASSUME TableInv
  PROVE  /\ NextIndex \in Nat \ {0}
         /\ NextIndex \notin DOMAIN referenceMap
         /\ FreshIndex \in Nat \ {0}
<1> DEFINE n == Cardinality(DOMAIN referenceMap)
<1>1. n \in Nat
  BY FS_CardinalityType DEF TableInv
<1>2. Len(availableReferences) \in Nat
  BY DEF TableInv, TableTypeOK
<1>3. FreshIndex = n + 1
  BY DEF FreshIndex
<1>4. CASE availableReferences = <<>>
  <2>1. DOMAIN referenceMap \subseteq 1 .. n
    BY <1>1, <1>4 DEF TableInv, IndexSpace, Range
  <2> QED
    BY <1>1, <1>3, <1>4, <2>1 DEF NextIndex
<1>5. CASE availableReferences # <<>>
  <2>1. Len(availableReferences) \in DOMAIN availableReferences
    BY <1>5 DEF TableInv, TableTypeOK
  <2>2. Last(availableReferences) \in Range(availableReferences)
    BY <2>1 DEF Last, Range
  <2>3. Last(availableReferences) \in Nat \ {0}
    BY <1>5 DEF Last, TableInv, TableTypeOK
  <2> QED
    BY <1>1, <1>3, <1>5, <2>2, <2>3 DEF NextIndex, TableInv, IndexSpace
<1> QED
  BY <1>4, <1>5

\* Popping the stack of indices removes exactly the index that was on top.
LEMMA PopAvailable ==
  ASSUME NEW s \in Seq(Nat \ {0}), s # <<>>, IsInjective(s)
  PROVE  /\ Front(s) \in Seq(Nat \ {0})
         /\ Len(Front(s)) = Len(s) - 1
         /\ Range(Front(s)) = Range(s) \ {Last(s)}
         /\ IsInjective(Front(s))
<1> DEFINE f == Front(s)
<1>1. /\ Len(s) \in Nat \ {0}
      /\ DOMAIN s = 1 .. Len(s)
  OBVIOUS
<1>2. /\ f \in Seq(Nat \ {0})
      /\ Len(f) = Len(s) - 1
      /\ \A k \in 1 .. Len(s) - 1 : f[k] = s[k]
  BY <1>1 DEF Front
<1>3. DOMAIN f = 1 .. Len(s) - 1
  BY <1>2
<1>4. \A j, k \in 1 .. Len(s) : s[j] = s[k] => j = k
  BY <1>1 DEF IsInjective
<1> HIDE DEF f
<1>5. Range(f) = Range(s) \ {Last(s)}
  <2>1. \A k \in DOMAIN f : k \in DOMAIN s /\ k # Len(s) /\ f[k] = s[k]
    BY <1>1, <1>2, <1>3
  <2>2. \A k \in DOMAIN s : k # Len(s) => k \in DOMAIN f /\ f[k] = s[k]
    BY <1>1, <1>2, <1>3
  <2>3. \A k \in DOMAIN s : s[k] = s[Len(s)] => k = Len(s)
    BY <1>1, <1>4
  <2> QED
    BY <2>1, <2>2, <2>3 DEF Range, Last
<1>6. IsInjective(f)
  <2> SUFFICES ASSUME NEW j \in DOMAIN f, NEW k \in DOMAIN f, f[j] = f[k]
               PROVE  j = k
    BY DEF IsInjective
  <2>1. /\ j \in 1 .. Len(s) - 1 /\ k \in 1 .. Len(s) - 1
        /\ j \in 1 .. Len(s) /\ k \in 1 .. Len(s)
    BY <1>1, <1>3
  <2>2. s[j] = s[k]
    BY <1>2, <2>1
  <2> QED
    BY <1>4, <2>1, <2>2
<1> QED
  BY <1>2, <1>5, <1>6 DEF f

\* Pushing an index that is not on the stack.
LEMMA PushAvailable ==
  ASSUME NEW s \in Seq(Nat \ {0}), NEW i \in Nat \ {0},
         i \notin Range(s), IsInjective(s)
  PROVE  /\ Append(s, i) \in Seq(Nat \ {0})
         /\ Len(Append(s, i)) = Len(s) + 1
         /\ Range(Append(s, i)) = Range(s) \cup {i}
         /\ IsInjective(Append(s, i))
<1> DEFINE t == Append(s, i)
<1>1. /\ Len(s) \in Nat
      /\ DOMAIN s = 1 .. Len(s)
  OBVIOUS
<1>2. /\ t \in Seq(Nat \ {0})
      /\ Len(t) = Len(s) + 1
      /\ \A k \in 1 .. Len(s) : t[k] = s[k]
      /\ t[Len(s) + 1] = i
  OBVIOUS
<1>3. DOMAIN t = 1 .. Len(s) + 1
  BY <1>2
<1>4. \A k \in 1 .. Len(s) : s[k] # i
  BY <1>1 DEF Range
<1> HIDE DEF t
<1>5. Range(t) = Range(s) \cup {i}
  <2>1. \A k \in DOMAIN t : t[k] \in Range(s) \cup {i}
    BY <1>1, <1>2, <1>3 DEF Range
  <2>2. \A k \in DOMAIN s : k \in DOMAIN t /\ t[k] = s[k]
    BY <1>1, <1>2, <1>3
  <2>3. Len(s) + 1 \in DOMAIN t /\ t[Len(s) + 1] = i
    BY <1>1, <1>2, <1>3
  <2> QED
    BY <2>1, <2>2, <2>3 DEF Range
<1>6. IsInjective(t)
  <2>1. \A j, k \in 1 .. Len(s) : s[j] = s[k] => j = k
    BY <1>1 DEF IsInjective
  <2> SUFFICES ASSUME NEW j \in DOMAIN t, NEW k \in DOMAIN t, t[j] = t[k]
               PROVE  j = k
    BY DEF IsInjective
  <2>2. /\ j \in 1 .. Len(s) \/ j = Len(s) + 1
        /\ k \in 1 .. Len(s) \/ k = Len(s) + 1
    BY <1>1, <1>3
  <2>3. CASE j \in 1 .. Len(s) /\ k \in 1 .. Len(s)
    <3>1. s[j] = s[k]
      BY <1>2, <2>3
    <3> QED
      BY <2>1, <2>3, <3>1
  <2>4. CASE j = Len(s) + 1 /\ k \in 1 .. Len(s)
    BY <1>2, <1>4, <2>4
  <2>5. CASE k = Len(s) + 1 /\ j \in 1 .. Len(s)
    BY <1>2, <1>4, <2>5
  <2> QED
    BY <2>2, <2>3, <2>4, <2>5
<1> QED
  BY <1>2, <1>5, <1>6 DEF t

\* Binding a value to the next index keeps the partition of the indices.
LEMMA BindKeepsIndexSpace ==
  ASSUME TableInv, NEW v, Bind(v)
  PROVE  /\ IndexSpace'
         /\ IsFiniteSet(DOMAIN referenceMap')
         /\ availableReferences' \in Seq(Nat \ {0})
<1> DEFINE D == DOMAIN referenceMap
           n == Cardinality(D)
<1>1. n \in Nat /\ IsFiniteSet(D)
  BY FS_CardinalityType DEF TableInv
<1>2. DOMAIN referenceMap' = D \cup {NextIndex}
  BY DEF Bind
<1>3. NextIndex \notin D
  BY NextIndexUnused
<1>4. IsFiniteSet(D \cup {NextIndex}) /\ Cardinality(D \cup {NextIndex}) = n + 1
  BY <1>1, <1>3, FS_AddElement
<1>5. CASE availableReferences = <<>>
  <2>1. NextIndex = n + 1 /\ availableReferences' = <<>>
    BY <1>5 DEF Bind, NextIndex, FreshIndex
  <2>2. D = 1 .. n
    <3>1. /\ Range(availableReferences) = {}
          /\ Len(availableReferences) = 0
      BY <1>5 DEF Range
    <3>2. D \cup Range(availableReferences) = 1 .. n + Len(availableReferences)
      BY DEF TableInv, IndexSpace
    <3> QED
      BY <1>1, <3>1, <3>2
  <2>3. D \cup {NextIndex} = 1 .. n + 1
    BY <1>1, <2>1, <2>2
  <2>4. /\ Range(<<>>) = {}
        /\ IsInjective(<<>>)
        /\ Len(<<>>) = 0
    BY DEF Range, IsInjective
  <2>5. IndexSpace'
    BY <1>1, <1>2, <1>4, <2>1, <2>3, <2>4 DEF IndexSpace
  <2> QED
    BY <1>2, <1>4, <2>1, <2>5
<1>6. CASE availableReferences # <<>>
  <2> DEFINE a == availableReferences
  <2>1. a \in Seq(Nat \ {0}) /\ IsInjective(a)
    BY DEF TableInv, TableTypeOK, IndexSpace
  <2>2. NextIndex = Last(a) /\ a' = Front(a)
    BY <1>6 DEF Bind, NextIndex
  <2>3. /\ Front(a) \in Seq(Nat \ {0})
        /\ Len(Front(a)) = Len(a) - 1
        /\ Range(Front(a)) = Range(a) \ {Last(a)}
        /\ IsInjective(Front(a))
    BY <1>6, <2>1, PopAvailable
  <2>4. Len(a) \in DOMAIN a
    BY <1>6, <2>1
  <2>5. Last(a) \in Range(a)
    BY <2>4 DEF Range, Last
  <2>6. D \cup Range(a) = 1 .. n + Len(a) /\ D \cap Range(a) = {}
    BY DEF TableInv, IndexSpace
  <2>7. (n + 1) + (Len(a) - 1) = n + Len(a)
    BY <1>1, <2>1
  <2>8. (D \cup {Last(a)}) \cup Range(Front(a)) = 1 .. n + Len(a)
    BY <2>3, <2>5, <2>6
  <2>9. (D \cup {Last(a)}) \cap Range(Front(a)) = {}
    BY <2>3, <2>6
  <2> HIDE DEF D, n
  <2>10. Cardinality(DOMAIN referenceMap') + Len(a') = n + Len(a)
    BY <1>2, <1>4, <2>2, <2>3, <2>7
  <2>11. IndexSpace'
    BY <1>2, <2>2, <2>3, <2>8, <2>9, <2>10 DEF IndexSpace
  <2> QED
    BY <1>2, <1>4, <2>2, <2>3, <2>11
<1> QED
  BY <1>5, <1>6

\* ref on an object keeps the table's invariant.
LEMMA RefKeepsTable ==
  ASSUME TableInv, NEW v \in Objects, Ref(v)
  PROVE  TableInv'
<1>1. CASE RefAgain(v)
  <2>1. UNCHANGED <<referenceMap, availableReferences>>
    BY <1>1 DEF RefAgain
  <2>2. /\ v \in DOMAIN referenceTracker
        /\ DOMAIN referenceTracker' = DOMAIN referenceTracker
        /\ \A o \in DOMAIN referenceTracker :
             referenceTracker'[o].index = referenceTracker[o].index
    BY <1>1 DEF RefAgain, IsTracked, TableInv, TableTypeOK
  <2>3. referenceTracker' \in
          [DOMAIN referenceTracker -> [refCount : Nat \ {0}, index : Nat \ {0}]]
    <3>1. v \in DOMAIN referenceTracker
      BY <2>2
    <3>2. referenceTracker[v] \in [refCount : Nat \ {0}, index : Nat \ {0}]
      BY <3>1 DEF TableInv, TableTypeOK
    <3>3. [referenceTracker[v] EXCEPT !.refCount = @ + 1]
            \in [refCount : Nat \ {0}, index : Nat \ {0}]
      BY <3>2
    <3> QED
      BY <1>1, <3>1, <3>3 DEF RefAgain, TableInv, TableTypeOK
  <2>4. TableTypeOK'
    BY <2>1, <2>2, <2>3 DEF TableInv, TableTypeOK
  <2>5. MapMatchesTracker'
    BY <2>1, <2>2 DEF TableInv, MapMatchesTracker
  <2> QED
    BY <2>1, <2>4, <2>5 DEF TableInv, IndexSpace
<1>2. CASE RefFirst(v)
  <2>1. Bind(v) /\ v \notin DOMAIN referenceTracker
    BY <1>2 DEF RefFirst, IsTracked
  <2>2. /\ IndexSpace'
        /\ IsFiniteSet(DOMAIN referenceMap')
        /\ availableReferences' \in Seq(Nat \ {0})
    BY <2>1, BindKeepsIndexSpace
  <2>3. NextIndex \in Nat \ {0} /\ NextIndex \notin DOMAIN referenceMap
    BY NextIndexUnused
  <2>4. /\ DOMAIN referenceMap' = DOMAIN referenceMap \cup {NextIndex}
        /\ referenceMap'[NextIndex] = v
        /\ \A i \in DOMAIN referenceMap : referenceMap'[i] = referenceMap[i]
        /\ referenceMap' \in [DOMAIN referenceMap' -> Values]
    BY <2>1, <2>3 DEF Bind, TableInv, TableTypeOK, Values
  <2>5. /\ DOMAIN referenceTracker' = DOMAIN referenceTracker \cup {v}
        /\ referenceTracker'[v] = [refCount |-> 1, index |-> NextIndex]
        /\ \A o \in DOMAIN referenceTracker :
             referenceTracker'[o] = referenceTracker[o]
    BY <1>2, <2>1 DEF RefFirst
  <2>6. referenceTracker' \in
          [DOMAIN referenceTracker' -> [refCount : Nat \ {0}, index : Nat \ {0}]]
    BY <1>2, <2>1, <2>3 DEF RefFirst, TableInv, TableTypeOK
  <2>7. TableTypeOK'
    BY <2>2, <2>3, <2>4, <2>5, <2>6 DEF TableInv, TableTypeOK
  <2>8. MapMatchesTracker'
    BY <2>1, <2>3, <2>4, <2>5 DEF TableInv, MapMatchesTracker
  <2> QED
    BY <2>2, <2>7, <2>8 DEF TableInv
<1> QED
  BY <1>1, <1>2 DEF Ref

\* A ref that throws half way leaves an entry behind, and the invariant intact.
LEMMA RefThrowsKeepsTable ==
  ASSUME TableInv, NEW v \in Primitives, RefThrows(v)
  PROVE  TableInv'
<1>1. Bind(v) /\ UNCHANGED referenceTracker
  BY DEF RefThrows
<1>2. /\ IndexSpace'
      /\ IsFiniteSet(DOMAIN referenceMap')
      /\ availableReferences' \in Seq(Nat \ {0})
  BY <1>1, BindKeepsIndexSpace
<1>3. NextIndex \in Nat \ {0} /\ NextIndex \notin DOMAIN referenceMap
  BY NextIndexUnused
<1>4. /\ DOMAIN referenceMap' = DOMAIN referenceMap \cup {NextIndex}
      /\ referenceMap'[NextIndex] = v
      /\ \A i \in DOMAIN referenceMap : referenceMap'[i] = referenceMap[i]
      /\ referenceMap' \in [DOMAIN referenceMap' -> Values]
  BY <1>1, <1>3 DEF Bind, TableInv, TableTypeOK, Values
<1>5. v \notin Objects
  BY DisjointValues
<1>6. TableTypeOK'
  BY <1>1, <1>2, <1>3, <1>4 DEF TableInv, TableTypeOK
<1>7. MapMatchesTracker'
  BY <1>1, <1>3, <1>4, <1>5 DEF TableInv, MapMatchesTracker
<1> QED
  BY <1>2, <1>6, <1>7 DEF TableInv

\* unref of an index whose value is tracked keeps the table's invariant.
LEMMA UnrefKeepsTable ==
  ASSUME TableInv, NEW i \in DOMAIN referenceMap,
         IsTracked(referenceMap[i]), Unref(i)
  PROVE  TableInv'
<1> DEFINE v == referenceMap[i]
<1>0. v \in Objects /\ v \in DOMAIN referenceTracker /\ referenceTracker[v].index = i
  BY DEF IsTracked, TableInv, TableTypeOK, MapMatchesTracker
<1>1. CASE ReleaseOne(i)
  <2>1. UNCHANGED <<referenceMap, availableReferences>>
    BY <1>1 DEF ReleaseOne
  <2>2. /\ DOMAIN referenceTracker' = DOMAIN referenceTracker
        /\ \A o \in DOMAIN referenceTracker :
             referenceTracker'[o].index = referenceTracker[o].index
    BY <1>0, <1>1 DEF ReleaseOne, TableInv, TableTypeOK
  <2>3. referenceTracker' \in
          [DOMAIN referenceTracker -> [refCount : Nat \ {0}, index : Nat \ {0}]]
    BY <1>0, <1>1 DEF ReleaseOne, TableInv, TableTypeOK
  <2>4. TableTypeOK'
    BY <2>1, <2>2, <2>3 DEF TableInv, TableTypeOK
  <2>5. MapMatchesTracker'
    BY <2>1, <2>2 DEF TableInv, MapMatchesTracker
  <2> QED
    BY <2>1, <2>4, <2>5 DEF TableInv, IndexSpace
<1>2. CASE ReleaseLast(i)
  <2> DEFINE D == DOMAIN referenceMap
             a == availableReferences
             n == Cardinality(D)
  <2>1. /\ DOMAIN referenceMap' = D \ {i}
        /\ \A j \in D \ {i} : referenceMap'[j] = referenceMap[j]
        /\ referenceMap' \in [DOMAIN referenceMap' -> Values]
    BY <1>2 DEF ReleaseLast, TableInv, TableTypeOK
  <2>2. /\ DOMAIN referenceTracker' = DOMAIN referenceTracker \ {v}
        /\ \A o \in DOMAIN referenceTracker \ {v} :
             referenceTracker'[o] = referenceTracker[o]
        /\ referenceTracker' \in
             [DOMAIN referenceTracker' -> [refCount : Nat \ {0}, index : Nat \ {0}]]
    BY <1>2 DEF ReleaseLast, TableInv, TableTypeOK
  <2>3. n \in Nat /\ IsFiniteSet(D)
    BY FS_CardinalityType DEF TableInv
  <2>4. IsFiniteSet(D \ {i}) /\ Cardinality(D \ {i}) = n - 1
    BY <2>3, FS_RemoveElement
  <2>5. /\ a \in Seq(Nat \ {0}) /\ IsInjective(a)
        /\ i \in Nat \ {0} /\ i \notin Range(a)
    BY DEF TableInv, TableTypeOK, IndexSpace
  <2>6. a' = Append(a, i)
    BY <1>2 DEF ReleaseLast
  <2>7. /\ Append(a, i) \in Seq(Nat \ {0})
        /\ Len(Append(a, i)) = Len(a) + 1
        /\ Range(Append(a, i)) = Range(a) \cup {i}
        /\ IsInjective(Append(a, i))
    BY <2>5, PushAvailable
  <2>8. D \cup Range(a) = 1 .. n + Len(a) /\ D \cap Range(a) = {}
    BY DEF TableInv, IndexSpace
  <2>9. Len(a) \in Nat /\ (n - 1) + (Len(a) + 1) = n + Len(a)
    BY <2>3, <2>5
  <2>10. i \in D
    OBVIOUS
  <2> HIDE DEF D, n
  <2>11. (D \ {i}) \cup (Range(a) \cup {i}) = 1 .. n + Len(a)
    BY <2>8, <2>10
  <2>12. (D \ {i}) \cap (Range(a) \cup {i}) = {}
    BY <2>8
  <2>13. Cardinality(DOMAIN referenceMap') + Len(a') = n + Len(a)
    BY <2>1, <2>4, <2>6, <2>7, <2>9
  <2>14. IndexSpace'
    BY <2>1, <2>6, <2>7, <2>11, <2>12, <2>13 DEF IndexSpace
  <2> USE DEF D
  <2>15. TableTypeOK'
    BY <2>1, <2>2, <2>6, <2>7 DEF TableInv, TableTypeOK
  <2>16. MapMatchesTracker'
    BY <1>0, <2>1, <2>2 DEF TableInv, MapMatchesTracker
  <2> QED
    BY <2>1, <2>4, <2>14, <2>15, <2>16 DEF TableInv
<1> QED
  BY <1>1, <1>2 DEF Unref, IsBound

-----------------------------------------------------------------------------

\* What ref does to the counts and to the bound indices.
LEMMA RefEffect ==
  ASSUME TableInv, NEW v \in Objects, Ref(v)
  PROVE  /\ RefCount(v)' = RefCount(v) + 1
         /\ \A o \in Objects \ {v} : RefCount(o)' = RefCount(o)
         /\ RefIndex(v) \in Nat \ {0}
         /\ RefIndex(v) \in DOMAIN referenceMap'
         /\ referenceMap'[RefIndex(v)] = v
         /\ \A i \in DOMAIN referenceMap :
              i \in DOMAIN referenceMap' /\ referenceMap'[i] = referenceMap[i]
         /\ Range(referenceMap') = Range(referenceMap) \cup {v}
<1>1. CASE RefAgain(v)
  <2>1. v \in DOMAIN referenceTracker
    BY <1>1 DEF RefAgain, IsTracked
  <2>2. referenceTracker[v] \in [refCount : Nat \ {0}, index : Nat \ {0}]
    BY <2>1 DEF TableInv, TableTypeOK
  <2>3. /\ DOMAIN referenceTracker' = DOMAIN referenceTracker
        /\ referenceTracker'[v].refCount = referenceTracker[v].refCount + 1
        /\ \A o \in DOMAIN referenceTracker \ {v} :
             referenceTracker'[o] = referenceTracker[o]
    BY <1>1, <2>1, <2>2 DEF RefAgain, TableInv, TableTypeOK
  <2>4. referenceMap' = referenceMap
    BY <1>1 DEF RefAgain
  <2>5. /\ RefIndex(v) = referenceTracker[v].index
        /\ RefIndex(v) \in DOMAIN referenceMap
        /\ referenceMap[RefIndex(v)] = v
    BY <2>1 DEF RefIndex, IsTracked, TableInv, MapMatchesTracker
  <2>6. v \in Range(referenceMap)
    BY <2>5 DEF Range
  <2> QED
    BY <2>1, <2>2, <2>3, <2>4, <2>5, <2>6 DEF RefCount, IsTracked
<1>2. CASE RefFirst(v)
  <2>1. v \notin DOMAIN referenceTracker /\ Bind(v)
    BY <1>2 DEF RefFirst, IsTracked
  <2>2. NextIndex \in Nat \ {0} /\ NextIndex \notin DOMAIN referenceMap
    BY NextIndexUnused
  <2>3. RefIndex(v) = NextIndex
    BY <2>1 DEF RefIndex, IsTracked
  <2>4. /\ DOMAIN referenceTracker' = DOMAIN referenceTracker \cup {v}
        /\ referenceTracker'[v].refCount = 1
        /\ \A o \in DOMAIN referenceTracker : referenceTracker'[o] = referenceTracker[o]
    BY <1>2, <2>1 DEF RefFirst
  <2>5. /\ DOMAIN referenceMap' = DOMAIN referenceMap \cup {NextIndex}
        /\ referenceMap'[NextIndex] = v
        /\ \A i \in DOMAIN referenceMap : referenceMap'[i] = referenceMap[i]
    BY <2>1, <2>2 DEF Bind
  <2>6. Range(referenceMap') = Range(referenceMap) \cup {v}
    BY <2>5 DEF Range
  <2> QED
    BY <2>1, <2>2, <2>3, <2>4, <2>5, <2>6 DEF RefCount, IsTracked
<1> QED
  BY <1>1, <1>2 DEF Ref

\* What unref of a tracked index does to the counts and to the bound indices.
LEMMA UnrefEffect ==
  ASSUME TableInv, NEW i \in DOMAIN referenceMap, NEW v, v = referenceMap[i],
         IsTracked(v), Unref(i)
  PROVE  /\ v \in Objects
         /\ RefCount(v) \in Nat \ {0}
         /\ RefCount(v)' = RefCount(v) - 1
         /\ \A o \in Objects \ {v} : RefCount(o)' = RefCount(o)
         /\ RefCount(v) > 1 => referenceMap' = referenceMap
         /\ RefCount(v) = 1 =>
              /\ DOMAIN referenceMap' = DOMAIN referenceMap \ {i}
              /\ Range(referenceMap') = Range(referenceMap) \ {v}
         /\ \A j \in DOMAIN referenceMap \ {i} :
              j \in DOMAIN referenceMap' /\ referenceMap'[j] = referenceMap[j]
<1>1. /\ v \in Objects
      /\ v \in DOMAIN referenceTracker
      /\ referenceTracker[v] \in [refCount : Nat \ {0}, index : Nat \ {0}]
      /\ RefCount(v) = referenceTracker[v].refCount
  BY DEF IsTracked, TableInv, TableTypeOK, RefCount
<1>2. CASE ReleaseOne(i)
  <2>1. /\ referenceMap' = referenceMap
        /\ RefCount(v) > 1
        /\ DOMAIN referenceTracker' = DOMAIN referenceTracker
        /\ referenceTracker'[v].refCount = referenceTracker[v].refCount - 1
        /\ \A o \in DOMAIN referenceTracker \ {v} :
             referenceTracker'[o] = referenceTracker[o]
    BY <1>1, <1>2 DEF ReleaseOne, TableInv, TableTypeOK
  <2>2. RefCount(v)' = RefCount(v) - 1
    BY <1>1, <2>1 DEF RefCount, IsTracked
  <2>3. \A o \in Objects \ {v} : RefCount(o)' = RefCount(o)
    BY <2>1 DEF RefCount, IsTracked
  <2> QED
    BY <1>1, <2>1, <2>2, <2>3
<1>3. CASE ReleaseLast(i)
  <2>1. /\ RefCount(v) = 1
        /\ DOMAIN referenceTracker' = DOMAIN referenceTracker \ {v}
        /\ \A o \in DOMAIN referenceTracker \ {v} :
             referenceTracker'[o] = referenceTracker[o]
    BY <1>1, <1>3 DEF ReleaseLast
  <2>2. /\ DOMAIN referenceMap' = DOMAIN referenceMap \ {i}
        /\ \A j \in DOMAIN referenceMap \ {i} : referenceMap'[j] = referenceMap[j]
    BY <1>3 DEF ReleaseLast
  <2>3. \A j \in DOMAIN referenceMap \ {i} : referenceMap[j] # v
    BY <1>1 DEF TableInv, MapMatchesTracker
  <2>4. Range(referenceMap') = Range(referenceMap) \ {v}
    BY <2>2, <2>3 DEF Range
  <2>5. RefCount(v)' = 0 /\ \A o \in Objects \ {v} : RefCount(o)' = RefCount(o)
    BY <2>1 DEF RefCount, IsTracked
  <2> QED
    BY <1>1, <2>1, <2>2, <2>4, <2>5
<1> QED
  BY <1>2, <1>3 DEF Unref, IsBound

\* The value a live block reads is tracked, under the index the block stores.
LEMMA HolderIsTracked ==
  ASSUME IInv, NEW u \in Userdata, Live(u)
  PROVE  /\ held[u] \in Objects
         /\ userdata[u].index \in DOMAIN referenceMap
         /\ referenceMap[userdata[u].index] = held[u]
         /\ IsTracked(held[u])
         /\ referenceTracker[held[u]].index = userdata[u].index
<1>1. held[u] \in Objects
  BY DEF IInv, TypeOK, LiveIffHeld
<1>2. GetRef(u) = held[u] /\ held[u] # NoObject
  BY DEF IInv, HolderReadsItsObject, LiveIffHeld
<1>3. /\ userdata[u].index \in DOMAIN referenceMap
      /\ referenceMap[userdata[u].index] = held[u]
  BY <1>2 DEF GetRef, IsBound
<1> QED
  BY <1>1, <1>3 DEF IInv, TableInv, MapMatchesTracker, IsTracked

LEMMA HoldersFinite ==
  \A o : IsFiniteSet(Holders(o)) /\ Cardinality(Holders(o)) \in Nat
BY UserdataAssumption, FS_Subset, FS_CardinalityType DEF Holders

\* A block that starts to hold o adds one to the holders of o only.
LEMMA HoldersGrow ==
  ASSUME NEW u \in Userdata, NEW o \in Objects,
         held \in [Userdata -> Objects \cup {NoObject}],
         held[u] = NoObject, held' = [held EXCEPT ![u] = o]
  PROVE  /\ Cardinality(Holders(o)') = Cardinality(Holders(o)) + 1
         /\ \A p \in Objects \ {o} : Holders(p)' = Holders(p)
<1>1. o # NoObject
  BY NoObjectAssumption DEF Values
<1>2. u \notin Holders(o) /\ Holders(o)' = Holders(o) \cup {u}
  BY <1>1 DEF Holders
<1>3. Cardinality(Holders(o) \cup {u}) = Cardinality(Holders(o)) + 1
  BY <1>2, HoldersFinite, FS_AddElement
<1>4. \A p \in Objects \ {o} : p # NoObject
  BY NoObjectAssumption DEF Values
<1> QED
  BY <1>2, <1>3, <1>4 DEF Holders

\* A block that is freed takes one from the holders of its object only.
LEMMA HoldersShrink ==
  ASSUME NEW u \in Userdata, NEW o \in Objects, held[u] = o,
         held \in [Userdata -> Objects \cup {NoObject}],
         held' = [held EXCEPT ![u] = NoObject]
  PROVE  /\ Holders(o)' = Holders(o) \ {u}
         /\ Cardinality(Holders(o) \ {u}) = Cardinality(Holders(o)) - 1
         /\ Cardinality(Holders(o)) \in Nat \ {0}
         /\ \A p \in Objects \ {o} : Holders(p)' = Holders(p)
<1>1. \A p \in Objects : p # NoObject
  BY NoObjectAssumption DEF Values
<1>2. u \in Holders(o)
  BY DEF Holders
<1>3. Cardinality(Holders(o) \ {u}) = Cardinality(Holders(o)) - 1
  BY <1>2, HoldersFinite, FS_RemoveElement
<1>4. Cardinality(Holders(o)) # 0
  BY <1>2, HoldersFinite, FS_EmptySet
<1>5. \A p \in Objects : \A w \in Userdata :
        held'[w] = p <=> held[w] = p /\ w # u
  BY <1>1
<1> QED
  BY <1>3, <1>4, <1>5, HoldersFinite DEF Holders

-----------------------------------------------------------------------------
(***************************************************************************)
(* The inductive invariant, one lemma per action.                          *)
(***************************************************************************)

LEMMA InitEstablishes == Init => IInv
<1> SUFFICES ASSUME Init PROVE IInv
  OBVIOUS
<1> USE DEF Init, TableInit
<1>1. /\ DOMAIN referenceMap = {} /\ DOMAIN referenceTracker = {}
      /\ Range(availableReferences) = {} /\ Len(availableReferences) = 0
  BY DEF Range
<1>2. IsFiniteSet({}) /\ Cardinality({}) = 0
  BY FS_EmptySet
<1>3. TypeOK
  <2>1. /\ referenceMap \in [{} -> Values]
        /\ referenceTracker \in [{} -> [refCount : Nat \ {0}, index : Nat \ {0}]]
    OBVIOUS
  <2>2. availableReferences \in Seq(Nat \ {0})
    OBVIOUS
  <2>3. TableTypeOK
    BY <1>1, <2>1, <2>2 DEF TableTypeOK
  <2>4. userdata \in [Userdata -> [index : Nat, gc : BOOLEAN]]
    BY DEF Free
  <2> QED
    BY <2>3, <2>4 DEF TypeOK
<1>4. IndexSpace
  <2>1. IsInjective(availableReferences)
    BY <1>1 DEF IsInjective
  <2>2. Cardinality(DOMAIN referenceMap) + Len(availableReferences) = 0
    BY <1>1, <1>2
  <2>3. 1 .. 0 = {}
    OBVIOUS
  <2> QED
    BY <1>1, <2>1, <2>2, <2>3 DEF IndexSpace
<1>5. TableInv
  BY <1>1, <1>2, <1>3, <1>4 DEF TableInv, TypeOK, MapMatchesTracker
<1>6. \A u \in Userdata : ~Live(u) /\ held[u] = NoObject
  BY DEF Live, Free
<1>7. RefCountExact
  <2> SUFFICES ASSUME NEW o \in Objects
               PROVE  RefCount(o) = Cardinality(Holders(o)) + lost[o]
    BY DEF RefCountExact
  <2>1. Holders(o) = {}
    BY <1>6, NoObjectAssumption DEF Holders, Values
  <2> QED
    BY <1>1, <1>2, <2>1 DEF RefCount, IsTracked
<1> QED
  BY <1>3, <1>5, <1>6, <1>7 DEF IInv, LiveIffHeld, HolderReadsItsObject

\* A push that succeeds.
LEMMA PushValueKeeps ==
  ASSUME IInv, NEW o \in Objects, NEW u \in Userdata, NEW gc \in BOOLEAN,
         PushValue(o, u, gc)
  PROVE  IInv'
<1>1. /\ TableInv /\ Ref(o) /\ ~Live(u)
      /\ held[u] = NoObject
      /\ held \in [Userdata -> Objects \cup {NoObject}]
      /\ held' = [held EXCEPT ![u] = o]
      /\ userdata' = [userdata EXCEPT ![u] = [index |-> RefIndex(o), gc |-> gc]]
      /\ UNCHANGED <<closed, lost>>
  BY DEF IInv, PushValue, LiveIffHeld, TypeOK
<1>2. TableInv'
  BY <1>1, RefKeepsTable
<1>3. /\ RefCount(o)' = RefCount(o) + 1
      /\ \A p \in Objects \ {o} : RefCount(p)' = RefCount(p)
      /\ RefIndex(o) \in Nat \ {0}
      /\ RefIndex(o) \in DOMAIN referenceMap'
      /\ referenceMap'[RefIndex(o)] = o
      /\ \A i \in DOMAIN referenceMap :
           i \in DOMAIN referenceMap' /\ referenceMap'[i] = referenceMap[i]
  BY <1>1, RefEffect
<1>4. TypeOK'
  BY <1>1, <1>2, <1>3 DEF IInv, TypeOK, TableInv
<1>5. \A w \in Userdata : userdata'[w] = IF w = u THEN [index |-> RefIndex(o), gc |-> gc]
                                                  ELSE userdata[w]
  BY <1>1 DEF IInv, TypeOK
<1>6. \A w \in Userdata : held'[w] = IF w = u THEN o ELSE held[w]
  BY <1>1
<1>7. LiveIffHeld'
  BY <1>3, <1>5, <1>6, NoObjectAssumption DEF IInv, LiveIffHeld, Live, Values
<1>8. HolderReadsItsObject'
  <2> SUFFICES ASSUME NEW w \in Userdata, Live(w)'
               PROVE  GetRef(w)' = held'[w]
    BY DEF HolderReadsItsObject
  <2>1. CASE w = u
    BY <1>3, <1>5, <1>6, <2>1 DEF GetRef, IsBound
  <2>2. CASE w # u
    <3>1. Live(w) /\ userdata'[w] = userdata[w] /\ held'[w] = held[w]
      BY <1>5, <1>6, <2>2 DEF Live
    <3>2. userdata[w].index \in DOMAIN referenceMap
          /\ referenceMap[userdata[w].index] = held[w]
      BY <3>1, HolderIsTracked
    <3> QED
      BY <1>3, <3>1, <3>2 DEF GetRef, IsBound
  <2> QED
    BY <2>1, <2>2
<1>9. RefCountExact'
  <2>1. /\ Cardinality(Holders(o)') = Cardinality(Holders(o)) + 1
        /\ \A p \in Objects \ {o} : Holders(p)' = Holders(p)
    BY <1>1, HoldersGrow
  <2> SUFFICES ASSUME NEW p \in Objects
               PROVE  RefCount(p)' = Cardinality(Holders(p)') + lost'[p]
    BY DEF RefCountExact
  <2>2. RefCount(p) = Cardinality(Holders(p)) + lost[p] /\ lost[p] \in Nat
    BY DEF IInv, RefCountExact, TypeOK
  <2>3. Cardinality(Holders(p)) \in Nat
    BY HoldersFinite
  <2> QED
    BY <1>1, <1>3, <2>1, <2>2, <2>3
<1> QED
  BY <1>2, <1>4, <1>7, <1>8, <1>9 DEF IInv

\* A push whose userdata could not be allocated.
LEMMA PushValueNoMemoryKeeps ==
  ASSUME IInv, NEW o \in Objects, PushValueNoMemory(o)
  PROVE  IInv'
<1>1. /\ TableInv /\ Ref(o)
      /\ lost' = [lost EXCEPT ![o] = @ + 1]
      /\ UNCHANGED <<userdata, closed, held>>
  BY DEF IInv, PushValueNoMemory
<1>2. TableInv'
  BY <1>1, RefKeepsTable
<1>3. /\ RefCount(o)' = RefCount(o) + 1
      /\ \A p \in Objects \ {o} : RefCount(p)' = RefCount(p)
      /\ \A i \in DOMAIN referenceMap :
           i \in DOMAIN referenceMap' /\ referenceMap'[i] = referenceMap[i]
  BY <1>1, RefEffect
<1>4. TypeOK'
  BY <1>1, <1>2 DEF IInv, TypeOK, TableInv
<1>5. LiveIffHeld'
  BY <1>1 DEF IInv, LiveIffHeld, Live
<1>6. HolderReadsItsObject'
  <2> SUFFICES ASSUME NEW w \in Userdata, Live(w)'
               PROVE  GetRef(w)' = held'[w]
    BY DEF HolderReadsItsObject
  <2>1. Live(w)
    BY <1>1 DEF Live
  <2>2. userdata[w].index \in DOMAIN referenceMap
        /\ referenceMap[userdata[w].index] = held[w]
    BY <2>1, HolderIsTracked
  <2> QED
    BY <1>1, <1>3, <2>2 DEF GetRef, IsBound
<1>7. RefCountExact'
  <2> SUFFICES ASSUME NEW p \in Objects
               PROVE  RefCount(p)' = Cardinality(Holders(p)') + lost'[p]
    BY DEF RefCountExact
  <2>1. RefCount(p) = Cardinality(Holders(p)) + lost[p] /\ lost \in [Objects -> Nat]
    BY DEF IInv, RefCountExact, TypeOK
  <2>2. Holders(p)' = Holders(p) /\ Cardinality(Holders(p)) \in Nat
    BY <1>1, HoldersFinite DEF Holders
  <2>3. lost'[p] = IF p = o THEN lost[p] + 1 ELSE lost[p]
    BY <1>1, <2>1
  <2> QED
    BY <1>3, <2>1, <2>2, <2>3
<1> QED
  BY <1>2, <1>4, <1>5, <1>6, <1>7 DEF IInv

\* A push whose ref threw.
LEMMA PushValueThrowsKeeps ==
  ASSUME IInv, NEW v \in Primitives, PushValueThrows(v)
  PROVE  IInv'
<1>1. /\ TableInv /\ RefThrows(v)
      /\ UNCHANGED <<userdata, closed, held, lost>>
  BY DEF IInv, PushValueThrows
<1>2. TableInv'
  BY <1>1, RefThrowsKeepsTable
<1>3. NextIndex \notin DOMAIN referenceMap
  BY <1>1, NextIndexUnused
<1>4. /\ referenceTracker' = referenceTracker
      /\ \A i \in DOMAIN referenceMap :
           i \in DOMAIN referenceMap' /\ referenceMap'[i] = referenceMap[i]
  BY <1>1, <1>3 DEF RefThrows, Bind
<1>5. TypeOK'
  BY <1>1, <1>2 DEF IInv, TypeOK, TableInv
<1>6. LiveIffHeld'
  BY <1>1 DEF IInv, LiveIffHeld, Live
<1>7. HolderReadsItsObject'
  <2> SUFFICES ASSUME NEW w \in Userdata, Live(w)'
               PROVE  GetRef(w)' = held'[w]
    BY DEF HolderReadsItsObject
  <2>1. Live(w)
    BY <1>1 DEF Live
  <2>2. userdata[w].index \in DOMAIN referenceMap
        /\ referenceMap[userdata[w].index] = held[w]
    BY <2>1, HolderIsTracked
  <2> QED
    BY <1>1, <1>4, <2>2 DEF GetRef, IsBound
<1>8. RefCountExact'
  BY <1>1, <1>4 DEF IInv, RefCountExact, RefCount, IsTracked, Holders
<1> QED
  BY <1>2, <1>5, <1>6, <1>7, <1>8 DEF IInv

\* What FreeBlock does to the blocks, common to Finalize and Sweep.
LEMMA FreeBlockEffect ==
  ASSUME IInv, NEW u \in Userdata, FreeBlock(u)
  PROVE  /\ userdata' \in [Userdata -> [index : Nat, gc : BOOLEAN]]
         /\ held' \in [Userdata -> Objects \cup {NoObject}]
         /\ LiveIffHeld'
         /\ ~Live(u)'
         /\ \A w \in Userdata \ {u} :
              userdata'[w] = userdata[w] /\ held'[w] = held[w] /\ Live(w)' = Live(w)
<1>1. \A w \in Userdata : userdata'[w] = IF w = u THEN Free ELSE userdata[w]
  BY DEF FreeBlock, IInv, TypeOK
<1>2. \A w \in Userdata : held'[w] = IF w = u THEN NoObject ELSE held[w]
  BY DEF FreeBlock, IInv, TypeOK
<1>3. userdata' \in [Userdata -> [index : Nat, gc : BOOLEAN]]
  BY DEF FreeBlock, IInv, TypeOK, Free
<1>4. held' \in [Userdata -> Objects \cup {NoObject}]
  BY DEF FreeBlock, IInv, TypeOK
<1>5. \A w \in Userdata : Live(w)' <=> (w # u /\ Live(w))
  BY <1>1 DEF Live, Free
<1>6. LiveIffHeld'
  BY <1>2, <1>5 DEF IInv, LiveIffHeld
<1> QED
  BY <1>1, <1>2, <1>3, <1>4, <1>5, <1>6 DEF Live

\* A finalizer gives its reference back.
LEMMA FinalizeKeeps ==
  ASSUME IInv, NEW u \in Userdata, Finalize(u)
  PROVE  IInv'
<1>1. PICK o : o = held[u]
  OBVIOUS
<1>2. PICK i : i = userdata[u].index
  OBVIOUS
<1>3. /\ TableInv /\ Live(u) /\ Unref(i) /\ FreeBlock(u)
      /\ held' = [held EXCEPT ![u] = NoObject]
      /\ held \in [Userdata -> Objects \cup {NoObject}]
      /\ UNCHANGED <<closed, lost>>
  BY <1>2 DEF IInv, Finalize, FreeBlock, TypeOK
<1>4. /\ o \in Objects /\ i \in DOMAIN referenceMap
      /\ o = referenceMap[i] /\ IsTracked(o)
  BY <1>1, <1>2, <1>3, HolderIsTracked
<1>5. TableInv'
  BY <1>3, <1>4, UnrefKeepsTable
<1>6. /\ RefCount(o) \in Nat \ {0}
      /\ RefCount(o)' = RefCount(o) - 1
      /\ \A p \in Objects \ {o} : RefCount(p)' = RefCount(p)
      /\ RefCount(o) > 1 => referenceMap' = referenceMap
      /\ \A j \in DOMAIN referenceMap \ {i} :
           j \in DOMAIN referenceMap' /\ referenceMap'[j] = referenceMap[j]
  BY <1>3, <1>4, UnrefEffect
<1>7. /\ LiveIffHeld' /\ ~Live(u)'
      /\ \A w \in Userdata \ {u} :
           userdata'[w] = userdata[w] /\ held'[w] = held[w] /\ Live(w)' = Live(w)
  BY <1>3, FreeBlockEffect
<1>8. TypeOK'
  BY <1>3, <1>5, FreeBlockEffect DEF IInv, TypeOK, TableInv
<1>9. /\ Holders(o)' = Holders(o) \ {u}
      /\ Cardinality(Holders(o) \ {u}) = Cardinality(Holders(o)) - 1
      /\ Cardinality(Holders(o)) \in Nat \ {0}
      /\ \A p \in Objects \ {o} : Holders(p)' = Holders(p)
  BY <1>1, <1>3, <1>4, HoldersShrink
<1>10. \A p \in Objects : /\ RefCount(p) = Cardinality(Holders(p)) + lost[p]
                          /\ lost[p] \in Nat
  BY DEF IInv, RefCountExact, TypeOK
<1>11. RefCountExact'
  <2> SUFFICES ASSUME NEW p \in Objects
               PROVE  RefCount(p)' = Cardinality(Holders(p)') + lost'[p]
    BY DEF RefCountExact
  <2>1. CASE p = o
    <3>1. /\ RefCount(o)' = RefCount(o) - 1
          /\ RefCount(o) = Cardinality(Holders(o)) + lost[o]
          /\ lost'[o] = lost[o] /\ lost[o] \in Nat
      BY <1>3, <1>4, <1>6, <1>10
    <3>2. Cardinality(Holders(o)') = Cardinality(Holders(o)) - 1
      BY <1>9
    <3>3. RefCount(o)' = Cardinality(Holders(o)') + lost'[o]
      BY <1>9, <3>1, <3>2
    <3> QED
      BY <2>1, <3>3
  <2>2. CASE p # o
    BY <1>3, <1>6, <1>9, <1>10, <2>2
  <2> QED
    BY <2>1, <2>2
<1>12. HolderReadsItsObject'
  <2> SUFFICES ASSUME NEW w \in Userdata, Live(w)'
               PROVE  GetRef(w)' = held'[w]
    BY DEF HolderReadsItsObject
  <2>1. w # u /\ userdata'[w] = userdata[w] /\ held'[w] = held[w] /\ Live(w)
    BY <1>7
  <2>2. /\ userdata[w].index \in DOMAIN referenceMap
        /\ referenceMap[userdata[w].index] = held[w]
    BY <2>1, HolderIsTracked
  <2>3. CASE userdata[w].index # i
    BY <1>6, <2>1, <2>2, <2>3 DEF GetRef, IsBound
  <2>4. CASE userdata[w].index = i
    <3>1. w \in Holders(o) \ {u}
      BY <1>4, <2>1, <2>2, <2>4 DEF Holders
    <3>2. IsFiniteSet(Holders(o) \ {u})
      BY HoldersFinite, FS_RemoveElement
    <3>3. Cardinality(Holders(o) \ {u}) # 0
      BY <3>1, <3>2, FS_EmptySet
    <3>4. RefCount(o) > 1
      BY <1>4, <1>9, <1>10, <3>3
    <3> QED
      BY <1>6, <2>1, <2>2, <3>4 DEF GetRef, IsBound
  <2> QED
    BY <2>3, <2>4
<1> QED
  BY <1>5, <1>7, <1>8, <1>11, <1>12 DEF IInv

\* A block without __gc is swept: its reference joins the lost ones.
LEMMA SweepKeeps ==
  ASSUME IInv, NEW u \in Userdata, Sweep(u)
  PROVE  IInv'
<1>1. PICK o : o = held[u]
  OBVIOUS
<1>2. /\ Live(u) /\ FreeBlock(u)
      /\ lost' = [lost EXCEPT ![o] = @ + 1]
      /\ held' = [held EXCEPT ![u] = NoObject]
      /\ held \in [Userdata -> Objects \cup {NoObject}]
      /\ UNCHANGED <<tableVars, closed>>
  BY <1>1 DEF IInv, Sweep, FreeBlock, TypeOK
<1>3. o \in Objects
  BY <1>1, <1>2, HolderIsTracked
<1>4. TableInv'
  BY <1>2 DEF IInv, TableInv, TableTypeOK, MapMatchesTracker, IndexSpace, tableVars
<1>5. /\ LiveIffHeld' /\ ~Live(u)'
      /\ \A w \in Userdata \ {u} :
           userdata'[w] = userdata[w] /\ held'[w] = held[w] /\ Live(w)' = Live(w)
  BY <1>2, FreeBlockEffect
<1>6. lost \in [Objects -> Nat]
  BY DEF IInv, TypeOK
<1>7. TypeOK'
  <2>1. lost' \in [Objects -> Nat]
    BY <1>2, <1>3, <1>6
  <2> QED
    BY <1>2, <1>4, <2>1, FreeBlockEffect DEF IInv, TypeOK, TableInv
<1>8. HolderReadsItsObject'
  BY <1>2, <1>5 DEF IInv, HolderReadsItsObject, GetRef, IsBound, tableVars
<1>9. /\ Holders(o)' = Holders(o) \ {u}
      /\ Cardinality(Holders(o) \ {u}) = Cardinality(Holders(o)) - 1
      /\ Cardinality(Holders(o)) \in Nat \ {0}
      /\ \A p \in Objects \ {o} : Holders(p)' = Holders(p)
  BY <1>1, <1>2, <1>3, HoldersShrink
<1>10. RefCountExact'
  <2> SUFFICES ASSUME NEW p \in Objects
               PROVE  RefCount(p)' = Cardinality(Holders(p)') + lost'[p]
    BY DEF RefCountExact
  <2>1. RefCount(p)' = RefCount(p)
    BY <1>2 DEF RefCount, IsTracked, tableVars
  <2>2. RefCount(p) = Cardinality(Holders(p)) + lost[p]
    BY DEF IInv, RefCountExact
  <2>3. CASE p = o
    <3>1. lost'[p] = lost[p] + 1
      BY <1>2, <1>3, <1>6, <2>3
    <3> QED
      BY <1>3, <1>6, <1>9, <2>1, <2>2, <2>3, <3>1
  <2>4. CASE p # o
    <3>1. lost'[p] = lost[p]
      BY <1>2, <1>3, <1>6, <2>4
    <3> QED
      BY <1>9, <2>1, <2>2, <2>4, <3>1
  <2> QED
    BY <2>3, <2>4
<1> QED
  BY <1>4, <1>5, <1>7, <1>8, <1>10 DEF IInv

\* Closing the state, and steps that change nothing.
LEMMA OthersKeep ==
  ASSUME IInv, Close \/ UNCHANGED vars
  PROVE  IInv'
<1>1. UNCHANGED <<tableVars, userdata, held, lost>> /\ closed' \in BOOLEAN
  BY DEF Close, vars, IInv, TypeOK
<1>2. TableInv'
  BY <1>1 DEF IInv, TableInv, TableTypeOK, MapMatchesTracker, IndexSpace, tableVars
<1>3. TypeOK'
  BY <1>1, <1>2 DEF IInv, TypeOK, TableInv
<1>4. LiveIffHeld' /\ HolderReadsItsObject'
  BY <1>1 DEF IInv, LiveIffHeld, HolderReadsItsObject, Live, GetRef, IsBound, tableVars
<1>5. RefCountExact'
  BY <1>1 DEF IInv, RefCountExact, RefCount, IsTracked, Holders, tableVars
<1> QED
  BY <1>2, <1>3, <1>4, <1>5 DEF IInv

LEMMA StepKeeps == IInv /\ [Next]_vars => IInv'
<1> SUFFICES ASSUME IInv, [Next]_vars PROVE IInv'
  OBVIOUS
<1>1. CASE \E o \in Objects, u \in Userdata, gc \in BOOLEAN : PushValue(o, u, gc)
  BY <1>1, PushValueKeeps
<1>2. CASE \E o \in Objects : PushValueNoMemory(o)
  BY <1>2, PushValueNoMemoryKeeps
<1>3. CASE \E v \in Primitives : PushValueThrows(v)
  BY <1>3, PushValueThrowsKeeps
<1>4. CASE \E u \in Userdata : Finalize(u) \/ Sweep(u)
  BY <1>4, FinalizeKeeps, SweepKeeps
<1>5. CASE Close \/ UNCHANGED vars
  BY <1>5, OthersKeep
<1> QED
  BY <1>1, <1>2, <1>3, <1>4, <1>5 DEF Next

\* The inductive invariant holds in every reachable state, for any number of
\* objects, primitives and blocks (api.ts:370-413 under every history of
\* pushes, failed pushes and finalizers).
THEOREM Safety == Spec => []IInv
BY InitEstablishes, StepKeeps, PTL DEF Spec

\* The invariants the runs check follow from it.
THEOREM HoldersNeverDangle ==
  Spec => [](TypeOK /\ HolderReadsItsObject /\ RefCountExact)
BY Safety, PTL DEF IInv

\* The index of the next value is positive and unused (api.ts:378-379), and
\* indices in use and indices given back never overlap.
THEOREM IndicesAreFresh == Spec => [](NextIndexIsFree /\ IndicesPartitioned)
<1>1. IInv => NextIndexIsFree
  BY NextIndexUnused DEF IInv, NextIndexIsFree, IsBound
<1>2. IInv => IndicesPartitioned
  BY DEF IInv, TableInv, IndicesPartitioned
<1> QED
  BY <1>1, <1>2, Safety, PTL

\* The early returns of unref are dead code for finalizers (api.ts:393-401).
THEOREM FinalizersFindTheirEntries == Spec => []FinalizerFindsItsEntry
<1>1. IInv => FinalizerFindsItsEntry
  BY HolderIsTracked DEF FinalizerFindsItsEntry, IsBound
<1> QED
  BY <1>1, Safety, PTL

\* Only the finalizer of the last holder takes a value out of the map.
THEOREM LastHolderReleases == Spec => OnlyLastHolderReleases
<1> DEFINE A == \A i \in DOMAIN referenceMap :
                  i \notin DOMAIN referenceMap' =>
                    \E u \in Userdata : Holders(referenceMap[i]) = {u} /\ ~Live(u)'
<1>1. ASSUME IInv, [Next]_vars PROVE [A]_vars
  <2> SUFFICES ASSUME NEW i \in DOMAIN referenceMap, i \notin DOMAIN referenceMap', Next
               PROVE  \E u \in Userdata : Holders(referenceMap[i]) = {u} /\ ~Live(u)'
    BY <1>1
  <2>1. TableInv
    BY <1>1 DEF IInv
  <2>2. ASSUME NEW o \in Objects, Ref(o) PROVE FALSE
    BY <2>1, <2>2, RefEffect
  <2>3. ASSUME NEW v \in Primitives, RefThrows(v) PROVE FALSE
    BY <2>3 DEF RefThrows, Bind
  <2>4. ~(referenceMap' = referenceMap)
    OBVIOUS
  <2>5. PICK u \in Userdata : Finalize(u)
    BY <2>2, <2>3, <2>4
       DEF Next, PushValue, PushValueNoMemory, PushValueThrows, Sweep, Close, tableVars
  <2>6. PICK k : k = userdata[u].index
    OBVIOUS
  <2>7. PICK o : o = held[u]
    OBVIOUS
  <2>8. /\ Live(u) /\ Unref(k) /\ FreeBlock(u) /\ UNCHANGED lost
        /\ held' = [held EXCEPT ![u] = NoObject]
        /\ held \in [Userdata -> Objects \cup {NoObject}]
    BY <1>1, <2>5, <2>6 DEF Finalize, FreeBlock, IInv, TypeOK
  <2>9. /\ o \in Objects /\ k \in DOMAIN referenceMap
        /\ o = referenceMap[k] /\ IsTracked(o)
    BY <1>1, <2>6, <2>7, <2>8, HolderIsTracked
  <2>10. /\ RefCount(o) \in Nat \ {0}
         /\ RefCount(o) > 1 => referenceMap' = referenceMap
         /\ \A j \in DOMAIN referenceMap \ {k} : j \in DOMAIN referenceMap'
    BY <2>1, <2>8, <2>9, UnrefEffect
  <2>11. i = k /\ RefCount(o) = 1
    BY <2>4, <2>10
  <2>12. /\ RefCount(o) = Cardinality(Holders(o)) + lost[o] /\ lost[o] \in Nat
         /\ Cardinality(Holders(o)) \in Nat
    BY <1>1, <2>9, HoldersFinite DEF IInv, RefCountExact, TypeOK
  <2>13. u \in Holders(o) /\ Cardinality(Holders(o)) \in Nat \ {0}
    BY <2>7, <2>8, <2>9, HoldersShrink DEF Holders
  <2>14. Cardinality(Holders(o)) = 1
    BY <2>11, <2>12, <2>13
  <2>15. Holders(o) = {u}
    BY <2>13, <2>14, HoldersFinite, FS_Singleton
  <2>16. ~Live(u)'
    BY <1>1, <2>8, FreeBlockEffect
  <2> QED
    BY <2>9, <2>11, <2>15, <2>16
<1>2. Spec => [][A]_vars
  BY <1>1, Safety, PTL DEF Spec
<1> QED
  BY <1>2 DEF OnlyLastHolderReleases

-----------------------------------------------------------------------------
(***************************************************************************)
(* The table implements ObjectPins.                                        *)
(***************************************************************************)
HoldsBar == [u \in Userdata |-> IF Live(u) THEN GetRef(u) ELSE NoObject]
LeakedBar == {o \in Objects : lost[o] > 0} \cup (Range(referenceMap) \cap Primitives)
WeakBar == {u \in Userdata : Live(u) /\ ~userdata[u].gc}

\* Under the invariant the mapped holds is the history variable itself.
LEMMA HoldsIsHeld == IInv => HoldsBar = held
<1> SUFFICES ASSUME IInv PROVE HoldsBar = held
  OBVIOUS
<1>1. held \in [Userdata -> Objects \cup {NoObject}]
  BY DEF IInv, TypeOK
<1>2. \A u \in Userdata : (IF Live(u) THEN GetRef(u) ELSE NoObject) = held[u]
  BY DEF IInv, HolderReadsItsObject, LiveIffHeld
<1> QED
  BY <1>1, <1>2 DEF HoldsBar

\* The values of the map are the held ones and the leaked ones.
LEMMA PinnedIsReachable ==
  IInv => Range(referenceMap) = Pins!HeldObjects(held) \cup LeakedBar
<1> SUFFICES ASSUME IInv
             PROVE  Range(referenceMap) = Pins!HeldObjects(held) \cup LeakedBar
  OBVIOUS
<1>1. \A o \in Objects : /\ RefCount(o) = Cardinality(Holders(o)) + lost[o]
                         /\ lost[o] \in Nat
                         /\ Cardinality(Holders(o)) \in Nat
  BY HoldersFinite DEF IInv, RefCountExact, TypeOK
<1>2. \A o \in Objects : o \in Range(referenceMap) <=> RefCount(o) # 0
  <2> TAKE o \in Objects
  <2>1. ASSUME o \in Range(referenceMap) PROVE IsTracked(o)
    BY <2>1 DEF Range, IInv, TableInv, MapMatchesTracker, IsTracked
  <2>2. ASSUME IsTracked(o) PROVE o \in Range(referenceMap)
    BY <2>2 DEF Range, IInv, TableInv, MapMatchesTracker, IsTracked
  <2>3. IsTracked(o) => referenceTracker[o].refCount \in Nat \ {0}
    BY DEF IInv, TableInv, TableTypeOK, IsTracked
  <2> QED
    BY <2>1, <2>2, <2>3 DEF RefCount
<1>3. \A o \in Objects : o \in Pins!HeldObjects(held) <=> Cardinality(Holders(o)) # 0
  <2> TAKE o \in Objects
  <2>1. o # NoObject
    BY NoObjectAssumption DEF Values
  <2>2. Cardinality(Holders(o)) # 0 <=> Holders(o) # {}
    BY HoldersFinite, FS_EmptySet
  <2> QED
    BY <2>1, <2>2 DEF Pins!HeldObjects, Holders
<1>4. Pins!HeldObjects(held) \subseteq Objects
  BY DEF Pins!HeldObjects, IInv, TypeOK
<1>5. Range(referenceMap) \subseteq Objects \cup Primitives
  BY DEF Range, IInv, TableInv, TableTypeOK, Values
<1>6. \A o \in Objects : o \in LeakedBar <=> lost[o] > 0
  BY DisjointValues DEF LeakedBar
<1>7. \A v \in Primitives : v \in LeakedBar <=> v \in Range(referenceMap)
  BY DisjointValues DEF LeakedBar
<1>8. LeakedBar \subseteq Objects \cup Primitives
  BY DEF LeakedBar
<1>9. \A o \in Objects :
        o \in Range(referenceMap) <=> o \in Pins!HeldObjects(held) \cup LeakedBar
  BY <1>1, <1>2, <1>3, <1>6
<1>10. \A v \in Primitives :
        v \in Range(referenceMap) <=> v \in Pins!HeldObjects(held) \cup LeakedBar
  BY <1>4, <1>7, DisjointValues
<1> QED
  BY <1>4, <1>5, <1>8, <1>9, <1>10

\* The two facts in the state after a step.
LEMMA HoldsIsHeldNext == IInv' => (HoldsBar = held)'
BY HoldsIsHeld, PTL

LEMMA PinnedIsReachableNext ==
  IInv' => (Range(referenceMap) = Pins!HeldObjects(held) \cup LeakedBar)'
BY PinnedIsReachable, PTL

LEMMA InitRefines == Init => Pins!Init
<1> SUFFICES ASSUME Init PROVE Pins!Init
  OBVIOUS
<1>1. \A u \in Userdata : ~Live(u)
  BY DEF Init, Live, Free
<1>2. Range(referenceMap) = {}
  BY DEF Init, TableInit, Range
<1>3. \A o \in Objects : ~(lost[o] > 0)
  BY DEF Init
<1> QED
  BY <1>1, <1>2, <1>3 DEF Pins!Init

\* A successful push is Hold.
LEMMA PushValueRefines ==
  ASSUME IInv, IInv', NEW o \in Objects, NEW u \in Userdata, NEW gc \in BOOLEAN,
         PushValue(o, u, gc)
  PROVE  Pins!Hold(u, o)
<1>1. /\ TableInv /\ Ref(o) /\ ~Live(u) /\ held[u] = NoObject
      /\ held' = [held EXCEPT ![u] = o] /\ lost' = lost
      /\ userdata' = [userdata EXCEPT ![u] = [index |-> RefIndex(o), gc |-> gc]]
      /\ userdata \in [Userdata -> [index : Nat, gc : BOOLEAN]]
  BY DEF IInv, PushValue, LiveIffHeld, TypeOK
<1>2. HoldsBar = held /\ HoldsBar' = held'
  BY HoldsIsHeld, HoldsIsHeldNext
<1>3. RefIndex(o) # 0 /\ Range(referenceMap') = Range(referenceMap) \cup {o}
  BY <1>1, RefEffect
<1>4. LeakedBar' = LeakedBar
  BY <1>1, <1>3, DisjointValues DEF LeakedBar
<1>5. WeakBar' \in {WeakBar, WeakBar \cup {u}}
  <2>1. \A w \in Userdata \ {u} : userdata'[w] = userdata[w]
    BY <1>1
  <2>2. userdata'[u] = [index |-> RefIndex(o), gc |-> gc]
    BY <1>1
  <2>3. u \notin WeakBar
    BY <1>1 DEF WeakBar
  <2>4. \A w \in Userdata \ {u} : w \in WeakBar' <=> w \in WeakBar
    BY <2>1 DEF WeakBar, Live
  <2>5. u \in WeakBar' <=> ~gc
    BY <1>3, <2>2 DEF WeakBar, Live
  <2>6. WeakBar \subseteq Userdata /\ WeakBar' \subseteq Userdata
    BY DEF WeakBar
  <2> QED
    BY <2>3, <2>4, <2>5, <2>6
<1> QED
  BY <1>1, <1>2, <1>4, <1>5 DEF Pins!Hold, HoldsBar, LeakedBar, WeakBar

\* A failed push is Leak.
LEMMA FailedPushRefines ==
  ASSUME IInv, IInv', NEW v \in Objects \cup Primitives,
         \/ v \in Objects /\ PushValueNoMemory(v)
         \/ v \in Primitives /\ PushValueThrows(v)
  PROVE  Pins!Leak(v)
<1>1. UNCHANGED <<userdata, held>> /\ WeakBar' = WeakBar
  BY DEF PushValueNoMemory, PushValueThrows, WeakBar, Live
<1>2. HoldsBar' = HoldsBar
  BY <1>1, HoldsIsHeld, HoldsIsHeldNext
<1>3. CASE v \in Objects /\ PushValueNoMemory(v)
  <2>1. Range(referenceMap') = Range(referenceMap) \cup {v}
    BY <1>3, RefEffect DEF PushValueNoMemory, IInv
  <2>2. \A o \in Objects : lost'[o] > 0 <=> (o = v \/ lost[o] > 0)
    BY <1>3 DEF PushValueNoMemory, IInv, TypeOK
  <2>3. Range(referenceMap') \cap Primitives = Range(referenceMap) \cap Primitives
    BY <1>3, <2>1, DisjointValues
  <2>4. LeakedBar' = LeakedBar \cup {v}
    BY <1>3, <2>2, <2>3 DEF LeakedBar
  <2> QED
    BY <1>1, <1>2, <2>4 DEF Pins!Leak, HoldsBar, LeakedBar, WeakBar
<1>4. CASE v \in Primitives /\ PushValueThrows(v)
  <2>1. Bind(v) /\ lost' = lost /\ NextIndex \notin DOMAIN referenceMap
    BY <1>4, NextIndexUnused DEF PushValueThrows, RefThrows, IInv
  <2>2. Range(referenceMap') = Range(referenceMap) \cup {v}
    BY <2>1 DEF Bind, Range
  <2>3. LeakedBar' = LeakedBar \cup {v}
    BY <1>4, <2>1, <2>2 DEF LeakedBar
  <2> QED
    BY <1>1, <1>2, <2>3 DEF Pins!Leak, HoldsBar, LeakedBar, WeakBar
<1> QED
  BY <1>3, <1>4

\* The death of a block is Drop.
LEMMA DeathRefines ==
  ASSUME IInv, IInv', NEW u \in Userdata, Finalize(u) \/ Sweep(u)
  PROVE  Pins!Drop(u)
<1>1. PICK o : o = held[u]
  OBVIOUS
<1>2. PICK k : k = userdata[u].index
  OBVIOUS
<1>3. Live(u) /\ FreeBlock(u) /\ held' = [held EXCEPT ![u] = NoObject]
  BY DEF Finalize, Sweep, FreeBlock
<1>4. /\ o \in Objects /\ k \in DOMAIN referenceMap
      /\ o = referenceMap[k] /\ IsTracked(o)
  BY <1>1, <1>2, <1>3, HolderIsTracked
<1>5. o # NoObject
  BY <1>4, NoObjectAssumption DEF Values
<1>6. HoldsBar = held /\ HoldsBar' = held'
  BY HoldsIsHeld, HoldsIsHeldNext
<1>7. WeakBar' = WeakBar \ {u}
  <2>1. /\ ~Live(u)'
        /\ \A w \in Userdata \ {u} : userdata'[w] = userdata[w] /\ Live(w)' = Live(w)
    BY <1>3, FreeBlockEffect
  <2> QED
    BY <2>1 DEF WeakBar
<1>8. u \in WeakBar <=> ~userdata[u].gc
  BY <1>3 DEF WeakBar
<1>9. LeakedBar' = IF u \in WeakBar THEN LeakedBar \cup {o} ELSE LeakedBar
  <2>1. CASE Finalize(u)
    <3>1. u \notin WeakBar /\ lost' = lost /\ Unref(k) /\ TableInv
      BY <1>2, <1>8, <2>1 DEF Finalize, IInv
    <3>2. /\ RefCount(o) \in Nat \ {0}
          /\ RefCount(o) > 1 => referenceMap' = referenceMap
          /\ RefCount(o) = 1 => Range(referenceMap') = Range(referenceMap) \ {o}
      BY <1>4, <3>1, UnrefEffect
    <3>3. Range(referenceMap') \in {Range(referenceMap), Range(referenceMap) \ {o}}
      BY <3>2
    <3>4. Range(referenceMap') \cap Primitives = Range(referenceMap) \cap Primitives
      BY <1>4, <3>3, DisjointValues
    <3> QED
      BY <3>1, <3>4 DEF LeakedBar
  <2>2. CASE Sweep(u)
    <3>1. u \in WeakBar /\ UNCHANGED referenceMap /\ lost' = [lost EXCEPT ![o] = @ + 1]
      BY <1>1, <1>8, <2>2 DEF Sweep, tableVars
    <3>2. \A p \in Objects : lost'[p] > 0 <=> (p = o \/ lost[p] > 0)
      BY <1>4, <3>1 DEF IInv, TypeOK
    <3> QED
      BY <1>4, <3>1, <3>2 DEF LeakedBar
  <2> QED
    BY <2>1, <2>2
<1> QED
  BY <1>1, <1>3, <1>5, <1>6, <1>7, <1>9 DEF Pins!Drop, HoldsBar, LeakedBar, WeakBar

LEMMA StepRefines ==
  ASSUME IInv, IInv', [Next]_vars
  PROVE  [Pins!Next]_(Pins!pinsVars)
<1>1. HoldsBar' = held'
  BY HoldsIsHeld, HoldsIsHeldNext
<1>2. Range(referenceMap)' = Pins!HeldObjects(HoldsBar') \cup LeakedBar'
  <2>1. Range(referenceMap)' = (Pins!HeldObjects(held) \cup LeakedBar)'
    BY PinnedIsReachableNext
  <2> QED
    BY <1>1, <2>1 DEF Pins!HeldObjects
<1>3. ASSUME Pins!Step PROVE Pins!Next
  BY <1>2, <1>3 DEF Pins!Next, HoldsBar, LeakedBar
<1>4. CASE \E o \in Objects, u \in Userdata, gc \in BOOLEAN : PushValue(o, u, gc)
  BY <1>3, <1>4, PushValueRefines DEF Pins!Step
<1>5. CASE (\E o \in Objects : PushValueNoMemory(o)) \/ (\E v \in Primitives : PushValueThrows(v))
  BY <1>3, <1>5, FailedPushRefines DEF Pins!Step
<1>6. CASE \E u \in Userdata : Finalize(u) \/ Sweep(u)
  BY <1>3, <1>6, DeathRefines DEF Pins!Step
<1>7. CASE Close \/ UNCHANGED vars
  <2>1. UNCHANGED <<tableVars, userdata, held, lost>>
    BY <1>7 DEF Close, vars
  <2>2. UNCHANGED <<HoldsBar, Range(referenceMap), LeakedBar, WeakBar>>
    BY <2>1 DEF HoldsBar, LeakedBar, WeakBar, Live, GetRef, IsBound, tableVars
  <2> QED
    BY <2>2 DEF Pins!pinsVars, HoldsBar, LeakedBar, WeakBar
<1> QED
  BY <1>4, <1>5, <1>6, <1>7 DEF Next

\* The reference table implements ObjectPins: JavaScript keeps an object alive
\* for Lua exactly while a userdata holds it or its reference has leaked.
THEOREM Refinement == Spec => ImplementsPins
BY InitRefines, StepRefines, Safety, PTL DEF Spec, ImplementsPins, Pins!Spec
=============================================================================
