---------------------------- MODULE DetachProofs ----------------------------
(***************************************************************************)
(* Safety of Detach and MapTransform for every graph of Lua tables: both   *)
(* copies have the shape of their originals whatever cycles, shared tables *)
(* and keys the graph has.  The recursions are described from outside: the *)
(* invariants say what every active call has done and what it waits for.   *)
(***************************************************************************)
EXTENDS Detach, SequenceTheorems, TLAPS

-----------------------------------------------------------------------------
(***************************************************************************)
(* mapTransform: what is being built has the shape of the Maps.            *)
(***************************************************************************)
\* A stack without its top.
LEMMA FrontEffect ==
  ASSUME NEW S, NEW s \in Seq(S), s # <<>>
  PROVE  /\ Front(s) \in Seq(S)
         /\ Len(s) \in Nat \ {0}
         /\ Len(Front(s)) = Len(s) - 1
         /\ \A i \in 1 .. Len(s) - 1 : Front(s)[i] = s[i]
<1>1. Len(s) \in Nat \ {0} /\ DOMAIN s = 1 .. Len(s)
  OBVIOUS
<1>2. /\ Front(s) \in Seq(S)
      /\ Len(Front(s)) = Len(s) - 1
      /\ \A i \in 1 .. Len(s) - 1 : Front(s)[i] = s[i]
  BY <1>1 DEF Front
<1> QED
  BY <1>1, <1>2

-----------------------------------------------------------------------------
(***************************************************************************)
(* The results as a relation between the Maps M, those that stay Maps (K), *)
(* the active calls cs, the results by Map (C) and the results rs.         *)
(***************************************************************************)
JsV == JsScalars \cup {MapRef(i) : i \in Nat}

ResultV == JsV \cup {ResultRef(j) : j \in Nat}

Props == UNION {[N -> ResultV] : N \in SUBSET {PropertyName(x) : x \in JsV}}

CallT == [map : Nat, result : Nat, next : Nat]

ResultT == [of : Nat, array : BOOLEAN, props : Props, proto : Nat]

MapsOK(M) == \A i \in DOMAIN M : i \in Nat /\ M[i].entries \in Seq(JsV \X JsV)

NameAt(E, k) == PropertyName(E[k][1])

\* ResultIs, of any results.
ResultIn(M, K, rs, v, w) ==
  IF v \in {MapRef(i) : i \in DOMAIN M}
  THEN \/ \E j \in DOMAIN rs : rs[j].of = v[2] /\ w = ResultRef(j)
       \/ v[2] \in K /\ w = v
  ELSE w = v

\* No later one of the first p entries has the name of the k-th.
LastNamed(E, p, k) == \A l \in 1 .. p : l > k => NameAt(E, l) # NameAt(E, k)

\* Stays and MayBeCut, of the first p entries.
Lasting(r, E, p, k) == IsOwn(r, NameAt(E, k)) /\ LastNamed(E, p, k)

CutWithin(r, E, p, k) ==
  /\ r.array /\ NameAt(E, k) \in DOMAIN Index
  /\ \E l \in 1 .. p :
       /\ l > k /\ NameAt(E, l) = LengthName
       /\ E[l][2] \in DOMAIN AsLength => AsLength[E[l][2]] <= Index[NameAt(E, k)]

\* P is the result the value v under "__proto__" asks for.
AskedFor(M, K, rs, v, P) ==
  v \in {MapRef(i) : i \in DOMAIN M \ K} => P \in DOMAIN rs /\ rs[P].of = v[2]

\* The properties of r are those of the first p entries, and it inherits from
\* what the last of them under "__proto__" asks for.
PropsMirror(M, K, rs, E, p, r) ==
  /\ \A x \in DOMAIN r.props :
       \E k \in 1 .. p :
         Lasting(r, E, p, k) /\ NameAt(E, k) = x /\ ResultIn(M, K, rs, E[k][2], r.props[x])
  /\ \A k \in 1 .. p :
       Lasting(r, E, p, k) => NameAt(E, k) \in DOMAIN r.props \/ CutWithin(r, E, p, k)
  /\ \A k \in 1 .. p :
       NameAt(E, k) = ProtoName /\ LastNamed(E, p, k) => AskedFor(M, K, rs, E[k][2], r.proto)

CallOK(M, K, rs, c) ==
  /\ c.map \in DOMAIN M
  /\ c.result \in DOMAIN rs
  /\ rs[c.result].of = c.map
  /\ c.next \in 1 .. Len(M[c.map].entries) + 1
  /\ PropsMirror(M, K, rs, M[c.map].entries, c.next - 1, rs[c.result])

\* Call c waits for the result of Map m.
Waits(M, c, m) ==
  c.next <= Len(M[c.map].entries) /\ M[c.map].entries[c.next][2] = MapRef(m)

CallsOK(M, K, cs, rs) ==
  /\ \A k \in 1 .. Len(cs) : CallOK(M, K, rs, cs[k])
  /\ \A k \in 1 .. Len(cs) - 1 : Waits(M, cs[k], cs[k + 1].map)
  /\ \A j, k \in 1 .. Len(cs) : cs[j].result = cs[k].result => j = k

\* Every Map that becomes something else has one result.
CopiesOK(M, K, C, rs) ==
  /\ \A i \in DOMAIN C : C[i] \in DOMAIN rs /\ rs[C[i]].of = i
  /\ \A j \in DOMAIN rs : rs[j].of \in DOMAIN M \ K /\ rs[j].of \in DOMAIN C /\ C[rs[j].of] = j

\* The results no call is filling are complete.
ResultsComplete(M, K, cs, rs) ==
  \A j \in DOMAIN rs :
    (\A k \in 1 .. Len(cs) : cs[k].result # j)
      => PropsMirror(M, K, rs, M[rs[j].of].entries, Len(M[rs[j].of].entries), rs[j])

Building(M, K, cs, C, rs) ==
  /\ MapsOK(M) /\ cs \in Seq(CallT) /\ rs \in Seq(ResultT)
  /\ CallsOK(M, K, cs, rs)
  /\ CopiesOK(M, K, C, rs)
  /\ ResultsComplete(M, K, cs, rs)

\* No result is lost or becomes another Map's.
Grows(rs, ss) == \A j \in DOMAIN rs : j \in DOMAIN ss /\ ss[j].of = rs[j].of

LEMMA PropsStay ==
  ASSUME NEW M, NEW K, NEW rs, NEW ss, NEW E, NEW p, NEW r,
         PropsMirror(M, K, rs, E, p, r), Grows(rs, ss)
  PROVE  PropsMirror(M, K, ss, E, p, r)
<1>1. ASSUME NEW v, NEW w, ResultIn(M, K, rs, v, w)
      PROVE  ResultIn(M, K, ss, v, w)
  BY <1>1 DEF ResultIn, Grows
<1>2. ASSUME NEW v, NEW P, AskedFor(M, K, rs, v, P)
      PROVE  AskedFor(M, K, ss, v, P)
  BY <1>2 DEF AskedFor, Grows
<1> QED
  BY <1>1, <1>2 DEF PropsMirror

LEMMA CallStays ==
  ASSUME NEW M, NEW K, NEW rs, NEW ss, NEW c, CallOK(M, K, rs, c), Grows(rs, ss),
         ss[c.result] = rs[c.result]
  PROVE  CallOK(M, K, ss, c)
<1>1. c.result \in DOMAIN ss /\ ss[c.result].of = c.map
  BY DEF CallOK, Grows
<1>2. PropsMirror(M, K, ss, M[c.map].entries, c.next - 1, ss[c.result])
  BY PropsStay DEF CallOK
<1> QED
  BY <1>1, <1>2 DEF CallOK

\* A property that is set belongs to the entry it is set for.
LEMMA OwnAdd ==
  ASSUME NEW M, NEW K, NEW rs, NEW E, NEW p \in Nat, NEW r \in ResultT,
         PropsMirror(M, K, rs, E, p, r), IsOwn(r, NameAt(E, p + 1)),
         NEW v \in ResultV, ResultIn(M, K, rs, E[p + 1][2], v), E[p + 1][1] \in JsV
  PROVE  /\ [r EXCEPT !.props = Put(@, NameAt(E, p + 1), v)] \in ResultT
         /\ PropsMirror(M, K, rs, E, p + 1, [r EXCEPT !.props = Put(@, NameAt(E, p + 1), v)])
<1> DEFINE q == p + 1
           x == NameAt(E, q)
           props == Put(r.props, x, v)
           new == [r EXCEPT !.props = Put(@, x, v)]
           U == {PropertyName(y) : y \in JsV}
<1>1. /\ DOMAIN props = DOMAIN r.props \cup {x}
      /\ props[x] = v
      /\ \A y \in DOMAIN r.props \ {x} : props[y] = r.props[y]
  <2> HIDE DEF x
  <2> QED
    BY DEF Put
<1>2. props \in Props
  <2>1. PICK N \in SUBSET U : r.props \in [N -> ResultV]
    BY DEF ResultT, Props
  <2>2. x \in U
    BY DEF NameAt
  <2>3. props \in [N \cup {x} -> ResultV] /\ N \cup {x} \in SUBSET U
    BY <2>1, <2>2 DEF Put
  <2> QED
    BY <2>3 DEF Props
<1> HIDE DEF props
<1>3. new = [r EXCEPT !.props = props]
  BY DEF props
<1>4. new \in ResultT /\ new.props = props /\ new.array = r.array /\ new.proto = r.proto
  BY <1>2, <1>3 DEF ResultT
<1> HIDE DEF new
<1>5. 1 .. q = 1 .. p \cup {q} /\ q \notin 1 .. p
  OBVIOUS
<1>6. \A y : IsOwn(new, y) = IsOwn(r, y)
  BY <1>4 DEF IsOwn
<1>7. ASSUME NEW k \in 1 .. p, NameAt(E, k) # x
      PROVE  /\ LastNamed(E, q, k) <=> LastNamed(E, p, k)
             /\ Lasting(new, E, q, k) <=> Lasting(r, E, p, k)
             /\ CutWithin(r, E, p, k) => CutWithin(new, E, q, k)
  <2>1. LastNamed(E, q, k) <=> LastNamed(E, p, k)
    BY <1>5, <1>7 DEF LastNamed
  <2>2. CutWithin(r, E, p, k) => CutWithin(new, E, q, k)
    BY <1>4, <1>5 DEF CutWithin
  <2> QED
    BY <2>1, <2>2, <1>6 DEF Lasting
<1>8. LastNamed(E, q, q) /\ Lasting(new, E, q, q)
  BY <1>6 DEF Lasting, LastNamed
<1>9. ASSUME NEW k \in 1 .. p, LastNamed(E, q, k)
      PROVE  NameAt(E, k) # x
  BY <1>9, <1>5 DEF LastNamed
<1>10. ASSUME NEW y \in DOMAIN props
       PROVE  \E k \in 1 .. q : /\ Lasting(new, E, q, k) /\ NameAt(E, k) = y
                               /\ ResultIn(M, K, rs, E[k][2], props[y])
  <2>1. CASE y = x
    BY <2>1, <1>1, <1>5, <1>8
  <2>2. CASE y # x
    <3>1. y \in DOMAIN r.props /\ props[y] = r.props[y]
      BY <2>2, <1>1
    <3>2. PICK k \in 1 .. p : /\ Lasting(r, E, p, k) /\ NameAt(E, k) = y
                              /\ ResultIn(M, K, rs, E[k][2], r.props[y])
      BY <3>1 DEF PropsMirror
    <3>3. Lasting(new, E, q, k)
      BY <3>2, <2>2, <1>7
    <3> QED
      BY <3>1, <3>2, <3>3, <1>5
  <2> QED
    BY <2>1, <2>2
<1>11. ASSUME NEW k \in 1 .. q, Lasting(new, E, q, k)
       PROVE  NameAt(E, k) \in DOMAIN props \/ CutWithin(new, E, q, k)
  <2>1. CASE k = q
    BY <2>1, <1>1
  <2>2. CASE k \in 1 .. p
    <3>1. NameAt(E, k) # x
      BY <2>2, <1>9, <1>11 DEF Lasting
    <3>2. Lasting(r, E, p, k) /\ (CutWithin(r, E, p, k) => CutWithin(new, E, q, k))
      BY <2>2, <3>1, <1>7, <1>11
    <3>3. NameAt(E, k) \in DOMAIN r.props \/ CutWithin(r, E, p, k)
      BY <2>2, <3>2 DEF PropsMirror
    <3> QED
      BY <3>2, <3>3, <1>1
  <2> QED
    BY <2>1, <2>2, <1>5
<1>12. ASSUME NEW k \in 1 .. q, NameAt(E, k) = ProtoName, LastNamed(E, q, k)
       PROVE  AskedFor(M, K, rs, E[k][2], new.proto)
  <2>1. k \in 1 .. p
    BY <1>5, <1>12 DEF IsOwn
  <2>2. LastNamed(E, p, k)
    BY <2>1, <1>7, <1>9, <1>12
  <2> QED
    BY <2>1, <2>2, <1>4, <1>12 DEF PropsMirror
<1> QED
  BY <1>4, <1>10, <1>11, <1>12 DEF PropsMirror, new

\* What a result inherits from belongs to the entry it is set for.
LEMMA ProtoAdd ==
  ASSUME NEW M, NEW K, NEW rs, NEW E, NEW p \in Nat, NEW r \in ResultT,
         PropsMirror(M, K, rs, E, p, r), NameAt(E, p + 1) = ProtoName,
         NEW P \in Nat, AskedFor(M, K, rs, E[p + 1][2], P)
  PROVE  /\ [r EXCEPT !.proto = P] \in ResultT
         /\ PropsMirror(M, K, rs, E, p + 1, [r EXCEPT !.proto = P])
<1> DEFINE q == p + 1
           new == [r EXCEPT !.proto = P]
<1>1. /\ new \in ResultT
      /\ new.props = r.props /\ new.array = r.array /\ new.proto = P
  BY DEF ResultT
<1> HIDE DEF new
<1>2. 1 .. q = 1 .. p \cup {q} /\ q \notin 1 .. p
  OBVIOUS
<1>3. \A y : IsOwn(new, y) = IsOwn(r, y)
  BY <1>1 DEF IsOwn
<1>4. ~IsOwn(r, NameAt(E, q))
  BY DEF IsOwn
<1>5. ASSUME NEW k \in 1 .. p, IsOwn(r, NameAt(E, k))
      PROVE  /\ Lasting(new, E, q, k) <=> Lasting(r, E, p, k)
             /\ CutWithin(r, E, p, k) => CutWithin(new, E, q, k)
  <2>1. LastNamed(E, q, k) <=> LastNamed(E, p, k)
    BY <1>2, <1>4, <1>5 DEF LastNamed
  <2>2. CutWithin(r, E, p, k) => CutWithin(new, E, q, k)
    BY <1>1, <1>2 DEF CutWithin
  <2> QED
    BY <2>1, <2>2, <1>3 DEF Lasting
<1>6. ASSUME NEW y \in DOMAIN new.props
      PROVE  \E k \in 1 .. q : /\ Lasting(new, E, q, k) /\ NameAt(E, k) = y
                              /\ ResultIn(M, K, rs, E[k][2], new.props[y])
  <2>1. PICK k \in 1 .. p : /\ Lasting(r, E, p, k) /\ NameAt(E, k) = y
                            /\ ResultIn(M, K, rs, E[k][2], r.props[y])
    BY <1>1 DEF PropsMirror
  <2>2. Lasting(new, E, q, k)
    BY <2>1, <1>5 DEF Lasting
  <2> QED
    BY <2>1, <2>2, <1>1, <1>2
<1>7. ASSUME NEW k \in 1 .. q, Lasting(new, E, q, k)
      PROVE  NameAt(E, k) \in DOMAIN new.props \/ CutWithin(new, E, q, k)
  <2>1. IsOwn(r, NameAt(E, k)) /\ k \in 1 .. p
    BY <1>2, <1>3, <1>4, <1>7 DEF Lasting
  <2>2. Lasting(r, E, p, k) /\ (CutWithin(r, E, p, k) => CutWithin(new, E, q, k))
    BY <2>1, <1>5, <1>7
  <2> QED
    BY <2>1, <2>2, <1>1 DEF PropsMirror
<1>8. ASSUME NEW k \in 1 .. q, NameAt(E, k) = ProtoName, LastNamed(E, q, k)
      PROVE  AskedFor(M, K, rs, E[k][2], new.proto)
  <2>1. k = q
    BY <1>2, <1>8 DEF LastNamed
  <2> QED
    BY <2>1, <1>1
<1> QED
  BY <1>1, <1>6, <1>7, <1>8 DEF PropsMirror, new

\* What a "length" removes is explained by its entry.
LEMMA LengthAdd ==
  ASSUME NEW M, NEW K, NEW rs, NEW E, NEW p \in Nat, NEW r \in ResultT,
         PropsMirror(M, K, rs, E, p, r), NameAt(E, p + 1) = LengthName, r.array,
         NEW n \in Nat, E[p + 1][2] \in DOMAIN AsLength => n = AsLength[E[p + 1][2]]
  PROVE  /\ [r EXCEPT !.props = Truncated(@, n)] \in ResultT
         /\ PropsMirror(M, K, rs, E, p + 1, [r EXCEPT !.props = Truncated(@, n)])
<1> DEFINE q == p + 1
           props == Truncated(r.props, n)
           new == [r EXCEPT !.props = Truncated(@, n)]
<1>1. /\ DOMAIN props = {x \in DOMAIN r.props : x \in DOMAIN Index => Index[x] < n}
      /\ \A x \in DOMAIN props : props[x] = r.props[x]
  BY DEF Truncated, Restrict
<1>2. props \in Props
  <2>1. PICK N \in SUBSET {PropertyName(y) : y \in JsV} : r.props \in [N -> ResultV]
    BY DEF ResultT, Props
  <2>2. DOMAIN props \subseteq N /\ \A x \in DOMAIN props : props[x] \in ResultV
    BY <2>1, <1>1
  <2>3. props \in [DOMAIN props -> ResultV]
    BY <2>2 DEF Truncated, Restrict
  <2>4. DOMAIN props \in SUBSET {PropertyName(y) : y \in JsV}
    BY <2>1, <2>2
  <2> HIDE DEF props
  <2> QED
    BY <2>3, <2>4 DEF Props
<1> HIDE DEF props
<1>3. new = [r EXCEPT !.props = props]
  BY DEF props
<1>4. /\ new \in ResultT /\ new.props = props
      /\ new.array = r.array /\ new.proto = r.proto
  BY <1>2, <1>3 DEF ResultT
<1> HIDE DEF new
<1>5. 1 .. q = 1 .. p \cup {q} /\ \A k \in 1 .. p : k # q /\ k < q
  OBVIOUS
<1>6. \A y : IsOwn(new, y) = IsOwn(r, y)
  BY <1>4 DEF IsOwn
<1>7. ~IsOwn(r, NameAt(E, q)) /\ NameAt(E, q) # ProtoName
  BY SpecialNames DEF IsOwn
<1>8. ASSUME NEW k \in 1 .. p, NameAt(E, k) # NameAt(E, q)
      PROVE  LastNamed(E, q, k) <=> LastNamed(E, p, k)
  BY <1>5, <1>8 DEF LastNamed
<1>9. ASSUME NEW k \in 1 .. p, IsOwn(r, NameAt(E, k))
      PROVE  Lasting(new, E, q, k) <=> Lasting(r, E, p, k)
  BY <1>6, <1>7, <1>8, <1>9 DEF Lasting
<1>10. ASSUME NEW y \in DOMAIN props
       PROVE  \E k \in 1 .. q : /\ Lasting(new, E, q, k) /\ NameAt(E, k) = y
                               /\ ResultIn(M, K, rs, E[k][2], props[y])
  <2>1. PICK k \in 1 .. p : /\ Lasting(r, E, p, k) /\ NameAt(E, k) = y
                            /\ ResultIn(M, K, rs, E[k][2], r.props[y])
    BY <1>1 DEF PropsMirror
  <2>2. Lasting(new, E, q, k)
    BY <2>1, <1>9 DEF Lasting
  <2> QED
    BY <2>1, <2>2, <1>1, <1>5
<1>11. ASSUME NEW k \in 1 .. q, Lasting(new, E, q, k), NameAt(E, k) \notin DOMAIN props
       PROVE  CutWithin(new, E, q, k)
  <2>1. IsOwn(r, NameAt(E, k)) /\ k \in 1 .. p
    BY <1>5, <1>6, <1>7, <1>11 DEF Lasting
  <2>2. Lasting(r, E, p, k)
    BY <2>1, <1>9, <1>11
  <2>3. CASE CutWithin(r, E, p, k)
    BY <2>3, <1>4, <1>5 DEF CutWithin
  <2>4. CASE NameAt(E, k) \in DOMAIN r.props
    <3>1. NameAt(E, k) \in DOMAIN Index /\ ~(Index[NameAt(E, k)] < n)
      BY <2>4, <1>1, <1>11
    <3>2. n <= Index[NameAt(E, k)]
      BY <3>1, IndexAssumption
    <3>3. q \in 1 .. q /\ q > k
      BY <2>1, <1>5
    <3> QED
      BY <3>1, <3>2, <3>3, <1>4 DEF CutWithin
  <2> QED
    BY <2>1, <2>2, <2>3, <2>4 DEF PropsMirror
<1>12. ASSUME NEW k \in 1 .. q, NameAt(E, k) = ProtoName, LastNamed(E, q, k)
       PROVE  AskedFor(M, K, rs, E[k][2], new.proto)
  <2>1. k \in 1 .. p /\ NameAt(E, k) # NameAt(E, q)
    BY <1>5, <1>7, <1>12
  <2>2. LastNamed(E, p, k)
    BY <2>1, <1>8, <1>12
  <2> QED
    BY <2>1, <2>2, <1>4, <1>12 DEF PropsMirror
<1> QED
  BY <1>4, <1>10, <1>11, <1>12 DEF PropsMirror, new

\* What a call gets for a value is a JS value or a result.
LEMMA ResultInType ==
  ASSUME NEW M, NEW K, NEW rs \in Seq(ResultT), NEW v \in JsV, NEW w, ResultIn(M, K, rs, v, w)
  PROVE  w \in ResultV
BY DEF ResultIn, ResultV

-----------------------------------------------------------------------------
(***************************************************************************)
(* The operations.                                                         *)
(***************************************************************************)
NewCall(i, rs) == [map |-> i, result |-> Len(rs) + 1, next |-> 1]

\* No property is set before the first entry.
LEMMA NoPropsYet ==
  ASSUME NEW M, NEW K, NEW rs, NEW E, NEW r, r.props = <<>>
  PROVE  PropsMirror(M, K, rs, E, 0, r)
BY DEF PropsMirror

LEMMA NewResultType ==
  ASSUME NEW i \in Nat, NEW type
  PROVE  /\ NewResult(i, type) \in ResultT
         /\ NewResult(i, type).of = i /\ NewResult(i, type).props = <<>>
<1>1. <<>> \in [{} -> ResultV]
  OBVIOUS
<1>2. <<>> \in Props
  BY <1>1 DEF Props
<1> QED
  BY <1>2 DEF NewResult, ResultT

\* The outermost call, which returns early.
LEMMA NothingBuilt ==
  ASSUME NEW M, NEW K, MapsOK(M)
  PROVE  Building(M, K, <<>>, <<>>, <<>>)
BY DEF Building, CallsOK, CopiesOK, ResultsComplete

\* The outermost call.
LEMMA FirstMapEntered ==
  ASSUME NEW M, NEW K, MapsOK(M), NEW i \in DOMAIN M \ K, NEW type
  PROVE  Building(M, K, <<NewCall(i, <<>>)>>, Put(<<>>, i, 1), <<NewResult(i, type)>>)
<1> DEFINE c == NewCall(i, <<>>)
           rs == <<NewResult(i, type)>>
           C == Put(<<>>, i, 1)
<1>1. i \in Nat /\ Len(M[i].entries) \in Nat
  BY DEF MapsOK
<1>2. c \in CallT /\ c.map = i /\ c.result = 1 /\ c.next = 1
  BY <1>1 DEF NewCall, CallT
<1>3. /\ rs \in Seq(ResultT) /\ DOMAIN rs = {1} /\ rs[1].of = i /\ rs[1].props = <<>>
  BY <1>1, NewResultType
<1>4. DOMAIN C = {i} /\ C[i] = 1
  BY DEF Put
<1> HIDE DEF c, rs, C
<1>5. CallOK(M, K, rs, c)
  BY <1>1, <1>2, <1>3, NoPropsYet DEF CallOK
<1>6. CallsOK(M, K, <<c>>, rs)
  BY <1>5 DEF CallsOK
<1>7. CopiesOK(M, K, C, rs)
  BY <1>3, <1>4 DEF CopiesOK
<1>8. ResultsComplete(M, K, <<c>>, rs)
  BY <1>2, <1>3 DEF ResultsComplete
<1> QED
  BY <1>2, <1>3, <1>6, <1>7, <1>8 DEF Building, c, rs, C

\* A nested call past its early returns: its Map had no result before.
LEMMA MapEntered ==
  ASSUME NEW M, NEW K, NEW cs, NEW C, NEW rs, Building(M, K, cs, C, rs), cs # <<>>,
         NEW i \in DOMAIN M \ K, i \notin DOMAIN C, Waits(M, cs[Len(cs)], i), NEW type
  PROVE  Building(M, K, Append(cs, NewCall(i, rs)), Put(C, i, Len(rs) + 1),
                  Append(rs, NewResult(i, type)))
<1> DEFINE n == Len(cs)
           c == NewCall(i, rs)
           ds == Append(cs, c)
           ss == Append(rs, NewResult(i, type))
           D == Put(C, i, Len(rs) + 1)
<1>1. /\ MapsOK(M) /\ cs \in Seq(CallT) /\ rs \in Seq(ResultT)
      /\ n \in Nat \ {0} /\ Len(rs) \in Nat /\ DOMAIN rs = 1 .. Len(rs)
  BY DEF Building
<1>2. i \in Nat /\ Len(M[i].entries) \in Nat
  BY <1>1 DEF MapsOK
<1>3. c \in CallT /\ c.map = i /\ c.result = Len(rs) + 1 /\ c.next = 1
  BY <1>1, <1>2 DEF NewCall, CallT
<1>4. /\ ds \in Seq(CallT)
      /\ Len(ds) = n + 1
      /\ \A k \in 1 .. n : ds[k] = cs[k]
      /\ ds[n + 1] = c
  BY <1>1, <1>3, AppendProperties
<1>5. /\ ss \in Seq(ResultT)
      /\ DOMAIN ss = DOMAIN rs \cup {Len(rs) + 1}
      /\ \A j \in DOMAIN rs : ss[j] = rs[j] /\ j # Len(rs) + 1
      /\ ss[Len(rs) + 1].of = i /\ ss[Len(rs) + 1].props = <<>>
  <2>1. /\ NewResult(i, type) \in ResultT
        /\ NewResult(i, type).of = i /\ NewResult(i, type).props = <<>>
    BY <1>2, NewResultType
  <2>2. /\ ss \in Seq(ResultT)
        /\ Len(ss) = Len(rs) + 1
        /\ \A j \in 1 .. Len(rs) : ss[j] = rs[j]
        /\ ss[Len(rs) + 1] = NewResult(i, type)
    BY <1>1, <2>1, AppendProperties
  <2>3. DOMAIN ss = DOMAIN rs \cup {Len(rs) + 1}
    BY <1>1, <2>2
  <2>4. \A j \in DOMAIN rs : j # Len(rs) + 1
    BY <1>1
  <2> QED
    BY <1>1, <2>1, <2>2, <2>3, <2>4
<1>6. /\ DOMAIN D = DOMAIN C \cup {i}
      /\ D[i] = Len(rs) + 1
      /\ \A x \in DOMAIN C \ {i} : D[x] = C[x]
  BY DEF Put
<1> HIDE DEF c, ds, ss, D
<1>7. Grows(rs, ss)
  BY <1>5 DEF Grows
<1>8. ASSUME NEW k \in 1 .. n
      PROVE  CallOK(M, K, rs, cs[k]) /\ cs[k].result \in DOMAIN rs /\ CallOK(M, K, ss, cs[k])
  <2>1. CallOK(M, K, rs, cs[k])
    BY DEF Building, CallsOK
  <2>2. cs[k].result \in DOMAIN rs
    BY <2>1 DEF CallOK
  <2> QED
    BY <2>1, <2>2, <1>5, <1>7, CallStays
<1>9. CallOK(M, K, ss, c)
  BY <1>2, <1>3, <1>5, NoPropsYet DEF CallOK
<1>10. \A k \in 1 .. n + 1 : k \in 1 .. n \/ k = n + 1
  BY <1>1
<1>11. CallsOK(M, K, ds, ss)
  <2>1. \A k \in 1 .. n + 1 : CallOK(M, K, ss, ds[k])
    BY <1>4, <1>8, <1>9, <1>10
  <2>2. ASSUME NEW k \in 1 .. n
        PROVE  Waits(M, ds[k], ds[k + 1].map)
    <3>1. CASE k = n
      BY <3>1, <1>1, <1>3, <1>4
    <3>2. CASE k # n
      <4>1. k \in 1 .. n - 1 /\ k + 1 \in 1 .. n
        BY <3>2, <1>1
      <4> QED
        BY <4>1, <1>4 DEF Building, CallsOK
    <3> QED
      BY <3>1, <3>2
  <2>3. \A j, k \in 1 .. n + 1 : ds[j].result = ds[k].result => j = k
    <3>1. \A j, k \in 1 .. n : cs[j].result = cs[k].result => j = k
      BY DEF Building, CallsOK
    <3>2. \A k \in 1 .. n : cs[k].result # Len(rs) + 1
      BY <1>5, <1>8
    <3> QED
      BY <3>1, <3>2, <1>3, <1>4, <1>10
  <2>4. (n + 1) - 1 = n
    BY <1>1
  <2> QED
    BY <2>1, <2>2, <2>3, <2>4, <1>4 DEF CallsOK
<1>12. CopiesOK(M, K, D, ss)
  <2>1. \A x \in DOMAIN D : D[x] \in DOMAIN ss /\ ss[D[x]].of = x
    BY <1>5, <1>6 DEF Building, CopiesOK
  <2>2. \A j \in DOMAIN ss : ss[j].of \in DOMAIN M \ K /\ ss[j].of \in DOMAIN D /\ D[ss[j].of] = j
    BY <1>5, <1>6 DEF Building, CopiesOK
  <2> QED
    BY <2>1, <2>2 DEF CopiesOK
<1>13. ResultsComplete(M, K, ds, ss)
  <2> SUFFICES ASSUME NEW j \in DOMAIN ss, \A k \in 1 .. n + 1 : ds[k].result # j
               PROVE  PropsMirror(M, K, ss, M[ss[j].of].entries, Len(M[ss[j].of].entries), ss[j])
    BY <1>4 DEF ResultsComplete
  <2>1. n + 1 \in 1 .. n + 1 /\ \A k \in 1 .. n : k \in 1 .. n + 1
    BY <1>1
  <2>2. j \in DOMAIN rs /\ \A k \in 1 .. n : cs[k].result # j
    BY <2>1, <1>3, <1>4, <1>5
  <2>3. PropsMirror(M, K, rs, M[rs[j].of].entries, Len(M[rs[j].of].entries), rs[j])
    BY <2>2 DEF Building, ResultsComplete
  <2>4. ss[j] = rs[j]
    BY <2>2, <1>5
  <2> QED
    BY <2>3, <2>4, <1>7, PropsStay
<1> QED
  BY <1>1, <1>4, <1>5, <1>11, <1>12, <1>13 DEF Building, c, ds, ss, D

\* What the top call works on.
LEMMA TopCall ==
  ASSUME NEW M, NEW K, NEW cs, NEW C, NEW rs, Building(M, K, cs, C, rs), cs # <<>>
  PROVE  /\ Len(cs) \in Nat \ {0}
         /\ cs[Len(cs)] \in CallT
         /\ CallOK(M, K, rs, cs[Len(cs)])
         /\ M[cs[Len(cs)].map].entries \in Seq(JsV \X JsV)
         /\ Len(M[cs[Len(cs)].map].entries) \in Nat
<1>1. Len(cs) \in Nat \ {0} /\ cs[Len(cs)] \in CallT /\ Len(cs) \in 1 .. Len(cs)
  BY DEF Building
<1>2. CallOK(M, K, rs, cs[Len(cs)])
  BY <1>1 DEF Building, CallsOK
<1>3. M[cs[Len(cs)].map].entries \in Seq(JsV \X JsV)
  BY <1>2 DEF Building, MapsOK, CallOK
<1> QED
  BY <1>1, <1>2, <1>3

LEMMA NextEntryOf ==
  ASSUME NEW c \in CallT
  PROVE  /\ [c EXCEPT !.next = @ + 1] \in CallT
         /\ [c EXCEPT !.next = @ + 1].map = c.map
         /\ [c EXCEPT !.next = @ + 1].result = c.result
         /\ [c EXCEPT !.next = @ + 1].next = c.next + 1
BY DEF CallT

\* The top call stores what its next value became.
LEMMA ResultStored ==
  ASSUME NEW M, NEW K, NEW cs, NEW C, NEW rs, Building(M, K, cs, C, rs), cs # <<>>,
         cs[Len(cs)].next <= Len(M[cs[Len(cs)].map].entries),
         NEW new \in ResultT, new.of = rs[cs[Len(cs)].result].of,
         PropsMirror(M, K, rs, M[cs[Len(cs)].map].entries, cs[Len(cs)].next, new)
  PROVE  Building(M, K, [cs EXCEPT ![Len(cs)].next = @ + 1], C,
                  [rs EXCEPT ![cs[Len(cs)].result] = new])
<1> DEFINE n == Len(cs)
           c == cs[n]
           E == M[c.map].entries
           r == c.result
           d == [c EXCEPT !.next = @ + 1]
           ds == [cs EXCEPT ![n].next = @ + 1]
           ss == [rs EXCEPT ![r] = new]
<1>1. /\ MapsOK(M) /\ cs \in Seq(CallT) /\ rs \in Seq(ResultT)
      /\ n \in Nat \ {0} /\ c \in CallT /\ CallOK(M, K, rs, c)
      /\ E \in Seq(JsV \X JsV) /\ Len(E) \in Nat
  BY TopCall DEF Building
<1>2. /\ r \in DOMAIN rs /\ rs[r] \in ResultT
      /\ rs[r].of = c.map
      /\ c.next \in 1 .. Len(E)
  BY <1>1 DEF CallOK
<1>3. d \in CallT /\ d.map = c.map /\ d.result = r /\ d.next = c.next + 1
  BY <1>1, NextEntryOf
<1>4. /\ ds \in Seq(CallT)
      /\ Len(ds) = n
      /\ ds[n] = d
      /\ \A k \in 1 .. n - 1 : ds[k] = cs[k]
  <2>1. ds = [cs EXCEPT ![n] = d]
    BY <1>1
  <2> HIDE DEF d, ds
  <2> QED
    BY <2>1, <1>1, <1>3
<1> HIDE DEF d, ds, ss
<1>5. /\ ss \in Seq(ResultT)
       /\ DOMAIN ss = DOMAIN rs
       /\ ss[r] = new
       /\ \A j \in DOMAIN rs : j # r => ss[j] = rs[j]
  BY <1>1, <1>2 DEF ss
<1>6. Grows(rs, ss)
  BY <1>5 DEF Grows
<1>7. CallOK(M, K, ss, d)
  <2>1. PropsMirror(M, K, ss, E, c.next, new)
    BY <1>6, PropsStay
  <2>2. d.next - 1 = c.next /\ d.next \in 1 .. Len(E) + 1
    BY <1>1, <1>2, <1>3
  <2> QED
    BY <2>1, <2>2, <1>1, <1>2, <1>3, <1>5 DEF CallOK
<1>8. ASSUME NEW k \in 1 .. n - 1
       PROVE  CallOK(M, K, ss, cs[k])
  <2>1. k \in 1 .. n /\ n \in 1 .. n /\ k # n
    BY <1>1
  <2>2. CallOK(M, K, rs, cs[k]) /\ cs[k].result # r
    BY <2>1 DEF Building, CallsOK
  <2>3. ss[cs[k].result] = rs[cs[k].result]
    BY <2>2, <1>5 DEF CallOK
  <2> QED
    BY <2>2, <2>3, <1>6, CallStays
<1>9. \A k \in 1 .. n : k \in 1 .. n - 1 \/ k = n
  BY <1>1
<1>10. \A k \in 1 .. n : ds[k].map = cs[k].map /\ ds[k].result = cs[k].result
  BY <1>3, <1>4, <1>9
<1>11. CallsOK(M, K, ds, ss)
  <2>1. \A k \in 1 .. n : CallOK(M, K, ss, ds[k])
    BY <1>4, <1>7, <1>8, <1>9
  <2>2. ASSUME NEW k \in 1 .. n - 1
        PROVE  Waits(M, ds[k], ds[k + 1].map)
    <3>1. k + 1 \in 1 .. n
      BY <1>1
    <3>2. Waits(M, cs[k], cs[k + 1].map)
      BY DEF Building, CallsOK
    <3> QED
      BY <3>1, <3>2, <1>4, <1>10
  <2>3. \A j, k \in 1 .. n : ds[j].result = ds[k].result => j = k
    BY <1>10 DEF Building, CallsOK
  <2> QED
    BY <2>1, <2>2, <2>3, <1>4 DEF CallsOK
<1>12. CopiesOK(M, K, C, ss)
  <2>1. \A j \in DOMAIN rs : ss[j].of = rs[j].of
    BY <1>6 DEF Grows
  <2> QED
    BY <2>1, <1>5 DEF CopiesOK, Building
<1>13. ResultsComplete(M, K, ds, ss)
  <2> SUFFICES ASSUME NEW j \in DOMAIN ss, \A k \in 1 .. n : ds[k].result # j
               PROVE  PropsMirror(M, K, ss, M[ss[j].of].entries, Len(M[ss[j].of].entries), ss[j])
    BY <1>4 DEF ResultsComplete
  <2>1. n \in 1 .. n
    BY <1>1
  <2>2. j # r /\ j \in DOMAIN rs /\ \A k \in 1 .. n : cs[k].result # j
    BY <2>1, <1>5, <1>10
  <2>3. PropsMirror(M, K, rs, M[rs[j].of].entries, Len(M[rs[j].of].entries), rs[j])
    BY <2>2 DEF Building, ResultsComplete
  <2> QED
    BY <2>2, <2>3, <1>5, <1>6, PropsStay
<1> QED
  BY <1>1, <1>4, <1>5, <1>11, <1>12, <1>13 DEF Building, ds, ss

\* A call that is through with its entries returns: its result is complete, and
\* it is what the call below, if there is one, waits for.
LEMMA CallReturns ==
  ASSUME NEW M, NEW K, NEW cs, NEW C, NEW rs, Building(M, K, cs, C, rs), cs # <<>>,
         cs[Len(cs)].next > Len(M[cs[Len(cs)].map].entries)
  PROVE  /\ Building(M, K, Front(cs), C, rs)
         /\ Len(Front(cs)) = Len(cs) - 1
         /\ \A k \in 1 .. Len(cs) - 1 : Front(cs)[k] = cs[k]
         /\ Len(cs) # 1 =>
              LET c == cs[Len(cs) - 1] IN
              /\ c.next <= Len(M[c.map].entries)
              /\ ResultIn(M, K, rs, M[c.map].entries[c.next][2], ResultRef(cs[Len(cs)].result))
<1> DEFINE n == Len(cs)
           c == cs[n]
           ds == Front(cs)
<1>1. /\ MapsOK(M) /\ cs \in Seq(CallT) /\ rs \in Seq(ResultT)
      /\ n \in Nat \ {0} /\ CallOK(M, K, rs, c) /\ Len(M[c.map].entries) \in Nat
  BY TopCall DEF Building
<1>2. /\ ds \in Seq(CallT)
      /\ Len(ds) = n - 1
      /\ \A k \in 1 .. n - 1 : ds[k] = cs[k]
  BY <1>1, FrontEffect
<1> HIDE DEF ds
<1>3. CallsOK(M, K, ds, rs)
  <2>1. \A k \in 1 .. n - 1 : k \in 1 .. n
    BY <1>1
  <2>2. \A k \in 1 .. (n - 1) - 1 : k \in 1 .. n - 1 /\ k + 1 \in 1 .. n - 1
    BY <1>1
  <2>3. \A k \in 1 .. n - 1 : CallOK(M, K, rs, ds[k])
    BY <2>1, <1>2 DEF Building, CallsOK
  <2>4. \A k \in 1 .. (n - 1) - 1 : Waits(M, ds[k], ds[k + 1].map)
    BY <2>2, <1>2 DEF Building, CallsOK
  <2>5. \A j, k \in 1 .. n - 1 : ds[j].result = ds[k].result => j = k
    BY <2>1, <1>2 DEF Building, CallsOK
  <2> QED
    BY <2>3, <2>4, <2>5, <1>2 DEF CallsOK
<1>4. PropsMirror(M, K, rs, M[c.map].entries, Len(M[c.map].entries), rs[c.result])
  <2>1. c.next - 1 = Len(M[c.map].entries)
    BY <1>1 DEF CallOK
  <2> QED
    BY <2>1, <1>1 DEF CallOK
<1>5. ResultsComplete(M, K, ds, rs)
  <2> SUFFICES ASSUME NEW j \in DOMAIN rs, \A k \in 1 .. n - 1 : cs[k].result # j
               PROVE  PropsMirror(M, K, rs, M[rs[j].of].entries, Len(M[rs[j].of].entries), rs[j])
    BY <1>2 DEF ResultsComplete
  <2>1. CASE j = c.result
    BY <2>1, <1>1, <1>4 DEF CallOK
  <2>2. CASE j # c.result
    <3>1. \A k \in 1 .. n : k = n \/ k \in 1 .. n - 1
      BY <1>1
    <3>2. \A k \in 1 .. n : cs[k].result # j
      BY <2>2, <3>1
    <3> QED
      BY <3>2 DEF Building, ResultsComplete
  <2> QED
    BY <2>1, <2>2
<1>6. ASSUME n # 1
      PROVE  /\ cs[n - 1].next <= Len(M[cs[n - 1].map].entries)
             /\ ResultIn(M, K, rs, M[cs[n - 1].map].entries[cs[n - 1].next][2], ResultRef(c.result))
  <2>1. n - 1 \in 1 .. n - 1 /\ (n - 1) + 1 = n
    <3>1. n \in Nat \ {0, 1}
      BY <1>1, <1>6
    <3> HIDE DEF n
    <3> QED
      BY <3>1
  <2>2. Waits(M, cs[n - 1], c.map)
    BY <2>1 DEF Building, CallsOK
  <2>3. MapRef(c.map)[2] = c.map
    BY DEF MapRef
  <2>4. ResultIn(M, K, rs, MapRef(c.map), ResultRef(c.result))
    BY <2>3, <1>1 DEF ResultIn, CallOK
  <2> QED
    BY <2>2, <2>4 DEF Waits
<1> QED
  BY <1>1, <1>2, <1>3, <1>5, <1>6 DEF Building, ds

-----------------------------------------------------------------------------
(***************************************************************************)
(* Sequences and maps.                                                     *)
(***************************************************************************)
\* A function on the first n indices is a sequence.
LEMMA IndexedIsSeq ==
  ASSUME NEW S, NEW n \in Nat, NEW f \in [1 .. n -> S]
  PROVE  f \in Seq(S)
OBVIOUS

\* A stack with two values more.
LEMMA PushTwoEffect ==
  ASSUME NEW S, NEW s \in Seq(S), NEW a \in S, NEW b \in S
  PROVE  /\ s \o <<a, b>> \in Seq(S)
         /\ Len(s \o <<a, b>>) = Len(s) + 2
         /\ \A i \in 1 .. Len(s) : (s \o <<a, b>>)[i] = s[i]
         /\ (s \o <<a, b>>)[Len(s) + 1] = a
         /\ (s \o <<a, b>>)[Len(s) + 2] = b
<1>1. <<a, b>> \in Seq(S) /\ Len(<<a, b>>) = 2
  OBVIOUS
<1> QED
  BY <1>1, ConcatProperties

OneEntryPerKey(E) == \A j, k \in DOMAIN E : E[j][1] = E[k][1] => j = k

HasKey(E, key) == \E k \in DOMAIN E : E[k][1] = key

\* The entries of N are e and some of E.
AddsAtMost(N, E, e) == \A k \in DOMAIN N : N[k] = e \/ \E j \in DOMAIN E : N[k] = E[j]

\* Map.set: one entry per key, the entries of the other keys stay.
LEMMA MapSetEffect ==
  ASSUME NEW V, NEW E \in Seq(V \X V), NEW key \in V, NEW v \in V,
         OneEntryPerKey(E), NEW N, N = MapSet(E, key, v)
  PROVE  /\ N \in Seq(V \X V)
         /\ OneEntryPerKey(N)
         /\ HasKey(N, key)
         /\ \A x : HasKey(E, x) => HasKey(N, x)
         /\ AddsAtMost(N, E, <<key, v>>)
<1>1. CASE \E k \in DOMAIN E : E[k][1] = key
  <2>1. N = [k \in DOMAIN E |-> IF E[k][1] = key THEN <<key, v>> ELSE E[k]]
    BY <1>1 DEF MapSet
  <2>2. DOMAIN N = DOMAIN E /\ DOMAIN E = 1 .. Len(E) /\ Len(E) \in Nat
    BY <2>1
  <2>3. \A k \in DOMAIN E : N[k] = IF E[k][1] = key THEN <<key, v>> ELSE E[k]
    BY <2>1
  <2>4. \A k \in DOMAIN E : N[k] \in V \X V /\ N[k][1] = E[k][1]
    BY <2>2, <2>3
  <2>5. N \in Seq(V \X V)
    <3>1. N \in [1 .. Len(E) -> V \X V]
      BY <2>1, <2>2, <2>4
    <3>2. Len(E) \in Nat
      BY <2>2
    <3> QED
      BY <3>1, <3>2, IndexedIsSeq
  <2>6. OneEntryPerKey(N)
    BY <2>2, <2>4 DEF OneEntryPerKey
  <2>7. AddsAtMost(N, E, <<key, v>>)
    BY <2>2, <2>3 DEF AddsAtMost
  <2>8. HasKey(N, key)
    BY <1>1, <2>2, <2>4 DEF HasKey
  <2>9. \A x : HasKey(E, x) => HasKey(N, x)
    BY <2>2, <2>4 DEF HasKey
  <2> QED
    BY <2>5, <2>6, <2>7, <2>8, <2>9
<1>2. CASE ~ \E k \in DOMAIN E : E[k][1] = key
  <2>1. N = Append(E, <<key, v>>)
    BY <1>2 DEF MapSet
  <2>2. /\ N \in Seq(V \X V)
        /\ Len(N) = Len(E) + 1
        /\ \A k \in 1 .. Len(E) : N[k] = E[k]
        /\ N[Len(E) + 1] = <<key, v>>
    BY <2>1, AppendProperties
  <2>3. DOMAIN E = 1 .. Len(E) /\ Len(E) \in Nat /\ DOMAIN N = 1 .. Len(E) + 1
    BY <2>2
  <2>4. DOMAIN N = DOMAIN E \cup {Len(E) + 1}
    BY <2>3
  <2>5. OneEntryPerKey(N)
    BY <1>2, <2>2, <2>3, <2>4 DEF OneEntryPerKey
  <2>6. AddsAtMost(N, E, <<key, v>>)
    BY <2>2, <2>3, <2>4 DEF AddsAtMost
  <2>7. HasKey(N, key)
    BY <2>2, <2>4 DEF HasKey
  <2>8. \A x : HasKey(E, x) => HasKey(N, x)
    BY <2>2, <2>3, <2>4 DEF HasKey
  <2> QED
    BY <2>2, <2>5, <2>6, <2>7, <2>8
<1> QED
  BY <1>1, <1>2

-----------------------------------------------------------------------------
(***************************************************************************)
(* The copy of the tables, as a relation between the tables G, the Lua     *)
(* stack st, the active calls fs, the Maps M by table (R) and the Maps M.  *)
(***************************************************************************)
StackV == LuaValues \cup Range(Below) \cup {Nil}

FrameT == [index : Nat, map : Nat, left : SUBSET (LuaValues \X LuaValues),
           at : {"next", "key", "value"}, key : JsV \cup {Nil}]

MapT == [of : LuaTables, entries : Seq(JsV \X JsV)]

\* What a value that is known becomes.
KnownIn(R, v) == v \in LuaScalars \cup DOMAIN R

ImageIn(R, v) == IF v \in LuaTables THEN MapRef(R[v]) ELSE JsValue[v]

\* The Map of the entries E has one entry per key of the table entries D, all
\* known, and each belongs to one of D.
Mirrors(R, E, D) ==
  /\ OneEntryPerKey(E)
  /\ \A e \in D : /\ KnownIn(R, e[1]) /\ KnownIn(R, e[2])
                  /\ HasKey(E, ImageIn(R, e[1]))
  /\ \A k \in DOMAIN E : \E e \in D : E[k] = <<ImageIn(R, e[1]), ImageIn(R, e[2])>>

\* The k-th call keeps the key under way at one position of the stack above its
\* table, and the value at the next.
Base(k) == Len(Below) + 2 * k - 1

Current(st, k) == <<st[Base(k) + 1], st[Base(k) + 2]>>

\* The entries the k-th call is through with.
Seen(G, st, M, f, k) ==
  G[M[f.map].of] \ (f.left \cup (IF f.at = "next" THEN {} ELSE {Current(st, k)}))

\* The table whose Map a call waits for.
Awaited(st, f, k) == IF f.at = "key" THEN st[Base(k) + 1] ELSE st[Base(k) + 2]

FrameOK(G, st, R, M, f, k) ==
  /\ f.map \in DOMAIN M
  /\ f.index \in 1 .. Base(k) /\ st[f.index] = M[f.map].of
  /\ f.left \subseteq G[M[f.map].of]
  /\ f.at # "next" => Current(st, k) \in G[M[f.map].of] \ f.left
  /\ f.at = "value" => /\ KnownIn(R, st[Base(k) + 1])
                       /\ f.key = ImageIn(R, st[Base(k) + 1])
  /\ Mirrors(R, M[f.map].entries, Seen(G, st, M, f, k))

\* Every table met has one Map.
RefsOK(R, M) ==
  /\ DOMAIN R \subseteq LuaTables
  /\ \A t \in DOMAIN R : R[t] \in DOMAIN M /\ M[R[t]].of = t
  /\ \A i \in DOMAIN M : M[i].of \in DOMAIN R /\ R[M[i].of] = i

FramesOK(G, st, fs, R, M) ==
  /\ \A k \in 1 .. Len(fs) : FrameOK(G, st, R, M, fs[k], k)
  /\ \A k \in 1 .. Len(fs) - 1 :
       fs[k].at # "next" /\ M[fs[k + 1].map].of = Awaited(st, fs[k], k)
  /\ \A j, k \in 1 .. Len(fs) : fs[j].map = fs[k].map => j = k

\* The Maps no call is filling are complete.
Complete(G, fs, R, M) ==
  \A i \in DOMAIN M :
    (\A k \in 1 .. Len(fs) : fs[k].map # i) => Mirrors(R, M[i].entries, G[M[i].of])

CopyT(G, st, fs, M) ==
  G \in Graphs /\ st \in Seq(StackV) /\ fs \in Seq(FrameT) /\ Len(fs) > 0 /\ M \in Seq(MapT)

StackOK(st, fs) ==
  /\ Len(st) = Base(Len(fs)) + (IF fs[Len(fs)].at = "next" THEN 1 ELSE 2)
  /\ \A i \in 1 .. Len(Below) : st[i] = Below[i]

Copying(G, st, fs, R, M) ==
  /\ CopyT(G, st, fs, M)
  /\ StackOK(st, fs)
  /\ RefsOK(R, M)
  /\ FramesOK(G, st, fs, R, M)
  /\ Complete(G, fs, R, M)

LEMMA BelowLength == Len(Below) \in Nat
BY BelowAssumption

LEMMA GraphEntries ==
  ASSUME NEW G \in Graphs, NEW t \in LuaTables
  PROVE  G[t] \subseteq LuaValues \X LuaValues
BY GraphsAssumption

LEMMA MapType ==
  ASSUME NEW M \in Seq(MapT), NEW i \in DOMAIN M
  PROVE  M[i] \in MapT /\ M[i].of \in LuaTables /\ M[i].entries \in Seq(JsV \X JsV) /\ i \in Nat
<1>1. M[i] \in MapT /\ i \in Nat
  OBVIOUS
<1> QED
  BY <1>1 DEF MapT

\* What was known stays known, with the same image.
LEMMA MirrorsStay ==
  ASSUME NEW R, NEW Q, NEW E, NEW D, Mirrors(R, E, D),
         \A t \in DOMAIN R : t \in DOMAIN Q /\ Q[t] = R[t]
  PROVE  Mirrors(Q, E, D)
<1>1. ASSUME NEW v, KnownIn(R, v)
      PROVE  KnownIn(Q, v) /\ ImageIn(Q, v) = ImageIn(R, v)
  BY <1>1, ScalarsAreNotTables DEF KnownIn, ImageIn
<1> QED
  BY <1>1 DEF Mirrors

\* A call is unaffected by what happens above it on the stack and in other Maps.
LEMMA FrameStays ==
  ASSUME NEW G, NEW st, NEW su, NEW R, NEW Q, NEW M, NEW N, NEW f, NEW k, FrameOK(G, st, R, M, f, k),
         \A t \in DOMAIN R : t \in DOMAIN Q /\ Q[t] = R[t],
         \A i \in 1 .. Base(k) : su[i] = st[i],
         f.at # "next" => su[Base(k) + 1] = st[Base(k) + 1] /\ su[Base(k) + 2] = st[Base(k) + 2],
         f.map \in DOMAIN N, N[f.map] = M[f.map]
  PROVE  FrameOK(G, su, Q, N, f, k)
<1>1. Seen(G, su, N, f, k) = Seen(G, st, M, f, k)
  BY DEF Seen, Current
<1>2. Mirrors(Q, N[f.map].entries, Seen(G, su, N, f, k))
  BY <1>1, MirrorsStay DEF FrameOK
<1>3. f.left \subseteq G[N[f.map].of]
  BY DEF FrameOK
<1>4. f.at # "next" => Current(su, k) \in G[N[f.map].of] \ f.left
  BY DEF FrameOK, Current
<1>5. f.at = "value" => KnownIn(Q, su[Base(k) + 1]) /\ f.key = ImageIn(Q, su[Base(k) + 1])
  <2> SUFFICES ASSUME f.at = "value"
               PROVE  KnownIn(Q, su[Base(k) + 1]) /\ f.key = ImageIn(Q, su[Base(k) + 1])
    OBVIOUS
  <2>1. KnownIn(R, st[Base(k) + 1]) /\ f.key = ImageIn(R, st[Base(k) + 1])
    BY DEF FrameOK
  <2> QED
    BY <2>1, ScalarsAreNotTables DEF KnownIn, ImageIn
<1>6. f.index \in 1 .. Base(k) /\ su[f.index] = N[f.map].of
  BY DEF FrameOK
<1> QED
  BY <1>2, <1>3, <1>4, <1>5, <1>6 DEF FrameOK

\* The positions of the calls below the top lie below the top's.
LEMMA BaseOrder ==
  ASSUME NEW n \in Nat, NEW k \in 1 .. n
  PROVE  /\ Base(k) \in Nat /\ Base(n) \in Nat /\ Base(k) <= Base(n)
         /\ k # n => Base(k) + 2 <= Base(n)
BY BelowLength DEF Base

\* What the top call works on.
LEMMA TopFrame ==
  ASSUME NEW G, NEW st, NEW fs, NEW R, NEW M, Copying(G, st, fs, R, M)
  PROVE  /\ Len(fs) \in Nat \ {0}
         /\ fs[Len(fs)] \in FrameT
         /\ FrameOK(G, st, R, M, fs[Len(fs)], Len(fs))
         /\ Base(Len(fs)) \in Nat
         /\ fs[Len(fs)].at # "next" =>
              /\ st[Base(Len(fs)) + 1] \in LuaValues
              /\ st[Base(Len(fs)) + 2] \in LuaValues
<1> DEFINE n == Len(fs)
           f == fs[n]
<1>1. n \in Nat \ {0} /\ f \in FrameT /\ M \in Seq(MapT) /\ G \in Graphs
  BY DEF Copying, CopyT
<1>2. FrameOK(G, st, R, M, f, n)
  BY <1>1 DEF Copying, FramesOK
<1>3. Base(n) \in Nat
  BY <1>1, BelowLength DEF Base
<1>4. f.at # "next" => Current(st, n) \in LuaValues \X LuaValues
  <2>1. M[f.map].of \in LuaTables
    BY <1>1, <1>2, MapType DEF FrameOK
  <2> QED
    BY <1>1, <1>2, <2>1, GraphEntries DEF FrameOK
<1> QED
  BY <1>1, <1>2, <1>3, <1>4 DEF Current

\* The image of a known value is a JS value.
LEMMA ImageType ==
  ASSUME NEW R, NEW M \in Seq(MapT), RefsOK(R, M), NEW v, KnownIn(R, v)
  PROVE  ImageIn(R, v) \in JsV
<1>1. CASE v \in LuaTables
  <2>1. R[v] \in Nat
    BY <1>1, ScalarsAreNotTables DEF KnownIn, RefsOK
  <2> QED
    BY <1>1, <2>1 DEF ImageIn, JsV
<1>2. CASE v \notin LuaTables
  BY <1>2, JsValueAssumption DEF KnownIn, RefsOK, ImageIn, JsV
<1> QED
  BY <1>1, <1>2

\* result.set of a converted entry.
LEMMA MirrorsAdd ==
  ASSUME NEW R, NEW M \in Seq(MapT), RefsOK(R, M), NEW E \in Seq(JsV \X JsV), NEW D, NEW e,
         Mirrors(R, E, D), KnownIn(R, e[1]), KnownIn(R, e[2])
  PROVE  /\ MapSet(E, ImageIn(R, e[1]), ImageIn(R, e[2])) \in Seq(JsV \X JsV)
         /\ Mirrors(R, MapSet(E, ImageIn(R, e[1]), ImageIn(R, e[2])), D \cup {e})
<1> DEFINE key == ImageIn(R, e[1])
           v == ImageIn(R, e[2])
           N == MapSet(E, key, v)
<1>1. key \in JsV /\ v \in JsV
  BY ImageType
<1>2. OneEntryPerKey(E)
  BY DEF Mirrors
<1>3. N = MapSet(E, key, v)
  OBVIOUS
<1> HIDE DEF key, v, N
<1>4. /\ N \in Seq(JsV \X JsV)
      /\ OneEntryPerKey(N)
      /\ HasKey(N, key)
      /\ \A x : HasKey(E, x) => HasKey(N, x)
      /\ AddsAtMost(N, E, <<key, v>>)
  BY <1>1, <1>2, <1>3, MapSetEffect
<1>5. ASSUME NEW d \in D \cup {e}
      PROVE  /\ KnownIn(R, d[1]) /\ KnownIn(R, d[2])
             /\ HasKey(N, ImageIn(R, d[1]))
  BY <1>4 DEF Mirrors, key
<1>6. ASSUME NEW k \in DOMAIN N
      PROVE  \E d \in D \cup {e} : N[k] = <<ImageIn(R, d[1]), ImageIn(R, d[2])>>
  <2>1. CASE N[k] = <<key, v>>
    BY <2>1 DEF key, v
  <2>2. CASE \E j \in DOMAIN E : N[k] = E[j]
    BY <2>2 DEF Mirrors
  <2> QED
    BY <1>4, <2>1, <2>2 DEF AddsAtMost
<1>7. Mirrors(R, N, D \cup {e})
  BY <1>4, <1>5, <1>6 DEF Mirrors
<1> QED
  BY <1>4, <1>7 DEF N, key, v

-----------------------------------------------------------------------------
(***************************************************************************)
(* The operations of the copy.                                             *)
(***************************************************************************)
NewFrame(G, t, M, x) ==
  [index |-> x, map |-> Len(M) + 1, left |-> G[t], at |-> "next", key |-> Nil]

NewMap(t) == [of |-> t, entries |-> <<>>]

\* The Map of a table that is entered is not the Map of any other.
LEMMA NewRefs ==
  ASSUME NEW R, NEW M \in Seq(MapT), RefsOK(R, M), NEW t \in LuaTables, t \notin DOMAIN R
  PROVE  /\ RefsOK(Put(R, t, Len(M) + 1), Append(M, NewMap(t)))
         /\ Append(M, NewMap(t)) \in Seq(MapT)
         /\ \A x \in DOMAIN R : /\ x \in DOMAIN Put(R, t, Len(M) + 1)
                                /\ Put(R, t, Len(M) + 1)[x] = R[x]
         /\ DOMAIN Append(M, NewMap(t)) = DOMAIN M \cup {Len(M) + 1}
         /\ Append(M, NewMap(t))[Len(M) + 1] = NewMap(t)
         /\ \A i \in DOMAIN M : Append(M, NewMap(t))[i] = M[i] /\ i # Len(M) + 1
<1> DEFINE Q == Put(R, t, Len(M) + 1)
           N == Append(M, NewMap(t))
<1>1. NewMap(t) \in MapT
  BY EmptySeq DEF NewMap, MapT
<1>2. /\ N \in Seq(MapT)
      /\ Len(N) = Len(M) + 1
      /\ \A i \in 1 .. Len(M) : N[i] = M[i]
      /\ N[Len(M) + 1] = NewMap(t)
  BY <1>1, AppendProperties
<1>3. DOMAIN M = 1 .. Len(M) /\ Len(M) \in Nat
  OBVIOUS
<1>4. DOMAIN N = DOMAIN M \cup {Len(M) + 1} /\ Len(M) + 1 \notin DOMAIN M
  BY <1>2, <1>3
<1>5. /\ DOMAIN Q = DOMAIN R \cup {t}
      /\ Q[t] = Len(M) + 1
      /\ \A x \in DOMAIN R \ {t} : Q[x] = R[x]
  BY DEF Put
<1> HIDE DEF Q, N
<1>6. NewMap(t).of = t
  BY DEF NewMap
<1>7. DOMAIN Q \subseteq LuaTables
  BY <1>5 DEF RefsOK
<1>8. \A x \in DOMAIN Q : Q[x] \in DOMAIN N /\ N[Q[x]].of = x
  BY <1>2, <1>3, <1>4, <1>5, <1>6 DEF RefsOK
<1>9. \A i \in DOMAIN N : N[i].of \in DOMAIN Q /\ Q[N[i].of] = i
  BY <1>2, <1>3, <1>4, <1>5, <1>6 DEF RefsOK
<1>10. RefsOK(Q, N)
  BY <1>7, <1>8, <1>9 DEF RefsOK
<1> QED
  BY <1>2, <1>3, <1>4, <1>5, <1>10 DEF Q, N

\* The first call, on the table the wrapper names.
LEMMA FirstCall ==
  ASSUME NEW G \in Graphs, NEW t \in LuaTables, NEW x, x = Len(Below) + 1
  PROVE  Copying(G, Append(Append(Below, t), Nil), <<NewFrame(G, t, <<>>, x)>>,
                 Put(<<>>, t, 1), <<NewMap(t)>>)
<1> DEFINE st == Append(Append(Below, t), Nil)
           f == NewFrame(G, t, <<>>, x)
           fs == <<f>>
           R == Put(<<>>, t, 1)
           M == <<NewMap(t)>>
<1>1. NewMap(t) \in MapT /\ M \in Seq(MapT) /\ DOMAIN M = {1}
  BY EmptySeq DEF NewMap, MapT
<1>2. DOMAIN R = {t} /\ R[t] = 1
  BY DEF Put
<1>3. RefsOK(R, M)
  BY <1>1, <1>2 DEF RefsOK, NewMap
<1>4. /\ f \in FrameT
      /\ f.map = 1 /\ f.at = "next" /\ f.left = G[t] /\ f.index = x
      /\ fs \in Seq(FrameT) /\ Len(fs) = 1 /\ fs[1] = f
  BY GraphEntries, BelowLength DEF NewFrame, FrameT
<1>5. /\ st \in Seq(StackV)
      /\ Len(st) = Len(Below) + 2
      /\ \A i \in 1 .. Len(Below) : st[i] = Below[i]
      /\ st[x] = t
  <2>1. Below \in Seq(StackV) /\ t \in StackV /\ Nil \in StackV
    BY BelowAssumption DEF StackV, LuaValues
  <2> QED
    BY <2>1
<1>6. StackOK(st, fs)
  BY <1>4, <1>5, BelowLength DEF StackOK, Base
<1> HIDE DEF st, f, fs, R
<1>7. FrameOK(G, st, R, M, fs[1], 1)
  <2>1. M[1].of = t /\ M[1].entries = <<>>
    BY DEF NewMap
  <2>2. Seen(G, st, M, f, 1) = {}
    BY <2>1, <1>4 DEF Seen
  <2>3. Mirrors(R, <<>>, {})
    BY DEF Mirrors, OneEntryPerKey
  <2>4. x \in 1 .. Base(1)
    BY BelowLength DEF Base
  <2> QED
    BY <2>1, <2>2, <2>3, <2>4, <1>1, <1>4, <1>5 DEF FrameOK
<1>8. FramesOK(G, st, fs, R, M) /\ Complete(G, fs, R, M)
  BY <1>1, <1>4, <1>7 DEF FramesOK, Complete
<1> QED
  BY <1>1, <1>3, <1>4, <1>5, <1>6, <1>8 DEF Copying, CopyT, st, fs, R, f

\* The first frame of a nested call, on a table that is met for the first time.
LEMMA NestedCall ==
  ASSUME NEW G, NEW st, NEW fs, NEW R, NEW M, Copying(G, st, fs, R, M),
         fs[Len(fs)].at # "next", NEW t \in LuaTables, t \notin DOMAIN R,
         t = Awaited(st, fs[Len(fs)], Len(fs)), NEW x \in 1 .. Len(st), st[x] = t
  PROVE  Copying(G, Append(st, Nil), Append(fs, NewFrame(G, t, M, x)),
                 Put(R, t, Len(M) + 1), Append(M, NewMap(t)))
<1> DEFINE n == Len(fs)
           g == NewFrame(G, t, M, x)
           su == Append(st, Nil)
           gs == Append(fs, g)
           Q == Put(R, t, Len(M) + 1)
           N == Append(M, NewMap(t))
<1>1. /\ G \in Graphs /\ st \in Seq(StackV) /\ fs \in Seq(FrameT) /\ M \in Seq(MapT)
      /\ n \in Nat \ {0} /\ Base(n) \in Nat /\ RefsOK(R, M)
      /\ Len(st) = Base(n) + 2
  BY TopFrame DEF Copying, CopyT, StackOK
<1>2. /\ RefsOK(Q, N)
      /\ N \in Seq(MapT)
      /\ \A y \in DOMAIN R : y \in DOMAIN Q /\ Q[y] = R[y]
      /\ DOMAIN N = DOMAIN M \cup {Len(M) + 1}
      /\ N[Len(M) + 1] = NewMap(t)
      /\ \A i \in DOMAIN M : N[i] = M[i] /\ i # Len(M) + 1
  BY <1>1, NewRefs
<1>3. /\ g \in FrameT
      /\ g.map = Len(M) + 1 /\ g.at = "next" /\ g.left = G[t] /\ g.index = x
  BY <1>1, GraphEntries DEF NewFrame, FrameT
<1>4. /\ gs \in Seq(FrameT)
      /\ Len(gs) = n + 1
      /\ gs[n + 1] = g
      /\ \A k \in 1 .. n : gs[k] = fs[k]
  BY <1>1, <1>3, AppendProperties
<1>5. /\ su \in Seq(StackV)
      /\ Len(su) = Len(st) + 1
      /\ \A i \in 1 .. Len(st) : su[i] = st[i]
  BY <1>1, AppendProperties DEF StackV
<1> HIDE DEF g, su, gs, Q, N
<1>6. StackOK(su, gs)
  <2>1. Len(su) = Base(n + 1) + 1
    BY <1>1, <1>5, BelowLength DEF Base
  <2>2. \A i \in 1 .. Len(Below) : i \in 1 .. Len(st)
    BY <1>1, BelowLength DEF Base
  <2> QED
    BY <2>1, <2>2, <1>3, <1>4, <1>5 DEF StackOK, Copying
<1>7. ASSUME NEW k \in 1 .. n
      PROVE  FrameOK(G, su, Q, N, gs[k], k)
  <2>1. Base(k) + 2 <= Len(st) /\ Base(k) \in Nat
    <3>1. Base(k) \in Nat /\ Base(k) <= Base(n)
      BY <1>1, BaseOrder
    <3> QED
      BY <1>1, <3>1
  <2>2. su[Base(k) + 1] = st[Base(k) + 1] /\ su[Base(k) + 2] = st[Base(k) + 2]
    BY <1>1, <1>5, <2>1
  <2>3. FrameOK(G, st, R, M, fs[k], k)
    BY DEF Copying, FramesOK
  <2>4. fs[k].map \in DOMAIN N /\ N[fs[k].map] = M[fs[k].map]
    BY <1>2, <2>3 DEF FrameOK
  <2>5. \A i \in 1 .. Base(k) : su[i] = st[i]
    BY <1>1, <1>5, <2>1
  <2> QED
    BY <1>2, <1>4, <2>2, <2>3, <2>4, <2>5, FrameStays
<1>8. FrameOK(G, su, Q, N, g, n + 1)
  <2>1. N[g.map].of = t /\ N[g.map].entries = <<>>
    BY <1>2, <1>3 DEF NewMap
  <2>2. Seen(G, su, N, g, n + 1) = {}
    BY <2>1, <1>3 DEF Seen
  <2>3. Mirrors(Q, <<>>, {})
    BY DEF Mirrors, OneEntryPerKey
  <2>4. x \in 1 .. Base(n + 1) /\ su[x] = t
    <3>1. Base(n + 1) = Len(st)
      BY <1>1, BelowLength DEF Base
    <3> QED
      BY <3>1, <1>5
  <2> QED
    BY <2>1, <2>2, <2>3, <2>4, <1>2, <1>3 DEF FrameOK
<1>9. ASSUME NEW k \in 1 .. n
      PROVE  gs[k].at # "next" /\ N[gs[k + 1].map].of = Awaited(su, gs[k], k)
  <2>1. Base(k) + 2 <= Len(st) /\ Base(k) \in Nat
    <3>1. Base(k) \in Nat /\ Base(k) <= Base(n)
      BY <1>1, BaseOrder
    <3> QED
      BY <1>1, <3>1
  <2>2. Awaited(su, fs[k], k) = Awaited(st, fs[k], k)
    BY <1>1, <1>5, <2>1 DEF Awaited
  <2>3. CASE k = n
    BY <2>2, <2>3, <1>1, <1>2, <1>3, <1>4 DEF NewMap
  <2>4. CASE k # n
    <3>1. k \in 1 .. n - 1 /\ k + 1 \in 1 .. n
      BY <2>4, <1>1
    <3>2. fs[k].at # "next" /\ M[fs[k + 1].map].of = Awaited(st, fs[k], k)
      BY <3>1 DEF Copying, FramesOK
    <3>3. fs[k + 1].map \in DOMAIN M
      BY <3>1 DEF Copying, FramesOK, FrameOK
    <3> QED
      BY <2>2, <3>1, <3>2, <3>3, <1>2, <1>4
  <2> QED
    BY <2>3, <2>4
<1>10. \A k \in 1 .. n : fs[k].map \in DOMAIN M
  BY DEF Copying, FramesOK, FrameOK
<1>11. \A j, k \in 1 .. n + 1 : gs[j].map = gs[k].map => j = k
  <2>1. \A j, k \in 1 .. n : fs[j].map = fs[k].map => j = k
    BY DEF Copying, FramesOK
  <2>2. \A j \in 1 .. n + 1 : j \in 1 .. n \/ j = n + 1
    BY <1>1
  <2>3. \A j \in 1 .. n : gs[j].map = fs[j].map /\ gs[j].map # gs[n + 1].map
    BY <1>2, <1>3, <1>4, <1>10
  <2> QED
    BY <2>1, <2>2, <2>3
<1>12. FramesOK(G, su, gs, Q, N)
  <2>1. \A k \in 1 .. n + 1 : k \in 1 .. n \/ k = n + 1
    BY <1>1
  <2>2. \A k \in 1 .. n + 1 : FrameOK(G, su, Q, N, gs[k], k)
    BY <2>1, <1>4, <1>7, <1>8
  <2>3. 1 .. Len(gs) = 1 .. n + 1 /\ 1 .. Len(gs) - 1 = 1 .. n
    BY <1>1, <1>4
  <2> QED
    BY <2>2, <2>3, <1>9, <1>11 DEF FramesOK
<1>13. Complete(G, gs, Q, N)
  <2> SUFFICES ASSUME NEW i \in DOMAIN N, \A k \in 1 .. Len(gs) : gs[k].map # i
               PROVE  Mirrors(Q, N[i].entries, G[N[i].of])
    BY DEF Complete
  <2>1. n + 1 \in 1 .. Len(gs) /\ \A k \in 1 .. n : k \in 1 .. Len(gs)
    BY <1>1, <1>4
  <2>2. i \in DOMAIN M /\ N[i] = M[i]
    BY <2>1, <1>2, <1>3, <1>4
  <2>3. Mirrors(R, M[i].entries, G[M[i].of])
    BY <2>1, <2>2, <1>4 DEF Copying, Complete
  <2> QED
    BY <2>2, <2>3, <1>2, MirrorsStay
<1> QED
  BY <1>1, <1>2, <1>4, <1>5, <1>6, <1>12, <1>13 DEF Copying, CopyT, g, su, gs, Q, N

\* No Map but the m-th changes, and that one not its table.
OthersStay(M, N, m) ==
  /\ DOMAIN N = DOMAIN M
  /\ \A i \in DOMAIN M : N[i].of = M[i].of /\ (i # m => N[i] = M[i])

\* Only the top call changes, and the Map it fills; the stack changes above the
\* positions of the other calls.
LEMMA TopCallChanges ==
  ASSUME NEW G, NEW st, NEW fs, NEW R, NEW M, Copying(G, st, fs, R, M),
         NEW su \in Seq(StackV), NEW g \in FrameT, NEW N \in Seq(MapT),
         g.map = fs[Len(fs)].map,
         OthersStay(M, N, g.map),
         Len(su) = Base(Len(fs)) + (IF g.at = "next" THEN 1 ELSE 2),
         \A i \in 1 .. Base(Len(fs)) : su[i] = st[i],
         FrameOK(G, su, R, N, g, Len(fs))
  PROVE  Copying(G, su, [fs EXCEPT ![Len(fs)] = g], R, N)
<1> DEFINE n == Len(fs)
           gs == [fs EXCEPT ![n] = g]
<1>1. /\ G \in Graphs /\ fs \in Seq(FrameT) /\ M \in Seq(MapT)
      /\ n \in Nat \ {0} /\ Base(n) \in Nat /\ RefsOK(R, M)
      /\ DOMAIN N = DOMAIN M
      /\ \A i \in DOMAIN M : N[i].of = M[i].of /\ (i # g.map => N[i] = M[i])
  BY TopFrame DEF Copying, CopyT, OthersStay
<1>2. /\ gs \in Seq(FrameT)
      /\ Len(gs) = n
      /\ gs[n] = g
      /\ \A k \in 1 .. n - 1 : gs[k] = fs[k]
  BY <1>1
<1> HIDE DEF gs
<1>3. StackOK(su, gs)
  <2>1. \A i \in 1 .. Len(Below) : i \in 1 .. Base(n)
    BY <1>1, BelowLength DEF Base
  <2> QED
    BY <2>1, <1>2 DEF StackOK, Copying
<1>4. ASSUME NEW k \in 1 .. n - 1
      PROVE  /\ FrameOK(G, su, R, N, gs[k], k)
             /\ gs[k].at # "next" /\ N[gs[k + 1].map].of = Awaited(su, gs[k], k)
  <2>1. Base(k) + 2 <= Base(n) /\ Base(k) \in Nat
    <3>1. k \in 1 .. n /\ k # n
      BY <1>1
    <3> QED
      BY <1>1, <3>1, BaseOrder
  <2>2. su[Base(k) + 1] = st[Base(k) + 1] /\ su[Base(k) + 2] = st[Base(k) + 2]
    <3>1. Base(k) + 1 \in 1 .. Base(n) /\ Base(k) + 2 \in 1 .. Base(n)
      BY <1>1, <2>1
    <3> QED
      BY <3>1
  <2>3. k \in 1 .. n /\ k + 1 \in 1 .. n /\ n \in 1 .. n /\ k # n
    BY <1>1
  <2>4. FrameOK(G, st, R, M, fs[k], k) /\ FrameOK(G, st, R, M, fs[k + 1], k + 1)
    BY <2>3 DEF Copying, FramesOK
  <2>5. fs[k].map \in DOMAIN M /\ fs[k + 1].map \in DOMAIN M
    BY <2>4 DEF FrameOK
  <2>6. fs[k].map # g.map
    BY <2>3 DEF Copying, FramesOK
  <2>7. FrameOK(G, su, R, N, fs[k], k)
    <3>1. \A i \in 1 .. Base(k) : su[i] = st[i]
      BY <1>1, <2>1
    <3>2. fs[k].map \in DOMAIN N /\ N[fs[k].map] = M[fs[k].map]
      BY <1>1, <2>5, <2>6
    <3> QED
      BY <2>2, <2>4, <3>1, <3>2, FrameStays
  <2>8. fs[k].at # "next" /\ M[fs[k + 1].map].of = Awaited(st, fs[k], k)
    BY DEF Copying, FramesOK
  <2>9. Awaited(su, fs[k], k) = Awaited(st, fs[k], k)
    BY <2>2 DEF Awaited
  <2>10. gs[k + 1].map = fs[k + 1].map
    <3>1. k + 1 = n \/ k + 1 \in 1 .. n - 1
      BY <1>1
    <3> QED
      BY <3>1, <1>2
  <2> QED
    BY <1>1, <1>2, <2>5, <2>7, <2>8, <2>9, <2>10
<1>5. \A k \in 1 .. n : gs[k].map = fs[k].map
  BY <1>1, <1>2
<1>6. FramesOK(G, su, gs, R, N)
  <2>1. \A j, k \in 1 .. n : gs[j].map = gs[k].map => j = k
    BY <1>5 DEF Copying, FramesOK
  <2>2. \A k \in 1 .. n : FrameOK(G, su, R, N, gs[k], k)
    BY <1>1, <1>2, <1>4
  <2> QED
    BY <2>1, <2>2, <1>2, <1>4 DEF FramesOK
<1>7. RefsOK(R, N)
  BY <1>1 DEF RefsOK
<1>8. Complete(G, gs, R, N)
  <2> SUFFICES ASSUME NEW i \in DOMAIN N, \A k \in 1 .. n : gs[k].map # i
               PROVE  Mirrors(R, N[i].entries, G[N[i].of])
    BY <1>2 DEF Complete
  <2>1. i # g.map
    BY <1>1, <1>2
  <2>2. Mirrors(R, M[i].entries, G[M[i].of])
    BY <1>1, <1>5 DEF Copying, Complete
  <2> QED
    BY <1>1, <2>1, <2>2
<1> QED
  BY <1>1, <1>2, <1>3, <1>6, <1>7, <1>8 DEF Copying, CopyT, gs

\* lua_next finds an entry e.
LEMMA EntryFound ==
  ASSUME NEW G, NEW st, NEW fs, NEW R, NEW M, Copying(G, st, fs, R, M),
         fs[Len(fs)].at = "next", NEW e \in fs[Len(fs)].left
  PROVE  Copying(G, Front(st) \o e,
                 [fs EXCEPT ![Len(fs)].at = "key", ![Len(fs)].left = @ \ {e}], R, M)
<1> DEFINE n == Len(fs)
           f == fs[n]
           g == [f EXCEPT !.at = "key", !.left = @ \ {e}]
           su == Front(st) \o e
<1>1. /\ st \in Seq(StackV) /\ M \in Seq(MapT) /\ fs \in Seq(FrameT)
      /\ n \in Nat \ {0} /\ Base(n) \in Nat /\ f \in FrameT
      /\ FrameOK(G, st, R, M, f, n)
      /\ Len(st) = Base(n) + 1
  BY TopFrame DEF Copying, CopyT, StackOK
<1>2. e \in LuaValues \X LuaValues
  BY <1>1 DEF FrameT
<1>3. /\ g \in FrameT
      /\ g.map = f.map /\ g.at = "key" /\ g.left = f.left \ {e} /\ g.index = f.index
  BY <1>1 DEF FrameT
<1>4. /\ Front(st) \in Seq(StackV)
      /\ Len(Front(st)) = Base(n)
      /\ \A i \in 1 .. Base(n) : Front(st)[i] = st[i]
  <2>1. st # <<>> /\ Len(st) - 1 = Base(n)
    BY <1>1
  <2> QED
    BY <2>1, <1>1, FrontEffect
<1>5. e[1] \in StackV /\ e[2] \in StackV /\ e = <<e[1], e[2]>>
  BY <1>2 DEF StackV
<1>6. /\ su \in Seq(StackV)
      /\ Len(su) = Base(n) + 2
      /\ \A i \in 1 .. Base(n) : su[i] = st[i]
      /\ su[Base(n) + 1] = e[1]
      /\ su[Base(n) + 2] = e[2]
  <2>1. su = Front(st) \o <<e[1], e[2]>>
    BY <1>5
  <2> HIDE DEF su
  <2> QED
    BY <2>1, <1>4, <1>5, PushTwoEffect
<1>7. [fs EXCEPT ![n].at = "key", ![n].left = @ \ {e}] = [fs EXCEPT ![n] = g]
  BY <1>1
<1> HIDE DEF g, su
<1>8. Current(su, n) = e
  BY <1>5, <1>6 DEF Current
<1>9. FrameOK(G, su, R, M, g, n)
  <2>1. e \in G[M[f.map].of] /\ f.left \subseteq G[M[f.map].of] /\ f.map \in DOMAIN M
    BY <1>1 DEF FrameOK
  <2>2. Seen(G, su, M, g, n) = Seen(G, st, M, f, n)
    BY <1>3, <1>8, <2>1 DEF Seen
  <2>3. Mirrors(R, M[f.map].entries, Seen(G, st, M, f, n))
    BY <1>1 DEF FrameOK
  <2>4. f.index \in 1 .. Base(n) /\ su[f.index] = M[f.map].of
    BY <1>1, <1>6 DEF FrameOK
  <2> QED
    BY <2>1, <2>2, <2>3, <2>4, <1>3, <1>8 DEF FrameOK
<1>10. OthersStay(M, M, g.map)
  BY DEF OthersStay
<1>11. Copying(G, su, [fs EXCEPT ![n] = g], R, M)
  BY <1>1, <1>3, <1>6, <1>9, <1>10, TopCallChanges
<1> QED
  BY <1>7, <1>11 DEF su

\* The key under way is converted.
LEMMA KeyConverted ==
  ASSUME NEW G, NEW st, NEW fs, NEW R, NEW M, Copying(G, st, fs, R, M),
         fs[Len(fs)].at = "key", KnownIn(R, st[Len(st) - 1])
  PROVE  Copying(G, st, GotKey(fs, ImageIn(R, st[Len(st) - 1])), R, M)
<1> DEFINE n == Len(fs)
           f == fs[n]
           g == [f EXCEPT !.key = ImageIn(R, st[Len(st) - 1]), !.at = "value"]
<1>1. /\ st \in Seq(StackV) /\ M \in Seq(MapT) /\ fs \in Seq(FrameT)
      /\ n \in Nat \ {0} /\ Base(n) \in Nat /\ f \in FrameT
      /\ FrameOK(G, st, R, M, f, n)
      /\ Len(st) = Base(n) + 2 /\ RefsOK(R, M)
  BY TopFrame DEF Copying, CopyT, StackOK
<1>2. Len(st) - 1 = Base(n) + 1
  BY <1>1
<1>3. ImageIn(R, st[Len(st) - 1]) \in JsV
  BY <1>1, ImageType
<1>4. /\ g \in FrameT
      /\ g.map = f.map /\ g.at = "value" /\ g.left = f.left /\ g.index = f.index
      /\ g.key = ImageIn(R, st[Base(n) + 1])
  BY <1>1, <1>2, <1>3 DEF FrameT
<1>5. GotKey(fs, ImageIn(R, st[Len(st) - 1])) = [fs EXCEPT ![n] = g]
  BY <1>1 DEF GotKey
<1> HIDE DEF g
<1>6. FrameOK(G, st, R, M, g, n)
  <2>1. Seen(G, st, M, g, n) = Seen(G, st, M, f, n)
    BY <1>4 DEF Seen
  <2> QED
    BY <2>1, <1>1, <1>2, <1>4 DEF FrameOK
<1>7. OthersStay(M, M, g.map)
  BY DEF OthersStay
<1>8. Copying(G, st, [fs EXCEPT ![n] = g], R, M)
  BY <1>1, <1>4, <1>6, <1>7, TopCallChanges
<1> QED
  BY <1>5, <1>8

\* The value under way is converted, and the entry added to the Map.
LEMMA ValueConverted ==
  ASSUME NEW G, NEW st, NEW fs, NEW R, NEW M, Copying(G, st, fs, R, M),
         fs[Len(fs)].at = "value", KnownIn(R, st[Len(st)])
  PROVE  Copying(G, Front(st), [fs EXCEPT ![Len(fs)].at = "next"], R,
                 [M EXCEPT ![fs[Len(fs)].map].entries =
                    MapSet(@, fs[Len(fs)].key, ImageIn(R, st[Len(st)]))])
<1> DEFINE n == Len(fs)
           f == fs[n]
           g == [f EXCEPT !.at = "next"]
           e == Current(st, n)
           su == Front(st)
           N == [M EXCEPT ![f.map].entries = MapSet(@, f.key, ImageIn(R, st[Len(st)]))]
<1>1. /\ st \in Seq(StackV) /\ M \in Seq(MapT) /\ fs \in Seq(FrameT)
      /\ n \in Nat \ {0} /\ Base(n) \in Nat /\ f \in FrameT
      /\ FrameOK(G, st, R, M, f, n)
      /\ Len(st) = Base(n) + 2 /\ RefsOK(R, M)
  BY TopFrame DEF Copying, CopyT, StackOK
<1>2. /\ f.map \in DOMAIN M
      /\ e \in G[M[f.map].of] \ f.left
      /\ f.left \subseteq G[M[f.map].of]
      /\ KnownIn(R, st[Base(n) + 1])
      /\ f.key = ImageIn(R, st[Base(n) + 1])
      /\ Mirrors(R, M[f.map].entries, Seen(G, st, M, f, n))
  BY <1>1 DEF FrameOK
<1>3. e[1] = st[Base(n) + 1] /\ e[2] = st[Base(n) + 2] /\ st[Len(st)] = st[Base(n) + 2]
  BY <1>1 DEF Current
<1>4. M[f.map] \in MapT /\ M[f.map].entries \in Seq(JsV \X JsV)
  BY <1>1, <1>2, MapType
<1> DEFINE F == MapSet(M[f.map].entries, f.key, ImageIn(R, st[Len(st)]))
<1>5. F \in Seq(JsV \X JsV) /\ Mirrors(R, F, Seen(G, st, M, f, n) \cup {e})
  <2>1. F = MapSet(M[f.map].entries, ImageIn(R, e[1]), ImageIn(R, e[2]))
    BY <1>2, <1>3
  <2>2. KnownIn(R, e[1]) /\ KnownIn(R, e[2])
    BY <1>2, <1>3
  <2> HIDE DEF F, e
  <2> QED
    BY <2>1, <2>2, <1>1, <1>2, <1>4, MirrorsAdd
<1>6. /\ g \in FrameT
      /\ g.map = f.map /\ g.at = "next" /\ g.left = f.left /\ g.index = f.index
  BY <1>1 DEF FrameT
<1>7. [fs EXCEPT ![n].at = "next"] = [fs EXCEPT ![n] = g]
  BY <1>1
<1>8. /\ su \in Seq(StackV)
      /\ Len(su) = Base(n) + 1
      /\ \A i \in 1 .. Base(n) : su[i] = st[i]
  <2>1. st # <<>> /\ Len(st) - 1 = Base(n) + 1 /\ \A i \in 1 .. Base(n) : i \in 1 .. Len(st) - 1
    BY <1>1
  <2> QED
    BY <2>1, <1>1, FrontEffect
<1>9. N = [M EXCEPT ![f.map] = [M[f.map] EXCEPT !.entries = F]]
  BY <1>1, <1>2
<1>10. [M[f.map] EXCEPT !.entries = F] \in MapT
  BY <1>4, <1>5 DEF MapT
<1> HIDE DEF F, N, g, e, su
<1>11. /\ N \in Seq(MapT)
       /\ DOMAIN N = DOMAIN M
       /\ N[f.map] = [M[f.map] EXCEPT !.entries = F]
       /\ \A i \in DOMAIN M : i # f.map => N[i] = M[i]
  BY <1>1, <1>2, <1>9, <1>10
<1>12. N[f.map].of = M[f.map].of /\ N[f.map].entries = F
  BY <1>4, <1>11 DEF MapT
<1>13. FrameOK(G, su, R, N, g, n)
  <2>1. Seen(G, su, N, g, n) = Seen(G, st, M, f, n) \cup {e}
    <3>1. f.at # "next"
      OBVIOUS
    <3> QED
      BY <3>1, <1>2, <1>6, <1>12 DEF Seen, e
  <2>2. g.index \in 1 .. Base(n) /\ su[g.index] = N[g.map].of
    BY <1>1, <1>6, <1>8, <1>12 DEF FrameOK
  <2> QED
    BY <2>1, <2>2, <1>2, <1>5, <1>6, <1>11, <1>12 DEF FrameOK
<1>14. OthersStay(M, N, g.map)
  BY <1>6, <1>11, <1>12 DEF OthersStay
<1>15. Len(su) = Base(n) + (IF g.at = "next" THEN 1 ELSE 2)
  BY <1>6, <1>8
<1>16. Copying(G, su, [fs EXCEPT ![n] = g], R, N)
  <2>1. g.map = f.map /\ g \in FrameT /\ N \in Seq(MapT) /\ su \in Seq(StackV)
    BY <1>6, <1>8, <1>11
  <2>2. \A i \in 1 .. Base(n) : su[i] = st[i]
    BY <1>8
  <2> QED
    BY <2>1, <2>2, <1>13, <1>14, <1>15, TopCallChanges
<1> QED
  BY <1>7, <1>16 DEF N, su

AwaitedByTop(st, fs) == Awaited(st, fs[Len(fs)], Len(fs))

\* A nested call returns: its Map is complete, and it is the image of the table
\* the call below waits for.
LEMMA NestedReturn ==
  ASSUME NEW G, NEW st, NEW fs, NEW R, NEW M, Copying(G, st, fs, R, M),
         fs[Len(fs)].at = "next", fs[Len(fs)].left = {}, Len(fs) > 1
  PROVE  /\ Copying(G, Front(st), Front(fs), R, M)
         /\ Front(fs) # <<>>
         /\ Len(Front(st)) = Base(Len(fs))
         /\ Front(fs)[Len(Front(fs))].at # "next"
         /\ AwaitedByTop(Front(st), Front(fs)) \in LuaTables
         /\ KnownIn(R, AwaitedByTop(Front(st), Front(fs)))
         /\ ImageIn(R, AwaitedByTop(Front(st), Front(fs))) = MapRef(fs[Len(fs)].map)
<1> DEFINE n == Len(fs)
           f == fs[n]
           su == Front(st)
           gs == Front(fs)
<1>1. /\ G \in Graphs /\ st \in Seq(StackV) /\ M \in Seq(MapT) /\ fs \in Seq(FrameT)
      /\ n \in Nat \ {0, 1} /\ Base(n) \in Nat /\ f \in FrameT
      /\ FrameOK(G, st, R, M, f, n)
      /\ Len(st) = Base(n) + 1 /\ RefsOK(R, M)
  BY TopFrame DEF Copying, CopyT, StackOK
<1>2. /\ su \in Seq(StackV)
      /\ Len(su) = Base(n)
      /\ \A i \in 1 .. Base(n) : su[i] = st[i]
  <2>1. st \in Seq(StackV) /\ st # <<>> /\ Len(st) - 1 = Base(n)
    BY <1>1
  <2> QED
    BY <2>1, FrontEffect
<1>3. /\ gs \in Seq(FrameT)
      /\ Len(gs) = n - 1
      /\ \A k \in 1 .. n - 1 : gs[k] = fs[k]
  BY <1>1, FrontEffect
<1> HIDE DEF su, gs
<1>4. n - 1 \in 1 .. n /\ n - 1 \in 1 .. n - 1 /\ (n - 1) + 1 = n
  BY <1>1
<1>5. fs[n - 1].at # "next" /\ M[f.map].of = Awaited(st, fs[n - 1], n - 1)
  BY <1>4 DEF Copying, FramesOK
<1>6. ASSUME NEW k \in 1 .. n - 1
      PROVE  su[Base(k) + 1] = st[Base(k) + 1] /\ su[Base(k) + 2] = st[Base(k) + 2]
  <2>1. k \in 1 .. n /\ k # n
    BY <1>1
  <2>2. Base(k) \in Nat /\ Base(k) + 2 <= Base(n)
    BY <1>1, <2>1, BaseOrder
  <2>3. Base(k) + 1 \in 1 .. Base(n) /\ Base(k) + 2 \in 1 .. Base(n)
    BY <1>1, <2>2
  <2> QED
    BY <1>2, <2>3
<1>7. StackOK(su, gs)
  <2>1. Base(n) = Base(n - 1) + 2
    BY <1>1, BelowLength DEF Base
  <2>2. \A i \in 1 .. Len(Below) : i \in 1 .. Base(n)
    BY <1>1, BelowLength DEF Base
  <2> QED
    BY <2>1, <2>2, <1>2, <1>3, <1>4, <1>5 DEF StackOK, Copying
<1>8. FramesOK(G, su, gs, R, M)
  <2>1. ASSUME NEW k \in 1 .. n - 1
        PROVE  FrameOK(G, su, R, M, gs[k], k)
    <3>1. k \in 1 .. n
      BY <1>1
    <3>2. FrameOK(G, st, R, M, fs[k], k)
      BY <3>1 DEF Copying, FramesOK
    <3>3. fs[k].map \in DOMAIN M
      BY <3>2 DEF FrameOK
    <3>4. \A i \in 1 .. Base(k) : su[i] = st[i]
      BY <3>1, <1>1, <1>2, BaseOrder
    <3> QED
      BY <1>3, <1>6, <3>2, <3>3, <3>4, FrameStays
  <2>2. ASSUME NEW k \in 1 .. (n - 1) - 1
        PROVE  gs[k].at # "next" /\ M[gs[k + 1].map].of = Awaited(su, gs[k], k)
    <3>1. k \in 1 .. n - 1 /\ k + 1 \in 1 .. n - 1
      BY <1>1
    <3>2. fs[k].at # "next" /\ M[fs[k + 1].map].of = Awaited(st, fs[k], k)
      BY <3>1 DEF Copying, FramesOK
    <3>3. Awaited(su, fs[k], k) = Awaited(st, fs[k], k)
      BY <3>1, <1>6 DEF Awaited
    <3> QED
      BY <1>3, <3>1, <3>2, <3>3
  <2>3. \A j, k \in 1 .. n - 1 : gs[j].map = gs[k].map => j = k
    <3>1. \A k \in 1 .. n - 1 : k \in 1 .. n
      BY <1>1
    <3> QED
      BY <1>3, <3>1 DEF Copying, FramesOK
  <2> QED
    BY <1>3, <2>1, <2>2, <2>3 DEF FramesOK
<1>9. Complete(G, gs, R, M)
  <2> SUFFICES ASSUME NEW i \in DOMAIN M, \A k \in 1 .. n - 1 : gs[k].map # i
               PROVE  Mirrors(R, M[i].entries, G[M[i].of])
    BY <1>3 DEF Complete
  <2>1. CASE i = f.map
    <3>1. Seen(G, st, M, f, n) = G[M[i].of]
      BY <2>1 DEF Seen
    <3> QED
      BY <2>1, <3>1, <1>1 DEF FrameOK
  <2>2. CASE i # f.map
    <3>1. \A k \in 1 .. n : k = n \/ k \in 1 .. n - 1
      BY <1>1
    <3>2. \A k \in 1 .. n : fs[k].map # i
      BY <2>2, <3>1, <1>3
    <3> QED
      BY <3>2 DEF Copying, Complete
  <2> QED
    BY <2>1, <2>2
<1>10. Copying(G, su, gs, R, M)
  BY <1>1, <1>2, <1>3, <1>7, <1>8, <1>9 DEF Copying, CopyT
<1>11. Awaited(su, gs[n - 1], n - 1) = M[f.map].of
  BY <1>3, <1>4, <1>5, <1>6 DEF Awaited
<1>12. /\ M[f.map].of \in LuaTables /\ KnownIn(R, M[f.map].of)
       /\ ImageIn(R, M[f.map].of) = MapRef(f.map)
  <2>1. f.map \in DOMAIN M
    BY <1>1 DEF FrameOK
  <2>2. M[f.map].of \in LuaTables
    BY <2>1, <1>1, MapType
  <2> QED
    BY <2>1, <2>2, <1>1 DEF RefsOK, KnownIn, ImageIn
<1> QED
  BY <1>1, <1>2, <1>3, <1>4, <1>5, <1>10, <1>11, <1>12 DEF su, gs, AwaitedByTop

\* The outermost call returns: the stack is as before, and all Maps are complete.
LEMMA OutermostReturn ==
  ASSUME NEW G, NEW st, NEW fs, NEW R, NEW M, Copying(G, st, fs, R, M),
         fs[Len(fs)].at = "next", fs[Len(fs)].left = {}, Len(fs) = 1
  PROVE  /\ Front(Front(st)) = Below
         /\ fs[1].map \in DOMAIN M
         /\ \A i \in DOMAIN M : Mirrors(R, M[i].entries, G[M[i].of])
<1>1. /\ st \in Seq(StackV) /\ Len(st) = Len(Below) + 2
      /\ FrameOK(G, st, R, M, fs[1], 1)
  <2>1. st \in Seq(StackV) /\ Len(st) = Base(1) + 1
    BY DEF Copying, CopyT, StackOK
  <2>2. FrameOK(G, st, R, M, fs[1], 1)
    BY TopFrame
  <2> QED
    BY <2>1, <2>2, BelowLength DEF Base
<1>2. /\ Front(st) \in Seq(StackV)
      /\ Len(Front(st)) = Len(Below) + 1
      /\ \A i \in 1 .. Len(Below) : Front(st)[i] = Below[i]
  <2>1. st # <<>> /\ Len(st) - 1 = Len(Below) + 1
    BY <1>1, BelowLength
  <2>2. \A i \in 1 .. Len(Below) : i \in 1 .. Len(st) - 1 /\ st[i] = Below[i]
    BY <2>1, BelowLength DEF Copying, StackOK
  <2> QED
    BY <2>1, <2>2, <1>1, FrontEffect
<1>3. /\ Front(Front(st)) \in Seq(StackV)
      /\ Len(Front(Front(st))) = Len(Below)
      /\ \A i \in 1 .. Len(Below) : Front(Front(st))[i] = Below[i]
  <2>1. Front(st) # <<>> /\ Len(Front(st)) - 1 = Len(Below)
    BY <1>2, BelowLength
  <2> QED
    BY <2>1, <1>2, FrontEffect
<1>4. Front(Front(st)) = Below
  BY <1>3, BelowAssumption, SeqEqual
<1>5. ASSUME NEW i \in DOMAIN M
      PROVE  Mirrors(R, M[i].entries, G[M[i].of])
  <2>1. CASE i = fs[1].map
    <3>1. Seen(G, st, M, fs[1], 1) = G[M[i].of]
      BY <2>1 DEF Seen
    <3> QED
      BY <2>1, <3>1, <1>1 DEF FrameOK
  <2>2. CASE i # fs[1].map
    BY <2>2 DEF Copying, Complete
  <2> QED
    BY <2>1, <2>2
<1> QED
  BY <1>1, <1>4, <1>5 DEF FrameOK

-----------------------------------------------------------------------------
(***************************************************************************)
(* The inductive invariant: $detach has not been called, or is copying     *)
(* tables, or has copied them and is making what the caller asked for.     *)
(***************************************************************************)
NotStarted ==
  /\ frames = <<>> /\ maps = <<>> /\ refs = <<>>
  /\ stack = Below
  /\ calls = <<>> /\ ~done /\ ~thrown

CopyingTables ==
  /\ frames # <<>>
  /\ Copying(graph, stack, frames, refs, maps)
  /\ calls = <<>> /\ ~done /\ ~thrown

\* The Maps mapTransform leaves alone.
StaysMap == {i \in DOMAIN maps : DictType(i) = "Map"}

TablesCopied ==
  /\ frames = <<>>
  /\ stack = Below
  /\ maps \in Seq(MapT)
  /\ RefsOK(refs, maps)
  /\ \A i \in DOMAIN maps : Mirrors(refs, maps[i].entries, graph[maps[i].of])

MakingResults ==
  /\ TablesCopied /\ ~thrown
  /\ Building(maps, StaysMap, calls, copies, results)
  /\ done = (calls = <<>>)

Thrown ==
  /\ TablesCopied /\ thrown
  /\ AssignmentMayThrow
  /\ calls = <<>> /\ done

DetachInv ==
  /\ graph \in Graphs
  /\ NotStarted \/ CopyingTables \/ MakingResults \/ Thrown

LEMMA DetachInit == Init => DetachInv
BY DEF Init, TransformInit, DetachInv, NotStarted

\* $detach is called.
LEMMA StartStep ==
  ASSUME DetachInv, NEW t \in LuaTables, Start(t)
  PROVE  DetachInv'
<1>1. /\ frames = <<>> /\ maps = <<>> /\ refs = <<>> /\ stack = Below
      /\ calls = <<>> /\ ~done /\ ~thrown /\ graph \in Graphs
  BY DEF DetachInv, NotStarted, CopyingTables, MakingResults, Thrown, Start, Detaching, Transforming
<1> DEFINE s == Append(Below, t)
           x == AbsIndex(s, 1)
<1>2. s[Len(s) - 1 + 1] = t /\ x = Len(Below) + 1
  BY BelowAssumption, AppendProperties DEF AbsIndex
<1>3. /\ maps' = Append(maps, NewMap(t))
      /\ refs' = Put(refs, t, Len(maps) + 1)
      /\ stack' = Append(s, Nil)
      /\ frames' = Append(<<>>, NewFrame(graph, t, maps, x))
  BY <1>1, <1>2 DEF Start, EnterTable, NewMap, NewFrame
<1> HIDE DEF s, x
<1>4. /\ maps' = <<NewMap(t)>>
      /\ refs' = Put(<<>>, t, 1)
      /\ frames' = <<NewFrame(graph, t, <<>>, x)>>
  BY <1>1, <1>3
<1>5. Copying(graph, stack', frames', refs', maps')
  BY <1>1, <1>2, <1>3, <1>4, FirstCall DEF s
<1>6. /\ graph' = graph /\ calls' = calls /\ done' = done /\ thrown' = thrown
      /\ frames' # <<>>
  BY <1>4 DEF Start, transformVars
<1> QED
  BY <1>1, <1>5, <1>6 DEF DetachInv, CopyingTables

\* What an active call of detachTable knows.
LEMMA InCopy ==
  ASSUME DetachInv, Detaching
  PROVE  /\ graph \in Graphs
         /\ Copying(graph, stack, frames, refs, maps)
         /\ calls = <<>> /\ ~done /\ ~thrown
         /\ Len(frames) \in Nat \ {0}
         /\ Frame = frames[Len(frames)]
         /\ maps \in Seq(MapT) /\ RefsOK(refs, maps)
         /\ Len(stack) = Base(Len(frames)) + (IF Frame.at = "next" THEN 1 ELSE 2)
         /\ Base(Len(frames)) \in Nat
<1>1. /\ graph \in Graphs
      /\ Copying(graph, stack, frames, refs, maps)
      /\ calls = <<>> /\ ~done /\ ~thrown
  BY DEF DetachInv, NotStarted, CopyingTables, MakingResults, Thrown, TablesCopied, Detaching
<1>2. Len(frames) \in Nat \ {0} /\ Base(Len(frames)) \in Nat
  BY <1>1, TopFrame
<1> QED
  BY <1>1, <1>2 DEF Copying, CopyT, StackOK, Frame, Last

\* The copy goes on.
LEMMA CopyGoesOn ==
  ASSUME graph \in Graphs, Copying(graph, stack', frames', refs', maps'),
         calls = <<>>, ~done, ~thrown, UNCHANGED <<graph, done, transformVars>>
  PROVE  DetachInv'
<1>1. frames' # <<>>
  BY DEF Copying, CopyT
<1> QED
  BY <1>1 DEF DetachInv, CopyingTables, transformVars

\* The table at the frame's index is the one its Map is made from.
LEMMA RemainingIsLeft ==
  ASSUME DetachInv, Detaching
  PROVE  Remaining = Frame.left
<1>1. /\ graph \in Graphs /\ maps \in Seq(MapT)
      /\ Copying(graph, stack, frames, refs, maps)
      /\ Frame = frames[Len(frames)]
  BY InCopy
<1>2. FrameOK(graph, stack, refs, maps, Frame, Len(frames))
  BY <1>1, TopFrame
<1>3. maps[Frame.map].of \in LuaTables
  BY <1>1, <1>2, MapType DEF FrameOK
<1> QED
  BY <1>2, <1>3 DEF FrameOK, Remaining

LEMMA NextEntryStep ==
  ASSUME DetachInv, NextEntry
  PROVE  DetachInv'
<1>1. Detaching /\ Frame.at = "next"
  BY DEF NextEntry
<1>2. PICK e \in Frame.left :
        /\ stack' = Front(stack) \o e
        /\ frames' = [frames EXCEPT ![Len(frames)].at = "key",
                                    ![Len(frames)].left = @ \ {e}]
  BY <1>1, RemainingIsLeft DEF NextEntry
<1>3. /\ graph \in Graphs /\ calls = <<>> /\ ~done /\ ~thrown
      /\ Copying(graph, stack, frames, refs, maps)
      /\ Frame = frames[Len(frames)]
  BY <1>1, InCopy
<1>4. Copying(graph, stack', frames', refs, maps)
  BY <1>1, <1>2, <1>3, EntryFound
<1>5. UNCHANGED <<graph, refs, maps, done, transformVars>>
  BY DEF NextEntry
<1> QED
  BY <1>3, <1>4, <1>5, CopyGoesOn

\* A value that is no known one is a table without a Map.
LEMMA KnownOrTable ==
  ASSUME NEW v \in LuaValues
  PROVE  /\ Known(v) <=> KnownIn(refs, v)
         /\ Converted(v) = ImageIn(refs, v)
         /\ ~Known(v) => v \in LuaTables /\ v \notin DOMAIN refs
BY DEF Known, KnownIn, Converted, ImageIn, LuaValues

\* A nested call starts on the table at index -i.
LEMMA EnterTableStep ==
  ASSUME DetachInv, Detaching, Frame.at # "next", NEW i \in {1, 2},
         NEW t, t = stack[Len(stack) - i + 1], t \in LuaTables, t \notin DOMAIN refs,
         t = Awaited(stack, Frame, Len(frames)),
         EnterTable(i, stack, frames), UNCHANGED <<graph, done, transformVars>>
  PROVE  DetachInv'
<1>1. /\ graph \in Graphs /\ calls = <<>> /\ ~done /\ ~thrown
      /\ Copying(graph, stack, frames, refs, maps)
      /\ Frame = frames[Len(frames)]
      /\ Len(stack) \in Nat
  BY InCopy
<1> DEFINE x == AbsIndex(stack, i)
<1>2. x \in 1 .. Len(stack) /\ stack[x] = t
  <2>1. Len(stack) >= 2
    BY InCopy
  <2> QED
    BY <1>1, <2>1 DEF AbsIndex
<1>3. /\ maps' = Append(maps, NewMap(t))
      /\ refs' = Put(refs, t, Len(maps) + 1)
      /\ stack' = Append(stack, Nil)
      /\ frames' = Append(frames, NewFrame(graph, t, maps, x))
  BY DEF EnterTable, NewMap, NewFrame
<1> HIDE DEF x
<1>4. Copying(graph, stack', frames', refs', maps')
  BY <1>1, <1>2, <1>3, NestedCall
<1> QED
  BY <1>1, <1>4, CopyGoesOn

LEMMA ConvertKeyStep ==
  ASSUME DetachInv, ConvertKey
  PROVE  DetachInv'
<1>1. Detaching /\ Frame.at = "key" /\ UNCHANGED <<graph, done, transformVars>>
  BY DEF ConvertKey
<1>2. /\ graph \in Graphs /\ calls = <<>> /\ ~done /\ ~thrown
      /\ Copying(graph, stack, frames, refs, maps)
      /\ Frame = frames[Len(frames)]
      /\ Len(stack) = Base(Len(frames)) + 2 /\ Base(Len(frames)) \in Nat
  BY <1>1, InCopy
<1>3. Len(stack) - 1 = Base(Len(frames)) + 1 /\ Len(stack) - 2 + 1 = Base(Len(frames)) + 1
  BY <1>2
<1>4. Key = stack[Base(Len(frames)) + 1] /\ Key = stack[Len(stack) - 1] /\ Key \in LuaValues
  BY <1>1, <1>2, <1>3, TopFrame DEF Key
<1>5. CASE Known(Key) /\ frames' = GotKey(frames, Converted(Key)) /\ UNCHANGED <<stack, refs, maps>>
  <2>1. KnownIn(refs, Key) /\ Converted(Key) = ImageIn(refs, Key)
    BY <1>4, <1>5, KnownOrTable
  <2>2. Copying(graph, stack, GotKey(frames, ImageIn(refs, Key)), refs, maps)
    BY <1>1, <1>2, <1>4, <2>1, KeyConverted
  <2> QED
    BY <1>1, <1>2, <1>5, <2>1, <2>2, CopyGoesOn
<1>6. CASE ~Known(Key) /\ EnterTable(2, stack, frames)
  <2>1. Key \in LuaTables /\ Key \notin DOMAIN refs
    BY <1>4, <1>6, KnownOrTable
  <2>2. Key = stack[Len(stack) - 2 + 1] /\ Key = Awaited(stack, Frame, Len(frames))
    BY <1>1, <1>3, <1>4 DEF Awaited
  <2> QED
    BY <1>1, <1>6, <2>1, <2>2, EnterTableStep
<1> QED
  BY <1>5, <1>6 DEF ConvertKey

LEMMA ConvertValueStep ==
  ASSUME DetachInv, ConvertValue
  PROVE  DetachInv'
<1> DEFINE v == stack[Len(stack)]
<1>1. Detaching /\ Frame.at = "value" /\ UNCHANGED <<graph, done, transformVars>>
  BY DEF ConvertValue
<1>2. /\ graph \in Graphs /\ calls = <<>> /\ ~done /\ ~thrown
      /\ Copying(graph, stack, frames, refs, maps)
      /\ Frame = frames[Len(frames)]
      /\ Len(stack) = Base(Len(frames)) + 2 /\ Base(Len(frames)) \in Nat
  BY <1>1, InCopy
<1>3. v = stack[Base(Len(frames)) + 2] /\ Last(stack) = v /\ v \in LuaValues
  BY <1>1, <1>2, TopFrame DEF Last
<1>4. CASE Known(v) /\ GotValue(frames, stack, Converted(v)) /\ UNCHANGED refs
  <2>1. KnownIn(refs, v) /\ Converted(v) = ImageIn(refs, v)
    BY <1>3, <1>4, KnownOrTable
  <2>2. /\ maps' = [maps EXCEPT ![frames[Len(frames)].map].entries =
                       MapSet(@, frames[Len(frames)].key, ImageIn(refs, v))]
        /\ stack' = Front(stack)
        /\ frames' = [frames EXCEPT ![Len(frames)].at = "next"]
    BY <1>4, <2>1 DEF GotValue, Last
  <2>3. Copying(graph, stack', frames', refs, maps')
    BY <1>1, <1>2, <2>1, <2>2, ValueConverted
  <2> QED
    BY <1>1, <1>2, <1>4, <2>3, CopyGoesOn
<1>5. CASE ~Known(v) /\ EnterTable(1, stack, frames)
  <2>1. v \in LuaTables /\ v \notin DOMAIN refs
    BY <1>3, <1>5, KnownOrTable
  <2>2. v = stack[Len(stack) - 1 + 1] /\ v = Awaited(stack, Frame, Len(frames))
    BY <1>1, <1>2, <1>3 DEF Awaited
  <2> QED
    BY <1>1, <1>5, <2>1, <2>2, EnterTableStep
<1> QED
  BY <1>3, <1>4, <1>5 DEF ConvertValue

LEMMA ReturnNestedStep ==
  ASSUME DetachInv, ReturnNested
  PROVE  DetachInv'
<1> DEFINE gs == Front(frames)
           s == Front(stack)
           m == MapRef(Frame.map)
           t == AwaitedByTop(s, gs)
<1>1. /\ Detaching /\ Frame.at = "next" /\ Frame.left = {} /\ Len(frames) > 1
      /\ UNCHANGED <<graph, refs, done, transformVars>>
      /\ \/ Last(gs).at = "key" /\ frames' = GotKey(gs, m) /\ stack' = s /\ UNCHANGED maps
         \/ Last(gs).at = "value" /\ GotValue(gs, s, m)
  BY RemainingIsLeft DEF ReturnNested
<1>2. /\ graph \in Graphs /\ calls = <<>> /\ ~done /\ ~thrown
      /\ Copying(graph, stack, frames, refs, maps)
      /\ Frame = frames[Len(frames)]
  BY <1>1, InCopy
<1>3. /\ Copying(graph, s, gs, refs, maps)
      /\ gs[Len(gs)].at # "next"
      /\ t \in LuaTables /\ KnownIn(refs, t) /\ ImageIn(refs, t) = m
  <2>1. frames[Len(frames)].at = "next" /\ frames[Len(frames)].left = {} /\ m = MapRef(frames[Len(frames)].map)
    BY <1>1, <1>2
  <2> HIDE DEF m
  <2> QED
    BY <1>1, <1>2, <2>1, NestedReturn
<1>4. Len(s) = Base(Len(gs)) + 2 /\ Base(Len(gs)) \in Nat
  BY <1>3, TopFrame DEF Copying, StackOK
<1>5. Len(s) - 1 = Base(Len(gs)) + 1
  BY <1>4
<1>6. Last(gs) = gs[Len(gs)]
  BY DEF Last
<1> HIDE DEF gs, s
<1>7. CASE gs[Len(gs)].at = "key" /\ frames' = GotKey(gs, m) /\ stack' = s /\ UNCHANGED maps
  <2>1. t = s[Len(s) - 1]
    BY <1>5, <1>7 DEF Awaited, AwaitedByTop
  <2>2. Copying(graph, s, GotKey(gs, ImageIn(refs, s[Len(s) - 1])), refs, maps)
    BY <1>3, <1>7, <2>1, KeyConverted
  <2> QED
    BY <1>1, <1>2, <1>3, <1>7, <2>1, <2>2, CopyGoesOn
<1>8. CASE gs[Len(gs)].at = "value" /\ GotValue(gs, s, m)
  <2>1. t = s[Len(s)]
    BY <1>4, <1>8 DEF Awaited, AwaitedByTop
  <2>2. /\ maps' = [maps EXCEPT ![gs[Len(gs)].map].entries =
                       MapSet(@, gs[Len(gs)].key, ImageIn(refs, s[Len(s)]))]
        /\ stack' = Front(s)
        /\ frames' = [gs EXCEPT ![Len(gs)].at = "next"]
    BY <1>3, <1>6, <1>8, <2>1 DEF GotValue
  <2>3. Copying(graph, stack', frames', refs, maps')
    BY <1>3, <1>8, <2>1, <2>2, ValueConverted
  <2> QED
    BY <1>1, <1>2, <2>3, CopyGoesOn
<1> QED
  BY <1>1, <1>6, <1>7, <1>8

LEMMA MapsFit ==
  ASSUME NEW M \in Seq(MapT)
  PROVE  MapsOK(M)
BY MapType DEF MapsOK

\* The Maps that stay Maps depend on what the caller asked for.
LEMMA StaysMapNext ==
  ASSUME UNCHANGED maps, NEW i \in DOMAIN maps
  PROVE  i \in StaysMap' <=>
           (IF wanted' = Detected THEN DetectDictType(KeysOf(i)) ELSE wanted') = "Map"
<1>1. KeysOf(i)' = KeysOf(i)
  BY DEF KeysOf
<1> QED
  BY <1>1 DEF StaysMap, DictType

LEMMA ReturnOutermostStep ==
  ASSUME DetachInv, ReturnOutermost
  PROVE  DetachInv'
<1>1. /\ Detaching /\ Frame.at = "next" /\ Frame.left = {} /\ Len(frames) = 1
      /\ frames' = <<>> /\ stack' = Front(Front(stack)) /\ done' = (calls' = <<>>)
      /\ UNCHANGED <<graph, refs, maps>>
  BY RemainingIsLeft DEF ReturnOutermost
<1>2. PICK d \in DictTypes : StartTransform(Frame.map, d)
  BY DEF ReturnOutermost
<1>3. /\ graph \in Graphs /\ maps \in Seq(MapT) /\ RefsOK(refs, maps)
      /\ Copying(graph, stack, frames, refs, maps)
      /\ Frame = frames[Len(frames)]
  BY <1>1, InCopy
<1>4. /\ stack' = Below
      /\ Frame.map \in DOMAIN maps
      /\ \A i \in DOMAIN maps : Mirrors(refs, maps[i].entries, graph[maps[i].of])
  <2>1. frames[Len(frames)].at = "next" /\ frames[Len(frames)].left = {} /\ Frame = frames[1]
    BY <1>1, <1>3
  <2> QED
    BY <2>1, <1>1, <1>3, OutermostReturn
<1> DEFINE i == Frame.map
           type == IF d = Detected THEN DetectDictType(KeysOf(i)) ELSE d
<1>5. wanted' = d /\ ~thrown' /\ (i \in StaysMap' <=> type = "Map")
  BY <1>1, <1>2, <1>4, StaysMapNext DEF StartTransform
<1>6. Building(maps, StaysMap', calls', copies', results')
  <2>1. MapsOK(maps)
    BY <1>3, MapsFit
  <2>2. CASE type = "Map"
    <3>1. results' = <<>> /\ calls' = <<>> /\ copies' = <<>>
      BY <1>2, <2>2 DEF StartTransform
    <3> QED
      BY <2>1, <3>1, NothingBuilt
  <2>3. CASE type # "Map"
    <3>1. /\ results' = <<NewResult(i, type)>>
          /\ calls' = <<NewCall(i, <<>>)>>
          /\ copies' = Put(<<>>, i, 1)
      BY <1>2, <2>3 DEF StartTransform, NewCall
    <3>2. i \in DOMAIN maps \ StaysMap'
      BY <1>4, <1>5, <2>3
    <3> HIDE DEF i, type
    <3> QED
      BY <2>1, <3>1, <3>2, FirstMapEntered
  <2> QED
    BY <2>2, <2>3
<1>7. TablesCopied'
  BY <1>1, <1>3, <1>4 DEF TablesCopied
<1>8. MakingResults'
  BY <1>1, <1>5, <1>6, <1>7 DEF MakingResults
<1> QED
  BY <1>1, <1>3, <1>8 DEF DetachInv

-----------------------------------------------------------------------------
(***************************************************************************)
(* The transformation.                                                     *)
(***************************************************************************)
\* What an active call of mapTransform knows.
LEMMA InTransform ==
  ASSUME DetachInv, Transforming
  PROVE  /\ graph \in Graphs /\ TablesCopied
         /\ Building(maps, StaysMap, calls, copies, results)
         /\ Call = calls[Len(calls)] /\ calls # <<>> /\ ~thrown
         /\ CallOK(maps, StaysMap, results, Call)
         /\ Len(maps[Call.map].entries) \in Nat /\ Call.next \in Nat
<1>1. /\ graph \in Graphs /\ TablesCopied
      /\ Building(maps, StaysMap, calls, copies, results)
      /\ calls # <<>> /\ Call = calls[Len(calls)] /\ ~thrown
  BY DEF DetachInv, NotStarted, CopyingTables, MakingResults, Thrown, Transforming, Call, Last
<1>2. CallOK(maps, StaysMap, results, Call) /\ Call \in CallT /\ Len(maps[Call.map].entries) \in Nat
  BY <1>1, TopCall
<1> QED
  BY <1>1, <1>2 DEF CallT

\* What a step of the transformation leads to.
Goes ==
  \/ ~thrown' /\ Building(maps, StaysMap, calls', copies', results')
  \/ thrown' /\ calls' = <<>> /\ results' = results /\ AssignmentMayThrow

LEMMA TransformGoesOn ==
  ASSUME graph \in Graphs, TablesCopied, Goes,
         UNCHANGED <<graph, stack, frames, refs, maps, wanted>>, done' = (calls' = <<>>)
  PROVE  DetachInv'
<1>1. StaysMap' = StaysMap
  BY DEF StaysMap, DictType, KeysOf
<1>2. TablesCopied'
  BY DEF TablesCopied
<1>3. CASE ~thrown' /\ Building(maps, StaysMap, calls', copies', results')
  BY <1>1, <1>2, <1>3 DEF DetachInv, MakingResults
<1>4. CASE thrown' /\ calls' = <<>> /\ results' = results /\ AssignmentMayThrow
  <2>1. AssignmentMayThrow'
    BY <1>4 DEF AssignmentMayThrow, MapRefs
  <2> QED
    BY <1>2, <1>4, <2>1 DEF DetachInv, Thrown
<1> QED
  BY <1>3, <1>4 DEF Goes

\* No value of a Map is a result, and none that is a Map is a scalar.
LEMMA RefsDiffer ==
  ASSUME NEW v \in JsV
  PROVE  /\ v \notin ResultRefs \/ results \notin Seq(ResultT)
         /\ v \in MapRefs /\ maps \in Seq(MapT) => v \notin JsScalars
<1>1. ASSUME NEW i \in Nat
      PROVE  MapRef(i) \notin JsScalars /\ ResultRef(i) \notin JsScalars /\ \A k \in Nat : MapRef(k) # ResultRef(i)
  BY ScalarsAreNoRefs DEF MapRef, ResultRef
<1>2. ASSUME maps \in Seq(MapT), v \in MapRefs
      PROVE  v \notin JsScalars
  BY <1>1, <1>2, MapType DEF MapRefs
<1>3. ASSUME results \in Seq(ResultT), v \in ResultRefs
      PROVE  FALSE
  <2>1. PICK j \in DOMAIN results : v = ResultRef(j)
    BY <1>3 DEF ResultRefs
  <2>2. j \in Nat
    BY <1>3, <2>1
  <2> QED
    BY <1>1, <2>1, <2>2 DEF JsV
<1> QED
  BY <1>2, <1>3

\* A value of the Map that call c is at becomes v, and the assignment does what
\* it does to c's result.
LEMMA AssignedMirrors ==
  ASSUME maps \in Seq(MapT), results \in Seq(ResultT), NEW j \in DOMAIN results,
         NEW E \in Seq(JsV \X JsV), NEW p \in Nat, p + 1 \in 1 .. Len(E),
         PropsMirror(maps, StaysMap, results, E, p, results[j]),
         NEW v, ResultIn(maps, StaysMap, results, E[p + 1][2], v),
         NEW r \in Assigned(j, NameAt(E, p + 1), v)
  PROVE  /\ r \in ResultT /\ r.of = results[j].of
         /\ PropsMirror(maps, StaysMap, results, E, p + 1, r)
<1> DEFINE x == NameAt(E, p + 1)
           w == E[p + 1][2]
           o == results[j]
<1>1. E[p + 1][1] \in JsV /\ w \in JsV /\ o \in ResultT
  <2>1. E[p + 1] \in JsV \X JsV
    BY ElementOfSeq
  <2> QED
    BY <2>1
<1>2. v \in ResultV
  BY <1>1, ResultInType
<1>3. w \notin MapRefs => v = w /\ v \notin ResultRefs
  BY <1>1, RefsDiffer DEF ResultIn, MapRefs
<1>4. CASE IsOwn(o, x)
  <2>1. r = [o EXCEPT !.props = Put(@, x, v)]
    BY <1>4 DEF Assigned
  <2>2. r.of = o.of
    BY <2>1, <1>1 DEF ResultT
  <2> QED
    BY <2>1, <2>2, <1>1, <1>2, <1>4, OwnAdd
<1>5. CASE x = ProtoName
  <2>1. PICK P \in Prototypes(j, v) : r = [o EXCEPT !.proto = P]
    BY <1>5 DEF Assigned, IsOwn
  <2>2. r.of = o.of
    BY <2>1, <1>1 DEF ResultT
  <2>3. CASE v \in ResultRefs
    <3>1. PICK k \in DOMAIN results : v = ResultRef(k)
      BY <2>3 DEF ResultRefs
    <3>2. P = k /\ k \in Nat
      BY <2>1, <2>3, <3>1 DEF Prototypes, ResultRef
    <3>3. AskedFor(maps, StaysMap, results, w, P)
      <4> SUFFICES ASSUME w \in {MapRef(i) : i \in DOMAIN maps \ StaysMap}
                   PROVE  results[k].of = w[2]
        BY <3>1, <3>2 DEF AskedFor
      <4>1. w \in {MapRef(i) : i \in DOMAIN maps} /\ w[2] \notin StaysMap
        BY DEF MapRef
      <4>2. PICK l \in DOMAIN results : results[l].of = w[2] /\ v = ResultRef(l)
        BY <4>1 DEF ResultIn
      <4> QED
        BY <4>2, <3>1 DEF ResultRef
    <3> QED
      BY <2>1, <2>2, <3>2, <3>3, <1>1, <1>5, ProtoAdd
  <2>4. CASE v \notin ResultRefs
    <3>1. P \in Nat
      BY <2>1, <2>4, <1>1 DEF Prototypes, ResultT
    <3>2. AskedFor(maps, StaysMap, results, w, P)
      <4> SUFFICES ASSUME w \in {MapRef(i) : i \in DOMAIN maps \ StaysMap}
                   PROVE  FALSE
        BY DEF AskedFor
      <4>1. w \in {MapRef(i) : i \in DOMAIN maps} /\ w[2] \notin StaysMap
        BY DEF MapRef
      <4> QED
        BY <4>1, <2>4 DEF ResultIn, ResultRefs
    <3> QED
      BY <2>1, <2>2, <3>1, <3>2, <1>1, <1>5, ProtoAdd
  <2> QED
    BY <2>3, <2>4
<1>6. CASE ~IsOwn(o, x) /\ x # ProtoName
  <2>1. PICK n \in Lengths(v) : r = [o EXCEPT !.props = Truncated(@, n)]
    BY <1>6 DEF Assigned
  <2>2. r.of = o.of
    BY <2>1, <1>1 DEF ResultT
  <2>3. n \in Nat
    <3>1. CASE v \in ResultRefs
      BY <2>1, <3>1, IndexAssumption DEF Lengths, Range
    <3>2. CASE v \notin ResultRefs
      BY <2>1, <3>2, LengthAssumption DEF Lengths
    <3> QED
      BY <3>1, <3>2
  <2>4. ASSUME w \in DOMAIN AsLength
        PROVE  n = AsLength[w]
    <3>1. w \notin MapRefs
      BY <2>4, <1>1, RefsDiffer, LengthAssumption
    <3> QED
      BY <3>1, <1>3, <2>1 DEF Lengths
  <2>5. x = LengthName /\ o.array
    BY <1>6 DEF IsOwn
  <2> QED
    BY <2>1, <2>2, <2>3, <2>4, <2>5, <1>1, LengthAdd
<1> QED
  BY <1>4, <1>5, <1>6

\* What an assignment that throws is told by.
LEMMA ThrowExplained ==
  ASSUME maps \in Seq(MapT), results \in Seq(ResultT), NEW j \in DOMAIN results,
         NEW E \in Seq(JsV \X JsV), E = maps[results[j].of].entries, NEW k \in 1 .. Len(E),
         NEW v, ResultIn(maps, StaysMap, results, E[k][2], v), Throws(j, NameAt(E, k), v)
  PROVE  AssignmentMayThrow
<1> DEFINE w == E[k][2]
<1>1. E[k] \in Range(E) /\ w \in JsV
  <2>1. E[k] \in JsV \X JsV
    BY ElementOfSeq
  <2> QED
    BY <2>1 DEF Range
<1>2. w \notin MapRefs => v = w /\ v \notin ResultRefs
  BY <1>1, RefsDiffer DEF ResultIn, MapRefs
<1>3. CASE NameAt(E, k) = ProtoName /\ v \in ResultRefs
  BY <1>1, <1>2, <1>3 DEF AssignmentMayThrow, NameAt
<1>4. CASE NameAt(E, k) = LengthName /\ results[j].array /\ v \notin DOMAIN AsLength
  <2>1. w \notin DOMAIN AsLength
    BY <1>1, <1>2, <1>4, RefsDiffer, LengthAssumption
  <2> QED
    BY <1>1, <1>4, <2>1 DEF AssignmentMayThrow, NameAt
<1> QED
  BY <1>3, <1>4 DEF Throws

LEMMA NextWithin ==
  ASSUME NEW n \in Nat, NEW k \in 1 .. n + 1, k <= n
  PROVE  k \in 1 .. n /\ k - 1 \in Nat /\ (k - 1) + 1 = k
OBVIOUS

\* The calls when the top one is through with an entry.
Advanced(cs) == [cs EXCEPT ![Len(cs)].next = @ + 1]

\* result[key] = v, where the calls cs wait for it.
LEMMA AssignStep ==
  ASSUME TablesCopied, ~thrown,
         NEW cs, Building(maps, StaysMap, cs, copies, results), cs # <<>>,
         cs[Len(cs)].next <= Len(maps[cs[Len(cs)].map].entries),
         NEW v, ResultIn(maps, StaysMap, results,
                         maps[cs[Len(cs)].map].entries[cs[Len(cs)].next][2], v),
         Assign(cs[Len(cs)].result, maps[cs[Len(cs)].map].entries[cs[Len(cs)].next][1], v,
                Advanced(cs)),
         UNCHANGED copies
  PROVE  Goes
<1> DEFINE c == cs[Len(cs)]
           E == maps[c.map].entries
           p == c.next - 1
           j == c.result
<1>1. /\ maps \in Seq(MapT) /\ results \in Seq(ResultT)
      /\ j \in DOMAIN results /\ results[j].of = c.map
      /\ E \in Seq(JsV \X JsV) /\ Len(E) \in Nat
      /\ c.next \in 1 .. Len(E) /\ p \in Nat /\ p + 1 = c.next
      /\ PropsMirror(maps, StaysMap, results, E, p, results[j])
  <2>1. /\ CallOK(maps, StaysMap, results, c)
        /\ E \in Seq(JsV \X JsV) /\ Len(E) \in Nat
        /\ c.next <= Len(E)
    BY TopCall
  <2>2. maps \in Seq(MapT) /\ results \in Seq(ResultT)
    BY DEF TablesCopied, Building
  <2>3. /\ j \in DOMAIN results /\ results[j].of = c.map
        /\ PropsMirror(maps, StaysMap, results, E, p, results[j])
    BY <2>1 DEF CallOK
  <2>4. c.next \in 1 .. Len(E) + 1
    BY <2>1 DEF CallOK
  <2>5. c.next \in 1 .. Len(E) /\ p \in Nat /\ p + 1 = c.next
    BY <2>1, <2>4, NextWithin
  <2> QED
    BY <2>1, <2>2, <2>3, <2>5
<1>2. PropertyName(E[c.next][1]) = NameAt(E, c.next)
  BY DEF NameAt
<1>3. CASE /\ \E r \in Assigned(j, NameAt(E, c.next), v) : results' = [results EXCEPT ![j] = r]
           /\ calls' = Advanced(cs)
           /\ UNCHANGED thrown
  <2>1. PICK r \in Assigned(j, NameAt(E, c.next), v) : results' = [results EXCEPT ![j] = r]
    BY <1>3
  <2>2. /\ r \in ResultT /\ r.of = results[j].of
        /\ PropsMirror(maps, StaysMap, results, E, c.next, r)
    <3> HIDE DEF c, E, p, j
    <3>1. /\ p + 1 \in 1 .. Len(E)
          /\ r \in Assigned(j, NameAt(E, p + 1), v)
          /\ ResultIn(maps, StaysMap, results, E[p + 1][2], v)
      BY <1>1, <2>1 DEF c, E
    <3>2. /\ r \in ResultT /\ r.of = results[j].of
          /\ PropsMirror(maps, StaysMap, results, E, p + 1, r)
      BY <1>1, <3>1, AssignedMirrors
    <3> QED
      BY <3>2, <1>1
  <2>3. Building(maps, StaysMap, calls', copies, results')
    BY <1>3, <2>1, <2>2, ResultStored DEF Advanced
  <2> QED
    BY <1>3, <2>3 DEF Goes
<1>4. CASE /\ Throws(j, NameAt(E, c.next), v)
           /\ thrown' = TRUE /\ calls' = <<>> /\ UNCHANGED results
  <2>1. AssignmentMayThrow
    BY <1>1, <1>4, ThrowExplained
  <2> QED
    BY <1>4, <2>1 DEF Goes
<1> QED
  BY <1>2, <1>3, <1>4 DEF Assign

\* A value of the Map that the top call is at becomes v.
LEMMA SetResultStep ==
  ASSUME DetachInv, Transforming, ~AllKeysDone,
         NEW v, ResultIn(maps, StaysMap, results, Entry[2], v), SetResult(v), UNCHANGED copies
  PROVE  Goes
<1>1. /\ Building(maps, StaysMap, calls, copies, results) /\ TablesCopied /\ ~thrown
      /\ Call = calls[Len(calls)] /\ calls # <<>>
      /\ Len(maps[Call.map].entries) \in Nat /\ Call.next \in Nat
  BY InTransform
<1> DEFINE c == calls[Len(calls)]
<1>2. c.next <= Len(maps[c.map].entries)
  BY <1>1 DEF AllKeysDone
<1>3. Entry = maps[c.map].entries[c.next]
  BY <1>1 DEF Entry
<1>4. Assign(c.result, maps[c.map].entries[c.next][1], v, Advanced(calls))
  BY <1>1, <1>3 DEF SetResult, Advanced
<1>5. ResultIn(maps, StaysMap, results, maps[c.map].entries[c.next][2], v)
  BY <1>3
<1> QED
  BY <1>1, <1>2, <1>4, <1>5, AssignStep

LEMMA CopyValueStep ==
  ASSUME DetachInv, CopyValue
  PROVE  Goes
<1>1. Transforming /\ ~AllKeysDone /\ SetResult(Entry[2]) /\ Entry[2] \notin MapRefs
  BY DEF CopyValue
<1>2. ResultIn(maps, StaysMap, results, Entry[2], Entry[2])
  BY <1>1 DEF ResultIn, MapRefs
<1> QED
  BY <1>1, <1>2, SetResultStep DEF CopyValue

LEMMA ReuseOrKeepMapStep ==
  ASSUME DetachInv, ReuseOrKeepMap
  PROVE  Goes
<1> DEFINE i == Entry[2][2]
<1>1. Transforming /\ ~AllKeysDone /\ Entry[2] \in MapRefs /\ UNCHANGED copies
  BY DEF ReuseOrKeepMap
<1>2. Entry[2] = MapRef(i) /\ i \in DOMAIN maps
  BY <1>1 DEF MapRefs, MapRef
<1>3. CASE i \in DOMAIN copies /\ SetResult(ResultRef(copies[i]))
  <2>1. copies[i] \in DOMAIN results /\ results[copies[i]].of = i
    BY <1>1, <1>3, InTransform DEF Building, CopiesOK
  <2>2. ResultIn(maps, StaysMap, results, Entry[2], ResultRef(copies[i]))
    BY <1>1, <2>1 DEF ResultIn, MapRefs
  <2> QED
    BY <1>1, <1>3, <2>2, SetResultStep
<1>4. CASE DictType(i) = "Map" /\ SetResult(Entry[2])
  <2>1. i \in StaysMap
    BY <1>2, <1>4 DEF StaysMap
  <2>2. ResultIn(maps, StaysMap, results, Entry[2], Entry[2])
    BY <1>1, <2>1 DEF ResultIn, MapRefs
  <2> QED
    BY <1>1, <1>4, <2>2, SetResultStep
<1> QED
  BY <1>3, <1>4 DEF ReuseOrKeepMap

LEMMA TransformMapStep ==
  ASSUME DetachInv, TransformMap
  PROVE  Goes
<1> DEFINE i == Entry[2][2]
           c == calls[Len(calls)]
<1>1. /\ Transforming /\ ~AllKeysDone /\ Entry[2] \in MapRefs
      /\ i \notin DOMAIN copies /\ DictType(i) # "Map" /\ EnterMap(i, calls)
  BY DEF TransformMap
<1>2. /\ Building(maps, StaysMap, calls, copies, results)
      /\ Call = c /\ calls # <<>> /\ ~thrown
      /\ Len(maps[Call.map].entries) \in Nat /\ Call.next \in Nat
  BY <1>1, InTransform
<1>3. Entry[2] = MapRef(i) /\ i \in DOMAIN maps \ StaysMap
  BY <1>1 DEF MapRefs, MapRef, StaysMap
<1>4. Waits(maps, c, i)
  <2>1. c.next <= Len(maps[c.map].entries)
    BY <1>1, <1>2 DEF AllKeysDone
  <2>2. maps[c.map].entries[c.next][2] = MapRef(i)
    BY <1>2, <1>3 DEF Entry
  <2> QED
    BY <2>1, <2>2 DEF Waits
<1>5. /\ results' = Append(results, NewResult(i, DictType(i)))
      /\ copies' = Put(copies, i, Len(results) + 1)
      /\ calls' = Append(calls, NewCall(i, results))
      /\ UNCHANGED thrown
  BY <1>1 DEF EnterMap, NewCall
<1>6. Building(maps, StaysMap, calls', copies', results')
  BY <1>1, <1>2, <1>3, <1>4, <1>5, MapEntered
<1> QED
  BY <1>2, <1>5, <1>6 DEF Goes

LEMMA ReturnResultStep ==
  ASSUME DetachInv, ReturnResult
  PROVE  Goes
<1> DEFINE n == Len(calls)
           ds == Front(calls)
           c == calls[n - 1]
           v == ResultRef(Call.result)
<1>1. Transforming /\ AllKeysDone /\ UNCHANGED copies
  BY DEF ReturnResult
<1>2. /\ Building(maps, StaysMap, calls, copies, results)
      /\ Call = calls[n] /\ calls # <<>> /\ ~thrown /\ TablesCopied
      /\ Len(maps[Call.map].entries) \in Nat /\ Call.next \in Nat
      /\ n \in Nat \ {0}
  BY <1>1, InTransform, TopCall
<1>3. calls[n].next > Len(maps[calls[n].map].entries)
  BY <1>1, <1>2 DEF AllKeysDone
<1>4. /\ Building(maps, StaysMap, ds, copies, results)
      /\ Len(ds) = n - 1
      /\ \A k \in 1 .. n - 1 : ds[k] = calls[k]
      /\ n # 1 => /\ c.next <= Len(maps[c.map].entries)
                  /\ ResultIn(maps, StaysMap, results, maps[c.map].entries[c.next][2], v)
  BY <1>2, <1>3, CallReturns
<1> HIDE DEF ds
<1>5. CASE n = 1
  <2>1. ds = <<>>
    BY <1>4, <1>5 DEF Building
  <2>2. calls' = <<>> /\ UNCHANGED <<results, thrown>>
    BY <1>5 DEF ReturnResult
  <2> QED
    BY <1>1, <1>2, <1>4, <2>1, <2>2 DEF Goes
<1>6. CASE n # 1
  <2>1. n - 1 \in 1 .. n - 1 /\ ds # <<>>
    <3>1. n \in Nat \ {0, 1}
      BY <1>2, <1>6
    <3> HIDE DEF n
    <3> QED
      BY <3>1, <1>4
  <2>2. ds[Len(ds)] = c
    BY <2>1, <1>4
  <2>3. Assign(c.result, maps[c.map].entries[c.next][1], v, Advanced(ds))
    BY <1>4, <1>6 DEF ReturnResult, Advanced, ds
  <2> HIDE DEF c, v
  <2> QED
    BY <1>1, <1>2, <1>4, <1>6, <2>1, <2>2, <2>3, AssignStep
<1> QED
  BY <1>5, <1>6

LEMMA TransformStepKeeps ==
  ASSUME DetachInv, Transform
  PROVE  DetachInv'
<1>1. /\ TransformStep /\ done' = (calls' = <<>>)
      /\ UNCHANGED <<graph, stack, frames, refs, maps>>
  BY DEF Transform
<1>2. Transforming /\ UNCHANGED wanted
  BY <1>1 DEF TransformStep, CopyValue, ReuseOrKeepMap, TransformMap, ReturnResult
<1>3. graph \in Graphs /\ TablesCopied
  BY <1>2, InTransform
<1>4. Goes
  BY <1>1, CopyValueStep, ReuseOrKeepMapStep, TransformMapStep, ReturnResultStep DEF TransformStep
<1> QED
  BY <1>1, <1>2, <1>3, <1>4, TransformGoesOn

\* The invariant of $detach: between its steps, what each of its calls has done
\* and waits for (table.ts:47-110, map-transform.ts:34-60).
THEOREM DetachSafety == Spec => []DetachInv
<1>1. Init => DetachInv
  BY DetachInit
<1>2. DetachInv /\ [Next]_vars => DetachInv'
  <2> SUFFICES ASSUME DetachInv, [Next]_vars
               PROVE  DetachInv'
    OBVIOUS
  <2>1. ASSUME NEW t \in LuaTables, Start(t) PROVE DetachInv'
    BY <2>1, StartStep
  <2>2. CASE NextEntry
    BY <2>2, NextEntryStep
  <2>3. CASE ConvertKey
    BY <2>3, ConvertKeyStep
  <2>4. CASE ConvertValue
    BY <2>4, ConvertValueStep
  <2>5. CASE ReturnNested
    BY <2>5, ReturnNestedStep
  <2>6. CASE ReturnOutermost
    BY <2>6, ReturnOutermostStep
  <2>7. CASE Transform
    BY <2>7, TransformStepKeeps
  <2>8. CASE UNCHANGED vars
    <3>1. StaysMap' = StaysMap
      BY <2>8 DEF vars, detachVars, transformVars, StaysMap, DictType, KeysOf
    <3>2. UNCHANGED <<graph, stack, frames, refs, done, maps, wanted, calls, copies, results, thrown>>
      BY <2>8 DEF vars, detachVars, transformVars
    <3>3. AssignmentMayThrow' <=> AssignmentMayThrow
      BY <3>2 DEF AssignmentMayThrow, MapRefs
    <3> QED
      BY <3>1, <3>2, <3>3 DEF DetachInv, NotStarted, CopyingTables, MakingResults, Thrown, TablesCopied
  <2> QED
    BY <2>1, <2>2, <2>3, <2>4, <2>5, <2>6, <2>7, <2>8 DEF Next
<1> QED
  BY <1>1, <1>2, PTL DEF Spec

\* The image of a known value is its image in the sense of the property.
LEMMA ImageIsImage ==
  ASSUME RefsOK(refs, maps), NEW v \in LuaValues, KnownIn(refs, v)
  PROVE  ImageIs(v, ImageIn(refs, v))
<1>1. CASE v \in LuaTables
  <2>1. refs[v] \in DOMAIN maps /\ maps[refs[v]].of = v
    BY <1>1, ScalarsAreNotTables DEF KnownIn, RefsOK
  <2> QED
    BY <1>1, <2>1 DEF ImageIs, ImageIn
<1>2. CASE v \notin LuaTables
  BY <1>2 DEF ImageIs, ImageIn
<1> QED
  BY <1>1, <1>2

\* A Map that mirrors its table does so in the sense of the property.
LEMMA MirrorIsImage ==
  ASSUME graph \in Graphs, maps \in Seq(MapT), RefsOK(refs, maps), NEW i \in DOMAIN maps,
         Mirrors(refs, maps[i].entries, graph[maps[i].of])
  PROVE  /\ IsInjective(KeysOf(i))
         /\ \A e \in graph[maps[i].of] : \E k \in DOMAIN KeysOf(i) : ImageIs(e[1], KeysOf(i)[k])
         /\ \A k \in DOMAIN KeysOf(i) : \E e \in graph[maps[i].of] :
              ImageIs(e[1], KeysOf(i)[k]) /\ ImageIs(e[2], maps[i].entries[k][2])
<1> DEFINE E == maps[i].entries
           D == graph[maps[i].of]
<1>1. E \in Seq(JsV \X JsV) /\ D \subseteq LuaValues \X LuaValues
  BY MapType, GraphEntries
<1>2. DOMAIN KeysOf(i) = DOMAIN E /\ \A k \in DOMAIN E : KeysOf(i)[k] = E[k][1]
  BY DEF KeysOf
<1> HIDE DEF E, D
<1>3. IsInjective(KeysOf(i))
  BY <1>2 DEF IsInjective, Mirrors, OneEntryPerKey, E
<1>4. ASSUME NEW e \in D
      PROVE  /\ ImageIs(e[1], ImageIn(refs, e[1]))
             /\ ImageIs(e[2], ImageIn(refs, e[2]))
  <2>1. e[1] \in LuaValues /\ e[2] \in LuaValues
    BY <1>1
  <2>2. KnownIn(refs, e[1]) /\ KnownIn(refs, e[2])
    BY DEF Mirrors, D
  <2> QED
    BY <2>1, <2>2, ImageIsImage
<1>5. ASSUME NEW e \in D
      PROVE  \E k \in DOMAIN KeysOf(i) : ImageIs(e[1], KeysOf(i)[k])
  <2>1. HasKey(E, ImageIn(refs, e[1]))
    BY DEF Mirrors, D, E
  <2> QED
    BY <2>1, <1>2, <1>4 DEF HasKey
<1>6. ASSUME NEW k \in DOMAIN KeysOf(i)
      PROVE  \E e \in D : ImageIs(e[1], KeysOf(i)[k]) /\ ImageIs(e[2], E[k][2])
  <2>1. PICK e \in D : E[k] = <<ImageIn(refs, e[1]), ImageIn(refs, e[2])>>
    BY <1>2 DEF Mirrors, D, E
  <2>2. E[k][1] = ImageIn(refs, e[1]) /\ E[k][2] = ImageIn(refs, e[2])
    BY <2>1
  <2> QED
    BY <2>2, <1>2, <1>4
<1> QED
  BY <1>3, <1>5, <1>6 DEF D, E

\* Whatever tables and cycles the graph has, the Maps that $detach ends with
\* are its tables, and the Lua stack is as it was (table.ts:47-110).
THEOREM MapsMirrorTables == Spec => []DetachedMapsMirrorTables
<1>1. DetachInv => DetachedMapsMirrorTables
  <2> SUFFICES ASSUME DetachInv, ~Detaching
               PROVE  /\ stack = Below
                      /\ \A i \in DOMAIN maps :
                          LET entries == graph[maps[i].of] keys == KeysOf(i) IN
                          /\ IsInjective(keys)
                          /\ \A e \in entries : \E k \in DOMAIN keys : ImageIs(e[1], keys[k])
                          /\ \A k \in DOMAIN keys : \E e \in entries :
                               ImageIs(e[1], keys[k]) /\ ImageIs(e[2], maps[i].entries[k][2])
    BY DEF DetachedMapsMirrorTables
  <2>1. CASE NotStarted
    BY <2>1 DEF NotStarted
  <2>2. CASE TablesCopied
    BY <2>2, MirrorIsImage DEF TablesCopied, DetachInv
  <2> QED
    BY <2>1, <2>2 DEF DetachInv, CopyingTables, MakingResults, Thrown, Detaching
<1> QED
  BY <1>1, DetachSafety, PTL

\* What a call got for a value is its result in the sense of the property.
LEMMA ResultInIsResult ==
  ASSUME NEW v, NEW w, ResultIn(maps, StaysMap, results, v, w)
  PROVE  ResultIs(v, w)
BY DEF ResultIn, ResultIs, MapRefs, StaysMap

\* A result that is complete mirrors its Map.
ResultMirrorsMap(r) ==
  LET entries == maps[r.of].entries
      name(k) == PropertyName(entries[k][1]) IN
  /\ \A x \in DOMAIN r.props :
       \E k \in DOMAIN entries :
         Stays(r, entries, k) /\ name(k) = x /\ ResultIs(entries[k][2], r.props[x])
  /\ \A k \in DOMAIN entries :
       Stays(r, entries, k) => name(k) \in DOMAIN r.props \/ MayBeCut(r, entries, k)
  /\ wanted = Detected => \A k, l \in DOMAIN entries : name(k) = name(l) => k = l
  /\ InheritsAsAsked(r, entries)

LEMMA ResultMirrors ==
  ASSUME MakingResults, calls = <<>>, NEW j \in DOMAIN results
  PROVE  ResultMirrorsMap(results[j])
<1> DEFINE r == results[j]
           E == maps[r.of].entries
<1>1. Building(maps, StaysMap, calls, copies, results)
  BY DEF MakingResults
<1>2. PropsMirror(maps, StaysMap, results, E, Len(E), r)
  BY <1>1 DEF Building, ResultsComplete
<1>3. r.of \in DOMAIN maps \ StaysMap
  BY <1>1 DEF Building, CopiesOK
<1>4. E \in Seq(JsV \X JsV) /\ DOMAIN E = 1 .. Len(E)
  BY <1>1, <1>3 DEF Building, MapsOK
<1>5. ASSUME wanted = Detected
      PROVE  \A k, l \in DOMAIN E : NameAt(E, k) = NameAt(E, l) => k = l
  <2>1. ~DetectDuplicateKeys(KeysOf(r.of))
    BY <1>3, <1>5 DEF StaysMap, DictType, DetectDictType
  <2> QED
    BY <2>1, <1>4 DEF DetectDuplicateKeys, KeysOf, IsInjective, NameAt
<1>6. \A k \in DOMAIN E : Stays(r, E, k) <=> Lasting(r, E, Len(E), k)
  BY <1>4 DEF Stays, Lasting, LastNamed, NameAt
<1>7. \A k \in DOMAIN E : MayBeCut(r, E, k) <=> CutWithin(r, E, Len(E), k)
  BY <1>4 DEF MayBeCut, CutWithin, NameAt
<1>8. ASSUME NEW x \in DOMAIN r.props
      PROVE  \E k \in DOMAIN E : Stays(r, E, k) /\ NameAt(E, k) = x /\ ResultIs(E[k][2], r.props[x])
  <2>1. PICK k \in 1 .. Len(E) : /\ Lasting(r, E, Len(E), k) /\ NameAt(E, k) = x
                                 /\ ResultIn(maps, StaysMap, results, E[k][2], r.props[x])
    BY <1>2 DEF PropsMirror
  <2> QED
    BY <2>1, <1>4, <1>6, ResultInIsResult
<1>9. ASSUME NEW k \in DOMAIN E, Stays(r, E, k)
      PROVE  NameAt(E, k) \in DOMAIN r.props \/ MayBeCut(r, E, k)
  BY <1>2, <1>4, <1>6, <1>7, <1>9 DEF PropsMirror
<1>10. InheritsAsAsked(r, E)
  <2> SUFFICES ASSUME NEW k \in DOMAIN E, NameAt(E, k) = ProtoName,
                      \A l \in DOMAIN E : l > k => NameAt(E, l) # ProtoName,
                      E[k][2] \in MapRefs, DictType(E[k][2][2]) # "Map"
               PROVE  r.proto # 0 /\ results[r.proto].of = E[k][2][2]
    BY DEF InheritsAsAsked, NameAt
  <2>1. LastNamed(E, Len(E), k)
    BY <1>4 DEF LastNamed
  <2>2. AskedFor(maps, StaysMap, results, E[k][2], r.proto)
    BY <2>1, <1>2, <1>4 DEF PropsMirror
  <2>3. E[k][2] \in {MapRef(i) : i \in DOMAIN maps \ StaysMap}
    BY DEF MapRefs, MapRef, StaysMap
  <2>4. 0 \notin DOMAIN results
    BY <1>1 DEF Building
  <2> QED
    BY <2>2, <2>3, <2>4 DEF AskedFor
<1> QED
  BY <1>5, <1>8, <1>9, <1>10 DEF ResultMirrorsMap, NameAt

\* Whatever cycles the Maps form, the objects and arrays the caller gets have the
\* properties of the Maps, except where "__proto__" or an array's "length" is a
\* key, and it is one of these two that makes mapTransform throw
\* (map-transform.ts:34-60).
THEOREM ResultsMirrorTheMaps == Spec => []ResultsMirrorMaps
<1>1. DetachInv => ResultsMirrorMaps
  <2> SUFFICES ASSUME DetachInv, done
               PROVE  IF thrown THEN AssignmentMayThrow
                      ELSE \A j \in DOMAIN results : ResultMirrorsMap(results[j])
    BY DEF ResultsMirrorMaps, ResultMirrorsMap
  <2>1. CASE MakingResults
    <3>1. ~thrown /\ calls = <<>>
      BY <2>1 DEF MakingResults
    <3> QED
      BY <2>1, <3>1, ResultMirrors
  <2>2. CASE Thrown
    BY <2>2 DEF Thrown
  <2> QED
    BY <2>1, <2>2 DEF DetachInv, NotStarted, CopyingTables
<1> QED
  BY <1>1, DetachSafety, PTL
=============================================================================
