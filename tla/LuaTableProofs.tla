--------------------------- MODULE LuaTableProofs ---------------------------
(* A table keeps the values assigned to it, its chains, its length and its      *)
(* traversals, for all sets of keys, hashes and addresses, and for tables of any*)
(* size. The first parts are about numbers and recursive functions, the next    *)
(* ones about one operation of a table each, the last about the steps.          *)
EXTENDS LuaTable, TLAPS, FiniteSetTheorems, SequenceTheorems, NaturalsInduction, WellFoundedInduction

\* A set of numbers has a least one.
LEMMA LeastNumber ==
  ASSUME NEW T, T \subseteq Nat, T # {}
  PROVE  \E n \in T : \A m \in T : n <= m
<1> DEFINE R == {p \in Nat \X Nat : p[1] < p[2]}
<1>1. IsWellFoundedOn(R, Nat)
  BY NatLessThanWellFounded DEF OpToRel
<1> HIDE DEF R
<1>2. \E n \in T : \A m \in T : ~ (<<m, n>> \in R)
  BY <1>1, WFMin
<1>3. PICK n \in T : \A m \in T : ~ (<<m, n>> \in R)
  BY <1>2
<1>4. ASSUME NEW m \in T PROVE n <= m
  <2>1. <<m, n>> \in Nat \X Nat /\ m \in Nat /\ n \in Nat
    OBVIOUS
  <2>2. ~ m < n
    BY <1>3, <2>1 DEF R
  <2> QED
    BY <2>1, <2>2
<1> QED
  BY <1>4

\* What holds at 0, and at each number when it holds at the one before, holds up to N.
Inductive(P, N) == 0 \in P /\ \A n \in 1..N : n - 1 \in P => n \in P

\* Induction up to a number, for a set and not for a predicate.
LEMMA Induction ==
  ASSUME NEW N \in Nat, NEW P, Inductive(P, N)
  PROVE  N \in P
<1>1. SUFFICES ASSUME N \notin P PROVE FALSE
  OBVIOUS
<1>2. PICK T : T = {n \in 0..N : n \notin P}
  OBVIOUS
<1>3. T \subseteq Nat /\ T # {}
  BY <1>1, <1>2
<1>4. PICK n \in T : \A m \in T : n <= m
  BY <1>3, LeastNumber
<1>5. n \in 1..N /\ n - 1 \in 0..N /\ ~ n <= n - 1
  <2>1. n \in 0..N /\ n # 0
    BY <1>2, <1>4 DEF Inductive
  <2> QED
    BY <2>1
<1>6. n - 1 \in P
  BY <1>2, <1>4, <1>5
<1> QED
  BY <1>2, <1>4, <1>5, <1>6 DEF Inductive

\* A recursion of N steps that a function gives has a solution.
Iterates(f, x0, N, G) == DOMAIN f = 0..N /\ f[0] = x0 /\ \A n \in 1..N : f[n] = G[<<n, f[n - 1]>>]

\* There is a function that follows such a recursion.
LEMMA RecursionExists ==
  ASSUME NEW X, NEW x0 \in X, NEW N \in Nat, NEW G \in [(1..N) \X X -> X]
  PROVE  \E f \in [0..N -> X] : Iterates(f, x0, N, G)
<1>1. PICK P : P = {n \in 0..N : \E f \in [0..n -> X] : Iterates(f, x0, n, G)}
  OBVIOUS
<1>2. 0 \in P
  <2>1. PICK f : f = [m \in 0..0 |-> x0]
    OBVIOUS
  <2>2. f \in [0..0 -> X] /\ Iterates(f, x0, 0, G)
    BY <2>1 DEF Iterates
  <2> QED
    BY <1>1, <2>2
<1>3. ASSUME NEW n \in 1..N, n - 1 \in P PROVE n \in P
  <2>1. PICK f \in [0..(n - 1) -> X] : Iterates(f, x0, n - 1, G)
    BY <1>1, <1>3
  <2>2. G[<<n, f[n - 1]>>] \in X
    OBVIOUS
  <2>3. PICK h : h = [m \in 0..n |-> IF m = n THEN G[<<n, f[n - 1]>>] ELSE f[m]]
    OBVIOUS
  <2>4. \A m \in 0..n : m # n => m \in 0..(n - 1)
    OBVIOUS
  <2>5. h \in [0..n -> X]
    BY <2>2, <2>3, <2>4
  <2>6. \A m \in 1..n : h[m] = G[<<m, h[m - 1]>>]
    <3>1. ASSUME NEW m \in 1..n PROVE h[m] = G[<<m, h[m - 1]>>]
      <4>1. h[m - 1] = f[m - 1]
        BY <2>3
      <4>2. CASE m = n
        <5>1. h[n] = G[<<n, f[n - 1]>>] /\ h[n - 1] = f[n - 1]
          BY <2>3, <4>1, <4>2
        <5> QED
          BY <4>2, <5>1
      <4>3. CASE m # n
        <5>1. m \in 1..(n - 1) /\ h[m] = f[m]
          BY <2>3, <4>3
        <5>2. f[m] = G[<<m, f[m - 1]>>]
          BY <2>1, <5>1 DEF Iterates
        <5> QED
          BY <4>1, <5>1, <5>2
      <4> QED
        BY <4>2, <4>3
    <3> QED
      BY <3>1
  <2>7. h[0] = x0
    BY <2>1, <2>3 DEF Iterates
  <2>8. n \in 0..N
    OBVIOUS
  <2> QED
    BY <1>1, <2>5, <2>6, <2>7, <2>8 DEF Iterates
<1>4. N \in P
  BY <1>2, <1>3, Induction DEF Inductive
<1> QED
  BY <1>1, <1>4

\* A set of numbers with a bound has a greatest one.
LEMMA GreatestNumber ==
  ASSUME NEW A, NEW b \in Nat, A \subseteq 0..b, A # {}
  PROVE  \E n \in A : \A m \in A : n >= m
<1>1. PICK D : D = {b - m : m \in A}
  OBVIOUS
<1>2. D \subseteq Nat /\ D # {}
  <2>1. ASSUME NEW m \in A PROVE b - m \in Nat
    <3>1. m \in 0..b
      OBVIOUS
    <3> QED
      BY <3>1
  <2> QED
    BY <1>1, <2>1
<1>3. PICK d \in D : \A e \in D : d <= e
  BY <1>2, LeastNumber
<1>4. PICK n \in A : d = b - n
  BY <1>1, <1>3
<1>5. ASSUME NEW m \in A PROVE n >= m
  <2>1. d <= b - m
    BY <1>1, <1>3
  <2>2. m \in 0..b /\ n \in 0..b
    OBVIOUS
  <2> QED
    BY <1>4, <2>1, <2>2
<1> QED
  BY <1>5

\* Max and Min of numbers are the ones they are meant to be.
LEMMA MaxIsGreatest ==
  ASSUME NEW A, NEW b \in Nat, A \subseteq 0..b, A # {}
  PROVE  Max(A) \in A /\ \A m \in A : Max(A) >= m
BY GreatestNumber DEF Max

\* Min of a nonempty set of natural numbers is its least element.
LEMMA MinIsLeast ==
  ASSUME NEW A, A \subseteq Nat, A # {}
  PROVE  Min(A) \in A /\ \A m \in A : Min(A) <= m
BY LeastNumber DEF Min

-----------------------------------------------------------------------------
(* Powers of two, and their logarithms.                                         *)
\* twoto is what its recursion says.
LEMMA TwotoRecursion ==
  /\ DOMAIN twoto = Nat
  /\ twoto[0] = 1
  /\ \A n \in Nat : twoto[n] \in Nat
  /\ \A n \in Nat : twoto[n + 1] = 2 * twoto[n]
<1> DEFINE Upto(f, n) == f \in [0..n -> Nat] /\ f[0] = 1 /\ \A m \in 1..n : f[m] = 2 * f[m - 1]
<1>1. ASSUME NEW n \in Nat PROVE \E f : Upto(f, n)
  <2>1. PICK G : G = [p \in (1..n) \X Nat |-> 2 * p[2]]
    OBVIOUS
  <2>2. G \in [(1..n) \X Nat -> Nat]
    BY <2>1
  <2>3. PICK f \in [0..n -> Nat] : Iterates(f, 1, n, G)
    BY <2>2, RecursionExists
  <2>4. ASSUME NEW m \in 1..n PROVE f[m] = 2 * f[m - 1]
    <3>1. f[m] = G[<<m, f[m - 1]>>]
      BY <2>3 DEF Iterates
    <3>2. m - 1 \in 0..n
      OBVIOUS
    <3> QED
      BY <2>1, <3>1, <3>2
  <2> QED
    BY <2>3, <2>4 DEF Iterates
<1>2. ASSUME NEW n \in Nat, NEW f, Upto(f, n), NEW h, Upto(h, n + 1)
      PROVE  h[n] = f[n] /\ h[n + 1] = 2 * h[n]
  <2>1. PICK P : P = {m \in 0..n : h[m] = f[m]}
    OBVIOUS
  <2>2. 0 \in P
    BY <1>2, <2>1
  <2>3. ASSUME NEW m \in 1..n, m - 1 \in P PROVE m \in P
    <3>1. m \in 1..(n + 1) /\ h[m] = 2 * h[m - 1] /\ f[m] = 2 * f[m - 1]
      BY <1>2
    <3> QED
      BY <2>1, <2>3, <3>1
  <2>4. n \in P
    BY <2>2, <2>3, Induction DEF Inductive
  <2>5. n + 1 \in 1..(n + 1) /\ n + 1 - 1 = n
    OBVIOUS
  <2>6. h[n + 1] = 2 * h[n + 1 - 1]
    BY <1>2, <2>5
  <2>7. h[n] = f[n]
    BY <2>1, <2>4
  <2> HIDE DEF Upto
  <2> QED
    BY <2>5, <2>6, <2>7
<1> DEFINE upto(n) == CHOOSE f : Upto(f, n)
<1>3. \A n \in Nat : Upto(upto(n), n)
  BY <1>1
<1> HIDE DEF upto
<1>4. PICK g : g = [n \in Nat |-> upto(n)[n]]
  OBVIOUS
<1>5. g[0] = 1
  <2>1. Upto(upto(0), 0)
    BY <1>3
  <2> QED
    BY <1>4, <2>1
<1>6. ASSUME NEW n \in Nat PROVE g[n] \in Nat /\ g[n + 1] = 2 * g[n]
  <2>1. PICK f : f = upto(n)
    OBVIOUS
  <2>2. PICK h : h = upto(n + 1)
    OBVIOUS
  <2>3. Upto(f, n)
    BY <1>3, <2>1
  <2>4. Upto(h, n + 1)
    <3>1. n + 1 \in Nat
      OBVIOUS
    <3> QED
      BY <1>3, <2>2, <3>1
  <2> HIDE DEF Upto
  <2>5. h[n] = f[n] /\ h[n + 1] = 2 * h[n]
    BY <1>2, <2>3, <2>4
  <2>6. f[n] \in Nat
    BY <2>3 DEF Upto
  <2> QED
    BY <1>4, <2>1, <2>2, <2>5, <2>6
<1>7. ASSUME NEW n \in Nat PROVE g[n] = IF n = 0 THEN 1 ELSE 2 * g[n - 1]
  <2>1. CASE n = 0
    BY <1>5, <2>1
  <2>2. CASE n # 0
    <3>1. n - 1 \in Nat /\ n - 1 + 1 = n
      BY <2>2
    <3>2. g[n - 1 + 1] = 2 * g[n - 1]
      BY <1>6, <3>1
    <3> QED
      BY <2>2, <3>1, <3>2
  <2> QED
    BY <2>1, <2>2
<1>8. g = [n \in Nat |-> IF n = 0 THEN 1 ELSE 2 * g[n - 1]]
  <2>1. DOMAIN g = Nat /\ g = [n \in Nat |-> g[n]]
    BY <1>4
  <2> HIDE DEF Upto
  <2> QED
    BY <1>7, <2>1
<1>9. twoto = [n \in Nat |-> IF n = 0 THEN 1 ELSE 2 * twoto[n - 1]]
  BY <1>8 DEF twoto
<1>10. \A n \in Nat : n + 1 \in Nat /\ n + 1 # 0 /\ n + 1 - 1 = n
  OBVIOUS
<1>11. twoto[0] = 1 /\ \A n \in Nat : twoto[n + 1] = 2 * twoto[n]
  BY <1>9, <1>10
<1>12. ASSUME NEW n \in Nat PROVE twoto[n] \in Nat
  <2>1. PICK P : P = {m \in 0..n : twoto[m] \in Nat}
    OBVIOUS
  <2>2. 0 \in P
    BY <1>11, <2>1
  <2>3. ASSUME NEW m \in 1..n, m - 1 \in P PROVE m \in P
    <3>1. m - 1 \in Nat /\ m - 1 + 1 = m /\ m \in 0..n
      OBVIOUS
    <3>2. twoto[m] = 2 * twoto[m - 1]
      BY <1>11, <3>1
    <3> QED
      BY <2>1, <2>3, <3>1, <3>2
  <2>4. n \in P
    BY <2>2, <2>3, Induction DEF Inductive
  <2> QED
    BY <2>1, <2>4
<1> QED
  BY <1>9, <1>11, <1>12

\* Powers of two grow.
LEMMA TwotoGrows ==
  /\ \A n \in Nat : n < twoto[n]
  /\ \A m, n \in Nat : m < n => 2 * twoto[m] <= twoto[n]
<1>1. ASSUME NEW n \in Nat PROVE n < twoto[n]
  <2>1. PICK P : P = {m \in 0..n : m < twoto[m]}
    OBVIOUS
  <2>2. 0 \in P
    BY <2>1, TwotoRecursion
  <2>3. ASSUME NEW m \in 1..n, m - 1 \in P PROVE m \in P
    <3>1. m - 1 \in Nat /\ m - 1 + 1 = m /\ m \in 0..n
      OBVIOUS
    <3>2. twoto[m] = 2 * twoto[m - 1] /\ twoto[m - 1] \in Nat
      BY <3>1, TwotoRecursion
    <3>3. m - 1 < twoto[m - 1]
      BY <2>1, <2>3
    <3> QED
      BY <2>1, <3>1, <3>2, <3>3
  <2>4. n \in P
    BY <2>2, <2>3, Induction DEF Inductive
  <2> QED
    BY <2>1, <2>4
<1>2. ASSUME NEW m \in Nat, NEW n \in Nat, m < n PROVE 2 * twoto[m] <= twoto[n]
  <2>1. PICK P : P = {i \in 0..(n - m - 1) : 2 * twoto[m] <= twoto[m + 1 + i]}
    OBVIOUS
  <2>2. n - m - 1 \in Nat
    BY <1>2
  <2>3. 0 \in P
    BY <2>1, <2>2, TwotoRecursion
  <2>4. ASSUME NEW i \in 1..(n - m - 1), i - 1 \in P PROVE i \in P
    <3>1. m + i \in Nat /\ m + 1 + (i - 1) = m + i /\ m + 1 + i = m + i + 1 /\ i \in 0..(n - m - 1)
      BY <2>2
    <3>2. 2 * twoto[m] <= twoto[m + i] /\ twoto[m] \in Nat /\ twoto[m + i] \in Nat
      BY <2>1, <2>4, <3>1, TwotoRecursion
    <3>3. twoto[m + i + 1] = 2 * twoto[m + i]
      BY <3>1, TwotoRecursion
    <3>4. 2 * twoto[m] <= twoto[m + 1 + i]
      BY <3>1, <3>2, <3>3
    <3> QED
      BY <2>1, <3>1, <3>4
  <2>5. n - m - 1 \in P
    BY <2>2, <2>3, <2>4, Induction DEF Inductive
  <2>6. m + 1 + (n - m - 1) = n
    OBVIOUS
  <2> QED
    BY <2>1, <2>5, <2>6
<1> QED
  BY <1>1, <1>2

\* The sizes an array part can have.
LEMMA SizesAre ==
  /\ MAX_INT \in Nat /\ isexact(MAX_INT + 1) /\ ~ 1..(MAX_INT + 1) \subseteq Numbers
  /\ MAXBITS \in Nat /\ MAXASIZE \in Nat /\ MAXASIZE = twoto[MAXBITS] /\ MAXASIZE <= MAX_INT
  /\ Lists \subseteq 0..MAXASIZE /\ Sizes \subseteq [narray : 0..MAXASIZE, nhash : Nat]
<1>1. MAXASIZE = twoto[MAXBITS] /\ MAXASIZE \in Nat
  BY SizesAssumption, TwotoRecursion DEF MAXASIZE
<1>2. 0..MAXASIZE \subseteq Nat
  BY <1>1
<1> QED
  BY <1>1, <1>2, SizesAssumption

\* log2 is the place of the highest bit.
LEMMA Log2 ==
  ASSUME NEW n \in Nat, n > 0
  PROVE  log2(n) \in 0..n /\ twoto[log2(n)] <= n /\ n < twoto[log2(n) + 1]
<1>1. PICK A : A = {e \in 0..n : twoto[e] <= n}
  OBVIOUS
<1>2. 0 \in A
  BY <1>1, TwotoRecursion
<1>3. PICK e \in A : \A d \in A : e >= d
  BY <1>1, <1>2, GreatestNumber
<1>4. n < twoto[e + 1]
  <2>1. CASE e = n
    <3>1. n < twoto[n] /\ twoto[n + 1] = 2 * twoto[n] /\ twoto[n] \in Nat
      BY TwotoGrows, TwotoRecursion
    <3> QED
      BY <2>1, <3>1
  <2>2. CASE e # n
    <3>1. e + 1 \in 0..n /\ e + 1 \notin A /\ twoto[e + 1] \in Nat
      BY <1>1, <1>3, <2>2, TwotoRecursion
    <3> QED
      BY <1>1, <3>1
  <2> QED
    BY <2>1, <2>2
<1>5. \E d \in 0..n : twoto[d] <= n /\ n < twoto[d + 1]
  BY <1>1, <1>4
<1> QED
  BY <1>5 DEF log2

\* ceillog2 is the exponent of the least power of two that is no less.
LEMMA Ceillog2 ==
  ASSUME NEW n \in Nat, n > 0
  PROVE  /\ ceillog2(n) \in Nat
         /\ \A lg \in Nat : ceillog2(n) <= lg <=> n <= twoto[lg]
<1>1. CASE n = 1
  <2>1. ceillog2(n) = 0
    BY <1>1 DEF ceillog2
  <2>2. \A lg \in Nat : twoto[lg] \in Nat /\ lg < twoto[lg]
    BY TwotoRecursion, TwotoGrows
  <2> QED
    BY <1>1, <2>1, <2>2
<1>2. CASE n # 1
  <2>1. n - 1 \in Nat /\ n - 1 > 0
    BY <1>2
  <2>2. PICK e : e = log2(n - 1)
    OBVIOUS
  <2>3. e \in Nat /\ twoto[e] <= n - 1 /\ n - 1 < twoto[e + 1]
    BY <2>1, <2>2, Log2
  <2>4. ceillog2(n) = 1 + e
    BY <1>2, <2>2 DEF ceillog2
  <2>5. ASSUME NEW lg \in Nat PROVE 1 + e <= lg <=> n <= twoto[lg]
    <3>1. twoto[lg] \in Nat /\ twoto[e] \in Nat /\ twoto[e + 1] \in Nat
      BY <2>3, TwotoRecursion
    <3>2. CASE lg = e + 1
      BY <2>3, <3>1, <3>2
    <3>3. CASE lg > e + 1
      <4>1. 2 * twoto[e + 1] <= twoto[lg]
        BY <2>3, <3>3, TwotoGrows
      <4> QED
        BY <2>3, <3>1, <3>3, <4>1
    <3>4. CASE lg < e + 1
      <4>1. lg = e \/ 2 * twoto[lg] <= twoto[e]
        BY <2>3, <3>4, TwotoGrows
      <4>2. twoto[lg] <= n - 1
        BY <2>3, <3>1, <4>1
      <4> QED
        BY <2>3, <3>1, <3>4, <4>2
    <3> QED
      BY <2>3, <3>2, <3>3, <3>4
  <2> QED
    BY <2>3, <2>4, <2>5
<1> QED
  BY <1>1, <1>2

\* The links of the nodes, and the nodes a chain leads to from a node on: those in every
\* set that has the node and follows the links.
links(T) == [n \in DOMAIN T.node |-> T.node[n].next]
Follows(nx, P) == \A x \in P : nx[x] # 0 => nx[x] \in P
Reaches(nx, m, n) == \A P \in SUBSET DOMAIN nx : m \in P /\ Follows(nx, P) => n \in P
\* Links lead down, so that every chain ends.
Ranks(nx) == {r \in [DOMAIN nx -> Nat \ {0}] : \A n \in DOMAIN nx : nx[n] # 0 => r[nx[n]] < r[n]}
Acyclic(nx) == Ranks(nx) # {}

\* The nodes a node reaches: itself, the next one, and what those reach.
LEMMA ReachesSteps ==
  ASSUME NEW N \in Nat, NEW nx \in [1..N -> 0..N]
  PROVE  /\ \A m \in 1..N : Reaches(nx, m, m)
         /\ \A m, n \in 1..N : Reaches(nx, m, n) /\ nx[n] # 0 => Reaches(nx, m, nx[n])
         /\ \A m, n, l \in 1..N : Reaches(nx, m, n) /\ Reaches(nx, n, l) => Reaches(nx, m, l)
         /\ \A m, n \in 1..N : Reaches(nx, m, n) /\ m # n =>
              nx[m] # 0 /\ Reaches(nx, nx[m], n)
<1>1. DOMAIN nx = 1..N
  OBVIOUS
<1>2. \A m, n \in 1..N : Reaches(nx, m, n) /\ nx[n] # 0 => Reaches(nx, m, nx[n])
  BY <1>1 DEF Reaches, Follows
<1>3. ASSUME NEW m \in 1..N, NEW n \in 1..N, Reaches(nx, m, n), m # n
      PROVE  nx[m] # 0 /\ Reaches(nx, nx[m], n)
  <2>1. nx[m] # 0
    <3>1. SUFFICES ASSUME nx[m] = 0 PROVE FALSE
      OBVIOUS
    <3>2. PICK P : P = {m}
      OBVIOUS
    <3>3. P \in SUBSET DOMAIN nx /\ m \in P /\ Follows(nx, P)
      BY <1>1, <3>1, <3>2 DEF Follows
    <3>4. n \in P
      BY <1>3, <3>3 DEF Reaches
    <3> QED
      BY <1>3, <3>2, <3>4
  <2>2. ASSUME NEW P \in SUBSET DOMAIN nx, nx[m] \in P, Follows(nx, P) PROVE n \in P
    <3>1. PICK Q : Q = P \cup {m}
      OBVIOUS
    <3>2. Q \in SUBSET DOMAIN nx /\ m \in Q /\ Follows(nx, Q)
      BY <1>1, <2>2, <3>1 DEF Follows
    <3>3. n \in Q
      BY <1>3, <3>2 DEF Reaches
    <3> QED
      BY <1>3, <3>1, <3>3
  <2> QED
    BY <2>1, <2>2 DEF Reaches
<1> QED
  BY <1>1, <1>2, <1>3 DEF Reaches

\* Finitely many numbers have a bound.
LEMMA RanksAreBounded ==
  ASSUME NEW N \in Nat, NEW r \in [1..N -> Nat]
  PROVE  \E b \in Nat : \A n \in 1..N : r[n] <= b
<1>1. PICK P : P = {m \in 0..N : \E b \in Nat : \A n \in 1..m : r[n] <= b}
  OBVIOUS
<1>2. 0 \in P
  BY <1>1
<1>3. ASSUME NEW m \in 1..N, m - 1 \in P PROVE m \in P
  <2>1. PICK b \in Nat : \A n \in 1..(m - 1) : r[n] <= b
    BY <1>1, <1>3
  <2>2. PICK c : c = IF r[m] <= b THEN b ELSE r[m]
    OBVIOUS
  <2>3. c \in Nat /\ b <= c /\ r[m] <= c /\ r[m] \in Nat
    BY <2>2
  <2>4. ASSUME NEW n \in 1..m PROVE r[n] <= c
    <3>1. CASE n = m
      BY <2>3, <3>1
    <3>2. CASE n # m
      <4>1. n \in 1..(m - 1) /\ r[n] \in Nat
        BY <3>2
      <4>2. r[n] <= b
        BY <2>1, <4>1
      <4> QED
        BY <2>3, <4>1, <4>2
    <3> QED
      BY <3>1, <3>2
  <2> QED
    BY <1>1, <2>3, <2>4
<1>4. N \in P
  BY <1>2, <1>3, Induction DEF Inductive
<1> QED
  BY <1>1, <1>4

\* A search along a chain that ends has a result.
Looks(f, nx, wanted) ==
  /\ f[0] = 0
  /\ \A n \in DOMAIN nx : f[n] = IF n \in wanted THEN n ELSE f[nx[n]]
\* Where every chain ends, there is such a function.
LEMMA LookExists ==
  ASSUME NEW N \in Nat, NEW nx \in [1..N -> 0..N], Acyclic(nx), NEW wanted \in SUBSET (1..N)
  PROVE  \E f \in [0..N -> 0..N] : Looks(f, nx, wanted)
<1>1. PICK r \in [1..N -> Nat \ {0}] : \A n \in 1..N : nx[n] # 0 => r[nx[n]] < r[n]
  BY DEF Acyclic, Ranks
<1>2. PICK b \in Nat : \A n \in 1..N : r[n] <= b
  BY <1>1, RanksAreBounded
<1> DEFINE Part(f, c) ==
      /\ f[0] = 0
      /\ \A n \in 1..N : r[n] <= c => f[n] = IF n \in wanted THEN n ELSE f[nx[n]]
<1>3. PICK P : P = {c \in 0..b : \E f \in [0..N -> 0..N] : Part(f, c)}
  OBVIOUS
<1>4. 0 \in P
  <2>1. PICK f : f = [n \in 0..N |-> 0]
    OBVIOUS
  <2>2. f \in [0..N -> 0..N] /\ f[0] = 0
    BY <2>1
  <2>3. \A n \in 1..N : ~ r[n] <= 0
    BY <1>1
  <2> QED
    BY <1>3, <2>2, <2>3
<1>5. ASSUME NEW c \in 1..b, c - 1 \in P PROVE c \in P
  <2>1. PICK f \in [0..N -> 0..N] : Part(f, c - 1)
    BY <1>3, <1>5
  <2>2. PICK h : h = [n \in 0..N |-> IF n # 0 /\ r[n] = c THEN (IF n \in wanted THEN n ELSE f[nx[n]]) ELSE f[n]]
    OBVIOUS
  <2>3. h \in [0..N -> 0..N]
    <3>1. ASSUME NEW n \in 0..N PROVE (IF n # 0 /\ r[n] = c THEN (IF n \in wanted THEN n ELSE f[nx[n]]) ELSE f[n]) \in 0..N
      <4>1. CASE n = 0
        BY <4>1
      <4>2. CASE n # 0
        <5>1. n \in 1..N
          BY <4>2
        <5>2. nx[n] \in 0..N /\ f[nx[n]] \in 0..N
          BY <5>1
        <5> QED
          BY <5>2
      <4> QED
        BY <4>1, <4>2
    <3> QED
      BY <2>2, <3>1
  <2>4. h[0] = 0
    BY <2>1, <2>2
  <2>5. ASSUME NEW n \in 1..N, r[n] <= c PROVE h[n] = IF n \in wanted THEN n ELSE h[nx[n]]
    <3>1. nx[n] \in 0..N /\ (nx[n] # 0 => r[nx[n]] < r[n] /\ r[nx[n]] \in Nat) /\ r[n] \in Nat
      BY <1>1
    <3>2. h[nx[n]] = f[nx[n]]
      <4>1. nx[n] # 0 => r[nx[n]] # c
        <5>1. SUFFICES ASSUME nx[n] # 0, r[nx[n]] = c PROVE FALSE
          OBVIOUS
        <5>2. c < r[n] /\ r[n] \in Nat /\ c \in Nat
          BY <3>1, <5>1
        <5> QED
          BY <2>5, <5>2
      <4> QED
        BY <2>2, <3>1, <4>1
    <3>3. CASE r[n] = c
      <4>1. n \in 0..N /\ n # 0
        OBVIOUS
      <4>2. h[n] = IF n \in wanted THEN n ELSE f[nx[n]]
        BY <2>2, <3>3, <4>1
      <4> QED
        BY <3>2, <4>2
    <3>4. CASE r[n] # c
      <4>1. r[n] <= c - 1
        BY <2>5, <3>1, <3>4
      <4>2. f[n] = IF n \in wanted THEN n ELSE f[nx[n]]
        BY <2>1, <4>1
      <4>3. h[n] = f[n]
        BY <2>2, <3>4
      <4> QED
        BY <3>2, <4>2, <4>3
    <3> QED
      BY <3>3, <3>4
  <2>6. c \in 0..b
    OBVIOUS
  <2> QED
    BY <1>3, <2>3, <2>4, <2>5, <2>6
<1>6. b \in P
  BY <1>4, <1>5, Induction DEF Inductive
<1>7. PICK f \in [0..N -> 0..N] : Part(f, b)
  BY <1>3, <1>6
<1>8. Looks(f, nx, wanted)
  BY <1>2, <1>7 DEF Looks
<1> QED
  BY <1>8

\* What a search along a chain returns: the first of the nodes wanted, or 0.
FirstOf(nx, first, wanted, n) ==
  \/ n \in wanted /\ Reaches(nx, first, n) /\ \A m \in wanted : Reaches(nx, first, m) => Reaches(nx, n, m)
  \/ n = 0 /\ \A m \in wanted : ~ Reaches(nx, first, m)
\* It returns the first node wanted that is reached.
LEMMA LookFinds ==
  ASSUME NEW N \in Nat, NEW nx \in [1..N -> 0..N], Acyclic(nx), NEW wanted \in SUBSET (1..N),
         NEW f, Looks(f, nx, wanted), NEW first \in 1..N
  PROVE  FirstOf(nx, first, wanted, f[first])
<1>1. DOMAIN nx = 1..N
  OBVIOUS
<1>2. PICK R : R = {n \in 1..N : Reaches(nx, first, n)}
  OBVIOUS
<1>3. first \in R /\ Follows(nx, R) /\ R \in SUBSET (1..N)
  BY <1>1, <1>2, ReachesSteps DEF Follows
<1>4. CASE f[first] \in wanted /\ f[first] \in R
  <2>1. PICK Q : Q = {n \in 1..N : Reaches(nx, f[first], n)}
    OBVIOUS
  <2>2. f[first] \in Q /\ Follows(nx, Q)
    <3>1. f[first] \in 1..N /\ Reaches(nx, f[first], f[first])
      BY <1>4, ReachesSteps
    <3>2. ASSUME NEW x \in Q, nx[x] # 0 PROVE nx[x] \in Q
      <4>1. x \in 1..N /\ nx[x] \in 1..N /\ Reaches(nx, f[first], x)
        BY <2>1, <3>2
      <4>2. Reaches(nx, f[first], nx[x])
        BY <3>1, <3>2, <4>1, ReachesSteps
      <4> QED
        BY <2>1, <4>1, <4>2
    <3> QED
      BY <2>1, <3>1, <3>2 DEF Follows
  <2>3. PICK P : P = {n \in R : n \notin wanted /\ f[n] = f[first]} \cup Q
    OBVIOUS
  <2>4. P \in SUBSET DOMAIN nx
    BY <1>1, <1>3, <2>1, <2>3
  <2>5. first \in P
    <3>1. first \in wanted => f[first] = first
      BY <1>1 DEF Looks
    <3> QED
      BY <1>3, <2>2, <2>3, <3>1
  <2>6. Follows(nx, P)
    <3>1. ASSUME NEW x \in P, nx[x] # 0 PROVE nx[x] \in P
      <4>1. CASE x \in Q
        BY <2>2, <2>3, <3>1, <4>1 DEF Follows
      <4>2. CASE x \notin Q
        <5>1. x \in R /\ x \notin wanted /\ f[x] = f[first]
          BY <2>3, <4>2
        <5>2. nx[x] \in R /\ f[nx[x]] = f[first]
          BY <1>1, <1>3, <3>1, <5>1 DEF Follows, Looks
        <5>3. nx[x] \in wanted => f[nx[x]] = nx[x]
          BY <1>1, <1>3, <5>2 DEF Looks
        <5> QED
          BY <2>2, <2>3, <5>2, <5>3
      <4> QED
        BY <4>1, <4>2
    <3> QED
      BY <3>1 DEF Follows
  <2>7. ASSUME NEW m \in wanted, Reaches(nx, first, m) PROVE Reaches(nx, f[first], m)
    <3>1. m \in P
      BY <2>4, <2>5, <2>6, <2>7 DEF Reaches
    <3> QED
      BY <2>1, <2>3, <2>7, <3>1
  <2> QED
    BY <1>2, <1>4, <2>7 DEF FirstOf
<1>5. CASE ~ (f[first] \in wanted /\ f[first] \in R)
  <2>1. PICK P : P = {n \in R : n \notin wanted /\ f[n] = f[first]}
    OBVIOUS
  <2>2. first \in P
    <3>1. first \in wanted => f[first] = first
      BY <1>1 DEF Looks
    <3> QED
      BY <1>3, <1>5, <2>1, <3>1
  <2>3. Follows(nx, P)
    <3>1. ASSUME NEW x \in P, nx[x] # 0 PROVE nx[x] \in P
      <4>1. x \in R /\ x \notin wanted /\ f[x] = f[first]
        BY <2>1
      <4>2. nx[x] \in R /\ f[nx[x]] = f[first]
        BY <1>1, <1>3, <3>1, <4>1 DEF Follows, Looks
      <4>3. nx[x] \in wanted => f[nx[x]] = nx[x]
        BY <1>1, <1>3, <4>2 DEF Looks
      <4> QED
        BY <1>5, <2>1, <4>2, <4>3
    <3> QED
      BY <3>1 DEF Follows
  <2>4. \A m \in 1..N : Reaches(nx, first, m) => m \in P
    BY <1>1, <1>3, <2>1, <2>2, <2>3 DEF Reaches
  <2>5. f[first] = 0
    <3>1. PICK r \in [1..N -> Nat \ {0}] : \A n \in 1..N : nx[n] # 0 => r[nx[n]] < r[n]
      BY <1>1 DEF Acyclic, Ranks
    <3>2. PICK D : D = {r[n] : n \in P}
      OBVIOUS
    <3>3. D \subseteq Nat /\ D # {}
      BY <1>3, <2>1, <2>2, <3>1, <3>2
    <3>4. PICK d \in D : \A e \in D : d <= e
      BY <3>3, LeastNumber
    <3>5. PICK n \in P : d = r[n]
      BY <3>2, <3>4
    <3>6. nx[n] = 0
      <4>1. SUFFICES ASSUME nx[n] # 0 PROVE FALSE
        OBVIOUS
      <4>2. nx[n] \in P /\ n \in 1..N /\ nx[n] \in 1..N
        BY <1>3, <2>1, <2>3, <4>1 DEF Follows
      <4>3. r[nx[n]] < r[n] /\ r[nx[n]] \in Nat /\ r[n] \in Nat
        BY <3>1, <4>1, <4>2
      <4>4. r[n] <= r[nx[n]]
        BY <3>2, <3>4, <3>5, <4>2
      <4> QED
        BY <4>3, <4>4
    <3>7. f[n] = f[0] /\ f[0] = 0 /\ f[n] = f[first]
      BY <1>1, <1>3, <2>1, <3>6 DEF Looks
    <3> QED
      BY <3>7
  <2>6. \A m \in wanted : ~ Reaches(nx, first, m)
    BY <2>1, <2>4
  <2> QED
    BY <2>5, <2>6 DEF FirstOf
<1> QED
  BY <1>4, <1>5

\* So does inchain, whose recursive function is the only one of its equation.
LEMMA InchainFinds ==
  ASSUME NEW T, sizenode(T) \in Nat, DOMAIN T.node = 1..sizenode(T),
         links(T) \in [1..sizenode(T) -> 0..sizenode(T)], Acyclic(links(T)),
         NEW wanted \in SUBSET (1..sizenode(T)), NEW first \in 1..sizenode(T)
  PROVE  FirstOf(links(T), first, wanted, inchain(T, first, wanted))
<1>1. PICK N : N = sizenode(T)
  OBVIOUS
<1>2. PICK nx : nx = links(T)
  OBVIOUS
<1>3. N \in Nat /\ nx \in [1..N -> 0..N] /\ Acyclic(nx) /\ wanted \in SUBSET (1..N) /\ first \in 1..N
  BY <1>1, <1>2
<1>4. \A n \in 1..N : nx[n] = T.node[n].next
  BY <1>1, <1>2 DEF links
<1> DEFINE Eqn(f) == f = [n \in 0..N |-> IF n \in wanted \cup {0} THEN n ELSE f[T.node[n].next]]
<1>5. PICK h \in [0..N -> 0..N] : Looks(h, nx, wanted)
  BY <1>3, LookExists
<1>6. Eqn(h)
  <2>1. ASSUME NEW n \in 0..N PROVE h[n] = IF n \in wanted \cup {0} THEN n ELSE h[T.node[n].next]
    <3>1. CASE n = 0
      BY <1>5, <3>1 DEF Looks
    <3>2. CASE n # 0
      <4>1. n \in 1..N /\ nx[n] = T.node[n].next
        BY <1>4, <3>2
      <4>2. h[n] = IF n \in wanted THEN n ELSE h[nx[n]]
        BY <1>3, <1>5, <4>1 DEF Looks
      <4> QED
        BY <3>2, <4>1, <4>2
    <3> QED
      BY <3>1, <3>2
  <2>2. h = [n \in 0..N |-> h[n]]
    OBVIOUS
  <2> QED
    BY <2>1, <2>2
<1>7. PICK f : f = CHOOSE x : Eqn(x)
  OBVIOUS
<1>8. Eqn(f)
  BY <1>6, <1>7
<1>9. Looks(f, nx, wanted)
  <2>1. f[0] = 0
    BY <1>3, <1>8
  <2>2. ASSUME NEW n \in 1..N PROVE f[n] = IF n \in wanted THEN n ELSE f[nx[n]]
    <3>1. n \in 0..N /\ n # 0 /\ nx[n] = T.node[n].next
      BY <1>4
    <3>2. f[n] = IF n \in wanted \cup {0} THEN n ELSE f[T.node[n].next]
      BY <1>8, <3>1
    <3> QED
      BY <3>1, <3>2
  <2> QED
    BY <1>3, <2>1, <2>2 DEF Looks
<1>10. inchain(T, first, wanted) = f[first]
  BY <1>1, <1>7 DEF inchain
<1>11. FirstOf(nx, first, wanted, f[first])
  BY <1>3, <1>9, LookFinds
<1> QED
  BY <1>2, <1>10, <1>11

-----------------------------------------------------------------------------
(* What is a table.                                                             *)
Vals   == Values \cup {Nil}
MAXNUMBER == twoto[53] - 1
AnyKey == Keys \cup 0..MAXNUMBER
Nodes  == [key : Keys \cup {Nil}, val : Vals, next : Nat, dead : BOOLEAN]
Tables == [array : Seq(Vals), node : Seq(Nodes), dummy : BOOLEAN, lastfree : Nat, full : BOOLEAN,
           badsizes : BOOLEAN, keys : SUBSET Keys, constructor : BOOLEAN]
Typed(T) ==
  /\ T \in Tables
  /\ sizearray(T) <= MAXASIZE
  /\ sizenode(T) \in {twoto[b] : b \in Nat}
  /\ T.lastfree \in 1..(sizenode(T) + 1)
\* A node is after at most one other, and none that never held a key is in a chain.
Chained(T) ==
  /\ links(T) \in [1..sizenode(T) -> 0..sizenode(T)] /\ Acyclic(links(T))
  /\ \A m, n \in DOMAIN T.node : T.node[m].next = T.node[n].next /\ T.node[n].next # 0 => m = n
  /\ \A n \in DOMAIN T.node : T.node[n].next # 0 =>
       T.node[n].key # Nil /\ T.node[T.node[n].next].key # Nil
\* A key is in the chain of its main position, and what is there is in its own.
Placed(T) ==
  \A n \in DOMAIN T.node : T.node[n].key # Nil =>
    LET m == mainposition(T, T.node[n].key)
    IN Reaches(links(T), m, n) /\ T.node[m].key # Nil /\ mainposition(T, T.node[m].key) = m
\* A key is in one place, and before the dead keys with its address.
Keyed(T) ==
  /\ \A i \in DOMAIN T.array : T.array[i] # Nil => i \in Numbers
  /\ \A n \in DOMAIN T.node :
       /\ T.node[n].key = Nil => ~ T.node[n].dead
       /\ T.node[n].key = Nil \/ T.node[n].dead => T.node[n].val = Nil
       /\ T.node[n].key # Nil => ~ inarray(T, T.node[n].key)
  /\ \A m, n \in DOMAIN T.node :
       T.node[m].key = T.node[n].key /\ T.node[n].key # Nil /\ ~ T.node[m].dead =>
         m = n \/ (T.node[n].dead /\ Reaches(links(T), m, n))
\* From lastfree on there is no free node; dummynode is never written.
Spare(T) ==
  /\ T.dummy => sizenode(T) = 1 /\ T.node[1].key = Nil /\ T.lastfree = 1
  /\ ~ T.dummy => \A n \in DOMAIN T.node : n >= T.lastfree => T.node[n].key # Nil
WellFormed(T) == Typed(T) /\ Chained(T) /\ Placed(T) /\ Keyed(T) /\ Spare(T)

\* The parts of a table have lengths.
LEMMA TableSizes ==
  ASSUME NEW T, Typed(T)
  PROVE  /\ sizearray(T) \in 0..MAXASIZE /\ sizearray(T) \in 0..MAX_INT /\ DOMAIN T.array = 1..sizearray(T)
         /\ sizenode(T) \in Nat \ {0} /\ DOMAIN T.node = 1..sizenode(T)
         /\ \A i \in 1..sizearray(T) : T.array[i] \in Vals
         /\ \A n \in 1..sizenode(T) : T.node[n] \in Nodes
<1>1. T.array \in Seq(Vals) /\ T.node \in Seq(Nodes)
  BY DEF Typed, Tables
<1>2. sizearray(T) \in Nat /\ DOMAIN T.array = 1..sizearray(T) /\ DOMAIN T.node = 1..sizenode(T)
  BY <1>1, LenProperties DEF sizearray, sizenode
<1>3. sizenode(T) \in Nat \ {0}
  <2>1. PICK b \in Nat : sizenode(T) = twoto[b]
    BY DEF Typed
  <2>2. b < twoto[b] /\ twoto[b] \in Nat
    BY TwotoGrows, TwotoRecursion
  <2> QED
    BY <2>1, <2>2
<1>4. sizearray(T) <= MAXASIZE /\ MAXASIZE \in Nat /\ MAXASIZE <= MAX_INT /\ MAX_INT \in Nat
  BY SizesAre DEF Typed
<1>5. \A i \in DOMAIN T.array : T.array[i] \in Vals
  BY <1>1
<1>6. \A n \in DOMAIN T.node : T.node[n] \in Nodes
  BY <1>1
<1> QED
  BY <1>2, <1>3, <1>4, <1>5, <1>6

\* The integers a double holds are the numbers up to the largest one; an int is one.
LEMMA MaxnumberType ==
  /\ MAXNUMBER \in Nat /\ MAX_INT \in Nat /\ MAX_INT < MAXNUMBER
  /\ Numbers \subseteq 0..MAXNUMBER
<1>1. twoto[53] \in Nat /\ 53 < twoto[53]
  BY TwotoRecursion, TwotoGrows
<1>2. ASSUME NEW n \in Nat, isexact(n) PROVE n < twoto[53]
  <2>1. PICK b \in 0..53 : n < twoto[b]
    BY <1>2 DEF isexact
  <2>2. b = 53 \/ 2 * twoto[b] <= twoto[53]
    BY <2>1, TwotoGrows
  <2>3. twoto[b] \in Nat
    BY <2>1, TwotoRecursion
  <2> QED
    BY <1>1, <2>1, <2>2, <2>3
<1>3. MAX_INT \in Nat /\ MAX_INT + 1 \in Nat /\ MAX_INT + 1 < twoto[53]
  BY <1>2, SizesAre
<1>4. ASSUME NEW n \in Numbers PROVE n \in Nat /\ n < twoto[53]
  BY <1>2, KeysAssumption
<1> QED
  BY <1>1, <1>3, <1>4 DEF MAXNUMBER

\* Numbers are told from other keys.
LEMMA KeysDiffer ==
  ASSUME NEW k \in AnyKey
  PROVE  /\ k # Nil
         /\ isnumber(k) <=> k \in 0..MAXNUMBER
         /\ ~ isnumber(k) => (k \in Strings /\ k \notin Objects) \/ (k \in Objects /\ k \notin Strings)
         /\ k \notin 0..MAXNUMBER => k \notin Nat
<1>1. 0..MAXNUMBER \subseteq Nat
  OBVIOUS
<1>2. k \in 0..MAXNUMBER \cup Strings \cup Objects
  BY MaxnumberType DEF AnyKey, Keys
<1> QED
  BY <1>1, <1>2, KeysAssumption DEF isnumber

\* The range of a remainder.
LEMMA ModRange == \A a \in Nat, b \in Nat \ {0} : a % b \in 0..(b - 1)
OBVIOUS

\* The range of a quotient.
LEMMA DivRange == \A a \in Nat, b \in Nat \ {0} : a \div b \in Nat
OBVIOUS

\* The hash of a number is a natural number.
LEMMA HashnumType ==
  ASSUME NEW n \in 1..MAXNUMBER
  PROVE  hashnum(n) \in Nat
<1>1. PICK e : e = log2(n)
  OBVIOUS
<1>2. e \in Nat /\ twoto[e] <= n /\ n \in Nat
  BY <1>1, MaxnumberType, Log2
<1>3. e <= 52
  <2>1. SUFFICES ASSUME e > 52 PROVE FALSE
    BY <1>2
  <2>2. e = 53 \/ 2 * twoto[53] <= twoto[e]
    BY <1>2, <2>1, TwotoGrows
  <2>3. twoto[53] <= twoto[e] /\ twoto[e] \in Nat /\ twoto[53] \in Nat
    BY <1>2, <2>2, TwotoRecursion
  <2>4. n <= twoto[53] - 1
    BY MaxnumberType DEF MAXNUMBER
  <2> QED
    BY <1>2, <2>3, <2>4
<1>4. PICK bits : bits = n - twoto[e]
  OBVIOUS
<1>5. bits \in Nat
  BY <1>2, <1>4, TwotoRecursion
<1>6. \A a, b \in Nat : a * b \in Nat /\ a + b \in Nat
  OBVIOUS
<1>7. PICK high : high = (1023 + e) * twoto[20]
  OBVIOUS
<1>8. high \in Nat
  <2>1. 1023 + e \in Nat /\ twoto[20] \in Nat
    BY <1>2, TwotoRecursion
  <2> QED
    BY <1>6, <1>7, <2>1
<1>9. CASE e <= 20
  <2>1. twoto[20 - e] \in Nat
    BY <1>2, <1>9, TwotoRecursion
  <2>2. bits * twoto[20 - e] \in Nat
    BY <1>5, <1>6, <2>1
  <2>3. hashnum(n) = high + bits * twoto[20 - e]
    BY <1>1, <1>4, <1>7, <1>9 DEF hashnum
  <2> QED
    BY <1>6, <1>8, <2>2, <2>3
<1>10. CASE ~ e <= 20
  <2>1. PICK p : p = twoto[e - 20]
    OBVIOUS
  <2>2. p \in Nat \ {0} /\ twoto[52 - e] \in Nat
    <3>1. e - 20 \in Nat /\ 52 - e \in Nat
      BY <1>2, <1>3, <1>10
    <3>2. p \in Nat /\ e - 20 < p /\ twoto[52 - e] \in Nat
      BY <2>1, <3>1, TwotoRecursion, TwotoGrows
    <3> QED
      BY <3>1, <3>2
  <2>3. bits \div p \in Nat /\ bits % p \in Nat
    <3>1. bits \div p \in Nat
      BY <1>5, <2>2, DivRange
    <3>2. bits % p \in 0..(p - 1)
      BY <1>5, <2>2, ModRange
    <3> QED
      BY <2>2, <3>1, <3>2
  <2>4. PICK low : low = (bits % p) * twoto[52 - e]
    OBVIOUS
  <2>5. low \in Nat
    BY <1>6, <2>2, <2>3, <2>4
  <2>6. high + bits \div p \in Nat
    BY <1>6, <1>8, <2>3
  <2>7. high + bits \div p + low \in Nat
    BY <1>6, <2>5, <2>6
  <2>8. twoto[32] \in Nat \ {0}
    <3>1. 32 < twoto[32] /\ twoto[32] \in Nat
      BY TwotoRecursion, TwotoGrows
    <3> QED
      BY <3>1
  <2>9. hashnum(n) = (high + bits \div p + low) % twoto[32]
    BY <1>1, <1>4, <1>7, <1>10, <2>1, <2>4 DEF hashnum
  <2>10. hashnum(n) \in 0..(twoto[32] - 1)
    BY <2>7, <2>8, <2>9, ModRange
  <2> QED
    BY <2>8, <2>10
<1> QED
  BY <1>9, <1>10

\* A main position is a node, and depends on the number of nodes only.
LEMMA MainpositionType ==
  ASSUME NEW T, sizenode(T) \in Nat \ {0}, NEW k \in AnyKey
  PROVE  mainposition(T, k) \in 1..sizenode(T)
<1>1. PICK N : N = sizenode(T)
  OBVIOUS
<1>2. \A h \in Nat : hashmod(T, h) \in 0..(N - 1)
  <2>1. CASE N = 1
    BY <1>1, <2>1 DEF hashmod
  <2>2. CASE N # 1
    <3>1. N - 1 \in Nat \ {0}
      BY <1>1, <2>2
    <3>2. \A h \in Nat : h % (N - 1) \in 0..(N - 1 - 1)
      BY <3>1, ModRange
    <3> QED
      BY <1>1, <2>2, <3>1, <3>2 DEF hashmod
  <2> QED
    BY <2>1, <2>2
<1>3. CASE k \in Strings
  <2>1. Hash[k] \in Nat
    BY <1>3, KeysAssumption
  <2>2. Hash[k] % N \in 0..(N - 1)
    BY <1>1, <2>1, ModRange
  <2>3. k \notin Objects
    BY <1>3, KeysAssumption
  <2>4. mainposition(T, k) = 1 + (Hash[k] % N)
    BY <1>1, <1>3, <2>3 DEF mainposition
  <2> QED
    BY <1>1, <2>2, <2>4
<1>4. CASE k \in Objects
  <2>1. Address[k] \in Nat /\ k \notin Strings
    BY <1>4, KeysAssumption
  <2>2. hashmod(T, Address[k]) \in 0..(N - 1)
    BY <1>2, <2>1
  <2>3. mainposition(T, k) = 1 + hashmod(T, Address[k])
    BY <1>4, <2>1 DEF mainposition
  <2> QED
    BY <1>1, <2>2, <2>3
<1>5. CASE k \in 0..MAXNUMBER
  <2>1. k \notin Strings /\ k \notin Objects /\ k \in Nat
    BY <1>5, KeysAssumption
  <2>2. mainposition(T, k) = 1 + (IF k = 0 THEN 0 ELSE hashmod(T, hashnum(k)))
    BY <2>1 DEF mainposition
  <2>3. k # 0 => hashnum(k) \in Nat
    BY <1>5, MaxnumberType, HashnumType
  <2>4. k # 0 => hashmod(T, hashnum(k)) \in 0..(N - 1)
    BY <1>2, <2>3
  <2> QED
    BY <1>1, <2>2, <2>4
<1> QED
  BY <1>3, <1>4, <1>5, MaxnumberType DEF AnyKey, Keys

\* The main position of a key depends on the size of the hash part only.
LEMMA MainpositionSame ==
  ASSUME NEW T, NEW U, sizenode(U) = sizenode(T)
  PROVE  \A k : mainposition(U, k) = mainposition(T, k)
BY DEF mainposition, hashmod

-----------------------------------------------------------------------------
(* Looking up a key.                                                            *)
\* A key has a value other than nil, in one of the two parts.
Holds(T, k, v) ==
  IF inarray(T, k) THEN T.array[k] = v
  ELSE \E n \in DOMAIN T.node : T.node[n].key = k /\ T.node[n].val = v

\* The array part has the numbers up to its size.
LEMMA InarrayType ==
  ASSUME NEW T, Typed(T)
  PROVE  /\ \A k : inarray(T, k) => isnumber(k)
         /\ \A k \in AnyKey : inarray(T, k) <=> k \in 1..sizearray(T)
         /\ 1..sizearray(T) \subseteq AnyKey
<1>1. sizearray(T) \in 0..MAX_INT /\ MAX_INT \in Nat /\ MAX_INT < MAXNUMBER /\ MAXNUMBER \in Nat
  BY TableSizes, MaxnumberType
<1>2. ASSUME NEW k \in AnyKey PROVE inarray(T, k) <=> k \in 1..sizearray(T)
  <2>1. CASE k \in 0..MAXNUMBER
    BY <1>1, <2>1, KeysDiffer DEF inarray
  <2>2. CASE k \notin 0..MAXNUMBER
    BY <1>1, <2>2, KeysDiffer DEF inarray
  <2> QED
    BY <2>1, <2>2
<1> QED
  BY <1>1, <1>2 DEF inarray, AnyKey

\* What the nodes of a table are.
LEMMA NodeType ==
  ASSUME NEW T, Typed(T), NEW n \in DOMAIN T.node
  PROVE  /\ T.node[n].key \in Keys \cup {Nil} /\ T.node[n].val \in Vals
         /\ T.node[n].next \in Nat /\ T.node[n].dead \in BOOLEAN
         /\ DOMAIN T.node[n] = {"key", "val", "next", "dead"}
         /\ links(T)[n] = T.node[n].next
<1>1. T.node[n] \in Nodes
  BY TableSizes
<1> QED
  BY <1>1 DEF Nodes, links

\* A key that is not in the array part is looked for where it must be: the node found is
\* the one that has it, unless it is dead.
LEMMA PositionFinds ==
  ASSUME NEW T, WellFormed(T), NEW k \in AnyKey
  PROVE  /\ position(T, k) \in alive(T, k) \/ position(T, k) = 0
         /\ \A n \in alive(T, k) : n = position(T, k)
         /\ position(T, k) \in 0..sizenode(T)
         /\ alive(T, k) \subseteq DOMAIN T.node
<1>1. sizenode(T) \in Nat \ {0} /\ DOMAIN T.node = 1..sizenode(T)
  BY TableSizes DEF WellFormed
<1>2. PICK n : n = position(T, k)
  OBVIOUS
<1>3. FirstOf(links(T), mainposition(T, k), alive(T, k), n)
  <2>1. alive(T, k) \in SUBSET (1..sizenode(T))
    BY <1>1 DEF alive
  <2>2. mainposition(T, k) \in 1..sizenode(T)
    BY <1>1, MainpositionType
  <2>3. links(T) \in [1..sizenode(T) -> 0..sizenode(T)] /\ Acyclic(links(T))
    BY DEF WellFormed, Chained
  <2> QED
    BY <1>1, <1>2, <2>1, <2>2, <2>3, InchainFinds DEF position
<1>4. k # Nil
  BY KeysDiffer
<1>5. ASSUME NEW m \in alive(T, k) PROVE Reaches(links(T), mainposition(T, k), m)
  BY <1>4, <1>5 DEF alive, WellFormed, Placed
<1>6. ASSUME NEW m \in alive(T, k) PROVE m = n
  <2>1. n \in alive(T, k)
    BY <1>3, <1>5, <1>6 DEF FirstOf
  <2> QED
    BY <1>4, <2>1, <1>6 DEF alive, WellFormed, Keyed
<1>7. n \in alive(T, k) \/ n = 0
  BY <1>3 DEF FirstOf
<1>8. alive(T, k) \subseteq 1..sizenode(T)
  BY <1>1 DEF alive
<1> QED
  BY <1>1, <1>2, <1>6, <1>7, <1>8

\* luaH_get returns the value a key has, or nil.
LEMMA GetReturns ==
  ASSUME NEW T, WellFormed(T), NEW k \in AnyKey
  PROVE  /\ luaH_get(T, k) \in Vals
         /\ \A v \in Values : luaH_get(T, k) = v <=> Holds(T, k, v)
<1>1. Nil \notin Values
  BY KeysAssumption
<1>2. CASE inarray(T, k)
  <2>1. k \in 1..sizearray(T)
    BY <1>2, InarrayType DEF WellFormed
  <2>2. T.array[k] \in Vals
    BY <2>1, TableSizes DEF WellFormed
  <2> QED
    BY <1>2, <2>2 DEF luaH_get, Holds
<1>3. CASE ~ inarray(T, k)
  <2>1. PICK n : n = position(T, k)
    OBVIOUS
  <2>2. ASSUME NEW v \in Values, NEW m \in DOMAIN T.node, T.node[m].key = k, T.node[m].val = v
        PROVE  m = n
    <3>1. ~ T.node[m].dead
      BY <1>1, <2>2 DEF WellFormed, Keyed
    <3>2. m \in alive(T, k)
      BY <2>2, <3>1 DEF alive
    <3> QED
      BY <2>1, <3>2, PositionFinds
  <2>3. n \in alive(T, k) \/ n = 0
    BY <2>1, PositionFinds
  <2>4. n = 0 => n \notin DOMAIN T.node
    BY TableSizes DEF WellFormed
  <2>5. luaH_get(T, k) = IF n = 0 THEN Nil ELSE T.node[n].val
    BY <1>3, <2>1 DEF luaH_get
  <2>6. CASE n = 0
    BY <1>1, <1>3, <2>2, <2>4, <2>5, <2>6 DEF Holds, Vals
  <2>7. CASE n # 0
    <3>1. n \in DOMAIN T.node /\ T.node[n].key = k
      BY <2>3, <2>7 DEF alive
    <3>2. T.node[n].val \in Vals
      BY <3>1, NodeType DEF WellFormed
    <3>3. luaH_get(T, k) = T.node[n].val
      BY <2>5, <2>7
    <3>4. \A v \in Values : Holds(T, k, v) <=> T.node[n].val = v
      BY <1>3, <2>2, <3>1 DEF Holds
    <3> QED
      BY <3>2, <3>3, <3>4
  <2> QED
    BY <2>6, <2>7
<1> QED
  BY <1>2, <1>3

\* Two tables that hold the same values are the same to luaH_get.
LEMMA SameValues ==
  ASSUME NEW T, WellFormed(T), NEW U, WellFormed(U), NEW k \in AnyKey,
         \A v \in Values : Holds(T, k, v) <=> Holds(U, k, v)
  PROVE  luaH_get(U, k) = luaH_get(T, k)
<1>1. luaH_get(T, k) \in Vals /\ luaH_get(U, k) \in Vals
  BY GetReturns
<1>2. \A v \in Values : luaH_get(T, k) = v <=> luaH_get(U, k) = v
  BY GetReturns
<1> QED
  BY <1>1, <1>2 DEF Vals

-----------------------------------------------------------------------------
(* Assignments to keys that have a place, and other changes that move no key.   *)
\* A change of values, or of keys that die, keeps a table well formed.
LEMMA SameShape ==
  ASSUME NEW T, WellFormed(T), NEW U, Typed(U),
         sizearray(U) = sizearray(T), sizenode(U) = sizenode(T), U.dummy = T.dummy, U.lastfree = T.lastfree,
         \A i \in 1..sizearray(T) : U.array[i] # Nil => i \in Numbers,
         \A n \in 1..sizenode(T) :
           /\ U.node[n].key = T.node[n].key /\ U.node[n].next = T.node[n].next
           /\ T.node[n].dead => U.node[n].dead
           /\ U.node[n].key = Nil => ~ U.node[n].dead
           /\ U.node[n].key = Nil \/ U.node[n].dead => U.node[n].val = Nil
  PROVE  WellFormed(U)
<1>1. /\ DOMAIN T.node = 1..sizenode(T) /\ DOMAIN U.node = 1..sizenode(T)
      /\ DOMAIN T.array = 1..sizearray(T) /\ DOMAIN U.array = 1..sizearray(T)
  BY TableSizes DEF WellFormed
<1>2. links(U) = links(T)
  BY <1>1 DEF links
<1>3. \A k : mainposition(U, k) = mainposition(T, k)
  BY MainpositionSame
<1>4. \A k : inarray(U, k) <=> inarray(T, k)
  BY DEF inarray
<1>5. Chained(U)
  <2>1. links(U) \in [1..sizenode(U) -> 0..sizenode(U)] /\ Acyclic(links(U))
    BY <1>2 DEF WellFormed, Chained
  <2>2. \A m, n \in 1..sizenode(T) : U.node[m].next = U.node[n].next /\ U.node[n].next # 0 => m = n
    BY <1>1 DEF WellFormed, Chained
  <2>3. ASSUME NEW n \in 1..sizenode(T), U.node[n].next # 0
        PROVE  U.node[n].key # Nil /\ U.node[U.node[n].next].key # Nil
    <3>1. T.node[n].next \in 1..sizenode(T)
      <4>1. links(T)[n] \in 0..sizenode(T) /\ links(T)[n] = T.node[n].next
        BY <1>1 DEF WellFormed, Chained, links
      <4> QED
        BY <2>3, <4>1
    <3> QED
      BY <1>1, <2>3, <3>1 DEF WellFormed, Chained
  <2> QED
    BY <1>1, <2>1, <2>2, <2>3 DEF Chained
<1>6. Placed(U)
  <2>1. ASSUME NEW n \in 1..sizenode(T), U.node[n].key # Nil
        PROVE  LET m == mainposition(U, U.node[n].key)
               IN Reaches(links(U), m, n) /\ U.node[m].key # Nil /\ mainposition(U, U.node[m].key) = m
    <3>1. PICK m : m = mainposition(T, T.node[n].key)
      OBVIOUS
    <3>2. Reaches(links(T), m, n) /\ T.node[m].key # Nil /\ mainposition(T, T.node[m].key) = m
      BY <1>1, <2>1, <3>1 DEF WellFormed, Placed
    <3>3. T.node[n].key \in AnyKey
      BY <1>1, <2>1, NodeType DEF WellFormed, AnyKey
    <3>4. m \in 1..sizenode(T)
      BY <3>1, <3>3, TableSizes, MainpositionType DEF WellFormed
    <3> QED
      BY <1>2, <1>3, <2>1, <3>1, <3>2, <3>4
  <2> QED
    BY <1>1, <2>1 DEF Placed
<1>7. Keyed(U)
  <2>1. \A m, n \in 1..sizenode(T) :
          U.node[m].key = U.node[n].key /\ U.node[n].key # Nil /\ ~ U.node[m].dead =>
            m = n \/ (U.node[n].dead /\ Reaches(links(U), m, n))
    BY <1>1, <1>2 DEF WellFormed, Keyed
  <2>2. \A n \in 1..sizenode(T) : U.node[n].key # Nil => ~ inarray(U, U.node[n].key)
    BY <1>1, <1>4 DEF WellFormed, Keyed
  <2> QED
    BY <1>1, <2>1, <2>2 DEF Keyed
<1>8. Spare(U)
  BY <1>1, TableSizes DEF WellFormed, Spare
<1> QED
  BY <1>5, <1>6, <1>7, <1>8 DEF WellFormed

\* A key has a new value, and the others the ones they had.
Assigns(T, U, k, v) ==
  \A j \in AnyKey, w \in Values : Holds(U, j, w) <=> IF j = k THEN w = v ELSE Holds(T, j, w)
\* A step that changes no size.
SameSizes(T, U) ==
  /\ sizearray(U) = sizearray(T) /\ sizenode(U) = sizenode(T) /\ U.dummy = T.dummy
  /\ U.badsizes = T.badsizes /\ U.keys = T.keys /\ U.constructor = T.constructor

\* Where a key exists: in the array part, or in the only node that has it and is not dead.
LEMMA ExistsMeans ==
  ASSUME NEW T, WellFormed(T), NEW k \in AnyKey
  PROVE  found(T, k) <=> inarray(T, k) \/ alive(T, k) # {}
<1>1. 0 \notin alive(T, k)
  BY TableSizes DEF WellFormed, alive
<1> QED
  BY <1>1, PositionFinds DEF found

\* An assignment changes the value of its key only.
LEMMA AssignAssigns ==
  ASSUME NEW T, WellFormed(T), NEW k \in Keys, NEW v \in Vals, found(T, k),
         NEW U, U = assign(T, k, v)
  PROVE  /\ WellFormed(U) /\ Assigns(T, U, k, v) /\ SameSizes(T, U) /\ U.full = T.full
         /\ U.lastfree = T.lastfree
         /\ \A n \in 1..sizenode(T) : U.node[n].key = T.node[n].key /\ U.node[n].dead = T.node[n].dead
                                      /\ U.node[n].next = T.node[n].next
<1>1. k \in AnyKey /\ k # Nil
  BY KeysDiffer DEF AnyKey
<1>2. /\ Typed(T) /\ T \in Tables /\ DOMAIN T.node = 1..sizenode(T) /\ sizenode(T) \in Nat
      /\ DOMAIN T.array = 1..sizearray(T) /\ sizearray(T) \in Nat
      /\ T.array \in Seq(Vals) /\ T.node \in Seq(Nodes)
      /\ \A i \in 1..sizearray(T) : T.array[i] \in Vals
      /\ \A n \in 1..sizenode(T) : T.node[n] \in Nodes
      /\ Len(T.array) = sizearray(T) /\ Len(T.node) = sizenode(T)
  BY TableSizes DEF WellFormed, Typed, Tables, sizearray, sizenode
<1>3. CASE inarray(T, k)
  <2>1. k \in 1..sizearray(T) /\ isnumber(k)
    BY <1>1, <1>2, <1>3, InarrayType
  <2>2. PICK a : a = [T.array EXCEPT ![k] = v]
    OBVIOUS
  <2>3. U = [T EXCEPT !.array = a]
    BY <1>3, <2>2 DEF assign
  <2>4. U.array = a /\ U.node = T.node /\ U.dummy = T.dummy /\ U.lastfree = T.lastfree /\ U.full = T.full
        /\ U.badsizes = T.badsizes /\ U.keys = T.keys /\ U.constructor = T.constructor
    BY <1>2, <2>3 DEF Tables
  <2>5. a \in Seq(Vals) /\ Len(a) = sizearray(T)
    BY <1>2, <2>1, <2>2
  <2>6. sizearray(U) = sizearray(T) /\ sizenode(U) = sizenode(T)
    BY <2>4, <2>5 DEF sizearray, sizenode
  <2>7. Typed(U)
    <3>1. U \in Tables
      BY <1>2, <2>3, <2>5 DEF Tables
    <3> QED
      BY <1>2, <2>4, <2>6, <3>1 DEF Typed
  <2>8. k \in Numbers
    BY <2>1 DEF Keys, isnumber
  <2>9. \A i \in 1..sizearray(T) : U.array[i] = IF i = k THEN v ELSE T.array[i]
    BY <1>2, <2>2, <2>4
  <2>10. \A i \in 1..sizearray(T) : U.array[i] # Nil => i \in Numbers
    BY <1>2, <2>8, <2>9 DEF WellFormed, Keyed
  <2>11. \A n \in 1..sizenode(T) :
           /\ U.node[n].key = T.node[n].key /\ U.node[n].next = T.node[n].next
           /\ U.node[n].dead = T.node[n].dead
           /\ T.node[n].dead => U.node[n].dead
           /\ U.node[n].key = Nil => ~ U.node[n].dead
           /\ U.node[n].key = Nil \/ U.node[n].dead => U.node[n].val = Nil
    BY <1>2, <2>4 DEF WellFormed, Keyed
  <2>12. WellFormed(U)
    BY <2>4, <2>6, <2>7, <2>10, <2>11, SameShape
  <2>13. Assigns(T, U, k, v)
    <3>1. ASSUME NEW j \in AnyKey, NEW w \in Values
          PROVE  Holds(U, j, w) <=> IF j = k THEN w = v ELSE Holds(T, j, w)
      <4>1. inarray(U, j) <=> inarray(T, j)
        BY <2>6 DEF inarray
      <4>2. inarray(T, j) => j \in 1..sizearray(T)
        BY <1>2, InarrayType
      <4> QED
        BY <1>3, <2>1, <2>4, <2>9, <4>1, <4>2 DEF Holds
    <3> QED
      BY <3>1 DEF Assigns
  <2> QED
    BY <2>4, <2>6, <2>11, <2>12, <2>13 DEF SameSizes
<1>4. CASE ~ inarray(T, k)
  <2>1. PICK p : p = position(T, k)
    OBVIOUS
  <2>2. p \in 1..sizenode(T) /\ T.node[p].key = k /\ ~ T.node[p].dead
    BY <1>1, <1>2, <1>4, <2>1, PositionFinds DEF found, alive
  <2>3. PICK a : a = [T.node EXCEPT ![p].val = v]
    OBVIOUS
  <2>4. U = [T EXCEPT !.node = a]
    BY <1>4, <2>1, <2>3 DEF assign
  <2>5. U.array = T.array /\ U.node = a /\ U.dummy = T.dummy /\ U.lastfree = T.lastfree /\ U.full = T.full
        /\ U.badsizes = T.badsizes /\ U.keys = T.keys /\ U.constructor = T.constructor
    BY <1>2, <2>4 DEF Tables
  <2>6. \A n \in 1..sizenode(T) : a[n] = IF n = p THEN [T.node[p] EXCEPT !.val = v] ELSE T.node[n]
    BY <1>2, <2>2, <2>3
  <2>7. [T.node[p] EXCEPT !.val = v] \in Nodes
    BY <1>2, <2>2 DEF Nodes
  <2>8. a \in Seq(Nodes) /\ Len(a) = sizenode(T)
    BY <1>2, <2>2, <2>3, <2>7
  <2>9. sizearray(U) = sizearray(T) /\ sizenode(U) = sizenode(T)
    BY <2>5, <2>8 DEF sizearray, sizenode
  <2>10. Typed(U)
    <3>1. U \in Tables
      BY <1>2, <2>4, <2>8 DEF Tables
    <3> QED
      BY <1>2, <2>5, <2>9, <3>1 DEF Typed
  <2>11. \A n \in 1..sizenode(T) :
           /\ U.node[n].key = T.node[n].key /\ U.node[n].next = T.node[n].next
           /\ U.node[n].dead = T.node[n].dead
           /\ U.node[n].val = IF n = p THEN v ELSE T.node[n].val
    <3>1. ASSUME NEW n \in 1..sizenode(T)
          PROVE  /\ U.node[n].key = T.node[n].key /\ U.node[n].next = T.node[n].next
                 /\ U.node[n].dead = T.node[n].dead
                 /\ U.node[n].val = IF n = p THEN v ELSE T.node[n].val
      <4>1. T.node[n] \in Nodes /\ T.node[p] \in Nodes
        BY <1>2, <2>2
      <4> QED
        BY <2>5, <2>6, <4>1 DEF Nodes
    <3> QED
      BY <3>1
  <2>12. WellFormed(U)
    <3>1. \A i \in 1..sizearray(T) : U.array[i] # Nil => i \in Numbers
      BY <1>2, <2>5 DEF WellFormed, Keyed
    <3>2. \A n \in 1..sizenode(T) :
            /\ U.node[n].key = T.node[n].key /\ U.node[n].next = T.node[n].next
            /\ T.node[n].dead => U.node[n].dead
            /\ U.node[n].key = Nil => ~ U.node[n].dead
            /\ U.node[n].key = Nil \/ U.node[n].dead => U.node[n].val = Nil
      BY <1>1, <1>2, <2>2, <2>11 DEF WellFormed, Keyed
    <3> QED
      BY <2>5, <2>9, <2>10, <3>1, <3>2, SameShape
  <2>13. Assigns(T, U, k, v)
    <3>1. ASSUME NEW j \in AnyKey, NEW w \in Values
          PROVE  Holds(U, j, w) <=> IF j = k THEN w = v ELSE Holds(T, j, w)
      <4>1. inarray(U, j) <=> inarray(T, j)
        BY <2>9 DEF inarray
      <4>2. DOMAIN U.node = 1..sizenode(T)
        BY <2>9, <2>10, TableSizes
      <4>3. w # Nil
        BY KeysAssumption
      <4>4. CASE j = k
        <5>1. ASSUME NEW n \in 1..sizenode(T), U.node[n].key = k, U.node[n].val = w PROVE n = p
          <6>1. ~ U.node[n].dead
            BY <2>12, <4>2, <4>3, <5>1 DEF WellFormed, Keyed
          <6> QED
            BY <1>1, <1>2, <2>2, <2>11, <5>1, <6>1 DEF WellFormed, Keyed
        <5>2. U.node[p].key = k /\ U.node[p].val = v
          BY <2>2, <2>11
        <5> QED
          BY <1>4, <2>2, <4>1, <4>2, <4>4, <5>1, <5>2 DEF Holds
      <4>5. CASE j # k
        <5>1. CASE inarray(T, j)
          BY <2>5, <4>1, <4>5, <5>1 DEF Holds
        <5>2. CASE ~ inarray(T, j)
          BY <1>2, <2>2, <2>11, <4>1, <4>2, <4>5, <5>2 DEF Holds
        <5> QED
          BY <5>1, <5>2
      <4> QED
        BY <4>4, <4>5
    <3> QED
      BY <3>1 DEF Assigns
  <2> QED
    BY <2>5, <2>9, <2>11, <2>12, <2>13 DEF SameSizes
<1> QED
  BY <1>3, <1>4

-----------------------------------------------------------------------------
(* The insertion of a new key.                                                  *)
\* The free position is the last node that never held a key; dummynode has none.
LEMMA FreePos ==
  ASSUME NEW T, WellFormed(T)
  PROVE  /\ getfreepos(T) = 0 \/ (/\ getfreepos(T) \in 1..sizenode(T) /\ ~ T.dummy
                                  /\ getfreepos(T) < T.lastfree
                                  /\ T.node[getfreepos(T)].key = Nil
                                  /\ \A x \in 1..sizenode(T) : x >= getfreepos(T) /\ x # getfreepos(T) => T.node[x].key # Nil)
         /\ getfreepos(T) = 0 /\ ~ T.dummy => \A x \in 1..sizenode(T) : T.node[x].key # Nil
<1>1. /\ sizenode(T) \in Nat \ {0} /\ DOMAIN T.node = 1..sizenode(T) /\ T.lastfree \in 1..(sizenode(T) + 1)
      /\ T.dummy \in BOOLEAN
  BY TableSizes DEF WellFormed, Typed, Tables
<1>2. PICK A : A = {0} \cup {n \in 1..(T.lastfree - 1) : T.node[n].key = Nil}
  OBVIOUS
<1>3. A \subseteq 0..sizenode(T) /\ A # {}
  BY <1>1, <1>2
<1>4. PICK n : n = Max(A)
  OBVIOUS
<1>5. n \in A /\ \A m \in A : n >= m
  BY <1>1, <1>3, <1>4, MaxIsGreatest
<1>6. getfreepos(T) = n
  BY <1>2, <1>4 DEF getfreepos
<1>7. ASSUME NEW x \in 1..sizenode(T), x >= n, x # n, ~ T.dummy PROVE T.node[x].key # Nil
  <2>1. CASE x >= T.lastfree
    BY <1>1, <1>7, <2>1 DEF WellFormed, Spare
  <2>2. CASE ~ x >= T.lastfree
    <3>1. x \in 1..(T.lastfree - 1)
      BY <1>1, <2>2
    <3>2. x \notin A
      BY <1>3, <1>5, <1>7
    <3> QED
      BY <1>2, <3>1, <3>2
  <2> QED
    BY <2>1, <2>2
<1>8. n # 0 => /\ n \in 1..sizenode(T) /\ n < T.lastfree /\ T.node[n].key = Nil /\ ~ T.dummy
  <2>1. ASSUME n # 0 PROVE n \in 1..(T.lastfree - 1) /\ T.node[n].key = Nil
    BY <1>2, <1>5, <2>1
  <2>2. T.dummy => T.lastfree = 1
    BY DEF WellFormed, Spare
  <2> QED
    BY <1>1, <2>1, <2>2
<1>9. n = 0 /\ ~ T.dummy => \A x \in 1..sizenode(T) : T.node[x].key # Nil
  BY <1>1, <1>7
<1> QED
  BY <1>6, <1>7, <1>8, <1>9

\* What the links of the nodes are.
LEMMA LinkType ==
  ASSUME NEW T, Typed(T), Chained(T)
  PROVE  /\ links(T) \in [1..sizenode(T) -> 0..sizenode(T)] /\ Acyclic(links(T))
         /\ \A n \in 1..sizenode(T) : links(T)[n] = T.node[n].next /\ T.node[n].next \in 0..sizenode(T)
         /\ \A n \in 1..sizenode(T) : T.node[n].next # n
<1>1. DOMAIN T.node = 1..sizenode(T)
  BY TableSizes
<1>2. links(T) \in [1..sizenode(T) -> 0..sizenode(T)] /\ Acyclic(links(T))
  BY DEF Chained
<1>3. ASSUME NEW n \in 1..sizenode(T) PROVE links(T)[n] = T.node[n].next /\ T.node[n].next \in 0..sizenode(T)
  <2>1. links(T)[n] = T.node[n].next
    BY <1>1 DEF links
  <2>2. links(T)[n] \in 0..sizenode(T)
    BY <1>2
  <2> QED
    BY <2>1, <2>2
<1>4. ASSUME NEW n \in 1..sizenode(T), T.node[n].next = n PROVE FALSE
  <2>1. PICK r \in [1..sizenode(T) -> Nat \ {0}] : \A m \in 1..sizenode(T) : links(T)[m] # 0 => r[links(T)[m]] < r[m]
    BY <1>2 DEF Acyclic, Ranks
  <2>2. links(T)[n] = n /\ n # 0
    BY <1>3, <1>4
  <2>3. r[n] < r[n] /\ r[n] \in Nat
    BY <2>1, <2>2
  <2> QED
    BY <2>3
<1> QED
  BY <1>2, <1>3, <1>4

\* A table with other nodes, as many as before.
WithNodes(T, l, a) == [T EXCEPT !.lastfree = l, !.node = a]
\* The nodes of a table are others.
LEMMA NewNodes ==
  ASSUME NEW T, Typed(T), NEW a \in Seq(Nodes), Len(a) = sizenode(T), NEW l \in 1..(sizenode(T) + 1),
         NEW U, U = WithNodes(T, l, a)
  PROVE  /\ Typed(U) /\ SameSizes(T, U) /\ U.array = T.array /\ U.node = a /\ U.lastfree = l
         /\ U.full = T.full /\ DOMAIN U.node = 1..sizenode(T)
<1>1. T \in Tables
  BY DEF Typed
<1>2. /\ U.array = T.array /\ U.node = a /\ U.lastfree = l /\ U.full = T.full /\ U.dummy = T.dummy
      /\ U.badsizes = T.badsizes /\ U.keys = T.keys /\ U.constructor = T.constructor
  BY <1>1 DEF Tables, WithNodes
<1>3. sizenode(T) \in Nat
  BY TableSizes
<1>4. U \in Tables
  <2>1. l \in Nat
    BY <1>3
  <2> QED
    BY <1>1, <2>1 DEF Tables, WithNodes
<1>5. sizearray(U) = sizearray(T) /\ sizenode(U) = sizenode(T)
  BY <1>2 DEF sizearray, sizenode
<1>6. Typed(U)
  BY <1>2, <1>4, <1>5 DEF Typed
<1>7. DOMAIN U.node = 1..sizenode(T)
  BY <1>5, <1>6, TableSizes
<1> QED
  BY <1>2, <1>5, <1>6, <1>7 DEF SameSizes

\* A node p got a new key; the other nodes are, elsewhere perhaps, those there were, in
\* the order they had in their chains.
Moves(T, U, k, v, p, s) ==
  /\ U.node[p].key = k /\ U.node[p].val = v /\ ~ U.node[p].dead
  /\ \A x \in 1..sizenode(T) : x # p =>
       /\ U.node[x].key = T.node[s[x]].key /\ U.node[x].val = T.node[s[x]].val
       /\ U.node[x].dead = T.node[s[x]].dead
  /\ \A x, y \in 1..sizenode(T) : x # p /\ y # p /\ s[x] = s[y] => x = y
  /\ \A y \in 1..sizenode(T) : T.node[y].val # Nil => \E x \in 1..sizenode(T) : x # p /\ s[x] = y
  /\ \A x, y \in 1..sizenode(T) :
       x # p /\ y # p /\ U.node[x].key # Nil /\ U.node[y].key # Nil
       /\ Reaches(links(T), s[x], s[y]) => Reaches(links(U), x, y)
  /\ \A x \in 1..sizenode(T) : x # p /\ U.node[x].key = k => Reaches(links(U), p, x)

\* A table is still a map after such a change.
LEMMA Inserted ==
  ASSUME NEW T, WellFormed(T), NEW U, Typed(U), U.array = T.array, sizenode(U) = sizenode(T),
         NEW k \in Keys, ~ found(T, k), NEW v \in Vals, NEW p \in 1..sizenode(T),
         NEW s \in [1..sizenode(T) -> 1..sizenode(T)], Moves(T, U, k, v, p, s)
  PROVE  Keyed(U) /\ Assigns(T, U, k, v)
<1> USE DEF Moves
<1>1. k \in AnyKey /\ k # Nil
  BY KeysDiffer DEF AnyKey
<1>2. /\ Typed(T) /\ DOMAIN T.node = 1..sizenode(T) /\ DOMAIN U.node = 1..sizenode(T)
      /\ DOMAIN T.array = 1..sizearray(T) /\ DOMAIN U.array = 1..sizearray(T)
      /\ sizearray(U) = sizearray(T)
  BY TableSizes DEF WellFormed, sizearray
<1>3. \A j : inarray(U, j) <=> inarray(T, j)
  BY <1>2 DEF inarray
<1>4. ~ inarray(T, k) /\ \A n \in 1..sizenode(T) : T.node[n].key = k => T.node[n].dead
  BY <1>1, <1>2, ExistsMeans DEF alive
<1>5. ASSUME NEW x \in 1..sizenode(T), x # p, U.node[x].key = k PROVE U.node[x].dead /\ U.node[x].val = Nil
  <2>1. s[x] \in 1..sizenode(T) /\ U.node[x].key = T.node[s[x]].key
        /\ U.node[x].dead = T.node[s[x]].dead /\ U.node[x].val = T.node[s[x]].val
    BY <1>5
  <2>2. T.node[s[x]].dead
    BY <1>4, <1>5, <2>1
  <2> QED
    BY <1>2, <2>1, <2>2 DEF WellFormed, Keyed
<1>6. Keyed(U)
  <2>1. ASSUME NEW n \in 1..sizenode(T)
        PROVE  /\ U.node[n].key = Nil => ~ U.node[n].dead
               /\ U.node[n].key = Nil \/ U.node[n].dead => U.node[n].val = Nil
               /\ U.node[n].key # Nil => ~ inarray(U, U.node[n].key)
    <3>1. CASE n = p
      BY <1>1, <1>3, <1>4, <3>1
    <3>2. CASE n # p
      <4>1. s[n] \in 1..sizenode(T) /\ U.node[n].key = T.node[s[n]].key
            /\ U.node[n].val = T.node[s[n]].val /\ U.node[n].dead = T.node[s[n]].dead
        BY <3>2
      <4> QED
        BY <1>2, <1>3, <4>1 DEF WellFormed, Keyed
    <3> QED
      BY <3>1, <3>2
  <2>2. ASSUME NEW m \in 1..sizenode(T), NEW n \in 1..sizenode(T), U.node[m].key = U.node[n].key,
               U.node[n].key # Nil, ~ U.node[m].dead
        PROVE  m = n \/ (U.node[n].dead /\ Reaches(links(U), m, n))
    <3>1. CASE m = p /\ n # p
      BY <1>5, <2>2, <3>1
    <3>2. CASE m # p /\ n = p
      BY <1>5, <2>2, <3>2
    <3>3. CASE m # p /\ n # p
      <4>1. s[m] \in 1..sizenode(T) /\ s[n] \in 1..sizenode(T)
        OBVIOUS
      <4>2. /\ U.node[m].key = T.node[s[m]].key /\ U.node[m].dead = T.node[s[m]].dead
            /\ U.node[n].key = T.node[s[n]].key /\ U.node[n].dead = T.node[s[n]].dead
        BY <3>3
      <4>3. s[m] = s[n] \/ (T.node[s[n]].dead /\ Reaches(links(T), s[m], s[n]))
        <5>1. \A b, c \in 1..sizenode(T) :
                T.node[b].key = T.node[c].key /\ T.node[c].key # Nil /\ ~ T.node[b].dead =>
                  b = c \/ (T.node[c].dead /\ Reaches(links(T), b, c))
          BY <1>2 DEF WellFormed, Keyed
        <5>2. T.node[s[m]].key = T.node[s[n]].key /\ T.node[s[n]].key # Nil /\ ~ T.node[s[m]].dead
          BY <2>2, <4>2
        <5> QED
          BY <4>1, <5>1, <5>2
      <4> QED
        BY <2>2, <3>3, <4>2, <4>3
    <3> QED
      BY <3>1, <3>2, <3>3
  <2>3. \A i \in 1..sizearray(T) : U.array[i] # Nil => i \in Numbers
    BY <1>2 DEF WellFormed, Keyed
  <2> QED
    BY <1>2, <2>1, <2>2, <2>3 DEF Keyed
<1>7. ASSUME NEW j \in AnyKey, NEW w \in Values
      PROVE  Holds(U, j, w) <=> IF j = k THEN w = v ELSE Holds(T, j, w)
  <2>1. w # Nil
    BY KeysAssumption
  <2>2. CASE inarray(T, j)
    BY <1>3, <1>4, <2>2 DEF Holds
  <2>3. CASE ~ inarray(T, j) /\ j = k
    <3>1. ASSUME NEW n \in 1..sizenode(T), U.node[n].key = k, U.node[n].val = w PROVE n = p
      BY <1>5, <2>1, <3>1
    <3> QED
      BY <1>2, <1>3, <2>3, <3>1 DEF Holds
  <2>4. CASE ~ inarray(T, j) /\ j # k
    <3>1. ASSUME NEW n \in 1..sizenode(T), U.node[n].key = j, U.node[n].val = w
          PROVE  \E m \in 1..sizenode(T) : T.node[m].key = j /\ T.node[m].val = w
      <4>1. n # p
        BY <2>4, <3>1
      <4>2. s[n] \in 1..sizenode(T) /\ U.node[n].key = T.node[s[n]].key /\ U.node[n].val = T.node[s[n]].val
        BY <4>1
      <4> QED
        BY <3>1, <4>2
    <3>2. ASSUME NEW m \in 1..sizenode(T), T.node[m].key = j, T.node[m].val = w
          PROVE  \E n \in 1..sizenode(T) : U.node[n].key = j /\ U.node[n].val = w
      <4>1. PICK n \in 1..sizenode(T) : n # p /\ s[n] = m
        BY <2>1, <3>2
      <4>2. U.node[n].key = T.node[s[n]].key /\ U.node[n].val = T.node[s[n]].val
        BY <4>1
      <4> QED
        BY <3>2, <4>1, <4>2
    <3> QED
      BY <1>2, <1>3, <2>4, <3>1, <3>2 DEF Holds
  <2> QED
    BY <2>2, <2>3, <2>4
<1> QED
  BY <1>6, <1>7 DEF Assigns

\* A place for a new key is found: its main position is free, or there is a free one.
Fits(T, k) == ~ collides(T, mainposition(T, k)) \/ getfreepos(T) # 0
\* What placing a key does to the table.
Inserts(T, U, k, v) ==
  /\ WellFormed(U) /\ SameSizes(T, U) /\ U.full = T.full /\ Assigns(T, U, k, v)
  /\ \A x \in 1..sizenode(T) :
       \/ U.node[x].key = k /\ ~ U.node[x].dead
       \/ U.node[x].key = Nil
       \/ \E y \in 1..sizenode(T) : U.node[x].key = T.node[y].key /\ U.node[x].dead = T.node[y].dead

\* The main position is free: it has no key, or one whose value is nil.
LEMMA PlaceFree ==
  ASSUME NEW T, WellFormed(T), NEW k \in Keys, ~ found(T, k), NEW v \in Vals,
         ~ collides(T, mainposition(T, k)), NEW U, U = place(T, k, v)
  PROVE  Inserts(T, U, k, v)
<1>1. k \in AnyKey /\ k # Nil
  BY KeysDiffer DEF AnyKey
<1>3. /\ Typed(T) /\ Chained(T) /\ DOMAIN T.node = 1..sizenode(T) /\ sizenode(T) \in Nat \ {0}
      /\ T.node \in Seq(Nodes) /\ Len(T.node) = sizenode(T) /\ T.lastfree \in 1..(sizenode(T) + 1)
      /\ \A n \in 1..sizenode(T) : T.node[n] \in Nodes
  BY TableSizes DEF WellFormed, Typed, Tables, sizenode
<1>4. PICK p : p = mainposition(T, k)
  OBVIOUS
<1>5. p \in 1..sizenode(T)
  BY <1>1, <1>3, <1>4, MainpositionType
<1>6. T.node[p].val = Nil /\ ~ T.dummy
  BY <1>4 DEF collides
<1>7. PICK new : new = [T.node[p] EXCEPT !.key = k, !.val = v, !.dead = FALSE]
  OBVIOUS
<1>8. new \in Nodes /\ new.key = k /\ new.val = v /\ new.dead = FALSE /\ new.next = T.node[p].next
  BY <1>3, <1>5, <1>7 DEF Nodes
<1>9. PICK a : a = [T.node EXCEPT ![p] = new]
  OBVIOUS
<1>10. a \in Seq(Nodes) /\ Len(a) = sizenode(T) /\ \A n \in 1..sizenode(T) : a[n] = IF n = p THEN new ELSE T.node[n]
  BY <1>3, <1>5, <1>8, <1>9
<1>11. U = [T EXCEPT !.lastfree = T.lastfree, !.node = a]
  <2>1. U = [T EXCEPT !.node = a]
    BY <1>4, <1>7, <1>9 DEF place, fill
  <2>2. T \in Tables
    BY <1>3 DEF Typed
  <2> QED
    BY <2>1, <2>2 DEF Tables
<1>12. /\ Typed(U) /\ SameSizes(T, U) /\ U.array = T.array /\ U.node = a /\ U.lastfree = T.lastfree
       /\ U.full = T.full /\ DOMAIN U.node = 1..sizenode(T)
  <2>1. PICK l : l = T.lastfree
    OBVIOUS
  <2>2. Len(a) = sizenode(T) /\ l \in 1..(sizenode(T) + 1) /\ Typed(T) /\ a \in Seq(Nodes)
    BY <1>3, <1>10, <2>1
  <2>3. U = WithNodes(T, l, a)
    BY <1>11, <2>1 DEF WithNodes
  <2> QED
    BY <2>1, <2>2, <2>3, NewNodes
<1>13. \A n \in 1..sizenode(T) : U.node[n].next = T.node[n].next
  BY <1>8, <1>10, <1>12
<1>14. links(U) = links(T)
  BY <1>3, <1>12, <1>13 DEF links
<1>15. sizenode(U) = sizenode(T) /\ sizearray(U) = sizearray(T)
  BY <1>12 DEF SameSizes
<1>16. \A j : mainposition(U, j) = mainposition(T, j)
  BY <1>15, MainpositionSame
<1>17. \A n \in 1..sizenode(T) : n # p => U.node[n] = T.node[n]
  BY <1>10, <1>12
<1>18. U.node[p].key = k /\ U.node[p].val = v /\ ~ U.node[p].dead
  BY <1>5, <1>8, <1>10, <1>12
<1>19. Chained(U)
  <2>1. links(U) \in [1..sizenode(T) -> 0..sizenode(T)] /\ Acyclic(links(U))
    BY <1>3, <1>14, LinkType
  <2>2. \A m, n \in 1..sizenode(T) : U.node[m].next = U.node[n].next /\ U.node[n].next # 0 => m = n
    BY <1>3, <1>13 DEF Chained
  <2>3. ASSUME NEW n \in 1..sizenode(T), U.node[n].next # 0 PROVE U.node[n].key # Nil /\ U.node[U.node[n].next].key # Nil
    <3>1. T.node[n].next \in 1..sizenode(T)
      BY <1>3, <1>13, <2>3, LinkType
    <3>2. T.node[n].key # Nil /\ T.node[T.node[n].next].key # Nil
      BY <1>3, <1>13, <2>3 DEF Chained
    <3> QED
      BY <1>1, <1>13, <1>17, <1>18, <3>1, <3>2
  <2> QED
    BY <1>12, <1>15, <2>1, <2>2, <2>3 DEF Chained
<1>20. Placed(U)
  <2>1. ASSUME NEW n \in 1..sizenode(T), U.node[n].key # Nil
        PROVE  LET m == mainposition(U, U.node[n].key)
               IN Reaches(links(U), m, n) /\ U.node[m].key # Nil /\ mainposition(U, U.node[m].key) = m
    <3>1. PICK m : m = mainposition(T, U.node[n].key)
      OBVIOUS
    <3>2. CASE n = p
      <4>1. m = p
        BY <1>4, <1>18, <3>1, <3>2
      <4>2. Reaches(links(U), p, p)
        BY <1>3, <1>5, <1>14, LinkType, ReachesSteps
      <4> QED
        BY <1>1, <1>4, <1>16, <1>18, <3>1, <3>2, <4>1, <4>2
    <3>3. CASE n # p
      <4>1. U.node[n].key = T.node[n].key
        BY <1>17, <3>3
      <4>2. Reaches(links(T), m, n) /\ T.node[m].key # Nil /\ mainposition(T, T.node[m].key) = m
        BY <1>3, <2>1, <3>1, <4>1 DEF WellFormed, Placed
      <4>3. T.node[n].key \in AnyKey
        BY <1>3, <2>1, <4>1, NodeType DEF AnyKey
      <4>4. m \in 1..sizenode(T)
        BY <1>3, <3>1, <4>1, <4>3, MainpositionType
      <4>5. U.node[m].key # Nil /\ mainposition(T, U.node[m].key) = m
        BY <1>1, <1>4, <1>17, <1>18, <4>2, <4>4
      <4> QED
        BY <1>14, <1>16, <3>1, <4>2, <4>5
    <3> QED
      BY <3>2, <3>3
  <2> QED
    BY <1>12, <2>1 DEF Placed
<1>21. Spare(U)
  <2>1. U.dummy = T.dummy
    BY <1>12 DEF SameSizes
  <2>2. \A n \in 1..sizenode(T) : n >= T.lastfree => U.node[n].key # Nil
    BY <1>1, <1>3, <1>6, <1>17, <1>18 DEF WellFormed, Spare
  <2> QED
    BY <1>6, <1>12, <2>1, <2>2 DEF Spare
<1>22. Keyed(U) /\ Assigns(T, U, k, v)
  <2>1. PICK s : s = [x \in 1..sizenode(T) |-> x]
    OBVIOUS
  <2>2. s \in [1..sizenode(T) -> 1..sizenode(T)] /\ \A x \in 1..sizenode(T) : s[x] = x
    BY <2>1
  <2>3. \A x \in 1..sizenode(T) : x # p =>
            /\ U.node[x].key = T.node[s[x]].key /\ U.node[x].val = T.node[s[x]].val
            /\ U.node[x].dead = T.node[s[x]].dead
    BY <1>17, <2>2
  <2>4. \A x, y \in 1..sizenode(T) : x # p /\ y # p /\ s[x] = s[y] => x = y
    BY <2>2
  <2>5. \A y \in 1..sizenode(T) : T.node[y].val # Nil => \E x \in 1..sizenode(T) : x # p /\ s[x] = y
    BY <1>6, <2>2
  <2>6. \A x, y \in 1..sizenode(T) : x # p /\ y # p /\ U.node[x].key # Nil /\ U.node[y].key # Nil
            /\ Reaches(links(T), s[x], s[y]) => Reaches(links(U), x, y)
    BY <1>14, <2>2
  <2>7. \A x \in 1..sizenode(T) : x # p /\ U.node[x].key = k => Reaches(links(U), p, x)
    BY <1>1, <1>3, <1>4, <1>14, <1>17 DEF WellFormed, Placed
  <2>8. Moves(T, U, k, v, p, s)
    BY <1>18, <2>3, <2>4, <2>5, <2>6, <2>7 DEF Moves
  <2> QED
    BY <1>5, <1>12, <1>15, <2>2, <2>8, Inserted
<1>23. \A x \in 1..sizenode(T) : \/ U.node[x].key = k /\ ~ U.node[x].dead
                       \/ U.node[x].key = Nil
                       \/ \E y \in 1..sizenode(T) : U.node[x].key = T.node[y].key /\ U.node[x].dead = T.node[y].dead
  BY <1>17, <1>18
<1> QED
  BY <1>12, <1>19, <1>20, <1>21, <1>22, <1>23 DEF Inserts, WellFormed

\* What a chain leads to, another one leads to when each link of the first has a path in it.
LEMMA ReachesMap ==
  ASSUME NEW N \in Nat, NEW nx \in [1..N -> 0..N], NEW ny \in [1..N -> 0..N],
         NEW f \in [1..N -> 1..N], NEW D \in SUBSET (1..N),
         \A x \in D : nx[x] # 0 => nx[x] \in D /\ Reaches(ny, f[x], f[nx[x]]),
         NEW a \in D, NEW b \in 1..N, Reaches(nx, a, b)
  PROVE  Reaches(ny, f[a], f[b])
<1>1. PICK Q : Q = {x \in D : Reaches(ny, f[a], f[x])}
  OBVIOUS
<1>2. a \in Q
  BY <1>1, ReachesSteps
<1>3. ASSUME NEW x \in Q, nx[x] # 0 PROVE nx[x] \in Q
  <2>1. x \in D /\ Reaches(ny, f[a], f[x]) /\ nx[x] \in D /\ Reaches(ny, f[x], f[nx[x]])
    BY <1>1, <1>3
  <2>2. f[a] \in 1..N /\ f[x] \in 1..N /\ f[nx[x]] \in 1..N
    BY <2>1
  <2>3. Reaches(ny, f[a], f[nx[x]])
    BY <2>1, <2>2, ReachesSteps
  <2> QED
    BY <1>1, <2>1, <2>3
<1>4. b \in Q
  <2>1. Q \in SUBSET DOMAIN nx /\ Follows(nx, Q)
    BY <1>1, <1>3 DEF Follows
  <2> QED
    BY <1>2, <2>1 DEF Reaches
<1> QED
  BY <1>1, <1>4

\* A node that collides and the free one are two, and both can be written.
LEMMA Colliding ==
  ASSUME NEW T, WellFormed(T), NEW k \in Keys, NEW p, p = mainposition(T, k), collides(T, p),
         NEW n, n = getfreepos(T), n # 0
  PROVE  /\ p \in 1..sizenode(T) /\ n \in 1..sizenode(T) /\ n # p
         /\ ~ T.dummy /\ n < T.lastfree /\ n \in 1..(sizenode(T) + 1)
         /\ T.node[p].val # Nil /\ T.node[p].key # Nil /\ ~ T.node[p].dead
         /\ T.node[n].key = Nil /\ T.node[n].val = Nil /\ T.node[n].next = 0
         /\ \A x \in 1..sizenode(T) : T.node[x].next # n
         /\ \A x \in 1..sizenode(T) : x >= n /\ x # n => T.node[x].key # Nil
<1>1. k \in AnyKey /\ k # Nil
  BY KeysDiffer DEF AnyKey
<1>2. Typed(T) /\ Chained(T) /\ DOMAIN T.node = 1..sizenode(T) /\ sizenode(T) \in Nat \ {0}
  BY TableSizes DEF WellFormed
<1>3. p \in 1..sizenode(T)
  BY <1>1, <1>2, MainpositionType
<1>4. /\ n \in 1..sizenode(T) /\ ~ T.dummy /\ n < T.lastfree /\ T.node[n].key = Nil
      /\ \A x \in 1..sizenode(T) : x >= n /\ x # n => T.node[x].key # Nil
  BY FreePos
<1>5. T.node[p].val # Nil
  BY <1>4 DEF collides
<1>6. T.node[p].key # Nil /\ ~ T.node[p].dead
  BY <1>2, <1>3, <1>5 DEF WellFormed, Keyed
<1>7. T.node[n].val = Nil
  BY <1>2, <1>4 DEF WellFormed, Keyed
<1>8. T.node[n].next = 0 /\ \A x \in 1..sizenode(T) : T.node[x].next # n
  <2>1. ASSUME NEW x \in 1..sizenode(T), T.node[x].next = n PROVE FALSE
    <3>1. n # 0 /\ T.node[x].next # 0
      BY <2>1
    <3>2. T.node[T.node[x].next].key # Nil
      BY <1>2, <3>1 DEF Chained
    <3> QED
      BY <1>4, <2>1, <3>2
  <2>2. T.node[n].next = 0
    BY <1>2, <1>4 DEF Chained
  <2> QED
    BY <2>1, <2>2
<1>9. n \in 1..(sizenode(T) + 1) /\ n # p
  BY <1>2, <1>4, <1>6
<1> QED
  BY <1>3, <1>4, <1>5, <1>6, <1>7, <1>8, <1>9

\* The colliding node is in its main position: the key goes to the free node, after it.
LEMMA PlaceAfter ==
  ASSUME NEW T, WellFormed(T), NEW k \in Keys, ~ found(T, k), NEW v \in Vals,
         NEW p, p = mainposition(T, k), collides(T, p), ~ outofplace(T, p),
         NEW n, n = getfreepos(T), n # 0, NEW U, U = place(T, k, v)
  PROVE  Inserts(T, U, k, v)
<1>1. k \in AnyKey /\ k # Nil
  BY KeysDiffer DEF AnyKey
<1>2. /\ Typed(T) /\ Chained(T) /\ DOMAIN T.node = 1..sizenode(T) /\ sizenode(T) \in Nat \ {0}
      /\ T.node \in Seq(Nodes) /\ Len(T.node) = sizenode(T)
      /\ \A x \in 1..sizenode(T) : T.node[x] \in Nodes
  BY TableSizes DEF WellFormed, Typed, Tables, sizenode
<1>3. /\ p \in 1..sizenode(T) /\ n \in 1..sizenode(T) /\ n # p
      /\ ~ T.dummy /\ n < T.lastfree /\ n \in 1..(sizenode(T) + 1)
      /\ T.node[p].val # Nil /\ T.node[p].key # Nil /\ ~ T.node[p].dead
      /\ T.node[n].key = Nil /\ T.node[n].val = Nil /\ T.node[n].next = 0
      /\ \A x \in 1..sizenode(T) : T.node[x].next # n
      /\ \A x \in 1..sizenode(T) : x >= n /\ x # n => T.node[x].key # Nil
  BY Colliding
<1>4. mainposition(T, T.node[p].key) = p
  BY DEF outofplace
<1>5. PICK new : new = fill([emptynode EXCEPT !.next = T.node[p].next], k, v)
  OBVIOUS
<1>6. new \in Nodes /\ new.key = k /\ new.val = v /\ new.dead = FALSE /\ new.next = T.node[p].next
  BY <1>2, <1>3, <1>5 DEF Nodes, fill, emptynode
<1>7. PICK old0 : old0 = [T.node[p] EXCEPT !.next = n]
  OBVIOUS
<1>8. /\ old0 \in Nodes /\ old0.key = T.node[p].key /\ old0.val = T.node[p].val
      /\ old0.dead = T.node[p].dead /\ old0.next = n
  <2>1. n \in Nat /\ T.node[p] \in Nodes
    BY <1>2, <1>3
  <2> QED
    BY <1>7, <2>1 DEF Nodes
<1>9. PICK a : a = chainafter(T, p, n, k, v)
  OBVIOUS
<1>10. /\ a \in Seq(Nodes) /\ Len(a) = sizenode(T)
       /\ \A x \in 1..sizenode(T) : a[x] = IF x = n THEN new ELSE IF x = p THEN old0 ELSE T.node[x]
  <2>1. PICK b : b = [T.node EXCEPT ![n] = new]
    OBVIOUS
  <2>2. b \in Seq(Nodes) /\ Len(b) = sizenode(T) /\ \A x \in 1..sizenode(T) : b[x] = IF x = n THEN new ELSE T.node[x]
    BY <1>2, <1>3, <1>6, <2>1
  <2>3. a = [b EXCEPT ![p] = [b[p] EXCEPT !.next = n]]
    BY <1>5, <1>9, <2>1 DEF chainafter
  <2>4. a = [b EXCEPT ![p] = old0]
    BY <1>3, <1>7, <2>2, <2>3
  <2> QED
    BY <1>3, <1>8, <2>2, <2>4
<1>11. U = WithNodes(T, n, a)
  BY <1>9 DEF place, WithNodes
<1>12. /\ Typed(U) /\ SameSizes(T, U) /\ U.array = T.array /\ U.node = a /\ U.lastfree = n
       /\ U.full = T.full /\ DOMAIN U.node = 1..sizenode(T)
  BY <1>2, <1>3, <1>10, <1>11, NewNodes
<1>13. U.node[n].key = k /\ U.node[n].val = v /\ ~ U.node[n].dead /\ U.node[n].next = T.node[p].next
  BY <1>3, <1>6, <1>10, <1>12
<1>14. /\ U.node[p].key = T.node[p].key /\ U.node[p].val = T.node[p].val
       /\ U.node[p].dead = T.node[p].dead /\ U.node[p].next = n
  BY <1>3, <1>8, <1>10, <1>12
<1>15. \A x \in 1..sizenode(T) : x # n /\ x # p => U.node[x] = T.node[x]
  BY <1>10, <1>12
<1>16. \A x \in 1..sizenode(T) : x # n =>
         U.node[x].key = T.node[x].key /\ U.node[x].val = T.node[x].val /\ U.node[x].dead = T.node[x].dead
  BY <1>14, <1>15
<1>17. sizenode(U) = sizenode(T) /\ U.dummy = T.dummy
  BY <1>12 DEF SameSizes
<1>18. \A j : mainposition(U, j) = mainposition(T, j)
  BY <1>17, MainpositionSame
<1>19. PICK nx : nx = links(T)
  OBVIOUS
<1>20. PICK ny : ny = links(U)
  OBVIOUS
<1>21. /\ nx \in [1..sizenode(T) -> 0..sizenode(T)]
       /\ \A x \in 1..sizenode(T) : nx[x] = T.node[x].next /\ T.node[x].next \in 0..sizenode(T)
       /\ \A x \in 1..sizenode(T) : nx[x] # x
  BY <1>2, <1>19, LinkType
<1>22. /\ ny \in [1..sizenode(T) -> 0..sizenode(T)] /\ ny[n] = nx[p] /\ ny[p] = n
       /\ \A x \in 1..sizenode(T) : x # n /\ x # p => ny[x] = nx[x]
       /\ \A x \in 1..sizenode(T) : ny[x] = U.node[x].next
  <2>1. ny = [x \in 1..sizenode(T) |-> U.node[x].next]
    BY <1>12, <1>20 DEF links
  <2>2. \A x \in 1..sizenode(T) : ny[x] = U.node[x].next
    BY <2>1
  <2>3. ny[n] = nx[p] /\ ny[p] = n /\ \A x \in 1..sizenode(T) : x # n /\ x # p => ny[x] = nx[x]
    BY <1>3, <1>13, <1>14, <1>15, <1>21, <2>2
  <2>4. ASSUME NEW x \in 1..sizenode(T) PROVE U.node[x].next \in 0..sizenode(T)
    <3>1. n \in 0..sizenode(T) /\ T.node[x].next \in 0..sizenode(T) /\ T.node[p].next \in 0..sizenode(T)
      BY <1>3, <1>21
    <3> QED
      BY <1>13, <1>14, <1>15, <3>1
  <2> QED
    BY <2>1, <2>2, <2>3, <2>4
<1>23. Acyclic(ny)
  <2>1. PICK r \in [1..sizenode(T) -> Nat \ {0}] : \A x \in 1..sizenode(T) : nx[x] # 0 => r[nx[x]] < r[x]
    BY <1>2, <1>19, <1>21 DEF Chained, Acyclic, Ranks
  <2>2. PICK q : q = [x \in 1..sizenode(T) |-> IF x = n THEN 2 * r[p] - 1 ELSE 2 * r[x]]
    OBVIOUS
  <2>3. \A x \in 1..sizenode(T) : r[x] \in Nat \ {0} /\ 2 * r[x] - 1 \in Nat \ {0} /\ 2 * r[x] \in Nat \ {0}
    BY <2>1
  <2>4. q \in [1..sizenode(T) -> Nat \ {0}]
    BY <1>3, <2>2, <2>3
  <2>5. ASSUME NEW x \in 1..sizenode(T), ny[x] # 0 PROVE q[ny[x]] < q[x]
    <3>1. CASE x = n
      <4>1. nx[p] # 0 /\ nx[p] \in 1..sizenode(T) /\ nx[p] # n
        BY <1>3, <1>21, <1>22, <2>5, <3>1
      <4>2. r[nx[p]] < r[p] /\ r[nx[p]] \in Nat /\ r[p] \in Nat
        BY <1>3, <2>1, <4>1
      <4>3. q[ny[x]] = 2 * r[nx[p]] /\ q[x] = 2 * r[p] - 1
        BY <1>22, <2>2, <3>1, <4>1
      <4> QED
        BY <4>2, <4>3
    <3>2. CASE x = p
      <4>1. q[ny[x]] = 2 * r[p] - 1 /\ q[x] = 2 * r[p] /\ r[p] \in Nat
        BY <1>3, <1>22, <2>1, <2>2, <3>2
      <4> QED
        BY <4>1
    <3>3. CASE x # n /\ x # p
      <4>1. ny[x] = nx[x] /\ nx[x] # 0 /\ nx[x] \in 1..sizenode(T) /\ nx[x] # n
        BY <1>3, <1>21, <1>22, <2>5, <3>3
      <4>2. r[nx[x]] < r[x] /\ r[nx[x]] \in Nat /\ r[x] \in Nat
        BY <2>1, <4>1
      <4>3. q[ny[x]] = 2 * r[nx[x]] /\ q[x] = 2 * r[x]
        BY <2>2, <3>3, <4>1
      <4> QED
        BY <4>2, <4>3
    <3> QED
      BY <3>1, <3>2, <3>3
  <2>6. q \in Ranks(ny)
    BY <1>22, <2>4, <2>5 DEF Ranks
  <2> QED
    BY <2>6 DEF Acyclic
<1>24. Chained(U)
  <2>1. ASSUME NEW x \in 1..sizenode(T), NEW y \in 1..sizenode(T), ny[x] = ny[y], ny[y] # 0 PROVE x = y
    <3>1. \A z, w \in 1..sizenode(T) : nx[z] = nx[w] /\ nx[w] # 0 => z = w
      BY <1>2, <1>21 DEF Chained
    <3>2. \A z \in 1..sizenode(T) : nx[z] # n
      BY <1>3, <1>21
    <3> QED
      BY <1>3, <1>22, <2>1, <3>1, <3>2
  <2>2. ASSUME NEW x \in 1..sizenode(T), ny[x] # 0 PROVE U.node[x].key # Nil /\ U.node[ny[x]].key # Nil
    <3>1. \A z \in 1..sizenode(T) : nx[z] # 0 => T.node[z].key # Nil /\ T.node[nx[z]].key # Nil /\ nx[z] \in 1..sizenode(T)
      <4>1. ASSUME NEW z \in 1..sizenode(T), nx[z] # 0
            PROVE  T.node[z].key # Nil /\ T.node[nx[z]].key # Nil /\ nx[z] \in 1..sizenode(T)
        <5>1. nx[z] = T.node[z].next /\ nx[z] \in 0..sizenode(T)
          BY <1>21
        <5>2. nx[z] \in 1..sizenode(T)
          BY <1>2, <4>1, <5>1
        <5>3. T.node[z].next # 0 /\ z \in DOMAIN T.node
          BY <1>2, <4>1, <5>1
        <5>4. T.node[z].key # Nil /\ T.node[T.node[z].next].key # Nil
          BY <1>2, <5>3 DEF Chained
        <5> QED
          BY <5>1, <5>2, <5>4
      <4> QED
        BY <4>1
    <3>2. \A z \in 1..sizenode(T) : T.node[z].key # Nil => U.node[z].key # Nil
      BY <1>3, <1>16
    <3>3. U.node[n].key # Nil /\ U.node[p].key # Nil
      BY <1>1, <1>3, <1>13, <1>14
    <3> QED
      BY <1>3, <1>22, <2>2, <3>1, <3>2, <3>3
  <2> QED
    BY <1>12, <1>17, <1>20, <1>22, <1>23, <2>1, <2>2 DEF Chained
<1>25. \A x, y \in 1..sizenode(T) : Reaches(nx, x, y) => Reaches(ny, x, y)
  <2>1. PICK f : f = [x \in 1..sizenode(T) |-> x]
    OBVIOUS
  <2>2. PICK D : D = 1..sizenode(T)
    OBVIOUS
  <2>3. ASSUME NEW x \in D, nx[x] # 0 PROVE nx[x] \in D /\ Reaches(ny, f[x], f[nx[x]])
    <3>1. x \in 1..sizenode(T) /\ nx[x] \in 1..sizenode(T) /\ f[x] = x /\ f[nx[x]] = nx[x]
      BY <1>21, <2>1, <2>2, <2>3
    <3>2. \A z \in 1..sizenode(T) : ny[z] # 0 => Reaches(ny, z, ny[z]) /\ ny[z] \in 1..sizenode(T)
      <4>1. ASSUME NEW z \in 1..sizenode(T), ny[z] # 0 PROVE Reaches(ny, z, ny[z]) /\ ny[z] \in 1..sizenode(T)
        <5>1. ny[z] \in 0..sizenode(T) /\ sizenode(T) \in Nat
          BY <1>2, <1>22
        <5>2. Reaches(ny, z, z)
          BY <1>22, <5>1, ReachesSteps
        <5>3. Reaches(ny, z, ny[z])
          BY <1>22, <4>1, <5>1, <5>2, ReachesSteps
        <5> QED
          BY <4>1, <5>1, <5>3
      <4> QED
        BY <4>1
    <3>3. CASE x = p
      <4>1. Reaches(ny, p, n) /\ Reaches(ny, n, nx[p])
        BY <1>3, <1>22, <2>3, <3>2, <3>3
      <4>2. Reaches(ny, p, nx[p])
        BY <1>2, <1>3, <1>22, <3>1, <3>3, <4>1, ReachesSteps
      <4> QED
        BY <2>2, <3>1, <3>3, <4>2
    <3>4. CASE x # p
      <4>1. x # n
        BY <1>3, <1>21, <2>3, <3>1
      <4>2. ny[x] = nx[x]
        BY <1>22, <3>1, <3>4, <4>1
      <4> QED
        BY <2>2, <2>3, <3>1, <3>2, <4>2
    <3> QED
      BY <3>3, <3>4
  <2>4. ASSUME NEW x \in 1..sizenode(T), NEW y \in 1..sizenode(T), Reaches(nx, x, y) PROVE Reaches(ny, x, y)
    <3>1. f \in [1..sizenode(T) -> 1..sizenode(T)] /\ D \in SUBSET (1..sizenode(T)) /\ x \in D /\ sizenode(T) \in Nat
      BY <1>2, <2>1, <2>2
    <3>2. Reaches(ny, f[x], f[y])
      BY <1>21, <1>22, <2>3, <2>4, <3>1, ReachesMap
    <3> QED
      BY <2>1, <3>2
  <2> QED
    BY <2>4
<1>26. Reaches(ny, p, n)
  BY <1>2, <1>3, <1>22, ReachesSteps
<1>27. Placed(U)
  <2>1. ASSUME NEW x \in 1..sizenode(T), U.node[x].key # Nil
        PROVE  LET m == mainposition(U, U.node[x].key)
               IN Reaches(ny, m, x) /\ U.node[m].key # Nil /\ mainposition(U, U.node[m].key) = m
    <3>1. PICK m : m = mainposition(T, U.node[x].key)
      OBVIOUS
    <3>2. CASE x = n
      BY <1>3, <1>4, <1>13, <1>14, <1>18, <1>26, <3>2
    <3>3. CASE x # n
      <4>1. U.node[x].key = T.node[x].key
        BY <1>16, <3>3
      <4>2. Reaches(nx, m, x) /\ T.node[m].key # Nil /\ mainposition(T, T.node[m].key) = m
        BY <1>2, <1>19, <2>1, <3>1, <4>1 DEF WellFormed, Placed
      <4>3. T.node[x].key \in AnyKey
        BY <1>2, <2>1, <4>1, NodeType DEF AnyKey
      <4>4. m \in 1..sizenode(T)
        BY <1>2, <3>1, <4>1, <4>3, MainpositionType
      <4>5. U.node[m].key = T.node[m].key
        BY <1>3, <1>16, <4>2, <4>4
      <4> QED
        BY <1>18, <1>25, <3>1, <4>2, <4>4, <4>5
    <3> QED
      BY <3>2, <3>3
  <2> QED
    BY <1>12, <1>20, <2>1 DEF Placed
<1>28. Spare(U)
  <2>1. ASSUME NEW x \in 1..sizenode(T), x >= n PROVE U.node[x].key # Nil
    <3>1. CASE x = n
      BY <1>1, <1>13, <3>1
    <3>2. CASE x # n
      BY <1>3, <1>16, <2>1, <3>2
    <3> QED
      BY <3>1, <3>2
  <2> QED
    BY <1>3, <1>12, <1>17, <2>1 DEF Spare
<1>29. Keyed(U) /\ Assigns(T, U, k, v)
  <2>1. PICK s : s = [x \in 1..sizenode(T) |-> x]
    OBVIOUS
  <2>2. s \in [1..sizenode(T) -> 1..sizenode(T)] /\ \A x \in 1..sizenode(T) : s[x] = x
    BY <2>1
  <2>3. \A x \in 1..sizenode(T) : x # n =>
            /\ U.node[x].key = T.node[s[x]].key /\ U.node[x].val = T.node[s[x]].val
            /\ U.node[x].dead = T.node[s[x]].dead
    BY <1>16, <2>2
  <2>4. \A x, y \in 1..sizenode(T) : x # n /\ y # n /\ s[x] = s[y] => x = y
    BY <2>2
  <2>5. \A y \in 1..sizenode(T) : T.node[y].val # Nil => \E x \in 1..sizenode(T) : x # n /\ s[x] = y
    BY <1>3, <2>2
  <2>6. \A x, y \in 1..sizenode(T) : x # n /\ y # n /\ U.node[x].key # Nil /\ U.node[y].key # Nil
            /\ Reaches(links(T), s[x], s[y]) => Reaches(links(U), x, y)
    BY <1>19, <1>20, <1>25, <2>2
  <2>7. ASSUME NEW x \in 1..sizenode(T), x # n, U.node[x].key = k PROVE Reaches(links(U), n, x)
    <3>1. T.node[x].key = k
      BY <1>16, <2>7
    <3>2. Reaches(nx, p, x)
      BY <1>1, <1>2, <1>19, <3>1 DEF WellFormed, Placed
    <3>3. T.node[x].dead
      <4>1. x \notin alive(T, k)
        BY <1>1, ExistsMeans
      <4> QED
        BY <1>2, <3>1, <4>1 DEF alive
    <3>4. x # p
      BY <1>3, <3>3
    <3>5. nx[p] # 0 /\ Reaches(nx, nx[p], x)
      <4>1. \A y, z \in 1..sizenode(T) : Reaches(nx, y, z) /\ y # z => nx[y] # 0 /\ Reaches(nx, nx[y], z)
        BY <1>2, <1>21, ReachesSteps
      <4> QED
        BY <1>3, <3>2, <3>4, <4>1
    <3>6. nx[p] \in 1..sizenode(T)
      BY <1>3, <1>21, <3>5
    <3>7. Reaches(ny, nx[p], x)
      BY <1>25, <3>5, <3>6
    <3>8. ny[n] # 0 /\ Reaches(ny, n, ny[n])
      BY <1>2, <1>3, <1>22, <3>5, ReachesSteps
    <3>9. Reaches(ny, n, x)
      BY <1>2, <1>3, <1>22, <3>6, <3>7, <3>8, ReachesSteps
    <3> QED
      BY <1>20, <3>9
  <2>8. Moves(T, U, k, v, n, s)
    BY <1>13, <2>3, <2>4, <2>5, <2>6, <2>7 DEF Moves
  <2> QED
    BY <1>3, <1>12, <1>17, <2>2, <2>8, Inserted
<1>30. \A x \in 1..sizenode(T) : \/ U.node[x].key = k /\ ~ U.node[x].dead
                                 \/ U.node[x].key = Nil
                                 \/ \E y \in 1..sizenode(T) : U.node[x].key = T.node[y].key /\ U.node[x].dead = T.node[y].dead
  BY <1>13, <1>16
<1> QED
  BY <1>12, <1>24, <1>27, <1>28, <1>29, <1>30 DEF Inserts, WellFormed

\* A node that another one leads to comes next to one of those on the way.
LEMMA PreviousExists ==
  ASSUME NEW N \in Nat, NEW nx \in [1..N -> 0..N], NEW a \in 1..N, NEW b \in 1..N,
         Reaches(nx, a, b), a # b
  PROVE  \E x \in 1..N : nx[x] = b /\ Reaches(nx, a, x)
<1>1. SUFFICES ASSUME \A x \in 1..N : Reaches(nx, a, x) => nx[x] # b PROVE FALSE
  OBVIOUS
<1>2. PICK P : P = {x \in 1..N : Reaches(nx, a, x) /\ x # b}
  OBVIOUS
<1>3. a \in P
  BY <1>2, ReachesSteps
<1>4. Follows(nx, P)
  <2>1. ASSUME NEW x \in P, nx[x] # 0 PROVE nx[x] \in P
    <3>1. x \in 1..N /\ Reaches(nx, a, x) /\ nx[x] \in 1..N /\ nx[x] # b
      BY <1>1, <1>2, <2>1
    <3>2. Reaches(nx, a, nx[x])
      BY <2>1, <3>1, ReachesSteps
    <3> QED
      BY <1>2, <3>1, <3>2
  <2> QED
    BY <2>1 DEF Follows
<1>5. b \in P
  BY <1>2, <1>3, <1>4 DEF Reaches
<1> QED
  BY <1>2, <1>5

\* The colliding node is out of its main position: it goes to the free node, and the key
\* takes its place.
LEMMA PlaceMoving ==
  ASSUME NEW T, WellFormed(T), NEW k \in Keys, ~ found(T, k), NEW v \in Vals,
         NEW p, p = mainposition(T, k), collides(T, p), outofplace(T, p),
         NEW n, n = getfreepos(T), n # 0, NEW U, U = place(T, k, v)
  PROVE  Inserts(T, U, k, v)
<1>1. k \in AnyKey /\ k # Nil
  BY KeysDiffer DEF AnyKey
<1>2. /\ Typed(T) /\ Chained(T) /\ DOMAIN T.node = 1..sizenode(T) /\ sizenode(T) \in Nat \ {0}
      /\ T.node \in Seq(Nodes) /\ Len(T.node) = sizenode(T)
      /\ \A x \in 1..sizenode(T) : T.node[x] \in Nodes
  BY TableSizes DEF WellFormed, Typed, Tables, sizenode
<1>3. /\ p \in 1..sizenode(T) /\ n \in 1..sizenode(T) /\ n # p
      /\ ~ T.dummy /\ n < T.lastfree /\ n \in 1..(sizenode(T) + 1)
      /\ T.node[p].val # Nil /\ T.node[p].key # Nil /\ ~ T.node[p].dead
      /\ T.node[n].key = Nil /\ T.node[n].val = Nil /\ T.node[n].next = 0
      /\ \A x \in 1..sizenode(T) : T.node[x].next # n
      /\ \A x \in 1..sizenode(T) : x >= n /\ x # n => T.node[x].key # Nil
  BY Colliding
<1>4. PICK o : o = mainposition(T, T.node[p].key)
  OBVIOUS
<1>5. /\ o # p /\ o \in 1..sizenode(T) /\ o # n /\ T.node[o].key # Nil
      /\ mainposition(T, T.node[o].key) = o /\ Reaches(links(T), o, p)
  <2>1. o # p
    BY <1>4 DEF outofplace
  <2>2. T.node[p].key \in AnyKey
    BY <1>2, <1>3, NodeType DEF AnyKey
  <2>3. o \in 1..sizenode(T)
    BY <1>2, <1>4, <2>2, MainpositionType
  <2>4. Reaches(links(T), o, p) /\ T.node[o].key # Nil /\ mainposition(T, T.node[o].key) = o
    BY <1>2, <1>3, <1>4 DEF WellFormed, Placed
  <2> QED
    BY <1>3, <2>1, <2>3, <2>4
<1>6. \A x \in 1..sizenode(T) : T.node[x].key # Nil => mainposition(T, T.node[x].key) # p
  BY <1>2, <1>4, <1>5 DEF WellFormed, Placed
<1>7. PICK nx : nx = links(T)
  OBVIOUS
<1>8. /\ nx \in [1..sizenode(T) -> 0..sizenode(T)] /\ Acyclic(nx)
      /\ \A x \in 1..sizenode(T) : nx[x] = T.node[x].next /\ T.node[x].next \in 0..sizenode(T)
      /\ \A x \in 1..sizenode(T) : nx[x] # x
  BY <1>2, <1>7, LinkType
<1>9. PICK q : q = inchain(T, o, {x \in DOMAIN T.node : T.node[x].next = p})
  OBVIOUS
<1>10. q \in 1..sizenode(T) /\ nx[q] = p
  <2>1. PICK W : W = {x \in DOMAIN T.node : T.node[x].next = p}
    OBVIOUS
  <2>2. W \in SUBSET (1..sizenode(T)) /\ \A x \in 1..sizenode(T) : x \in W <=> nx[x] = p
    BY <1>2, <1>8, <2>1
  <2>3. FirstOf(nx, o, W, q)
    BY <1>2, <1>5, <1>7, <1>8, <1>9, <2>1, <2>2, InchainFinds
  <2>4. PICK x \in 1..sizenode(T) : nx[x] = p /\ Reaches(nx, o, x)
    <3>1. Reaches(nx, o, p) /\ o # p /\ o \in 1..sizenode(T) /\ p \in 1..sizenode(T) /\ sizenode(T) \in Nat
      BY <1>2, <1>3, <1>5, <1>7
    <3> QED
      BY <1>8, <3>1, PreviousExists
  <2>5. q \in W
    BY <2>2, <2>3, <2>4 DEF FirstOf
  <2> QED
    BY <2>2, <2>5
<1>11. /\ q # p /\ q # n /\ T.node[q].key # Nil
       /\ \A x \in 1..sizenode(T) : nx[x] = p => x = q
       /\ \A x \in 1..sizenode(T) : nx[x] # n
       /\ nx[n] = 0
  <2>1. T.node[q].next = p /\ p # 0
    BY <1>3, <1>8, <1>10
  <2>2. T.node[q].key # Nil
    BY <1>2, <1>10, <2>1 DEF Chained
  <2>3. \A x \in 1..sizenode(T) : T.node[x].next = p => x = q
    BY <1>2, <1>10, <2>1 DEF Chained
  <2>4. q # p /\ q # n
    BY <1>3, <1>8, <1>10, <2>2
  <2>5. \A x \in 1..sizenode(T) : nx[x] # n
    BY <1>3, <1>8
  <2>6. \A x \in 1..sizenode(T) : nx[x] = p => x = q
    BY <1>8, <2>3
  <2>7. nx[n] = 0
    BY <1>3, <1>8
  <2> QED
    BY <2>2, <2>4, <2>5, <2>6, <2>7
<1>12. PICK new : new = fill(emptynode, k, v)
  OBVIOUS
<1>13. new \in Nodes /\ new.key = k /\ new.val = v /\ new.dead = FALSE /\ new.next = 0
  BY <1>12 DEF Nodes, fill, emptynode
<1>14. PICK old0 : old0 = [T.node[q] EXCEPT !.next = n]
  OBVIOUS
<1>15. /\ old0 \in Nodes /\ old0.key = T.node[q].key /\ old0.val = T.node[q].val
       /\ old0.dead = T.node[q].dead /\ old0.next = n
  <2>1. n \in Nat /\ T.node[q] \in Nodes
    BY <1>2, <1>3, <1>10
  <2> QED
    BY <1>14, <2>1 DEF Nodes
<1>16. PICK a : a = movecolliding(T, p, n, k, v)
  OBVIOUS
<1>17. /\ a \in Seq(Nodes) /\ Len(a) = sizenode(T)
       /\ \A x \in 1..sizenode(T) : a[x] = IF x = p THEN new ELSE IF x = q THEN old0 ELSE IF x = n THEN T.node[p] ELSE T.node[x]
  <2>1. PICK b : b = [T.node EXCEPT ![n] = T.node[p]]
    OBVIOUS
  <2>2. b \in Seq(Nodes) /\ Len(b) = sizenode(T) /\ \A x \in 1..sizenode(T) : b[x] = IF x = n THEN T.node[p] ELSE T.node[x]
    BY <1>2, <1>3, <2>1
  <2>3. PICK c : c = [b EXCEPT ![q] = old0]
    OBVIOUS
  <2>4. c \in Seq(Nodes) /\ Len(c) = sizenode(T) /\ \A x \in 1..sizenode(T) : c[x] = IF x = q THEN old0 ELSE b[x]
    BY <1>10, <1>15, <2>2, <2>3
  <2>5. b[q] = T.node[q]
    BY <1>10, <1>11, <2>2
  <2>6. a = [[b EXCEPT ![q] = [b[q] EXCEPT !.next = n]] EXCEPT ![p] = new]
    BY <1>4, <1>9, <1>12, <1>16, <2>1 DEF movecolliding
  <2>7. a = [c EXCEPT ![p] = new]
    BY <1>14, <2>3, <2>5, <2>6
  <2> QED
    BY <1>3, <1>13, <2>2, <2>4, <2>7
<1>18. U = WithNodes(T, n, a)
  BY <1>16 DEF place, WithNodes
<1>19. /\ Typed(U) /\ SameSizes(T, U) /\ U.array = T.array /\ U.node = a /\ U.lastfree = n
       /\ U.full = T.full /\ DOMAIN U.node = 1..sizenode(T)
  BY <1>2, <1>3, <1>17, <1>18, NewNodes
<1>20. U.node[p].key = k /\ U.node[p].val = v /\ ~ U.node[p].dead /\ U.node[p].next = 0
  BY <1>3, <1>13, <1>17, <1>19
<1>21. U.node[n] = T.node[p]
  BY <1>3, <1>11, <1>17, <1>19
<1>22. /\ U.node[q].key = T.node[q].key /\ U.node[q].val = T.node[q].val
       /\ U.node[q].dead = T.node[q].dead /\ U.node[q].next = n
  BY <1>10, <1>11, <1>15, <1>17, <1>19
<1>23. \A x \in 1..sizenode(T) : x # n /\ x # p /\ x # q => U.node[x] = T.node[x]
  BY <1>17, <1>19
<1>24. \A x \in 1..sizenode(T) : x # n /\ x # p =>
         U.node[x].key = T.node[x].key /\ U.node[x].val = T.node[x].val /\ U.node[x].dead = T.node[x].dead
  BY <1>22, <1>23
<1>25. sizenode(U) = sizenode(T) /\ U.dummy = T.dummy
  BY <1>19 DEF SameSizes
<1>26. \A j : mainposition(U, j) = mainposition(T, j)
  BY <1>25, MainpositionSame
<1>27. PICK ny : ny = links(U)
  OBVIOUS
<1>28. /\ ny \in [1..sizenode(T) -> 0..sizenode(T)] /\ ny[n] = nx[p] /\ ny[q] = n /\ ny[p] = 0
       /\ \A x \in 1..sizenode(T) : x # n /\ x # p /\ x # q => ny[x] = nx[x]
       /\ \A x \in 1..sizenode(T) : ny[x] = U.node[x].next
  <2>1. ny = [x \in 1..sizenode(T) |-> U.node[x].next]
    BY <1>19, <1>27 DEF links
  <2>2. \A x \in 1..sizenode(T) : ny[x] = U.node[x].next
    BY <2>1
  <2>3. ny[n] = nx[p] /\ ny[q] = n /\ ny[p] = 0
    BY <1>3, <1>8, <1>10, <1>20, <1>21, <1>22, <2>2
  <2>4. \A x \in 1..sizenode(T) : x # n /\ x # p /\ x # q => ny[x] = nx[x]
    BY <1>8, <1>23, <2>2
  <2>5. ASSUME NEW x \in 1..sizenode(T) PROVE U.node[x].next \in 0..sizenode(T)
    <3>1. n \in 0..sizenode(T) /\ 0 \in 0..sizenode(T) /\ nx[x] \in 0..sizenode(T) /\ nx[p] \in 0..sizenode(T)
      BY <1>2, <1>3, <1>8
    <3> QED
      BY <2>2, <2>3, <2>4, <3>1
  <2> QED
    BY <2>1, <2>2, <2>3, <2>4, <2>5
<1>29. Acyclic(ny)
  <2>1. PICK r \in [1..sizenode(T) -> Nat \ {0}] : \A x \in 1..sizenode(T) : nx[x] # 0 => r[nx[x]] < r[x]
    BY <1>8 DEF Acyclic, Ranks
  <2>2. PICK h : h = [x \in 1..sizenode(T) |-> IF x = n THEN r[p] ELSE r[x]]
    OBVIOUS
  <2>3. h \in [1..sizenode(T) -> Nat \ {0}]
    BY <1>3, <2>1, <2>2
  <2>4. ASSUME NEW x \in 1..sizenode(T), ny[x] # 0 PROVE h[ny[x]] < h[x]
    <3>1. CASE x = n
      <4>1. nx[p] # 0 /\ nx[p] \in 1..sizenode(T) /\ nx[p] # n
        BY <1>3, <1>8, <1>11, <1>28, <2>4, <3>1
      <4>2. r[nx[p]] < r[p]
        BY <1>3, <2>1, <4>1
      <4>3. h[ny[x]] = r[nx[p]] /\ h[x] = r[p]
        BY <1>28, <2>2, <3>1, <4>1
      <4> QED
        BY <4>2, <4>3
    <3>2. CASE x = q
      <4>1. r[nx[q]] < r[q] /\ nx[q] = p
        BY <1>3, <1>10, <2>1
      <4>2. h[ny[x]] = r[p] /\ h[x] = r[q]
        BY <1>3, <1>10, <1>11, <1>28, <2>2, <3>2
      <4> QED
        BY <4>1, <4>2
    <3>3. CASE x # n /\ x # q
      <4>1. x # p
        BY <1>28, <2>4
      <4>2. ny[x] = nx[x] /\ nx[x] # 0 /\ nx[x] \in 1..sizenode(T) /\ nx[x] # n
        BY <1>8, <1>11, <1>28, <2>4, <3>3, <4>1
      <4>3. r[nx[x]] < r[x]
        BY <2>1, <4>2
      <4>4. h[ny[x]] = r[nx[x]] /\ h[x] = r[x]
        BY <2>2, <3>3, <4>2
      <4> QED
        BY <4>3, <4>4
    <3> QED
      BY <3>1, <3>2, <3>3
  <2>5. h \in Ranks(ny)
    BY <1>28, <2>3, <2>4 DEF Ranks
  <2> QED
    BY <2>5 DEF Acyclic
<1>30. Chained(U)
  <2>1. ASSUME NEW x \in 1..sizenode(T), NEW y \in 1..sizenode(T), ny[x] = ny[y], ny[y] # 0 PROVE x = y
    <3>1. \A z, w \in 1..sizenode(T) : nx[z] = nx[w] /\ nx[w] # 0 => z = w
      BY <1>2, <1>8 DEF Chained
    <3> QED
      BY <1>3, <1>10, <1>11, <1>28, <2>1, <3>1
  <2>2. ASSUME NEW x \in 1..sizenode(T), ny[x] # 0 PROVE U.node[x].key # Nil /\ U.node[ny[x]].key # Nil
    <3>1. ASSUME NEW z \in 1..sizenode(T), nx[z] # 0
          PROVE  T.node[z].key # Nil /\ T.node[nx[z]].key # Nil /\ nx[z] \in 1..sizenode(T)
      <4>1. nx[z] = T.node[z].next /\ nx[z] \in 1..sizenode(T)
        BY <1>8, <3>1
      <4>2. T.node[z].key # Nil /\ T.node[T.node[z].next].key # Nil
        BY <1>2, <3>1, <4>1 DEF Chained
      <4> QED
        BY <4>1, <4>2
    <3>2. U.node[n].key # Nil /\ U.node[p].key # Nil /\ U.node[q].key # Nil
      BY <1>1, <1>3, <1>11, <1>20, <1>21, <1>22
    <3>3. ASSUME NEW z \in 1..sizenode(T), T.node[z].key # Nil PROVE U.node[z].key # Nil
      <4>1. z # n
        BY <1>3, <3>3
      <4>2. z # p => U.node[z].key = T.node[z].key
        BY <1>24, <4>1
      <4> QED
        BY <3>2, <3>3, <4>2
    <3> QED
      BY <1>3, <1>10, <1>28, <2>2, <3>1, <3>2, <3>3
  <2> QED
    BY <1>19, <1>25, <1>27, <1>28, <1>29, <2>1, <2>2 DEF Chained
<1>31. PICK f : f = [x \in 1..sizenode(T) |-> IF x = p THEN n ELSE x]
  OBVIOUS
<1>32. f \in [1..sizenode(T) -> 1..sizenode(T)] /\ \A x \in 1..sizenode(T) : f[x] = IF x = p THEN n ELSE x
  BY <1>3, <1>31
<1>33. ASSUME NEW x \in 1..sizenode(T), NEW y \in 1..sizenode(T), x # n, Reaches(nx, x, y) PROVE Reaches(ny, f[x], f[y])
  <2>1. PICK D : D = (1..sizenode(T)) \ {n}
    OBVIOUS
  <2>2. ASSUME NEW z \in D, nx[z] # 0 PROVE nx[z] \in D /\ Reaches(ny, f[z], f[nx[z]])
    <3>1. z \in 1..sizenode(T) /\ z # n /\ nx[z] \in 1..sizenode(T) /\ nx[z] # n /\ nx[z] \in D
      BY <1>8, <1>11, <2>1, <2>2
    <3>2. \A w \in 1..sizenode(T) : ny[w] # 0 => Reaches(ny, w, ny[w])
      BY <1>2, <1>28, ReachesSteps
    <3>3. CASE z = p
      <4>1. nx[z] # p /\ f[z] = n /\ f[nx[z]] = nx[z]
        BY <1>8, <1>32, <3>1, <3>3
      <4> QED
        BY <1>3, <1>28, <2>2, <3>1, <3>2, <3>3, <4>1
    <3>4. CASE z = q
      <4>1. f[z] = q /\ f[nx[z]] = n
        BY <1>3, <1>10, <1>11, <1>32, <3>4
      <4> QED
        BY <1>3, <1>10, <1>28, <3>1, <3>2, <4>1
    <3>5. CASE z # p /\ z # q
      <4>1. nx[z] # p /\ f[z] = z /\ f[nx[z]] = nx[z] /\ ny[z] = nx[z]
        BY <1>11, <1>28, <1>32, <3>1, <3>5
      <4> QED
        BY <2>2, <3>1, <3>2, <4>1
    <3> QED
      BY <3>3, <3>4, <3>5
  <2>3. D \in SUBSET (1..sizenode(T)) /\ x \in D /\ sizenode(T) \in Nat
    BY <1>2, <1>33, <2>1
  <2>4. \A z \in D : nx[z] # 0 => nx[z] \in D /\ Reaches(ny, f[z], f[nx[z]])
    BY <2>2
  <2>5. /\ nx \in [1..sizenode(T) -> 0..sizenode(T)] /\ ny \in [1..sizenode(T) -> 0..sizenode(T)]
        /\ f \in [1..sizenode(T) -> 1..sizenode(T)]
    BY <1>8, <1>28, <1>32
  <2> QED
    BY <1>33, <2>3, <2>4, <2>5, ReachesMap
<1>34. Placed(U)
  <2>1. ASSUME NEW x \in 1..sizenode(T), U.node[x].key # Nil
        PROVE  LET m == mainposition(U, U.node[x].key)
               IN Reaches(ny, m, x) /\ U.node[m].key # Nil /\ mainposition(U, U.node[m].key) = m
    <3>1. CASE x = p
      <4>1. Reaches(ny, p, p)
        BY <1>2, <1>3, <1>28, ReachesSteps
      <4> QED
        BY <1>1, <1>20, <1>26, <3>1, <4>1
    <3>2. CASE x # p
      <4>1. PICK y \in 1..sizenode(T) : y # n /\ f[y] = x /\ U.node[x].key = T.node[y].key
        <5>1. CASE x = n
          BY <1>3, <1>21, <1>32, <5>1
        <5>2. CASE x # n
          BY <1>24, <1>32, <3>2, <5>2
        <5> QED
          BY <5>1, <5>2
      <4>2. PICK m : m = mainposition(T, T.node[y].key)
        OBVIOUS
      <4>3. Reaches(nx, m, y) /\ T.node[m].key # Nil /\ mainposition(T, T.node[m].key) = m
        BY <1>2, <1>7, <2>1, <4>1, <4>2 DEF WellFormed, Placed
      <4>4. T.node[y].key \in AnyKey
        BY <1>2, <2>1, <4>1, NodeType DEF AnyKey
      <4>5. m \in 1..sizenode(T)
        BY <1>2, <4>2, <4>4, MainpositionType
      <4>6. m # p /\ m # n
        BY <1>3, <1>6, <2>1, <4>1, <4>2, <4>3
      <4>7. Reaches(ny, m, x)
        BY <1>32, <1>33, <4>1, <4>3, <4>5, <4>6
      <4>8. U.node[m].key = T.node[m].key
        BY <1>24, <4>5, <4>6
      <4> QED
        BY <1>26, <4>1, <4>2, <4>3, <4>7, <4>8
    <3> QED
      BY <3>1, <3>2
  <2> QED
    BY <1>19, <1>27, <2>1 DEF Placed
<1>35. Spare(U)
  <2>1. ASSUME NEW x \in 1..sizenode(T), x >= n PROVE U.node[x].key # Nil
    <3>1. CASE x = n
      BY <1>3, <1>21, <3>1
    <3>2. CASE x = p
      BY <1>1, <1>20, <3>2
    <3>3. CASE x # n /\ x # p
      BY <1>3, <1>24, <2>1, <3>3
    <3> QED
      BY <3>1, <3>2, <3>3
  <2> QED
    BY <1>3, <1>19, <1>25, <2>1 DEF Spare
<1>36. Keyed(U) /\ Assigns(T, U, k, v)
  <2>1. PICK s : s = [x \in 1..sizenode(T) |-> IF x = n THEN p ELSE x]
    OBVIOUS
  <2>2. s \in [1..sizenode(T) -> 1..sizenode(T)] /\ \A x \in 1..sizenode(T) : s[x] = IF x = n THEN p ELSE x
    BY <1>3, <2>1
  <2>3. ASSUME NEW x \in 1..sizenode(T), x # p
        PROVE  /\ U.node[x].key = T.node[s[x]].key /\ U.node[x].val = T.node[s[x]].val
               /\ U.node[x].dead = T.node[s[x]].dead
    <3>1. CASE x = n
      BY <1>21, <2>2, <3>1
    <3>2. CASE x # n
      BY <1>24, <2>2, <2>3, <3>2
    <3> QED
      BY <3>1, <3>2
  <2>4. \A x, y \in 1..sizenode(T) : x # p /\ y # p /\ s[x] = s[y] => x = y
    BY <2>2
  <2>5. ASSUME NEW y \in 1..sizenode(T), T.node[y].val # Nil PROVE \E x \in 1..sizenode(T) : x # p /\ s[x] = y
    <3>1. y # n
      BY <1>3, <2>5
    <3>2. f[y] \in 1..sizenode(T) /\ f[y] # p /\ s[f[y]] = y
      BY <1>3, <1>32, <2>2, <3>1
    <3> QED
      BY <3>2
  <2>6. ASSUME NEW x \in 1..sizenode(T), NEW y \in 1..sizenode(T), x # p, y # p,
               Reaches(links(T), s[x], s[y])
        PROVE  Reaches(links(U), x, y)
    <3>1. s[x] \in 1..sizenode(T) /\ s[y] \in 1..sizenode(T) /\ s[x] # n
      BY <1>3, <2>2
    <3>2. f[s[x]] = x /\ f[s[y]] = y
      BY <1>3, <1>32, <2>2, <2>6
    <3> QED
      BY <1>7, <1>27, <1>33, <2>6, <3>1, <3>2
  <2>7. ASSUME NEW x \in 1..sizenode(T), x # p, U.node[x].key = k PROVE Reaches(links(U), p, x)
    <3>1. s[x] \in 1..sizenode(T) /\ T.node[s[x]].key = k
      BY <2>2, <2>3, <2>7
    <3>2. mainposition(T, T.node[s[x]].key) # p
      BY <1>1, <1>6, <3>1
    <3> QED
      BY <3>1, <3>2
  <2>8. Moves(T, U, k, v, p, s)
    BY <1>20, <2>3, <2>4, <2>5, <2>6, <2>7 DEF Moves
  <2> QED
    BY <1>3, <1>19, <1>25, <2>2, <2>8, Inserted
<1>37. ASSUME NEW x \in 1..sizenode(T)
       PROVE  \/ U.node[x].key = k /\ ~ U.node[x].dead
              \/ U.node[x].key = Nil
              \/ \E y \in 1..sizenode(T) : U.node[x].key = T.node[y].key /\ U.node[x].dead = T.node[y].dead
  BY <1>3, <1>20, <1>21, <1>24
<1> QED
  BY <1>19, <1>30, <1>34, <1>35, <1>36, <1>37 DEF Inserts, WellFormed

\* A key is inserted when there is room, and asks for a rehash when there is not.
LEMMA PlaceInserts ==
  ASSUME NEW T, WellFormed(T), NEW k \in Keys, ~ found(T, k), NEW v \in Vals, NEW U, U = place(T, k, v)
  PROVE  /\ Fits(T, k) => Inserts(T, U, k, v)
         /\ ~ Fits(T, k) => U = [T EXCEPT !.full = TRUE]
<1>1. PICK p : p = mainposition(T, k)
  OBVIOUS
<1>2. PICK n : n = getfreepos(T)
  OBVIOUS
<1>3. CASE ~ Fits(T, k)
  BY <1>1, <1>2, <1>3 DEF place, Fits
<1>4. CASE ~ collides(T, p)
  BY <1>1, <1>4, PlaceFree DEF Fits
<1>5. CASE Fits(T, k) /\ collides(T, p)
  <2>1. n # 0
    BY <1>1, <1>2, <1>5 DEF Fits
  <2>2. CASE outofplace(T, p)
    BY <1>1, <1>2, <1>5, <2>1, <2>2, PlaceMoving
  <2>3. CASE ~ outofplace(T, p)
    BY <1>1, <1>2, <1>5, <2>1, <2>3, PlaceAfter
  <2> QED
    BY <1>5, <2>2, <2>3
<1> QED
  BY <1>3, <1>4, <1>5

-----------------------------------------------------------------------------
(* New parts for a table.                                                       *)
\* A new array part has the elements of the old one that it has a slot for.
LEMMA NewArrayVector ==
  ASSUME NEW T \in Tables, NEW size \in 0..MAXASIZE, NEW U, U = setarrayvector(T, size)
  PROVE  /\ U \in Tables /\ sizearray(U) = size /\ DOMAIN U.array = 1..size
         /\ sizearray(T) \in Nat /\ DOMAIN T.array = 1..sizearray(T)
         /\ \A i \in 1..size : U.array[i] = IF i <= sizearray(T) THEN T.array[i] ELSE Nil
         /\ U.node = T.node /\ U.dummy = T.dummy /\ U.lastfree = T.lastfree /\ U.full = T.full
         /\ U.badsizes = T.badsizes /\ U.keys = T.keys /\ U.constructor = T.constructor
<1>1. PICK a : a = [i \in 1..size |-> IF i <= sizearray(T) THEN T.array[i] ELSE Nil]
  OBVIOUS
<1>2. size \in Nat
  BY SizesAre
<1>3. T.array \in Seq(Vals) /\ Nil \in Vals
  BY DEF Tables, Vals
<1>4. sizearray(T) \in Nat /\ DOMAIN T.array = 1..sizearray(T) /\ \A i \in 1..sizearray(T) : T.array[i] \in Vals
  BY <1>3, LenProperties DEF sizearray
<1>5. a \in Seq(Vals) /\ Len(a) = size
  <2>1. \A i \in 1..size : (IF i <= sizearray(T) THEN T.array[i] ELSE Nil) \in Vals
    BY <1>2, <1>3, <1>4
  <2>2. a \in [1..size -> Vals]
    BY <1>1, <2>1
  <2> QED
    BY <1>2, <2>2
<1>6. U = [T EXCEPT !.array = a]
  BY <1>1 DEF setarrayvector
<1>7. U \in Tables
  BY <1>5, <1>6 DEF Tables
<1>8. /\ U.array = a /\ U.node = T.node /\ U.dummy = T.dummy /\ U.lastfree = T.lastfree /\ U.full = T.full
      /\ U.badsizes = T.badsizes /\ U.keys = T.keys /\ U.constructor = T.constructor
  BY <1>6 DEF Tables
<1>9. DOMAIN U.array = 1..size /\ \A i \in 1..size : U.array[i] = IF i <= sizearray(T) THEN T.array[i] ELSE Nil
  BY <1>1, <1>8
<1> QED
  BY <1>4, <1>5, <1>7, <1>8, <1>9 DEF sizearray

\* A new hash part is empty, has room for the number of keys asked for, and makes the
\* table well formed.
LEMMA NewNodeVector ==
  ASSUME NEW T \in Tables, sizearray(T) <= MAXASIZE, \A i \in DOMAIN T.array : T.array[i] # Nil => i \in Numbers,
         NEW size \in Nat, NEW U, U = setnodevector(T, size)
  PROVE  /\ WellFormed(U) /\ sizearray(U) = sizearray(T) /\ U.array = T.array
         /\ size <= sizenode(U) /\ (U.dummy <=> size = 0)
         /\ DOMAIN U.node = 1..sizenode(U) /\ \A n \in 1..sizenode(U) : U.node[n] = emptynode
         /\ U.full = T.full /\ U.badsizes = T.badsizes /\ U.keys = T.keys /\ U.constructor = T.constructor
<1>1. PICK nodes : nodes = IF size = 0 THEN 1 ELSE twoto[ceillog2(size)]
  OBVIOUS
<1>2. nodes \in {twoto[b] : b \in Nat} /\ nodes \in Nat \ {0} /\ size <= nodes /\ (size = 0 => nodes = 1)
  <2>1. CASE size = 0
    BY <1>1, <2>1, TwotoRecursion
  <2>2. CASE size # 0
    <3>1. PICK e : e = ceillog2(size)
      OBVIOUS
    <3>2. e \in Nat /\ size <= twoto[e]
      BY <2>2, <3>1, Ceillog2
    <3>3. twoto[e] \in Nat
      BY <3>2, TwotoRecursion
    <3> QED
      BY <1>1, <2>2, <3>1, <3>2, <3>3
  <2> QED
    BY <2>1, <2>2
<1>3. PICK a : a = [n \in 1..nodes |-> emptynode]
  OBVIOUS
<1>4. emptynode \in Nodes /\ emptynode.key = Nil /\ emptynode.val = Nil /\ emptynode.next = 0 /\ emptynode.dead = FALSE
  BY DEF emptynode, Nodes, Vals
<1>5. a \in Seq(Nodes) /\ Len(a) = nodes /\ DOMAIN a = 1..nodes /\ \A n \in 1..nodes : a[n] = emptynode
  BY <1>2, <1>3, <1>4
<1>6. PICK l : l = IF size = 0 THEN 1 ELSE nodes + 1
  OBVIOUS
<1>7. l \in Nat /\ l \in 1..(nodes + 1)
  BY <1>2, <1>6
<1>8. PICK d : d = (size = 0)
  OBVIOUS
<1>9. U = [T EXCEPT !.node = a, !.dummy = d, !.lastfree = l]
  BY <1>1, <1>3, <1>6, <1>8 DEF setnodevector
<1>10. /\ U.array = T.array /\ U.node = a /\ U.dummy = d /\ U.lastfree = l /\ U.full = T.full
       /\ U.badsizes = T.badsizes /\ U.keys = T.keys /\ U.constructor = T.constructor
  BY <1>9 DEF Tables
<1>11. sizearray(U) = sizearray(T) /\ sizenode(U) = nodes
  BY <1>5, <1>10 DEF sizearray, sizenode
<1>12. d \in BOOLEAN
  BY <1>8
<1>13. U \in Tables
  BY <1>5, <1>7, <1>9, <1>12 DEF Tables
<1>14. Typed(U)
  BY <1>2, <1>7, <1>10, <1>11, <1>13 DEF Typed
<1>15. DOMAIN U.node = 1..nodes /\ \A n \in 1..nodes : U.node[n] = emptynode
  BY <1>5, <1>10
<1>16. \A n \in 1..nodes : U.node[n].key = Nil /\ U.node[n].val = Nil /\ U.node[n].next = 0 /\ ~ U.node[n].dead
  BY <1>4, <1>15
<1>17. Chained(U)
  <2>1. PICK nx : nx = links(U)
    OBVIOUS
  <2>2. nx = [n \in 1..nodes |-> U.node[n].next]
    BY <1>15, <2>1 DEF links
  <2>3. nx \in [1..nodes -> 0..nodes] /\ \A n \in 1..nodes : nx[n] = 0
    <3>1. \A n \in 1..nodes : U.node[n].next \in 0..nodes
      BY <1>2, <1>16
    <3> QED
      BY <1>16, <2>2, <3>1
  <2>4. PICK r : r = [n \in 1..nodes |-> 1]
    OBVIOUS
  <2>5. r \in Ranks(nx)
    BY <2>3, <2>4 DEF Ranks
  <2> QED
    BY <1>11, <1>15, <1>16, <2>1, <2>3, <2>5 DEF Chained, Acyclic
<1>18. Placed(U)
  BY <1>15, <1>16 DEF Placed
<1>19. Keyed(U)
  BY <1>10, <1>15, <1>16 DEF Keyed
<1>20. Spare(U)
  <2>1. CASE size = 0
    <3>1. nodes = 1 /\ 1 \in 1..nodes
      BY <1>2, <2>1
    <3>2. U.node[1].key = Nil
      BY <1>16, <3>1
    <3>3. U.dummy /\ U.lastfree = 1 /\ sizenode(U) = 1
      BY <1>6, <1>8, <1>10, <1>11, <2>1, <3>1
    <3> QED
      BY <3>2, <3>3 DEF Spare
  <2>2. CASE size # 0
    <3>1. ~ U.dummy /\ U.lastfree = nodes + 1
      BY <1>6, <1>8, <1>10, <2>2
    <3>2. \A n \in 1..nodes : ~ n >= nodes + 1
      BY <1>2
    <3> QED
      BY <1>15, <3>1, <3>2 DEF Spare
  <2> QED
    BY <2>1, <2>2
<1>21. WellFormed(U)
  BY <1>14, <1>17, <1>18, <1>19, <1>20 DEF WellFormed
<1> QED
  BY <1>2, <1>8, <1>10, <1>11, <1>15, <1>21

\* A hash part of nodes that have keys of a set, and has room for all of them.
Roomy(T, K) ==
  /\ IsFiniteSet(K) /\ Cardinality(K) <= sizenode(T) /\ (T.dummy => K = {})
  /\ \A n \in 1..sizenode(T) : ~ T.node[n].dead /\ T.node[n].key \in K \cup {Nil}

\* Then there is a free node for each of them that is not there.
LEMMA RoomyFits ==
  ASSUME NEW T, WellFormed(T), NEW K, Roomy(T, K), NEW k \in Keys, k \in K, ~ found(T, k)
  PROVE  Fits(T, k)
<1>1. SUFFICES ASSUME ~ Fits(T, k) PROVE FALSE
  OBVIOUS
<1>2. k \in AnyKey
  BY DEF AnyKey
<1>3. DOMAIN T.node = 1..sizenode(T) /\ sizenode(T) \in Nat \ {0}
  BY TableSizes DEF WellFormed
<1>4. ~ T.dummy
  BY DEF Roomy
<1>5. \A n \in 1..sizenode(T) : T.node[n].key # Nil
  BY <1>1, <1>4, FreePos DEF Fits
<1>6. PICK L : L = K \ {k}
  OBVIOUS
<1>7. \A n \in 1..sizenode(T) : T.node[n].key \in L
  BY <1>2, <1>3, <1>5, <1>6, ExistsMeans DEF Roomy, alive
<1>8. PICK f : f = [n \in 1..sizenode(T) |-> T.node[n].key]
  OBVIOUS
<1>9. PICK S : S = 1..sizenode(T)
  OBVIOUS
<1>10. f \in [S -> L]
  BY <1>7, <1>8, <1>9
<1>11. IsFiniteSet(L) /\ Cardinality(L) = Cardinality(K) - 1 /\ Cardinality(K) \in Nat
  BY <1>6, FS_RemoveElement, FS_CardinalityType DEF Roomy
<1>12. IsFiniteSet(S) /\ Cardinality(S) = sizenode(T)
  BY <1>3, <1>9, FS_Interval
<1>13. Cardinality(L) < Cardinality(S)
  BY <1>3, <1>11, <1>12 DEF Roomy
<1>14. PICK x \in S, y \in S : x # y /\ f[x] = f[y]
  BY <1>10, <1>11, <1>12, <1>13, FS_PigeonHole
<1>15. T.node[x].key = T.node[y].key /\ x \in 1..sizenode(T) /\ y \in 1..sizenode(T)
  BY <1>8, <1>9, <1>14
<1> QED
  BY <1>3, <1>5, <1>14, <1>15 DEF WellFormed, Keyed, Roomy

\* A flag of a table that no lookup reads.
LEMMA SameTable ==
  ASSUME NEW T, WellFormed(T), NEW U \in Tables,
         U.array = T.array, U.node = T.node, U.dummy = T.dummy, U.lastfree = T.lastfree
  PROVE  /\ WellFormed(U) /\ sizearray(U) = sizearray(T) /\ sizenode(U) = sizenode(T)
         /\ \A k : mainposition(U, k) = mainposition(T, k) /\ inarray(U, k) = inarray(T, k)
         /\ \A k : alive(U, k) = alive(T, k) /\ position(U, k) = position(T, k)
         /\ \A k : found(U, k) = found(T, k) /\ luaH_get(U, k) = luaH_get(T, k)
         /\ \A k, v : Holds(U, k, v) = Holds(T, k, v)
<1>1. sizearray(U) = sizearray(T) /\ sizenode(U) = sizenode(T)
  BY DEF sizearray, sizenode
<1>2. Typed(U)
  BY <1>1 DEF WellFormed, Typed
<1>3. DOMAIN T.node = 1..sizenode(T) /\ DOMAIN T.array = 1..sizearray(T)
  BY TableSizes DEF WellFormed
<1>4. \A i \in 1..sizearray(T) : U.array[i] # Nil => i \in Numbers
  BY <1>3 DEF WellFormed, Keyed
<1>5. \A n \in 1..sizenode(T) :
           /\ U.node[n].key = T.node[n].key /\ U.node[n].next = T.node[n].next
           /\ T.node[n].dead => U.node[n].dead
           /\ U.node[n].key = Nil => ~ U.node[n].dead
           /\ U.node[n].key = Nil \/ U.node[n].dead => U.node[n].val = Nil
  BY <1>3 DEF WellFormed, Keyed
<1>6. WellFormed(U)
  BY <1>1, <1>2, <1>4, <1>5, SameShape
<1>7. \A k : mainposition(U, k) = mainposition(T, k) /\ inarray(U, k) = inarray(T, k)
  BY <1>1, MainpositionSame DEF inarray
<1>8. \A k : alive(U, k) = alive(T, k)
  BY DEF alive
<1>9. \A first, wanted : inchain(U, first, wanted) = inchain(T, first, wanted)
  BY <1>1 DEF inchain
<1>10. \A k : position(U, k) = position(T, k)
  BY <1>7, <1>8, <1>9 DEF position
<1>11. \A k : found(U, k) = found(T, k)
  BY <1>7, <1>10 DEF found
<1>12. ASSUME NEW k PROVE luaH_get(U, k) = luaH_get(T, k)
  BY <1>7, <1>10 DEF luaH_get
<1>13. ASSUME NEW k, NEW v PROVE Holds(U, k, v) = Holds(T, k, v)
  BY <1>7 DEF Holds
<1> QED
  BY <1>1, <1>6, <1>7, <1>8, <1>10, <1>11, <1>12, <1>13

\* An element that is inserted again, in a table with room for it.
LEMMA Reinserts ==
  ASSUME NEW T, WellFormed(T), NEW k \in Keys, NEW v \in Vals, NEW U, U = reinsert(T, k, v)
  PROVE  /\ WellFormed(U) /\ SameSizes(T, U)
         /\ \A K : Roomy(T, K) /\ (k \in K \/ inarray(T, k)) =>
              Assigns(T, U, k, v) /\ Roomy(U, K) /\ U.full = T.full
<1>1. k \in AnyKey /\ k # Nil
  BY KeysDiffer DEF AnyKey
<1>2. DOMAIN T.node = 1..sizenode(T) /\ T \in Tables
  BY TableSizes DEF WellFormed, Typed
<1>3. CASE found(T, k)
  <2>1. U = assign(T, k, v)
    BY <1>3 DEF reinsert
  <2>2. /\ WellFormed(U) /\ Assigns(T, U, k, v) /\ SameSizes(T, U) /\ U.full = T.full
        /\ \A n \in 1..sizenode(T) : U.node[n].key = T.node[n].key /\ U.node[n].dead = T.node[n].dead
                                      /\ U.node[n].next = T.node[n].next
    <3>1. WellFormed(U) /\ Assigns(T, U, k, v) /\ SameSizes(T, U) /\ U.full = T.full
      BY <1>3, <2>1, AssignAssigns, SMTT(60)
    <3>2. \A n \in 1..sizenode(T) : U.node[n].key = T.node[n].key /\ U.node[n].dead = T.node[n].dead
                                     /\ U.node[n].next = T.node[n].next
      BY <1>3, <2>1, AssignAssigns, SMTT(60)
    <3> QED
      BY <3>1, <3>2
  <2>3. \A K : Roomy(T, K) => Roomy(U, K)
    BY <2>2 DEF SameSizes, Roomy
  <2> QED
    BY <2>2, <2>3
<1>4. CASE ~ found(T, k) /\ Fits(T, k)
  <2>1. U = place(T, k, v)
    BY <1>4 DEF reinsert
  <2>2. Inserts(T, U, k, v)
    BY <1>4, <2>1, PlaceInserts
  <2>3. ASSUME NEW K, Roomy(T, K), k \in K \/ inarray(T, k) PROVE Roomy(U, K)
    <3>1. k \in K
      BY <1>4, <2>3 DEF found
    <3>2. ASSUME NEW n \in 1..sizenode(T) PROVE ~ U.node[n].dead /\ U.node[n].key \in K \cup {Nil}
      <4>1. CASE U.node[n].key = k /\ ~ U.node[n].dead
        BY <3>1, <4>1
      <4>2. CASE U.node[n].key = Nil
        <5>1. n \in DOMAIN U.node
          BY <2>2, TableSizes DEF Inserts, WellFormed, SameSizes
        <5> QED
          BY <2>2, <4>2, <5>1 DEF Inserts, WellFormed, Keyed
      <4>3. CASE \E y \in 1..sizenode(T) : U.node[n].key = T.node[y].key /\ U.node[n].dead = T.node[y].dead
        BY <2>3, <4>3 DEF Roomy
      <4> QED
        BY <2>2, <4>1, <4>2, <4>3 DEF Inserts
    <3> QED
      BY <2>2, <2>3, <3>2 DEF Inserts, SameSizes, Roomy
  <2> QED
    BY <2>2, <2>3 DEF Inserts
<1>5. CASE ~ found(T, k) /\ ~ Fits(T, k)
  <2>1. U = [T EXCEPT !.full = TRUE]
    BY <1>5, PlaceInserts DEF reinsert
  <2>2. /\ U \in Tables /\ U.array = T.array /\ U.node = T.node /\ U.dummy = T.dummy /\ U.lastfree = T.lastfree
        /\ U.badsizes = T.badsizes /\ U.keys = T.keys /\ U.constructor = T.constructor
    BY <1>2, <2>1 DEF Tables
  <2>3. WellFormed(U) /\ sizearray(U) = sizearray(T) /\ sizenode(U) = sizenode(T)
    BY <2>2, SameTable
  <2>4. \A K : Roomy(T, K) => ~ (k \in K \/ inarray(T, k))
    BY <1>5, RoomyFits DEF found
  <2> QED
    BY <2>2, <2>3, <2>4 DEF SameSizes
<1> QED
  BY <1>3, <1>4, <1>5

-----------------------------------------------------------------------------
(* New sizes for a table (resize).                                              *)
\* What a table holds has one value.
LEMMA HoldsOne ==
  ASSUME NEW T, WellFormed(T), NEW k \in AnyKey, NEW v \in Values, NEW w \in Values,
         Holds(T, k, v), Holds(T, k, w)
  PROVE  v = w
BY GetReturns

\* The elements that are inserted again are the values of the table that lose their slot.
Moving(T, nasize, i) == i \in 1..(sizearray(T) + sizenode(T)) /\ ~ stays(T, nasize, i)
\* They are its elements, but those that keep their slots in the array part.
LEMMA OldHolds ==
  ASSUME NEW T, WellFormed(T), NEW nasize \in Nat
  PROVE  /\ \A i : Moving(T, nasize, i) =>
              /\ old(T, i).key \in Keys /\ old(T, i).val \in Values
              /\ Holds(T, old(T, i).key, old(T, i).val)
         /\ \A j \in AnyKey, w \in Values :
              Holds(T, j, w) <=>
                \/ j \in 1..nasize /\ j <= sizearray(T) /\ T.array[j] = w
                \/ \E i : Moving(T, nasize, i) /\ old(T, i).key = j /\ old(T, i).val = w
<1>1. /\ Typed(T) /\ sizearray(T) \in Nat /\ sizenode(T) \in Nat
      /\ DOMAIN T.node = 1..sizenode(T) /\ DOMAIN T.array = 1..sizearray(T)
      /\ \A i \in 1..sizearray(T) : T.array[i] \in Vals
  BY TableSizes, SizesAre DEF WellFormed
<1>2. ASSUME NEW i \in 1..sizearray(T)
      PROVE  old(T, i).key = i /\ old(T, i).val = T.array[i]
  <2>1. i <= sizearray(T)
    BY <1>1
  <2>2. old(T, i) = [key |-> i, val |-> T.array[i]]
    BY <2>1 DEF old
  <2> QED
    BY <2>2
<1>3. ASSUME NEW n \in 1..sizenode(T), NEW i, i = sizearray(T) + sizenode(T) + 1 - n
      PROVE  /\ i \in 1..(sizearray(T) + sizenode(T)) /\ ~ i <= sizearray(T)
             /\ old(T, i).key = T.node[n].key /\ old(T, i).val = T.node[n].val
  <2>1. i \in 1..(sizearray(T) + sizenode(T)) /\ ~ i <= sizearray(T) /\ sizearray(T) + sizenode(T) + 1 - i = n
    BY <1>1, <1>3
  <2>2. old(T, i) = [key |-> T.node[n].key, val |-> T.node[n].val]
    BY <2>1 DEF old
  <2> QED
    BY <2>1, <2>2
<1>4. ASSUME NEW i, Moving(T, nasize, i)
      PROVE  /\ old(T, i).key \in Keys /\ old(T, i).val \in Values
             /\ Holds(T, old(T, i).key, old(T, i).val)
  <2>1. i \in 1..(sizearray(T) + sizenode(T)) /\ old(T, i).val # Nil
    BY <1>4 DEF Moving, stays
  <2>2. CASE i <= sizearray(T)
    <3>1. i \in 1..sizearray(T)
      BY <1>1, <2>1, <2>2
    <3>2. T.array[i] \in Values /\ i \in Numbers
      BY <1>1, <1>2, <2>1, <3>1 DEF WellFormed, Keyed, Vals
    <3>3. inarray(T, i)
      BY <1>1, <3>1, InarrayType
    <3> QED
      BY <1>2, <3>1, <3>2, <3>3 DEF Keys, Holds
  <2>3. CASE ~ i <= sizearray(T)
    <3>1. PICK n : n = sizearray(T) + sizenode(T) + 1 - i
      OBVIOUS
    <3>2. n \in 1..sizenode(T) /\ i = sizearray(T) + sizenode(T) + 1 - n
      <4>1. PICK A \in Nat : A = sizearray(T)
        BY <1>1
      <4>2. PICK N \in Nat : N = sizenode(T)
        BY <1>1
      <4>3. i \in 1..(A + N) /\ ~ i <= A /\ n = A + N + 1 - i
        BY <2>1, <2>3, <3>1, <4>1, <4>2
      <4>4. n \in 1..N /\ i = A + N + 1 - n
        BY <4>3
      <4> QED
        BY <4>1, <4>2, <4>4
    <3>3. old(T, i).key = T.node[n].key /\ old(T, i).val = T.node[n].val
      BY <1>3, <3>2
    <3>4. T.node[n].key \in Keys \cup {Nil} /\ T.node[n].val \in Vals
      BY <1>1, <3>2, NodeType
    <3>5. T.node[n].key # Nil /\ ~ inarray(T, T.node[n].key)
      BY <1>1, <2>1, <3>2, <3>3 DEF WellFormed, Keyed
    <3> QED
      BY <1>1, <2>1, <3>2, <3>3, <3>4, <3>5 DEF Holds, Vals
  <2> QED
    BY <2>2, <2>3
<1>5. ASSUME NEW j \in AnyKey, NEW w \in Values, Holds(T, j, w)
      PROVE  \/ j \in 1..nasize /\ j <= sizearray(T) /\ T.array[j] = w
             \/ \E i : Moving(T, nasize, i) /\ old(T, i).key = j /\ old(T, i).val = w
  <2>1. w # Nil
    BY KeysAssumption
  <2>2. CASE inarray(T, j)
    <3>1. j \in 1..sizearray(T) /\ T.array[j] = w
      BY <1>1, <1>5, <2>2, InarrayType DEF Holds
    <3>2. CASE j <= nasize
      <4>1. j \in 1..nasize /\ j <= sizearray(T)
        BY <1>1, <3>1, <3>2
      <4> QED
        BY <3>1, <4>1
    <3>3. CASE ~ j <= nasize
      <4>1. old(T, j).key = j /\ old(T, j).val = w
        BY <1>2, <3>1
      <4>2. j \in 1..(sizearray(T) + sizenode(T))
        BY <1>1, <3>1
      <4>3. Moving(T, nasize, j)
        BY <2>1, <3>3, <4>1, <4>2 DEF Moving, stays
      <4> QED
        BY <4>1, <4>3
    <3> QED
      BY <3>2, <3>3
  <2>3. CASE ~ inarray(T, j)
    <3>1. PICK n \in 1..sizenode(T) : T.node[n].key = j /\ T.node[n].val = w
      BY <1>1, <1>5, <2>3 DEF Holds
    <3>2. PICK i : i = sizearray(T) + sizenode(T) + 1 - n
      OBVIOUS
    <3>3. /\ i \in 1..(sizearray(T) + sizenode(T)) /\ ~ i <= sizearray(T)
          /\ old(T, i).key = j /\ old(T, i).val = w
      BY <1>3, <3>1, <3>2
    <3>4. Moving(T, nasize, i)
      BY <2>1, <3>3 DEF Moving, stays
    <3> QED
      BY <3>3, <3>4
  <2> QED
    BY <2>2, <2>3
<1>6. ASSUME NEW j \in AnyKey, NEW w \in Values, j \in 1..nasize, j <= sizearray(T), T.array[j] = w
      PROVE  Holds(T, j, w)
  <2>1. j \in 1..sizearray(T)
    BY <1>1, <1>6
  <2> QED
    BY <1>1, <1>6, <2>1, InarrayType DEF Holds
<1> QED
  BY <1>4, <1>5, <1>6

\* What the new table is after i elements were looked at.
Stage(T, nasize, K, i, V) ==
  /\ WellFormed(V) /\ Roomy(V, K) /\ sizearray(V) = nasize /\ V.full = T.full
  /\ V.badsizes = T.badsizes /\ V.keys = T.keys /\ V.constructor = T.constructor
  /\ \A j \in AnyKey, w \in Values :
       Holds(V, j, w) <=>
         \/ j \in 1..nasize /\ j <= sizearray(T) /\ T.array[j] = w
         \/ \E m \in 1..i : Moving(T, nasize, m) /\ old(T, m).key = j /\ old(T, m).val = w

\* One more element.
LEMMA NextStage ==
  ASSUME NEW T, WellFormed(T), NEW nasize \in Nat, NEW K,
         NEW i \in 1..(sizearray(T) + sizenode(T)), NEW V, Stage(T, nasize, K, i - 1, V),
         ~ stays(T, nasize, i) => old(T, i).key \in K \cup 1..nasize,
         NEW W, W = IF stays(T, nasize, i) THEN V ELSE reinsert(V, old(T, i).key, old(T, i).val)
  PROVE  Stage(T, nasize, K, i, W)
<1>1. Typed(T) /\ sizearray(T) \in Nat /\ sizenode(T) \in Nat
  BY TableSizes, SizesAre DEF WellFormed
<1>2. \A m : m \in 1..i <=> m \in 1..(i - 1) \/ m = i
  BY <1>1
<1>3. CASE stays(T, nasize, i)
  <2>1. ~ Moving(T, nasize, i)
    BY <1>3 DEF Moving
  <2> QED
    BY <1>2, <1>3, <2>1 DEF Stage
<1>4. CASE ~ stays(T, nasize, i)
  <2>1. Moving(T, nasize, i)
    BY <1>4 DEF Moving
  <2>2. PICK k : k = old(T, i).key
    OBVIOUS
  <2>3. PICK v : v = old(T, i).val
    OBVIOUS
  <2>4. k \in Keys /\ v \in Values /\ v \in Vals /\ k \in AnyKey /\ Holds(T, k, v)
    BY <2>1, <2>2, <2>3, OldHolds DEF AnyKey, Vals
  <2>5. W = reinsert(V, k, v)
    BY <1>4, <2>2, <2>3
  <2>6. WellFormed(V) /\ Roomy(V, K) /\ sizearray(V) = nasize
    BY DEF Stage
  <2>7. k \in K \/ inarray(V, k)
    <3>1. k \in 1..sizearray(V) => inarray(V, k)
      BY <2>4, <2>6, InarrayType DEF WellFormed
    <3> QED
      BY <1>4, <2>2, <2>6, <3>1
  <2>8. WellFormed(W) /\ SameSizes(V, W) /\ Assigns(V, W, k, v) /\ Roomy(W, K) /\ W.full = V.full
    BY <2>4, <2>5, <2>6, <2>7, Reinserts
  <2>9. ASSUME NEW j \in AnyKey, NEW w \in Values
        PROVE  Holds(W, j, w) <=>
                 \/ j \in 1..nasize /\ j <= sizearray(T) /\ T.array[j] = w
                 \/ \E m \in 1..i : Moving(T, nasize, m) /\ old(T, m).key = j /\ old(T, m).val = w
    <3>1. Holds(V, j, w) <=>
            \/ j \in 1..nasize /\ j <= sizearray(T) /\ T.array[j] = w
            \/ \E m \in 1..(i - 1) : Moving(T, nasize, m) /\ old(T, m).key = j /\ old(T, m).val = w
      BY DEF Stage
    <3>2. Holds(W, j, w) <=> IF j = k THEN w = v ELSE Holds(V, j, w)
      BY <2>8 DEF Assigns
    <3>3. CASE j # k
      BY <1>2, <2>2, <3>1, <3>2, <3>3
    <3>4. CASE j = k
      <4>1. Holds(T, j, w) => w = v
        BY <2>4, <3>4, HoldsOne
      <4>2. \/ j \in 1..nasize /\ j <= sizearray(T) /\ T.array[j] = w
            \/ \E m \in 1..i : Moving(T, nasize, m) /\ old(T, m).key = j /\ old(T, m).val = w
            => Holds(T, j, w)
        BY OldHolds
      <4>3. w = v => \E m \in 1..i : Moving(T, nasize, m) /\ old(T, m).key = j /\ old(T, m).val = w
        BY <1>2, <2>1, <2>2, <2>3, <3>4
      <4> QED
        BY <3>2, <3>4, <4>1, <4>2, <4>3
    <3> QED
      BY <3>3, <3>4
  <2>10. /\ sizearray(W) = nasize /\ W.full = T.full
         /\ W.badsizes = T.badsizes /\ W.keys = T.keys /\ W.constructor = T.constructor
    BY <2>8 DEF Stage, SameSizes
  <2> QED
    BY <2>8, <2>9, <2>10 DEF Stage
<1> QED
  BY <1>3, <1>4

\* resize keeps the values of a table when there is room for the elements it moves, and
\* inserting them again asks for no rehash.
LEMMA ResizeKeeps ==
  ASSUME NEW T, WellFormed(T), NEW nasize \in 0..MAXASIZE, NEW nhsize \in Nat,
         NEW K, IsFiniteSet(K), Cardinality(K) <= nhsize,
         \A i : Moving(T, nasize, i) => old(T, i).key \in K \cup 1..nasize,
         NEW U, U = resize(T, nasize, nhsize)
  PROVE  /\ WellFormed(U) /\ Roomy(U, K) /\ sizearray(U) = nasize
         /\ U.full = T.full /\ U.badsizes = T.badsizes /\ U.keys = T.keys /\ U.constructor = T.constructor
         /\ \A j \in AnyKey, w \in Values : Holds(U, j, w) <=> Holds(T, j, w)
<1>1. Typed(T) /\ T \in Tables /\ sizearray(T) \in Nat /\ sizenode(T) \in Nat /\ nasize \in Nat
  BY TableSizes, SizesAre DEF WellFormed, Typed
<1>2. PICK M : M = sizearray(T) + sizenode(T)
  OBVIOUS
<1>3. M \in Nat
  BY <1>1, <1>2
<1>4. PICK S : S = setarrayvector(T, nasize)
  OBVIOUS
<1>5. /\ S \in Tables /\ sizearray(S) = nasize /\ DOMAIN S.array = 1..nasize
      /\ sizearray(T) \in Nat /\ DOMAIN T.array = 1..sizearray(T)
      /\ \A i \in 1..nasize : S.array[i] = IF i <= sizearray(T) THEN T.array[i] ELSE Nil
      /\ S.node = T.node /\ S.dummy = T.dummy /\ S.lastfree = T.lastfree /\ S.full = T.full
      /\ S.badsizes = T.badsizes /\ S.keys = T.keys /\ S.constructor = T.constructor
  BY <1>1, <1>4, NewArrayVector
<1>6. PICK x0 : x0 = setnodevector(S, nhsize)
  OBVIOUS
<1>7. /\ WellFormed(x0) /\ sizearray(x0) = nasize /\ x0.array = S.array
      /\ nhsize <= sizenode(x0) /\ (x0.dummy <=> nhsize = 0)
      /\ DOMAIN x0.node = 1..sizenode(x0) /\ \A n \in 1..sizenode(x0) : x0.node[n] = emptynode
      /\ x0.full = T.full /\ x0.badsizes = T.badsizes /\ x0.keys = T.keys /\ x0.constructor = T.constructor
  <2>1. ASSUME NEW i \in DOMAIN S.array, S.array[i] # Nil PROVE i \in Numbers
    <3>1. i \in 1..nasize /\ i <= sizearray(T) /\ T.array[i] # Nil
      BY <1>5, <2>1
    <3>2. i \in 1..sizearray(T)
      BY <1>1, <3>1
    <3> QED
      BY <1>5, <3>1, <3>2 DEF WellFormed, Keyed
  <2>2. sizearray(S) <= MAXASIZE
    BY <1>5, SizesAre
  <2> QED
    BY <1>5, <1>6, <2>1, <2>2, NewNodeVector
<1>8. Stage(T, nasize, K, 0, x0)
  <2>1. Cardinality(K) \in Nat /\ sizenode(x0) \in Nat
    BY <1>7, FS_CardinalityType, TableSizes DEF WellFormed
  <2>2. x0.dummy => K = {}
    <3>1. SUFFICES ASSUME x0.dummy PROVE K = {}
      OBVIOUS
    <3>2. Cardinality(K) = 0
      BY <1>7, <2>1, <3>1
    <3> QED
      BY <3>2, FS_EmptySet
  <2>3. Roomy(x0, K)
    BY <1>7, <2>1, <2>2 DEF Roomy, emptynode
  <2>4. ASSUME NEW j \in AnyKey, NEW w \in Values
        PROVE  Holds(x0, j, w) <=> j \in 1..nasize /\ j <= sizearray(T) /\ T.array[j] = w
    <3>1. w # Nil
      BY KeysAssumption
    <3>2. inarray(x0, j) <=> j \in 1..nasize
      BY <1>7, InarrayType DEF WellFormed
    <3>3. CASE j \in 1..nasize
      BY <1>5, <1>7, <3>1, <3>2, <3>3 DEF Holds
    <3>4. CASE j \notin 1..nasize
      BY <1>7, <3>1, <3>2, <3>4 DEF Holds, emptynode
    <3> QED
      BY <3>3, <3>4
  <2>5. \A m : m \notin 1..0
    OBVIOUS
  <2> QED
    BY <1>7, <2>3, <2>4, <2>5 DEF Stage
<1> DEFINE Eqn(f) == f = [i \in 0..(sizearray(T) + sizenode(T)) |->
                            IF i = 0 THEN setnodevector(setarrayvector(T, nasize), nhsize)
                            ELSE IF stays(T, nasize, i) THEN f[i - 1]
                            ELSE reinsert(f[i - 1], old(T, i).key, old(T, i).val)]
<1> DEFINE Step(i, V) == IF stays(T, nasize, i) THEN V ELSE reinsert(V, old(T, i).key, old(T, i).val)
<1>9. PICK X : X = {V \in Tables : WellFormed(V)}
  OBVIOUS
<1>10. \E h : Eqn(h)
  <2>1. PICK G : G = [p \in (1..M) \X X |-> Step(p[1], p[2])]
    OBVIOUS
  <2>2. ASSUME NEW i \in 1..M, NEW V \in X PROVE Step(i, V) \in X
    <3>1. CASE stays(T, nasize, i)
      BY <3>1
    <3>2. CASE ~ stays(T, nasize, i)
      <4>1. Moving(T, nasize, i)
        BY <1>2, <3>2 DEF Moving
      <4>2. PICK k : k = old(T, i).key
        OBVIOUS
      <4>3. PICK v : v = old(T, i).val
        OBVIOUS
      <4>4. k \in Keys /\ v \in Vals
        BY <1>1, <4>1, <4>2, <4>3, OldHolds DEF Vals
      <4>5. PICK W : W = reinsert(V, k, v)
        OBVIOUS
      <4>6. WellFormed(V)
        BY <1>9
      <4>7. WellFormed(W)
        BY <4>4, <4>5, <4>6, Reinserts
      <4>8. W \in X
        BY <1>9, <4>7 DEF WellFormed, Typed
      <4> QED
        BY <3>2, <4>2, <4>3, <4>5, <4>8
    <3> QED
      BY <3>1, <3>2
  <2> HIDE DEF Step
  <2>3. G \in [(1..M) \X X -> X]
    BY <2>1, <2>2
  <2>4. x0 \in X
    BY <1>7, <1>9 DEF WellFormed, Typed
  <2>5. PICK h \in [0..M -> X] : Iterates(h, x0, M, G)
    BY <1>3, <2>3, <2>4, RecursionExists
  <2>6. ASSUME NEW i \in 0..M
        PROVE  h[i] = IF i = 0 THEN x0 ELSE Step(i, h[i - 1])
    <3>1. CASE i = 0
      BY <2>5, <3>1 DEF Iterates
    <3>2. CASE i # 0
      <4>1. i \in 1..M /\ i - 1 \in 0..M
        BY <1>3, <3>2
      <4>2. h[i - 1] \in X /\ h[i] = G[<<i, h[i - 1]>>]
        BY <2>5, <4>1 DEF Iterates
      <4>3. G[<<i, h[i - 1]>>] = Step(i, h[i - 1])
        BY <2>1, <4>1, <4>2
      <4> QED
        BY <3>2, <4>2, <4>3
    <3> QED
      BY <3>1, <3>2
  <2>7. h = [i \in 0..M |-> IF i = 0 THEN x0 ELSE Step(i, h[i - 1])]
    <3>1. h = [i \in 0..M |-> h[i]]
      OBVIOUS
    <3> QED
      BY <2>6, <3>1
  <2>8. Eqn(h)
    BY <1>2, <1>4, <1>6, <2>7 DEF Step
  <2> QED
    BY <2>8
<1>11. PICK f : f = CHOOSE g : Eqn(g)
  OBVIOUS
<1>12. Eqn(f)
  BY <1>10, <1>11
<1>13. U = f[M]
  BY <1>2, <1>11 DEF resize
<1>14. f[0] = x0
  BY <1>1, <1>4, <1>6, <1>12
<1>15. ASSUME NEW i \in 1..M PROVE f[i] = Step(i, f[i - 1])
  <2>1. i \in 0..(sizearray(T) + sizenode(T)) /\ i # 0
    BY <1>2, <1>3
  <2> QED
    BY <1>12, <2>1
<1>16. PICK P : P = {i \in 0..M : Stage(T, nasize, K, i, f[i])}
  OBVIOUS
<1>17. 0 \in P
  BY <1>3, <1>8, <1>14, <1>16
<1>18. ASSUME NEW i \in 1..M, i - 1 \in P PROVE i \in P
  <2>1. Stage(T, nasize, K, i - 1, f[i - 1])
    BY <1>16, <1>18
  <2>2. PICK V : V = f[i - 1]
    OBVIOUS
  <2>3. PICK W : W = f[i]
    OBVIOUS
  <2>4. W = IF stays(T, nasize, i) THEN V ELSE reinsert(V, old(T, i).key, old(T, i).val)
    BY <1>15, <2>2, <2>3
  <2>5. ~ stays(T, nasize, i) => old(T, i).key \in K \cup 1..nasize
    BY <1>2 DEF Moving
  <2>6. i \in 1..(sizearray(T) + sizenode(T)) /\ Stage(T, nasize, K, i - 1, V)
    BY <1>2, <2>1, <2>2
  <2>7. Stage(T, nasize, K, i, W)
    BY <1>1, <2>4, <2>5, <2>6, NextStage
  <2> QED
    BY <1>16, <2>3, <2>7
<1>19. M \in P
  BY <1>3, <1>17, <1>18, Induction DEF Inductive
<1>20. Stage(T, nasize, K, M, U)
  BY <1>13, <1>16, <1>19
<1>21. \A i : Moving(T, nasize, i) => i \in 1..M
  BY <1>2 DEF Moving
<1>22. ASSUME NEW j \in AnyKey, NEW w \in Values PROVE Holds(U, j, w) <=> Holds(T, j, w)
  <2>1. Holds(U, j, w) <=>
          \/ j \in 1..nasize /\ j <= sizearray(T) /\ T.array[j] = w
          \/ \E m \in 1..M : Moving(T, nasize, m) /\ old(T, m).key = j /\ old(T, m).val = w
    BY <1>20 DEF Stage
  <2>2. Holds(T, j, w) <=>
          \/ j \in 1..nasize /\ j <= sizearray(T) /\ T.array[j] = w
          \/ \E i : Moving(T, nasize, i) /\ old(T, i).key = j /\ old(T, i).val = w
    BY <1>1, OldHolds
  <2> QED
    BY <1>21, <2>1, <2>2
<1> QED
  BY <1>20, <1>22 DEF Stage

-----------------------------------------------------------------------------
(* Rehash: the counts, and the sizes that come of them.                         *)
\* The keys that have a value, with the one to insert.
Used(T, ek) == {j \in Keys : \E w \in Values : Holds(T, j, w)} \cup {ek}

\* The nodes in use whose keys are in a set, and those keys.
NodesOf(T, Q)    == {n \in usednodes(T) : T.node[n].key \in Q}
NodeKeysOf(T, Q) == {T.node[n].key : n \in NodesOf(T, Q)}

\* They are as many.
LEMMA CountNodes ==
  ASSUME NEW T, WellFormed(T), NEW Q
  PROVE  /\ IsFiniteSet(NodesOf(T, Q)) /\ IsFiniteSet(NodeKeysOf(T, Q))
         /\ Cardinality(NodeKeysOf(T, Q)) = Cardinality(NodesOf(T, Q))
         /\ Cardinality(NodesOf(T, Q)) <= sizenode(T)
<1>1. DOMAIN T.node = 1..sizenode(T) /\ sizenode(T) \in Nat \ {0}
  BY TableSizes DEF WellFormed
<1>2. PICK N : N = NodesOf(T, Q)
  OBVIOUS
<1>3. PICK K : K = NodeKeysOf(T, Q)
  OBVIOUS
<1>4. \A n \in N : n \in 1..sizenode(T) /\ T.node[n].val # Nil
  BY <1>1, <1>2 DEF usednodes, NodesOf
<1>5. IsFiniteSet(1..sizenode(T)) /\ Cardinality(1..sizenode(T)) = sizenode(T)
  BY <1>1, FS_Interval
<1>6. IsFiniteSet(N) /\ Cardinality(N) <= sizenode(T)
  <2>1. N \in SUBSET (1..sizenode(T))
    BY <1>4
  <2>2. IsFiniteSet(N) /\ Cardinality(N) <= Cardinality(1..sizenode(T))
    BY <1>5, <2>1, FS_Subset
  <2> QED
    BY <1>5, <2>2
<1>7. PICK f : f = [n \in N |-> T.node[n].key]
  OBVIOUS
<1>8. f \in Surjection(N, K)
  BY <1>2, <1>3, <1>7 DEF Surjection, NodeKeysOf
<1>9. f \in Injection(N, K)
  <2>1. ASSUME NEW m \in N, NEW n \in N, f[m] = f[n] PROVE m = n
    <3>1. T.node[m].key = T.node[n].key /\ m \in DOMAIN T.node /\ n \in DOMAIN T.node
      BY <1>1, <1>4, <1>7, <2>1
    <3>2. T.node[n].key # Nil /\ ~ T.node[m].dead /\ ~ T.node[n].dead
      BY <1>4, <3>1 DEF WellFormed, Keyed
    <3> QED
      BY <3>1, <3>2 DEF WellFormed, Keyed
  <2>2. f \in [N -> K]
    BY <1>8 DEF Surjection
  <2> QED
    BY <2>1, <2>2 DEF Injection, IsInjective
<1>10. IsFiniteSet(K) /\ Cardinality(K) = Cardinality(N)
  BY <1>6, <1>8, <1>9, FS_Surjection
<1> QED
  BY <1>2, <1>3, <1>6, <1>10

\* What is counted for a set of keys is how many of the keys in use are in it.
LEMMA CountUsed ==
  ASSUME NEW T, WellFormed(T), NEW ek \in Keys, ~ found(T, ek), NEW Q
  PROVE  /\ IsFiniteSet(Used(T, ek) \cap Q)
         /\ Cardinality(Used(T, ek) \cap Q) =
              Cardinality(usedarray(T) \cap Q) + Cardinality(NodesOf(T, Q))
              + (IF ek \in Q THEN 1 ELSE 0)
<1>1. /\ Typed(T) /\ DOMAIN T.node = 1..sizenode(T) /\ DOMAIN T.array = 1..sizearray(T)
      /\ sizearray(T) \in Nat /\ \A i \in 1..sizearray(T) : T.array[i] \in Vals
  BY TableSizes, SizesAre DEF WellFormed
<1>2. ek \in AnyKey /\ ek # Nil
  BY KeysDiffer DEF AnyKey
<1>3. ~ inarray(T, ek) /\ \A n \in 1..sizenode(T) : T.node[n].key = ek => T.node[n].dead
  BY <1>1, <1>2, ExistsMeans DEF alive
<1>4. PICK A : A = usedarray(T) \cap Q
  OBVIOUS
<1>5. PICK N : N = NodesOf(T, Q)
  OBVIOUS
<1>6. PICK K : K = NodeKeysOf(T, Q)
  OBVIOUS
<1>7. IsFiniteSet(N) /\ IsFiniteSet(K) /\ Cardinality(K) = Cardinality(N)
  BY <1>5, <1>6, CountNodes
<1>8. \A i \in A : i \in 1..sizearray(T) /\ T.array[i] # Nil /\ inarray(T, i) /\ i \in Numbers /\ i \in Q
  BY <1>1, <1>4, InarrayType DEF usedarray, WellFormed, Keyed
<1>9. IsFiniteSet(A)
  <2>1. A \in SUBSET (1..sizearray(T)) /\ IsFiniteSet(1..sizearray(T))
    BY <1>1, <1>8, FS_Interval
  <2> QED
    BY <2>1, FS_Subset
<1>10. \A n \in N : /\ n \in 1..sizenode(T) /\ T.node[n].val # Nil /\ T.node[n].key \in Q
                    /\ T.node[n].key \in Keys /\ ~ inarray(T, T.node[n].key) /\ ~ T.node[n].dead
  <2>1. ASSUME NEW n \in N
        PROVE  /\ n \in 1..sizenode(T) /\ T.node[n].val # Nil /\ T.node[n].key \in Q
               /\ T.node[n].key \in Keys /\ ~ inarray(T, T.node[n].key) /\ ~ T.node[n].dead
    <3>1. n \in DOMAIN T.node /\ T.node[n].val # Nil /\ T.node[n].key \in Q
      BY <1>5 DEF usednodes, NodesOf
    <3>2. T.node[n].key # Nil /\ ~ T.node[n].dead /\ ~ inarray(T, T.node[n].key)
      BY <3>1 DEF WellFormed, Keyed
    <3>3. T.node[n].key \in Keys \cup {Nil}
      BY <1>1, <3>1, NodeType
    <3> QED
      BY <1>1, <3>1, <3>2, <3>3
  <2> QED
    BY <2>1
<1>11. A \cap K = {}
  BY <1>5, <1>6, <1>8, <1>10 DEF NodeKeysOf
<1>12. ek \notin A \cup K
  BY <1>3, <1>5, <1>6, <1>8, <1>10 DEF NodeKeysOf
<1>13. Used(T, ek) \cap Q = IF ek \in Q THEN (A \cup K) \cup {ek} ELSE A \cup K
  <2>1. ASSUME NEW j \in Keys, NEW w \in Values, Holds(T, j, w), j \in Q PROVE j \in A \cup K
    <3>1. w # Nil
      BY KeysAssumption
    <3>2. j \in AnyKey
      BY DEF AnyKey
    <3>3. CASE inarray(T, j)
      BY <1>1, <1>4, <2>1, <3>1, <3>2, <3>3, InarrayType DEF Holds, usedarray
    <3>4. CASE ~ inarray(T, j)
      BY <1>1, <1>5, <1>6, <2>1, <3>1, <3>4 DEF Holds, usednodes, NodesOf, NodeKeysOf
    <3> QED
      BY <3>3, <3>4
  <2>2. ASSUME NEW j \in A \cup K PROVE j \in Q /\ j \in Keys /\ \E w \in Values : Holds(T, j, w)
    <3>1. CASE j \in A
      <4>1. T.array[j] \in Values /\ Holds(T, j, T.array[j])
        BY <1>1, <1>8, <3>1 DEF Holds, Vals
      <4> QED
        BY <1>8, <3>1, <4>1 DEF Keys
    <3>2. CASE j \in K
      <4>1. PICK n \in N : j = T.node[n].key
        BY <1>5, <1>6, <3>2 DEF NodeKeysOf
      <4>2. T.node[n].val \in Vals
        BY <1>1, <1>10, NodeType
      <4>3. T.node[n].val \in Values /\ Holds(T, j, T.node[n].val)
        BY <1>1, <1>10, <4>1, <4>2 DEF Holds, Vals
      <4> QED
        BY <1>10, <4>1, <4>3
    <3> QED
      BY <2>2, <3>1, <3>2
  <2> QED
    BY <2>1, <2>2 DEF Used
<1>14. IsFiniteSet(A \cup K) /\ Cardinality(A \cup K) = Cardinality(A) + Cardinality(N)
  <2>1. IsFiniteSet(A \cup K) /\ Cardinality(A \cup K) = Cardinality(A) + Cardinality(K) - Cardinality(A \cap K)
    BY <1>7, <1>9, FS_Union
  <2>2. Cardinality(A \cap K) = 0
    BY <1>11, FS_EmptySet
  <2>3. Cardinality(A) \in Nat /\ Cardinality(K) \in Nat
    BY <1>7, <1>9, FS_CardinalityType
  <2> QED
    BY <1>7, <2>1, <2>2, <2>3
<1>15. Cardinality(A) \in Nat /\ Cardinality(N) \in Nat
  BY <1>7, <1>9, FS_CardinalityType
<1>16. CASE ek \in Q
  <2>1. PICK B : B = A \cup K
    OBVIOUS
  <2>2. IsFiniteSet(B \cup {ek}) /\ Cardinality(B \cup {ek}) = Cardinality(B) + 1
    BY <1>12, <1>14, <2>1, FS_AddElement
  <2>3. Used(T, ek) \cap Q = B \cup {ek}
    BY <1>13, <1>16, <2>1
  <2>4. IsFiniteSet(Used(T, ek) \cap Q) /\ Cardinality(Used(T, ek) \cap Q) = Cardinality(A) + Cardinality(N) + 1
    BY <1>14, <2>1, <2>2, <2>3
  <2> QED
    BY <1>4, <1>5, <1>16, <2>4
<1>17. CASE ek \notin Q
  <2>1. Used(T, ek) \cap Q = A \cup K
    BY <1>13, <1>17
  <2>2. IsFiniteSet(Used(T, ek) \cap Q) /\ Cardinality(Used(T, ek) \cap Q) = Cardinality(A) + Cardinality(N)
    BY <1>14, <2>1
  <2>3. Cardinality(A) + Cardinality(N) = Cardinality(A) + Cardinality(N) + 0
    BY <1>15
  <2> QED
    BY <1>4, <1>5, <1>17, <2>2, <2>3
<1> QED
  BY <1>16, <1>17

\* The keys that could be in an array part of a size.
Candidates(lg) == {j \in 1..twoto[MAXBITS] : ceillog2(j) = lg}

\* What a size has, and what nums counts for one power of two.
LEMMA CandidatesAre ==
  ASSUME NEW lg \in 0..MAXBITS
  PROVE  /\ twoto[lg] \in Nat \ {0} /\ twoto[lg] <= twoto[MAXBITS] /\ twoto[lg] <= MAXASIZE
         /\ lg = 0 => twoto[lg] = 1 /\ Candidates(lg) = 1..twoto[lg]
         /\ lg # 0 => /\ lg - 1 \in 0..MAXBITS /\ twoto[lg] = 2 * twoto[lg - 1]
                      /\ 1..twoto[lg] = (1..twoto[lg - 1]) \cup Candidates(lg)
                      /\ (1..twoto[lg - 1]) \cap Candidates(lg) = {}
<1>1. MAXBITS \in Nat /\ lg \in Nat /\ twoto[MAXBITS] \in Nat /\ twoto[lg] \in Nat /\ twoto[MAXBITS] = MAXASIZE
      /\ MAX_INT \in Nat
  BY SizesAre, TwotoRecursion
<1>2. lg < twoto[lg]
  BY <1>1, TwotoGrows
<1>3. twoto[lg] <= twoto[MAXBITS]
  <2>1. CASE lg = MAXBITS
    BY <1>1, <2>1
  <2>2. CASE lg # MAXBITS
    <3>1. lg < MAXBITS
      BY <1>1, <2>2
    <3>2. 2 * twoto[lg] <= twoto[MAXBITS]
      BY <1>1, <3>1, TwotoGrows
    <3> QED
      BY <1>1, <3>2
  <2> QED
    BY <2>1, <2>2
<1>4. \A j \in 1..twoto[MAXBITS] : /\ j \in Nat /\ j > 0 /\ ceillog2(j) \in Nat
                                   /\ \A l \in Nat : ceillog2(j) <= l <=> j <= twoto[l]
  BY <1>1, Ceillog2
<1>5. CASE lg = 0
  <2>1. twoto[lg] = 1
    BY <1>5, TwotoRecursion
  <2>2. ASSUME NEW j \in 1..twoto[MAXBITS] PROVE ceillog2(j) = lg <=> j <= twoto[lg]
    BY <1>1, <1>4, <1>5
  <2>3. ASSUME NEW j PROVE j \in Candidates(lg) <=> j \in 1..twoto[lg]
    BY <1>1, <1>3, <2>2 DEF Candidates
  <2> QED
    BY <1>1, <1>3, <1>5, <2>1, <2>3
<1>6. CASE lg # 0
  <2>1. lg - 1 \in Nat /\ lg - 1 \in 0..MAXBITS /\ twoto[lg - 1] \in Nat
    BY <1>1, <1>6, TwotoRecursion
  <2>2. twoto[lg] = 2 * twoto[lg - 1]
    <3>1. lg - 1 + 1 = lg
      BY <1>1
    <3> QED
      BY <2>1, <3>1, TwotoRecursion
  <2>3. ASSUME NEW j \in 1..twoto[MAXBITS] PROVE ceillog2(j) = lg <=> j <= twoto[lg] /\ ~ j <= twoto[lg - 1]
    <3>1. ceillog2(j) \in Nat /\ (ceillog2(j) <= lg <=> j <= twoto[lg]) /\ (ceillog2(j) <= lg - 1 <=> j <= twoto[lg - 1])
      BY <1>1, <1>4, <2>1
    <3> QED
      BY <1>1, <3>1
  <2>4. ASSUME NEW j PROVE j \in Candidates(lg) <=> j \in 1..twoto[lg] /\ ~ j \in 1..twoto[lg - 1]
    <3>1. CASE j \in 1..twoto[MAXBITS]
      BY <1>1, <2>1, <2>3, <3>1 DEF Candidates
    <3>2. CASE j \notin 1..twoto[MAXBITS]
      BY <1>1, <1>3, <3>2 DEF Candidates
    <3> QED
      BY <3>1, <3>2
  <2>5. ASSUME NEW j PROVE j \in 1..twoto[lg - 1] => j \in 1..twoto[lg]
    BY <1>1, <2>1, <2>2
  <2>6. 1..twoto[lg] = (1..twoto[lg - 1]) \cup Candidates(lg) /\ (1..twoto[lg - 1]) \cap Candidates(lg) = {}
    BY <2>4, <2>5
  <2> QED
    BY <1>1, <1>2, <1>3, <1>6, <2>1, <2>2, <2>6
<1> QED
  BY <1>5, <1>6

\* nums counts the keys that are used, the one to insert among them.
LEMMA NumsCount ==
  ASSUME NEW T, WellFormed(T), NEW ek \in Keys, ~ found(T, ek), NEW lg \in 0..MAXBITS
  PROVE  nums(T, ek)[lg] = Cardinality(Used(T, ek) \cap Candidates(lg))
<1>1. /\ Typed(T) /\ DOMAIN T.node = 1..sizenode(T) /\ DOMAIN T.array = 1..sizearray(T)
      /\ sizearray(T) \in Nat
  BY TableSizes, SizesAre DEF WellFormed
<1>2. twoto[MAXBITS] \in Nat /\ MAXBITS \in Nat /\ MAXASIZE = twoto[MAXBITS]
  BY SizesAre, TwotoRecursion
<1>3. ASSUME NEW k \in Keys PROVE isarraykey(k) <=> k \in 1..twoto[MAXBITS]
  <2>1. k \in AnyKey
    BY DEF AnyKey
  <2>2. CASE k \in 0..MAXNUMBER
    BY <1>2, <2>1, <2>2, KeysDiffer DEF isarraykey
  <2>3. CASE k \notin 0..MAXNUMBER
    BY <1>2, <2>1, <2>3, KeysDiffer DEF isarraykey
  <2> QED
    BY <2>2, <2>3
<1>4. {i \in usedarray(T) : ceillog2(i) = lg} = usedarray(T) \cap Candidates(lg)
  <2>1. ASSUME NEW i \in usedarray(T), ceillog2(i) = lg PROVE i \in 1..twoto[MAXBITS]
    <3>1. i \in Nat /\ i > 0
      BY <1>1 DEF usedarray
    <3>2. lg \in Nat /\ ceillog2(i) <= lg
      BY <1>2, <2>1
    <3>3. i <= twoto[lg]
      BY <3>1, <3>2, Ceillog2
    <3>4. twoto[lg] <= twoto[MAXBITS] /\ twoto[lg] \in Nat
      BY CandidatesAre
    <3> QED
      BY <1>2, <3>1, <3>3, <3>4
  <2> QED
    BY <2>1 DEF Candidates
<1>5. {n \in usednodes(T) : isarraykey(T.node[n].key) /\ ceillog2(T.node[n].key) = lg}
        = NodesOf(T, Candidates(lg))
  <2>1. ASSUME NEW n \in usednodes(T) PROVE T.node[n].key \in Keys
    <3>1. n \in DOMAIN T.node /\ T.node[n].val # Nil
      BY DEF usednodes
    <3>2. T.node[n].key # Nil
      BY <3>1 DEF WellFormed, Keyed
    <3> QED
      BY <1>1, <3>1, <3>2, NodeType
  <2> QED
    BY <1>3, <2>1 DEF Candidates, NodesOf
<1>6. isarraykey(ek) /\ ceillog2(ek) = lg <=> ek \in Candidates(lg)
  BY <1>3 DEF Candidates
<1>7. nums(T, ek)[lg] = Cardinality(usedarray(T) \cap Candidates(lg))
                        + Cardinality(NodesOf(T, Candidates(lg)))
                        + (IF ek \in Candidates(lg) THEN 1 ELSE 0)
  BY <1>4, <1>5, <1>6 DEF nums
<1> QED
  BY <1>7, CountUsed

\* computesizes adds up the counts, and takes the largest power of two that is large
\* enough, if there is one.
Large(count, C) == {i \in 0..MAXBITS : twoto[i] \div 2 < C[MAXBITS] /\ count[i] > 0 /\ enough(twoto[i], C[i])}
\* It is what computesizes returns: the sums are the only function of their equation.
LEMMA Computesizes ==
  ASSUME NEW count, NEW C \in [0..MAXBITS -> Nat], C[0] = count[0],
         \A i \in 1..MAXBITS : C[i] = count[i] + C[i - 1],
         \A i \in 0..MAXBITS : count[i] \in Nat,
         NEW s, s = computesizes(count)
  PROVE  \/ Large(count, C) = {} /\ s.narray = 0 /\ s.na = 0
         \/ \E p \in Large(count, C) : /\ s.narray = twoto[p] /\ s.na = C[p]
                                       /\ \A i \in Large(count, C) : p >= i
<1>1. MAXBITS \in Nat
  BY SizesAre
<1> DEFINE Eqn(f) == f = [i \in 0..MAXBITS |-> count[i] + (IF i = 0 THEN 0 ELSE f[i - 1])]
<1>2. Eqn(C)
  <2>1. ASSUME NEW i \in 0..MAXBITS PROVE C[i] = count[i] + (IF i = 0 THEN 0 ELSE C[i - 1])
    <3>1. CASE i = 0
      BY <1>1, <3>1
    <3>2. CASE i # 0
      <4>1. i \in 1..MAXBITS
        BY <1>1, <3>2
      <4> QED
        BY <3>2, <4>1
    <3> QED
      BY <3>1, <3>2
  <2>2. C = [i \in 0..MAXBITS |-> C[i]]
    OBVIOUS
  <2> QED
    BY <2>1, <2>2
<1>3. PICK a : a = CHOOSE f : Eqn(f)
  OBVIOUS
<1>4. Eqn(a)
  BY <1>2, <1>3
<1>5. a = C
  <2>1. PICK P : P = {i \in 0..MAXBITS : a[i] = C[i]}
    OBVIOUS
  <2>2. 0 \in P
    BY <1>1, <1>4, <2>1
  <2>3. ASSUME NEW i \in 1..MAXBITS, i - 1 \in P PROVE i \in P
    <3>1. i \in 0..MAXBITS /\ i # 0
      BY <1>1
    <3>2. a[i] = count[i] + a[i - 1]
      BY <1>4, <3>1
    <3> QED
      BY <2>1, <2>3, <3>1, <3>2
  <2>4. ASSUME NEW i \in 0..MAXBITS PROVE a[i] = C[i]
    <3>1. \A n \in 1..i : n \in 1..MAXBITS
      BY <1>1
    <3>2. Inductive(P, i)
      BY <2>2, <2>3, <3>1 DEF Inductive
    <3>3. i \in P
      BY <1>1, <3>2, Induction
    <3> QED
      BY <2>1, <3>3
  <2>5. a = [i \in 0..MAXBITS |-> a[i]] /\ C = [i \in 0..MAXBITS |-> C[i]]
    BY <1>4
  <2> QED
    BY <2>4, <2>5
<1>6. PICK L : L = Large(count, C)
  OBVIOUS
<1>7. L = {i \in 0..MAXBITS : twoto[i] \div 2 < a[MAXBITS] /\ count[i] > 0 /\ enough(twoto[i], a[i])}
  BY <1>5, <1>6 DEF Large
<1>8. s = IF L = {} THEN [narray |-> 0, na |-> 0] ELSE [narray |-> twoto[Max(L)], na |-> a[Max(L)]]
  BY <1>3, <1>7 DEF computesizes
<1>9. CASE L = {}
  BY <1>6, <1>8, <1>9
<1>10. CASE L # {}
  <2>1. PICK p : p = Max(L)
    OBVIOUS
  <2>2. p \in L /\ \A i \in L : p >= i
    BY <1>1, <1>7, <1>10, <2>1, MaxIsGreatest
  <2>3. s = [narray |-> twoto[p], na |-> C[p]]
    BY <1>5, <1>8, <1>10, <2>1
  <2> QED
    BY <1>6, <2>2, <2>3
<1> QED
  BY <1>9, <1>10

\* How many of the keys in use, and of the one to insert, an array part has.
InUse(T, ek, n) == Cardinality(Used(T, ek) \cap 1..n)

\* Halves: what is more than one, and what is not.
LEMMA Halves ==
  /\ \A n, x \in Nat : enough(n, x) <=> 2 * x > n
  /\ \A n \in Nat : n \div 2 <= n
<1>1. \A n \in Nat : n \div 2 \in Nat /\ 2 * (n \div 2) <= n /\ n <= 2 * (n \div 2) + 1
  OBVIOUS
<1>2. ASSUME NEW n \in Nat, NEW x \in Nat PROVE x > n \div 2 <=> 2 * x > n
  <2>1. PICK h \in Nat : h = n \div 2 /\ 2 * h <= n /\ n <= 2 * h + 1
    BY <1>1
  <2> QED
    BY <2>1
<1> QED
  BY <1>1, <1>2 DEF enough

\* The sizes that a rehash computes: more than half of the array part is in use, no larger
\* power of two would be, and the other keys go to the hash part.
LEMMA SizesFit ==
  ASSUME NEW T, WellFormed(T), NEW ek \in Keys, ~ found(T, ek),
         NEW s, s = computesizes(nums(T, ek))
  PROVE  /\ s.narray \in {0} \cup {twoto[lg] : lg \in 0..MAXBITS}
         /\ s.narray \in 0..MAXASIZE /\ s.na \in Nat
         /\ s.na = InUse(T, ek, s.narray)
         /\ s.narray \div 2 <= s.na /\ s.na <= s.narray
         /\ s.narray > 0 => 2 * s.na > s.narray
         /\ \A lg \in 0..MAXBITS : twoto[lg] > s.narray => 2 * InUse(T, ek, twoto[lg]) <= twoto[lg]
<1>1. MAXBITS \in Nat /\ MAXASIZE \in Nat /\ MAXASIZE = twoto[MAXBITS]
  BY SizesAre
<1>2. PICK U : U = Used(T, ek)
  OBVIOUS
<1>3. \A Q : IsFiniteSet(U \cap Q) /\ Cardinality(U \cap Q) \in Nat
  BY <1>2, CountUsed, FS_CardinalityType
<1>4. PICK C : C = [lg \in 0..MAXBITS |-> InUse(T, ek, twoto[lg])]
  OBVIOUS
<1>5. \A lg \in 0..MAXBITS : C[lg] = Cardinality(U \cap 1..twoto[lg])
  BY <1>2, <1>4 DEF InUse
<1>6. C \in [0..MAXBITS -> Nat]
  BY <1>2, <1>3, <1>4 DEF InUse
<1>7. PICK count : count = nums(T, ek)
  OBVIOUS
<1>8. \A lg \in 0..MAXBITS : count[lg] = Cardinality(U \cap Candidates(lg)) /\ count[lg] \in Nat
  BY <1>2, <1>3, <1>7, NumsCount
<1>9. C[0] = count[0]
  <2>1. 0 \in 0..MAXBITS
    BY <1>1
  <2>2. Candidates(0) = 1..twoto[0]
    BY <2>1, CandidatesAre
  <2> QED
    BY <1>5, <1>8, <2>1, <2>2
<1>10. ASSUME NEW lg \in 1..MAXBITS PROVE C[lg] = count[lg] + C[lg - 1]
  <2>1. lg \in 0..MAXBITS /\ lg # 0 /\ lg - 1 \in 0..MAXBITS
    BY <1>1
  <2>2. PICK A : A = U \cap (1..twoto[lg - 1])
    OBVIOUS
  <2>3. PICK B : B = U \cap Candidates(lg)
    OBVIOUS
  <2>4. 1..twoto[lg] = (1..twoto[lg - 1]) \cup Candidates(lg) /\ (1..twoto[lg - 1]) \cap Candidates(lg) = {}
    BY <2>1, CandidatesAre
  <2>5. U \cap (1..twoto[lg]) = A \cup B /\ A \cap B = {}
    BY <2>2, <2>3, <2>4
  <2>6. IsFiniteSet(A) /\ IsFiniteSet(B) /\ Cardinality(A) \in Nat /\ Cardinality(B) \in Nat
    BY <1>3, <2>2, <2>3
  <2>7. Cardinality(A \cup B) = Cardinality(A) + Cardinality(B) - Cardinality(A \cap B)
    BY <2>6, FS_Union
  <2>8. Cardinality(A \cap B) = 0
    BY <2>5, FS_EmptySet
  <2>9. C[lg] = Cardinality(A \cup B) /\ C[lg - 1] = Cardinality(A) /\ count[lg] = Cardinality(B)
    BY <1>5, <1>8, <2>1, <2>2, <2>3, <2>5
  <2> QED
    BY <2>6, <2>7, <2>8, <2>9
<1>11. \/ Large(count, C) = {} /\ s.narray = 0 /\ s.na = 0
       \/ \E p \in Large(count, C) : /\ s.narray = twoto[p] /\ s.na = C[p]
                                     /\ \A i \in Large(count, C) : p >= i
  BY <1>6, <1>7, <1>8, <1>9, <1>10, Computesizes
<1>12. \A lg \in 0..MAXBITS : /\ twoto[lg] \in Nat \ {0} /\ twoto[lg] <= MAXASIZE
                              /\ C[lg] \in Nat /\ C[lg] <= twoto[lg] /\ C[lg] <= C[MAXBITS]
  <2>1. ASSUME NEW lg \in 0..MAXBITS
        PROVE  /\ twoto[lg] \in Nat \ {0} /\ twoto[lg] <= MAXASIZE
               /\ C[lg] \in Nat /\ C[lg] <= twoto[lg] /\ C[lg] <= C[MAXBITS]
    <3>1. twoto[lg] \in Nat \ {0} /\ twoto[lg] <= MAXASIZE /\ twoto[lg] <= twoto[MAXBITS] /\ twoto[MAXBITS] \in Nat
      BY <1>1, CandidatesAre, TwotoRecursion
    <3>2. IsFiniteSet(1..twoto[lg]) /\ Cardinality(1..twoto[lg]) = twoto[lg]
      <4>1. PICK b \in Nat \ {0} : b = twoto[lg]
        BY <3>1
      <4>2. b \in Int /\ 1 \in Int /\ ~ 1 > b /\ b - 1 + 1 = b
        BY <4>1
      <4>3. IsFiniteSet(1..b) /\ Cardinality(1..b) = b
        BY <4>2, FS_Interval
      <4> QED
        BY <4>1, <4>3
    <3>3. PICK A : A = U \cap (1..twoto[lg])
      OBVIOUS
    <3>4. PICK B : B = U \cap (1..twoto[MAXBITS])
      OBVIOUS
    <3>5. A \in SUBSET (1..twoto[lg]) /\ A \in SUBSET B /\ IsFiniteSet(B)
      <4>1. \A j \in 1..twoto[lg] : j \in 1..twoto[MAXBITS]
        BY <3>1
      <4> QED
        BY <1>3, <3>3, <3>4, <4>1
    <3>6. Cardinality(A) <= twoto[lg] /\ Cardinality(A) <= Cardinality(B)
      BY <3>2, <3>5, FS_Subset
    <3>7. C[lg] = Cardinality(A) /\ C[MAXBITS] = Cardinality(B)
      BY <1>1, <1>5, <3>3, <3>4
    <3> QED
      BY <1>6, <3>1, <3>6, <3>7
  <2> QED
    BY <2>1
<1>13. C[MAXBITS] \in Nat
  BY <1>1, <1>12
<1> DEFINE Result == /\ s.narray \in {0} \cup {twoto[lg] : lg \in 0..MAXBITS}
                     /\ s.narray \in 0..MAXASIZE /\ s.na \in Nat
                     /\ s.na = InUse(T, ek, s.narray)
                     /\ s.narray \div 2 <= s.na /\ s.na <= s.narray
                     /\ s.narray > 0 => 2 * s.na > s.narray
<1>14. ASSUME Large(count, C) = {}, s.narray = 0, s.na = 0 PROVE Result
  <2>1. U \cap 1..0 = {}
    OBVIOUS
  <2>2. InUse(T, ek, 0) = 0
    BY <1>2, <2>1, FS_EmptySet DEF InUse
  <2>3. 0 \div 2 = 0
    OBVIOUS
  <2> QED
    BY <1>1, <1>14, <2>2, <2>3
<1>15. ASSUME NEW p \in Large(count, C), s.narray = twoto[p], s.na = C[p]
       PROVE  p \in 0..MAXBITS /\ Result
  <2>1. p \in 0..MAXBITS /\ enough(twoto[p], C[p])
    BY DEF Large
  <2>2. twoto[p] \in Nat \ {0} /\ twoto[p] <= MAXASIZE /\ C[p] \in Nat /\ C[p] <= twoto[p]
    BY <1>12, <2>1
  <2>3. 2 * C[p] > twoto[p] /\ C[p] > twoto[p] \div 2 /\ twoto[p] \div 2 \in Nat
    BY <2>1, <2>2, Halves DEF enough
  <2>4. C[p] = InUse(T, ek, twoto[p])
    BY <1>4, <2>1
  <2>5. s.narray \in {twoto[lg] : lg \in 0..MAXBITS}
    BY <1>15, <2>1
  <2>6. s.narray \in 0..MAXASIZE /\ s.na \in Nat /\ s.na = InUse(T, ek, s.narray)
    BY <1>1, <1>15, <2>2, <2>4
  <2>7. s.narray \div 2 <= s.na /\ s.na <= s.narray /\ 2 * s.na > s.narray
    <3>1. PICK h \in Nat : h = twoto[p] \div 2
      BY <2>3
    <3>2. h <= C[p]
      BY <2>2, <2>3, <3>1
    <3> QED
      BY <1>15, <2>2, <2>3, <3>1, <3>2
  <2> QED
    BY <2>1, <2>5, <2>6, <2>7
<1>16. Result
  BY <1>11, <1>14, <1>15
<1>17. ASSUME NEW lg \in 0..MAXBITS, twoto[lg] > s.narray, lg \notin Large(count, C) PROVE 2 * C[lg] <= twoto[lg]
  <2>1. twoto[lg] \in Nat \ {0} /\ C[lg] \in Nat /\ C[lg] <= C[MAXBITS] /\ twoto[lg] \div 2 \in Nat
    BY <1>12
  <2>2. CASE ~ enough(twoto[lg], C[lg])
    <3>1. ~ 2 * C[lg] > twoto[lg]
      BY <2>1, <2>2, Halves
    <3> QED
      BY <2>1, <3>1
  <2>3. CASE ~ twoto[lg] \div 2 < C[MAXBITS]
    <3>1. ~ C[lg] > twoto[lg] \div 2
      BY <1>13, <2>1, <2>3
    <3>2. ~ 2 * C[lg] > twoto[lg]
      BY <2>1, <3>1, Halves DEF enough
    <3> QED
      BY <2>1, <3>2
  <2>4. CASE ~ count[lg] > 0
    <3>1. count[lg] = 0
      <4>1. count[lg] \in Nat
        BY <1>8
      <4> QED
        BY <2>4, <4>1
    <3>2. CASE lg = 0
      BY <1>9, <2>1, <3>1, <3>2
    <3>3. CASE lg # 0
      <4>1. lg \in 1..MAXBITS /\ lg - 1 \in 0..MAXBITS /\ twoto[lg] = 2 * twoto[lg - 1]
        BY <1>1, <3>3, CandidatesAre
      <4>2. C[lg] = C[lg - 1] /\ C[lg - 1] <= twoto[lg - 1]
        BY <1>10, <1>12, <3>1, <4>1
      <4>3. C[lg - 1] \in Nat /\ twoto[lg - 1] \in Nat
        BY <1>12, <4>1
      <4> QED
        BY <4>1, <4>2, <4>3
    <3> QED
      BY <3>2, <3>3
  <2> QED
    BY <1>17, <2>2, <2>3, <2>4 DEF Large
<1>18. ASSUME NEW lg \in 0..MAXBITS, twoto[lg] > s.narray PROVE lg \notin Large(count, C)
  <2>1. SUFFICES ASSUME lg \in Large(count, C) PROVE FALSE
    OBVIOUS
  <2>2. PICK p \in Large(count, C) : s.narray = twoto[p] /\ \A i \in Large(count, C) : p >= i
    BY <1>11, <2>1
  <2>3. p \in 0..MAXBITS /\ p >= lg
    BY <2>1, <2>2 DEF Large
  <2>4. CASE p = lg
    <3>1. twoto[p] \in Nat
      BY <1>12, <2>3
    <3> QED
      BY <1>18, <2>2, <2>4, <3>1
  <2>5. CASE p # lg
    <3>1. lg < p /\ lg \in Nat /\ p \in Nat
      BY <1>1, <2>3, <2>5
    <3>2. 2 * twoto[lg] <= twoto[p] /\ twoto[lg] \in Nat /\ twoto[p] \in Nat
      BY <3>1, TwotoGrows, TwotoRecursion
    <3> QED
      BY <1>18, <2>2, <3>2
  <2> QED
    BY <2>4, <2>5
<1>19. \A lg \in 0..MAXBITS : twoto[lg] > s.narray => 2 * InUse(T, ek, twoto[lg]) <= twoto[lg]
  BY <1>4, <1>17, <1>18
<1> QED
  BY <1>16, <1>19

-----------------------------------------------------------------------------
(* A rehash and the assignment of a field.                                      *)
\* A new value of a flag that is the old one changes nothing.
LEMMA SameFlag ==
  ASSUME NEW T \in Tables, NEW b, b = T.badsizes
  PROVE  [T EXCEPT !.badsizes = b] = T
BY DEF Tables

\* A rehash keeps the elements of a table, has the sizes it computes, and room for the
\* key it is done for.
LEMMA RehashKeeps ==
  ASSUME NEW T, WellFormed(T), NEW ek \in Keys, ~ found(T, ek),
         NEW s, s = computesizes(nums(T, ek)), NEW U, U = rehash(T, ek)
  PROVE  /\ WellFormed(U) /\ sizearray(U) = s.narray
         /\ U.full = T.full /\ U.badsizes = T.badsizes /\ U.keys = T.keys /\ U.constructor = T.constructor
         /\ \A j \in AnyKey, w \in Values : Holds(U, j, w) <=> Holds(T, j, w)
         /\ \E K : Roomy(U, K) /\ (ek \in K \/ inarray(U, ek))
<1>1. /\ Typed(T) /\ T \in Tables /\ T.badsizes \in BOOLEAN
      /\ DOMAIN T.node = 1..sizenode(T) /\ DOMAIN T.array = 1..sizearray(T)
  BY TableSizes DEF WellFormed, Typed, Tables
<1>2. /\ s.narray \in 0..MAXASIZE /\ s.na \in Nat /\ s.na = InUse(T, ek, s.narray)
      /\ s.narray \div 2 <= s.na /\ s.na <= s.narray
  BY SizesFit
<1>3. PICK A : A = Used(T, ek)
  OBVIOUS
<1>4. PICK I : I = 1..s.narray
  OBVIOUS
<1>5. PICK K : K = A \ I
  OBVIOUS
<1>6. A \subseteq Keys /\ ek \in A
  BY <1>3 DEF Used
<1>7. IsFiniteSet(A) /\ Cardinality(A) = totaluse(T)
  <2>1. PICK Q : Q = Keys
    OBVIOUS
  <2>2. /\ IsFiniteSet(Used(T, ek) \cap Q)
        /\ Cardinality(Used(T, ek) \cap Q) =
              Cardinality(usedarray(T) \cap Q) + Cardinality(NodesOf(T, Q)) + (IF ek \in Q THEN 1 ELSE 0)
    BY CountUsed
  <2>3. Used(T, ek) \cap Q = A
    BY <1>3, <1>6, <2>1
  <2>4. usedarray(T) \cap Q = usedarray(T)
    BY <2>1 DEF WellFormed, Keyed, usedarray, Keys
  <2>5. NodesOf(T, Q) = usednodes(T)
    <3>1. ASSUME NEW n \in usednodes(T) PROVE T.node[n].key \in Q
      <4>1. n \in DOMAIN T.node /\ T.node[n].val # Nil
        BY DEF usednodes
      <4>2. T.node[n].key \in Keys \cup {Nil}
        BY <1>1, <4>1, NodeType
      <4>3. T.node[n].key # Nil
        BY <4>1 DEF WellFormed, Keyed
      <4> QED
        BY <2>1, <4>2, <4>3
    <3> QED
      BY <3>1 DEF NodesOf
  <2>6. {i \in usedarray(T) : i <= MAXASIZE} = usedarray(T)
    <3>1. sizearray(T) \in 0..MAXASIZE /\ MAXASIZE \in Nat
      BY <1>1, TableSizes, SizesAre
    <3> QED
      BY <1>1, <3>1 DEF usedarray
  <2> QED
    BY <2>1, <2>2, <2>3, <2>4, <2>5, <2>6 DEF totaluse, numusearray
<1>8. IsFiniteSet(K) /\ Cardinality(K) = totaluse(T) - s.na /\ totaluse(T) - s.na \in Nat
  <2>1. IsFiniteSet(A \ I) /\ Cardinality(A \ I) = Cardinality(A) - Cardinality(A \cap I)
    BY <1>7, FS_Difference
  <2>2. s.na = Cardinality(A \cap I)
    BY <1>2, <1>3, <1>4 DEF InUse
  <2>3. Cardinality(K) \in Nat
    BY <1>5, <2>1, FS_CardinalityType
  <2> QED
    BY <1>5, <1>7, <2>1, <2>2, <2>3
<1>9. U = resize(T, s.narray, totaluse(T) - s.na)
  <2>1. PICK b : b = (T.badsizes \/ ~ (s.narray \div 2 <= s.na /\ s.na <= s.narray))
    OBVIOUS
  <2>2. b = T.badsizes
    BY <1>1, <1>2, <2>1
  <2>3. [T EXCEPT !.badsizes = b] = T
    BY <1>1, <2>2, SameFlag
  <2>4. U = resize([T EXCEPT !.badsizes = b], s.narray, totaluse(T) - s.na)
    BY <2>1 DEF rehash
  <2> QED
    BY <2>3, <2>4
<1>10. ASSUME NEW i, Moving(T, s.narray, i) PROVE old(T, i).key \in K \cup I
  <2>1. PICK n \in Nat : n = s.narray
    BY <1>2
  <2>2. old(T, i).key \in Keys /\ old(T, i).val \in Values /\ Holds(T, old(T, i).key, old(T, i).val)
    BY <1>10, <2>1, OldHolds
  <2>3. old(T, i).key \in A
    BY <1>3, <2>2 DEF Used
  <2> QED
    BY <1>5, <2>3
<1>11. PICK nhsize \in Nat : nhsize = totaluse(T) - s.na
  BY <1>8
<1>12. PICK nasize \in 0..MAXASIZE : nasize = s.narray
  BY <1>2
<1>13. \A i : Moving(T, nasize, i) => old(T, i).key \in K \cup 1..nasize
  BY <1>4, <1>10, <1>12
<1>14. Cardinality(K) <= nhsize /\ U = resize(T, nasize, nhsize)
  BY <1>8, <1>9, <1>11, <1>12
<1>15. /\ WellFormed(U) /\ Roomy(U, K) /\ sizearray(U) = nasize
       /\ U.full = T.full /\ U.badsizes = T.badsizes /\ U.keys = T.keys /\ U.constructor = T.constructor
       /\ \A j \in AnyKey, w \in Values : Holds(U, j, w) <=> Holds(T, j, w)
  BY <1>8, <1>13, <1>14, ResizeKeeps
<1>16. ek \in K \/ inarray(U, ek)
  <2>1. ek \in AnyKey /\ Typed(U)
    BY <1>15 DEF AnyKey, WellFormed
  <2>2. inarray(U, ek) <=> ek \in 1..sizearray(U)
    BY <2>1, InarrayType
  <2> QED
    BY <1>4, <1>5, <1>6, <1>12, <1>15, <2>2
<1> QED
  BY <1>12, <1>15, <1>16

\* luaH_set assigns its key, and the table keeps its flags; where the key has no place and
\* none is free, the sizes are those of a rehash.
Rehashes(T, k) == ~ found(T, k) /\ ~ Fits(T, k)
\* luaH_set assigns its key, and keeps the flags of the table.
LEMMA SetKeeps ==
  ASSUME NEW T, WellFormed(T), NEW k \in Keys, NEW v \in Vals, NEW U, U = luaH_set(T, k, v)
  PROVE  /\ WellFormed(U) /\ Assigns(T, U, k, v)
         /\ U.full = T.full /\ U.badsizes = T.badsizes /\ U.keys = T.keys /\ U.constructor = T.constructor
         /\ found(T, k) => U = assign(T, k, v)
         /\ Rehashes(T, k) => sizearray(U) = computesizes(nums(T, k)).narray
<1>1. CASE found(T, k)
  <2>1. U = assign(T, k, v)
    BY <1>1 DEF luaH_set
  <2> QED
    BY <1>1, <2>1, AssignAssigns DEF SameSizes, Rehashes
<1>2. CASE ~ found(T, k) /\ Fits(T, k)
  <2>1. U = place(T, k, v)
    BY <1>2 DEF luaH_set, Fits
  <2>2. Inserts(T, U, k, v)
    BY <1>2, <2>1, PlaceInserts
  <2> QED
    BY <1>2, <2>2 DEF Inserts, SameSizes, Rehashes
<1>3. CASE Rehashes(T, k)
  <2>1. ~ found(T, k)
    BY <1>3 DEF Rehashes
  <2>2. PICK V : V = rehash(T, k)
    OBVIOUS
  <2>3. PICK s : s = computesizes(nums(T, k))
    OBVIOUS
  <2>4. /\ WellFormed(V) /\ sizearray(V) = s.narray
        /\ V.full = T.full /\ V.badsizes = T.badsizes /\ V.keys = T.keys /\ V.constructor = T.constructor
        /\ \A j \in AnyKey, w \in Values : Holds(V, j, w) <=> Holds(T, j, w)
        /\ \E K : Roomy(V, K) /\ (k \in K \/ inarray(V, k))
    BY <2>1, <2>2, <2>3, RehashKeeps
  <2>5. U = reinsert(V, k, v)
    BY <1>3, <2>2 DEF luaH_set, Rehashes, Fits
  <2>6. WellFormed(U) /\ SameSizes(V, U) /\ Assigns(V, U, k, v) /\ U.full = V.full
    <3>1. WellFormed(V)
      BY <2>4
    <3>2. WellFormed(U) /\ SameSizes(V, U)
      BY <2>5, <3>1, Reinserts
    <3>3. \A K : Roomy(V, K) /\ (k \in K \/ inarray(V, k)) => Assigns(V, U, k, v) /\ U.full = V.full
      BY <2>5, <3>1, Reinserts
    <3>4. PICK K : Roomy(V, K) /\ (k \in K \/ inarray(V, k))
      BY <2>4
    <3> QED
      BY <3>2, <3>3, <3>4
  <2>7. Assigns(T, U, k, v)
    BY <2>4, <2>6 DEF Assigns
  <2> QED
    BY <2>1, <2>3, <2>4, <2>6, <2>7 DEF SameSizes
<1> QED
  BY <1>1, <1>2, <1>3 DEF Rehashes

\* luaH_resizearray keeps the elements of the table.
LEMMA ResizearrayKeeps ==
  ASSUME NEW T, WellFormed(T), NEW nasize \in 0..MAXASIZE,
         NEW U, U = resize(T, nasize, IF T.dummy THEN 0 ELSE sizenode(T)), nasize > sizearray(T)
  PROVE  /\ WellFormed(U)
         /\ U.full = T.full /\ U.badsizes = T.badsizes /\ U.keys = T.keys /\ U.constructor = T.constructor
         /\ \A j \in AnyKey, w \in Values : Holds(U, j, w) <=> Holds(T, j, w)
<1>1. /\ Typed(T) /\ T.dummy \in BOOLEAN /\ DOMAIN T.node = 1..sizenode(T) /\ sizenode(T) \in Nat
      /\ sizearray(T) \in Nat /\ nasize \in Nat
  BY TableSizes, SizesAre DEF WellFormed, Typed, Tables
<1>2. PICK K : K = NodeKeysOf(T, Keys)
  OBVIOUS
<1>3. PICK nhsize : nhsize = IF T.dummy THEN 0 ELSE sizenode(T)
  OBVIOUS
<1>4. nhsize \in Nat
  BY <1>1, <1>3
<1>5. IsFiniteSet(K) /\ Cardinality(K) <= nhsize
  <2>1. IsFiniteSet(K) /\ Cardinality(K) = Cardinality(NodesOf(T, Keys)) /\ Cardinality(NodesOf(T, Keys)) <= sizenode(T)
    BY <1>2, CountNodes
  <2>2. CASE T.dummy
    <3>1. \A n \in DOMAIN T.node : T.node[n].val = Nil
      <4>1. sizenode(T) = 1 /\ T.node[1].key = Nil
        BY <2>2 DEF WellFormed, Spare
      <4> QED
        BY <1>1, <4>1 DEF WellFormed, Keyed
    <3>2. NodesOf(T, Keys) = {}
      BY <3>1 DEF NodesOf, usednodes
    <3>3. Cardinality(K) = 0
      BY <2>1, <3>2, FS_EmptySet
    <3> QED
      BY <1>3, <2>1, <2>2, <3>3
  <2> QED
    BY <1>3, <2>1, <2>2
<1>6. ASSUME NEW i, Moving(T, nasize, i) PROVE old(T, i).key \in K \cup 1..nasize
  <2>1. i \in 1..(sizearray(T) + sizenode(T)) /\ old(T, i).val # Nil /\ ~ (i <= sizearray(T) /\ i <= nasize)
    BY <1>6 DEF Moving, stays
  <2>2. ~ i <= sizearray(T)
    BY <1>1, <2>1
  <2>3. PICK n : n = sizearray(T) + sizenode(T) + 1 - i
    OBVIOUS
  <2>4. n \in DOMAIN T.node /\ old(T, i).key = T.node[n].key /\ old(T, i).val = T.node[n].val
    BY <1>1, <2>1, <2>2, <2>3 DEF old
  <2>5. T.node[n].key \in Keys
    <3>1. T.node[n].key \in Keys \cup {Nil}
      BY <1>1, <2>4, NodeType
    <3>2. T.node[n].key # Nil
      BY <2>1, <2>4 DEF WellFormed, Keyed
    <3> QED
      BY <3>1, <3>2
  <2> QED
    BY <1>2, <2>1, <2>4, <2>5 DEF NodeKeysOf, NodesOf, usednodes
<1>7. U = resize(T, nasize, nhsize)
  BY <1>3
<1> QED
  BY <1>4, <1>5, <1>6, <1>7, ResizeKeeps

-----------------------------------------------------------------------------
(* Traversal: the index of a key.                                               *)
\* Two nodes do not reach one another.
LEMMA ReachesOneWay ==
  ASSUME NEW N \in Nat, NEW nx \in [1..N -> 0..N], Acyclic(nx), NEW m \in 1..N, NEW n \in 1..N,
         Reaches(nx, m, n), Reaches(nx, n, m)
  PROVE  m = n
<1>1. PICK r \in [1..N -> Nat \ {0}] : \A x \in 1..N : nx[x] # 0 => r[nx[x]] < r[x]
  BY DEF Acyclic, Ranks
<1>2. ASSUME NEW a \in 1..N, NEW b \in 1..N, Reaches(nx, a, b) PROVE b = a \/ r[b] < r[a]
  <2>1. PICK P : P = {x \in 1..N : x = a \/ r[x] < r[a]}
    OBVIOUS
  <2>2. a \in P /\ P \in SUBSET (1..N)
    BY <2>1
  <2>3. ASSUME NEW x \in P, nx[x] # 0 PROVE nx[x] \in P
    <3>1. x \in 1..N /\ nx[x] \in 1..N /\ r[nx[x]] < r[x] /\ r[x] <= r[a]
      <4>1. x \in 1..N /\ (x = a \/ r[x] < r[a])
        BY <2>1
      <4>2. r[x] \in Nat /\ r[a] \in Nat
        BY <4>1
      <4>3. nx[x] \in 0..N
        BY <4>1
      <4>4. nx[x] \in 1..N
        BY <2>3, <4>3
      <4>5. r[nx[x]] < r[x]
        BY <1>1, <2>3, <4>1
      <4> QED
        BY <4>1, <4>2, <4>4, <4>5
    <3>2. r[nx[x]] \in Nat /\ r[x] \in Nat /\ r[a] \in Nat
      BY <1>1, <3>1
    <3> QED
      BY <2>1, <3>1, <3>2
  <2>4. Follows(nx, P)
    BY <2>3 DEF Follows
  <2>5. b \in P
    BY <1>2, <2>2, <2>4 DEF Reaches
  <2> QED
    BY <2>1, <2>5
<1>3. (n = m \/ r[n] < r[m]) /\ (m = n \/ r[m] < r[n])
  BY <1>2
<1> QED
  BY <1>1, <1>3

\* The first node of a chain that is looked for is one.
LEMMA FirstIsOne ==
  ASSUME NEW N \in Nat, NEW nx \in [1..N -> 0..N], Acyclic(nx), NEW wanted \in SUBSET (1..N),
         NEW first \in 1..N, NEW m, NEW n, FirstOf(nx, first, wanted, m), FirstOf(nx, first, wanted, n)
  PROVE  m = n
<1>1. CASE m \in wanted /\ n \in wanted
  <2>1. Reaches(nx, m, n) /\ Reaches(nx, n, m)
    BY <1>1 DEF FirstOf
  <2> QED
    BY <1>1, <2>1, ReachesOneWay
<1>2. CASE ~ (m \in wanted /\ n \in wanted)
  BY <1>2 DEF FirstOf
<1> QED
  BY <1>1, <1>2

\* The node that findindex finds is the first with the key, dead or not: the one that is
\* alive, where there is one.
WithKey(T, k)   == {n \in DOMAIN T.node : T.node[n].key = k}
FirstWith(T, k) == inchain(T, mainposition(T, k), WithKey(T, k))
\* It is found wherever it is.
LEMMA KeyIsFound ==
  ASSUME NEW T, WellFormed(T), NEW k \in AnyKey
  PROVE  /\ FirstOf(links(T), mainposition(T, k), WithKey(T, k), FirstWith(T, k))
         /\ FirstWith(T, k) \in WithKey(T, k) \/ (FirstWith(T, k) = 0 /\ WithKey(T, k) = {})
         /\ \A n \in alive(T, k) : FirstWith(T, k) = n
         /\ FirstWith(T, k) \in 0..sizenode(T)
<1>1. sizenode(T) \in Nat \ {0} /\ DOMAIN T.node = 1..sizenode(T)
  BY TableSizes DEF WellFormed
<1>2. PICK x : x = FirstWith(T, k)
  OBVIOUS
<1>3. WithKey(T, k) \in SUBSET (1..sizenode(T))
  BY <1>1 DEF WithKey
<1>4. mainposition(T, k) \in 1..sizenode(T)
  BY <1>1, MainpositionType
<1>5. links(T) \in [1..sizenode(T) -> 0..sizenode(T)] /\ Acyclic(links(T))
  BY DEF WellFormed, Chained
<1>6. FirstOf(links(T), mainposition(T, k), WithKey(T, k), x)
  BY <1>1, <1>2, <1>3, <1>4, <1>5, InchainFinds DEF FirstWith
<1>7. k # Nil
  BY KeysDiffer
<1>8. ASSUME NEW m \in WithKey(T, k) PROVE Reaches(links(T), mainposition(T, k), m)
  BY <1>7, <1>8 DEF WithKey, WellFormed, Placed
<1>9. x \in WithKey(T, k) \/ (x = 0 /\ WithKey(T, k) = {})
  BY <1>6, <1>8 DEF FirstOf
<1>10. ASSUME NEW n \in alive(T, k) PROVE x = n
  <2>1. n \in WithKey(T, k) /\ ~ T.node[n].dead /\ T.node[n].key = k
    BY <1>10 DEF alive, WithKey
  <2>2. x \in WithKey(T, k) /\ T.node[x].key = k
    BY <1>9, <2>1 DEF WithKey
  <2>3. Reaches(links(T), x, n)
    BY <1>1, <1>3, <1>6, <1>8, <2>1, <2>2 DEF FirstOf
  <2>4. n = x \/ Reaches(links(T), n, x)
    BY <1>7, <2>1, <2>2 DEF WellFormed, Keyed, WithKey
  <2>5. n \in 1..sizenode(T) /\ x \in 1..sizenode(T) /\ sizenode(T) \in Nat
    BY <1>1, <1>3, <2>1, <2>2
  <2> QED
    BY <1>5, <2>3, <2>4, <2>5, ReachesOneWay
<1>11. x \in 0..sizenode(T)
  BY <1>1, <1>3, <1>9
<1> QED
  BY <1>2, <1>6, <1>9, <1>10, <1>11

\* What findindex returns.
LEMMA FindindexIs ==
  ASSUME NEW T, WellFormed(T), NEW k \in AnyKey
  PROVE  /\ inarray(T, k) => k \in 1..sizearray(T) /\ findindex(T, k) = k
         /\ ~ inarray(T, k) => findindex(T, k) = sizearray(T) + FirstWith(T, k)
         /\ findindex(T, k) \in 0..(sizearray(T) + sizenode(T))
         /\ inarray(T, k) \/ WithKey(T, k) # {} => findindex(T, k) > 0
         /\ isinvalid(T, k) <=> ~ inarray(T, k) /\ WithKey(T, k) = {}
<1>1. k # Nil /\ Typed(T) /\ sizearray(T) \in Nat /\ sizenode(T) \in Nat /\ DOMAIN T.node = 1..sizenode(T)
  BY KeysDiffer, TableSizes, SizesAre DEF WellFormed
<1>2. inarray(T, k) <=> k \in 1..sizearray(T)
  BY <1>1, InarrayType
<1>3. /\ FirstWith(T, k) \in WithKey(T, k) \/ (FirstWith(T, k) = 0 /\ WithKey(T, k) = {})
      /\ FirstWith(T, k) \in 0..sizenode(T)
  BY KeyIsFound
<1>4. 0 \notin WithKey(T, k)
  BY <1>1 DEF WithKey
<1>5. CASE inarray(T, k)
  BY <1>1, <1>2, <1>3, <1>5 DEF findindex, isinvalid
<1>6. CASE ~ inarray(T, k)
  <2>1. findindex(T, k) = sizearray(T) + FirstWith(T, k)
    BY <1>1, <1>6 DEF findindex, FirstWith, WithKey
  <2>2. isinvalid(T, k) <=> FirstWith(T, k) = 0
    BY <1>1, <1>3, <1>6, <2>1 DEF isinvalid
  <2>3. FirstWith(T, k) = 0 <=> WithKey(T, k) = {}
    BY <1>3, <1>4
  <2>4. findindex(T, k) \in 0..(sizearray(T) + sizenode(T)) /\ (WithKey(T, k) # {} => findindex(T, k) > 0)
    BY <1>1, <1>3, <1>4, <2>1
  <2> QED
    BY <1>6, <2>1, <2>2, <2>3, <2>4
<1> QED
  BY <1>5, <1>6

\* The element at an index has that index, and an element has one.
LEMMA IndexOf ==
  ASSUME NEW T, WellFormed(T)
  PROVE  /\ \A i \in 1..(sizearray(T) + sizenode(T)) : hasvalue(T, i) =>
              /\ keyat(T, i) \in Keys /\ findindex(T, keyat(T, i)) = i /\ ~ isinvalid(T, keyat(T, i))
         /\ \A k \in Keys, v \in Values : Holds(T, k, v) =>
              LET i == findindex(T, k)
              IN i \in 1..(sizearray(T) + sizenode(T)) /\ hasvalue(T, i) /\ keyat(T, i) = k
<1>1. /\ Typed(T) /\ sizearray(T) \in Nat /\ sizenode(T) \in Nat
      /\ DOMAIN T.node = 1..sizenode(T) /\ DOMAIN T.array = 1..sizearray(T)
  BY TableSizes, SizesAre DEF WellFormed
<1>2. Nil \notin Values
  BY KeysAssumption
<1>3. ASSUME NEW i \in 1..(sizearray(T) + sizenode(T)), hasvalue(T, i), i <= sizearray(T)
      PROVE  keyat(T, i) \in Keys /\ findindex(T, keyat(T, i)) = i /\ ~ isinvalid(T, keyat(T, i))
  <2>1. keyat(T, i) = i /\ T.array[i] # Nil /\ i \in 1..sizearray(T)
    BY <1>1, <1>3 DEF keyat, hasvalue
  <2>2. i \in Numbers
    BY <1>1, <2>1 DEF WellFormed, Keyed
  <2>3. i \in Keys /\ i \in AnyKey
    BY <2>2 DEF Keys, AnyKey
  <2>4. inarray(T, i)
    BY <1>1, <2>1, <2>3, InarrayType
  <2> QED
    BY <2>1, <2>3, <2>4, FindindexIs
<1>4. ASSUME NEW i \in 1..(sizearray(T) + sizenode(T)), hasvalue(T, i), ~ i <= sizearray(T)
      PROVE  keyat(T, i) \in Keys /\ findindex(T, keyat(T, i)) = i /\ ~ isinvalid(T, keyat(T, i))
  <2>1. PICK n \in Nat : n = i - sizearray(T)
    BY <1>1, <1>4
  <2>2. n \in 1..sizenode(T) /\ i = sizearray(T) + n /\ keyat(T, i) = T.node[n].key /\ T.node[n].val # Nil
    BY <1>1, <1>4, <2>1 DEF keyat, hasvalue
  <2>3. PICK k : k = T.node[n].key
    OBVIOUS
  <2>4. k # Nil /\ ~ T.node[n].dead
    BY <1>1, <2>2, <2>3 DEF WellFormed, Keyed
  <2>5. k \in Keys /\ k \in AnyKey
    <3>1. k \in Keys \cup {Nil}
      BY <1>1, <2>2, <2>3, NodeType
    <3> QED
      BY <2>4, <3>1 DEF AnyKey
  <2>6. ~ inarray(T, k)
    BY <1>1, <2>2, <2>3, <2>4 DEF WellFormed, Keyed
  <2>7. n \in alive(T, k) /\ n \in WithKey(T, k)
    BY <1>1, <2>2, <2>3, <2>4 DEF alive, WithKey
  <2>8. FirstWith(T, k) = n
    BY <2>5, <2>7, KeyIsFound
  <2>9. findindex(T, k) = i /\ ~ isinvalid(T, k)
    BY <2>2, <2>5, <2>6, <2>7, <2>8, FindindexIs
  <2> QED
    BY <2>2, <2>3, <2>5, <2>9
<1>5. ASSUME NEW k \in Keys, NEW v \in Values, Holds(T, k, v)
      PROVE  LET i == findindex(T, k)
             IN i \in 1..(sizearray(T) + sizenode(T)) /\ hasvalue(T, i) /\ keyat(T, i) = k
  <2>1. k \in AnyKey
    BY DEF AnyKey
  <2>2. CASE inarray(T, k)
    <3>1. k \in 1..sizearray(T) /\ findindex(T, k) = k
      BY <2>1, <2>2, FindindexIs
    <3>2. T.array[k] = v
      BY <1>5, <2>2 DEF Holds
    <3> QED
      BY <1>1, <1>2, <3>1, <3>2 DEF hasvalue, keyat
  <2>3. CASE ~ inarray(T, k)
    <3>1. PICK n \in 1..sizenode(T) : T.node[n].key = k /\ T.node[n].val = v
      BY <1>1, <1>5, <2>3 DEF Holds
    <3>2. ~ T.node[n].dead
      BY <1>1, <1>2, <3>1 DEF WellFormed, Keyed
    <3>3. FirstWith(T, k) = n
      BY <1>1, <2>1, <3>1, <3>2, KeyIsFound DEF alive
    <3>4. findindex(T, k) = sizearray(T) + n
      BY <2>1, <2>3, <3>3, FindindexIs
    <3>5. PICK i \in Nat : i = sizearray(T) + n
      BY <1>1
    <3>6. i \in 1..(sizearray(T) + sizenode(T)) /\ ~ i <= sizearray(T) /\ i - sizearray(T) = n
      BY <1>1, <3>5
    <3>7. hasvalue(T, i) /\ keyat(T, i) = k
      BY <1>2, <3>1, <3>6 DEF hasvalue, keyat
    <3> QED
      BY <3>4, <3>5, <3>6, <3>7
  <2> QED
    BY <2>2, <2>3
<1> QED
  BY <1>3, <1>4, <1>5

\* A step that moves no key: the keys have the indices they had, so that a traversal can
\* go on.
SameKeys(T, U) ==
  /\ sizearray(U) = sizearray(T) /\ sizenode(U) = sizenode(T)
  /\ \A n \in 1..sizenode(T) : U.node[n].key = T.node[n].key /\ U.node[n].next = T.node[n].next
\* Such a step keeps the indices of all keys.
LEMMA SameIndices ==
  ASSUME NEW T, WellFormed(T), NEW U, WellFormed(U), SameKeys(T, U), NEW k \in Keys \cup {Nil}
  PROVE  findindex(U, k) = findindex(T, k) /\ (isinvalid(U, k) <=> isinvalid(T, k))
<1>1. /\ sizenode(T) \in Nat \ {0} /\ DOMAIN T.node = 1..sizenode(T) /\ DOMAIN U.node = 1..sizenode(T)
      /\ sizearray(U) = sizearray(T) /\ sizenode(U) = sizenode(T)
  BY TableSizes DEF WellFormed, SameKeys
<1>2. CASE k = Nil
  BY <1>2 DEF findindex, isinvalid
<1>3. CASE k # Nil
  <2>1. k \in AnyKey
    BY <1>3 DEF AnyKey
  <2>2. inarray(U, k) <=> inarray(T, k)
    BY <1>1 DEF inarray
  <2>3. WithKey(U, k) = WithKey(T, k)
    BY <1>1 DEF WithKey, SameKeys
  <2>4. links(U) = links(T)
    BY <1>1 DEF links, SameKeys
  <2>5. mainposition(U, k) = mainposition(T, k) /\ mainposition(T, k) \in 1..sizenode(T)
    BY <1>1, <2>1, MainpositionSame, MainpositionType
  <2>6. FirstWith(U, k) = FirstWith(T, k)
    <3>1. links(T) \in [1..sizenode(T) -> 0..sizenode(T)] /\ Acyclic(links(T))
      BY DEF WellFormed, Chained
    <3>2. WithKey(T, k) \in SUBSET (1..sizenode(T))
      BY <1>1 DEF WithKey
    <3>3. FirstOf(links(T), mainposition(T, k), WithKey(T, k), FirstWith(T, k))
      BY <2>1, KeyIsFound
    <3>4. FirstOf(links(T), mainposition(T, k), WithKey(T, k), FirstWith(U, k))
      BY <2>1, <2>3, <2>4, <2>5, KeyIsFound
    <3>5. sizenode(T) \in Nat
      BY <1>1
    <3> QED
      BY <2>5, <3>1, <3>2, <3>3, <3>4, <3>5, FirstIsOne
  <2>7. findindex(U, k) = findindex(T, k)
    BY <1>1, <2>1, <2>2, <2>6, FindindexIs
  <2> QED
    BY <2>1, <2>2, <2>3, <2>7, FindindexIs
<1> QED
  BY <1>2, <1>3

-----------------------------------------------------------------------------
(* Traversal: what stays true from one call of next to another.                 *)
\* The table has the values that the program assigned, and no others.
Remembers(T, f) == \A j \in AnyKey, w \in Values : Holds(T, j, w) <=> j \in Keys /\ f[j] = w

\* A traversal is at a key with an index; the keys it still has to visit come after it, and
\* the keys visited do not.
Travs == [state : {"none", "under way", "done"}, at : Keys \cup {Nil}, seen : SUBSET Keys, all : SUBSET Keys]
Visiting(T, f, r) ==
  /\ ~ isinvalid(T, r.at)
  /\ \A k \in r.all : f[k] # Nil
  /\ \A k \in r.all \ r.seen : findindex(T, k) > findindex(T, r.at)
  /\ \A k \in r.seen : findindex(T, k) <= findindex(T, r.at)

\* The keys with values have indices.
LEMMA ValueIndex ==
  ASSUME NEW T, WellFormed(T), NEW f \in [Keys -> Vals], Remembers(T, f), NEW k \in Keys, f[k] # Nil
  PROVE  LET i == findindex(T, k)
         IN i \in 1..(sizearray(T) + sizenode(T)) /\ hasvalue(T, i) /\ keyat(T, i) = k
<1>1. f[k] \in Values /\ k \in AnyKey
  BY DEF Vals, AnyKey
<1>2. Holds(T, k, f[k])
  BY <1>1 DEF Remembers
<1>3. PICK v \in Values : v = f[k]
  BY <1>1
<1> QED
  BY <1>2, <1>3, IndexOf

\* A call of next visits the next key with a value, which is new, or ends the traversal.
LEMMA Advances ==
  ASSUME WellFormed(t), field \in [Keys -> Vals], Remembers(t, field),
         NEW r \in Travs, Visiting(t, field, r), NEW q, q = advance(r)
  PROVE  /\ q \in Travs
         /\ \/ q.state = "done" /\ q.all \subseteq q.seen
            \/ q.state = "under way" /\ Visiting(t, field, q)
<1>1. /\ Typed(t) /\ sizearray(t) \in Nat /\ sizenode(t) \in Nat
      /\ r.at \in Keys \cup {Nil} /\ r.seen \in SUBSET Keys /\ r.all \in SUBSET Keys
  <2>1. Typed(t) /\ sizearray(t) \in Nat /\ sizenode(t) \in Nat
    BY TableSizes, SizesAre DEF WellFormed
  <2>2. r.at \in Keys \cup {Nil} /\ r.seen \in SUBSET Keys /\ r.all \in SUBSET Keys
    BY DEF Travs
  <2> QED
    BY <2>1, <2>2
<1>2. PICK M \in Nat : M = sizearray(t) + sizenode(t)
  BY <1>1
<1>3. PICK x : x = findindex(t, r.at)
  OBVIOUS
<1>4. x \in 0..M
  <2>1. CASE r.at = Nil
    BY <1>2, <1>3, <2>1 DEF findindex
  <2>2. CASE r.at # Nil
    BY <1>1, <1>2, <1>3, <2>2, FindindexIs DEF AnyKey
  <2> QED
    BY <2>1, <2>2
<1>5. ~ isinvalid(t, r.at)
  BY DEF Visiting
<1>6. PICK after : after = {i \in 1..M : i > x /\ hasvalue(t, i)}
  OBVIOUS
<1>7. ASSUME NEW k \in r.all \ r.seen PROVE findindex(t, k) \in after /\ keyat(t, findindex(t, k)) = k
  <2>1. k \in Keys /\ field[k] # Nil /\ findindex(t, k) > x
    BY <1>1, <1>3, <1>7 DEF Visiting
  <2> QED
    BY <1>2, <1>6, <2>1, ValueIndex
<1>8. CASE after = {}
  <2>1. luaH_next(t, r.at) = Nil
    BY <1>2, <1>3, <1>6, <1>8 DEF luaH_next
  <2>2. q = [r EXCEPT !.state = "done"]
    BY <1>5, <2>1 DEF advance
  <2>3. q \in Travs /\ q.state = "done" /\ q.all = r.all /\ q.seen = r.seen
    BY <2>2 DEF Travs
  <2> QED
    BY <1>7, <1>8, <2>3
<1>9. CASE after # {}
  <2>1. PICK i : i = Min(after)
    OBVIOUS
  <2>2. i \in after /\ \A j \in after : i <= j
    <3>1. after \subseteq Nat
      BY <1>6
    <3> QED
      BY <1>9, <2>1, <3>1, MinIsLeast
  <2>3. i \in 1..M /\ i > x /\ hasvalue(t, i)
    BY <1>6, <2>2
  <2>4. PICK k : k = keyat(t, i)
    OBVIOUS
  <2>5. k \in Keys /\ findindex(t, k) = i /\ ~ isinvalid(t, k)
    BY <1>2, <2>3, <2>4, IndexOf
  <2>6. k # Nil
    BY <2>5, KeysDiffer DEF AnyKey
  <2>7. luaH_next(t, r.at) = k
    BY <1>2, <1>3, <1>6, <1>9, <2>1, <2>4 DEF luaH_next
  <2>8. k \notin r.seen
    <3>1. ~ i <= x
      BY <1>4, <2>3
    <3> QED
      BY <1>3, <2>5, <3>1 DEF Visiting
  <2>9. q = [r EXCEPT !.state = "under way", !.at = k, !.seen = @ \cup {k}]
    BY <1>5, <2>6, <2>7, <2>8 DEF advance
  <2>10. q \in Travs /\ q.state = "under way" /\ q.all = r.all /\ q.seen = r.seen \cup {k} /\ q.at = k
    <3>1. PICK seen \in SUBSET Keys : seen = r.seen \cup {k}
      BY <1>1, <2>5
    <3>2. q = [r EXCEPT !.state = "under way", !.at = k, !.seen = seen]
      BY <2>9, <3>1
    <3>3. q \in Travs
      BY <2>5, <3>2 DEF Travs
    <3>4. q.state = "under way" /\ q.all = r.all /\ q.seen = seen /\ q.at = k
      BY <3>2 DEF Travs
    <3> QED
      BY <3>1, <3>3, <3>4
  <2>11. ASSUME NEW j \in q.all \ q.seen PROVE findindex(t, j) > i
    <3>1. j \in r.all \ r.seen /\ j # k
      BY <2>10
    <3>2. findindex(t, j) \in after /\ findindex(t, j) # i
      BY <1>7, <2>4, <3>1
    <3>3. findindex(t, j) \in 1..M /\ i <= findindex(t, j)
      BY <1>6, <2>2, <3>2
    <3> QED
      BY <2>3, <3>2, <3>3
  <2>12. ASSUME NEW j \in q.seen PROVE findindex(t, j) <= i
    <3>1. CASE j = k
      BY <2>3, <2>5, <3>1
    <3>2. CASE j # k
      <4>1. j \in r.seen /\ j \in Keys
        BY <1>1, <2>10, <3>2
      <4>2. findindex(t, j) <= x
        BY <1>3, <4>1 DEF Visiting
      <4>3. findindex(t, j) \in 0..M
        BY <1>2, <4>1, FindindexIs DEF AnyKey
      <4> QED
        BY <1>4, <2>3, <4>2, <4>3
    <3> QED
      BY <3>1, <3>2
  <2>13. \A j \in q.all : field[j] # Nil
    BY <2>10 DEF Visiting
  <2>14. Visiting(t, field, q)
    BY <2>5, <2>10, <2>11, <2>12, <2>13 DEF Visiting
  <2> QED
    BY <2>10, <2>14
<1> QED
  BY <1>8, <1>9

\* The record of a traversal.
LEMMA TravIs ==
  ASSUME NEW state \in {"none", "under way", "done"}, NEW at \in Keys \cup {Nil},
         NEW seen \in SUBSET Keys, NEW all \in SUBSET Keys
  PROVE  [state |-> state, at |-> at, seen |-> seen, all |-> all] \in Travs
BY DEF Travs

\* A traversal begins before all keys.
LEMMA Begins ==
  ASSUME NEW T, WellFormed(T), NEW f \in [Keys -> Vals], Remembers(T, f),
         NEW r, r = [none EXCEPT !.all = {k \in Keys : f[k] # Nil}]
  PROVE  r \in Travs /\ Visiting(T, f, r)
<1>1. r = [state |-> "none", at |-> Nil, seen |-> {}, all |-> {k \in Keys : f[k] # Nil}]
  BY DEF none
<1>2. r \in Travs
  <2>1. PICK all \in SUBSET Keys : all = {k \in Keys : f[k] # Nil}
    OBVIOUS
  <2>2. PICK seen \in SUBSET Keys : seen = {}
    OBVIOUS
  <2>3. PICK state \in {"none", "under way", "done"} : state = "none"
    OBVIOUS
  <2>4. PICK at \in Keys \cup {Nil} : at = Nil
    OBVIOUS
  <2>5. r = [state |-> state, at |-> at, seen |-> seen, all |-> all]
    BY <1>1, <2>1, <2>2, <2>3, <2>4
  <2>6. [state |-> state, at |-> at, seen |-> seen, all |-> all] \in Travs
    BY TravIs
  <2> QED
    BY <2>5, <2>6
<1>3. findindex(T, Nil) = 0 /\ ~ isinvalid(T, Nil)
  BY DEF findindex, isinvalid
<1>4. ASSUME NEW k \in r.all PROVE f[k] # Nil /\ findindex(T, k) > 0
  <2>1. k \in Keys /\ f[k] # Nil
    BY <1>1, <1>4
  <2>2. findindex(T, k) \in 1..(sizearray(T) + sizenode(T))
    BY <2>1, ValueIndex
  <2>3. sizearray(T) \in Nat /\ sizenode(T) \in Nat
    BY TableSizes, SizesAre DEF WellFormed
  <2> QED
    BY <2>1, <2>2, <2>3
<1> QED
  BY <1>1, <1>2, <1>3, <1>4 DEF Visiting

\* It goes on after a step that moves no key, if the keys that lose their values are not
\* awaited any more.
LEMMA GoesOn ==
  ASSUME NEW T, WellFormed(T), NEW U, WellFormed(U), SameKeys(T, U), NEW f, NEW g,
         NEW r \in Travs, Visiting(T, f, r), NEW q \in Travs, q.at = r.at, q.seen = r.seen, q.all \subseteq r.all,
         \A k \in q.all : g[k] # Nil
  PROVE  Visiting(U, g, q)
<1>1. r.at \in Keys \cup {Nil} /\ r.seen \subseteq Keys /\ r.all \subseteq Keys
  BY DEF Travs
<1>2. \A k \in Keys \cup {Nil} : findindex(U, k) = findindex(T, k) /\ (isinvalid(U, k) <=> isinvalid(T, k))
  BY SameIndices
<1> QED
  BY <1>1, <1>2 DEF Visiting

-----------------------------------------------------------------------------
(* The length of a table.                                                       *)
\* A recursion that goes from one point to a lower one, until it stops, has a solution:
\* what it returns at the point where it stops.
Closed(P, stop, nx) == \A x \in P : x \notin stop => nx[x] \in P
Arrives(D, stop, nx, d, e) == \A P \in SUBSET D : d \in P /\ Closed(P, stop, nx) => e \in P
Lowers(D, stop, nx, rank) == \A d \in D : d \notin stop => rank[nx[d]] < rank[d]
Returns(f, D, stop, nx, out) ==
  f = [d \in D |-> f[d]] /\ \A d \in D : f[d] = IF d \in stop THEN out[d] ELSE f[nx[d]]
\* There is a function of this equation.
LEMMA TailRecursion ==
  ASSUME NEW D, NEW stop \in SUBSET D, NEW nx \in [D -> D], NEW rank \in [D -> Nat],
         Lowers(D, stop, nx, rank), NEW out
  PROVE  \E f : Returns(f, D, stop, nx, out)
<1> USE DEF Lowers
<1> DEFINE To(d, e) == Arrives(D, stop, nx, d, e)
<1>1. ASSUME NEW d \in stop, NEW e, To(d, e) PROVE e = d
  <2>1. PICK P : P = {d}
    OBVIOUS
  <2>2. P \in SUBSET D /\ d \in P /\ Closed(P, stop, nx)
    BY <2>1 DEF Closed
  <2> QED
    BY <1>1, <2>1, <2>2 DEF Arrives
<1>2. ASSUME NEW d \in stop PROVE To(d, d)
  BY DEF Arrives
<1>3. ASSUME NEW d \in D, d \notin stop, NEW e, To(nx[d], e) PROVE To(d, e)
  BY <1>3 DEF Arrives, Closed
<1>4. ASSUME NEW d \in D, d \notin stop, NEW e \in stop, To(d, e) PROVE To(nx[d], e)
  <2>1. SUFFICES ASSUME NEW P \in SUBSET D, nx[d] \in P, Closed(P, stop, nx) PROVE e \in P
    BY DEF Arrives
  <2>2. PICK Q : Q = P \cup {d}
    OBVIOUS
  <2>3. Q \in SUBSET D /\ d \in Q
    BY <2>2
  <2>4. Closed(Q, stop, nx)
    BY <2>1, <2>2 DEF Closed
  <2>5. e \in Q
    BY <1>4, <2>3, <2>4 DEF Arrives
  <2> QED
    BY <1>4, <2>2, <2>5
<1> HIDE DEF To
<1> DEFINE One(d) == \E e \in stop : To(d, e) /\ \A g \in stop : To(d, g) => g = e
<1>5. ASSUME NEW d \in D, d \notin stop, One(nx[d]) PROVE One(d)
  <2>1. PICK e \in stop : To(nx[d], e) /\ \A g \in stop : To(nx[d], g) => g = e
    BY <1>5
  <2>2. To(d, e)
    BY <1>3, <1>5, <2>1
  <2>3. \A g \in stop : To(d, g) => g = e
    BY <1>4, <1>5, <2>1
  <2> QED
    BY <2>2, <2>3
<1>6. \A d \in stop : One(d)
  BY <1>1, <1>2
<1> HIDE DEF One
<1>7. ASSUME NEW d \in D PROVE One(d)
  <2>1. SUFFICES ASSUME ~ One(d) PROVE FALSE
    OBVIOUS
  <2>2. PICK B : B = {x \in D : ~ One(x)}
    OBVIOUS
  <2>3. PICK R : R = {rank[x] : x \in B}
    OBVIOUS
  <2>4. R \subseteq Nat /\ R # {}
    BY <2>1, <2>2, <2>3
  <2>5. PICK n \in R : \A m \in R : n <= m
    BY <2>4, LeastNumber
  <2>6. PICK b \in B : rank[b] = n
    BY <2>3, <2>5
  <2>7. b \in D /\ ~ One(b)
    BY <2>2, <2>6
  <2>8. b \notin stop
    BY <1>6, <2>7
  <2>9. nx[b] \in B
    BY <1>5, <2>2, <2>7, <2>8
  <2>10. n <= rank[nx[b]] /\ rank[nx[b]] < n /\ n \in Nat /\ rank[nx[b]] \in Nat
    BY <2>2, <2>3, <2>4, <2>5, <2>6, <2>7, <2>8, <2>9
  <2> QED
    BY <2>10
<1> DEFINE end(d) == CHOOSE e \in stop : To(d, e)
<1>8. ASSUME NEW d \in D PROVE end(d) \in stop /\ To(d, end(d)) /\ \A g \in stop : To(d, g) => g = end(d)
  <2>1. PICK e \in stop : To(d, e) /\ \A g \in stop : To(d, g) => g = e
    BY <1>7 DEF One
  <2>2. end(d) \in stop /\ To(d, end(d))
    BY <2>1
  <2> HIDE DEF end
  <2> QED
    BY <2>1, <2>2
<1> HIDE DEF end
<1>9. PICK f : f = [d \in D |-> out[end(d)]]
  OBVIOUS
<1>10. f = [d \in D |-> f[d]]
  BY <1>9
<1>11. ASSUME NEW d \in D, d \in stop PROVE f[d] = out[d]
  <2>1. end(d) = d
    BY <1>2, <1>8, <1>11
  <2> QED
    BY <1>9, <2>1
<1>12. ASSUME NEW d \in D, d \notin stop PROVE f[d] = f[nx[d]]
  <2>1. nx[d] \in D
    OBVIOUS
  <2>2. end(d) \in stop /\ To(nx[d], end(d))
    BY <1>4, <1>8, <1>12
  <2>3. end(d) = end(nx[d])
    BY <1>8, <2>1, <2>2
  <2> QED
    BY <1>9, <2>1, <2>3
<1>13. Returns(f, D, stop, nx, out)
  BY <1>10, <1>11, <1>12 DEF Returns
<1> QED
  BY <1>13

\* The search between two indices.
LEMMA BinarysearchFinds ==
  ASSUME NEW filled, NEW low \in Nat, NEW high \in Nat, low < high, low = 0 \/ low \in filled,
         high \notin filled, NEW b, b = binarysearch(filled, low, high)
  PROVE  b \in low..(high - 1) /\ (b = 0 \/ b \in filled) /\ b + 1 \notin filled
<1>1. PICK D : D = Nat \X Nat
  OBVIOUS
<1>2. PICK stop : stop = {r \in D : r[2] - r[1] <= 1}
  OBVIOUS
<1> DEFINE Mid(r) == (r[1] + r[2]) \div 2
           Half(r) == IF Mid(r) \in filled THEN <<Mid(r), r[2]>> ELSE <<r[1], Mid(r)>>
           Span(r) == IF r[1] < r[2] THEN r[2] - r[1] ELSE 0
<1>3. ASSUME NEW r \in D
      PROVE  /\ r[1] \in Nat /\ r[2] \in Nat /\ Mid(r) \in Nat /\ Half(r) \in D /\ Span(r) \in Nat
             /\ r \notin stop => r[1] < Mid(r) /\ Mid(r) < r[2]
  <2>1. r[1] \in Nat /\ r[2] \in Nat
    BY <1>1
  <2>2. Mid(r) \in Nat
    BY <2>1
  <2>3. Half(r) \in D
    BY <1>1, <2>1, <2>2
  <2>4. Span(r) \in Nat
    BY <2>1
  <2>5. ASSUME r \notin stop PROVE r[1] < Mid(r) /\ Mid(r) < r[2]
    <3>1. r[2] - r[1] > 1
      BY <1>2, <2>1, <2>5
    <3> QED
      BY <2>1, <3>1
  <2> QED
    BY <2>1, <2>2, <2>3, <2>4, <2>5
<1>4. ASSUME NEW r \in D, r \notin stop PROVE Span(Half(r)) < Span(r)
  <2>1. r[1] \in Nat /\ r[2] \in Nat /\ Mid(r) \in Nat /\ r[1] < Mid(r) /\ Mid(r) < r[2]
    BY <1>3, <1>4
  <2> HIDE DEF Mid
  <2>2. CASE Mid(r) \in filled
    <3>1. Half(r)[1] = Mid(r) /\ Half(r)[2] = r[2]
      BY <2>2
    <3> QED
      BY <2>1, <3>1
  <2>3. CASE Mid(r) \notin filled
    <3>1. Half(r)[1] = r[1] /\ Half(r)[2] = Mid(r)
      BY <2>3
    <3> QED
      BY <2>1, <3>1
  <2> QED
    BY <2>2, <2>3
<1>5. PICK nx : nx = [r \in D |-> Half(r)]
  OBVIOUS
<1>6. PICK rank : rank = [r \in D |-> Span(r)]
  OBVIOUS
<1>7. PICK out : out = [r \in D |-> r[1]]
  OBVIOUS
<1> HIDE DEF Half, Span
<1>8. nx \in [D -> D] /\ rank \in [D -> Nat] /\ out \in [D -> Nat] /\ stop \in SUBSET D
  BY <1>2, <1>3, <1>5, <1>6, <1>7
<1>9. Lowers(D, stop, nx, rank)
  BY <1>3, <1>4, <1>5, <1>6 DEF Lowers
<1>10. PICK g : Returns(g, D, stop, nx, out)
  BY <1>8, <1>9, TailRecursion
<1> DEFINE Eqn(f) == f = [r \in Nat \X Nat |-> IF r[2] - r[1] <= 1 THEN r[1]
                            ELSE f[IF (r[1] + r[2]) \div 2 \in filled THEN <<(r[1] + r[2]) \div 2, r[2]>>
                                   ELSE <<r[1], (r[1] + r[2]) \div 2>>]]
<1>11. Eqn(g)
  <2>1. ASSUME NEW r \in D
        PROVE  g[r] = IF r[2] - r[1] <= 1 THEN r[1]
                      ELSE g[IF (r[1] + r[2]) \div 2 \in filled THEN <<(r[1] + r[2]) \div 2, r[2]>>
                             ELSE <<r[1], (r[1] + r[2]) \div 2>>]
    <3>1. r \in stop <=> r[2] - r[1] <= 1
      BY <1>2
    <3>2. out[r] = r[1] /\ nx[r] = Half(r)
      BY <1>5, <1>7
    <3>3. g[r] = IF r \in stop THEN out[r] ELSE g[nx[r]]
      BY <1>10 DEF Returns
    <3> QED
      BY <3>1, <3>2, <3>3 DEF Half
  <2>2. g = [r \in D |-> g[r]]
    BY <1>10 DEF Returns
  <2> QED
    BY <1>1, <2>1, <2>2
<1>12. PICK f : f = CHOOSE h : Eqn(h)
  OBVIOUS
<1>13. Eqn(f)
  BY <1>11, <1>12
<1>14. b = f[<<low, high>>]
  BY <1>12 DEF binarysearch
<1>15. ASSUME NEW r \in D PROVE f[r] = IF r \in stop THEN r[1] ELSE f[Half(r)]
  BY <1>1, <1>2, <1>13 DEF Half
<1> HIDE DEF Eqn
<1> DEFINE Between(r) == r[1] < r[2] /\ (r[1] = 0 \/ r[1] \in filled) /\ r[2] \notin filled
           Result(r, x) == x \in r[1]..(r[2] - 1) /\ (x = 0 \/ x \in filled) /\ x + 1 \notin filled
<1>16. ASSUME NEW r \in D, Between(r), r \in stop PROVE Result(r, f[r])
  <2>1. r[1] \in Nat /\ r[2] \in Nat /\ r[2] = r[1] + 1
    BY <1>2, <1>3, <1>16
  <2>2. f[r] = r[1]
    BY <1>15, <1>16
  <2> QED
    BY <1>16, <2>1, <2>2
<1>17. ASSUME NEW r \in D, Between(r), r \notin stop, Between(Half(r)) => Result(Half(r), f[Half(r)]) PROVE Result(r, f[r])
  <2>1. r[1] \in Nat /\ r[2] \in Nat /\ Mid(r) \in Nat /\ r[1] < Mid(r) /\ Mid(r) < r[2]
    BY <1>3, <1>17
  <2>2. f[r] = f[Half(r)]
    BY <1>15, <1>17
  <2>3. \/ Mid(r) \in filled /\ Half(r)[1] = Mid(r) /\ Half(r)[2] = r[2]
        \/ Mid(r) \notin filled /\ Half(r)[1] = r[1] /\ Half(r)[2] = Mid(r)
    BY DEF Half
  <2> HIDE DEF Mid
  <2>4. Between(Half(r))
    BY <1>17, <2>1, <2>3
  <2>5. PICK x : x = f[Half(r)]
    OBVIOUS
  <2>6. Result(Half(r), x)
    BY <1>17, <2>4, <2>5
  <2>7. x \in r[1]..(r[2] - 1)
    BY <2>1, <2>3, <2>6
  <2> QED
    BY <2>2, <2>5, <2>6, <2>7
<1> HIDE DEF Result, Mid
<1>18. ASSUME NEW d \in D, Between(d) PROVE Result(d, f[d])
  <2>1. SUFFICES ASSUME ~ Result(d, f[d]) PROVE FALSE
    OBVIOUS
  <2>2. PICK B : B = {r \in D : Between(r) /\ ~ Result(r, f[r])}
    OBVIOUS
  <2>3. PICK R : R = {Span(r) : r \in B}
    OBVIOUS
  <2>4. R \subseteq Nat /\ R # {}
    BY <1>3, <1>18, <2>1, <2>2, <2>3
  <2>5. PICK n \in R : \A m \in R : n <= m
    BY <2>4, LeastNumber
  <2>6. PICK r \in B : Span(r) = n
    BY <2>3, <2>5
  <2>7. r \in D /\ Between(r) /\ ~ Result(r, f[r])
    BY <2>2, <2>6
  <2> HIDE DEF Between
  <2>8. r \notin stop
    BY <1>16, <2>7
  <2>9. Half(r) \in D
    BY <1>3, <2>7
  <2>10. Half(r) \in B
    BY <1>17, <2>2, <2>7, <2>8, <2>9
  <2>11. n <= Span(Half(r)) /\ Span(Half(r)) < n /\ n \in Nat /\ Span(Half(r)) \in Nat
    BY <1>4, <2>3, <2>4, <2>5, <2>6, <2>7, <2>8, <2>10
  <2> QED
    BY <2>11
<1>19. PICK d : d = <<low, high>>
  OBVIOUS
<1>20. d \in D /\ d[1] = low /\ d[2] = high
  BY <1>1, <1>19
<1>21. Result(d, b)
  BY <1>14, <1>18, <1>19, <1>20
<1> QED
  BY <1>20, <1>21 DEF Result

\* A border of a table.
Border(T, n) == n \in Nat /\ (n = 0 \/ present(T, n)) /\ ~ present(T, n + 1)

\* The search in steps of one ends at the first absent index.
LEMMA LinearsearchFinds ==
  ASSUME NEW T, NEW i \in 1..(MAX_INT + 1), ~ present(T, i), NEW n, n = linearsearch(T)
  PROVE  Border(T, n)
<1>1. MAX_INT \in Nat
  BY MaxnumberType
<1>2. PICK A : A = {m \in 1..(MAX_INT + 1) : ~ present(T, m)}
  OBVIOUS
<1>3. A \subseteq Nat /\ A # {}
  BY <1>2
<1>4. PICK m \in A : \A x \in A : m <= x
  BY <1>3, LeastNumber
<1>5. m \in 1..(MAX_INT + 1) /\ ~ present(T, m)
  BY <1>2, <1>4
<1>6. ASSUME NEW x \in 1..(m - 1) PROVE present(T, x)
  <2>1. x \in 1..(MAX_INT + 1) /\ ~ m <= x
    BY <1>1, <1>5
  <2> QED
    BY <1>2, <1>4, <2>1
<1>7. PICK c : c = CHOOSE first \in 1..(MAX_INT + 1) : ~ present(T, first) /\ \A x \in 1..(first - 1) : present(T, x)
  OBVIOUS
<1>8. c \in 1..(MAX_INT + 1) /\ ~ present(T, c) /\ \A x \in 1..(c - 1) : present(T, x)
  BY <1>5, <1>6, <1>7
<1>9. n = c - 1
  BY <1>7 DEF linearsearch
<1>10. n \in Nat /\ n + 1 = c
  BY <1>1, <1>8, <1>9
<1>11. n = 0 \/ n \in 1..(c - 1)
  BY <1>8, <1>9, <1>10
<1> QED
  BY <1>8, <1>10, <1>11 DEF Border

\* The search beyond an index that is 0 or present.
LEMMA UnboundFinds ==
  ASSUME NEW T, NEW absent \in 1..(MAX_INT + 1), ~ present(T, absent),
         NEW from \in Nat, from = 0 \/ present(T, from), NEW n, n = unbound_search(T, from)
  PROVE  Border(T, n)
<1>1. MAX_INT \in Nat
  BY MaxnumberType
<1>2. PICK D : D = Nat \X (Nat \ {0})
  OBVIOUS
<1>3. PICK stop : stop = {r \in D : r[2] > MAX_INT \/ ~ present(T, r[2])}
  OBVIOUS
<1> DEFINE Twice(r) == <<r[2], 2 * r[2]>>
           Span(r) == IF r[2] <= MAX_INT THEN MAX_INT + 1 - r[2] ELSE 0
           Out(r) == IF r[2] > MAX_INT THEN linearsearch(T)
                     ELSE binarysearch({m \in r[1]..r[2] : present(T, m)}, r[1], r[2])
<1>4. ASSUME NEW r \in D
      PROVE  /\ r[1] \in Nat /\ r[2] \in Nat \ {0} /\ Twice(r) \in D /\ Span(r) \in Nat
             /\ Twice(r)[1] = r[2] /\ Twice(r)[2] = 2 * r[2]
  <2>1. r[1] \in Nat /\ r[2] \in Nat \ {0}
    BY <1>2
  <2>2. Twice(r) \in D /\ Twice(r)[1] = r[2] /\ Twice(r)[2] = 2 * r[2]
    BY <1>2, <2>1
  <2> QED
    BY <1>1, <2>1, <2>2
<1>5. ASSUME NEW r \in D, r \notin stop PROVE Span(Twice(r)) < Span(r)
  <2>1. r[2] <= MAX_INT
    <3>1. ~ r[2] > MAX_INT
      BY <1>3, <1>5
    <3>2. r[2] \in Nat
      BY <1>4
    <3> QED
      BY <1>1, <3>1, <3>2
  <2>2. PICK q : q = Twice(r)
    OBVIOUS
  <2>3. q[2] = 2 * r[2] /\ r[2] \in Nat \ {0}
    BY <1>4, <2>2
  <2>4. Span(q) < Span(r)
    BY <1>1, <2>1, <2>3
  <2> QED
    BY <2>2, <2>4
<1>6. PICK nx : nx = [r \in D |-> Twice(r)]
  OBVIOUS
<1>7. PICK rank : rank = [r \in D |-> Span(r)]
  OBVIOUS
<1>8. PICK out : out = [r \in D |-> Out(r)]
  OBVIOUS
<1> HIDE DEF Twice, Span, Out
<1>9. nx \in [D -> D] /\ rank \in [D -> Nat] /\ stop \in SUBSET D
  BY <1>3, <1>4, <1>6, <1>7
<1>10. Lowers(D, stop, nx, rank)
  BY <1>4, <1>5, <1>6, <1>7 DEF Lowers
<1>11. PICK g : Returns(g, D, stop, nx, out)
  BY <1>9, <1>10, TailRecursion
<1> DEFINE Eqn(f) == f = [r \in Nat \X (Nat \ {0}) |->
                            IF r[2] > MAX_INT THEN linearsearch(T)
                            ELSE IF present(T, r[2]) THEN f[<<r[2], 2 * r[2]>>]
                            ELSE binarysearch({m \in r[1]..r[2] : present(T, m)}, r[1], r[2])]
<1>12. Eqn(g)
  <2>1. ASSUME NEW r \in D
        PROVE  g[r] = IF r[2] > MAX_INT THEN linearsearch(T)
                      ELSE IF present(T, r[2]) THEN g[<<r[2], 2 * r[2]>>]
                      ELSE binarysearch({m \in r[1]..r[2] : present(T, m)}, r[1], r[2])
    <3>1. r \in stop <=> r[2] > MAX_INT \/ ~ present(T, r[2])
      BY <1>3
    <3>2. out[r] = Out(r) /\ nx[r] = Twice(r)
      BY <1>6, <1>8
    <3>3. g[r] = IF r \in stop THEN Out(r) ELSE g[Twice(r)]
      BY <1>11, <3>2 DEF Returns
    <3>4. PICK b : b = binarysearch({m \in r[1]..r[2] : present(T, m)}, r[1], r[2])
      OBVIOUS
    <3>5. Out(r) = IF r[2] > MAX_INT THEN linearsearch(T) ELSE b
      BY <3>4 DEF Out
    <3>6. g[r] = IF r[2] > MAX_INT THEN linearsearch(T) ELSE IF present(T, r[2]) THEN g[<<r[2], 2 * r[2]>>] ELSE b
      BY <3>1, <3>3, <3>5 DEF Twice
    <3> QED
      BY <3>4, <3>6
  <2>2. g = [r \in D |-> g[r]]
    BY <1>11 DEF Returns
  <2> QED
    BY <1>2, <2>1, <2>2
<1>13. PICK f : f = CHOOSE h : Eqn(h)
  OBVIOUS
<1>14. Eqn(f)
  BY <1>12, <1>13
<1>15. n = f[<<from, from + 1>>]
  BY <1>13 DEF unbound_search
<1>16. ASSUME NEW r \in D PROVE f[r] = IF r \in stop THEN Out(r) ELSE f[Twice(r)]
  BY <1>2, <1>3, <1>14 DEF Out, Twice
<1> HIDE DEF Eqn
<1> DEFINE Starts(r) == r[1] < r[2] /\ (r[1] = 0 \/ present(T, r[1]))
<1>17. ASSUME NEW r \in D, Starts(r), r \in stop PROVE Border(T, f[r])
  <2>1. f[r] = Out(r)
    BY <1>16, <1>17
  <2>2. CASE r[2] > MAX_INT
    <3>1. Out(r) = linearsearch(T)
      BY <2>2 DEF Out
    <3> QED
      BY <2>1, <3>1, LinearsearchFinds
  <2>3. CASE ~ r[2] > MAX_INT
    <3>1. PICK i \in Nat : i = r[1]
      BY <1>4
    <3>2. PICK j \in Nat : j = r[2]
      BY <1>4
    <3>3. PICK filled : filled = {m \in i..j : present(T, m)}
      OBVIOUS
    <3>4. PICK b : b = binarysearch(filled, i, j)
      OBVIOUS
    <3>5. Out(r) = b
      BY <2>3, <3>1, <3>2, <3>3, <3>4 DEF Out
    <3>6. i < j /\ (i = 0 \/ i \in filled)
      BY <1>17, <3>1, <3>2, <3>3
    <3>7. j \notin filled
      BY <1>3, <1>17, <2>3, <3>2, <3>3
    <3>8. b \in i..(j - 1) /\ (b = 0 \/ b \in filled) /\ b + 1 \notin filled
      BY <3>4, <3>6, <3>7, BinarysearchFinds
    <3>9. b \in Nat /\ b + 1 \in i..j
      BY <3>8
    <3>10. ~ present(T, b + 1) /\ (b = 0 \/ present(T, b))
      BY <3>3, <3>8, <3>9
    <3> QED
      BY <2>1, <3>5, <3>9, <3>10 DEF Border
  <2> QED
    BY <2>2, <2>3
<1>18. ASSUME NEW r \in D, Starts(r), r \notin stop, Starts(Twice(r)) => Border(T, f[Twice(r)]) PROVE Border(T, f[r])
  <2>1. present(T, r[2]) /\ r[2] \in Nat \ {0} /\ Twice(r)[1] = r[2] /\ Twice(r)[2] = 2 * r[2]
    BY <1>3, <1>4, <1>18
  <2>2. r[2] < 2 * r[2]
    BY <2>1
  <2>3. Starts(Twice(r))
    BY <2>1, <2>2
  <2> HIDE DEF Starts
  <2> QED
    BY <1>16, <1>18, <2>3
<1>19. ASSUME NEW d \in D, Starts(d) PROVE Border(T, f[d])
  <2>1. SUFFICES ASSUME ~ Border(T, f[d]) PROVE FALSE
    OBVIOUS
  <2> HIDE DEF Starts
  <2>2. PICK B : B = {r \in D : Starts(r) /\ ~ Border(T, f[r])}
    OBVIOUS
  <2>3. PICK R : R = {Span(r) : r \in B}
    OBVIOUS
  <2>4. R \subseteq Nat /\ R # {}
    BY <1>4, <1>19, <2>1, <2>2, <2>3
  <2>5. PICK m \in R : \A x \in R : m <= x
    BY <2>4, LeastNumber
  <2>6. PICK r \in B : Span(r) = m
    BY <2>3, <2>5
  <2>7. r \in D /\ Starts(r) /\ ~ Border(T, f[r])
    BY <2>2, <2>6
  <2>8. r \notin stop
    BY <1>17, <2>7
  <2>9. Twice(r) \in D
    BY <1>4, <2>7
  <2>10. Twice(r) \in B
    BY <1>18, <2>2, <2>7, <2>8, <2>9
  <2>11. m <= Span(Twice(r)) /\ Span(Twice(r)) < m /\ m \in Nat /\ Span(Twice(r)) \in Nat
    BY <1>5, <2>3, <2>4, <2>5, <2>6, <2>7, <2>8, <2>10
  <2> QED
    BY <2>11
<1>20. PICK d : d = <<from, from + 1>>
  OBVIOUS
<1>21. d \in D /\ d[1] = from /\ d[2] = from + 1 /\ from < from + 1
  BY <1>2, <1>20
<1>22. Border(T, f[d])
  BY <1>19, <1>21
<1> QED
  BY <1>15, <1>20, <1>22

\* luaH_getn returns a border, be the array part full, empty or with holes.
LEMMA GetnFinds ==
  ASSUME NEW T, WellFormed(T), NEW f, Remembers(T, f), NEW n, n = luaH_getn(T)
  PROVE  Border(T, n)
<1>1. /\ Typed(T) /\ MAX_INT \in Nat /\ MAX_INT < MAXNUMBER /\ MAXNUMBER \in Nat
      /\ sizearray(T) \in 0..MAX_INT /\ DOMAIN T.array = 1..sizearray(T) /\ DOMAIN T.node = 1..sizenode(T)
  BY TableSizes, MaxnumberType DEF WellFormed
<1>2. PICK N \in Nat : N = sizearray(T)
  BY <1>1
<1>3. N <= MAX_INT /\ \A i \in 1..(MAX_INT + 1) : i \in AnyKey
  BY <1>1, <1>2 DEF AnyKey
<1>4. ASSUME NEW i \in 1..N PROVE luaH_get(T, i) = T.array[i]
  <2>1. i \in AnyKey
    BY <1>1, <1>3
  <2> QED
    BY <1>1, <1>2, <2>1, InarrayType DEF luaH_get
<1>5. CASE N > 0 /\ T.array[N] = Nil
  <2>1. PICK filled : filled = {m \in 1..N : T.array[m] # Nil}
    OBVIOUS
  <2>2. n = binarysearch(filled, 0, N)
    BY <1>2, <1>5, <2>1 DEF luaH_getn
  <2>3. 0 \in Nat /\ 0 < N /\ N \notin filled
    BY <1>5, <2>1
  <2>4. n \in 0..(N - 1) /\ (n = 0 \/ n \in filled) /\ n + 1 \notin filled
    BY <2>2, <2>3, BinarysearchFinds
  <2>5. n \in Nat /\ n + 1 \in 1..N
    BY <2>4
  <2>6. n = 0 \/ present(T, n)
    <3>1. CASE n # 0
      <4>1. n \in 1..N /\ T.array[n] # Nil
        BY <2>1, <2>4, <3>1
      <4> QED
        BY <1>4, <4>1 DEF present
    <3> QED
      BY <3>1
  <2>7. ~ present(T, n + 1)
    <3>1. T.array[n + 1] = Nil
      BY <2>1, <2>4, <2>5
    <3> QED
      BY <1>4, <2>5, <3>1 DEF present
  <2> QED
    BY <2>5, <2>6, <2>7 DEF Border
<1>6. ASSUME ~ (N > 0 /\ T.array[N] = Nil) PROVE N = 0 \/ present(T, N)
  <2>1. CASE N # 0
    <3>1. N \in 1..N /\ T.array[N] # Nil
      BY <1>6, <2>1
    <3> QED
      BY <1>4, <3>1 DEF present
  <2> QED
    BY <2>1
<1>7. CASE ~ (N > 0 /\ T.array[N] = Nil) /\ T.dummy
  <2>1. n = N
    BY <1>2, <1>7 DEF luaH_getn
  <2>2. PICK i : i = N + 1
    OBVIOUS
  <2>3. i \in 1..(MAX_INT + 1) /\ i \notin 1..N
    BY <1>1, <1>3, <2>2
  <2>4. i \in AnyKey /\ i # Nil /\ ~ inarray(T, i)
    <3>1. i \in AnyKey
      BY <1>3, <2>3
    <3> QED
      BY <1>1, <1>2, <2>3, <3>1, InarrayType, KeysDiffer
  <2>5. \A x \in DOMAIN T.node : T.node[x].key = Nil
    BY <1>1, <1>7 DEF WellFormed, Spare
  <2>6. \A v \in Values : ~ Holds(T, i, v)
    BY <2>4, <2>5 DEF Holds
  <2>7. luaH_get(T, i) = Nil
    <3>1. luaH_get(T, i) \in Vals /\ \A v \in Values : luaH_get(T, i) = v <=> Holds(T, i, v)
      BY <2>4, GetReturns
    <3> QED
      BY <2>6, <3>1 DEF Vals
  <2> QED
    BY <1>6, <1>7, <2>1, <2>2, <2>7 DEF Border, present
<1>8. CASE ~ (N > 0 /\ T.array[N] = Nil) /\ ~ T.dummy
  <2>1. n = unbound_search(T, N)
    BY <1>2, <1>8 DEF luaH_getn
  <2>2. PICK i \in 1..(MAX_INT + 1) : i \notin Numbers
    BY SizesAre
  <2>3. i \in AnyKey /\ i \in Nat
    BY <1>1, <1>3
  <2>4. i \notin Keys
    <3>1. i \notin Strings \cup Objects
      BY <2>3, KeysAssumption
    <3> QED
      BY <2>2, <3>1 DEF Keys
  <2>5. ~ present(T, i)
    <3>1. luaH_get(T, i) \in Vals /\ \A v \in Values : luaH_get(T, i) = v <=> Holds(T, i, v)
      BY <2>3, GetReturns
    <3>2. \A v \in Values : ~ Holds(T, i, v)
      BY <2>3, <2>4 DEF Remembers
    <3> QED
      BY <3>1, <3>2 DEF Vals, present
  <2>6. N = 0 \/ present(T, N)
    BY <1>6, <1>8
  <2> QED
    BY <2>1, <2>5, <2>6, UnboundFinds
<1> QED
  BY <1>5, <1>7, <1>8

\* The sizes of a rehash are those of the half-full array part, counted in the fields.
LEMMA InUseIs ==
  ASSUME NEW T, NEW f \in [Keys -> Vals], Remembers(T, f), NEW k \in Keys,
         NEW g, g[k] # Nil, \A j \in Keys : j # k => g[j] = f[j], NEW n \in Nat
  PROVE  InUse(T, k, n) = inuse(g, n)
<1>1. PICK A : A = Used(T, k) \cap 1..n
  OBVIOUS
<1>2. PICK B : B = {i \in Numbers : i \in 1..n /\ g[i] # Nil}
  OBVIOUS
<1>3. ASSUME NEW j \in 1..n PROVE j \in Keys <=> j \in Numbers
  BY KeysAssumption DEF Keys
<1>4. ASSUME NEW j \in Keys PROVE j \in Used(T, k) <=> g[j] # Nil
  <2>1. CASE j = k
    BY <2>1 DEF Used
  <2>2. CASE j # k
    <3>1. j \in AnyKey /\ g[j] = f[j] /\ f[j] \in Vals
      BY <2>2 DEF AnyKey
    <3>2. (\E w \in Values : Holds(T, j, w)) <=> f[j] \in Values
      BY <3>1 DEF Remembers
    <3>3. f[j] \in Values <=> f[j] # Nil
      BY <3>1, KeysAssumption DEF Vals
    <3> QED
      BY <2>2, <3>1, <3>2, <3>3 DEF Used
  <2> QED
    BY <2>1, <2>2
<1>5. A = B
  <2>1. ASSUME NEW j \in A PROVE j \in B
    <3>1. j \in Used(T, k) /\ j \in 1..n /\ j \in Keys
      BY <1>1 DEF Used
    <3> QED
      BY <1>2, <1>3, <1>4, <3>1
  <2>2. ASSUME NEW j \in B PROVE j \in A
    <3>1. j \in Numbers /\ j \in 1..n /\ g[j] # Nil
      BY <1>2
    <3> QED
      BY <1>1, <1>3, <1>4, <3>1
  <2> QED
    BY <2>1, <2>2
<1> QED
  BY <1>1, <1>2, <1>5 DEF InUse, inuse

-----------------------------------------------------------------------------
(* The invariant of a table.                                                    *)
TravInv(T, f, r) ==
  /\ r \in Travs
  /\ r.state = "done" => r.all \subseteq r.seen
  /\ r.state = "under way" => ~ T.constructor /\ Visiting(T, f, r)
Kept(T, f) == /\ WellFormed(T) /\ T.full = FALSE /\ T.badsizes = FALSE
              /\ f \in [Keys -> Vals] /\ Remembers(T, f)
IInv == Kept(t, field) /\ TravInv(t, field, trav)

\* A new table is well formed and has no value.
LEMMA InitIInv == Init => IInv
<1>1. SUFFICES ASSUME Init PROVE IInv
  OBVIOUS
<1>2. PICK size \in Sizes, keys \in Programs : t = luaH_new(size, keys)
  BY <1>1 DEF Init
<1>3. PICK N \in 0..MAXASIZE : N = size.narray
  BY SizesAre
<1>4. PICK H \in Nat : H = size.nhash
  BY SizesAre
<1>5. PICK array : array = [i \in 1..N |-> Nil]
  OBVIOUS
<1>6. N \in Nat /\ array \in Seq(Vals) /\ Len(array) = N /\ DOMAIN array = 1..N /\ \A i \in 1..N : array[i] = Nil
  BY <1>5, MaxnumberType DEF Vals
<1>7. PICK T : T = [array |-> array, node |-> <<>>, dummy |-> TRUE, lastfree |-> 1,
                    full |-> FALSE, badsizes |-> FALSE, keys |-> keys, constructor |-> TRUE]
  OBVIOUS
<1>8. T \in Tables
  <2>1. keys \in SUBSET Keys
    BY KeysAssumption DEF Keys
  <2>2. PICK node \in Seq(Nodes) : node = <<>>
    BY EmptySeq
  <2>3. T = [array |-> array, node |-> node, dummy |-> TRUE, lastfree |-> 1,
             full |-> FALSE, badsizes |-> FALSE, keys |-> keys, constructor |-> TRUE]
    BY <1>7, <2>2
  <2> QED
    BY <1>6, <2>1, <2>3 DEF Tables
<1>9. T.array = array /\ sizearray(T) = N /\ T.full = FALSE /\ T.badsizes = FALSE
  BY <1>6, <1>7 DEF sizearray
<1>10. t = setnodevector(T, H)
  BY <1>2, <1>3, <1>4, <1>5, <1>7 DEF luaH_new
<1>11. sizearray(T) <= MAXASIZE /\ \A i \in DOMAIN T.array : T.array[i] # Nil => i \in Numbers
  BY <1>6, <1>9, MaxnumberType
<1>12. /\ WellFormed(t) /\ t.array = array
       /\ DOMAIN t.node = 1..sizenode(t) /\ \A n \in 1..sizenode(t) : t.node[n] = emptynode
       /\ t.full = FALSE /\ t.badsizes = FALSE
  BY <1>8, <1>9, <1>10, <1>11, NewNodeVector
<1>13. field = [k \in Keys |-> Nil] /\ field \in [Keys -> Vals]
  BY <1>1 DEF Init, Vals
<1>14. Remembers(t, field)
  <2>1. SUFFICES ASSUME NEW j \in AnyKey, NEW w \in Values PROVE Holds(t, j, w) <=> j \in Keys /\ field[j] = w
    BY DEF Remembers
  <2>2. w # Nil
    BY KeysAssumption
  <2>3. ~ Holds(t, j, w)
    <3>1. CASE inarray(t, j)
      <4>1. j \in 1..sizearray(t) /\ sizearray(t) = N
        BY <1>6, <1>12, <3>1, InarrayType DEF WellFormed, sizearray
      <4> QED
        BY <1>6, <1>12, <2>2, <3>1, <4>1 DEF Holds
    <3>2. CASE ~ inarray(t, j)
      BY <1>12, <2>2, <3>2 DEF Holds, emptynode
    <3> QED
      BY <3>1, <3>2
  <2> QED
    BY <1>13, <2>2, <2>3
<1>15. TravInv(t, field, trav)
  <2>1. PICK sets \in SUBSET Keys : sets = {}
    OBVIOUS
  <2>2. trav = [state |-> "none", at |-> Nil, seen |-> sets, all |-> sets]
    BY <1>1, <2>1 DEF Init, none
  <2>3. trav \in Travs
    BY <2>2, TravIs
  <2>4. trav.state = "none"
    BY <2>2
  <2> QED
    BY <2>3, <2>4 DEF TravInv
<1> QED
  BY <1>12, <1>13, <1>14, <1>15 DEF IInv, Kept

\* No traversal, and one that goes on.
LEMMA Rests ==
  ASSUME TravInv(t, field, trav)
  PROVE  /\ none \in Travs /\ none.state = "none" /\ none.all = {}
         /\ resting \in Travs /\ (resting = none \/ (resting = trav /\ trav.state = "under way"))
<1>1. none \in Travs /\ none.state = "none" /\ none.all = {}
  <2>1. PICK sets \in SUBSET Keys : sets = {}
    OBVIOUS
  <2>2. none = [state |-> "none", at |-> Nil, seen |-> sets, all |-> sets]
    BY <2>1 DEF none
  <2>3. none \in Travs
    BY <2>2, TravIs
  <2> QED
    BY <2>1, <2>2, <2>3
<1>2. resting \in Travs /\ (resting = none \/ (resting = trav /\ trav.state = "under way"))
  BY <1>1 DEF resting, TravInv
<1> QED
  BY <1>1, <1>2

\* A step that moves no key keeps the invariant of the traversal.
LEMMA TravGoesOn ==
  ASSUME TravInv(t, field, trav), WellFormed(t), NEW U, WellFormed(U), SameKeys(t, U), U.constructor = t.constructor,
         NEW g, NEW q \in Travs, q.state = resting.state, q.at = resting.at, q.seen = resting.seen,
         q.all \subseteq resting.all,
         \A k \in q.all : field[k] # Nil => g[k] # Nil
  PROVE  TravInv(U, g, q)
<1>1. none \in Travs /\ none.state = "none" /\ none.all = {}
      /\ (resting = none \/ (resting = trav /\ trav.state = "under way"))
  BY Rests
<1>2. CASE resting = none
  <2>1. q.state = "none"
    BY <1>1, <1>2
  <2> QED
    BY <2>1 DEF TravInv
<1>3. CASE resting = trav /\ trav.state = "under way"
  <2>1. trav \in Travs /\ ~ t.constructor /\ Visiting(t, field, trav)
    BY <1>3 DEF TravInv
  <2>2. \A k \in q.all : g[k] # Nil
    BY <1>3, <2>1 DEF Visiting
  <2>3. Visiting(U, g, q)
    BY <1>3, <2>1, <2>2, GoesOn
  <2> QED
    BY <1>3, <2>1, <2>3 DEF TravInv
<1> QED
  BY <1>1, <1>2, <1>3

\* An assignment: the traversal goes on if the key has a place.
LEMMA SettableKeeps == IInv /\ Settable => IInv'
<1>1. SUFFICES ASSUME IInv, Settable PROVE IInv'
  OBVIOUS
<1>2. PICK k \in t.keys, v \in Values \cup {Nil} :
        /\ t' = luaH_set(t, k, v) /\ field' = [field EXCEPT ![k] = v]
        /\ trav' = IF ~ found(t, k) THEN none
                   ELSE IF v = Nil THEN [resting EXCEPT !.all = @ \ {k}] ELSE resting
  BY <1>1 DEF Settable
<1>3. WellFormed(t) /\ t.full = FALSE /\ t.badsizes = FALSE /\ field \in [Keys -> Vals] /\ Remembers(t, field)
      /\ TravInv(t, field, trav)
  BY <1>1 DEF IInv, Kept
<1>4. k \in Keys /\ v \in Vals
  BY <1>2, <1>3 DEF WellFormed, Typed, Tables, Vals
<1>5. PICK U : U = t'
  OBVIOUS
<1>6. PICK g : g = field'
  OBVIOUS
<1>7. /\ WellFormed(U) /\ Assigns(t, U, k, v) /\ U.full = t.full /\ U.badsizes = t.badsizes /\ U.constructor = t.constructor
      /\ found(t, k) => U = assign(t, k, v)
  BY <1>2, <1>3, <1>4, <1>5, SetKeeps
<1>8. g \in [Keys -> Vals] /\ g[k] = v /\ \A j \in Keys : j # k => g[j] = field[j]
  BY <1>2, <1>3, <1>4, <1>6
<1>9. Remembers(U, g)
  BY <1>3, <1>4, <1>7, <1>8 DEF Remembers, Assigns
<1>10. PICK q : q = trav'
  OBVIOUS
<1>11. /\ none \in Travs /\ none.state = "none" /\ none.all = {}
       /\ resting \in Travs /\ (resting = none \/ (resting = trav /\ trav.state = "under way"))
  BY <1>3, Rests
<1>12. CASE ~ found(t, k)
  <2>1. q = none
    BY <1>2, <1>10, <1>12
  <2>2. TravInv(U, g, q)
    BY <1>11, <2>1 DEF TravInv
  <2> QED
    BY <1>3, <1>5, <1>6, <1>7, <1>8, <1>9, <1>10, <2>2 DEF IInv, Kept
<1>13. CASE found(t, k)
  <2>1. SameKeys(t, U)
    BY <1>3, <1>4, <1>7, <1>13, AssignAssigns DEF SameKeys, SameSizes
  <2>2. /\ q \in Travs /\ q.state = resting.state /\ q.at = resting.at /\ q.seen = resting.seen
        /\ q.all \subseteq resting.all /\ (v = Nil => k \notin q.all)
    <3>1. CASE v = Nil
      <4>1. PICK all : all = resting.all \ {k}
        OBVIOUS
      <4>2. all \in SUBSET Keys
        BY <1>11, <4>1 DEF Travs
      <4>3. q = [resting EXCEPT !.all = all]
        BY <1>2, <1>10, <1>13, <3>1, <4>1
      <4>4. q \in Travs /\ q.state = resting.state /\ q.at = resting.at /\ q.seen = resting.seen /\ q.all = all
        BY <1>11, <4>2, <4>3 DEF Travs
      <4> QED
        BY <4>1, <4>4
    <3>2. CASE v # Nil
      BY <1>2, <1>10, <1>11, <1>13, <3>2
    <3> QED
      BY <3>1, <3>2
  <2>3. \A j \in q.all : field[j] # Nil => g[j] # Nil
    <3>1. q.all \subseteq Keys
      BY <2>2 DEF Travs
    <3> QED
      BY <1>8, <2>2, <3>1
  <2>4. TravInv(U, g, q)
    BY <1>3, <1>7, <2>1, <2>2, <2>3, TravGoesOn
  <2> QED
    BY <1>3, <1>5, <1>6, <1>7, <1>8, <1>9, <1>10, <2>4 DEF IInv, Kept
<1> QED
  BY <1>12, <1>13

\* A failed allocation of the array part leaves the table as it was.
LEMMA SettableFailsKeeps == "nodes" \notin Failures /\ IInv /\ SettableFails => IInv'
<1>1. SUFFICES ASSUME "nodes" \notin Failures, IInv, SettableFails PROVE IInv'
  OBVIOUS
<1>2. t' = t /\ trav' = none /\ field' = field
  <2>1. PICK k \in t.keys : t' \in failures(t, k)
    BY <1>1 DEF SettableFails
  <2>2. Failures \cap {"nodes"} = {}
    BY <1>1
  <2>3. t' = t
    BY <2>1, <2>2 DEF failures
  <2> QED
    BY <1>1, <2>3 DEF SettableFails
<1>3. Kept(t, field) /\ TravInv(t, field, trav)
  BY <1>1 DEF IInv
<1>4. TravInv(t, field, none)
  BY <1>3, Rests DEF TravInv
<1> QED
  BY <1>2, <1>3, <1>4 DEF IInv

\* A constructor is done before the table is traversed.
LEMMA ResizearrayStepKeeps == IInv /\ luaH_resizearray => IInv'
<1>1. SUFFICES ASSUME IInv, luaH_resizearray PROVE IInv'
  OBVIOUS
<1>2. PICK nasize \in Lists : /\ t.constructor /\ nasize > sizearray(t)
                              /\ t' = resize(t, nasize, IF t.dummy THEN 0 ELSE sizenode(t))
  BY <1>1 DEF luaH_resizearray
<1>3. field' = field /\ trav' = trav
  BY <1>1 DEF luaH_resizearray
<1>4. WellFormed(t) /\ t.full = FALSE /\ t.badsizes = FALSE /\ field \in [Keys -> Vals] /\ Remembers(t, field)
      /\ TravInv(t, field, trav)
  BY <1>1 DEF IInv, Kept
<1>5. PICK U : U = t'
  OBVIOUS
<1>6. PICK n \in 0..MAXASIZE : n = nasize
  BY SizesAre
<1>7. /\ WellFormed(U) /\ U.full = t.full /\ U.badsizes = t.badsizes /\ U.constructor = t.constructor
      /\ \A j \in AnyKey, w \in Values : Holds(U, j, w) <=> Holds(t, j, w)
  BY <1>2, <1>4, <1>5, <1>6, ResizearrayKeeps
<1>8. Remembers(U, field)
  BY <1>4, <1>7 DEF Remembers
<1>9. TravInv(U, field, trav)
  BY <1>2, <1>4, <1>7 DEF TravInv
<1> QED
  BY <1>3, <1>4, <1>5, <1>7, <1>8, <1>9 DEF IInv, Kept

\* A call of next changes the traversal, and ends the constructor.
LEMMA NextKeeps == IInv /\ lua_next => IInv'
<1>1. SUFFICES ASSUME IInv, lua_next PROVE IInv'
  OBVIOUS
<1>2. WellFormed(t) /\ t.full = FALSE /\ t.badsizes = FALSE /\ field \in [Keys -> Vals] /\ Remembers(t, field)
      /\ TravInv(t, field, trav) /\ t \in Tables
  BY <1>1 DEF IInv, Kept, WellFormed, Typed
<1>3. PICK r \in Travs : Visiting(t, field, r) /\ trav' = advance(r)
  <2>1. CASE trav.state = "none" /\ trav' = advance([none EXCEPT !.all = {k \in Keys : field[k] # Nil}])
    <3>1. PICK r : r = [none EXCEPT !.all = {k \in Keys : field[k] # Nil}]
      OBVIOUS
    <3>2. r \in Travs /\ Visiting(t, field, r)
      BY <1>2, <3>1, Begins
    <3> QED
      BY <2>1, <3>1, <3>2
  <2>2. CASE trav.state = "under way" /\ trav' = advance(trav)
    BY <1>2, <2>2 DEF TravInv
  <2> QED
    BY <1>1, <2>1, <2>2 DEF lua_next
<1>4. PICK q : q = trav'
  OBVIOUS
<1>5. /\ q \in Travs
      /\ \/ q.state = "done" /\ q.all \subseteq q.seen
         \/ q.state = "under way" /\ Visiting(t, field, q)
  BY <1>2, <1>3, <1>4, Advances
<1>6. PICK U : U = t'
  OBVIOUS
<1>7. field' = field /\ U = [t EXCEPT !.constructor = FALSE]
  BY <1>1, <1>6 DEF lua_next
<1>8. /\ U \in Tables /\ U.array = t.array /\ U.node = t.node /\ U.dummy = t.dummy /\ U.lastfree = t.lastfree
      /\ U.full = t.full /\ U.badsizes = t.badsizes /\ U.constructor = FALSE
  BY <1>2, <1>7 DEF Tables
<1>9. WellFormed(U) /\ sizearray(U) = sizearray(t) /\ sizenode(U) = sizenode(t)
      /\ \A k, v : Holds(U, k, v) = Holds(t, k, v)
  BY <1>2, <1>8, SameTable
<1>10. Remembers(U, field)
  BY <1>2, <1>9 DEF Remembers
<1>11. TravInv(U, field, q)
  <2>1. CASE q.state = "done" /\ q.all \subseteq q.seen
    BY <1>5, <2>1 DEF TravInv
  <2>2. CASE q.state = "under way" /\ Visiting(t, field, q)
    <3>1. SameKeys(t, U)
      BY <1>8, <1>9 DEF SameKeys
    <3>2. \A k \in q.all : field[k] # Nil
      BY <2>2 DEF Visiting
    <3>3. Visiting(U, field, q)
      BY <1>2, <1>5, <1>9, <2>2, <3>1, <3>2, GoesOn
    <3> QED
      BY <1>5, <1>8, <2>2, <3>3 DEF TravInv
  <2> QED
    BY <1>5, <2>1, <2>2
<1> QED
  BY <1>2, <1>4, <1>6, <1>7, <1>8, <1>9, <1>10, <1>11 DEF IInv, Kept

\* The collector changes no key and no value.
LEMMA TraversetableKeeps == IInv /\ traversetable => IInv'
<1>1. SUFFICES ASSUME IInv, traversetable PROVE IInv'
  OBVIOUS
<1>2. WellFormed(t) /\ t.full = FALSE /\ t.badsizes = FALSE /\ field \in [Keys -> Vals] /\ Remembers(t, field)
      /\ TravInv(t, field, trav) /\ t \in Tables /\ Typed(t)
  BY <1>1 DEF IInv, Kept, WellFormed, Typed
<1>3. PICK U : U = t'
  OBVIOUS
<1>4. PICK N \in Nat : N = sizenode(t)
  BY <1>2, TableSizes
<1>5. DOMAIN t.node = 1..N /\ \A n \in 1..N : t.node[n] \in Nodes
  BY <1>2, <1>4, TableSizes
<1>6. PICK node : node = [n \in 1..N |-> removeentry(t.node[n])]
  OBVIOUS
<1>7. U = [t EXCEPT !.node = node] /\ trav' = resting /\ field' = field
  BY <1>1, <1>3, <1>5, <1>6 DEF traversetable
<1>8. ASSUME NEW n \in 1..N
      PROVE  /\ node[n] \in Nodes
             /\ node[n].key = t.node[n].key /\ node[n].val = t.node[n].val /\ node[n].next = t.node[n].next
             /\ node[n].dead = (t.node[n].dead \/ (t.node[n].val = Nil /\ t.node[n].key \in Strings \cup Objects))
  <2>1. PICK x \in Nodes : x = t.node[n]
    BY <1>5
  <2>2. node[n] = removeentry(x)
    BY <1>6, <2>1
  <2>3. CASE x.val = Nil /\ x.key \in Strings \cup Objects
    <3>1. node[n] = [x EXCEPT !.dead = TRUE]
      BY <2>2, <2>3 DEF removeentry
    <3>2. node[n] \in Nodes /\ node[n].key = x.key /\ node[n].val = x.val /\ node[n].next = x.next /\ node[n].dead = TRUE
      BY <3>1 DEF Nodes
    <3>3. x.dead \in BOOLEAN
      BY DEF Nodes
    <3> QED
      BY <2>1, <2>3, <3>2, <3>3
  <2>4. CASE ~ (x.val = Nil /\ x.key \in Strings \cup Objects)
    <3>1. node[n] = x
      BY <2>2, <2>4 DEF removeentry
    <3>2. x.dead \in BOOLEAN
      BY DEF Nodes
    <3> QED
      BY <2>1, <2>4, <3>1, <3>2
  <2> QED
    BY <2>3, <2>4
<1>9. node \in Seq(Nodes) /\ Len(node) = N
  BY <1>6, <1>8
<1>10. /\ U \in Tables /\ U.node = node /\ U.array = t.array /\ U.dummy = t.dummy /\ U.lastfree = t.lastfree
       /\ U.full = t.full /\ U.badsizes = t.badsizes /\ U.constructor = t.constructor
  BY <1>2, <1>7, <1>9 DEF Tables
<1>11. sizearray(U) = sizearray(t) /\ sizenode(U) = N
  BY <1>9, <1>10 DEF sizearray, sizenode
<1>12. Typed(U)
  BY <1>2, <1>4, <1>10, <1>11 DEF Typed
<1>13. Nil \notin Strings \cup Objects
  BY KeysAssumption
<1>14. ASSUME NEW n \in 1..N
       PROVE  /\ U.node[n].key = t.node[n].key /\ U.node[n].next = t.node[n].next
              /\ t.node[n].dead => U.node[n].dead
              /\ U.node[n].key = Nil => ~ U.node[n].dead
              /\ U.node[n].key = Nil \/ U.node[n].dead => U.node[n].val = Nil
  <2>1. /\ t.node[n].key = Nil => ~ t.node[n].dead
        /\ t.node[n].key = Nil \/ t.node[n].dead => t.node[n].val = Nil
    BY <1>2, <1>5 DEF WellFormed, Keyed
  <2>2. /\ U.node[n].key = t.node[n].key /\ U.node[n].val = t.node[n].val /\ U.node[n].next = t.node[n].next
        /\ U.node[n].dead = (t.node[n].dead \/ (t.node[n].val = Nil /\ t.node[n].key \in Strings \cup Objects))
    BY <1>8, <1>10
  <2> QED
    BY <1>13, <2>1, <2>2
<1>15. \A i \in 1..sizearray(t) : U.array[i] # Nil => i \in Numbers
  BY <1>2, <1>10, TableSizes DEF WellFormed, Keyed
<1>16. WellFormed(U)
  BY <1>2, <1>4, <1>10, <1>11, <1>12, <1>14, <1>15, SameShape
<1>17. Remembers(U, field)
  <2>1. DOMAIN U.node = 1..N
    BY <1>11, <1>12, TableSizes
  <2>2. \A n \in 1..N : U.node[n].key = t.node[n].key /\ U.node[n].val = t.node[n].val
    BY <1>8, <1>10
  <2>3. ASSUME NEW j, NEW w PROVE Holds(U, j, w) <=> Holds(t, j, w)
    <3>1. inarray(U, j) <=> inarray(t, j)
      BY <1>11 DEF inarray
    <3> QED
      BY <1>5, <1>10, <2>1, <2>2, <3>1 DEF Holds
  <2> QED
    BY <1>2, <2>3 DEF Remembers
<1>18. SameKeys(t, U)
  BY <1>4, <1>11, <1>14 DEF SameKeys
<1>19. resting \in Travs
  BY <1>2, Rests
<1>20. PICK q : q = trav'
  OBVIOUS
<1>21. q \in Travs /\ q.state = resting.state /\ q.at = resting.at /\ q.seen = resting.seen /\ q.all = resting.all
  BY <1>7, <1>19, <1>20
<1>22. TravInv(U, field, q)
  <2>1. q.all \subseteq resting.all /\ \A k \in q.all : field[k] # Nil => field[k] # Nil
    BY <1>21
  <2> QED
    BY <1>2, <1>10, <1>16, <1>18, <1>21, <2>1, TravGoesOn
<1> QED
  BY <1>2, <1>3, <1>7, <1>10, <1>16, <1>17, <1>20, <1>22 DEF IInv, Kept

-----------------------------------------------------------------------------
(* The theorems. They suppose that there is memory for new nodes: a table whose *)
(* array part has grown when they fail hides the numbers that its nodes have.   *)

\* A table stays well formed, and has the values assigned to it.
THEOREM TableInvariant ==
  ASSUME "nodes" \notin Failures
  PROVE  Spec => []IInv
<1>1. ASSUME IInv, [Next]_vars PROVE IInv'
  <2>1. CASE Settable
    BY <1>1, <2>1, SettableKeeps
  <2>2. CASE SettableFails
    BY <1>1, <2>2, SettableFailsKeeps
  <2>3. CASE luaH_resizearray
    BY <1>1, <2>3, ResizearrayStepKeeps
  <2>4. CASE lua_next
    BY <1>1, <2>4, NextKeeps
  <2>5. CASE traversetable
    BY <1>1, <2>5, TraversetableKeeps
  <2>6. CASE UNCHANGED vars
    <3>1. t' = t /\ field' = field /\ trav' = trav
      BY <2>6 DEF vars
    <3> QED
      BY <1>1, <3>1 DEF IInv
  <2> QED
    BY <1>1, <2>1, <2>2, <2>3, <2>4, <2>5, <2>6 DEF Next
<1> QED
  BY <1>1, InitIInv, PTL DEF Spec

\* What a table is made of.
THEOREM TableTypeOK ==
  ASSUME "nodes" \notin Failures
  PROVE  Spec => []TypeOK
<1>1. ASSUME IInv PROVE TypeOK
  <2>1. WellFormed(t) /\ Typed(t) /\ t \in Tables /\ Chained(t) /\ field \in [Keys -> Vals] /\ trav \in Travs
    BY <1>1 DEF IInv, Kept, TravInv, WellFormed, Typed
  <2>2. sizenode(t) \in {twoto[b] : b \in 0..sizenode(t)}
    <3>1. PICK b \in Nat : sizenode(t) = twoto[b]
      BY <2>1 DEF Typed
    <3>2. b < twoto[b] /\ twoto[b] \in Nat
      BY TwotoGrows, TwotoRecursion
    <3>3. b \in 0..sizenode(t)
      BY <3>1, <3>2
    <3> QED
      BY <3>1, <3>3
  <2>3. DOMAIN t.node = 1..sizenode(t) /\ \A n \in 1..sizenode(t) : t.node[n] \in Nodes
    BY <2>1, TableSizes
  <2>4. \A n \in 1..sizenode(t) : t.node[n].next \in 0..sizenode(t)
    BY <2>1, LinkType
  <2>5. \A n \in 1..sizenode(t) : t.node[n].key \in Keys \cup {Nil} /\ t.node[n].val \in Vals
    BY <2>3 DEF Nodes
  <2>6. t.array \in Seq(Vals)
    BY <2>1 DEF Tables
  <2>7. t.lastfree \in 1..(sizenode(t) + 1)
    BY <2>1 DEF Typed
  <2>8. trav.seen \cup trav.all \subseteq Keys
    BY <2>1 DEF Travs
  <2> QED
    BY <2>1, <2>2, <2>3, <2>4, <2>5, <2>6, <2>7, <2>8 DEF TypeOK, Vals
<1> QED
  BY <1>1, TableInvariant, PTL

\* Each key has the value that was assigned to it last, whatever collisions, moves, new
\* sizes and dead keys came between (ltable.c, luaH_get, newkey, resize).
THEOREM TableIsMap ==
  ASSUME "nodes" \notin Failures
  PROVE  Spec => []GetReturnsLastSet
<1>1. ASSUME IInv PROVE GetReturnsLastSet
  <2>1. SUFFICES ASSUME NEW k \in Keys PROVE luaH_get(t, k) = field[k]
    BY DEF GetReturnsLastSet
  <2>2. WellFormed(t) /\ field[k] \in Vals /\ Remembers(t, field) /\ k \in AnyKey
    BY <1>1 DEF IInv, Kept, AnyKey
  <2>3. luaH_get(t, k) \in Vals /\ \A v \in Values : luaH_get(t, k) = v <=> Holds(t, k, v)
    BY <2>2, GetReturns
  <2>4. \A v \in Values : Holds(t, k, v) <=> field[k] = v
    BY <2>2 DEF Remembers
  <2> QED
    BY <2>2, <2>3, <2>4 DEF Vals
<1> QED
  BY <1>1, TableInvariant, PTL

\* What is in the main position of a key is in its own (ltable.c, newkey), for the keys of
\* empty nodes and dead keys too.
THEOREM MainPositions ==
  ASSUME "nodes" \notin Failures
  PROVE  Spec => []MainInvariant
<1>1. ASSUME IInv PROVE MainInvariant
  BY <1>1 DEF IInv, Kept, WellFormed, Placed, MainInvariant
<1> QED
  BY <1>1, TableInvariant, PTL

\* A rehash makes room for the elements it inserts again and for the new key, and the sizes
\* it computes satisfy the assertion of computesizes.
THEOREM RehashIsEnough ==
  ASSUME "nodes" \notin Failures
  PROVE  Spec => []RehashMakesRoom
<1>1. ASSUME IInv PROVE RehashMakesRoom
  BY <1>1 DEF IInv, Kept, RehashMakesRoom
<1> QED
  BY <1>1, TableInvariant, PTL

\* A traversal visits once each key that keeps a value, whatever fields are cleared and
\* whatever keys die on its way (ltable.c, findindex, luaH_next).
THEOREM TraversalIsComplete ==
  ASSUME "nodes" \notin Failures
  PROVE  Spec => []TraversalVisitsAll
<1>1. ASSUME IInv PROVE TraversalVisitsAll
  <2>1. trav.state \in {"none", "under way", "done"} /\ (trav.state = "done" => trav.all \subseteq trav.seen)
    BY <1>1 DEF IInv, TravInv, Travs
  <2> QED
    BY <2>1 DEF TraversalVisitsAll
<1> QED
  BY <1>1, TableInvariant, PTL

\* The length of a table is a border of it (ltable.c, luaH_getn, unbound_search).
THEOREM LengthIsBorder ==
  ASSUME "nodes" \notin Failures
  PROVE  Spec => []BoundaryIsBorder
<1>1. ASSUME IInv PROVE BoundaryIsBorder
  <2>1. WellFormed(t) /\ Remembers(t, field)
    BY <1>1 DEF IInv, Kept
  <2>2. PICK n : n = luaH_getn(t)
    OBVIOUS
  <2>3. Border(t, n)
    BY <2>1, <2>2, GetnFinds
  <2> QED
    BY <2>2, <2>3 DEF Border, BoundaryIsBorder
<1> QED
  BY <1>1, TableInvariant, PTL

\* The array part that a rehash makes is more than half full, and no larger one would be
\* (ltable.c, computesizes).
THEOREM RehashHalfFull ==
  ASSUME "nodes" \notin Failures
  PROVE  Spec => ArrayIsHalfFull
<1>1. ASSUME IInv, [Next]_vars PROVE [\A k \in Keys : HalfFull(k)]_vars
  <2>1. SUFFICES ASSUME NEW k \in Keys, ~ found(t, k), collides(t, mainposition(t, k)), getfreepos(t) = 0,
                        field'[k] # Nil
                 PROVE  /\ sizearray(t') \in {0} \cup {twoto[lg] : lg \in 0..MAXBITS}
                        /\ sizearray(t') > 0 => 2 * inuse(field', sizearray(t')) > sizearray(t')
                        /\ \A lg \in 0..MAXBITS : twoto[lg] > sizearray(t') => 2 * inuse(field', twoto[lg]) <= twoto[lg]
    BY DEF HalfFull
  <2>2. WellFormed(t) /\ field \in [Keys -> Vals] /\ Remembers(t, field) /\ k \in AnyKey
    BY <1>1 DEF IInv, Kept, AnyKey
  <2>3. field[k] = Nil
    <3>1. SUFFICES ASSUME field[k] # Nil PROVE FALSE
      OBVIOUS
    <3>2. field[k] \in Values /\ Holds(t, k, field[k])
      BY <2>2, <3>1 DEF Vals, Remembers
    <3>3. ~ inarray(t, k) /\ alive(t, k) = {}
      BY <2>1, <2>2, ExistsMeans
    <3>4. PICK n \in DOMAIN t.node : t.node[n].key = k /\ t.node[n].val = field[k]
      BY <3>2, <3>3 DEF Holds
    <3>5. ~ t.node[n].dead
      BY <2>2, <3>1, <3>4 DEF WellFormed, Keyed
    <3> QED
      BY <3>3, <3>4, <3>5 DEF alive
  <2>4. field' # field
    BY <2>1, <2>3
  <2>5. Settable
    BY <1>1, <2>4 DEF Next, SettableFails, luaH_resizearray, lua_next, traversetable, vars
  <2>6. PICK j \in t.keys, v \in Values \cup {Nil} : t' = luaH_set(t, j, v) /\ field' = [field EXCEPT ![j] = v]
    BY <2>5 DEF Settable
  <2>7. j = k /\ v # Nil /\ v \in Vals
    BY <2>1, <2>2, <2>3, <2>6 DEF Vals
  <2>8. Rehashes(t, k)
    BY <2>1 DEF Rehashes, Fits
  <2>9. PICK s : s = computesizes(nums(t, k))
    OBVIOUS
  <2>10. PICK U : U = t'
    OBVIOUS
  <2>11. sizearray(U) = s.narray
    BY <2>2, <2>6, <2>7, <2>8, <2>9, <2>10, SetKeeps
  <2>12. /\ s.narray \in {0} \cup {twoto[lg] : lg \in 0..MAXBITS}
         /\ s.narray \in 0..MAXASIZE /\ s.na \in Nat
         /\ s.na = InUse(t, k, s.narray)
         /\ s.narray > 0 => 2 * s.na > s.narray
         /\ \A lg \in 0..MAXBITS : twoto[lg] > s.narray => 2 * InUse(t, k, twoto[lg]) <= twoto[lg]
    BY <2>1, <2>2, <2>9, SizesFit
  <2>13. PICK g : g = field'
    OBVIOUS
  <2>14. ASSUME NEW n \in Nat PROVE InUse(t, k, n) = inuse(g, n)
    <3>1. g[k] # Nil /\ \A i \in Keys : i # k => g[i] = field[i]
      BY <2>2, <2>6, <2>7, <2>13
    <3> QED
      BY <2>2, <3>1, InUseIs
  <2>15. s.narray \in Nat /\ \A lg \in 0..MAXBITS : twoto[lg] \in Nat
    BY <2>12, MaxnumberType, CandidatesAre
  <2>16. s.na = inuse(g, s.narray)
    BY <2>12, <2>14, <2>15
  <2>17. \A lg \in 0..MAXBITS : twoto[lg] > s.narray => 2 * inuse(g, twoto[lg]) <= twoto[lg]
    BY <2>12, <2>14, <2>15
  <2> QED
    BY <2>10, <2>11, <2>12, <2>13, <2>16, <2>17
<1> QED
  BY <1>1, TableInvariant, PTL DEF Spec, ArrayIsHalfFull
=============================================================================
