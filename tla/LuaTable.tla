------------------------------ MODULE LuaTable ------------------------------
(* A table of ltable.c: an array part, and a hash part whose nodes are chained  *)
(* from the main position of each key ("Brent's variation"). The program assigns*)
(* fields and traverses the table with next, and between two of its steps the   *)
(* collector marks as dead the keys of empty nodes (lgc.c, traversetable). A    *)
(* node, nodes being numbered from 1 and NULL being 0, holds a key, a value and *)
(* the next node of its chain. An object is the address its key holds, so that  *)
(* an object and a later one at the address of a dead key are the same here.    *)
EXTENDS Integers, Sequences, FiniteSets, FiniteSetsExt

CONSTANTS Numbers,      \* the keys: integers,
          Strings,      \* strings, which have a hash,
          Objects,      \* and other objects, which have an address
          Hash, Address,
          Values, Nil,
          Programs,     \* bound: the sets of keys a program uses, MAXASIZE at most
          Sizes,        \* bound: sizes of the array and hash parts a table is created with,
          Lists,        \* and numbers of items a constructor stores: MAXASIZE at most
          MAXBITS,
          MAX_INT,
          Failures      \* the allocations that can fail: of the array part, of the nodes

\* 1 << n
twoto[n \in Nat] == IF n = 0 THEN 1 ELSE 2 * twoto[n - 1]

\* The largest array part.
MAXASIZE == twoto[MAXBITS]

\* A lua_Number is a double: it has the integers of up to 53 bits.
isexact(n) == \E bits \in 0..53 : n < twoto[bits]
ASSUME KeysAssumption ==
  /\ Numbers \subseteq Nat /\ \A n \in Numbers : isexact(n)
  /\ Hash \in [Strings -> Nat] /\ Address \in [Objects -> Nat]
  /\ Strings \cap Objects = {} /\ (Strings \cup Objects) \cap Nat = {}
  /\ Nil \notin Values \cup Nat \cup Strings \cup Objects
  /\ \A keys \in Programs : keys \subseteq Numbers \cup Strings \cup Objects

\* An int is larger than any array part; there is no memory for MAX_INT elements. Tables
\* of more than MAXASIZE elements are left out: a hash part for them is a "table overflow"
\* (setnodevector), and numusearray does not count the slots of an array past MAXASIZE.
ASSUME SizesAssumption ==
  /\ MAX_INT \in Nat /\ isexact(MAX_INT + 1) /\ ~ 1..(MAX_INT + 1) \subseteq Numbers
  /\ MAXBITS \in Nat /\ MAXASIZE <= MAX_INT
  /\ Lists \subseteq 0..MAXASIZE
  /\ Sizes \subseteq [narray : 0..MAXASIZE, nhash : 0..MAXASIZE]
  /\ \A keys \in Programs : IsFiniteSet(keys) /\ Cardinality(keys) <= MAXASIZE

VARIABLES t,        \* the table
          field,    \* what the program assigned last to each key
          trav      \* the traversal under way: its state, the key it is at, the keys
                    \* visited, and those that had a value from its beginning on
vars == <<t, field, trav>>

Keys == Numbers \cup Strings \cup Objects
isnumber(k) == k \notin Strings \cup Objects
sizearray(T) == Len(T.array)
sizenode(T)  == Len(T.node)
log2(n)     == CHOOSE e \in 0..n : twoto[e] <= n /\ n < twoto[e + 1]
ceillog2(n) == IF n = 1 THEN 0 ELSE 1 + log2(n - 1)

\* The node a key hashes to. A number hashes to the sum of the two words of the double
\* it is: the exponent with 20 bits of the mantissa, and the other bits, if there are any.
hashnum(n) ==
  LET e    == log2(n)
      bits == n - twoto[e]
  IN IF e <= 20 THEN (1023 + e) * twoto[20] + bits * twoto[20 - e]
     ELSE ((1023 + e) * twoto[20] + bits \div twoto[e - 20]
           + (bits % twoto[e - 20]) * twoto[52 - e]) % twoto[32]
hashmod(T, n) == n % (IF sizenode(T) = 1 THEN 1 ELSE sizenode(T) - 1)
mainposition(T, k) ==
  1 + CASE k \in Strings -> Hash[k] % sizenode(T)
        [] k \in Objects -> hashmod(T, Address[k])
        [] OTHER -> IF k = 0 THEN 0 ELSE hashmod(T, hashnum(k))

\* The first node of a chain, from a node on, that is looked for, or 0.
inchain(T, first, wanted) ==
  LET look[n \in 0..sizenode(T)] == IF n \in wanted \cup {0} THEN n ELSE look[T.node[n].next]
  IN look[first]
alive(T, k) == {n \in DOMAIN T.node : T.node[n].key = k /\ ~ T.node[n].dead}
position(T, k) == inchain(T, mainposition(T, k), alive(T, k))

inarray(T, k) == isnumber(k) /\ k > 0 /\ k <= sizearray(T)
luaH_get(T, k) ==
  IF inarray(T, k) THEN T.array[k]
  ELSE LET n == position(T, k) IN IF n = 0 THEN Nil ELSE T.node[n].val
\* luaH_get finds a place for the key, be it empty.
found(T, k) == inarray(T, k) \/ position(T, k) # 0
-----------------------------------------------------------------------------
(* Insertion.                                                                   *)
emptynode == [key |-> Nil, val |-> Nil, next |-> 0, dead |-> FALSE]
\* A hash part of size 0 is dummynode, which is never written.
setnodevector(T, size) ==
  LET nodes == IF size = 0 THEN 1 ELSE twoto[ceillog2(size)]
  IN [T EXCEPT !.node = [n \in 1..nodes |-> emptynode], !.dummy = (size = 0),
               !.lastfree = IF size = 0 THEN 1 ELSE nodes + 1]
setarrayvector(T, size) ==
  [T EXCEPT !.array = [i \in 1..size |-> IF i <= sizearray(T) THEN T.array[i] ELSE Nil]]

\* The last node before lastfree that never held a key, or 0.
getfreepos(T) == Max({0} \cup {n \in 1..(T.lastfree - 1) : T.node[n].key = Nil})

\* Puts a new key, with its value, into a node (newkey, up to the call of rehash).
fill(node, k, v) == [node EXCEPT !.key = k, !.val = v, !.dead = FALSE]
\* Wrong: the chain still leads to the place the colliding node was moved from.
movecollidingUnlinked(T, mp, n, k, v) ==
  [T.node EXCEPT ![n] = T.node[mp], ![mp] = fill(emptynode, k, v)]
\* The key takes its main position, from which the colliding node is moved to n.
movecolliding(T, mp, n, k, v) ==
  LET previous == inchain(T, mainposition(T, T.node[mp].key), {x \in DOMAIN T.node : T.node[x].next = mp})
  IN [T.node EXCEPT ![n] = T.node[mp], ![previous].next = n, ![mp] = fill(emptynode, k, v)]
\* The colliding node is in its own main position: the key goes to n, after it.
chainafter(T, mp, n, k, v) ==
  [T.node EXCEPT ![n] = fill([emptynode EXCEPT !.next = T.node[mp].next], k, v), ![mp].next = n]
collides(T, mp) == T.node[mp].val # Nil \/ T.dummy
\* Wrong: a new key always goes after the colliding node.
outofplaceNever(T, mp) == FALSE
outofplace(T, mp) == mainposition(T, T.node[mp].key) # mp
place(T, k, v) ==
  LET mp == mainposition(T, k)
      n == getfreepos(T)
  IN IF ~ collides(T, mp) THEN [T EXCEPT !.node[mp] = fill(@, k, v)]
     ELSE IF n = 0 THEN [T EXCEPT !.full = TRUE]
     ELSE [T EXCEPT !.lastfree = n,
                    !.node = IF outofplace(T, mp) THEN movecolliding(T, mp, n, k, v)
                             ELSE chainafter(T, mp, n, k, v)]
\* The assignment of a value to a key that has a place.
assign(T, k, v) ==
  IF inarray(T, k) THEN [T EXCEPT !.array[k] = v]
  ELSE [T EXCEPT !.node[position(T, k)].val = v]
reinsert(T, k, v) == IF found(T, k) THEN assign(T, k, v) ELSE place(T, k, v)
-----------------------------------------------------------------------------
(* Rehash: new sizes for both parts, from the keys in use and the one to insert.*)
usedarray(T) == {i \in DOMAIN T.array : T.array[i] # Nil}
usednodes(T) == {n \in DOMAIN T.node : T.node[n].val # Nil}
isarraykey(k) == isnumber(k) /\ k > 0 /\ k <= MAXASIZE
\* The keys in use that could be in the array part, between 2^(lg-1) and 2^lg.
nums(T, ek) ==
  [lg \in 0..MAXBITS |->
     Cardinality({i \in usedarray(T) : ceillog2(i) = lg})
     + Cardinality({n \in usednodes(T) : isarraykey(T.node[n].key) /\ ceillog2(T.node[n].key) = lg})
     + (IF isarraykey(ek) /\ ceillog2(ek) = lg THEN 1 ELSE 0)]
\* The elements in use: of the array part, those of the slices up to 2^MAXBITS.
numusearray(T) == Cardinality({i \in usedarray(T) : i <= MAXASIZE})
\* Wrong: the extra key is not counted.
totaluseWithoutKey(T) == numusearray(T) + Cardinality(usednodes(T))
totaluse(T) == numusearray(T) + Cardinality(usednodes(T)) + 1

\* Wrong: half of the slots are enough.
enoughHalf(n, used) == used >= n \div 2
enough(n, used) == used > n \div 2
\* The largest power of two such that more than half of the slots up to it are in use,
\* and how many are.
computesizes(count) ==
  LET a[i \in 0..MAXBITS] == count[i] + (IF i = 0 THEN 0 ELSE a[i - 1])
      large == {i \in 0..MAXBITS : twoto[i] \div 2 < a[MAXBITS] /\ count[i] > 0 /\ enough(twoto[i], a[i])}
  IN IF large = {} THEN [narray |-> 0, na |-> 0]
     ELSE [narray |-> twoto[Max(large)], na |-> a[Max(large)]]

\* The elements in the order they are inserted again: those of the array part, of which
\* only the vanishing slice is, and the nodes from the last one.
old(T, i) ==
  IF i <= sizearray(T) THEN [key |-> i, val |-> T.array[i]]
  ELSE LET node == T.node[sizearray(T) + sizenode(T) + 1 - i] IN [key |-> node.key, val |-> node.val]
stays(T, nasize, i) == (i <= sizearray(T) /\ i <= nasize) \/ old(T, i).val = Nil
resize(T, nasize, nhsize) ==
  LET moved[i \in 0..(sizearray(T) + sizenode(T))] ==
        IF i = 0 THEN setnodevector(setarrayvector(T, nasize), nhsize)
        ELSE IF stays(T, nasize, i) THEN moved[i - 1]
        ELSE reinsert(moved[i - 1], old(T, i).key, old(T, i).val)
  IN moved[sizearray(T) + sizenode(T)]
rehash(T, ek) ==
  LET sizes == computesizes(nums(T, ek))
  IN resize([T EXCEPT !.badsizes = @ \/ ~ (sizes.narray \div 2 <= sizes.na /\ sizes.na <= sizes.narray)],
            sizes.narray, totaluse(T) - sizes.na)

luaH_set(T, k, v) ==
  IF found(T, k) THEN assign(T, k, v)
  ELSE IF collides(T, mainposition(T, k)) /\ getfreepos(T) = 0 THEN reinsert(rehash(T, k), k, v)
  ELSE place(T, k, v)

\* A failed allocation in resize leaves the table as it was, or with an array part that
\* has grown already and the old nodes.
failures(T, k) ==
  LET sizes == computesizes(nums(T, k))
      grows == sizes.narray > sizearray(T)
  IN {T : x \in Failures \cap (IF grows THEN {"array"} ELSE {})}
     \cup {IF grows THEN setarrayvector(T, sizes.narray) ELSE T :
             x \in Failures \cap (IF totaluse(T) > sizes.na THEN {"nodes"} ELSE {})}
-----------------------------------------------------------------------------
(* Traversal and length.                                                        *)
\* The index of a key: the array part comes first, then the nodes. The key may be dead.
\* Wrong: dead keys are not looked for.
findindexAlive(T, k) ==
  IF k = Nil THEN 0 ELSE IF inarray(T, k) THEN k
  ELSE sizearray(T) + inchain(T, mainposition(T, k), alive(T, k))
findindex(T, k) ==
  IF k = Nil THEN 0 ELSE IF inarray(T, k) THEN k
  ELSE sizearray(T) + inchain(T, mainposition(T, k), {n \in DOMAIN T.node : T.node[n].key = k})
isinvalid(T, k) == k # Nil /\ ~ inarray(T, k) /\ findindex(T, k) = sizearray(T)
keyat(T, i) == IF i <= sizearray(T) THEN i ELSE T.node[i - sizearray(T)].key
hasvalue(T, i) == (IF i <= sizearray(T) THEN T.array[i] ELSE T.node[i - sizearray(T)].val) # Nil
luaH_next(T, k) ==
  LET after == {i \in 1..(sizearray(T) + sizenode(T)) : i > findindex(T, k) /\ hasvalue(T, i)}
  IN IF after = {} THEN Nil ELSE keyat(T, Min(after))

present(T, j) == luaH_get(T, j) # Nil
\* A boundary between low, which is 0 or filled, and high, which is not filled.
binarysearch(filled, low, high) ==
  LET search[r \in Nat \X Nat] ==
        LET i == r[1]
            j == r[2]
            m == (i + j) \div 2
        IN IF j - i <= 1 THEN i ELSE search[IF m \in filled THEN <<m, j>> ELSE <<i, m>>]
  IN search[<<low, high>>]
linearsearch(T) == (CHOOSE i \in 1..(MAX_INT + 1) : ~ present(T, i) /\ \A n \in 1..(i - 1) : present(T, n)) - 1
unbound_search(T, from) ==
  LET double[r \in Nat \X (Nat \ {0})] ==
        LET i == r[1]
            j == r[2]
        IN IF j > MAX_INT THEN linearsearch(T)
           ELSE IF present(T, j) THEN double[<<j, 2 * j>>]
           ELSE binarysearch({m \in i..j : present(T, m)}, i, j)
  IN double[<<from, from + 1>>]
\* Wrong: the search in the hash part supposes a full array part.
luaH_getnFromArray(T) == IF T.dummy THEN sizearray(T) ELSE unbound_search(T, sizearray(T))
luaH_getn(T) ==
  IF sizearray(T) > 0 /\ T.array[sizearray(T)] = Nil
    THEN binarysearch({m \in 1..sizearray(T) : T.array[m] # Nil}, 0, sizearray(T))
  ELSE IF T.dummy THEN sizearray(T)
  ELSE unbound_search(T, sizearray(T))
-----------------------------------------------------------------------------
(* Steps.                                                                       *)
none == [state |-> "none", at |-> Nil, seen |-> {}, all |-> {}]
resting == IF trav.state = "under way" THEN trav ELSE none

luaH_new(size, keys) ==
  setnodevector([array |-> [i \in 1..size.narray |-> Nil], node |-> <<>>, dummy |-> TRUE, lastfree |-> 1,
                 full |-> FALSE, badsizes |-> FALSE, keys |-> keys, constructor |-> TRUE], size.nhash)
Init ==
  /\ \E size \in Sizes, keys \in Programs : t = luaH_new(size, keys)
  /\ field = [k \in Keys |-> Nil] /\ trav = none

\* t[k] = v, for nil too. A traversal may assign existing fields only.
Settable ==
  /\ \E k \in t.keys, v \in Values \cup {Nil} :
       /\ t' = luaH_set(t, k, v)
       /\ field' = [field EXCEPT ![k] = v]
       /\ trav' = IF ~ found(t, k) THEN none
                  ELSE IF v = Nil THEN [resting EXCEPT !.all = @ \ {k}] ELSE resting
\* There is no memory for the new sizes: an error, which the program catches.
SettableFails ==
  /\ \E k \in t.keys :
       /\ ~ found(t, k) /\ collides(t, mainposition(t, k)) /\ getfreepos(t) = 0
       /\ t' \in failures(t, k)
  /\ trav' = none /\ UNCHANGED field
\* The constructor of the table stores a list of items (lvm.c, OP_SETLIST).
luaH_resizearray ==
  /\ t.constructor
  /\ \E nasize \in Lists :
       /\ nasize > sizearray(t)
       /\ t' = resize(t, nasize, IF t.dummy THEN 0 ELSE sizenode(t))
  /\ UNCHANGED <<field, trav>>

\* A call of next: the first one with nil, the others with the key of the one before.
advance(r) ==
  IF isinvalid(t, r.at) THEN [r EXCEPT !.state = "invalid key to 'next'"]
  ELSE LET k == luaH_next(t, r.at)
       IN IF k = Nil THEN [r EXCEPT !.state = "done"]
          ELSE IF k \in r.seen THEN [r EXCEPT !.state = "visits a key again"]
          ELSE [r EXCEPT !.state = "under way", !.at = k, !.seen = @ \cup {k}]
lua_next ==
  /\ \/ trav.state = "none" /\ trav' = advance([none EXCEPT !.all = {k \in Keys : field[k] # Nil}])
     \/ trav.state = "under way" /\ trav' = advance(trav)
  /\ t' = [t EXCEPT !.constructor = FALSE]
  /\ UNCHANGED field

\* The collector traverses the table: the keys of empty nodes are dead from then on.
removeentry(n) == IF n.val = Nil /\ n.key \in Strings \cup Objects THEN [n EXCEPT !.dead = TRUE] ELSE n
traversetable ==
  /\ t' = [t EXCEPT !.node = [n \in DOMAIN @ |-> removeentry(@[n])]]
  /\ t' # t
  /\ trav' = resting /\ UNCHANGED field

Next == Settable \/ SettableFails \/ luaH_resizearray \/ lua_next \/ traversetable
Spec == Init /\ [][Next]_vars
-----------------------------------------------------------------------------
(* Correctness.                                                                 *)
TypeOK ==
  /\ field \in [Keys -> Values \cup {Nil}]
  /\ t.array \in Seq(Values \cup {Nil}) /\ sizenode(t) \in {twoto[b] : b \in 0..sizenode(t)}
  /\ \A n \in DOMAIN t.node : /\ t.node[n].key \in Keys \cup {Nil} /\ t.node[n].val \in Values \cup {Nil}
                              /\ t.node[n].next \in 0..sizenode(t)
  /\ t.lastfree \in 1..(sizenode(t) + 1)
  /\ trav.seen \cup trav.all \subseteq Keys

\* A table is a map: each key has the value the program assigned to it last, whatever
\* collisions, moves, new sizes and dead keys came between (ltable.c, luaH_get, newkey).
GetReturnsLastSet == \A k \in Keys : luaH_get(t, k) = field[k]

\* "A main invariant of these tables is that, if an element is not in its main position,
\* then the colliding element is in its own main position" (ltable.c). It holds for the
\* keys of empty nodes too, dead or not.
MainInvariant ==
  \A n \in DOMAIN t.node : t.node[n].key # Nil =>
    LET m == mainposition(t, t.node[n].key)
    IN t.node[m].key # Nil /\ mainposition(t, t.node[m].key) = m

\* "Traverse all fields of a table": a traversal during which existing fields may be
\* modified and cleared, and their keys die, visits each key that keeps a value once,
\* and ends (doc/manual.html, next; ltable.c findindex, luaH_next).
TraversalVisitsAll ==
  /\ trav.state \notin {"invalid key to 'next'", "visits a key again"}
  /\ trav.state = "done" => trav.all \subseteq trav.seen

\* The length of a table is a boundary: "t[i] is non-nil and t[i+1] is nil (and 0 if
\* t[1] is nil)", whatever holes and sizes the table has (ltable.c, luaH_getn).
BoundaryIsBorder ==
  LET n == luaH_getn(t) IN (n = 0 \/ present(t, n)) /\ ~ present(t, n + 1)

\* The sizes a rehash computes have room for all elements and for the new key, so that
\* inserting them asks for no other rehash, and the assertion of computesizes holds.
RehashMakesRoom == ~ t.full /\ ~ t.badsizes

\* After a rehash the array part has the largest size, a power of two, of which more
\* than half of the slots are in use (ltable.c, computesizes).
inuse(f, n) == Cardinality({i \in Numbers : i \in 1..n /\ f[i] # Nil})
HalfFull(k) ==
  ~ found(t, k) /\ collides(t, mainposition(t, k)) /\ getfreepos(t) = 0 /\ field'[k] # Nil =>
    /\ sizearray(t') \in {0} \cup {twoto[lg] : lg \in 0..MAXBITS}
    /\ sizearray(t') > 0 => 2 * inuse(field', sizearray(t')) > sizearray(t')
    /\ \A lg \in 0..MAXBITS : twoto[lg] > sizearray(t') => 2 * inuse(field', twoto[lg]) <= twoto[lg]
ArrayIsHalfFull == [][\A k \in Keys : HalfFull(k)]_vars
=============================================================================
