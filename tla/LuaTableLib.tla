----------------------------- MODULE LuaTableLib -----------------------------
(* The table library of Lua: ltablib.c. Its sort calls the order function between *)
(* the moves: what it has read from the table by then is in the frame, and the     *)
(* function may change the table, raise, or order the elements inconsistently.      *)
EXTENDS LuaBase

tableArg(M) == arg(M, 1)
aux_getn(M) == luaH_getn(M, tableArg(M)[2])

\* From one position to another, each element takes the value of its neighbour.
shifted(M, from, to, by) ==
  FoldLeft(LAMBDA s, n : rawseti(s, tableArg(s), n, rawgeti(s, tableArg(s), n + by)), M,
           [k \in 1..(by * (to - from)) |-> from + by * (k - 1)])
tinsert(M) ==
  LET e == aux_getn(M) + 1
      pos == integer(M, 2)
      end == IF pos > e THEN pos ELSE e
  IN CASE nargs(M) = 2 -> poscallC(rawseti(M, tableArg(M), e, arg(M, 2)), <<>>)
       [] nargs(M) = 3 -> IF ~ checked(M, <<"table", "number">>) THEN argerror(M)
                          ELSE poscallC(rawseti(shifted(M, end, pos, -1), tableArg(M), pos, arg(M, 3)), <<>>)
       [] OTHER -> luaG_runerror(M, "wrong number of arguments to 'insert'")
tremove(M) ==
  LET e == aux_getn(M)
      pos == optint(M, 2, e)
  IN IF pos \notin 1..e THEN poscallC(M, <<>>)
     ELSE poscallC(rawseti(shifted(M, pos, e, 1), tableArg(M), e, Nil), <<rawgeti(M, tableArg(M), pos)>>)

tconcat(M) ==
  LET from == optint(M, 3, 1)
      last == optint(M, 4, aux_getn(M))
      sep == IF arg(M, 2) = Nil THEN "" ELSE string(M, 2)
      field(n) == rawgeti(M, tableArg(M), n)
      added(b, n) == b \o luaV_tostring(field(n))[2] \o (IF n < last THEN sep ELSE "")
  IN IF \E n \in from..last : ~ stringable(field(n))
     THEN luaG_runerror(M, "invalid value in table for 'concat'")
     ELSE poscallC(M, <<Str(FoldLeft(added, "", [k \in 1..(last - from + 1) |-> from + k - 1]))>>)

maxn(M) ==
  poscallC(M, <<Num(Max({0} \cup {k[2] : k \in {j \in DOMAIN M.tab[tableArg(M)[2]].h : isnum(j)}}))>>)
getn(M) == poscallC(M, <<Num(aux_getn(M))>>)
setn(M) == luaG_runerror(M, "'setn' is obsolete")

\* The number of elements is taken once, the next key after each call.
foreachi(M, i, n) ==
  IF i > n THEN poscallC(M, <<>>)
  ELSE lua_call(M, arg(M, 2), <<Num(i), rawgeti(M, tableArg(M), i)>>,
                [k |-> "lib", f |-> "foreachi", i |-> i, n |-> n])
foreach(M, key) ==
  LET visit(found) == IF found = <<>> THEN poscallC(M, <<>>)
                      ELSE lua_call(M, arg(M, 2), found, [k |-> "lib", f |-> "foreach", key |-> found[1]])
  IN visit(luaH_next(M, tableArg(M), key))
-----------------------------------------------------------------------------
(* Quicksort of the elements l to u. A state of it is where it is ("at"), the     *)
(* bounds, the indexes i and j, the values x (at l or i) and y (at u) it holds,   *)
(* the pivot, and the ranges that the calls it is nested in have left to sort.    *)
set2(M, i, vi, j, vj) == rawseti(rawseti(M, tableArg(M), i, vi), tableArg(M), j, vj)
a_(M, n) == rawgeti(M, tableArg(M), n)

sorting(M, s) == [m |-> M, s |-> s]
\* The ranges left, the first one first.
auxsort(M, ranges) ==
  LET left == SelectSeq(ranges, LAMBDA range : range[1] < range[2])
      ends(l, u) == [k |-> "lib", f |-> "sort", at |-> "ends", l |-> l, u |-> u, i |-> 0, j |-> 0,
                     x |-> a_(M, l), y |-> a_(M, u), pivot |-> Nil, rest |-> Tail(left)]
  IN sorting(M, IF left = <<>> THEN [at |-> "sorted"] ELSE ends(Head(left)[1], Head(left)[2]))

\* The elements at l, i (the middle) and u are in order; the pivot goes to u - 1.
partition(M, s) ==
  LET m == set2(M, s.i, a_(M, s.u - 1), s.u - 1, a_(M, s.i))
  IN IF s.u - s.l = 2 THEN auxsort(M, s.rest)
     ELSE sorting(m, [s EXCEPT !.at = "up", !.pivot = a_(M, s.i), !.i = s.l + 1, !.j = s.u - 1,
                               !.x = a_(m, s.l + 1)])
stepUp(M, s) == sorting(M, [s EXCEPT !.at = "up", !.i = @ + 1, !.x = a_(M, s.i + 1)])
stepDown(M, s) == sorting(M, [s EXCEPT !.at = "down", !.j = @ - 1, !.y = a_(M, s.j - 1)])
\* The pivot goes between the halves; the smaller one is sorted first.
divide(M, s) ==
  LET halves == << <<s.l, s.i - 1>>, <<s.i + 1, s.u>> >>
  IN auxsort(set2(M, s.u - 1, a_(M, s.i), s.i, a_(M, s.u - 1)),
             (IF s.i - s.l < s.u - s.i THEN halves ELSE Reverse(halves)) \o s.rest)
\* The answer of a comparison takes the sort to its next one.
answered(M, s, less) ==
  CASE s.at = "ends" ->
         LET m == IF less THEN set2(M, s.l, s.y, s.u, s.x) ELSE M
             i == (s.l + s.u) \div 2
         IN IF s.u - s.l = 1 THEN auxsort(m, s.rest)
            ELSE sorting(m, [s EXCEPT !.at = "low", !.i = i, !.x = a_(m, s.l), !.y = a_(m, i)])
    [] s.at = "low" ->
         IF less THEN partition(set2(M, s.i, s.x, s.l, s.y), s)
         ELSE sorting(M, [s EXCEPT !.at = "high", !.x = s.y, !.y = a_(M, s.u)])
    [] s.at = "high" -> partition(IF less THEN set2(M, s.i, s.y, s.u, s.x) ELSE M, s)
    [] s.at = "up" -> IF ~ less THEN stepDown(M, s)
                      ELSE IF s.i > s.u THEN sorting(M, [at |-> "invalid"]) ELSE stepUp(M, s)
    [] s.at = "down" -> IF less THEN IF s.j < s.l THEN sorting(M, [at |-> "invalid"]) ELSE stepDown(M, s)
                        ELSE IF s.j < s.i THEN divide(M, s)
                        ELSE stepUp(set2(M, s.i, s.y, s.j, s.x), s)

\* The elements to compare: does the first come before the second?
operands(s) == CASE s.at = "up" -> <<s.x, s.pivot>>
                 [] s.at = "down" -> <<s.pivot, s.y>>
                 [] OTHER -> <<s.y, s.x>>
RECURSIVE sort_comp(_, _)
sort_comp(M, s) ==
  LET a == operands(s)[1]
      b == operands(s)[2]
      order == IF arg(M, 2) # Nil THEN arg(M, 2) ELSE orderTM(M, a, b, "__lt")
      basic == arg(M, 2) = Nil /\ ttype(a) = ttype(b) /\ (isnum(a) \/ a[1] = "string")
      less == IF isnum(a) THEN a[2] < b[2] ELSE l_strcmp(a[2], b[2]) < 0
      goOn(r) == sort_comp(r.m, r.s)
  IN CASE s.at = "sorted" -> poscallC(M, <<>>)
       [] s.at = "invalid" -> luaG_runerror(M, "invalid order function for sorting")
       [] s.at \notin {"sorted", "invalid"} /\ basic -> goOn(answered(M, s, less))
       [] OTHER -> IF (arg(M, 2) = Nil /\ ttype(a) # ttype(b)) \/ order = Nil THEN luaG_ordererror(M, a, b)
                   ELSE lua_call(M, order, <<a, b>>, s)
resumed(r) == sort_comp(r.m, r.s)
compared(M, s, less) == resumed(answered(M, s, less))

\* The second argument, if there is none, is nil, and nothing follows it.
sort(M) == resumed(auxsort(SetTop(Push(M, <<Nil>>), Th(M).base + 2), <<<<1, aux_getn(M)>>>>))
-----------------------------------------------------------------------------
tab_funcs == [concat |-> <<"table", "string?", "number?", "number?">>,
              foreach |-> <<"table", "function">>, foreachi |-> <<"table", "function">>,
              getn |-> <<"table">>, maxn |-> <<"table">>, insert |-> <<"table">>,
              remove |-> <<"table", "number?">>, setn |-> <<"table">>, sort |-> <<"table", "function?">>]
TableFunction(M, name) ==
  IF ~ checked(M, tab_funcs[name]) THEN argerror(M)
  ELSE CASE name = "concat" -> tconcat(M)
         [] name = "foreach" -> foreach(M, Nil)
         [] name = "foreachi" -> foreachi(M, 1, aux_getn(M))
         [] name = "getn" -> getn(M)
         [] name = "insert" -> tinsert(M)
         [] name = "maxn" -> maxn(M)
         [] name = "remove" -> tremove(M)
         [] name = "setn" -> setn(M)
         [] name = "sort" -> sort(M)
TableResult(M, f, v) ==
  CASE f.f = "foreachi" -> IF v # Nil THEN poscallC(M, <<v>>) ELSE foreachi(M, f.i + 1, f.n)
    [] f.f = "foreach" -> IF v # Nil THEN poscallC(M, <<v>>) ELSE foreach(M, f.key)
    [] f.f = "sort" -> compared(M, f, ~ l_isfalse(v))
=============================================================================
