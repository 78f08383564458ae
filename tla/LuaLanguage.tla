----------------------------- MODULE LuaLanguage -----------------------------
(* What Lua programs mean, stated without registers, jumps or instructions: the *)
(* reference the compiler and the virtual machine are compared with. Integers,  *)
(* strings, tables without metatables, closures and varargs are covered.         *)
EXTENDS Integers, Sequences, SequencesExt, TLC

CONSTANTS Numerals, Strings   \* the literals and their values

(* The store st holds the variables (cells), tables  *)
(* and functions created so far and the global variables; env maps the local     *)
(* names in scope to their cells. A result has the store, a signal (ok, break,   *)
(* return, error) and values.                                                    *)
NilV == <<"nil">>
Truth(b) == <<"boolean", b>>
No(v) == v = NilV \/ v = Truth(FALSE)
Res(st, sig, vs) == [st |-> st, sig |-> sig, vs |-> vs]
Ok(st, vs) == Res(st, "ok", vs)
Fail(st) == Res(st, "error", <<>>)
One(r) == IF r.vs = <<>> THEN NilV ELSE r.vs[1]
Then(r, F(_)) == IF r.sig = "ok" THEN F(r) ELSE r
Single(r) == IF r.sig = "ok" THEN Ok(r.st, <<One(r)>>) ELSE r

LitValue(t) ==
  CASE t = "nil" -> NilV
    [] t \in {"true", "false"} -> Truth(t = "true")
    [] t \in DOMAIN Numerals -> <<"number", Numerals[t]>>
    [] t \in DOMAIN Strings -> <<"string", Strings[t]>>
At(map, x) == IF x \in DOMAIN map THEN map[x] ELSE NilV
Without(map, x) == [y \in DOMAIN map \ {x} |-> map[y]]
Update(map, x, v) == IF v = NilV THEN Without(map, x) ELSE (x :> v) @@ map

\* Declares variables: a new cell for each, whatever the names hid.
Declare(st, env, names, vs) ==
  LET n == Len(st.cells)
      value(j) == IF j <= Len(vs) THEN vs[j] ELSE NilV
      last(x) == CHOOSE j \in DOMAIN names : names[j] = x /\ \A i \in DOMAIN names : names[i] = x => i <= j
  IN [st |-> [st EXCEPT !.cells = @ \o [j \in DOMAIN names |-> value(j)]],
      env |-> [env EXCEPT !.vars = [x \in ToSet(names) |-> n + last(x)] @@ @]]

NumberOf(v) == IF v[1] = "string" /\ v[2] \in DOMAIN Numerals THEN <<"number", Numerals[v[2]]>> ELSE v
TextOfValue(v) == IF v[1] = "number" THEN ToString(v[2]) ELSE v[2]
Floor(a, b) == IF b > 0 THEN a \div b ELSE (-a) \div (-b)
Compute(op, x, y) ==
  CASE op = "+" -> x + y [] op = "-" -> x - y [] op = "*" -> x * y [] op = "/" -> Floor(x, y)
    [] op = "%" -> x - y * Floor(x, y) [] op = "^" -> x ^ y
Relation(op, x, y) ==
  CASE op = "<" -> x < y [] op = "<=" -> x <= y [] op = ">" -> x > y [] op = ">=" -> x >= y
Binary(st, op, a, b) ==
  LET x == NumberOf(a)
      y == NumberOf(b)
  IN CASE op = "==" -> Ok(st, <<Truth(a = b)>>)
       [] op = "~=" -> Ok(st, <<Truth(a # b)>>)
       [] op = ".." -> IF {a[1], b[1]} \subseteq {"number", "string"}
                       THEN Ok(st, << <<"string", TextOfValue(a) \o TextOfValue(b)>> >>) ELSE Fail(st)
       [] op \in {"<", "<=", ">", ">="} ->
            IF a[1] = "number" /\ b[1] = "number" THEN Ok(st, <<Truth(Relation(op, a[2], b[2]))>>) ELSE Fail(st)
       [] OTHER -> IF x[1] = "number" /\ y[1] = "number"
                   THEN Ok(st, << <<"number", Compute(op, x[2], y[2])>> >>) ELSE Fail(st)
Border(t) == CHOOSE n \in 0..Cardinality(DOMAIN t) :
  (n = 0 \/ <<"number", n>> \in DOMAIN t) /\ <<"number", n + 1>> \notin DOMAIN t
Unary(st, op, v) ==
  CASE op = "not" -> Ok(st, <<Truth(No(v))>>)
    [] op = "-" -> IF NumberOf(v)[1] = "number" THEN Ok(st, << <<"number", - NumberOf(v)[2]>> >>) ELSE Fail(st)
    [] op = "#" -> IF v[1] = "string" THEN Ok(st, << <<"number", Len(v[2])>> >>)
                   ELSE IF v[1] = "table" THEN Ok(st, << <<"number", Border(st.tabs[v[2]])>> >>) ELSE Fail(st)

RECURSIVE Ev(_, _, _), EvList(_, _, _), Exec(_, _, _), Apply(_, _, _)
Select(r, t, key) == IF t[1] = "table" THEN Ok(r.st, <<At(r.st.tabs[t[2]], key)>>) ELSE Fail(r.st)
\* Two expressions in order; both values.
EvTwo(st, env, a, b) ==
  Then(Ev(st, env, a), LAMBDA x : Then(Ev(x.st, env, b), LAMBDA y : Ok(y.st, <<One(x), One(y)>>)))
Fill(st, env, e, t) ==   \* the items of a constructor, one by one
  FoldLeft(LAMBDA r, n :
      LET i == e[2][n]
          place == Cardinality({m \in 1..n : Len(e[2][m]) = 1})
          put(s, vs) == [s EXCEPT !.tabs[t] =
             [key \in DOMAIN @ \ {<<"number", place - 1 + j>> : j \in DOMAIN vs} |-> @[key]]
             @@ [key \in {<<"number", place - 1 + j>> : j \in {m \in DOMAIN vs : vs[m] # NilV}} |->
                   vs[key[2] - place + 1]]]
      IN Then(r, LAMBDA q :
           IF Len(i) = 2
           THEN Then(EvTwo(q.st, env, i[1], i[2]), LAMBDA w :
                  IF w.vs[1] = NilV THEN Fail(w.st)
                  ELSE Ok([w.st EXCEPT !.tabs[t] = Update(@, w.vs[1], w.vs[2])], <<>>))
           ELSE Then(Ev(q.st, env, i[1]), LAMBDA w :
                  Ok(put(w.st, IF n = Len(e[2]) THEN w.vs ELSE <<One(w)>>), <<>>))),
    Ok(st, <<>>), [n \in DOMAIN e[2] |-> n])
Ev(st, env, e) ==
  CASE e[1] = "lit" -> Ok(st, <<LitValue(e[2])>>)
    [] e[1] = "name" -> Ok(st, <<IF e[2] \in DOMAIN env.vars THEN st.cells[env.vars[e[2]]]
                                 ELSE At(st.globals, e[2])>>)
    [] e[1] = "vararg" -> Ok(st, env.extra)
    [] e[1] = "paren" -> Single(Ev(st, env, e[2]))
    [] e[1] = "index" -> Then(EvTwo(st, env, e[2], e[3]), LAMBDA r : Select(r, r.vs[1], r.vs[2]))
    [] e[1] = "call" -> Then(Ev(st, env, e[2]), LAMBDA f :
         Then(EvList(f.st, env, e[3]), LAMBDA a : Apply(a.st, One(f), a.vs)))
    [] e[1] = "method" -> Then(Ev(st, env, e[2]), LAMBDA o :
         Then(Select(o, One(o), <<"string", e[3]>>), LAMBDA f :
           Then(EvList(f.st, env, e[4]), LAMBDA a : Apply(a.st, One(f), <<One(o)>> \o a.vs))))
    [] e[1] = "fn" -> Ok([st EXCEPT !.fns = Append(@, [code |-> e, env |-> env])],
                         << <<"function", Len(st.fns) + 1>> >>)
    [] e[1] = "un" -> Then(Ev(st, env, e[3]), LAMBDA r : Unary(r.st, e[2], One(r)))
    [] e[1] = "bin" /\ e[2] \in {"and", "or"} -> Then(Ev(st, env, e[3]), LAMBDA r :
         IF No(One(r)) = (e[2] = "and") THEN Single(r) ELSE Single(Ev(r.st, env, e[4])))
    [] e[1] = "bin" /\ e[2] \notin {"and", "or"} ->
         Then(EvTwo(st, env, e[3], e[4]), LAMBDA r : Binary(r.st, e[2], r.vs[1], r.vs[2]))
    [] e[1] = "table" ->
         LET t == Len(st.tabs) + 1
         IN Then(Fill([st EXCEPT !.tabs = Append(@, <<>>)], env, e, t),
                 LAMBDA r : Ok(r.st, << <<"table", t>> >>))
\* All the values of the last expression, one of each of the others.
EvList(st, env, es) ==
  IF es = <<>> THEN Ok(st, <<>>)
  ELSE FoldLeft(LAMBDA r, n : Then(r, LAMBDA q : Then(Ev(q.st, env, es[n]), LAMBDA w :
           Ok(w.st, q.vs \o (IF n = Len(es) THEN w.vs ELSE <<One(w)>>)))),
         Ok(st, <<>>), [n \in DOMAIN es |-> n])
Apply(st, f, args) ==
  IF f[1] # "function" THEN Fail(st)
  ELSE LET code == st.fns[f[2]].code
           dots == code[2] # <<>> /\ Last(code[2]) = "..."
           names == IF dots THEN Front(code[2]) ELSE code[2]
           extra == IF dots THEN SubSeq(args, Len(names) + 1, Len(args)) ELSE <<>>
           d == Declare(st, [st.fns[f[2]].env EXCEPT !.extra = extra], names, args)
           r == Exec(d.st, d.env, code[3])
       IN CASE r.sig = "return" -> Ok(r.st, r.vs) [] r.sig = "ok" -> Ok(r.st, <<>>) [] OTHER -> r

\* Assigns to a variable, or to a table and key evaluated before.
Store(r, env, var, place, v) ==
  CASE var[1] = "index" ->
         IF place[1][1] # "table" \/ place[2] = NilV THEN Fail(r.st)
         ELSE Ok([r.st EXCEPT !.tabs[place[1][2]] = Update(@, place[2], v)], <<>>)
    [] var[1] = "name" /\ var[2] \in DOMAIN env.vars -> Ok([r.st EXCEPT !.cells[env.vars[var[2]]] = v], <<>>)
    [] OTHER -> Ok([r.st EXCEPT !.globals = Update(@, var[2], v)], <<>>)
Places(st, env, vars) ==
  FoldLeft(LAMBDA r, var : Then(r, LAMBDA q :
      IF var[1] # "index" THEN Ok(q.st, Append(q.vs, <<NilV, NilV>>))
      ELSE Then(EvTwo(q.st, env, var[2], var[3]), LAMBDA w : Ok(w.st, Append(q.vs, w.vs)))),
    Ok(st, <<>>), vars)
AssignAll(st, env, vars, es) ==
  Then(Places(st, env, vars), LAMBDA p : Then(EvList(p.st, env, es), LAMBDA a :
    FoldRight(LAMBDA n, r : Then(r, LAMBDA q :
        Store(q, env, vars[n], p.vs[n], IF n <= Len(a.vs) THEN a.vs[n] ELSE NilV)),
      [n \in DOMAIN vars |-> n], Ok(a.st, <<>>))))

\* A loop body ran: the loop goes on, ends, or passes the signal on.
Again(r, Goes(_)) == CASE r.sig = "ok" -> Goes(r) [] r.sig = "break" -> Ok(r.st, <<>>) [] OTHER -> r
RECURSIVE Loop(_, _, _), Steps(_, _, _, _, _), Iterate(_, _, _, _)
Loop(st, env, s) ==
  Then(Ev(st, env, s[2]), LAMBDA c :
    IF No(One(c)) THEN Ok(c.st, <<>>)
    ELSE Again(Exec(c.st, env, s[3]), LAMBDA r : Loop(r.st, env, s)))
RECURSIVE Until(_, _, _)
Until(st, env, s) ==   \* the condition sees the variables of the body
  LET r == Exec(st, env, Append(s[2], <<"until", s[3]>>))
  IN Again(r, LAMBDA q : IF No(One(q)) THEN Until(q.st, env, s) ELSE Ok(q.st, <<>>))
Steps(st, env, s, lims, i) ==
  LET step == lims[3]
      d == Declare(st, env, <<s[2]>>, << <<"number", i>> >>)
  IN IF (step > 0 /\ i > lims[2]) \/ (step <= 0 /\ i < lims[2]) THEN Ok(st, <<>>)
     ELSE Again(Exec(d.st, d.env, s[4]), LAMBDA r : Steps(r.st, env, s, lims, i + step))
Iterate(st, env, s, gen) ==
  Then(Apply(st, gen[1], <<gen[2], gen[3]>>), LAMBDA a :
    LET d == Declare(a.st, env, s[2], a.vs)
    IN IF One(a) = NilV THEN Ok(a.st, <<>>)
       ELSE Again(Exec(d.st, d.env, s[4]), LAMBDA r : Iterate(r.st, env, s, <<gen[1], gen[2], One(a)>>)))
Limits(r) ==
  LET vs == [n \in 1..3 |-> IF n <= Len(r.vs) THEN NumberOf(r.vs[n]) ELSE <<"number", 1>>]
  IN IF \E n \in 1..3 : vs[n][1] # "number" THEN Fail(r.st) ELSE Ok(r.st, [n \in 1..3 |-> vs[n][2]])

\* Runs statements; the declarations of a block end with it.
Exec(st, env, stats) ==
  IF stats = <<>> THEN Ok(st, <<>>)
  ELSE LET s == Head(stats)
           rest(r) == Exec(r.st, env, Tail(stats))
           declared(d) == Exec(d.st, d.env, Tail(stats))
       IN CASE s[1] = "local" ->
                 Then(EvList(st, env, s[3]), LAMBDA r : declared(Declare(r.st, env, s[2], r.vs)))
            [] s[1] = "localfn" ->
                 LET d == Declare(st, env, <<s[2]>>, <<>>)
                 IN declared([d EXCEPT !.st = Ev(d.st, d.env, s[3]).st,
                                       !.st.cells = [d.st.cells EXCEPT ![Len(d.st.cells)] =
                                                       <<"function", Len(d.st.fns) + 1>>]])
            [] s[1] = "assign" -> Then(AssignAll(st, env, s[2], s[3]), rest)
            [] s[1] = "callstat" -> Then(Ev(st, env, s[2]), rest)
            [] s[1] = "do" -> Then(Exec(st, env, s[2]), rest)
            [] s[1] = "while" -> Then(Loop(st, env, s), rest)
            [] s[1] = "repeat" -> Then(Until(st, env, s), rest)
            [] s[1] = "if" -> Then(Ev(st, env, s[2]), LAMBDA c :
                 Then(Exec(c.st, env, IF No(One(c)) THEN s[4] ELSE s[3]), rest))
            [] s[1] = "for" -> Then(EvList(st, env, s[3]), LAMBDA l :
                 Then(Limits(l), LAMBDA r : Then(Steps(r.st, env, s, r.vs, r.vs[1]), rest)))
            [] s[1] = "forin" -> Then(EvList(st, env, s[3]), LAMBDA l :
                 Then(Iterate(l.st, env, s, SubSeq(l.vs \o <<NilV, NilV, NilV>>, 1, 3)), rest))
            [] s[1] = "return" ->
                 Then(EvList(st, env, s[2]), LAMBDA r : Res(r.st, "return", r.vs))
            [] s[1] = "until" -> Single(Ev(st, env, s[2]))
            [] s[1] = "break" -> Res(st, "break", <<>>)

\* A value seen from outside: a table by what it holds, to some depth.
RECURSIVE Image(_, _, _)
Image(v, tabs, depth) ==
  CASE v[1] = "table" /\ depth > 0 ->
         <<"table", {<<Image(x, tabs, depth - 1), Image(tabs[v[2]][x], tabs, depth - 1)>> :
                      x \in DOMAIN tabs[v[2]]}>>
    [] v[1] = "function" \/ (v[1] = "table" /\ depth = 0) -> <<v[1]>>
    [] OTHER -> v
Meaning(program) ==
  LET r == Exec([cells |-> <<>>, tabs |-> <<>>, fns |-> <<>>, globals |-> <<>>],
                [vars |-> <<>>, extra |-> <<>>], program)
  IN <<IF r.sig = "error" THEN "error" ELSE "return">> \o [n \in DOMAIN r.vs |-> Image(r.vs[n], r.st.tabs, 3)]
=============================================================================
