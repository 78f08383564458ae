------------------------------ MODULE LuaSyntax ------------------------------
(* Lua programs as trees, and their text: no parentheses but those the          *)
(* precedence of the operators requires.                                        *)
EXTENDS Integers, Sequences, SequencesExt, TLC

(* Expressions and statements.                                                  *)
Lit(t)          == <<"lit", t>>
Var(x)          == <<"name", x>>
Dots            == <<"vararg">>
Index(t, key)   == <<"index", t, key>>
CallE(f, args)  == <<"call", f, args>>
Method(o, m, args) == <<"method", o, m, args>>
Fn(params, body) == <<"fn", params, body>>
Bin(op, a, b)   == <<"bin", op, a, b>>
Un(op, a)       == <<"un", op, a>>
Table(items)    == <<"table", items>>       \* items: <<e>> or <<key, e>>
Paren(e)        == <<"paren", e>>

Local(names, es)  == <<"local", names, es>>
Assign(vars, es)  == <<"assign", vars, es>>
Do(body)          == <<"do", body>>
CallS(e)          == <<"callstat", e>>
While(c, body)    == <<"while", c, body>>
Repeat(body, c)   == <<"repeat", body, c>>
If(c, yes, no)    == <<"if", c, yes, no>>
For(x, lims, body) == <<"for", x, lims, body>>
ForIn(names, es, body) == <<"forin", names, es, body>>
LocalFn(x, f)     == <<"localfn", x, f>>
Return(es)        == <<"return", es>>
Break             == <<"break">>
-----------------------------------------------------------------------------
(* The text of a program.                                                       *)
precedence == [x \in {"or"} |-> 1] @@ [x \in {"and"} |-> 2]
  @@ [x \in {"<", ">", "<=", ">=", "~=", "=="} |-> 3] @@ [x \in {".."} |-> 4]
  @@ [x \in {"+", "-"} |-> 5] @@ [x \in {"*", "/", "%"} |-> 6] @@ [x \in {"^"} |-> 8]
unaryPrecedence == 7

Commas(texts) ==
  IF texts = <<>> THEN <<>>
  ELSE FoldLeft(LAMBDA a, b : a \o <<",">> \o b, Head(texts), Tail(texts))
level(e) == CASE e[1] = "bin" -> precedence[e[2]] [] e[1] = "un" -> unaryPrecedence [] OTHER -> 9

RECURSIVE Text(_), Texts(_)
\* The text of e as an operand that binds at least as tightly as min.
Operand(e, min) == IF level(e) < min THEN <<"(">> \o Text(e) \o <<")">> ELSE Text(e)
Prefix(e) == IF e[1] \in {"name", "index", "call", "method", "paren"} THEN Text(e)
             ELSE <<"(">> \o Text(e) \o <<")">>
List(es) == Commas([n \in DOMAIN es |-> Text(es[n])])
Names(xs) == Commas([n \in DOMAIN xs |-> <<xs[n]>>])
FnBody(f) == <<"(">> \o Names(f[2]) \o <<")">> \o Texts(f[3]) \o <<"end">>
Item(i) == IF Len(i) = 1 THEN Text(i[1])
           ELSE <<"[">> \o Text(i[1]) \o <<"]", "=">> \o Text(i[2])
Text(e) ==
  CASE e[1] \in {"lit", "name"} -> <<e[2]>>
    [] e[1] = "vararg" -> <<"...">>
    [] e[1] = "paren" -> <<"(">> \o Text(e[2]) \o <<")">>
    [] e[1] = "index" -> Prefix(e[2]) \o <<"[">> \o Text(e[3]) \o <<"]">>
    [] e[1] = "call" -> Prefix(e[2]) \o <<"(">> \o List(e[3]) \o <<")">>
    [] e[1] = "method" -> Prefix(e[2]) \o <<":", e[3], "(">> \o List(e[4]) \o <<")">>
    [] e[1] = "fn" -> <<"function">> \o FnBody(e)
    [] e[1] = "un" -> <<e[2]>> \o Operand(e[3], unaryPrecedence)
    [] e[1] = "bin" ->
         LET p == level(e)
             right == e[2] \in {"..", "^"}
         IN Operand(e[3], IF right THEN p + 1 ELSE p) \o <<e[2]>>
            \o Operand(e[4], IF right THEN p ELSE p + 1)
    [] e[1] = "table" ->
         <<"{">> \o Commas([n \in DOMAIN e[2] |-> Item(e[2][n])]) \o <<"}">>
TextOf(s) ==
  CASE s[1] = "local" -> <<"local">> \o Names(s[2]) \o (IF s[3] = <<>> THEN <<>> ELSE <<"=">> \o List(s[3]))
    [] s[1] = "assign" -> List(s[2]) \o <<"=">> \o List(s[3])
    [] s[1] = "callstat" -> Text(s[2])
    [] s[1] = "do" -> <<"do">> \o Texts(s[2]) \o <<"end">>
    [] s[1] = "while" -> <<"while">> \o Text(s[2]) \o <<"do">> \o Texts(s[3]) \o <<"end">>
    [] s[1] = "repeat" -> <<"repeat">> \o Texts(s[2]) \o <<"until">> \o Text(s[3])
    [] s[1] = "if" -> <<"if">> \o Text(s[2]) \o <<"then">> \o Texts(s[3])
         \o (IF s[4] = <<>> THEN <<>> ELSE <<"else">> \o Texts(s[4])) \o <<"end">>
    [] s[1] = "for" -> <<"for", s[2], "=">> \o List(s[3]) \o <<"do">> \o Texts(s[4]) \o <<"end">>
    [] s[1] = "forin" ->
         <<"for">> \o Names(s[2]) \o <<"in">> \o List(s[3]) \o <<"do">> \o Texts(s[4]) \o <<"end">>
    [] s[1] = "localfn" -> <<"local", "function", s[2]>> \o FnBody(s[3])
    [] s[1] = "return" -> <<"return">> \o List(s[2])
    [] s[1] = "break" -> <<"break">>
Texts(stats) == FoldLeft(LAMBDA a, s : a \o TextOf(s) \o <<"\n">>, <<>>, stats)
Unparse(program) == Texts(program)
=============================================================================
