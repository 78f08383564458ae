---------------------------- MODULE MCLuaCompiler ----------------------------
(* Families of programs for the compiler and the virtual machine. A chunk's     *)
(* name is the family and its parameters; Program gives its tree. The limits of *)
(* the operands are scaled down so that small programs cross them.              *)
EXTENDS LuaVM, LuaBase, LuaCheck, LuaSyntax

CONSTANTS
    TextMeans(_),    \* what a chunk means: LuaLanguage
    Contents(_, _),  \* a value with the contents of its tables
    Reloaded(_, _),  \* a function dumped, stripped or not, and undumped
    Cut(_)           \* what undumping gives for each prefix of a dump

Literals == [x \in {"1", "2", "3", "4", "5", "6", "7", "8", "9", "23", "32", "10"} |->
  CASE x = "1" -> 1 [] x = "2" -> 2 [] x = "3" -> 3 [] x = "4" -> 4 [] x = "5" -> 5
    [] x = "6" -> 6 [] x = "7" -> 7 [] x = "8" -> 8 [] x = "9" -> 9
    [] x = "23" -> 23 [] x = "32" -> 32 [] x = "10" -> 10]
StringLiterals == [x \in {"'a'", "'b'", "'c'", "'7'"} |->
  CASE x = "'a'" -> "a" [] x = "'b'" -> "b" [] x = "'c'" -> "c" [] x = "'7'" -> "7"]
Language == INSTANCE LuaLanguage WITH Numerals <- Literals, Strings <- StringLiterals

MCGlobals == <<>>
MCLibraries == <<>>

One_ == Lit("1")
Two == Lit("2")
Three == Lit("3")
f == Var("f")
g == Var("g")
t == Var("t")
x == Var("x")
y == Var("y")
i == Var("i")
\* g returns its arguments after a false one.
Prelude == << LocalFn("g", Fn(<<"...">>, <<Return(<<Lit("false"), Dots>>)>>)),
              Local(<<"x", "y">>, <<One_>>) >>

\* Expressions of the operators o and p over three leaves, in both shapes, used in
\* every kind of place a condition or a value can be.
Leaf == [nil |-> Lit("nil"), false |-> Lit("false"), one |-> One_, x |-> x, y |-> y,
         call |-> CallE(g, <<>>), less |-> Bin("<", x, Two), not |-> Un("not", y),
         eq |-> Bin("~=", y, One_)]
Shape(left, o, p, a, b, c) ==
  IF left THEN Bin(p, Bin(o, Leaf[a], Leaf[b]), Leaf[c]) ELSE Bin(o, Leaf[a], Bin(p, Leaf[b], Leaf[c]))
Place(place, e) ==
  CASE place = "local" -> <<Local(<<"a", "b">>, <<One_, e>>), Return(<<Var("b"), Var("a")>>)>>
    [] place = "return" -> <<Return(<<e>>)>>
    [] place = "if" -> <<If(e, <<Return(<<One_>>)>>, <<Return(<<Two>>)>>)>>
    [] place = "ifnot" -> <<If(Un("not", e), <<Assign(<<x>>, <<Three>>)>>, <<>>), Return(<<x>>)>>
    [] place = "while" -> <<While(e, <<If(Bin("==", x, Three), <<Break>>, <<>>),
                                     Assign(<<x>>, <<Bin("+", x, One_)>>)>>), Return(<<x>>)>>
    [] place = "repeat" -> <<Repeat(<<Local(<<"z">>, <<Bin("==", x, Three)>>), Assign(<<x>>, <<Bin("+", x, One_)>>)>>,
                                    Bin("or", Var("z"), e)), Return(<<x>>)>>
    [] place = "argument" -> <<Return(<<CallE(g, <<e, One_>>)>>)>>
    [] place = "key" -> <<Local(<<"t">>, <<Table(<< <<Lit("true"), One_>>, <<One_, Two>> >>)>>),
                          Return(<<Index(t, e)>>)>>
    [] place = "global" -> <<Assign(<<Var("G")>>, <<e>>), Return(<<Var("G")>>)>>
    [] place = "operand" -> <<Return(<<Bin("==", Paren(e), One_), Un("not", e)>>)>>

\* Chains of operators, folded or not: with numerals, or with a variable inside.
Arithmetic(left, o, p, kind) ==
  LET b == CASE kind = "numeral" -> Three [] kind = "variable" -> Var("z") [] kind = "string" -> Lit("'7'")
                [] kind = "minus" -> Un("-", Three)
  IN <<Local(<<"z">>, <<Three>>),
       Return(<<IF left THEN Bin(p, Bin(o, Two, b), Two) ELSE Bin(o, Two, Bin(p, b, Two))>>)>>

\* Multiple assignments: the targets, the values, in all combinations.
Target == [i |-> i, t |-> t, ti |-> Index(t, i), G |-> Var("G"), tt |-> Index(Index(t, Lit("'a'")), i)]
Value == [one |-> One_, i |-> Bin("+", i, One_), call |-> CallE(g, <<i, Lit("5")>>),
          ti |-> Index(t, i), t |-> t, none |-> Paren(CallE(g, <<>>))]
Assignment(targets, values) ==
  << Local(<<"i", "t">>, <<One_, Table(<< <<Lit("4")>>, <<Lit("5")>>, <<Lit("'a'"), Table(<<>>)>> >>)>>),
     Local(<<"s">>, <<t>>),
     Assign([n \in DOMAIN targets |-> Target[targets[n]]], [n \in DOMAIN values |-> Value[values[n]]]),
     Return(<<i, Var("s"), Var("G"), Bin("==", t, Var("s"))>>) >>

\* Constructors of n items and then the last one; keyed items when keyed.
Constructor(n, last, keyed) ==
  LET items == [m \in 1..n |-> <<Lit("7")>>]
      keys == IF keyed THEN << <<Lit("'a'"), One_>>, <<Lit("'b'"), CallE(g, <<>>)>> >> ELSE <<>>
      end == CASE last = "none" -> <<>> [] last = "dots" -> << <<Dots>> >>
               [] last = "call" -> << <<CallE(g, <<Two>>)>> >> [] last = "paren" -> << <<Paren(CallE(g, <<Two>>))>> >>
  IN <<Local(<<"h">>, <<Fn(<<"...">>, <<Return(<<Table(keys \o items \o end)>>)>>)>>),
       Return(<<CallE(Var("h"), <<Lit("8"), Lit("9"), Lit("10")>>)>>)>>

\* A numeric loop whose body keeps a closure over its variable and may break.
Loop(from, to, step, stop) ==
  <<Local(<<"t">>, <<Table(<<>>)>>),
    For("i", <<from, to, step>>,
        <<Local(<<"j">>, <<Bin("*", i, Two)>>),
          Assign(<<Index(t, Bin("+", Un("#", t), One_))>>,
                 <<Fn(<<>>, <<Assign(<<Var("j")>>, <<Bin("+", Var("j"), One_)>>), Return(<<Var("j"), i>>)>>)>>),
          If(Bin("==", i, stop), <<Break>>, <<>>)>>),
    Return(<<Un("#", t), CallE(Index(t, One_), <<>>), CallE(Index(t, One_), <<>>), CallE(Index(t, Un("#", t)), <<>>)>>)>>

Counter == Fn(<<"n">>, <<Return(<<Fn(<<"d">>, <<Assign(<<Var("n")>>, <<Bin("+", Var("n"), Var("d"))>>), Return(<<Var("n")>>)>>)>>)>>)
Closures(kind) ==
  CASE kind = "counters" ->
         <<Local(<<"c">>, <<Counter>>), Local(<<"a", "b">>, <<CallE(Var("c"), <<One_>>), CallE(Var("c"), <<Two>>)>>),
           CallS(CallE(Var("a"), <<One_>>)), Return(<<CallE(Var("a"), <<One_>>), CallE(Var("b"), <<One_>>)>>)>>
    [] kind = "shared" ->
         <<Local(<<"n">>, <<One_>>),
           LocalFn("inc", Fn(<<>>, <<Assign(<<Var("n")>>, <<Bin("+", Var("n"), One_)>>)>>)),
           LocalFn("deep", Fn(<<>>, <<Return(<<Fn(<<>>, <<CallS(CallE(Var("inc"), <<>>)), Return(<<Var("n")>>)>>)>>)>>)),
           CallS(CallE(CallE(Var("deep"), <<>>), <<>>)), Assign(<<Var("n")>>, <<Bin("*", Var("n"), Two)>>),
           Return(<<CallE(CallE(Var("deep"), <<>>), <<>>), Var("n")>>)>>
    [] kind = "tail" ->
         <<LocalFn("f", Fn(<<"n", "k">>, <<If(Bin("==", Var("n"), Lit("4")), <<Return(<<CallE(Var("k"), <<>>)>>)>>, <<>>),
              Return(<<CallE(f, <<Bin("+", Var("n"), One_), Fn(<<>>, <<Return(<<Var("n"), CallE(Var("k"), <<>>)>>)>>)>>)>>)>>)),
           Return(<<CallE(f, <<One_, Fn(<<>>, <<Return(<<Lit("9")>>)>>)>>)>>)>>
    [] kind = "blocks" ->
         <<Local(<<"r">>, <<>>),
           While(Bin("<", x, Three),
             <<Local(<<"z">>, <<x>>), Do(<<Local(<<"z">>, <<Bin("*", Var("z"), Lit("10"))>>),
                 Assign(<<Var("r")>>, <<Fn(<<>>, <<Assign(<<Var("z")>>, <<Bin("+", Var("z"), One_)>>), Return(<<Var("z")>>)>>)>>)>>),
               Assign(<<x>>, <<Bin("+", x, One_)>>)>>),
           CallS(CallE(Var("r"), <<>>)), Return(<<CallE(Var("r"), <<>>), x>>)>>
    [] kind = "until" ->
         <<Local(<<"r">>, <<>>),
           Repeat(<<Local(<<"z">>, <<x>>), Assign(<<Var("r")>>, <<Fn(<<>>, <<Return(<<Var("z")>>)>>)>>),
                    Assign(<<x>>, <<Bin("+", x, One_)>>)>>, Bin("==", Var("z"), Three)),
           Return(<<CallE(Var("r"), <<>>), x>>)>>
    [] kind = "iterator" ->
         <<LocalFn("it", Fn(<<"s", "c">>, <<If(Bin("<", Var("c"), Var("s")), <<Return(<<Bin("+", Var("c"), One_), Var("s")>>)>>, <<>>)>>)),
           Local(<<"t">>, <<Table(<<>>)>>),
           ForIn(<<"a", "b">>, <<Var("it"), Three, Lit("1")>>,
                 <<Assign(<<Index(t, Var("a"))>>, <<Fn(<<>>, <<Return(<<Var("a"), Var("b")>>)>>)>>)>>),
           Return(<<CallE(Index(t, Two), <<>>), CallE(Index(t, Three), <<>>)>>)>>
    [] kind = "method" ->
         <<Local(<<"o">>, <<Table(<< <<Lit("'a'"), Fn(<<"self", "v">>, <<Assign(<<Index(Var("self"), Lit("'b'"))>>, <<Var("v")>>),
                                        Return(<<Var("self")>>)>>)>> >>)>>),
           CallS(Method(Method(Var("o"), "a", <<One_>>), "a", <<CallE(g, <<>>)>>)),
           Return(<<Index(Var("o"), Lit("'b'"))>>)>>
    [] kind = "limits" ->
         <<For("i", <<Lit("'7'"), Lit("9")>>, <<Assign(<<x>>, <<Bin("+", x, i)>>)>>),
           For("i", <<Var("y"), Lit("9")>>, <<>>)>>

\* A call with n arguments, or a chain of n operands: they are in registers all at once,
\* after the three locals of the prelude and, in a call, the function.
Wide(kind, n) ==
  LET chain[m \in 1..n] == IF m = 1 THEN x ELSE Bin("..", x, chain[m - 1])
  IN CASE kind = "call" -> <<Return(<<CallE(g, [m \in 1..n |-> x])>>)>>
       [] kind = "concat" -> <<Return(<<chain[n]>>)>>
TooWide(c) == c[1] = "wide" /\ 3 + (IF c[2] = "call" THEN 1 ELSE 0) + c[3] >= MAXSTACK

ArgLists == [none |-> <<>>, one |-> <<One_>>, nils |-> <<Lit("nil"), Lit("nil"), Two>>,
             call |-> <<One_, CallE(g, <<Two>>)>>, cut |-> <<CallE(g, <<Two>>), One_>>, paren |-> <<Paren(CallE(g, <<Two>>))>>]
Calls(ps, as, dots) ==
  <<LocalFn("f", Fn(ps, <<Local(<<"v", "w">>, <<x, dots>>), If(Var("v"), <<Return(<<Var("w"), dots>>)>>, <<>>)>>)),
    Return(<<Table(<< <<CallE(f, ArgLists[as])>> >>), CallE(f, ArgLists[as])>>)>>

Program(c) ==
  Prelude \o
  (CASE c[1] = "bool" -> Place(c[8], Shape(c[2], c[3], c[4], c[5], c[6], c[7]))
     [] c[1] = "arith" -> Arithmetic(c[2], c[3], c[4], c[5])
     [] c[1] = "assign" -> Assignment(c[2], c[3])
     [] c[1] = "table" -> Constructor(c[2], c[3], c[4])
     [] c[1] = "loop" -> Loop(Lit(c[2]), Lit(c[3]), IF c[4] = "-1" THEN Un("-", One_) ELSE Lit(c[4]), Lit(c[5]))
     [] c[1] = "closure" -> Closures(c[2])
     [] c[1] = "wide" -> Wide(c[2], c[3])
    [] c[1] = "call" -> Calls(c[2], c[3], IF c[2] # <<>> /\ Last(c[2]) = "..." THEN Dots ELSE y))
MCNumber(s) == LET n == Lex!luaO_str2d(Lex!Chars(s))
               IN IF n.ok THEN Num(Lex!integerOf(n)) ELSE Nil
MCChunk(c, nCcalls) == LET tokens == Unparse(Program(c)) IN luaY_parser(tokens, nCcalls)

Places == {"local", "return", "if", "ifnot", "while", "repeat", "argument", "key", "global", "operand"}
Operators == {"+", "-", "*", "%", "^", ".."}
Chunks ==
  { <<"bool", left, o, p, a, b, c, place>> : left \in BOOLEAN, o \in {"and", "or"}, p \in {"and", "or"},
      a \in {"false", "x", "less"}, b \in {"one", "call", "not"}, c \in {"nil", "eq", "y"}, place \in Places }
  \cup { <<"arith", left, o, p, kind>> : left \in BOOLEAN, o \in Operators, p \in Operators \ {".."},
           kind \in {"numeral", "variable"} }
  \cup { <<"assign", <<a, b>>, <<v, w>> >> : a \in DOMAIN Target, b \in DOMAIN Target \ {"t"},
           v \in {"i", "call"}, w \in {"one", "call", "t", "none"} }
  \cup { <<"assign", <<a, b>>, <<v>> >> : a \in DOMAIN Target, b \in {"G", "ti"}, v \in DOMAIN Value }
  \cup { <<"table", n, last, keyed>> : n \in 0..8, last \in {"none", "dots", "call", "paren"}, keyed \in BOOLEAN }
  \cup { <<"loop", a, b, s, stop>> : a \in {"1", "3"}, b \in {"1", "3"}, s \in {"1", "2", "-1"}, stop \in {"2", "9"} }
  \cup { <<"closure", k>> : k \in {"counters", "shared", "tail", "blocks", "until", "iterator", "method", "limits"} }
  \cup { <<"wide", kind, n>> : kind \in {"call", "concat"}, n \in (MAXSTACK - 5)..(MAXSTACK - 2) }
  \cup { <<"call", ps, as>> : ps \in {<<>>, <<"x">>, <<"x", "...">>, <<"...">>, <<"x", "y", "z">>},
           as \in DOMAIN ArgLists }
MCScripts == { <<[chunk |-> c, timeout |-> FALSE]>> : c \in Chunks }
-----------------------------------------------------------------------------
finished == vm.c = <<>> /\ started = Len(script)
chunkRun == script[1].chunk
compiled == finished /\ chunkRun \in DOMAIN vm.p
Compiled == vm.p[chunkRun]

\* What the configuration gives, like Chunk.
MCMeaning(c) == LET program == Program(c) IN Language!Meaning(program)
MCImage(v, contents) == LET depth == 3 IN Language!Image(v, contents, depth)
MCReloaded(p, strip) == LET z == luaU_dump(p, strip) IN luaU_undump(z)
MCCut(p) == LET z == luaU_dump(p, FALSE) IN [n \in 0..(Len(z) - 1) |-> luaU_undump(SubSeq(z, 1, n))]

\* A program that has been compiled and run has the results, or fails where, the
\* meaning of its text says, whatever jumps, registers, constants and batches the
\* one-pass compiler chose, and the programs that are refused are those that need a
\* register past the last one (lparser.c, lcode.c, lvm.c).
CompiledMeansSource ==
  /\ finished => (compiled <=> ~ TooWide(chunkRun))
  /\ finished /\ ~ compiled => vm.out = << <<"error", Str("function or expression too complex")>> >>
  /\ compiled =>
    LET got == Last(vm.out)
        h == [n \in DOMAIN vm.tab |-> vm.tab[n].h]
        meaning == TextMeans(chunkRun)
    IN IF meaning[1] = "error" THEN got[1] = "error"
       ELSE <<got[1]>> \o [n \in 1..(Len(got) - 1) |-> Contents(got[n + 1], h)] = meaning

\* A dumped function is accepted by the checker of binary chunks and read back
\* unchanged, or without its debug information (ldump.c, lundump.c, ldebug.c).
RECURSIVE Stripped(_)
Stripped(p) == [p EXCEPT !.lineinfo = <<>>, !.locvars = <<>>, !.upnames = <<>>,
                         !.p = [n \in DOMAIN @ |-> Stripped(@[n])]]
UndumpRestoresChunk ==
  compiled => \A strip \in BOOLEAN :
    LET u == Reloaded(Compiled, strip)
    IN u.err = "" /\ u.z = <<>> /\ u.r = (IF strip THEN Stripped(Compiled) ELSE Compiled)

\* A chunk that was cut short is refused: no prefix of a dump is itself a dump.
TruncatedChunkIsRefused ==
  compiled => LET read == Cut(Compiled) IN \A n \in DOMAIN read : read[n].err # ""
=============================================================================
