------------------------------ MODULE LuaParser ------------------------------
(* The one-pass parser of Lua: lparser.c. It reads the tokens of S.toks and    *)
(* emits code through LuaCode. A token is a string, as LuaLex makes them: a    *)
(* reserved word or a symbol stands for itself, a string is in quotes, and      *)
(* "\n" counts a line.                                                          *)
EXTENDS LuaCode

CONSTANTS
    LUAI_MAXVARS,     \* limit of the local variables of a function (200)
    LUAI_MAXUPVALUES  \* limit of the upvalues of a function (60)

Lex == INSTANCE LuaLex

Reserved == {"and", "break", "do", "else", "elseif", "end", "false", "for", "function",
             "if", "in", "local", "nil", "not", "or", "repeat", "return", "then",
             "true", "until", "while"}
Symbols == {"+", "-", "*", "/", "%", "^", "#", "==", "~=", "<=", ">=", "<", ">", "=", "(",
            ")", "{", "}", "[", "]", ";", ":", ",", ".", "..", "...",
            "~", "<error>"}

kindOf(x) == IF x \in Reserved \cup Symbols THEN x
             ELSE LET c == SubSeq(x, 1, 1)
                  IN IF Lex!isdigit(c) THEN "<number>"
                     ELSE IF c = "'" THEN "<string>" ELSE "<name>"
numberOf(x) == Lex!integerOf(Lex!luaO_str2d(Lex!Chars(x)))
textOf(x)   == SubSeq(x, 2, Len(x) - 1)
tok(S)    == IF S.toks = <<>> THEN "<eof>" ELSE kindOf(Head(S.toks))
lookahead(S) ==
  LET next == SelectSeq(Tail(S.toks), LAMBDA x : x # "\n")
  IN IF next = <<>> THEN "<eof>" ELSE kindOf(Head(next))

RECURSIVE skiplines(_)
skiplines(S) ==
  IF S.toks # <<>> /\ Head(S.toks) = "\n"
  THEN skiplines([S EXCEPT !.toks = Tail(@), !.linenumber = @ + 1]) ELSE S
luaX_next(S) ==
  skiplines([S EXCEPT !.lastline = S.linenumber, !.toks = IF @ = <<>> THEN @ ELSE Tail(@)])

check(S, c)       == IF tok(S) = c THEN S ELSE syntaxerror(S, c \o " expected")
checknext(S, c)   == luaX_next(check(S, c))
check_match(S, what) == checknext(S, what)
testnext(S, c)    == IF tok(S) = c THEN luaX_next(S) ELSE S
checklimit(S, v, limit, what) ==
  IF v > limit THEN syntaxerror(S, "too many " \o what) ELSE S

\* Leaves the name in r.
str_checkname(S) ==
  IF tok(S) = "<name>" THEN [luaX_next(S) EXCEPT !.r = Head(S.toks)]
  ELSE [check(S, "<name>") EXCEPT !.r = "?"]
codestring(S, s) == LET q == luaK_stringK(S, s) IN With(q, Exp("VK", q.r))
checkname(S)     == LET s == str_checkname(S) IN codestring(s, s.r)
enterlevel(S) ==
  [checklimit(S, S.nCcalls + 1, LUAI_MAXCCALLS, "syntax levels") EXCEPT !.nCcalls = @ + 1]
leavelevel(S) == [S EXCEPT !.nCcalls = @ - 1]
-----------------------------------------------------------------------------
(* Functions, blocks and variables.                                            *)
NewFuncState ==
  [code |-> <<>>, lineinfo |-> <<>>, k |-> <<>>, p |-> <<>>, upnames |-> <<>>,
   locvars |-> <<>>, numparams |-> 0, is_vararg |-> {}, maxstacksize |-> 2,
   lasttarget |-> -1, jpc |-> NO_JUMP, freereg |-> 0, nactvar |-> 0,
   actvar |-> <<>>, bl |-> <<>>, upvalues |-> <<>>]

\* The debug record of the i-th active variable (i from 0).
getlocvar(fs, i) == fs.locvars[fs.actvar[i + 1]]

\* Registers the name; it becomes active with adjustlocalvars.
new_localvar(S, name, n) ==
  LET s == checklimit(S, S.f.nactvar + n + 1, LUAI_MAXVARS, "local variables")
  IN [s EXCEPT !.f.locvars = Append(@, [name |-> name, startpc |-> 0, endpc |-> 0]),
               !.f.actvar = Append(SubSeq(@, 1, S.f.nactvar + n), Len(S.f.locvars) + 1)]

adjustlocalvars(S, nvars) ==
  LET new == {S.f.actvar[i] : i \in (S.f.nactvar + 1)..(S.f.nactvar + nvars)}
  IN [S EXCEPT !.f.nactvar = @ + nvars,
               !.f.locvars = [i \in DOMAIN @ |-> IF i \in new
                  THEN [S.f.locvars[i] EXCEPT !.startpc = pcOf(S)] ELSE S.f.locvars[i]]]

removevars(S, tolevel) ==
  LET gone == {S.f.actvar[i] : i \in (tolevel + 1)..S.f.nactvar}
  IN [S EXCEPT !.f.nactvar = IF @ > tolevel THEN tolevel ELSE @,
               !.f.locvars = [i \in DOMAIN @ |-> IF i \in gone
                  THEN [S.f.locvars[i] EXCEPT !.endpc = pcOf(S)] ELSE S.f.locvars[i]]]

\* The function at level l of the nest: 1 is the main one, Len(outer) + 1 this one.
fsAt(S, l)      == IF l > Len(S.outer) THEN S.f ELSE S.outer[l]
setFs(S, l, fs) == IF l > Len(S.outer) THEN [S EXCEPT !.f = fs]
                   ELSE [S EXCEPT !.outer[l] = fs]

searchvar(fs, n) ==
  LET at == {i \in 0..(fs.nactvar - 1) : getlocvar(fs, i).name = n}
  IN IF at = {} THEN -1 ELSE CHOOSE i \in at : \A j \in at : j <= i

\* Marks the innermost block that declares the variable: leaving it closes upvalues.
markupval(fs, level) ==
  LET bls == {b \in DOMAIN fs.bl : fs.bl[b].nactvar <= level}
      bl  == CHOOSE b \in bls : \A c \in bls : c <= b
  IN IF bls = {} THEN fs ELSE [fs EXCEPT !.bl[bl].upval = TRUE]

\* The current descriptor, of the enclosing level, as an upvalue of level l.
indexupvalue(S, l, name) ==
  LET fs == fsAt(S, l)
      up == [k |-> S.v.k, info |-> S.v.info]
      at == {i \in DOMAIN fs.upvalues : fs.upvalues[i] = up}
      s  == checklimit(S, Len(fs.upvalues) + 1, LUAI_MAXUPVALUES, "upvalues")
      added == [fs EXCEPT !.upvalues = Append(@, up), !.upnames = Append(@, name)]
      i  == CHOOSE j \in at : TRUE
  IN IF at # {}
     THEN [lua_assert(S, fs.upnames[i] = name, "indexupvalue")
           EXCEPT !.v.info = i - 1, !.v.k = "VUPVAL"]
     ELSE [setFs(s, l, added) EXCEPT !.v.info = Len(fs.upvalues), !.v.k = "VUPVAL"]

RECURSIVE singlevaraux(_, _, _, _)
singlevaraux(S, n, l, base) ==
  LET v == searchvar(fsAt(S, l), n)
      found == IF base THEN S ELSE setFs(S, l, markupval(fsAt(S, l), v))
      up == singlevaraux(S, n, l - 1, FALSE)
  IN IF l = 0 THEN With(S, Exp("VGLOBAL", NO_REG))
     ELSE IF v >= 0 THEN With(found, Exp("VLOCAL", v))
     ELSE IF up.v.k = "VGLOBAL" THEN up
     ELSE indexupvalue(up, l, n)

singlevar(S) ==
  LET s == str_checkname(S)
      x == singlevaraux(s, s.r, Len(s.outer) + 1, TRUE)
      g == luaK_stringK(x, s.r)
  IN IF x.v.k = "VGLOBAL" THEN [g EXCEPT !.v.info = g.r] ELSE x

\* nexps expressions, the last one current, become the values of nvars variables.
adjust_assign(S, nvars, nexps) ==
  LET extra == nvars - nexps
      open  == IF extra + 1 < 0 THEN 0 ELSE extra + 1
      s  == luaK_setreturns(S, S.v, open)
      c  == IF S.v.k # "VVOID" THEN luaK_exp2nextreg(S) ELSE S
  IN IF hasmultret(S.v.k) THEN IF open > 1 THEN luaK_reserveregs(s, open - 1) ELSE s
     ELSE IF extra > 0 THEN luaK_nil(luaK_reserveregs(c, extra), c.f.freereg, extra)
     ELSE c

enterblock(S, isbreakable) ==
  [lua_assert(S, S.f.freereg = S.f.nactvar, "enterblock") EXCEPT !.f.bl =
     Append(@, [breaklist |-> NO_JUMP, isbreakable |-> isbreakable,
                nactvar |-> S.f.nactvar, upval |-> FALSE])]

leaveblock(S) ==
  LET bl == Last(S.f.bl)
      r  == removevars([S EXCEPT !.f.bl = Front(@)], bl.nactvar)
      c  == IF bl.upval THEN luaK_codeABC(r, "CLOSE", bl.nactvar, 0, 0) ELSE r
      a  == lua_assert(c, /\ ~ (bl.isbreakable /\ bl.upval)
                          /\ bl.nactvar = c.f.nactvar, "leaveblock")
  IN luaK_patchtohere([a EXCEPT !.f.freereg = c.f.nactvar], bl.breaklist)

open_func(S) == [S EXCEPT !.f = NewFuncState, !.outer = Append(@, S.f)]

\* The Proto of a finished function: what the virtual machine needs of it.
Proto(fs) ==
  [code |-> fs.code, lineinfo |-> fs.lineinfo, k |-> fs.k, p |-> fs.p,
   nups |-> Len(fs.upvalues), upnames |-> fs.upnames, locvars |-> fs.locvars,
   numparams |-> fs.numparams, is_vararg |-> fs.is_vararg,
   maxstacksize |-> fs.maxstacksize]

\* Leaves the finished FuncState in r.
close_func(S) ==
  LET s == luaK_ret(removevars(S, 0), 0, 0)
      a == lua_assert(s, s.f.bl = <<>>, "close_func")
  IN [a EXCEPT !.r = s.f, !.f = Last(s.outer), !.outer = Front(@)]

\* The closure is made by one instruction and one pseudo-instruction per upvalue.
pushclosure(S, func) ==
  LET s == luaK_codeABx([S EXCEPT !.f.p = Append(@, Proto(func))],
                        "CLOSURE", 0, Len(S.f.p))
      c == FoldLeft(LAMBDA q, up : luaK_codeABC(q,
             IF up.k = "VLOCAL" THEN "MOVE" ELSE "GETUPVAL", 0, up.info, 0), s, func.upvalues)
  IN With(c, Exp("VRELOCABLE", s.r))
-----------------------------------------------------------------------------
(* Expressions.                                                                *)
RECURSIVE subexpr(_, _), chunk(_), constructor(_), primaryexp(_)
expr(S) == subexpr(S, 0)

field(S) ==
  LET s == luaK_exp2anyreg(S) IN luaK_indexed(checkname(luaX_next(s)), s.v)

yindex(S) == checknext(luaK_exp2val(expr(luaX_next(S))), "]")

RECURSIVE explist(_, _)
explist(S, n) ==
  LET s == expr(S)
  IN IF tok(s) = "," THEN explist(luaX_next(luaK_exp2nextreg(s)), n + 1)
     ELSE [s EXCEPT !.r = n]
explist1(S) == explist(S, 1)

\* cc: the item read last (v), the table's register (t), the counts of record
\* and array items and of the array items not stored yet.
recfield(S, cc) ==
  LET k == IF tok(S) = "<name>" THEN checkname(S) ELSE yindex(S)
      rk == luaK_exp2RK(checknext(k, "="))
      val == luaK_exp2RK(expr(rk))
  IN [luaK_codeABC(val, "SETTABLE", cc.t, rk.r, val.r) EXCEPT !.f.freereg = S.f.freereg]

\* Puts the last item in its register, and stores the batch when it is full.
closelistfield(S, cc) ==
  LET s == luaK_exp2nextreg(With(S, cc.v))
  IN IF cc.v.k = "VVOID" THEN S
     ELSE IF cc.tostore = LFIELDS_PER_FLUSH THEN luaK_setlist(s, cc.t, cc.na, cc.tostore)
     ELSE s
afterclose(cc) ==
  IF cc.v.k = "VVOID" THEN cc
  ELSE [cc EXCEPT !.v.k = "VVOID", !.tostore = IF @ = LFIELDS_PER_FLUSH THEN 0 ELSE @]

lastlistfield(S, cc) ==
  IF cc.tostore = 0 THEN S
  ELSE IF hasmultret(cc.v.k)
    THEN luaK_setlist(luaK_setmultret(S, cc.v), cc.t, cc.na, LUA_MULTRET)
  ELSE luaK_setlist(IF cc.v.k = "VVOID" THEN S ELSE luaK_exp2nextreg(With(S, cc.v)),
                    cc.t, cc.na, cc.tostore)

\* Leaves the items' counts in r.
RECURSIVE fields(_, _)
fields(S, cc) ==
  LET a == lua_assert(S, cc.v.k = "VVOID" \/ cc.tostore > 0, "constructor")
      s == closelistfield(a, cc)
      c == afterclose(cc)
      rec == tok(S) = "[" \/ (tok(S) = "<name>" /\ lookahead(S) = "=")
      item == IF rec THEN recfield(s, c) ELSE expr(s)
      d == IF rec THEN [c EXCEPT !.nh = @ + 1]
           ELSE [c EXCEPT !.na = @ + 1, !.tostore = @ + 1, !.v = item.v]
  IN IF tok(S) = "}" THEN [a EXCEPT !.r = cc]
     ELSE IF tok(item) \in {",", ";"} THEN fields(luaX_next(item), d)
     ELSE [item EXCEPT !.r = d]

\* lobject.c: an integer rounded up to a "floating byte" (eeeeexxx).
RECURSIVE fb(_, _)
fb(x, e) == IF x >= 16 THEN fb((x + 1) \div 2, e + 1)
            ELSE IF x < 8 THEN x ELSE (e + 1) * 8 + x - 8
luaO_int2fb(x) == fb(x, 0)

constructor(S) ==
  LET n == luaK_codeABC(S, "NEWTABLE", 0, 0, 0)
      t == luaK_exp2nextreg(With(n, Exp("VRELOCABLE", n.r)))
      s == fields(checknext(t, "{"), [v |-> Exp("VVOID", 0), t |-> t.v.info,
                                      na |-> 0, nh |-> 0, tostore |-> 0])
      open == s.r.tostore > 0 /\ hasmultret(s.r.v.k)
      z == lastlistfield(check_match(s, "}"), s.r)
  IN With([z EXCEPT !.f.code[n.r + 1].b = luaO_int2fb(IF open THEN s.r.na - 1 ELSE s.r.na),
                    !.f.code[n.r + 1].c = luaO_int2fb(s.r.nh)], t.v)

\* Leaves the number of parameters in r.
RECURSIVE params(_, _)
params(S, n) ==
  LET name == str_checkname(S)
      p == new_localvar(name, name.r, n)
      dots == [new_localvar(luaX_next(S), "arg", n)
               EXCEPT !.f.is_vararg = {"HASARG", "NEEDSARG", "ISVARARG"}, !.r = n + 1]
  IN IF tok(S) = "..." THEN dots
     ELSE IF tok(p) = "," THEN params(luaX_next(p), n + 1)
     ELSE [p EXCEPT !.r = n + 1]
parlist(S) ==
  LET s == IF tok(S) = ")" THEN [S EXCEPT !.r = 0] ELSE params(S, 0)
      a == adjustlocalvars(s, s.r)
      hidden == IF "HASARG" \in a.f.is_vararg THEN 1 ELSE 0
  IN luaK_reserveregs([a EXCEPT !.f.numparams = a.f.nactvar - hidden], a.f.nactvar)

body(S, needself) ==
  LET o == checknext(open_func(S), "(")
      s == IF needself THEN adjustlocalvars(new_localvar(o, "self", 0), 1) ELSE o
      c == check_match(chunk(checknext(parlist(s), ")")), "end")
      z == close_func(c)
  IN pushclosure(z, z.r)

funcargs(S) ==
  LET fn == S.v
      line == S.linenumber
      o == luaX_next(IF line # S.lastline THEN syntaxerror(S, "ambiguous syntax") ELSE S)
      l == explist1(o)
      list == check_match(luaK_setmultret(l, l.v), ")")
      args == CASE tok(S) = "(" /\ tok(o) = ")" -> luaX_next(With(o, Exp("VVOID", 0)))
                [] tok(S) = "(" /\ tok(o) # ")" -> list
                [] tok(S) = "{" -> constructor(S)
                [] OTHER -> luaX_next(codestring(S, textOf(Head(S.toks))))
      base == fn.info
      open == hasmultret(args.v.k)
      s == IF open \/ args.v.k = "VVOID" THEN args ELSE luaK_exp2nextreg(args)
      nparams == IF open THEN LUA_MULTRET ELSE s.f.freereg - (base + 1)
      c == luaK_codeABC(lua_assert(s, fn.k = "VNONRELOC", "funcargs"),
                        "CALL", base, nparams + 1, 2)
  IN With([luaK_fixline(c, line) EXCEPT !.f.freereg = base + 1], Exp("VCALL", c.r))

prefixexp(S) ==
  CASE tok(S) = "(" -> luaK_dischargevars(check_match(expr(luaX_next(S)), ")"))
    [] tok(S) = "<name>" -> singlevar(S)
    [] OTHER -> With(syntaxerror(S, "unexpected symbol"), Exp("VNIL", 0))

RECURSIVE suffixes(_)
suffixes(S) ==
  LET any == luaK_exp2anyreg(S)
      key == checkname(luaX_next(S))
  IN CASE tok(S) = "." -> suffixes(field(S))
       [] tok(S) = "[" -> suffixes(luaK_indexed(yindex(any), any.v))
       [] tok(S) = ":" -> suffixes(IF tok(luaK_self(With(key, S.v), key.v))
                                      \in {"(", "<string>", "{"}
                                   THEN funcargs(luaK_self(With(key, S.v), key.v))
                                   ELSE syntaxerror(key, "function arguments expected"))
       [] tok(S) \in {"(", "<string>", "{"} -> suffixes(funcargs(luaK_exp2nextreg(S)))
       [] OTHER -> S
primaryexp(S) == suffixes(prefixexp(S))

vararg(S) ==
  LET a == IF S.f.is_vararg = {} THEN syntaxerror(S, "cannot use ...") ELSE S
      s == luaK_codeABC([a EXCEPT !.f.is_vararg = @ \ {"NEEDSARG"}], "VARARG", 0, 1, 0)
  IN With(s, Exp("VVARARG", s.r))

simpleexp(S) ==
  LET t == tok(S)
      constant == ("nil" :> "VNIL") @@ ("true" :> "VTRUE") @@ ("false" :> "VFALSE")
  IN CASE t = "<number>" ->
            luaX_next(With(S, [Exp("VKNUM", 0) EXCEPT !.nval = numberOf(Head(S.toks))]))
       [] t = "<string>" -> luaX_next(codestring(S, textOf(Head(S.toks))))
       [] t \in DOMAIN constant -> luaX_next(With(S, Exp(constant[t], 0)))
       [] t = "..." -> luaX_next(vararg(S))
       [] t = "{" -> constructor(S)
       [] t = "function" -> body(luaX_next(S), FALSE)
       [] OTHER -> primaryexp(S)

\* Left and right priorities of the binary operators.
priority ==
  ("+" :> <<6, 6>>) @@ ("-" :> <<6, 6>>) @@ ("*" :> <<7, 7>>) @@ ("/" :> <<7, 7>>) @@
  ("%" :> <<7, 7>>) @@ ("^" :> <<10, 9>>) @@ (".." :> <<5, 4>>) @@ ("~=" :> <<3, 3>>) @@
  ("==" :> <<3, 3>>) @@ ("<" :> <<3, 3>>) @@ ("<=" :> <<3, 3>>) @@ (">" :> <<3, 3>>) @@
  (">=" :> <<3, 3>>) @@ ("and" :> <<2, 2>>) @@ ("or" :> <<1, 1>>)
UNARY_PRIORITY == 8
isbinopr(op) == op \in DOMAIN priority

\* Extends the current expression while the operators bind tighter than limit.
RECURSIVE binaries(_, _)
binaries(S, limit) ==
  LET op == tok(S)
      i == luaK_infix(luaX_next(S), op)
      s == luaK_posfix(subexpr(i, priority[op][2]), op, i.v)
  IN IF isbinopr(op) /\ priority[op][1] > limit THEN binaries(s, limit) ELSE S
subexpr(S, limit) ==
  LET s == enterlevel(S)
      unary == tok(S) \in {"not", "-", "#"}
      e == IF unary THEN luaK_prefix(subexpr(luaX_next(s), UNARY_PRIORITY), tok(S))
           ELSE simpleexp(s)
  IN leavelevel(binaries(e, limit))
-----------------------------------------------------------------------------
(* Statements.                                                                 *)
block_follow(t) == t \in {"else", "elseif", "end", "until", "<eof>"}

block(S) ==
  LET s == chunk(enterblock(S, FALSE))
  IN leaveblock(lua_assert(s, Last(s.f.bl).breaklist = NO_JUMP, "block"))

\* The local variable v is assigned after tables it indexes: they use a copy.
\* Wrong: the conflict is not looked for.
check_conflictIgnored(S, lhs, v) == [S EXCEPT !.r = lhs]
check_conflict(S, lhs, v) ==
  LET extra == S.f.freereg
      hit(e) == e.k = "VINDEXED" /\ (e.info = v.info \/ e.aux = v.info)
      fix(e) == IF ~ hit(e) THEN e
                ELSE [e EXCEPT !.info = IF @ = v.info THEN extra ELSE @,
                               !.aux  = IF @ = v.info THEN extra ELSE @]
      conflict == \E i \in DOMAIN lhs : hit(lhs[i])
      s == luaK_reserveregs(luaK_codeABC(S, "MOVE", extra, v.info, 0), 1)
  IN [IF conflict THEN s ELSE S EXCEPT !.r = [i \in DOMAIN lhs |-> fix(lhs[i])]]

storedefault(S, var) == luaK_storevar(With(S, Exp("VNONRELOC", S.f.freereg - 1)), var)

\* lhs: the variables on the left, in order. The last is stored first.
RECURSIVE assignment(_, _)
assignment(S, lhs) ==
  LET ok == IF Last(lhs).k \in {"VLOCAL", "VUPVAL", "VGLOBAL", "VINDEXED"} THEN S
            ELSE syntaxerror(S, "syntax error")
      p == primaryexp(luaX_next(ok))
      c == IF p.v.k = "VLOCAL" THEN check_conflict(p, lhs, p.v) ELSE [p EXCEPT !.r = lhs]
      nvars == Len(lhs)
      few == checklimit(c, nvars, LUAI_MAXCCALLS - c.nCcalls, "variables in assignment")
      e == explist1(checknext(ok, "="))
      a == adjust_assign(e, nvars, e.r)
      d == IF e.r > nvars THEN [a EXCEPT !.f.freereg = @ - (e.r - nvars)] ELSE a
      rest(s, vars) == FoldRight(LAMBDA var, q : storedefault(q, var), vars, s)
  IN IF ok.err # "" THEN ok
     ELSE IF tok(ok) = "," THEN assignment(few, Append(c.r, p.v))
     ELSE IF e.r # nvars THEN rest(d, lhs)
     ELSE rest(luaK_storevar(luaK_setoneret(e), Last(lhs)), Front(lhs))

\* Leaves in r the list of the jumps taken when the condition is false.
cond(S) ==
  LET e == expr(S)
      s == luaK_goiftrue(IF e.v.k = "VNIL" THEN [e EXCEPT !.v.k = "VFALSE"] ELSE e)
  IN [s EXCEPT !.r = s.v.f]

breakstat(S) ==
  LET loops == {b \in DOMAIN S.f.bl : S.f.bl[b].isbreakable}
      bl == CHOOSE b \in loops : \A c \in loops : c <= b
      upval == \E b \in (bl + 1)..Len(S.f.bl) : S.f.bl[b].upval
      j == luaK_jump(IF upval THEN luaK_codeABC(S, "CLOSE", S.f.bl[bl].nactvar, 0, 0) ELSE S)
      c == luaK_concat(j, j.f.bl[bl].breaklist, j.r)
  IN IF loops = {} THEN syntaxerror(S, "no loop to break")
     ELSE [c EXCEPT !.f.bl[bl].breaklist = c.r]

whilestat(S) ==
  LET init == luaK_getlabel(luaX_next(S))
      c == cond(init)
      b == luaK_jump(block(checknext(enterblock(c, TRUE), "do")))
      p == luaK_patchlist(b, b.r, init.r)
  IN luaK_patchtohere(leaveblock(check_match(p, "end")), c.r)

repeatstat(S) ==
  LET init == luaK_getlabel(S)
      s == chunk(luaX_next(enterblock(enterblock(init, TRUE), FALSE)))
      c == cond(check_match(s, "until"))
      plain == luaK_patchlist(leaveblock(c), c.r, init.r)
      j == luaK_jump(leaveblock(luaK_patchtohere(breakstat(c), c.r)))
  IN leaveblock(IF Last(c.f.bl).upval THEN luaK_patchlist(j, j.r, init.r) ELSE plain)

exp1(S) == luaK_exp2nextreg(expr(S))

forbody(S, base, line, nvars, isnum) ==
  LET s == checknext(adjustlocalvars(S, 3), "do")
      prep == IF isnum THEN luaK_codeABx(s, "FORPREP", base, NO_JUMP) ELSE luaK_jump(s)
      b == block(luaK_reserveregs(adjustlocalvars(enterblock(prep, FALSE), nvars), nvars))
      p == luaK_patchtohere(leaveblock(b), prep.r)
      loop == luaK_fixline(IF isnum THEN luaK_codeABx(p, "FORLOOP", base, NO_JUMP)
                           ELSE luaK_codeABC(p, "TFORLOOP", base, 0, nvars), line)
      j == IF isnum THEN loop ELSE luaK_jump(loop)
  IN luaK_patchlist(j, j.r, prep.r + 1)

hiddenvars(S, names) ==
  new_localvar(new_localvar(new_localvar(S, names[1], 0), names[2], 1), names[3], 2)

fornum(S, varname, line) ==
  LET base == S.f.freereg
      n == new_localvar(hiddenvars(S, <<"(for index)", "(for limit)", "(for step)">>),
                        varname, 3)
      l == exp1(checknext(exp1(checknext(n, "=")), ","))
      k == luaK_numberK(l, 1)
      s == IF tok(l) = "," THEN exp1(luaX_next(l))
           ELSE luaK_reserveregs(luaK_codeABx(k, "LOADK", k.f.freereg, k.r), 1)
  IN forbody(s, base, line, 1, TRUE)

RECURSIVE namelist(_, _)
namelist(S, n) ==
  LET s == str_checkname(luaX_next(S))
  IN IF tok(S) = "," THEN namelist(new_localvar(s, s.r, n), n + 1) ELSE [S EXCEPT !.r = n]

forlist(S, indexname) ==
  LET h == hiddenvars(S, <<"(for generator)", "(for state)", "(for control)">>)
      names == namelist(new_localvar(h, indexname, 3), 4)
      i == checknext(names, "in")
      e == explist1(i)
      s == luaK_checkstack(adjust_assign(e, 3, e.r), 3)
  IN forbody(s, S.f.freereg, i.linenumber, names.r - 3, FALSE)

forstat(S, line) ==
  LET name == str_checkname(luaX_next(enterblock(S, TRUE)))
      s == CASE tok(name) = "=" -> fornum(name, name.r, line)
             [] tok(name) \in {",", "in"} -> forlist(name, name.r)
             [] OTHER -> syntaxerror(name, "= or in expected")
  IN leaveblock(check_match(s, "end"))

\* Leaves in r the jumps taken when the condition is false.
test_then_block(S) ==
  LET c == cond(luaX_next(S)) IN [block(checknext(c, "then")) EXCEPT !.r = c.r]

RECURSIVE elseifs(_, _)
elseifs(S, escapelist) ==
  LET j == luaK_jump(S)
      e == luaK_concat(j, escapelist, j.r)
      p == luaK_patchtohere(e, S.r)
      last == luaK_concat(S, escapelist, S.r)
  IN CASE tok(S) = "elseif" -> elseifs(test_then_block(p), e.r)
       [] tok(S) = "else" -> [block(luaX_next(p)) EXCEPT !.r = e.r]
       [] OTHER -> last
ifstat(S) ==
  LET s == elseifs(test_then_block(S), NO_JUMP)
  IN check_match(luaK_patchtohere(s, s.r), "end")

localfunc(S) ==
  LET n == str_checkname(S)
      reg == n.f.freereg
      a == adjustlocalvars(luaK_reserveregs(new_localvar(n, n.r, 0), 1), 1)
      s == luaK_storevar(body(a, FALSE), Exp("VLOCAL", reg))
  IN [s EXCEPT !.f.locvars[s.f.actvar[s.f.nactvar]].startpc = pcOf(s)]

localstat(S) ==
  LET first == str_checkname(S)
      names == namelist(new_localvar(first, first.r, 0), 1)
      e == IF tok(names) = "=" THEN explist1(luaX_next(names))
           ELSE [With(names, Exp("VVOID", 0)) EXCEPT !.r = 0]
  IN adjustlocalvars(adjust_assign(e, names.r, e.r), names.r)

\* Leaves in r whether the name ends with a method.
RECURSIVE funcfields(_)
funcfields(S) == IF tok(S) = "." THEN funcfields(field(S))
                 ELSE IF tok(S) = ":" THEN [field(S) EXCEPT !.r = TRUE]
                 ELSE [S EXCEPT !.r = FALSE]
funcname(S) == funcfields(singlevar(S))

funcstat(S, line) ==
  LET n == funcname(luaX_next(S))
  IN luaK_fixline(luaK_storevar(body(n, n.r), n.v), line)

exprstat(S) ==
  LET s == primaryexp(S)
  IN IF s.v.k = "VCALL" THEN [s EXCEPT !.f.code[s.v.info + 1].c = 1]
     ELSE assignment(s, <<s.v>>)

retstat(S) ==
  LET s == luaX_next(S)
      e == explist1(s)
      nret == e.r
      m == luaK_setmultret(e, e.v)
      tail == lua_assert([m EXCEPT !.f.code[e.v.info + 1].op = "TAILCALL"],
                         getcode(m, e.v).a = m.f.nactvar, "tailcall")
      one == luaK_exp2anyreg(e)
      many == luaK_exp2nextreg(e)
  IN IF block_follow(tok(s)) \/ tok(s) = ";" THEN luaK_ret(s, 0, 0)
     ELSE IF hasmultret(e.v.k)
       THEN luaK_ret(IF e.v.k = "VCALL" /\ nret = 1 THEN tail ELSE m,
                     e.f.nactvar, LUA_MULTRET)
     ELSE IF nret = 1 THEN luaK_ret(one, one.r, 1)
     ELSE luaK_ret(lua_assert(many, nret = many.f.freereg - many.f.nactvar, "return"),
                   many.f.nactvar, nret)

statement(S) ==
  LET line == S.linenumber
      l == luaX_next(S)
  IN CASE tok(S) = "if" -> ifstat(S)
       [] tok(S) = "while" -> whilestat(S)
       [] tok(S) = "do" -> check_match(block(l), "end")
       [] tok(S) = "for" -> forstat(S, line)
       [] tok(S) = "repeat" -> repeatstat(S)
       [] tok(S) = "function" -> funcstat(S, line)
       [] tok(S) = "local" -> IF tok(l) = "function" THEN localfunc(luaX_next(l))
                              ELSE localstat(l)
       [] tok(S) = "return" -> retstat(S)
       [] tok(S) = "break" -> breakstat(l)
       [] OTHER -> exprstat(S)

RECURSIVE statements(_)
statements(S) ==
  LET s == testnext(statement(S), ";")
      a == lua_assert(s, /\ s.f.maxstacksize >= s.f.freereg
                         /\ s.f.freereg >= s.f.nactvar, "chunk")
      z == [a EXCEPT !.f.freereg = s.f.nactvar]
  IN IF block_follow(tok(S)) THEN S
     ELSE IF tok(S) \in {"return", "break"} THEN z
     ELSE statements(z)
chunk(S) == leavelevel(statements(enterlevel(S)))

\* The levels of the parser are C calls of the thread it runs on, which may wait for others.
InitialState(tokens, nCcalls) ==
  [toks |-> <<"">> \o tokens, linenumber |-> 1, lastline |-> 1, nCcalls |-> nCcalls,
   f |-> NewFuncState, outer |-> <<>>, v |-> Exp("VVOID", 0), r |-> 0,
   bad |-> {}, err |-> ""]

\* The main function of a chunk, the failed assertions, the error and the C calls.
luaY_parser(tokens, nCcalls) ==
  LET o == open_func(InitialState(tokens, nCcalls))
      s == [o EXCEPT !.f.is_vararg = {"ISVARARG"}, !.outer = <<>>]
      c == check(chunk(luaX_next(s)), "<eof>")
      z == luaK_ret(removevars(c, 0), 0, 0)
      a == lua_assert(z, z.f.bl = <<>> /\ Len(z.f.upvalues) = 0 /\ z.outer = <<>>, "main")
  IN [main |-> Proto(a.f), bad |-> a.bad, err |-> a.err, nCcalls |-> a.nCcalls]
=============================================================================
