------------------------------- MODULE LuaCode -------------------------------
(* The code generator of the Lua compiler: lcode.c.                            *)
(*                                                                              *)
(* The compiler's state is one record S, threaded through the operators:       *)
(*   f      the FuncState of the function being compiled, with its Proto       *)
(*   outer  the enclosing FuncStates, outermost first                          *)
(*   v      the expression descriptor (expdesc) the operators work on, which   *)
(*          C passes by reference                                              *)
(*   r      the integer the last operator returned                             *)
(*   bad    the lua_asserts that failed                                        *)
(*   err    the first error reported; it ends the tokens, so that the rest of  *)
(*          the grammar falls through (C leaves by longjmp)                    *)
(* An operator named after a C function returns the state that function leaves.*)
EXTENDS LuaOpcodes, TLC, SequencesExt

Exp(k, info) == [k |-> k, info |-> info, aux |-> 0, nval |-> 0,
                 t |-> NO_JUMP, f |-> NO_JUMP]
With(S, e)   == [S EXCEPT !.v = e]
lua_assert(S, holds, what) == IF holds THEN S ELSE [S EXCEPT !.bad = @ \cup {what}]
syntaxerror(S, msg) ==
  [S EXCEPT !.toks = <<>>, !.err = IF @ = "" THEN msg ELSE @]

pcOf(S)       == Len(S.f.code)
codeAt(S, pc) == S.f.code[pc + 1]
getcode(S, e) == codeAt(S, e.info)
hasjumps(e)   == e.t # e.f
hasmultret(k) == k \in {"VCALL", "VVARARG"}
isnumeral(e)  == e.k = "VKNUM" /\ e.t = NO_JUMP /\ e.f = NO_JUMP
-----------------------------------------------------------------------------
(* Lists of jumps: the instructions of a list are chained by their offsets.   *)
fixjump(S, pc, dest) ==
  [lua_assert(S, dest # NO_JUMP, "fixjump") EXCEPT !.f.code[pc + 1].b = dest - (pc + 1)]

luaK_getlabel(S) == [S EXCEPT !.f.lasttarget = pcOf(S), !.r = pcOf(S)]

getjump(S, pc) ==
  LET offset == codeAt(S, pc).b
  IN IF offset = NO_JUMP THEN NO_JUMP ELSE pc + 1 + offset

RECURSIVE jumplist(_, _)
jumplist(S, list) ==
  IF list = NO_JUMP THEN <<>> ELSE <<list>> \o jumplist(S, getjump(S, list))

\* The instruction that decides a jump: the test before it, if there is one.
getjumpcontrol(S, pc) ==
  IF pc >= 1 /\ testTMode(codeAt(S, pc - 1).op) THEN pc - 1 ELSE pc

need_value(S, list) ==
  \E pc \in ToSet(jumplist(S, list)) : codeAt(S, getjumpcontrol(S, pc)).op # "TESTSET"

patchable(S, node) == codeAt(S, getjumpcontrol(S, node)).op = "TESTSET"
patchtestreg(S, node, reg) ==
  LET at == getjumpcontrol(S, node)
      i  == codeAt(S, at)
  IN IF ~ patchable(S, node) THEN S
     ELSE [S EXCEPT !.f.code[at + 1] =
             IF reg # NO_REG /\ reg # i.b THEN [i EXCEPT !.a = reg]
             ELSE CREATE_ABC("TEST", i.b, 0, i.c)]

removevalues(S, list) ==
  FoldLeft(LAMBDA s, node : patchtestreg(s, node, NO_REG), S, jumplist(S, list))

patchlistaux(S, list, vtarget, reg, dtarget) ==
  FoldLeft(LAMBDA s, node : fixjump(patchtestreg(s, node, reg), node,
                                    IF patchable(s, node) THEN vtarget ELSE dtarget),
           S, jumplist(S, list))

dischargejpc(S) ==
  [patchlistaux(S, S.f.jpc, pcOf(S), NO_REG, pcOf(S)) EXCEPT !.f.jpc = NO_JUMP]

\* Leaves in r the list l1 with the list l2 added to its end.
luaK_concat(S, l1, l2) ==
  IF l2 = NO_JUMP THEN [S EXCEPT !.r = l1]
  ELSE IF l1 = NO_JUMP THEN [S EXCEPT !.r = l2]
  ELSE [fixjump(S, Last(jumplist(S, l1)), l2) EXCEPT !.r = l1]

luaK_patchtohere(S, list) ==
  LET s == luaK_getlabel(S)
      c == luaK_concat(s, s.f.jpc, list)
  IN [c EXCEPT !.f.jpc = c.r]

luaK_patchlist(S, list, target) ==
  IF target = pcOf(S) THEN luaK_patchtohere(S, list)
  ELSE patchlistaux(lua_assert(S, target < pcOf(S), "patchlist"),
                    list, target, NO_REG, target)
-----------------------------------------------------------------------------
(* Emitting instructions.                                                      *)
luaK_code(S, i) ==
  LET s == dischargejpc(S)
  IN [s EXCEPT !.f.code = Append(@, i), !.f.lineinfo = Append(@, S.lastline), !.r = pcOf(S)]

luaK_codeABC(S, o, a, b, c) ==
  luaK_code(lua_assert(S, /\ getOpMode(o) = "iABC"
                          /\ getBMode(o) # "N" \/ b = 0
                          /\ getCMode(o) # "N" \/ c = 0, "codeABC"), CREATE_ABC(o, a, b, c))

luaK_codeABx(S, o, a, bc) ==
  luaK_code(lua_assert(S, /\ getOpMode(o) \in {"iABx", "iAsBx"}
                          /\ getCMode(o) = "N", "codeABx"), CREATE_ABx(o, a, bc))

luaK_fixline(S, line) == [S EXCEPT !.f.lineinfo[pcOf(S)] = line]

\* The pending jumps to here are kept on hold: a jump to a jump is never emitted.
luaK_jump(S) ==
  LET s == luaK_codeABx([S EXCEPT !.f.jpc = NO_JUMP], "JMP", 0, NO_JUMP)
  IN luaK_concat(s, s.r, S.f.jpc)

luaK_ret(S, first, nret) == luaK_codeABC(S, "RETURN", first, nret + 1, 0)

condjump(S, op, a, b, c) == luaK_jump(luaK_codeABC(S, op, a, b, c))

\* Sets registers to nil; extends the LOADNIL before it when no jump can land here.
luaK_nil(S, from, n) ==
  LET pc == pcOf(S)
      straight == pc > S.f.lasttarget
      previous == codeAt(S, pc - 1)
  IN IF straight /\ pc = 0 /\ from >= S.f.nactvar THEN S
     ELSE IF /\ straight /\ pc > 0 /\ previous.op = "LOADNIL"
             /\ previous.a <= from /\ from <= previous.b + 1
       THEN IF from + n - 1 > previous.b
            THEN [S EXCEPT !.f.code[pc].b = from + n - 1] ELSE S
     ELSE luaK_codeABC(S, "LOADNIL", from, from + n - 1, 0)

luaK_setlist(S, base, nelems, tostore) ==
  LET c == (nelems - 1) \div LFIELDS_PER_FLUSH + 1
      b == IF tostore = LUA_MULTRET THEN 0 ELSE tostore
      s == lua_assert(S, tostore # 0, "setlist")
      e == IF c <= MAXARG_C THEN luaK_codeABC(s, "SETLIST", base, b, c)
           ELSE luaK_code(luaK_codeABC(s, "SETLIST", base, b, 0),
                          RawWord(c))
  IN [e EXCEPT !.f.freereg = base + 1]
-----------------------------------------------------------------------------
(* Registers and constants.                                                    *)
luaK_checkstack(S, n) ==
  LET newstack == S.f.freereg + n
  IN IF newstack <= S.f.maxstacksize THEN S
     ELSE LET s == IF newstack >= MAXSTACK
                   THEN syntaxerror(S, "function or expression too complex") ELSE S
          IN [s EXCEPT !.f.maxstacksize = newstack]

\* Wrong: the stack of the function is not extended.
reserveregsUnchecked(S, n) == [S EXCEPT !.f.freereg = @ + n]
luaK_reserveregs(S, n) == [luaK_checkstack(S, n) EXCEPT !.f.freereg = @ + n]

freereg(S, reg) ==
  IF ISK(reg) \/ reg < S.f.nactvar THEN S
  ELSE [lua_assert(S, reg = S.f.freereg - 1, "freereg") EXCEPT !.f.freereg = @ - 1]

freeexp(S, e) == IF e.k = "VNONRELOC" THEN freereg(S, e.info) ELSE S

addk(S, value) ==
  LET at == {i \in DOMAIN S.f.k : S.f.k[i] = value}
  IN IF at # {} THEN [S EXCEPT !.r = (CHOOSE i \in at : TRUE) - 1]
     ELSE [S EXCEPT !.f.k = Append(@, value), !.r = Len(S.f.k)]

luaK_stringK(S, s) == addk(S, <<"string", s>>)
luaK_numberK(S, n) == addk(S, <<"number", n>>)
boolK(S, b)        == addk(S, <<"boolean", b>>)
nilK(S)            == addk(S, <<"nil">>)
-----------------------------------------------------------------------------
(* Expressions: from a descriptor to a value in a register or a constant.     *)
luaK_setreturns(S, e, nresults) ==
  CASE e.k = "VCALL" -> [S EXCEPT !.f.code[e.info + 1].c = nresults + 1]
    [] e.k = "VVARARG" -> luaK_reserveregs(
         [S EXCEPT !.f.code[e.info + 1].b = nresults + 1,
                   !.f.code[e.info + 1].a = S.f.freereg], 1)
    [] OTHER -> S
luaK_setmultret(S, e) == luaK_setreturns(S, e, LUA_MULTRET)

luaK_setoneret(S) ==
  CASE S.v.k = "VCALL" -> [S EXCEPT !.v.k = "VNONRELOC", !.v.info = getcode(S, S.v).a]
    [] S.v.k = "VVARARG" -> [S EXCEPT !.v.k = "VRELOCABLE", !.f.code[S.v.info + 1].b = 2]
    [] OTHER -> S

relocable(S) == [S EXCEPT !.v.info = S.r, !.v.k = "VRELOCABLE"]

luaK_dischargevars(S) ==
  LET e == S.v
  IN CASE e.k = "VLOCAL" -> [S EXCEPT !.v.k = "VNONRELOC"]
       [] e.k = "VUPVAL" -> relocable(luaK_codeABC(S, "GETUPVAL", 0, e.info, 0))
       [] e.k = "VGLOBAL" -> relocable(luaK_codeABx(S, "GETGLOBAL", 0, e.info))
       [] e.k = "VINDEXED" -> relocable(luaK_codeABC(freereg(freereg(S, e.aux), e.info),
                                                     "GETTABLE", 0, e.info, e.aux))
       [] OTHER -> luaK_setoneret(S)

code_label(S, a, b, jump) == luaK_codeABC(luaK_getlabel(S), "LOADBOOL", a, b, jump)

discharge2reg(S, reg) ==
  LET s == luaK_dischargevars(S)
      e == s.v
      loadk(q) == luaK_codeABx(q, "LOADK", reg, q.r)
      done(q) == [q EXCEPT !.v.info = reg, !.v.k = "VNONRELOC"]
  IN CASE e.k = "VNIL" -> done(luaK_nil(s, reg, 1))
       [] e.k \in {"VTRUE", "VFALSE"} ->
            done(luaK_codeABC(s, "LOADBOOL", reg, IF e.k = "VTRUE" THEN 1 ELSE 0, 0))
       [] e.k = "VK" -> done(luaK_codeABx(s, "LOADK", reg, e.info))
       [] e.k = "VKNUM" -> done(loadk(luaK_numberK(s, e.nval)))
       [] e.k = "VRELOCABLE" -> done([s EXCEPT !.f.code[e.info + 1].a = reg])
       [] e.k = "VNONRELOC" ->
            done(IF reg # e.info THEN luaK_codeABC(s, "MOVE", reg, e.info, 0) ELSE s)
       [] OTHER -> lua_assert(s, e.k \in {"VVOID", "VJMP"}, "discharge2reg")

discharge2anyreg(S) ==
  IF S.v.k = "VNONRELOC" THEN S
  ELSE LET s == luaK_reserveregs(S, 1) IN discharge2reg(s, s.f.freereg - 1)

\* Every exit of the expression's jumps finds the value in reg: those that carry
\* it jump to the end, the others through a LOADBOOL.
exp2reg(S, reg) ==
  LET d  == discharge2reg(S, reg)
      c  == luaK_concat(d, d.v.t, d.v.info)
      s  == IF d.v.k = "VJMP" THEN [c EXCEPT !.v.t = c.r] ELSE d
      e  == s.v
      needed == need_value(s, e.t) \/ need_value(s, e.f)
      j  == IF e.k = "VJMP" THEN [s EXCEPT !.r = NO_JUMP] ELSE luaK_jump(s)
      pf == code_label(j, reg, 0, 1)
      pt == code_label(pf, reg, 1, 0)
      w  == luaK_getlabel(IF needed THEN luaK_patchtohere(pt, j.r) ELSE s)
      final == w.r
      f1 == patchlistaux(w, e.f, final, reg, IF needed THEN pf.r ELSE NO_JUMP)
      t1 == patchlistaux(f1, e.t, final, reg, IF needed THEN pt.r ELSE NO_JUMP)
      z  == IF hasjumps(e) THEN t1 ELSE s
  IN [z EXCEPT !.v.f = NO_JUMP, !.v.t = NO_JUMP, !.v.info = reg, !.v.k = "VNONRELOC"]

luaK_exp2nextreg(S) ==
  LET d == luaK_dischargevars(S)
      s == luaK_reserveregs(freeexp(d, d.v), 1)
  IN exp2reg(s, s.f.freereg - 1)

\* Leaves the register in r.
luaK_exp2anyreg(S) ==
  LET d == luaK_dischargevars(S)
      s == IF d.v.k = "VNONRELOC" /\ ~ hasjumps(d.v) THEN d
           ELSE IF d.v.k = "VNONRELOC" /\ d.v.info >= d.f.nactvar THEN exp2reg(d, d.v.info)
           ELSE luaK_exp2nextreg(d)
  IN [s EXCEPT !.r = s.v.info]

luaK_exp2val(S) == IF hasjumps(S.v) THEN luaK_exp2anyreg(S) ELSE luaK_dischargevars(S)

\* Leaves the register, or the constant's index with the constant bit, in r.
luaK_exp2RK(S) ==
  LET s == luaK_exp2val(S)
      fits == Len(s.f.k) <= MAXINDEXRK
      ask(q, i) == [q EXCEPT !.v.info = i, !.v.k = "VK", !.r = RKASK(i)]
      const(q) == ask(q, q.r)
  IN CASE s.v.k = "VNIL" /\ fits -> const(nilK(s))
       [] s.v.k \in {"VTRUE", "VFALSE"} /\ fits -> const(boolK(s, s.v.k = "VTRUE"))
       [] s.v.k = "VKNUM" /\ fits -> const(luaK_numberK(s, s.v.nval))
       [] s.v.k = "VK" /\ s.v.info <= MAXINDEXRK -> ask(s, s.v.info)
       [] OTHER -> luaK_exp2anyreg(s)

\* Stores the current expression in the variable var.
luaK_storevar(S, var) ==
  LET any == luaK_exp2anyreg(S)
      rk  == luaK_exp2RK(S)
      free(s) == freeexp(s, s.v)
  IN CASE var.k = "VLOCAL" -> exp2reg(freeexp(S, S.v), var.info)
       [] var.k = "VUPVAL" -> free(luaK_codeABC(any, "SETUPVAL", any.r, var.info, 0))
       [] var.k = "VGLOBAL" -> free(luaK_codeABx(any, "SETGLOBAL", any.r, var.info))
       [] var.k = "VINDEXED" -> free(luaK_codeABC(rk, "SETTABLE", var.info, var.aux, rk.r))
       [] OTHER -> lua_assert(S, FALSE, "storevar")

\* The current expression becomes the method key of the object e.
luaK_self(S, key) ==
  LET o == luaK_exp2anyreg(S)
      s == freeexp(o, o.v)
      func == s.f.freereg
      rk == luaK_exp2RK(With(luaK_reserveregs(s, 2), key))
      c == luaK_codeABC(rk, "SELF", func, o.v.info, rk.r)
  IN With(freeexp(c, rk.v), Exp("VNONRELOC", func))
-----------------------------------------------------------------------------
(* Tests: conditions compile to jumps.                                         *)
invertjump(S) ==
  LET at == getjumpcontrol(S, S.v.info)
      i  == codeAt(S, at)
  IN [lua_assert(S, testTMode(i.op) /\ i.op \notin {"TESTSET", "TEST"}, "invertjump")
      EXCEPT !.f.code[at + 1].a = 1 - @]

jumponcond(S, cond) ==
  LET ie == getcode(S, S.v)
      removed == [S EXCEPT !.f.code = Front(@), !.f.lineinfo = Front(@)]
      d == discharge2anyreg(S)
      s == freeexp(d, d.v)
  IN IF S.v.k = "VRELOCABLE" /\ ie.op = "NOT"
     THEN condjump(removed, "TEST", ie.b, 0, 1 - cond)
     ELSE condjump(s, "TESTSET", NO_REG, s.v.info, cond)

luaK_goiftrue(S) ==
  LET d == luaK_dischargevars(S)
      i == invertjump(d)
      s == CASE d.v.k \in {"VK", "VKNUM", "VTRUE"} -> [d EXCEPT !.r = NO_JUMP]
             [] d.v.k = "VJMP" -> [i EXCEPT !.r = i.v.info]
             [] OTHER -> jumponcond(d, 0)
      c == luaK_concat(s, s.v.f, s.r)
      f == [c EXCEPT !.v.f = c.r]
  IN [luaK_patchtohere(f, f.v.t) EXCEPT !.v.t = NO_JUMP]

luaK_goiffalse(S) ==
  LET d == luaK_dischargevars(S)
      s == CASE d.v.k \in {"VNIL", "VFALSE"} -> [d EXCEPT !.r = NO_JUMP]
             [] d.v.k = "VJMP" -> [d EXCEPT !.r = d.v.info]
             [] OTHER -> jumponcond(d, 1)
      c == luaK_concat(s, s.v.t, s.r)
      t == [c EXCEPT !.v.t = c.r]
  IN [luaK_patchtohere(t, t.v.f) EXCEPT !.v.f = NO_JUMP]

codenot(S) ==
  LET d == luaK_dischargevars(S)
      g == discharge2anyreg(d)
      s == CASE d.v.k \in {"VNIL", "VFALSE"} -> [d EXCEPT !.v.k = "VTRUE"]
             [] d.v.k \in {"VK", "VKNUM", "VTRUE"} -> [d EXCEPT !.v.k = "VFALSE"]
             [] d.v.k = "VJMP" -> invertjump(d)
             [] d.v.k \in {"VRELOCABLE", "VNONRELOC"} ->
                  relocable(luaK_codeABC(freeexp(g, g.v), "NOT", 0, g.v.info, 0))
             [] OTHER -> lua_assert(d, FALSE, "codenot")
      x == [s EXCEPT !.v.f = s.v.t, !.v.t = s.v.f]
  IN removevalues(removevalues(x, x.v.f), x.v.t)
-----------------------------------------------------------------------------
(* Operators. The second operand is the current expression, e1 the first.     *)
luaK_indexed(S, t) ==
  LET s == luaK_exp2RK(S) IN With(s, [t EXCEPT !.aux = s.r, !.k = "VINDEXED"])

folds(op, e1, e2) ==
  /\ isnumeral(e1) /\ isnumeral(e2) /\ op \notin {"LEN", "CONCAT"}
  /\ NumDefined(op, e1.nval, e2.nval)
constfolding(op, e1, e2) == [e1 EXCEPT !.nval = NumArith(op, e1.nval, e2.nval)]

codearith(S, op, e1) ==
  LET e2 == S.v
      s2 == IF op \in {"UNM", "LEN"} THEN [S EXCEPT !.r = 0] ELSE luaK_exp2RK(S)
      s1 == luaK_exp2RK(With(s2, e1))
      free == IF s1.r > s2.r THEN freeexp(freeexp(s1, s1.v), s2.v)
              ELSE freeexp(freeexp(s1, s2.v), s1.v)
  IN IF folds(op, e1, e2) THEN With(S, constfolding(op, e1, e2))
     ELSE relocable(luaK_codeABC(free, op, 0, s1.r, s2.r))

\* `>' and `>=' are compiled as `<' and `<=' with their operands exchanged.
codecomp(S, op, cond, e1) ==
  LET e2 == S.v
      s1 == luaK_exp2RK(With(S, e1))
      s2 == luaK_exp2RK(With(s1, e2))
      free == With(freeexp(freeexp(s2, s2.v), s1.v), s1.v)
      swap == cond = 0 /\ op # "EQ"
      j == IF swap THEN condjump(free, op, 1, s2.r, s1.r)
           ELSE condjump(free, op, cond, s1.r, s2.r)
  IN [j EXCEPT !.v.info = j.r, !.v.k = "VJMP"]

luaK_prefix(S, op) ==
  LET zero == Exp("VKNUM", 0)
      any  == luaK_exp2anyreg(S)
      unary(s, o) == codearith(With(s, zero), o, s.v)
  IN CASE op = "-" -> unary(IF isnumeral(S.v) THEN S ELSE any, "UNM")
       [] op = "not" -> codenot(S)
       [] op = "#" -> unary(any, "LEN")

luaK_infix(S, op) ==
  CASE op = "and" -> luaK_goiftrue(S)
    [] op = "or" -> luaK_goiffalse(S)
    [] op = ".." -> luaK_exp2nextreg(S)
    [] op \in {"+", "-", "*", "/", "%", "^"} -> IF isnumeral(S.v) THEN S ELSE luaK_exp2RK(S)
    [] OTHER -> luaK_exp2RK(S)

luaK_posfix(S, op, e1) ==
  LET arith == ("+" :> "ADD") @@ ("-" :> "SUB") @@ ("*" :> "MUL") @@
               ("/" :> "DIV") @@ ("%" :> "MOD") @@ ("^" :> "POW")
      comp  == ("==" :> <<"EQ", 1>>) @@ ("~=" :> <<"EQ", 0>>) @@ ("<" :> <<"LT", 1>>) @@
               ("<=" :> <<"LE", 1>>) @@ (">" :> <<"LT", 0>>) @@ (">=" :> <<"LE", 0>>)
      d  == luaK_dischargevars(S)
      jf == luaK_concat(d, d.v.f, e1.f)
      jt == luaK_concat(d, d.v.t, e1.t)
      x  == luaK_exp2val(S)
      chain == lua_assert(x, e1.info = getcode(x, x.v).b - 1, "concat")
  IN CASE op = "and" -> [lua_assert(jf, e1.t = NO_JUMP, "and") EXCEPT !.v.f = jf.r]
       [] op = "or" -> [lua_assert(jt, e1.f = NO_JUMP, "or") EXCEPT !.v.t = jt.r]
       [] op = ".." ->
            IF x.v.k = "VRELOCABLE" /\ getcode(x, x.v).op = "CONCAT"
            THEN With([freeexp(chain, e1) EXCEPT !.f.code[x.v.info + 1].b = e1.info],
                      [e1 EXCEPT !.k = "VRELOCABLE", !.info = x.v.info])
            ELSE codearith(luaK_exp2nextreg(x), "CONCAT", e1)
       [] op \in DOMAIN arith -> codearith(S, arith[op], e1)
       [] op \in DOMAIN comp -> codecomp(S, comp[op][1], comp[op][2], e1)
=============================================================================
