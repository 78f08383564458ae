-------------------------------- MODULE LuaVM --------------------------------
(* The virtual machine of Lua: lvm.c, one action per instruction, with the     *)
(* functions of luaV_execute and the ways back into the C functions that wait  *)
(* on the C stack. luaV_execute's local pc is kept in the CallInfo.            *)
EXTENDS LuaDo, FiniteSets

CONSTANTS
    CFunction(_, _),    \* what a function of the library does to the machine
    CResult(_, _, _),   \* what a function of the library does with the result of its call
    lua_str2number(_),  \* the number a string spells, or Nil
    Globals,      \* the global variables, by name
    Libraries,    \* the tables of the libraries: after the globals, 2, 3, ...
    HOOK_COUNT,   \* instructions between two calls of the timeout hook (1000)
    Scripts       \* what the host runs: sequences of [chunk, timeout]

VARIABLES
    vm,      \* the machine of LuaDo
    script,  \* the chunks the host runs
    started, \* how many of them it has started
    late     \* the deadline of the running chunk's timeout has passed

vars == <<vm, script, started, late>>
Ch == INSTANCE LuaLex

base(M)    == Th(M).base
instr(M)   == ProtoOf(M).code[Ci(M).savedpc + 1]
konst(M, n) == ProtoOf(M).k[n + 1]
RK(M, x)   == IF ISK(x) THEN konst(M, INDEXK(x)) ELSE Get(M, base(M) + x)
SetPc(M, pc) == [M EXCEPT !.th[M.cur].ci[Len(Th(M).ci)].savedpc = pc]
dojump(M, offset) == SetPc(M, Ci(M).savedpc + offset)
\* A test is followed by the jump it guards: taken, or skipped.
JumpIf(M, taken) == dojump(M, IF taken THEN instr(M).b + 1 ELSE 1)
PushFrame(M, k, res) == PushC(M, [k |-> k, res |-> res])
-----------------------------------------------------------------------------
(* Conversions and comparisons of values.                                       *)
luaV_tonumber(v) ==
  IF isnum(v) THEN v ELSE IF v[1] = "string" THEN lua_str2number(v[2]) ELSE Nil
stringable(v)    == v[1] \in {"string", "number"}
luaV_tostring(v) == IF isnum(v) THEN Str(ToString(v[2])) ELSE v
\* strcoll of the C locale: by the first characters that differ.
l_strcmp(a, b) ==
  LET x == Ch!Chars(a)
      y == Ch!Chars(b)
      code(s, n) == IF n \in DOMAIN s THEN Ch!codes[s[n]] ELSE 0
      n == CHOOSE k \in 1..(Len(x) + 1) :
             /\ \A j \in 1..(k - 1) : code(x, j) = code(y, j)
             /\ code(x, k) # code(y, k) \/ k = Len(x) + 1
  IN code(x, n) - code(y, n)

luaG_typeerror(M, v, op) == luaG_runerror(M, "attempt to " \o op \o " a " \o ttype(v) \o " value")
luaG_concaterror(M, a, b) == luaG_typeerror(M, IF stringable(a) THEN b ELSE a, "concatenate")
luaG_aritherror(M, a, b) ==
  luaG_typeerror(M, IF luaV_tonumber(a) = Nil THEN a ELSE b, "perform arithmetic on")
luaG_ordererror(M, a, b) ==
  luaG_runerror(M, IF ttype(a) = ttype(b)
                   THEN "attempt to compare two " \o ttype(a) \o " values"
                   ELSE "attempt to compare " \o ttype(a) \o " with " \o ttype(b))
-----------------------------------------------------------------------------
(* Tag methods. The frame says what luaV_execute does with the result: store it *)
(* in the slot res, drop it, or decide a test.                                  *)
callTMres(M, k, res, tm, a, b) ==
  luaD_call(PushFrame(Push(M, <<tm, a, b>>), k, res), Th(M).top, 1)
callTM(M, tm, a, b, c) ==
  luaD_call(PushFrame(Push(M, <<tm, a, b, c>>), "tm", 0), Th(M).top, 0)

RECURSIVE gettable(_, _, _, _, _)
gettable(M, t, key, val, loop) ==
  LET raw == IF t[1] = "table" THEN luaH_get(M, t[2], key) ELSE Nil
      tm == luaT_gettmbyobj(M, t, "__index")
  IN IF loop = MAXTAGLOOP THEN luaG_runerror(M, "loop in gettable")
     ELSE IF raw # Nil \/ (t[1] = "table" /\ tm = Nil) THEN Put(M, val, raw)
     ELSE IF tm = Nil THEN luaG_typeerror(M, t, "index")
     ELSE IF ttype(tm) = "function" THEN callTMres(M, "tmres", val, tm, t, key)
     ELSE gettable(M, tm, key, val, loop + 1)
luaV_gettable(M, t, key, val) == gettable(M, t, key, val, 0)

\* The primitive set, which fails for a nil key.
setraw(M, t, key, val) ==
  IF key = Nil THEN luaG_runerror(M, "table index is nil") ELSE luaH_set(M, t, key, val)
RECURSIVE settable(_, _, _, _, _)
settable(M, t, key, val, loop) ==
  LET raw == IF t[1] = "table" THEN luaH_get(M, t[2], key) ELSE Nil
      tm == luaT_gettmbyobj(M, t, "__newindex")
  IN IF loop = MAXTAGLOOP THEN luaG_runerror(M, "loop in settable")
     ELSE IF t[1] = "table" /\ (raw # Nil \/ tm = Nil \/ key = Nil) THEN setraw(M, t[2], key, val)
     ELSE IF tm = Nil THEN luaG_typeerror(M, t, "index")
     ELSE IF ttype(tm) = "function" THEN callTM(M, tm, t, key, val)
     ELSE settable(M, tm, key, val, loop + 1)
luaV_settable(M, t, key, val) == settable(M, t, key, val, 0)

binTM(M, a, b, event) ==
  LET tm == luaT_gettmbyobj(M, a, event)
  IN IF tm # Nil THEN tm ELSE luaT_gettmbyobj(M, b, event)
get_compTM(M, mt1, mt2, event) ==
  LET tm1 == fasttm(M, mt1, event)
  IN IF mt1 = mt2 \/ tm1 = fasttm(M, mt2, event) THEN tm1 ELSE Nil

\* The tag method of an order, or Nil: both operands must have the same.
orderTM(M, a, b, event) ==
  LET tm == luaT_gettmbyobj(M, a, event)
  IN IF tm = luaT_gettmbyobj(M, b, event) THEN tm ELSE Nil


\* A comparison is followed by a jump, taken when its result is the wanted one.
before(M) == ProtoOf(M).code[Ci(M).savedpc]
Decide(M, res) == JumpIf(M, res = (before(M).a = 1))

luaV_lessthan(M, a, b) ==
  LET tm == orderTM(M, a, b, "__lt")
  IN CASE ttype(a) # ttype(b) -> luaG_ordererror(M, a, b)
       [] ttype(a) = ttype(b) /\ isnum(a) -> Decide(M, a[2] < b[2])
       [] ttype(a) = ttype(b) /\ a[1] = "string" -> Decide(M, l_strcmp(a[2], b[2]) < 0)
       [] OTHER -> IF tm = Nil THEN luaG_ordererror(M, a, b)
                   ELSE callTMres(M, "test", 0, tm, a, b)
\* Without __le, a <= b is the negation of b < a.
lessequal(M, a, b) ==
  LET le == orderTM(M, a, b, "__le")
      lt == orderTM(M, b, a, "__lt")
  IN CASE ttype(a) # ttype(b) -> luaG_ordererror(M, a, b)
       [] ttype(a) = ttype(b) /\ isnum(a) -> Decide(M, a[2] <= b[2])
       [] ttype(a) = ttype(b) /\ a[1] = "string" -> Decide(M, l_strcmp(a[2], b[2]) <= 0)
       [] OTHER -> IF le # Nil THEN callTMres(M, "test", 0, le, a, b)
                   ELSE IF lt # Nil THEN callTMres(M, "nottest", 0, lt, b, a)
                   ELSE luaG_ordererror(M, a, b)
luaV_equalval(M, a, b) ==
  LET tm == get_compTM(M, metaOf(M, a), metaOf(M, b), "__eq")
  IN IF a = b \/ a[1] # "table" \/ b[1] # "table" \/ tm = Nil THEN Decide(M, a = b)
     ELSE callTMres(M, "test", 0, tm, a, b)

\* Joins the values of the registers up to last, from the right, until total is 1,
\* and moves the result to register A.
RECURSIVE luaV_concat(_, _, _)
luaV_concat(M, total, last) ==
  LET top == base(M) + last + 1
      a == Get(M, top - 2)
      b == Get(M, top - 1)
      tm == binTM(M, a, b, "__concat")
      n == CHOOSE m \in 1..total :
             /\ \A j \in 1..m : stringable(Get(M, top - j))
             /\ m < total => ~ stringable(Get(M, top - m - 1))
      joined == FoldLeft(LAMBDA x, v : x \o luaV_tostring(v)[2], "", Values(M, top - n, top))
      called == PushC(Push(M, <<tm, a, b>>),
                      [k |-> "concat", res |-> top - 2, total |-> total - 1, last |-> last - 1])
  IN CASE total = 1 -> Put(M, base(M) + before(M).a, Get(M, base(M) + before(M).b))
       [] total > 1 /\ stringable(a) /\ stringable(b) ->
            luaV_concat(Put(M, top - n, Str(joined)), total - n + 1, last - n + 1)
       [] OTHER -> IF tm = Nil THEN luaG_concaterror(M, a, b)
                   ELSE luaD_call(called, Th(M).top, 1)

tmname == [ADD |-> "__add", SUB |-> "__sub", MUL |-> "__mul", DIV |-> "__div",
           MOD |-> "__mod", POW |-> "__pow", UNM |-> "__unm"]
Arith(M, res, a, b, op) ==
  LET x == luaV_tonumber(a)
      y == luaV_tonumber(b)
      tm == binTM(M, a, b, tmname[op])
  IN IF x # Nil /\ y # Nil THEN Put(M, res, Num(NumArith(op, x[2], y[2])))
     ELSE IF tm # Nil THEN callTMres(M, "tmres", res, tm, a, b)
     ELSE luaG_aritherror(M, a, b)
-----------------------------------------------------------------------------
(* luaV_execute.                                                                *)
settled == vm.exc = NoError
running == settled /\ vm.c # <<>> /\ Last(vm.c).k = "execute"
hooked  == Th(vm).hook.owner # 0
hookDue == hooked /\ Th(vm).hookcount = 1

I  == instr(vm)
RA == base(vm) + I.a
R(x) == Get(vm, base(vm) + x)
KBx  == konst(vm, I.b)
Env  == <<"table", ClosureAt(vm, Ci(vm).func).env>>
Ups  == ClosureAt(vm, Ci(vm).func).ups

\* The machine once the instruction is fetched.
now == [SetPc(vm, Ci(vm).savedpc + 1) EXCEPT !.th[vm.cur].hookcount = IF hooked THEN @ - 1 ELSE 0]
Exec(op) == running /\ I.op = op /\ ~ hookDue /\ UNCHANGED <<script, started, late>>

OP_MOVE     == Exec("MOVE") /\ vm' = Put(now, RA, R(I.b))
OP_LOADK    == Exec("LOADK") /\ vm' = Put(now, RA, KBx)
OP_LOADBOOL == Exec("LOADBOOL") /\ vm' = dojump(Put(now, RA, Bool(I.b # 0)), IF I.c # 0 THEN 1 ELSE 0)
OP_LOADNIL  == Exec("LOADNIL") /\ vm' = PutAll(now, RA, Nils(I.b - I.a + 1))
OP_GETUPVAL == Exec("GETUPVAL") /\ vm' = Put(now, RA, UpValue(vm, Ups[I.b + 1]))
OP_SETUPVAL == Exec("SETUPVAL") /\ vm' = SetUpValue(now, Ups[I.b + 1], R(I.a))
OP_GETGLOBAL == Exec("GETGLOBAL") /\ vm' = luaV_gettable(now, Env, KBx, RA)
OP_SETGLOBAL == Exec("SETGLOBAL") /\ vm' = luaV_settable(now, Env, KBx, R(I.a))
OP_GETTABLE == Exec("GETTABLE") /\ vm' = luaV_gettable(now, R(I.b), RK(vm, I.c), RA)
OP_SETTABLE == Exec("SETTABLE") /\ vm' = luaV_settable(now, R(I.a), RK(vm, I.b), RK(vm, I.c))
OP_NEWTABLE == Exec("NEWTABLE") /\ LET s == luaH_new(now) IN vm' = Put(s, RA, s.r)
OP_SELF ==
  Exec("SELF") /\ vm' = luaV_gettable(Put(now, RA + 1, R(I.b)), R(I.b), RK(vm, I.c), RA)

arith_op ==
  \E op \in {"ADD", "SUB", "MUL", "DIV", "MOD", "POW"} :
    Exec(op) /\ vm' = Arith(now, RA, RK(vm, I.b), RK(vm, I.c), op)
OP_UNM == Exec("UNM") /\ vm' = Arith(now, RA, R(I.b), R(I.b), "UNM")
OP_NOT == Exec("NOT") /\ vm' = Put(now, RA, Bool(l_isfalse(R(I.b))))
OP_LEN ==
  LET v == R(I.b)
      tm == binTM(vm, v, Nil, "__len")
  IN /\ Exec("LEN")
     /\ vm' = CASE v[1] = "table" -> Put(now, RA, Num(luaH_getn(vm, v[2])))
                [] v[1] = "string" -> Put(now, RA, Num(Len(v[2])))
                [] OTHER -> IF tm = Nil THEN luaG_typeerror(now, v, "get length of")
                            ELSE callTMres(now, "tmres", RA, tm, v, Nil)
OP_CONCAT == Exec("CONCAT") /\ vm' = luaV_concat(now, I.c - I.b + 1, I.c)

OP_JMP == Exec("JMP") /\ vm' = dojump(now, I.b)
OP_EQ  == Exec("EQ") /\ vm' = luaV_equalval(now, RK(vm, I.b), RK(vm, I.c))
OP_LT  == Exec("LT") /\ vm' = luaV_lessthan(now, RK(vm, I.b), RK(vm, I.c))
OP_LE  == Exec("LE") /\ vm' = lessequal(now, RK(vm, I.b), RK(vm, I.c))
OP_TEST == Exec("TEST") /\ vm' = JumpIf(now, l_isfalse(R(I.a)) # (I.c # 0))
OP_TESTSET ==
  LET holds == l_isfalse(R(I.b)) # (I.c # 0)
  IN Exec("TESTSET") /\ vm' = JumpIf(IF holds THEN Put(now, RA, R(I.b)) ELSE now, holds)

\* An operand B of 0 takes the values up to the top.
Called == IF I.b # 0 THEN SetTop(now, RA + I.b) ELSE now
\* Wrong: luaV_execute is not told of the call it will have to return from.
newcallUncounted(M) == M
newcall(M) == IF M.r = "PCRLUA" THEN [M EXCEPT !.c[Len(M.c)].n = @ + 1] ELSE M
OP_CALL == Exec("CALL") /\ vm' = newcall(luaD_precall(Called, RA, I.c - 1))

\* The new call takes the place of the caller, whose upvalues are closed.
tailcall(M) ==
  LET ci == Th(M).ci[Len(Th(M).ci) - 1]
      new == Ci(M)
      s == luaF_close(M, ci.base)
      at == ci.func + (new.base - new.func)
      moved == PutAll(s, ci.func, Values(s, new.func, Th(s).top))
      top == ci.func + (Th(s).top - new.func)
  IN IF M.r # "PCRLUA" THEN M ELSE
     [SetTop(moved, top) EXCEPT
        !.th[M.cur].base = at,
        !.th[M.cur].ci = Append(SubSeq(@, 1, Len(@) - 2),
                                [ci EXCEPT !.base = at, !.top = top, !.savedpc = 0,
                                           !.tailcalls = @ + 1])]
OP_TAILCALL == Exec("TAILCALL") /\ vm' = tailcall(luaD_precall(Called, RA, LUA_MULTRET))

OP_RETURN ==
  LET s == IF I.b # 0 THEN SetTop(now, RA + I.b - 1) ELSE now
      e == luaD_poscall(luaF_close(s, base(s)), RA)
      here == [IF e.r THEN SetTop(e, Ci(e).top) ELSE e EXCEPT !.c[Len(e.c)].n = @ - 1]
  IN Exec("RETURN") /\ vm' = IF Last(vm.c).n = 1 THEN PopC(e) ELSE here

OP_FORLOOP ==
  LET step == R(I.a + 2)[2]
      idx == R(I.a)[2] + step
      limit == R(I.a + 1)[2]
      goes == IF 0 < step THEN idx <= limit ELSE limit <= idx
  IN /\ Exec("FORLOOP")
     /\ vm' = IF goes THEN dojump(Put(Put(now, RA, Num(idx)), RA + 3, Num(idx)), I.b) ELSE now
OP_FORPREP ==
  LET v == [n \in 0..2 |-> luaV_tonumber(R(I.a + n))]
      s == PutAll(now, RA, <<Num(v[0][2] - v[2][2]), v[1], v[2]>>)
      bad(what) == luaG_runerror(now, "'for' " \o what \o " must be a number")
  IN /\ Exec("FORPREP")
     /\ vm' = CASE v[0] = Nil -> bad("initial value")
                [] v[0] # Nil /\ v[1] = Nil -> bad("limit")
                [] v[0] # Nil /\ v[1] # Nil /\ v[2] = Nil -> bad("step")
                [] OTHER -> dojump(s, I.b)
OP_TFORLOOP ==
  LET s == SetTop(PutAll(now, RA + 3, Values(vm, RA, RA + 3)), RA + 6)
  IN Exec("TFORLOOP") /\ vm' = luaD_call(PushFrame(s, "tfor", RA + 3), RA + 3, I.c)

\* A batch number that does not fit operand C is the next word of the code.
OP_SETLIST ==
  LET n == IF I.b = 0 THEN Th(vm).top - RA - 1 ELSE I.b
      s == IF I.b = 0 THEN SetTop(now, Ci(vm).top) ELSE now
      c == IF I.c = 0 THEN RawValue(instr(now)) ELSE I.c
      items == Values(vm, RA + 1, RA + n + 1)
      set(m, j) == luaH_set(m, R(I.a)[2], Num((c - 1) * LFIELDS_PER_FLUSH + j), items[j])
  IN /\ Exec("SETLIST")
     /\ vm' = FoldLeft(set, IF I.c = 0 THEN dojump(s, 1) ELSE s, [j \in 1..n |-> j])
OP_CLOSE == Exec("CLOSE") /\ vm' = luaF_close(now, RA)

\* After CLOSURE, one pseudo-instruction says where each upvalue comes from.
OP_CLOSURE ==
  LET f == ClosureAt(vm, Ci(vm).func)
      path == Append(f.p, I.b)
      nup == ProtoAt(vm, path).nups
      upval(s, j) ==
        LET from == instr(SetPc(vm, Ci(vm).savedpc + j))
            found == luaF_findupval(s.m, base(vm) + from.b)
        IN IF from.op = "GETUPVAL" THEN [s EXCEPT !.ups = Append(@, f.ups[from.b + 1])]
           ELSE [m |-> found, ups |-> Append(s.ups, found.r)]
      c == FoldLeft(upval, [m |-> dojump(now, nup), ups |-> <<>>], [j \in 1..nup |-> j])
      s == luaF_newLclosure(c.m, path, c.ups, f.env)
  IN Exec("CLOSURE") /\ vm' = Put(s, RA, s.r)
OP_VARARG ==
  LET ci == Ci(vm)
      n == ci.base - ci.func - ProtoOf(vm).numparams - 1
      extra == Values(vm, ci.base - n, ci.base)
      b == IF I.b = 0 THEN n ELSE I.b - 1
      s == PutAll(now, RA, SubSeq(extra \o Nils(b), 1, b))
  IN Exec("VARARG") /\ vm' = IF I.b = 0 THEN SetTop(s, RA + n) ELSE s
-----------------------------------------------------------------------------
(* The function a C function called has returned.                               *)
waiting(k) == settled /\ vm.c # <<>> /\ Last(vm.c).k = k /\ UNCHANGED <<script, started, late>>
frame  == Last(vm.c)
back   == calledBack(vm)
result == Get(vm, Th(vm).top - 1)
dropped == SetTop(back, Th(vm).top - 1)

TMresReturns == waiting("tmres") /\ vm' = Put(dropped, frame.res, result)
TMReturns    == waiting("tm") /\ vm' = back
TestReturns  == waiting("test") /\ vm' = Decide(dropped, ~ l_isfalse(result))
NotTestReturns == waiting("nottest") /\ vm' = Decide(dropped, l_isfalse(result))
ConcatReturns ==
  waiting("concat") /\ vm' = luaV_concat(Put(dropped, frame.res, result), frame.total, frame.last)
TForReturns ==
  LET s == SetTop(back, Ci(vm).top)
      v == Get(vm, frame.res)
  IN waiting("tfor") /\ vm' = JumpIf(IF v = Nil THEN s ELSE Put(s, frame.res - 1, v), v # Nil)
\* A library function called a function, or has read a table.
LibReturns   == waiting("lib") /\ vm' = CResult(dropped, frame, result)
IndexReturns == waiting("index") /\ vm' = CResult(SetTop(PopC(vm), Th(vm).top - 1), frame, result)
PcallReturns   == waiting("pcall") /\ vm' = pcallReturns(vm, frame)
ResumeReturns  == waiting("resume") /\ vm' = resumeReturns(vm, frame)
HandlerReturns == waiting("handler") /\ vm' = handlerReturns(vm)
HostReturns    == waiting("host") /\ vm' = hostReturns(vm)

\* An error is raised: its message handler is called, or it is thrown.
raising(k) == vm.exc.k = k /\ UNCHANGED <<script, started, late>>
caught == [vm EXCEPT !.exc = NoError]
ErrorRaised == raising("error") /\ vm' = errormsg(caught, vm.exc.err)
CFunctionRuns == raising("cfunction") /\ vm' = CFunction(caught, Get(vm, Ci(vm).func))
ErrorThrown == raising("throw") /\ vm' = unwind(caught, vm.exc.th, vm.exc.err)
-----------------------------------------------------------------------------
(* The host: thread.ts. It runs each chunk in a new thread, with a timeout or   *)
(* without; the timeout is a hook the virtual machine calls every HOOK_COUNT    *)
(* instructions, inherited by the coroutines the chunk creates.                 *)
idle == settled /\ vm.c = <<>> /\ ~ \E n \in DOMAIN vm.out : vm.out[n][1] = "exit"
yielded == vm.out # <<>> /\ Last(vm.out)[1] = "yield"
timedout == Str("thread timeout exceeded")

HostStart ==
  LET next == script[started + 1]
      s == [vm EXCEPT !.th = Append(@, NewThread(<<>>, Th(vm).gt, NoHook)), !.cur = Len(vm.th) + 1]
  IN /\ idle /\ ~ yielded /\ started < Len(script)
     /\ started' = started + 1
     /\ UNCHANGED script
     /\ late' = FALSE
     /\ vm' = PushC(s, [k |-> "load", f |-> "host", th |-> s.cur, text |-> next.chunk, timeout |-> next.timeout])
\* The chunk is loaded, or refused.
runChunk(M, timeout) ==
  LET hook == [owner |-> M.cur, count |-> HOOK_COUNT]
      ready == IF timeout THEN [M EXCEPT !.th[M.cur].hook = hook, !.th[M.cur].hookcount = HOOK_COUNT] ELSE M
  IN IF M.r = Nil THEN [M EXCEPT !.out = Append(@, <<"error", Get(M, Th(M).top - 1)>>)]
     ELSE lua_resume(PushC(ready, [k |-> "host", th |-> M.cur]), 0)
parsed(M, f) == IF f.f = "host" THEN runChunk(M, f.timeout) ELSE CResult(M, f, Nil)
Parse == waiting("load") /\ vm' = parsed(f_parser(PopC(vm), frame.text), frame)

\* A chunk that yielded is resumed later, unless its deadline has passed.
HostResume ==
  LET s == SetTop([vm EXCEPT !.out = Front(@)], base(vm))
      over == [s EXCEPT !.out = Append(@, <<"error", timedout>>), !.th[vm.cur].hook = NoHook]
  IN /\ idle /\ yielded
     /\ UNCHANGED <<script, started>>
     /\ late' \in (IF hooked THEN {late, TRUE} ELSE {late})
     /\ vm' = IF hooked /\ late' THEN over
              ELSE lua_resume(PushC(s, [k |-> "host", th |-> vm.cur]), 0)

\* traceexec and luaD_callhook: the counter starts again (the instruction about to
\* run will count one), and the hook raises its error on the thread it was set on.
CountHook ==
  LET s == [vm EXCEPT !.th[vm.cur].hookcount = Th(vm).hook.count + 1]
      inside == [s EXCEPT !.th[vm.cur].hookcount = @ - 1, !.th[vm.cur].allowhook = FALSE,
                          !.cur = Th(vm).hook.owner]
  IN /\ running /\ hookDue
     /\ UNCHANGED <<script, started>>
     /\ late' \in {late, TRUE}
     /\ vm' = IF late' /\ Th(vm).allowhook THEN luaG_errormsg(inside, timedout) ELSE s

InitVM ==
  [th |-> <<NewThread(<<>>, 1, NoHook)>>, cur |-> 1, c |-> <<>>, cl |-> <<>>, uv |-> <<>>,
   tab |-> <<[h |-> [v \in {Str(g) : g \in DOMAIN Globals} |-> Globals[v[2]]], mt |-> 0]>> \o Libraries,
   p |-> <<>>, out |-> <<>>, bad |-> {}, exc |-> NoError, r |-> 0]
Init == vm = InitVM /\ script \in Scripts /\ started = 0 /\ late = FALSE

Instruction ==
  \/ OP_MOVE \/ OP_LOADK \/ OP_LOADBOOL \/ OP_LOADNIL \/ OP_GETUPVAL \/ OP_SETUPVAL
  \/ OP_GETGLOBAL \/ OP_SETGLOBAL \/ OP_GETTABLE \/ OP_SETTABLE \/ OP_NEWTABLE \/ OP_SELF
  \/ arith_op \/ OP_UNM \/ OP_NOT \/ OP_LEN \/ OP_CONCAT \/ OP_JMP \/ OP_EQ \/ OP_LT
  \/ OP_LE \/ OP_TEST \/ OP_TESTSET \/ OP_CALL \/ OP_TAILCALL \/ OP_RETURN \/ OP_FORLOOP
  \/ OP_FORPREP \/ OP_TFORLOOP \/ OP_SETLIST \/ OP_CLOSE \/ OP_CLOSURE \/ OP_VARARG
CReturns ==
  \/ TMresReturns \/ TMReturns \/ TestReturns \/ NotTestReturns \/ ConcatReturns
  \/ TForReturns \/ LibReturns \/ IndexReturns \/ PcallReturns \/ ResumeReturns \/ HandlerReturns \/ HostReturns
Host == HostStart \/ HostResume
Errors == ErrorRaised \/ ErrorThrown
Next == Parse \/ CFunctionRuns \/ Instruction \/ CReturns \/ Errors \/ Host \/ CountHook
Spec == Init /\ [][Next]_vars /\ WF_vars(Next)
-----------------------------------------------------------------------------
\* The lua_asserts of the compiler and of luaV_execute: the free register is in
\* bounds, and an instruction runs with the top of the stack at the top of its call
\* unless it takes a variable number of values (lvm.c:401-404, lparser.c:1333).
luaG_opencall(i) == i.op \in {"CALL", "TAILCALL", "RETURN", "SETLIST"} /\ i.b = 0
AssertionsHold ==
  /\ vm.bad = {}
  /\ running =>
       /\ base(vm) = Ci(vm).base /\ base(vm) <= Th(vm).top
       /\ Th(vm).top = Ci(vm).top \/ luaG_opencall(I)
=============================================================================
