-------------------------------- MODULE LuaDo --------------------------------
(* Calls, errors and coroutines of the Lua core: ldo.c, with the upvalues of   *)
(* lfunc.c and the tag methods of ltm.c. The whole interpreter is one record M:*)
(*   th    the threads (lua_State), by number; thread 1 is the main one         *)
(*   cur   the thread that runs                                                 *)
(*   c     the C stack: one frame per C function that waits for Lua code, see   *)
(*         "frames"; luaV_execute is one of them                                *)
(*   tab, cl, uv   the tables, the Lua closures and the upvalues               *)
(*   p     the compiled chunks, by name                                          *)
(*   out   the outcomes of the chunks the host has run                          *)
(*   bad   the lua_asserts of the compiler that failed                          *)
(*   exc   what the next step has to do before Lua goes on: to raise an error,    *)
(*         to throw one, or to run the C function just entered; or nothing         *)
(*   r     what the last operator returned                                      *)
(* An operator named after a C function returns the state that function leaves. *)
(* A value is a tuple of its type and its payload.                              *)
EXTENDS LuaOpcodes, TLC, SequencesExt

CONSTANTS
    Chunk(_, _),     \* a chunk, by name, parsed by a thread with so many C calls: its main
                     \* function, failed assertions, error, and the C calls afterwards
    StringMetatable, \* the metatable of strings, 0 for none
    LUA_MINSTACK,    \* stack slots a C function may use (20)
    BASIC_CI_SIZE,   \* CallInfos a thread starts with (8)
    LUAI_MAXCALLS,   \* limit of the nested calls of a thread (20000)
    MAXTAGLOOP       \* limit of the chains of __index tables (100)

Nil      == <<"nil">>
Bool(b)  == <<"boolean", b>>
Num(n)   == <<"number", n>>
Str(s)   == <<"string", s>>
isnum(v) == v[1] = "number"
ttype(v) == IF v[1] = "cfunction" THEN "function" ELSE v[1]
l_isfalse(v)  == v = Nil \/ v = Bool(FALSE)

Th(M)    == M.th[M.cur]
Ci(M)    == Last(Th(M).ci)
Get(M, slot) == IF slot \in DOMAIN Th(M).stack THEN Th(M).stack[slot] ELSE Nil
Values(M, from, to) == [n \in 1..(to - from) |-> Get(M, from + n - 1)]
SetTop(M, n) == [M EXCEPT !.th[M.cur].top = n]
PutAll(M, slot, vals) ==
  [M EXCEPT !.th[M.cur].stack =
     [n \in 1..(IF Len(@) >= slot + Len(vals) - 1 THEN Len(@) ELSE slot + Len(vals) - 1) |->
        IF slot <= n /\ n < slot + Len(vals) THEN vals[n - slot + 1]
        ELSE IF n <= Len(@) THEN @[n] ELSE Nil]]
Put(M, slot, val) == PutAll(M, slot, <<val>>)
Push(M, vals) == SetTop(PutAll(M, Th(M).top, vals), Th(M).top + Len(vals))
Nils(n)  == [j \in 1..n |-> Nil]

\* A Proto is named by its chunk and its path of indexes from the main function.
RECURSIVE nested(_, _)
nested(p, path) == IF path = <<>> THEN p ELSE nested(p.p[Head(path) + 1], Tail(path))
ProtoAt(M, path) == nested(M.p[Head(path)], Tail(path))
ClosureAt(M, slot)  == M.cl[Get(M, slot)[2]]
ProtoOf(M)   == ProtoAt(M, ClosureAt(M, Ci(M).func).p)
f_isLua(M)   == Get(M, Ci(M).func)[1] = "function"

PushC(M, frame) == [M EXCEPT !.c = Append(@, frame)]
PopC(M)  == [M EXCEPT !.c = Front(@)]
\* luaV_execute runs the topmost n calls of its thread.
execute(n) == [k |-> "execute", n |-> n]
-----------------------------------------------------------------------------
(* Upvalues: open ones share the stack slot of a variable, in a list ordered    *)
(* by decreasing slot; closing copies the variable into the upvalue.            *)
UpValue(M, u) == IF M.uv[u].at = 0 THEN M.uv[u].v
                 ELSE M.th[M.uv[u].th].stack[M.uv[u].at]
SetUpValue(M, u, v) ==
  IF M.uv[u].at = 0 THEN [M EXCEPT !.uv[u].v = v]
  ELSE [M EXCEPT !.th[M.uv[u].th].stack[M.uv[u].at] = v]

\* Leaves the upvalue of the slot in r.
luaF_findupval(M, level) ==
  LET open == Th(M).openupval
      n == Cardinality({m \in DOMAIN open : M.uv[open[m]].at > level})
      new == Len(M.uv) + 1
  IN IF n < Len(open) /\ M.uv[open[n + 1]].at = level THEN [M EXCEPT !.r = open[n + 1]]
     ELSE [M EXCEPT !.uv = Append(@, [at |-> level, th |-> M.cur, v |-> Nil]), !.r = new,
                    !.th[M.cur].openupval = InsertAt(@, n + 1, new)]

RECURSIVE luaF_close(_, _)
\* Wrong: the variable in the slot itself stays open.
luaF_closeAbove(M, level) ==
  LET open == Th(M).openupval
      u == Head(open)
  IN IF open = <<>> \/ M.uv[u].at <= level THEN M
     ELSE luaF_close([M EXCEPT !.th[M.cur].openupval = Tail(@),
                               !.uv[u] = [at |-> 0, th |-> 0, v |-> UpValue(M, u)]], level)
luaF_close(M, level) ==
  LET open == Th(M).openupval
      u == Head(open)
  IN IF open = <<>> \/ M.uv[u].at < level THEN M
     ELSE luaF_close([M EXCEPT !.th[M.cur].openupval = Tail(@),
                               !.uv[u] = [at |-> 0, th |-> 0, v |-> UpValue(M, u)]], level)

luaF_newLclosure(M, path, ups, env) ==
  [M EXCEPT !.cl = Append(@, [p |-> path, ups |-> ups, env |-> env]),
            !.r = <<"function", Len(M.cl) + 1>>]

\* Loads a chunk on the current thread, which has the function or the message. After an
\* error luaD_pcall restores the counter of C calls.
loaded(M, name, c) ==
  LET s == luaF_newLclosure([M EXCEPT !.p = (name :> c.main) @@ @, !.bad = @ \cup c.bad,
                                      !.th[M.cur].nCcalls = c.nCcalls], <<name>>, <<>>, Th(M).gt)
  IN IF c.err = "" THEN Push(s, <<s.r>>) ELSE [Push(M, <<Str(c.err)>>) EXCEPT !.r = Nil]
f_parser(M, name) == loaded(M, name, Chunk(name, Th(M).nCcalls))
-----------------------------------------------------------------------------
(* Tables as finite maps (their layout is another module's) and tag methods.    *)
luaH_new(M) == [M EXCEPT !.tab = Append(@, [h |-> <<>>, mt |-> 0]),
                         !.r = <<"table", Len(M.tab) + 1>>]
luaH_get(M, t, key) == IF key \in DOMAIN M.tab[t].h THEN M.tab[t].h[key] ELSE Nil
luaH_set(M, t, key, val) ==
  [M EXCEPT !.tab[t].h = IF val = Nil THEN [k \in DOMAIN @ \ {key} |-> @[k]]
                         ELSE (key :> val) @@ @]
luaH_getn(M, t) ==
  CHOOSE n \in 0..Cardinality(DOMAIN M.tab[t].h) :
    /\ n = 0 \/ Num(n) \in DOMAIN M.tab[t].h
    /\ Num(n + 1) \notin DOMAIN M.tab[t].h

metaOf(M, v) == CASE v[1] = "table" -> M.tab[v[2]].mt
                  [] v[1] = "string" -> StringMetatable
                  [] OTHER -> 0
fasttm(M, mt, event) == IF mt = 0 THEN Nil ELSE luaH_get(M, mt, Str(event))
luaT_gettmbyobj(M, v, event) == fasttm(M, metaOf(M, v), event)
-----------------------------------------------------------------------------
(* Errors. An operator that raises stops there and leaves the error in exc; the  *)
(* next step calls the message handler or unwinds. A C frame that catches        *)
(* (pcall, resume, and host, the JavaScript caller) belongs to a thread; the      *)
(* throw of a thread unwinds the C stack to that thread's last one.               *)
NoError == [k |-> "none", th |-> 0, err |-> 0]
NoHook == [owner |-> 0, count |-> 0]
catches(f, t) == f.k \in {"pcall", "resume", "host"} /\ f.th = t

luaD_throw(M, t, errcode) == [M EXCEPT !.exc = [k |-> "throw", th |-> t, err |-> errcode], !.r = "PCRC"]
luaG_errormsg(M, msg) == [M EXCEPT !.exc = [k |-> "error", th |-> M.cur, err |-> msg], !.r = "PCRC"]
luaG_runerror(M, msg) == luaG_errormsg(M, Str(msg))
-----------------------------------------------------------------------------
(* Entering and leaving functions.                                              *)
\* Leaves in r whether a fixed number of results was wanted.
luaD_poscall(M, firstResult) ==
  LET ci == Ci(M)
      got == Values(M, firstResult, Th(M).top)
      results == IF ci.nresults = LUA_MULTRET THEN got
                 ELSE SubSeq(got \o Nils(ci.nresults), 1, ci.nresults)
      back == Th(M).ci[Len(Th(M).ci) - 1]
      s == PutAll([M EXCEPT !.th[M.cur].ci = Front(@), !.th[M.cur].base = back.base],
                  ci.func, results)
  IN [SetTop(s, ci.func + Len(results)) EXCEPT !.r = ci.nresults # LUA_MULTRET]

\* A C function returns: luaD_precall adjusts its results, and OP_CALL the top.
poscallC(M, results) ==
  LET s == luaD_poscall(Push(M, results), Th(M).top)
      top == IF Last(s.c).k = "execute" /\ s.r THEN Ci(s).top ELSE Th(s).top
  IN [SetTop(s, top) EXCEPT !.r = "PCRC"]

\* Extra arguments stay below the base; the fixed ones are copied above them.
adjust_varargs(M, p, func) ==
  LET actual == Th(M).top - func - 1
      missing == IF actual < p.numparams THEN p.numparams - actual ELSE 0
      nvar == actual + missing - p.numparams
      s == Push(M, Nils(missing))
      first == Th(s).top - (actual + missing)
      extra == Values(s, Th(s).top - nvar, Th(s).top)
      t == luaH_new(s)
      filled == [t EXCEPT !.tab[t.r[2]].h =
                   (Str("n") :> Num(nvar)) @@
                   [k \in {Num(j) : j \in {n \in 1..nvar : extra[n] # Nil}} |-> extra[k[2]]]]
      needs == "NEEDSARG" \in p.is_vararg
      m == IF needs THEN filled ELSE s
      fixed == Values(m, first, first + p.numparams)
      moved == PutAll(Push(m, fixed), first, Nils(p.numparams))
  IN [IF needs THEN Push(moved, <<t.r>>) ELSE moved EXCEPT !.r = Th(s).top]

\* The array of CallInfos is full: it doubles, and reports when it exceeds the limit.
full(M) == Len(Th(M).ci) = Th(M).size_ci
grown(M) == [M EXCEPT !.th[M.cur].size_ci = 2 * @]
growCI(M) ==
  CASE ~ full(M) -> M
    [] full(M) /\ Th(M).size_ci > LUAI_MAXCALLS -> luaD_throw(M, M.cur, "ERRERR")
    [] full(M) /\ 2 * Th(M).size_ci > LUAI_MAXCALLS -> luaG_runerror(grown(M), "stack overflow")
    [] OTHER -> grown(M)

\* A new CallInfo, its base left in r, with the registers above the arguments nil.
entered(M, p, func, nresults) ==
  LET top == M.r + p.maxstacksize
      e == PutAll(M, Th(M).top, Nils(top - Th(M).top))
  IN [SetTop(e, top) EXCEPT
        !.th[M.cur].base = M.r, !.r = "PCRLUA",
        !.th[M.cur].ci = Append(@, [func |-> func, base |-> M.r, nresults |-> nresults,
                                    top |-> top, savedpc |-> 0, tailcalls |-> 0])]
precallLua(M, func, nresults) ==
  LET p == ProtoAt(M, ClosureAt(M, func).p)
      cut == IF Th(M).top > func + 1 + p.numparams THEN func + 1 + p.numparams ELSE Th(M).top
  IN entered(IF p.is_vararg = {} THEN [SetTop(M, cut) EXCEPT !.r = func + 1]
             ELSE adjust_varargs(M, p, func), p, func, nresults)

\* A C function is entered here; it runs in a step of its own.
precallC(M, func, nresults) ==
  [M EXCEPT !.th[M.cur].base = func + 1, !.r = "PCRC", !.exc = [k |-> "cfunction", th |-> M.cur, err |-> 0],
            !.th[M.cur].ci = Append(@, [func |-> func, base |-> func + 1, nresults |-> nresults,
                                        top |-> Th(M).top + LUA_MINSTACK, savedpc |-> 0, tailcalls |-> 0])]

\* The hole for the __call tag method of a value that is not a function.
tryfuncTM(M, func, tm) ==
  SetTop(PutAll(M, func, <<tm>> \o Values(M, func, Th(M).top)), Th(M).top + 1)

enter(M, func, nresults) ==
  IF M.exc # NoError THEN M
  ELSE IF Get(M, func)[1] = "function" THEN precallLua(M, func, nresults) ELSE precallC(M, func, nresults)

\* The function at func is called with the arguments above it. Leaves in r PCRLUA
\* when a Lua function was entered, PCRC when a C function ran, or waits on the C
\* stack, or failed.
luaD_precall(M, func, nresults) ==
  LET v == Get(M, func)
      tm == luaT_gettmbyobj(M, v, "__call")
      s == IF ttype(v) = "function" THEN M ELSE tryfuncTM(M, func, tm)
  IN IF ttype(v) # "function" /\ ttype(tm) # "function"
       THEN luaG_runerror(M, "attempt to call a value")
     ELSE enter(growCI(s), func, nresults)

\* luaV_execute runs the Lua function just entered, with the n topmost calls.
executed(M, n) == IF M.r = "PCRLUA" THEN [PushC(M, execute(n)) EXCEPT !.r = "PCRC"] ELSE M
\* Calls from C: the caller's frame is on the C stack already.
luaD_call(M, func, nresults) ==
  LET s == [M EXCEPT !.th[M.cur].nCcalls = @ + 1]
      n == Th(s).nCcalls
  IN IF n = LUAI_MAXCCALLS THEN luaG_runerror(s, "C stack overflow")
     ELSE IF n >= LUAI_MAXCCALLS + (LUAI_MAXCCALLS \div 8) THEN luaD_throw(s, M.cur, "ERRERR")
     ELSE executed(luaD_precall(s, func, nresults), 1)
\* What is left of luaD_call when its function has returned.
\* Wrong: the C call is still counted.
calledBackUncounted(M) == PopC(M)
calledBack(M) == [PopC(M) EXCEPT !.th[M.cur].nCcalls = @ - 1]
-----------------------------------------------------------------------------
(* Catching.                                                                     *)
\* After an overflow the array of CallInfos shrinks back to its limit.
restore_stack_limit(M) ==
  IF Th(M).size_ci > LUAI_MAXCALLS /\ Len(Th(M).ci) < LUAI_MAXCALLS
  THEN [M EXCEPT !.th[M.cur].size_ci = LUAI_MAXCALLS] ELSE M

luaD_seterrorobj(M, errcode, oldtop) ==
  LET e == IF errcode = "ERRERR" THEN Str("error in error handling")
           ELSE Get(M, Th(M).top - 1)
  IN SetTop(Put(M, oldtop, e), oldtop + 1)

\* The end of luaD_pcall after an error, and of the C function pcall around it.
\* Wrong: the handler of an xpcall stays installed.
caughtByPcallKeepsHandler(M, f, errcode) ==
  LET s == luaD_seterrorobj(luaF_close(M, f.oldtop), errcode, f.oldtop)
      base == s.th[M.cur].ci[f.ci].base
      restored == [s EXCEPT !.th[M.cur].nCcalls = f.nCcalls, !.th[M.cur].allowhook = f.allowhook,
                            !.th[M.cur].ci = SubSeq(@, 1, f.ci), !.th[M.cur].base = base]
  IN poscallC(restore_stack_limit(restored), <<Bool(FALSE), Get(s, f.oldtop)>>)
caughtByPcall(M, f, errcode) ==
  LET s == luaD_seterrorobj(luaF_close(M, f.oldtop), errcode, f.oldtop)
      base == s.th[M.cur].ci[f.ci].base
      restored == [s EXCEPT !.th[M.cur].nCcalls = f.nCcalls, !.th[M.cur].errfunc = f.errfunc,
                            !.th[M.cur].allowhook = f.allowhook,
                            !.th[M.cur].ci = SubSeq(@, 1, f.ci), !.th[M.cur].base = base]
  IN poscallC(restore_stack_limit(restored), <<Bool(FALSE), Get(s, f.oldtop)>>)

\* The end of lua_resume after an error: the coroutine is dead, its error is moved
\* to the thread that resumed it.
\* Wrong: the coroutine is not marked dead.
caughtByResumeAlive(M, f, errcode) ==
  LET e == luaD_seterrorobj(M, errcode, Th(M).top)
      msg == Get(e, Th(e).top - 1)
      s == [e EXCEPT !.th[M.cur].nCcalls = @ - 1, !.th[M.cur].top = @ - 1, !.cur = f.from]
  IN IF f.wrap THEN luaG_errormsg(s, msg) ELSE poscallC(s, <<Bool(FALSE), msg>>)
caughtByResume(M, f, errcode) ==
  LET e == luaD_seterrorobj(M, errcode, Th(M).top)
      msg == Get(e, Th(e).top - 1)
      s == [e EXCEPT !.th[M.cur].status = errcode, !.th[M.cur].nCcalls = @ - 1,
                     !.th[M.cur].top = @ - 1, !.cur = f.from]
  IN IF f.wrap THEN luaG_errormsg(s, IF msg[1] = "number" THEN Str(ToString(msg[2])) ELSE msg) ELSE poscallC(s, <<Bool(FALSE), msg>>)

caughtByHost(M, errcode) ==
  LET e == luaD_seterrorobj(M, errcode, Th(M).top)
  IN [e EXCEPT !.out = Append(@, <<"error", Get(e, Th(e).top - 1)>>), !.th[M.cur].hook = NoHook,
               !.th[M.cur].status = errcode, !.th[M.cur].nCcalls = @ - 1]

\* The throw of thread t arrives.
unwind(M, t, errcode) ==
  LET catchers == {n \in DOMAIN M.c : catches(M.c[n], t)}
      last == IF catchers = {} THEN 0 ELSE Max(catchers)
      f == M.c[last]
      s == [M EXCEPT !.c = SubSeq(@, 1, last - 1), !.cur = t, !.r = "PCRC"]
  IN CASE last = 0 -> [M EXCEPT !.c = <<>>, !.cur = t, !.th[t].status = errcode, !.r = "PCRC",
                             !.out = Append(@, <<"exit">>)]  \* luaL_newstate's panic
       [] last # 0 /\ f.k = "pcall" -> caughtByPcall(s, f, errcode)
       [] last # 0 /\ f.k = "resume" -> caughtByResume(s, f, errcode)
       [] last # 0 /\ f.k = "host" -> caughtByHost(s, errcode)

\* The message handler of xpcall runs first, where the error is.
errormsg(M, msg) ==
  LET h == Th(M).errfunc
      called == Push(M, <<Get(M, h), msg>>)
  IN IF h = 0 THEN luaD_throw(Push(M, <<msg>>), M.cur, "ERRRUN")
     ELSE IF ttype(Get(M, h)) # "function" THEN luaD_throw(M, M.cur, "ERRERR")
     ELSE luaD_call(PushC(called, [k |-> "handler"]), Th(M).top, 1)
-----------------------------------------------------------------------------
(* Protected calls and coroutines.                                              *)
luaD_pcall(M, func, errfunc) ==
  luaD_call(PushC([M EXCEPT !.th[M.cur].errfunc = errfunc],
                  [k |-> "pcall", th |-> M.cur, oldtop |-> func, ci |-> Len(Th(M).ci),
                   nCcalls |-> Th(M).nCcalls, allowhook |-> Th(M).allowhook,
                   errfunc |-> Th(M).errfunc]), func, LUA_MULTRET)

NewThread(func, gt, hook) ==
  [stack |-> <<Nil>> \o func, top |-> 2 + Len(func), base |-> 2, status |-> "OK",
   ci |-> <<[func |-> 1, base |-> 2, top |-> 2 + LUA_MINSTACK, nresults |-> 0,
             savedpc |-> 0, tailcalls |-> 0]>>,
   size_ci |-> BASIC_CI_SIZE, openupval |-> <<>>, nCcalls |-> 0, baseCcalls |-> 0, allowhook |-> TRUE,
   errfunc |-> 0, gt |-> gt, hook |-> hook, hookcount |-> hook.count]

\* The current thread, just switched to, starts or continues; its first argument
\* is at firstArg.
resume(M, firstArg) ==
  LET back == luaD_poscall([M EXCEPT !.th[M.cur].status = "OK"], firstArg)
      s == IF back.r THEN SetTop(back, Ci(back).top) ELSE back
  IN IF Th(M).status = "OK" THEN executed(luaD_precall(M, firstArg - 1, LUA_MULTRET), 1)
     ELSE executed([s EXCEPT !.r = "PCRLUA"], Len(Th(s).ci) - 1)

lua_resume(M, nargs) ==
  resume([M EXCEPT !.th[M.cur].nCcalls = @ + 1,
                   !.th[M.cur].baseCcalls = Th(M).nCcalls + 1], Th(M).top - nargs)

\* The running C function yields nresults values: luaV_execute ends, and lua_resume.
lua_yield(M, nresults) ==
  IF Th(M).nCcalls > Th(M).baseCcalls
  THEN luaG_runerror(M, "attempt to yield across metamethod/C-call boundary")
  ELSE [PopC(M) EXCEPT !.th[M.cur].base = Th(M).top - nresults,
                       !.th[M.cur].status = "YIELD", !.r = "PCRYIELD"]
-----------------------------------------------------------------------------
(* What a C frame does when the function it called has returned.                *)
pcallReturns(M, f) ==
  LET s == [calledBack(M) EXCEPT !.th[M.cur].errfunc = f.errfunc]
  IN poscallC(s, <<Bool(TRUE)>> \o Values(s, f.oldtop, Th(s).top))

\* lua_resume returns, after the end of the coroutine or its yield: the values
\* move to the thread that resumed it.
resumeReturns(M, f) ==
  LET vals == Values(M, Th(M).base, Th(M).top)
      s == [SetTop(PopC(M), Th(M).base) EXCEPT !.th[M.cur].nCcalls = @ - 1, !.cur = f.from]
  IN poscallC(s, IF f.wrap THEN vals ELSE <<Bool(TRUE)>> \o vals)

handlerReturns(M) == luaD_throw(calledBack(M), M.cur, "ERRRUN")

hostReturns(M) ==
  LET vals == Values(M, Th(M).base, Th(M).top)
      yields == Th(M).status = "YIELD"
  IN [PopC(M) EXCEPT !.th[M.cur].nCcalls = @ - 1,
                     !.th[M.cur].hook = IF yields THEN @ ELSE NoHook,
                     !.out = Append(@, <<IF yields THEN "yield" ELSE "return">> \o vals)]
=============================================================================
