------------------------------- MODULE LuaBase -------------------------------
(* The base library of Lua: lbaselib.c. A C function takes its arguments from the *)
(* stack of the thread that called it; it returns results, raises, calls, or     *)
(* switches threads, and its result here is the machine it leaves.               *)
EXTENDS LuaVM

nargs(M)   == Th(M).top - Th(M).base
arg(M, n)  == IF n <= nargs(M) THEN Get(M, Th(M).base + n - 1) ELSE Nil
args(M, n) == Values(M, Th(M).base + n - 1, Th(M).top)
argerror(M) == luaG_runerror(M, "bad argument")

\* What the functions of a library ask of their arguments: a kind, with "?" if it may
\* be absent. An absent argument is nil, except for "any".
accepts(kind, v) ==
  CASE kind = "string" -> stringable(v)
    [] kind = "number" -> luaV_tonumber(v) # Nil
    [] kind = "number?" -> v = Nil \/ luaV_tonumber(v) # Nil
    [] kind = "string?" -> v = Nil \/ stringable(v)
    [] kind = "table" -> v[1] = "table"
    [] kind = "function" -> ttype(v) = "function"
    [] kind = "function?" -> v = Nil \/ ttype(v) = "function"
    [] kind = "any" -> TRUE
checked(M, kinds) ==
  \A n \in DOMAIN kinds : accepts(kinds[n], arg(M, n)) /\ (kinds[n] = "any" => n <= nargs(M))
string(M, n) == luaV_tostring(arg(M, n))[2]
integer(M, n) == luaV_tonumber(arg(M, n))[2]
optint(M, n, default) == IF arg(M, n) = Nil THEN default ELSE integer(M, n)
rawgeti(M, t, n) == luaH_get(M, t[2], Num(n))
rawseti(M, t, n, v) == luaH_set(M, t[2], Num(n), v)
\* A C function calls f and waits in the frame for one result.
lua_call(M, f, vals, waits) == luaD_call(PushC(Push(M, <<f>> \o vals), waits), Th(M).top, 1)
libFrame(f) == [k |-> "lib", f |-> f]

luaB_pcall(M) ==
  IF nargs(M) = 0 THEN argerror(M) ELSE luaD_pcall(M, Th(M).base, 0)
luaB_xpcall(M) ==
  LET at == Th(M).base
      s == SetTop(PutAll(M, at, <<arg(M, 2), arg(M, 1)>>), at + 2)
  IN IF nargs(M) < 2 THEN argerror(M) ELSE luaD_pcall(s, at + 1, at)
\* The position put before a message makes a string of a number.
where(v) == IF isnum(v) THEN Str(ToString(v[2])) ELSE v
luaB_error(M) ==
  IF ~ accepts("number?", arg(M, 2)) THEN argerror(M)
  ELSE luaG_errormsg(M, IF optint(M, 2, 1) > 0 THEN where(arg(M, 1)) ELSE arg(M, 1))
luaB_assert(M) ==
  IF nargs(M) = 0 THEN argerror(M)
  ELSE IF ~ l_isfalse(arg(M, 1)) THEN poscallC(M, args(M, 1))
  ELSE IF ~ accepts("string?", arg(M, 2)) THEN argerror(M)
  ELSE luaG_runerror(M, IF arg(M, 2) = Nil THEN "assertion failed!" ELSE string(M, 2))

luaB_setmetatable(M) ==
  LET t == arg(M, 1)
      mt == arg(M, 2)
      protected == luaT_gettmbyobj(M, t, "__metatable") # Nil
      s == [M EXCEPT !.tab[t[2]].mt = IF mt = Nil THEN 0 ELSE mt[2]]
  IN IF t[1] # "table" \/ mt[1] \notin {"nil", "table"} \/ nargs(M) < 2 THEN argerror(M)
     ELSE IF protected THEN luaG_runerror(M, "cannot change a protected metatable")
     ELSE poscallC(s, <<t>>)
luaB_getmetatable(M) ==
  LET v == arg(M, 1)
      shown == luaT_gettmbyobj(M, v, "__metatable")
  IN IF nargs(M) = 0 THEN argerror(M)
     ELSE poscallC(M, <<IF metaOf(M, v) = 0 THEN Nil
                        ELSE IF shown # Nil THEN shown ELSE <<"table", metaOf(M, v)>> >>)
luaB_rawget(M) ==
  IF ~ checked(M, <<"table", "any">>) THEN argerror(M)
  ELSE poscallC(M, <<luaH_get(M, arg(M, 1)[2], arg(M, 2))>>)
luaB_rawset(M) ==
  IF ~ checked(M, <<"table", "any", "any">>) THEN argerror(M)
  ELSE IF arg(M, 2) = Nil THEN luaG_runerror(M, "table index is nil")
  ELSE poscallC(luaH_set(M, arg(M, 1)[2], arg(M, 2), arg(M, 3)), <<arg(M, 1)>>)
luaB_rawequal(M) ==
  IF ~ checked(M, <<"any", "any">>) THEN argerror(M) ELSE poscallC(M, <<Bool(arg(M, 1) = arg(M, 2))>>)
luaB_type(M) == IF nargs(M) = 0 THEN argerror(M) ELSE poscallC(M, <<Str(ttype(arg(M, 1)))>>)
luaB_select(M) ==
  LET n == nargs(M)
      want == integer(M, 1)
      from == IF want < 0 THEN n + want ELSE IF want > n THEN n ELSE want
  IN IF arg(M, 1) = Str("#") THEN poscallC(M, <<Num(n - 1)>>)
     ELSE IF ~ checked(M, <<"number">>) \/ from < 1 THEN argerror(M)
     ELSE poscallC(M, args(M, from + 1))
luaB_unpack(M) ==
  LET t == arg(M, 1)
      from == optint(M, 2, 1)
      to == optint(M, 3, luaH_getn(M, t[2]))
  IN IF ~ checked(M, <<"table", "number?", "number?">>) THEN argerror(M)
     ELSE poscallC(M, [n \in 1..(to - from + 1) |-> luaH_get(M, t[2], Num(from + n - 1))])
luaB_ipairs(M) ==
  IF arg(M, 1)[1] # "table" THEN argerror(M)
  ELSE poscallC(M, << <<"cfunction", "ipairsaux">>, arg(M, 1), Num(0)>>)
ipairsaux(M) ==
  LET n == Num(integer(M, 2) + 1)
      v == luaH_get(M, arg(M, 1)[2], n)
  IN IF ~ checked(M, <<"table", "number">>) THEN argerror(M)
     ELSE poscallC(M, IF v = Nil THEN <<>> ELSE <<n, v>>)

\* The traversal visits the keys in an order that the values of the table do not
\* change (the real one is that of the nodes); a key cleared since has its place.
keyLess(a, b) ==
  LET types == <<"number", "string", "boolean", "table", "function", "cfunction", "thread">>
      typeOf(v) == CHOOSE n \in DOMAIN types : types[n] = v[1]
  IN CASE typeOf(a) # typeOf(b) -> typeOf(a) < typeOf(b)
       [] a[1] = b[1] /\ a[1] \in {"string", "cfunction"} -> l_strcmp(a[2], b[2]) < 0
       [] a[1] = b[1] /\ a[1] = "boolean" -> ~ a[2] /\ b[2]
       [] OTHER -> a[2] < b[2]
\* The key and the value after the key, or nothing.
luaH_next(M, t, key) ==
  LET left == {k \in DOMAIN M.tab[t[2]].h : key = Nil \/ keyLess(key, k)}
      entry(k) == <<k, luaH_get(M, t[2], k)>>
  IN IF left = {} THEN <<>> ELSE entry(CHOOSE k \in left : \A n \in left \ {k} : keyLess(k, n))
luaB_next(M) ==
  LET pushed(found) == IF found = <<>> THEN <<Nil>> ELSE found
  IN IF checked(M, <<"table">>) THEN poscallC(M, pushed(luaH_next(M, arg(M, 1), arg(M, 2)))) ELSE argerror(M)
luaB_pairs(M) ==
  IF checked(M, <<"table">>) THEN poscallC(M, << <<"cfunction", "next">>, arg(M, 1), Nil>>) ELSE argerror(M)

luaB_tostring(M) ==
  LET v == arg(M, 1)
      tm == luaT_gettmbyobj(M, v, "__tostring")
  IN CASE nargs(M) = 0 -> argerror(M)
       [] nargs(M) # 0 /\ tm # Nil -> lua_call(M, tm, <<v>>, libFrame("tostring"))
       [] nargs(M) # 0 /\ tm = Nil ->
            poscallC(M, <<IF stringable(v) THEN luaV_tostring(v)
                          ELSE Str(CASE v = Nil -> "nil"
                                     [] v = Bool(TRUE) -> "true"
                                     [] v = Bool(FALSE) -> "false"
                                     [] OTHER -> ttype(v) \o ": " \o ToString(v[2]))>>)
\* In a base other than ten the digits may be between spaces, after 0x in base 16.
luaB_tonumber(M) ==
  LET radix == optint(M, 2, 10)
      s == Ch!Chars(string(M, 1))
      first == Ch!spanOf(s, 1, Ch!isspace)
      hex == radix = 16 /\ Ch!At(s, first) = "0" /\ Ch!At(s, first + 1) \in {"x", "X"}
      from == IF hex THEN first + 2 ELSE first
      to == Ch!spanOf(s, from, LAMBDA c : Ch!isalnum(c) /\ Ch!digitValue(c) < radix)
      spells == to > from /\ Ch!spanOf(s, to, Ch!isspace) = Len(s) + 1
  IN CASE ~ checked(M, <<"any", "number?">>) \/ (radix # 10 /\ ~ checked(M, <<"string">>)) -> argerror(M)
       [] checked(M, <<"any", "number?">>) /\ radix = 10 -> poscallC(M, <<luaV_tonumber(arg(M, 1))>>)
       [] checked(M, <<"string", "number?">>) /\ radix # 10 ->
            IF radix \notin 2..36 THEN argerror(M)
            ELSE poscallC(M, <<IF spells THEN Num(Ch!valueOf(s, from, to, radix)) ELSE Nil>>)
\* The parser runs in a step of its own, and leaves the function or a message.
luaB_loadstring(M) ==
  IF ~ checked(M, <<"string", "string?">>) THEN argerror(M)
  ELSE PushC(M, [k |-> "load", f |-> "loadstring", th |-> M.cur, text |-> string(M, 1)])
load_aux(M) == poscallC(M, (IF M.r = Nil THEN <<Nil>> ELSE <<>>) \o <<Get(M, Th(M).top - 1)>>)

\* The function of the call that is level calls up, a tail call lost of which counts:
\* Nil if there is none or it is lost.
RECURSIVE lua_getstack(_, _, _)
lua_getstack(M, n, level) ==
  LET ci == Th(M).ci[n]
      lost == IF Get(M, ci.func)[1] = "function" THEN ci.tailcalls ELSE 0
  IN IF level > 0 /\ n > 1 THEN lua_getstack(M, n - 1, level - 1 - lost)
     ELSE IF level = 0 /\ n > 1 THEN Get(M, ci.func) ELSE Nil
\* A negative level, one that is not there and one that is lost are errors.
getfunc(M, default) ==
  LET level == optint(M, 1, default)
  IN IF ttype(arg(M, 1)) = "function" THEN arg(M, 1)
     ELSE IF ~ checked(M, <<IF default = 1 THEN "number?" ELSE "number">>) THEN Nil
     ELSE IF level < 0 THEN Nil ELSE lua_getstack(M, Len(Th(M).ci), level)
luaB_getfenv(M) ==
  LET f == getfunc(M, 1)
  IN IF f = Nil THEN argerror(M)
     ELSE poscallC(M, << <<"table", IF f[1] = "cfunction" THEN Th(M).gt ELSE M.cl[f[2]].env>> >>)
luaB_setfenv(M) ==
  LET f == getfunc(M, 0)
      env == arg(M, 2)[2]
  IN CASE arg(M, 2)[1] # "table" \/ f = Nil -> argerror(M)
       [] f # Nil /\ luaV_tonumber(arg(M, 1)) = Num(0) -> poscallC([M EXCEPT !.th[M.cur].gt = env], <<>>)
       [] OTHER -> IF f[1] = "cfunction" THEN luaG_runerror(M, "cannot change environment")
                   ELSE poscallC([M EXCEPT !.cl[f[2]].env = env], <<f>>)

\* The status of a coroutine.
costatus(M, co) ==
  LET t == M.th[co]
  IN CASE co = M.cur -> "running"
       [] co # M.cur /\ t.status = "YIELD" -> "suspended"
       [] co # M.cur /\ t.status = "OK" ->
            IF Len(t.ci) > 1 THEN "normal" ELSE IF t.top = t.base THEN "dead" ELSE "suspended"
       [] OTHER -> "dead"

\* Moves the arguments to the coroutine and resumes it. A wrapped one raises its
\* errors, coroutine.resume returns them.
auxresume(M, co, wrap, vals) ==
  LET failed(msg) == IF wrap THEN luaG_errormsg(M, Str(msg))
                     ELSE poscallC(M, <<Bool(FALSE), Str(msg)>>)
      moved == Push([SetTop(M, Th(M).top - Len(vals)) EXCEPT
                       !.cur = co, !.th[co].nCcalls = Th(M).nCcalls], vals)
      waits == [k |-> "resume", th |-> co, from |-> M.cur, wrap |-> wrap]
      refused == [moved EXCEPT !.cur = M.cur, !.th[co].top = Ci(moved).base]
  IN CASE costatus(M, co) # "suspended" -> failed("cannot resume " \o costatus(M, co) \o " coroutine")
       [] Th(M).nCcalls >= LUAI_MAXCCALLS ->
            IF wrap THEN luaG_errormsg(refused, Str("C stack overflow"))
            ELSE poscallC(refused, <<Bool(FALSE), Str("C stack overflow")>>)
       [] OTHER -> lua_resume(PushC(moved, waits), Len(vals))

luaB_coresume(M) ==
  IF arg(M, 1)[1] # "thread" THEN argerror(M)
  ELSE auxresume(M, arg(M, 1)[2], FALSE, args(M, 2))
luaB_auxwrap(M, co) == auxresume(M, co, TRUE, args(M, 1))
\* lua_newthread: the new thread inherits the globals and the hook of its creator.
\* Wrong: the new thread has no hook.
newCoroutineUnhooked(M) ==
  [M EXCEPT !.th = Append(@, NewThread(<<arg(M, 1)>>, Th(M).gt, NoHook)), !.r = Len(M.th) + 1]
newCoroutine(M) ==
  [M EXCEPT !.th = Append(@, NewThread(<<arg(M, 1)>>, Th(M).gt, Th(M).hook)),
            !.r = Len(M.th) + 1]
luaB_cocreate(M) ==
  LET s == newCoroutine(M)
  IN IF arg(M, 1)[1] # "function" THEN argerror(M) ELSE poscallC(s, << <<"thread", s.r>> >>)
luaB_cowrap(M) ==
  LET s == newCoroutine(M)
  IN IF arg(M, 1)[1] # "function" THEN argerror(M)
     ELSE poscallC(s, << <<"cfunction", "auxwrap", s.r>> >>)
luaB_yield(M) == lua_yield(M, nargs(M))
luaB_costatus(M) ==
  IF arg(M, 1)[1] # "thread" THEN argerror(M)
  ELSE poscallC(M, <<Str(costatus(M, arg(M, 1)[2]))>>)
luaB_corunning(M) == poscallC(M, <<IF M.cur = 1 THEN Nil ELSE <<"thread", M.cur>> >>)

base_funcs == {"assert", "error", "getfenv", "getmetatable", "ipairs", "loadstring", "next", "pairs",
               "pcall", "rawequal", "rawget", "rawset", "select", "setfenv", "setmetatable",
               "tonumber", "tostring", "type", "unpack", "xpcall"}
co_funcs == {"create", "resume", "running", "status", "wrap", "yield"}

LuaFunction(M, f) ==
  LET name == f[2]
  IN CASE name = "assert" -> luaB_assert(M)
       [] name = "error" -> luaB_error(M)
       [] name = "getfenv" -> luaB_getfenv(M)
       [] name = "getmetatable" -> luaB_getmetatable(M)
       [] name = "ipairs" -> luaB_ipairs(M)
       [] name = "ipairsaux" -> ipairsaux(M)
       [] name = "loadstring" -> luaB_loadstring(M)
       [] name = "next" -> luaB_next(M)
       [] name = "pairs" -> luaB_pairs(M)
       [] name = "pcall" -> luaB_pcall(M)
       [] name = "rawequal" -> luaB_rawequal(M)
       [] name = "rawget" -> luaB_rawget(M)
       [] name = "rawset" -> luaB_rawset(M)
       [] name = "select" -> luaB_select(M)
       [] name = "setfenv" -> luaB_setfenv(M)
       [] name = "setmetatable" -> luaB_setmetatable(M)
       [] name = "tonumber" -> luaB_tonumber(M)
       [] name = "tostring" -> luaB_tostring(M)
       [] name = "type" -> luaB_type(M)
       [] name = "unpack" -> luaB_unpack(M)
       [] name = "xpcall" -> luaB_xpcall(M)
       [] name = "create" -> luaB_cocreate(M)
       [] name = "resume" -> luaB_coresume(M)
       [] name = "running" -> luaB_corunning(M)
       [] name = "status" -> luaB_costatus(M)
       [] name = "wrap" -> luaB_cowrap(M)
       [] name = "auxwrap" -> luaB_auxwrap(M, f[3])
       [] name = "yield" -> luaB_yield(M)
LuaResult(M, f, v) == IF f.f = "loadstring" THEN load_aux(M) ELSE poscallC(M, <<v>>)
=============================================================================
