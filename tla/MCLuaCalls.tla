------------------------------ MODULE MCLuaCalls ------------------------------
(* Programs about calls, errors, metamethods and coroutines, as Lua text, with   *)
(* what each of them must give the host, whatever the nesting of C calls,        *)
(* protected calls and threads in between.                                       *)
EXTENDS LuaStrings, LuaTableLib, LuaParser

\* The tables of the libraries: string, the metatable of strings, table.
tableOf(names) == [h |-> [v \in {Str(g) : g \in names} |-> <<"cfunction", v[2]>>], mt |-> 0]
MCGlobals == [g \in base_funcs \cup co_funcs |-> <<"cfunction", g>>]
             @@ ("string" :> <<"table", 2>>) @@ ("table" :> <<"table", 4>>)
MCLibraries == <<tableOf(DOMAIN strlib \ {"gmatch_aux"}),
                 [h |-> (Str("__index") :> <<"table", 2>>), mt |-> 0],
                 tableOf(DOMAIN tab_funcs)>>
MCFunction(M, f) == CASE f[2] \in DOMAIN strlib -> StringFunction(M, f)
                      [] f[2] \in DOMAIN tab_funcs -> TableFunction(M, f[2])
                      [] OTHER -> LuaFunction(M, f)
MCResult(M, f, v) == CASE f.f \in {"sort", "foreach", "foreachi"} -> TableResult(M, f, v)
                       [] f.f = "gsub" -> StringResult(M, f, v)
                       [] OTHER -> LuaResult(M, f, v)

returns(vals) == <<"return">> \o vals
yes == Bool(TRUE)
no  == Bool(FALSE)

\* <<text, outcome>>
Program(name) ==
  CASE name = "nested pcall" ->
    <<"local ok, e = pcall(function() local ok, e = pcall(error, 'a', 0) error({e}) end) return ok, e[1]",
      returns(<<no, Str("a")>>)>>
  [] name = "unwinding" ->
    <<"local function f(n) if n == 0 then error(7) end return f(n - 1) + 1 end "
      \o "local a, b = pcall(f, 3) return a, b, pcall(f, 1)", returns(<<no, Str("7"), no, Str("7")>>)>>
  [] name = "handler" ->
    <<"local t = {} local function h(m) t[1] = m return 5 end "
      \o "local a, b = xpcall(function() error(2) end, h) local c, d = pcall(error, 3) return a, b, t[1], c, d",
      returns(<<no, Num(5), Str("2"), no, Str("3")>>)>>
  [] name = "handler fails" ->
    <<"return xpcall(function() error(1) end, function(m) error(2) end)",
      returns(<<no, Str("error in error handling")>>)>>
  [] name = "handler is no function" ->
    <<"return xpcall(function() error(1) end, 3)", returns(<<no, Str("error in error handling")>>)>>
  [] name = "inner pcall in xpcall" ->
    <<"return xpcall(function() local a, b = pcall(error, 1) error({a, b}) end, function(m) return m[2] end)",
      returns(<<no, Str("1")>>)>>
  [] name = "stack overflow twice" ->
    <<"local n = 0 local function f() n = n + 1 return 1 + f() end "
      \o "local a = pcall(f) local m = n n = 0 return a, (pcall(f)), n > m", returns(<<no, no, yes>>)>>
  [] name = "overflow in a handler" ->
    <<"local function f() return 1 + f() end return xpcall(f, f)",
      returns(<<no, Str("error in error handling")>>)>>
  [] name = "C stack overflow" ->
    <<"local function f() local ok, e = pcall(f) return e or 'deep' end return f()",
      returns(<<Str("C stack overflow")>>)>>
  [] name = "coroutines nest too deep" ->
    <<"local function f() local ok, e = resume(create(f)) return e end return f()",
      returns(<<Str("C stack overflow")>>)>>
  [] name = "tail calls" ->
    <<"local function f(n) if n == 0 then return 'c' end return f(n - 1) end return f(40)",
      returns(<<Str("c")>>)>>
  [] name = "index" ->
    <<"local b = setmetatable({x = 1}, {__index = {y = 2}}) "
      \o "local a = setmetatable({}, {__index = b}) local f = setmetatable({}, {__index = function(t, k) return k, 1 end}) "
      \o "return a.x, a.y, a.z, f.x, rawget(f, 'x'), f:x and 1", <<"error">> >>
  [] name = "index functions" ->
    <<"local b = setmetatable({x = 1}, {__index = {y = 2}}) "
      \o "local a = setmetatable({}, {__index = b}) local f = setmetatable({}, {__index = function(t, k) return k, 1 end}) "
      \o "return a.x, a.y, a.z, f.x, rawget(f, 'x')", returns(<<Num(1), Num(2), Nil, Str("x"), Nil>>)>>
  [] name = "self" ->
    <<"local c = setmetatable({}, {__index = function(t, k) return function(s, v) return s == t, k, v end end}) "
      \o "return c:go(4)", returns(<<yes, Str("go"), Num(4)>>)>>
  [] name = "index loop" ->
    <<"local a = {} local m = {__index = a, __newindex = a} setmetatable(a, m) "
      \o "return (pcall(function() return a.x end)), (pcall(function() a.x = 1 end))", returns(<<no, no>>)>>
  [] name = "newindex" ->
    <<"local log = {} local t = setmetatable({y = 1}, {__newindex = function(t, k, v) rawset(t, k, v + 1) end}) "
      \o "t.x = 1 t.x = 5 t.y = 2 local p = setmetatable({}, {__newindex = log}) p.z = 3 return t.x, t.y, p.z, log.z",
      returns(<<Num(5), Num(2), Nil, Num(3)>>)>>
  [] name = "nil key" ->
    <<"local t = setmetatable({}, {__newindex = function() end}) return (pcall(function() t[nil] = 1 end)), t[nil]",
      returns(<<no, Nil>>)>>
  [] name = "call" ->
    <<"local c = setmetatable({}, {__call = function(self, a, b) return b, a end}) local x, y = c(1, 2) "
      \o "local function tail(...) return c(...) end return x, y, tail(3)", returns(<<Num(2), Num(1), Nil, Num(3)>>)>>
  [] name = "call errors" ->
    <<"return (pcall({})), (pcall(setmetatable({}, {__call = 1}))), (pcall(function() local t = {} t.x() end))",
      returns(<<no, no, no>>)>>
  [] name = "comparison" ->
    <<"local mt = {__eq = function(a, b) return a.v == b.v end, __lt = function(a, b) return a.v < b.v end} "
      \o "local function V(v) return setmetatable({v = v}, mt) end local a, b = V(1), V(1) local c = V(2) "
      \o "return a == b, a ~= c, a < c, c < a, a <= b, c <= a, a >= c, rawequal(a, b)",
      returns(<<yes, yes, yes, no, yes, no, no, no>>)>>
  [] name = "less or equal" ->
    <<"local mt = {__le = function(a, b) return 1 end} local a, b = setmetatable({}, mt), setmetatable({}, mt) "
      \o "return a <= b, a >= b, (pcall(function() return a < b end)), (pcall(function() return 1 < 'a' end)), 'a' < 'b', 'b' <= 'a'",
      returns(<<yes, yes, no, no, yes, no>>)>>
  [] name = "arithmetic" ->
    <<"local mt = {} mt.__add = function(a, b) return 'a' end mt.__unm = function(a) return 'b' end "
      \o "mt.__len = function() return 9 end local a = setmetatable({}, mt) "
      \o "return 1 + a, a + a, -a, #a, '3' * 2, (pcall(function() return a - 1 end)), (pcall(function() return #nil end))",
      returns(<<Str("a"), Str("a"), Str("b"), Num(0), Num(6), no, no>>)>>
  [] name = "concat" ->
    <<"local t = setmetatable({}, {__concat = function(a, b) if type(a) == 'table' then return 'a' .. b end return a .. 'b' end}) "
      \o "return 1 .. t .. 2 .. 'c', t .. 'c' .. 1, 'c' .. 1 .. t, (pcall(function() return 1 .. {} .. 2 end))",
      returns(<<Str("1a2c"), Str("ac1"), Str("c1b"), no>>)>>
  [] name = "protected metatable" ->
    <<"local t = setmetatable({}, {__metatable = 1}) return getmetatable(t), (pcall(setmetatable, t, {})), getmetatable({})",
      returns(<<Num(1), no, Nil>>)>>
  [] name = "error in a metamethod" ->
    <<"local t = setmetatable({}, {__index = function(t, k) error(k) end}) local x = 1 "
      \o "local ok, e = pcall(function() local y = t.a x = 2 end) return ok, e, x", returns(<<no, Str("a"), Num(1)>>)>>
  [] name = "varargs" ->
    <<"local function f(...) return select('#', ...), select(2, ...) end local function g(...) return arg.n, arg[2] end "
      \o "local n, m = g(4, 5, nil) return n, m, select(-1, 1, 8), f(1, nil, 3, unpack({6, 7}))",
      returns(<<Num(3), Num(5), Num(8), Num(5), Nil, Num(3), Num(6), Num(7)>>)>>
  [] name = "select error" ->
    <<"return (pcall(select, -2, 1)), (pcall(select, 0)), select(5, 1), unpack({1, 2, 3}, 2, 3)",
      returns(<<no, no, Nil, Num(2), Num(3)>>)>>
  [] name = "for in" ->
    <<"local s = 0 for i, v in ipairs({3, 4, nil, 5}) do s = s * 100 + i * 10 + v end "
      \o "local it = setmetatable({}, {__call = function(self, st, c) if c < st then return c + 1 end end}) "
      \o "for i in it, 3, 0 do s = s + i end return s, (pcall(function() for x in nil do end end))",
      returns(<<Num(1330), no>>)>>
  [] name = "for errors" ->
    <<"return (pcall(function() for i = 'a', 2 do end end)), (pcall(function() for i = 1, {} do end end)), "
      \o "(pcall(function() for i = 1, 2, nil do end end))", returns(<<no, no, no>>)>>
  [] name = "assert" ->
    <<"return assert(1, 2), pcall(assert, false, 'a')", returns(<<Num(1), no, Str("a")>>)>>
  [] name = "generator" ->
    <<"local function gen(n) return wrap(function() for i = 1, n do yield(i) end end) end "
      \o "local s = 0 for x in gen(3) do s = s * 10 + x end return s", returns(<<Num(123)>>)>>
  [] name = "values in and out" ->
    <<"local co = create(function(a, b) local c = yield(a + b) local d, e = yield(c * 2) return d + e, status(running()) end) "
      \o "local a, p = resume(co, 1, 2) local b, q = resume(co, 10) local c, r, s = resume(co, 3, 4) "
      \o "return p, q, r, s, status(co), (resume(co))",
      returns(<<Num(3), Num(20), Num(7), Str("running"), Str("dead"), no>>)>>
  [] name = "yield across pcall" ->
    <<"local co = create(function() return pcall(yield, 1) end) return resume(co)",
      returns(<<yes, no, Str("attempt to yield across metamethod/C-call boundary")>>)>>
  [] name = "yield in a metamethod" ->
    <<"local t = setmetatable({}, {__index = function() return yield(1) end}) "
      \o "local co = create(function() return t.x end) return (resume(co)), status(co)", returns(<<no, Str("dead")>>)>>
  [] name = "yield in nested calls" ->
    <<"local function walk(t) if t then walk(t[1]) yield(t.v) walk(t[2]) end end local s = 0 "
      \o "for v in wrap(function() walk({{v = 1}, {v = 3}, v = 2}) end) do s = s * 10 + v end return s", returns(<<Num(123)>>)>>
  [] name = "error in a coroutine" ->
    <<"local co = create(function() local x = 1 error(4) end) local a, b = resume(co) "
      \o "return a, b, status(co), pcall(wrap(function() error(3) end))", returns(<<no, Str("4"), Str("dead"), no, Str("3")>>)>>
  [] name = "upvalues of a dead coroutine" ->
    <<"local get local co = create(function() local x = 1 get = function() x = x + 1 return x end yield() error(5) end) "
      \o "resume(co) local a = get() resume(co) return a, get(), get(), status(co)",
      returns(<<Num(2), Num(3), Num(4), Str("dead")>>)>>
  [] name = "upvalues after an error" ->
    <<"local f, g local ok = pcall(function() local x, y = 1, 5 f = function() x = x + 1 return x + y end g = function() y = x return y end error(0) end) "
      \o "local a, b, c = 8, 8, 8 return f(), g(), f(), a + b + c", returns(<<Num(7), Num(2), Num(5), Num(24)>>)>>
  [] name = "resume self" ->
    <<"local co co = create(function() return resume(co) end) return resume(co)",
      returns(<<yes, no, Str("cannot resume running coroutine")>>)>>
  [] name = "resume parent" ->
    <<"local a, b a = create(function() return resume(b) end) b = create(function() return status(a), resume(a) end) return resume(a)",
      returns(<<yes, yes, Str("normal"), no, Str("cannot resume normal coroutine")>>)>>
  [] name = "host yield" ->
    <<"local a = yield(1) local b = yield() return a, b, type(yield)", returns(<<Nil, Nil, Str("function")>>)>>
  [] name = "host error" -> <<"local t = {} t.x.y = 1", <<"error">> >>
  [] name = "syntax" -> <<"return = 1", <<"error">> >>
  [] name = "text" -> <<"return 'a\\'\\65', [[b]] --[[x]] .. [==[]]]==] --", returns(<<Str("a'A"), Str("b]]")>>)>>
  [] name = "sort" ->
    <<"local function s(...) local t = {...} table.sort(t) return table.concat(t, ',') end "
      \o "return s(3, 1, 2), s(2, 1), s(5, 4, 3, 2, 1), s(1, 2, 1, 2, 1, 1), s('b', 'a', 'ab'), s(), (pcall(s, 1, 'a', 2))",
      returns(<<Str("1,2,3"), Str("1,2"), Str("1,2,3,4,5"), Str("1,1,1,1,2,2"), Str("a,ab,b"), Str(""), no>>)>>
  [] name = "sort permutations" ->
    <<"local t, bad = {1, 2, 3, 4}, 0 "
      \o "local function sorted() local c = {unpack(t)} table.sort(c) for i = 1, 4 do if c[i] ~= i then bad = bad + 1 end end end "
      \o "local function perm(n) if n == 1 then return sorted() end for i = 1, n do perm(n - 1) local k = n % 2 == 0 and i or 1 t[k], t[n] = t[n], t[k] end end "
      \o "perm(4) return bad",
      returns(<<Num(0)>>)>>
  [] name = "sort with an order" ->
    <<"local t = {{3}, {1}, {2}, {5}, {4}} table.sort(t, function(a, b) return a[1] > b[1] end) local s = '' "
      \o "for i, v in ipairs(t) do s = s .. v[1] end return s",
      returns(<<Str("54321")>>)>>
  [] name = "sort by __lt" ->
    <<"local m = {__lt = function(a, b) return a.v < b.v end} local t = {} for i = 1, 5 do t[i] = setmetatable({v = i * 2 % 5}, m) end "
      \o "table.sort(t) return t[1].v, t[2].v, t[3].v, t[4].v, t[5].v, (pcall(table.sort, {t[1], {}}))",
      returns(<<Num(0), Num(1), Num(2), Num(3), Num(4), no>>)>>
  [] name = "invalid order" ->
    <<"local t = {3, 1, 2, 5, 4} return pcall(table.sort, t, function() return true end)",
      returns(<<no, Str("invalid order function for sorting")>>)>>
  [] name = "error in an order" ->
    <<"local t, n = {4, 2, 3, 1, 5}, 0 local ok, e = pcall(table.sort, t, function(a, b) n = n + 1 if n == 4 then error(8) end return a < b end) "
      \o "local s = 0 for i, v in ipairs(t) do s = s + v end return ok, e, n, s, #t",
      returns(<<no, Str("8"), Num(4), Num(15), Num(5)>>)>>
  [] name = "order changes the table" ->
    <<"local t = {4, 3, 2, 1} return pcall(table.sort, t, function(a, b) if a == nil or b == nil then error('gone', 0) end t[3] = nil return a < b end)",
      returns(<<no, Str("gone")>>)>>
  [] name = "yield in callbacks" ->
    <<"local function try(f, ...) local co = create(f) local ok, e = resume(co, ...) return ok, status(co), e end "
      \o "local a, b, e = try(function() table.sort({2, 1}, yield) end) local c, d = try(function() return string.gsub('ab', 'b', yield) end) return a, b, c, d, e",
      returns(<<no, Str("dead"), no, Str("dead"), Str("attempt to yield across metamethod/C-call boundary")>>)>>
  [] name = "insert and remove" ->
    <<"local t = {} table.insert(t, 'a') table.insert(t, 1, 'b') table.insert(t, 2, 'c') table.insert(t, 4, 'd') "
      \o "local s = table.concat(t) local r = table.remove(t, 2) local last = table.remove(t) table.insert(t, 5, 'z') "
      \o "return s, r, last, t[1], t[2], t[5], table.maxn(t), (pcall(table.insert, t)), table.remove({})",
      returns(<<Str("bcad"), Str("c"), Str("d"), Str("b"), Str("a"), Str("z"), Num(5), no>>)>>
  [] name = "table concat" ->
    <<"return table.concat({1, 'b', 3}, ', '), table.concat({1, 2, 3}, '-', 2), table.concat({1, 2, 3}, '-', 2, 2), table.concat({}, 'x'), "
      \o "(pcall(table.concat, {1, {}, 3})), (pcall(table.concat, {1}, '', 1, 2)), table.maxn({2, [9] = 1, x = 3}), table.getn({1, 2}), (pcall(table.setn, {}, 1))",
      returns(<<Str("1, b, 3"), Str("2-3"), Str("2"), Str(""), no, no, Num(9), Num(2), no>>)>>
  [] name = "foreach" ->
    <<"local s = 0 local r = table.foreach({5, 6, x = 7}, function(k, v) s = s + v if k == 2 then return nil end end) "
      \o "local t = {1, 2, 3} local q = table.foreachi(t, function(i, v) t[i + 1] = nil if i == 3 then return v == nil end end) "
      \o "return s, r, q, (pcall(table.foreach, {1}, 1)), (pcall(table.foreachi, {1}, error))",
      returns(<<Num(18), Nil, yes, no, no>>)>>
  [] name = "find" ->
    <<"return string.find('hello', 'l'), string.find('hello', 'l+'), string.find('a.b', '.', 2, true), string.find('', ''), string.find('abc', 'b()', -2), "
      \o "(string.find('abc', 'x')), string.find('abc', '', 10), string.find('aXb', '%u'), string.find('abc', '^b'), string.find('abc', 'c$')",
      returns(<<Num(3), Num(3), Num(2), Num(1), Num(2), Nil, Num(4), Num(2), Nil, Num(3), Num(3)>>)>>
  [] name = "pattern" ->
    <<"return string.match('key = val', '(%w+)%s*=%s*(%w+)'), string.match('2024', '%d%d'), string.match('f(a(b)c)d', '%b()'), "
      \o "string.match('THE (q) x', '%f[%a]%a+%f[%A]'), string.match('  x', '^%s*(.-)%s*$'), string.match('[[x]]', '%[(=*)%[(.*)%]%1%]')",
      returns(<<Str("key"), Str("20"), Str("(a(b)c)"), Str("THE"), Str("x"), Str(""), Str("x")>>)>>
  [] name = "backtracking" ->
    <<"return string.match('aaab', '(a*)ab'), string.match('xay', '(x)(a?)(%l-)y$'), string.match('abcabd', '(ab)(c?)%1d'), "
      \o "string.match('aab', 'a-b'), string.match('ab', '(a?)(a?)b'), string.match('=-]', '[]%-=]+'), string.match('b-', '[a-c%-]+'), string.match('x', '[^%s]'), string.match('abbc', '(a(b-)c)')",
      returns(<<Str("aa"), Str("x"), Str("ab"), Str("aab"), Str("a"), Str("=-]"), Str("b-"), Str("x"), Str("abbc"), Str("bb")>>)>>
  [] name = "captures" ->
    <<"local a, b, c = string.match('abc', '(a)(b)(c)') return a, b, c, (pcall(string.match, 'aaaa', string.rep('(a?)', 33))), (pcall(string.find, 'a', '(a')), "
      \o "(pcall(string.find, 'a', 'a)')), (pcall(string.find, 'a', '%1')), (pcall(string.find, 'a', '(%1)')), string.find('ab', '()b()')",
      returns(<<Str("a"), Str("b"), Str("c"), no, no, yes, no, no, Num(2), Num(2), Num(2), Num(3)>>)>>
  [] name = "bad patterns" ->
    <<"return (pcall(string.find, 'a', 'a%')), (pcall(string.find, 'a', '[a')), (pcall(string.find, 'a', '[a%')), (pcall(string.find, 'a', '%f')), (pcall(string.find, 'a', '%ba')), "
      \o "(pcall(string.find, 'a', '[]')), (pcall(string.gsub, 'a', '(', 'x')), (pcall(string.gsub, 'a', 'a', '%2')), string.find('a', 'b[')",
      returns(<<no, no, no, no, no, no, yes, no, Nil>>)>>
  [] name = "gsub" ->
    <<"local function g(...) local s, n = string.gsub(...) return s .. n end return g('hello', 'l', 'L'), g('hello', '', '-'), g('abc', '%w', '%0%0', 2), g('abc', '^a', 'x'), "
      \o "g('a b', '(%w) (%w)', '%2 %1'), g('abc', 'b*', 'x'), g('a.b', '%.', '%%'), g('abc', 'x', 'y'), g('abc', 'b', 1), g('aa', '^a', 'b'), g('ab', '()', '%1')",
      returns(<<Str("heLLo2"), Str("-h-e-l-l-o-6"), Str("aabbc2"), Str("xbc1"), Str("b a1"), Str("xaxxcx4"), Str("a%b1"), Str("abc0"), Str("a1c1"), Str("ba1"), Str("1a2b33")>>)>>
  [] name = "gsub calls" ->
    <<"local n = 0 local a = string.gsub('abc', '%w', function(c) n = n + 1 if c == 'b' then return nil end return c .. n end) "
      \o "local b = string.gsub('a b', '(%w)', {a = 'x', b = false}) local c = string.gsub('ab', '%w', setmetatable({}, {__index = function(t, k) return k .. '!' end})) "
      \o "local d = string.gsub('a=1', '(%w)=(%w)', function(k, v) return v .. k, 9 end) return a, b, c, d, n",
      returns(<<Str("a1bc3"), Str("x b"), Str("a!b!"), Str("1a"), Num(3)>>)>>
  [] name = "gsub errors" ->
    <<"return (pcall(string.gsub, 'a', 'a', function() return {} end)), (pcall(string.gsub, 'a', 'a', {a = true})), (pcall(string.gsub, 'a', 'a')), pcall(string.gsub, 'ab', 'b', function(c) error(c, 0) end)",
      returns(<<no, no, no, no, Str("b")>>)>>
  [] name = "gsub in gsub" ->
    <<"local s, n = string.gsub('ab cd', '%w+', function(w) return (string.gsub(w, '.', function(c) return c .. '.' end)) end) return s, n",
      returns(<<Str("a.b. c.d."), Num(2)>>)>>
  [] name = "gmatch" ->
    <<"local s = '' for k, v in string.gmatch('a=1, b=2', '(%w+)=(%w+)') do s = s .. v .. k end for w in string.gmatch('one two', '%a+') do s = s .. '|' .. w end "
      \o "local n = 0 for p in string.gmatch('abc', '()') do n = n * 10 + p end local f, g = string.gmatch('xy', '.'), string.gmatch('xy', '.') return s, n, f(), g(), f(), g(), f(), g()",
      returns(<<Str("1a2b|one|two"), Num(1234), Str("x"), Str("x"), Str("y"), Str("y"), Nil>>)>>
  [] name = "format" ->
    <<"return string.format('%d|%5d|%-5d|%05d|%+d|%3.2d', 3, 42, 42, 42, 7, 5), string.format('%s %5s %-3s. %.2s', 'a', 'b', 'c', 'def'), string.format('%x %X %#x %o %c %%', 255, 255, 16, 8, 65), "
      \o "string.format('%q', 'a\"b\\\\c'), string.format('%i%u', -3, 4), (pcall(string.format, '%d')), (pcall(string.format, '%d', 'x')), (pcall(string.format, '%y', 1)), (pcall(string.format, '%123d', 1)), string.format('%d', '10')",
      returns(<<Str("3|   42|42   |00042|+7| 05"), Str("a     b c  . de"), Str("ff FF 0x10 10 A %"), Str("\"a\\\"b\\\\c\""), Str("-34"), no, no, no, no, Str("10")>>)>>
  [] name = "strings" ->
    <<"local b, c = string.byte('abc', 2, -1) return b, c, string.char(72, 105), string.sub('hello', 2, -2), string.sub('hello', -3), string.sub('abc', 3, 2), string.sub('abc', 0), string.reverse('abc'), "
      \o "string.upper('aBc'), string.lower('aBc'), string.rep('ab', 3), string.rep('x', -1), string.len('four'), (string.byte('')), (pcall(string.char, 256)), (pcall(string.rep))",
      returns(<<Num(98), Num(99), Str("Hi"), Str("ell"), Str("llo"), Str(""), Str("abc"), Str("cba"), Str("ABC"), Str("abc"), Str("ababab"), Str(""), Num(4), Nil, no, no>>)>>
  [] name = "string methods" ->
    <<"local s = 'x' function string.twice(t) return t .. t end local a = s:twice():upper() string.twice = nil return a, #s, type(s.len), (pcall(function() return s:twice() end)), ('%d'):format(4), s.y",
      returns(<<Str("XX"), Num(1), Str("function"), no, Str("4"), Nil>>)>>
  [] name = "pairs" ->
    <<"local t = {10, 20, x = 30, [true] = 40} local n, s = 0, 0 for k, v in pairs(t) do n = n + 1 s = s + v t[k] = nil end "
      \o "return n, s, next(t), next({}, nil), next({7}), (pcall(pairs, nil)), (pcall(next))",
      returns(<<Num(4), Num(100), Nil, Nil, Num(1), no, no>>)>>
  [] name = "tostring" ->
    <<"local t = setmetatable({}, {__tostring = function(self) return 'T' end}) return tostring(t), tostring(nil), tostring(true), tostring(12), tostring('s'), (pcall(tostring)), "
      \o "(pcall(tostring, setmetatable({}, {__tostring = function() error(1) end})))",
      returns(<<Str("T"), Str("nil"), Str("true"), Str("12"), Str("s"), no, no>>)>>
  [] name = "tonumber" ->
    <<"return tonumber('10'), tonumber(' 0x1F '), tonumber('z', 36), tonumber('101', 2), tonumber('9', 8), tonumber('1e1'), tonumber('a'), tonumber(''), tonumber({}), tonumber('0xff', 16), (pcall(tonumber)), (pcall(tonumber, '1', 99))",
      returns(<<Num(10), Num(31), Num(35), Num(5), Nil, Num(10), Nil, Nil, Nil, Num(255), no, no>>)>>
  [] name = "loadstring in C calls" ->
    <<"local function f(n) if n == 0 then return loadstring('return -(-(-(-1)))') end "
      \o "local ok, e = pcall(f, n - 1) return e end return type(f(4)), type(f(5)), type(f(0))",
      returns(<<Str("function"), Str("nil"), Str("function")>>)>>
  [] name = "loadstring" ->
    <<"local f = loadstring('local a = ... g = a return a + 1') local a = f(4) local bad = loadstring('return =') local ok, e = pcall(loadstring('error(6, 0)')) return a, g, bad, ok, e, (pcall(loadstring)), loadstring('return loadstring([[return 2]])()')()",
      returns(<<Num(5), Num(4), Nil, no, Num(6), no, Num(2)>>)>>
  [] name = "environments" ->
    <<"local e = {x = 5} local function f() return x end setfenv(f, e) x = 1 local a, b = f(), x local g = loadstring('y = 3 return y') setfenv(g, e) "
      \o "local c = g() local co = wrap(function() setfenv(0, e) return getfenv(0) == e, getfenv(1) == e end) local d, h = co() return a, b, c, y, e.y, d, h, getfenv(f) == e, getfenv(type) == getfenv(0)",
      returns(<<Num(5), Num(1), Num(3), Nil, Num(3), yes, no, yes, yes>>)>>
  [] name = "function environments" ->
    <<"local e = setmetatable({}, {__index = getfenv(0)}) local r local function f() setfenv(2, e) end local function g() f() z = 4 r = getfenv(1) == e end g() "
      \o "return z, e.z, r, (pcall(setfenv, type, {})), (pcall(setfenv, 9, {})), (pcall(getfenv, -1)), (pcall(setfenv, 1, 2))",
      returns(<<Nil, Num(4), yes, no, no, no, no>>)>>
  [] name = "forever" -> <<"while true do end", <<"never">> >>
  [] name = "forever inside" -> <<"local co = wrap(function() while true do end end) co()", <<"never">> >>
  [] name = "forever in an order" -> <<"table.sort({2, 1}, function() while true do end end)", <<"never">> >>
  [] name = "forever in gsub" -> <<"return pcall(string.gsub, 'a', 'a', function() while true do end end)", <<"never">> >>
  [] name = "again" -> <<"count = (count or 0) + 1 local c = count return c, pcall(error, 1)", <<>> >>

Once == {"nested pcall", "unwinding", "handler", "handler fails", "handler is no function", "inner pcall in xpcall",
  "stack overflow twice", "overflow in a handler", "C stack overflow", "coroutines nest too deep", "tail calls",
  "index", "index functions", "self", "index loop", "newindex", "nil key", "call", "call errors", "comparison", "less or equal",
  "arithmetic", "concat", "protected metatable", "error in a metamethod", "varargs", "select error", "for in",
  "for errors", "assert", "generator", "values in and out", "yield across pcall", "yield in a metamethod",
  "yield in nested calls", "error in a coroutine", "upvalues of a dead coroutine", "upvalues after an error",
  "resume self", "resume parent", "host yield", "host error", "syntax", "text",
  "sort", "sort permutations", "sort with an order", "sort by __lt", "invalid order",
  "error in an order", "order changes the table", "yield in callbacks",
  "insert and remove", "table concat", "foreach", "find", "pattern", "backtracking",
  "captures", "bad patterns", "gsub", "gsub calls", "gsub errors", "gsub in gsub",
  "gmatch", "format", "strings", "string methods", "pairs", "tostring", "tonumber",
  "loadstring", "loadstring in C calls", "environments", "function environments"}
Forever == {"forever", "forever inside", "forever in an order", "forever in gsub"}
\* Long runs, of which a timeout would have too many places to strike.
Long == {"stack overflow twice", "overflow in a handler", "tail calls", "handler fails", "sort permutations"}
run(name, timeout) == [chunk |-> name, timeout |-> timeout]
MCScripts == {<<run(n, FALSE)>> : n \in Once}
             \cup {<<run(n, TRUE), run("again", FALSE)>> : n \in (Once \ Long) \cup Forever}
MCChunk(name, nCcalls) ==
  LET text == IF name \in Once \cup Forever \cup {"again"} THEN Program(name)[1] ELSE name
      tokens == Lex!tokensOf(text)
  IN luaY_parser(tokens, nCcalls)
MCNumber(s) == LET n == Lex!luaO_str2d(Lex!Chars(s))
               IN IF n.ok THEN Num(Lex!integerOf(n)) ELSE Nil
-----------------------------------------------------------------------------
finished == started = Len(script) /\ vm.c = <<>> /\ ~ yielded

\* Every chunk gives the host what its text says, unless its timeout has struck, and
\* then it still lets the next one: no error, yield or timeout inside a chunk changes
\* what a later one gives or stops the program (ldo.c, lvm.c, lbaselib.c, thread.ts).
struck(n) == script[n].timeout /\ (n < started \/ late)
Expected(n) == IF script[n].chunk = "again" THEN returns(<<Num(1), no, Str("1")>>)
               ELSE Program(script[n].chunk)[2]
OutcomesAsExpected ==
  \A n \in DOMAIN vm.out :
    LET o == vm.out[n]
    IN CASE o[1] = "yield" -> TRUE
         [] o[1] = "error" -> struck(n) \/ Expected(n) = <<"error">>
         [] o[1] = "return" -> struck(n) \/ Expected(n) = o
         [] o[1] = "exit" -> FALSE

\* The counter of C calls that guards the C stack is the number of C functions that
\* wait on it, whatever errors have unwound it and whichever thread runs (ldo.c:371,
\* ldo.c:469, lapi.c:126).
CCallsCountTheCStack ==
  settled /\ vm.c # <<>> => Th(vm).nCcalls = Len(SelectSeq(vm.c, LAMBDA fr : fr.k \notin {"execute", "index", "load"}))

\* Each thread on the C stack has exactly the calls its luaV_execute loops will
\* return from, unless it is about to be suspended (lvm.c:378, ldo.c:333).
threadOf(n) == LET m == SelectLastInSubSeq(vm.c, 1, n, LAMBDA fr : fr.k \in {"host", "resume", "load"})
               IN vm.c[m].th
callsExecuted(t) ==
  FoldLeft(LAMBDA sum, n : sum + vm.c[n].n, 0,
           SelectSeq([n \in DOMAIN vm.c |-> n],
                     LAMBDA n : vm.c[n].k = "execute" /\ threadOf(n) = t))
LuaCalls(t) == Cardinality({n \in DOMAIN vm.th[t].ci : vm.th[t].stack[vm.th[t].ci[n].func][1] = "function"})
OnCStack == {threadOf(n) : n \in DOMAIN vm.c}
ExecuteRunsItsCalls ==
  settled => \A t \in OnCStack : vm.th[t].status = "OK" => callsExecuted(t) = LuaCalls(t)

\* The open upvalues of a thread are its own, sorted, and each is the slot of a local
\* variable that is in scope in a call that has not ended: no closure sees a slot
\* another variable uses (lfunc.c, lparser.c:296).
scope(th, ci) ==
  LET f == th.stack[ci.func]
      vars_ == ProtoAt(vm, vm.cl[f[2]].p).locvars
  IN IF f[1] # "function" THEN 0
     ELSE Cardinality({n \in DOMAIN vars_ : vars_[n].startpc <= ci.savedpc /\ ci.savedpc <= vars_[n].endpc})
OpenUpvaluesAreLive ==
  \A t \in DOMAIN vm.th :
    LET th == vm.th[t]
        at(n) == vm.uv[th.openupval[n]].at
    IN \A n \in DOMAIN th.openupval :
         /\ vm.uv[th.openupval[n]].th = t
         /\ n > 1 => at(n) < at(n - 1)
         /\ \E ci \in ToSet(th.ci) : ci.base <= at(n) /\ at(n) < ci.base + scope(th, ci)

\* A coroutine that reports "normal" has resumed another one and waits for it
\* (lbaselib.c:484).
NormalMeansRunning ==
  \A t \in DOMAIN vm.th : t # vm.cur /\ costatus(vm, t) = "normal" => t \in OnCStack
\* It holds as long as no coroutine has inherited a timeout.
NormalCoroutinesWait ==
  (\A t \in DOMAIN vm.th : vm.th[t].hook.owner \in {0, t}) => NormalMeansRunning

\* While a chunk with a timeout runs, the thread that runs, whichever coroutine of the
\* chunk it is and whatever errors it has caught, comes back to the hook within
\* HOOK_COUNT instructions; only a message handler of xpcall that the timeout itself
\* has called runs with the hook disabled (thread.ts:403-411, lstate.c:130, ldo.c:188).
TimeoutReachesItsCoroutines ==
  running /\ script[started].timeout =>
    /\ Th(vm).hook.owner = vm.c[1].th
    /\ Th(vm).allowhook \/ \E n \in DOMAIN vm.c : vm.c[n].k = "handler"
    /\ Th(vm).hookcount \in 1..(HOOK_COUNT + 1)
=============================================================================
