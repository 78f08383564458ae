------------------------------ MODULE MCLuaGC ------------------------------
(* Small heaps for the collector, one for each thing that can go wrong in it.   *)
EXTENDS LuaGC
MCObj == {"main", "registry", "t", "u", "w", "p", "f", "v", "co", "s"}
MCKind == [o \in MCObj |->
  CASE o \in {"main", "co"} -> "thread" [] o \in {"registry", "t"} -> "table" [] o \in {"u", "w"} -> "userdata"
    [] o = "p" -> "proto" [] o = "f" -> "function" [] o = "v" -> "upval" [] o = "s" -> "string"]
Program(objects, metas, uses) ==
  [objects |-> objects, metas |-> metas, uses |-> uses, made |-> [o \in {} |-> Blank], udata |-> <<>>]
Stores == {"NewTable", "NewUserdata", "Settable", "lua_setmetatable", "Pop"}

\* A userdata with a finalizer in a table with weak keys, and with weak values. A table
\* can be its own metatable.
WeakKeys   == Program({"t", "u"}, {{"k", "__gc"}}, Stores)
WeakValues == Program({"t", "u"}, {{"v", "__gc"}}, Stores)
\* The variables of a coroutine, shared with a closure that outlives it: to begin with
\* the main thread has the coroutine, and the closure it returned.
Suspended ==
  [o \in {"main", "co", "t", "f", "p", "v"} |->
     CASE o = "main" -> [Blank EXCEPT !.env = "registry", !.stack = <<"f", "co">>]
       [] o = "co" -> [Blank EXCEPT !.env = "registry", !.stack = <<"t">>]
       [] o = "f" -> [Blank EXCEPT !.env = "registry", !.refs = {"p", "v"}]
       [] o = "v" -> [Blank EXCEPT !.at = <<"co", 1>>]
       [] OTHER -> Blank]
Coroutines == [Program({}, {}, {"Resume", "Yield", "Setupval", "Read", "Pop"})
               EXCEPT !.made = Suspended]
Parsing == Program({"p", "f", "v", "co"}, {{}},
  {"NewProto", "NewThread", "Closure", "Resume", "Yield", "Pop", "Setupval"})
\* Strings, and the prototype a parser makes with them.
Strings == Program({"s", "p", "f"}, {{}},
  {"NewString", "NewProto", "AddConstant", "Closure", "Read", "Pop", "Settable"})
\* Stores in objects that are black, and collections the program asks for.
Fields == Program({"t"}, {{}}, {"NewTable", "Settable", "lua_setmetatable", "Read", "Pop", "luaC_fullgc"})
Environments == Program({"t", "u"}, {{}},
  {"NewTable", "NewUserdata", "lua_setmetatable", "lua_setfenv", "Read", "Pop"})
Closing == Program({"t", "u"}, {{"__gc"}},
  {"NewTable", "NewUserdata", "lua_setmetatable", "lua_setfenv", "luaC_fullgc", "Close", "Pop"})
\* Two userdata with the same metatable, and a table with weak keys that still has one of
\* them when both are dead: a finalizer can take the other's away.
TwoUserdata ==
  [o \in {"registry", "u", "w"} |->
     IF o = "registry" THEN [Blank EXCEPT !.mt = "registry", !.meta = {"k", "__gc"}, !.node = [k \in {"w"} |-> Other]]
     ELSE [Blank EXCEPT !.mt = "registry", !.env = "registry"]]
Finalizers == [Program({}, {}, {"Read", "lua_setmetatable", "Pop"})
               EXCEPT !.made = TwoUserdata, !.udata = <<"u", "w">>]
MCArenas == {Finalizers, WeakKeys, WeakValues, Coroutines, Parsing, Strings, Fields, Environments, Closing}
=============================================================================
