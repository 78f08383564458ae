-------------------------------- MODULE LuaGC --------------------------------
(* The garbage collector of lgc.c with what uses it: the operations of lapi.c,  *)
(* lvm.c, lfunc.c, lstring.c and lstate.c that create objects and references.   *)
(* A collection is incremental: one call of singlestep is one step, and the     *)
(* program, here the code running on the thread L, does anything between two.   *)
(* An object is black when it and what it refers to are marked, gray when it is *)
(* marked and still to be traversed, and white otherwise; there are two whites, *)
(* so that after the marking the objects made since are told from the dead.     *)
(* The lists of the collector are sets where their order decides nothing.       *)
EXTENDS Integers, Sequences, FiniteSets, SequencesExt

CONSTANTS Obj,         \* addresses, each for objects of one type
          Kind,        \* the type of the object at an address
          MainThread, Registry,  \* always there: Registry is also the table of globals
          Arenas,      \* what a program may use: other addresses, the metatables (with
                       \* "k" or "v" in __mode, or "__gc"), operations; what it has made,
                       \* and the list of the userdata among that
          None, Other, \* nil, and any other value that is not an object
          MaxStack, MaxNodes, \* bounds: slots of a stack, nodes of a table
          GCSWEEPMAX   \* objects swept in one step

Of(kind) == {o \in Obj : Kind[o] = kind}
ASSUME TypesAssumption ==
  /\ IsFiniteSet(Obj)
  /\ Kind \in [Obj -> {"table", "userdata", "function", "proto", "upval", "thread", "string"}]
  /\ MainThread \in Of("thread") /\ Registry \in Of("table")
  /\ {None, Other} \cap Obj = {}

VARIABLES g,       \* the global_State
          closing  \* how far lua_close is: "no", "finalizing", "closed"
vars == <<g, closing>>

Value == Obj \cup {None, Other}
\* An object: its metatable, its environment or globals, the nodes of a table, the
\* objects a function or a prototype refers to, the value of a closed upvalue, the
\* place of an open one, the stack of a thread, and what it means as a metatable.
Blank == [mt |-> None, env |-> None, node |-> [k \in {} |-> None], refs |-> {}, v |-> None,
          at |-> <<>>, stack |-> <<>>, meta |-> {}]

\* "white" is the current white, "otherwhite" the one of the objects found dead.
iswhite(S, o) == S.marked[o] \in {"white", "otherwhite"}
isblack(S, o) == S.marked[o] = "black"
isgray(S, o)  == S.marked[o] = "gray"
isdead(S, o)  == S.marked[o] = "otherwhite"
lua_assert(S, condition, name) == IF condition THEN S ELSE [S EXCEPT !.bad = @ \cup {name}]
makewhite(S, objs) ==
  [S EXCEPT !.marked = [o \in Obj |-> IF o \in objs THEN "white" ELSE @[o]]]

isopen(S, u)   == S.heap[u].at # <<>>
\* The value of an upvalue.
uvalue(S, u) == IF isopen(S, u) THEN S.heap[S.heap[u].at[1]].stack[S.heap[u].at[2]] ELSE S.heap[u].v
openupvals(S) == {u \in Of("upval") \ S.free : isopen(S, u)}
has(S, o, event) == S.heap[o].mt # None /\ event \in S.heap[S.heap[o].mt].meta
isweak(S, t)     == has(S, t, "k") \/ has(S, t, "v")
keys(S, t)       == {k \in DOMAIN S.heap[t].node : S.heap[t].node[k] # None}

\* What the traversal of an object marks.
references(S, o) ==
  LET x == S.heap[o]
  IN CASE Kind[o] = "table" ->
            {x.mt} \cup (IF has(S, o, "k") THEN {} ELSE keys(S, o))
                   \cup (IF has(S, o, "v") THEN {} ELSE {x.node[k] : k \in keys(S, o)})
       [] Kind[o] = "userdata" -> {x.mt, x.env}
       [] Kind[o] \in {"function", "proto"} -> {x.env} \cup x.refs
       [] Kind[o] = "upval" -> {uvalue(S, o)}
       [] Kind[o] = "thread" -> {x.env} \cup Range(x.stack)
       [] Kind[o] = "string" -> {}
-----------------------------------------------------------------------------
(* Marking.                                                                     *)
traversed == {"table", "function", "thread", "proto"}
setmarks(S, objs) ==
  LET turnsblack(o) == Kind[o] = "userdata" \/ (Kind[o] = "upval" /\ ~ isopen(S, o))
  IN [lua_assert(S, \A o \in objs : ~ isdead(S, o), "reallymarkobject")
      EXCEPT !.marked = [o \in Obj |-> IF o \notin objs THEN @[o]
                                        ELSE IF turnsblack(o) THEN "black" ELSE "gray"],
             !.gray = @ \cup {o \in objs : Kind[o] \in traversed}]
\* The value of an upvalue and what a userdata refers to are marked with it.
withvalues(S, objs) ==
  objs \cup {o \in {uvalue(S, u) : u \in objs \cap Of("upval")} \cap Obj : iswhite(S, o)}
withfields(S, objs) ==
  objs \cup {o \in Obj \cap UNION {{S.heap[u].mt, S.heap[u].env} : u \in objs \cap Of("userdata")} : iswhite(S, o)}
reallymarkobject(S, objs) == setmarks(S, withfields(S, withvalues(S, objs)))
markobject(S, values) == reallymarkobject(S, {o \in values \cap Obj : iswhite(S, o)})

\* Traverses the objects of a set: weak tables and threads stay gray, in a list of
\* their own. The keys of empty nodes are removed.
removeentries(S, t) ==
  IF has(S, t, "k") /\ has(S, t, "v") THEN S.heap[t]
  ELSE [S.heap[t] EXCEPT !.node = [k \in keys(S, t) |-> @[k]]]
gray2black(S, objs, weak, threads) ==
  [lua_assert(lua_assert(S, \A o \in objs : isgray(S, o), "propagatemark"),
              (weak \cup threads) \cap (S.weak \cup S.grayagain) = {}, "gclist")
   EXCEPT !.heap = [o \in Obj |-> IF o \in objs /\ Kind[o] = "table" THEN removeentries(S, o) ELSE @[o]],
          !.marked = [o \in Obj |-> IF o \in objs \ (weak \cup threads) THEN "black" ELSE @[o]],
          !.gray = @ \ objs, !.weak = @ \cup weak, !.grayagain = @ \cup threads]
traverse(S, objs) ==
  markobject(gray2black(S, objs, {t \in objs \cap Of("table") : isweak(S, t)}, objs \cap Of("thread")),
             UNION {references(S, o) : o \in objs})
propagatemark(S, o) == traverse(S, {o})

\* Repeats propagatemark until no object is gray: the order is of no consequence.
\* What becomes gray is the least set that is closed under the marking.
newlygray(S, o) == markobject(S, references(S, o)).gray
closedset(S, next) ==
  LET closed == {X \in SUBSET DOMAIN next : S.gray \subseteq X /\ \A o \in X : next[o] \subseteq X}
  IN CHOOSE X \in closed : \A Y \in closed : X \subseteq Y
traverseall(S, objs) ==
  traverse([S EXCEPT !.marked = [o \in Obj |-> IF o \in objs \ S.gray THEN "gray" ELSE @[o]], !.gray = objs], objs)
propagateall(S) ==
  traverseall(S, closedset(S,
    [o \in S.gray \cup {w \in Obj \ S.free : iswhite(S, w) /\ Kind[w] \in traversed} |-> newlygray(S, o)]))

\* Wrong: the lists of the cycle before are kept.
markrootKeepingLists(S) ==
  markobject([S EXCEPT !.gray = {}, !.gcstate = "propagate"], {MainThread, Registry, S.heap[MainThread].env})
markroot(S) ==
  markobject([S EXCEPT !.gray = {}, !.grayagain = {}, !.weak = {}, !.gcstate = "propagate"],
             {MainThread, Registry, S.heap[MainThread].env})

\* "Remark occasional upvalues of (maybe) dead threads."
\* Wrong: a dead thread keeps the values of its variables.
remarkupvalsNot(S) == S
remarkupvals(S) == markobject(S, {uvalue(S, u) : u \in {w \in openupvals(S) : isgray(S, w)}})

\* The elements of a sequence that are in a set.
only(s, objs) ==
  LET select[n \in 0..Len(s)] ==
        IF n = 0 THEN <<>> ELSE IF s[n] \in objs THEN Append(select[n - 1], s[n]) ELSE select[n - 1]
  IN select[Len(s)]
\* Dead userdata with a finalizer are moved, in order, to the list of those to finalize.
\* Wrong: userdata that were finalized are looked at again.
luaC_separateudataAgain(S, all) ==
  LET gc == {u \in Range(S.udata) : (iswhite(S, u) \/ all) /\ has(S, u, "__gc")}
  IN [S EXCEPT !.finalized = @ \cup gc, !.owed = @ \cup gc,
               !.tmudata = @ \o only(S.udata, gc), !.udata = only(@, Obj \ gc)]
luaC_separateudata(S, all) ==
  LET found == {u \in Range(S.udata) : (iswhite(S, u) \/ all) /\ u \notin S.finalized}
      gc == {u \in found : has(S, u, "__gc")}
  IN [S EXCEPT !.finalized = @ \cup found, !.owed = @ \cup gc,
               !.tmudata = @ \o only(S.udata, gc), !.udata = only(@, Obj \ gc)]
marktmu(S) == reallymarkobject(makewhite(S, Range(S.tmudata)), Range(S.tmudata))

\* Whether a value is to be removed from a weak table: strings never are.
iscleared(S, v, iskey) ==
  v \in Obj /\ Kind[v] # "string" /\ (iswhite(S, v) \/ (Kind[v] = "userdata" /\ ~ iskey /\ v \in S.finalized))
entries(S, t) == keys(S, t) \cup {S.heap[t].node[k] : k \in keys(S, t)}
kept(S, t) == {k \in DOMAIN S.heap[t].node : k \in keys(S, t) =>
                 ~ iscleared(S, k, TRUE) /\ ~ iscleared(S, S.heap[t].node[k], FALSE)}
keptentries(S, t) == [S.heap[t] EXCEPT !.node = [k \in kept(S, t) |-> @[k]]]
cleartable(S) ==
  [S EXCEPT !.heap = [o \in Obj |-> IF o \in S.weak THEN keptentries(S, o) ELSE @[o]],
            !.marked = [o \in Obj |-> IF Kind[o] = "string" /\ iswhite(S, o) /\ \E t \in S.weak : o \in entries(S, t)
                                       THEN "gray" ELSE @[o]]]
\* The end of the marking, in one step: the last gray objects, the weak tables with
\* the running thread, the objects barriers and threads put in grayagain, the userdata
\* to finalize; then the whites change places.
remarkweak(S) ==
  markobject([lua_assert(S, ~ iswhite(S, MainThread), "atomic") EXCEPT !.gray = S.weak, !.weak = {}], {S.L})
remarkgray(S) == [S EXCEPT !.gray = S.grayagain, !.grayagain = {}]
tosweep(S) == Obj \ (S.free \cup Range(S.tmudata) \cup openupvals(S))
startsweep(S) == [S EXCEPT !.gcstate = "sweepstring", !.strings = tosweep(S) \cap Of("string"),
                           !.sweep = tosweep(S) \ Of("string")]
flipwhite(S) ==
  [S EXCEPT !.marked = [o \in Obj |-> IF @[o] = "white" /\ o \notin S.free THEN "otherwhite" ELSE @[o]]]
atomic(S) ==
  startsweep(flipwhite(cleartable(propagateall(marktmu(luaC_separateudata(
    propagateall(remarkgray(propagateall(remarkweak(propagateall(remarkupvals(S)))))), FALSE))))))
-----------------------------------------------------------------------------
(* Barriers: a reference is stored in an object that may be black already.      *)
\* Moves the collector forward: the value is marked.
luaC_barrierf(S, o, v) ==
  LET s == lua_assert(lua_assert(S, ~ isdead(S, v) /\ ~ isdead(S, o), "barrierf"),
                      S.gcstate \notin {"finalize", "pause"}, "barrierf outside a cycle")
  IN IF S.gcstate = "propagate" THEN reallymarkobject(s, {v}) ELSE makewhite(s, {o})
luaC_barrier(S, o, v) ==
  IF v \in Obj /\ iswhite(S, v) /\ isblack(S, o) THEN luaC_barrierf(S, o, v) ELSE S
\* Moves it back: the table is traversed again.
luaC_barrierback(S, t) ==
  [lua_assert(lua_assert(S, S.gcstate \notin {"finalize", "pause"}, "barrierback"),
              t \notin S.gray \cup S.grayagain \cup S.weak \/ S.gcstate # "propagate", "gclist")
   EXCEPT !.marked[t] = "gray", !.grayagain = @ \cup {t}]
luaC_barriert(S, t, v) ==
  IF v \in Obj /\ iswhite(S, v) /\ isblack(S, t) THEN luaC_barrierback(S, t) ELSE S
-----------------------------------------------------------------------------
(* Creating and freeing objects.                                                *)
free(S, objs) ==
  [S EXCEPT !.free = @ \cup objs, !.heap = [o \in Obj |-> IF o \in objs THEN Blank ELSE @[o]],
            !.marked = [o \in Obj |-> IF o \in objs THEN "white" ELSE @[o]],
            !.called = [o \in Obj |-> IF o \in objs THEN 0 ELSE @[o]],
            !.finalized = @ \ objs, !.owed = @ \ objs, !.udata = only(@, Obj \ objs)]
luaC_link(S, o, object) ==
  [S EXCEPT !.free = @ \ {o}, !.heap[o] = object, !.marked[o] = "white"]
blacken(S, objs) == [S EXCEPT !.marked = [o \in Obj |-> IF o \in objs THEN "black" ELSE @[o]]]
\* Wrong: the upvalues are made black without a barrier for their values.
luaC_linkupvalNoBarrier(S, upvals) ==
  LET grays == {u \in upvals : isgray(S, u)}
  IN IF S.gcstate = "propagate" THEN blacken(S, grays) ELSE makewhite(S, grays)
\* Open upvalues that are closed become objects like the others.
luaC_linkupval(S, upvals) ==
  LET grays == {u \in upvals : isgray(S, u)}
  IN IF S.gcstate = "propagate" THEN markobject(blacken(S, grays), {S.heap[u].v : u \in grays})
     ELSE makewhite(lua_assert(S, grays = {} \/ S.gcstate \notin {"finalize", "pause"}, "linkupval"), grays)
\* Closes the upvalues of threads from a level up; dead ones are freed.
closeupvals(S, upvals) ==
  [S EXCEPT !.heap = [o \in Obj |-> IF o \in upvals THEN [@[o] EXCEPT !.v = uvalue(S, o), !.at = <<>>] ELSE @[o]]]
luaF_close(S, threads, level) ==
  LET upvals == {u \in openupvals(S) : S.heap[u].at[1] \in threads /\ S.heap[u].at[2] >= level}
      dead == {u \in upvals : isdead(S, u)}
      s == lua_assert(S, \A u \in upvals : ~ isblack(S, u), "luaF_close")
  IN luaC_linkupval(closeupvals(free(s, dead), upvals \ dead), upvals \ dead)
luaE_freethread(S, threads) == free(luaF_close(S, threads, 1), threads)

\* Sweeps a set of objects; the open upvalues of a thread are swept with it.
sweeplist(S, objs) ==
  LET upvals == {u \in openupvals(S) : S.heap[u].at[1] \in objs}
      dead == {o \in objs \cup upvals : isdead(S, o) /\ o # MainThread}
      s == lua_assert(S, S.L \notin dead, "freeobj")
      w == makewhite(free(s, dead \ Of("thread")), (objs \cup upvals) \ dead)
  IN luaE_freethread(w, dead \cap Of("thread"))

\* Calls the first pending finalizer: its code is run by the steps that follow. It may
\* have been taken away since the userdata was found dead; then none is owed.
push(S, v) == [S EXCEPT !.heap[S.L].stack = Append(@, v)]
GCTM(S) ==
  LET o == Head(S.tmudata)
      s == makewhite([S EXCEPT !.tmudata = Tail(@), !.udata = <<o>> \o @], {o})
  IN IF has(S, o, "__gc") THEN push([s EXCEPT !.called[o] = @ + 1], o)
     ELSE [s EXCEPT !.owed = @ \ {o}]

\* All objects but the main thread.
luaC_freeall(S) == free([S EXCEPT !.gray = {}, !.grayagain = {}, !.weak = {}], Obj \ {MainThread})
-----------------------------------------------------------------------------
(* Steps of the collector.                                                      *)
stack(S)  == S.heap[S.L].stack
room(S)   == Len(stack(S)) < MaxStack   \* bound
\* luaC_fullgc goes on with a new cycle when the sweep is over.
swept(S) == IF S.full = "sweep" THEN [markroot(S) EXCEPT !.full = "mark"]
            ELSE [S EXCEPT !.gcstate = "finalize"]

Markroot  == g.gcstate = "pause" /\ g' = markroot(g)
Propagate == g.gcstate = "propagate" /\ \E o \in g.gray : g' = propagatemark(g, o)
Atomic    == g.gcstate = "propagate" /\ g.gray = {} /\ g' = atomic(g)
Sweepstring ==
  /\ g.gcstate = "sweepstring"
  /\ \/ \E s \in g.strings :
          g' = [sweeplist(g, {s}) EXCEPT !.strings = @ \ {s}]
     \/ g.strings = {} /\ g' = [g EXCEPT !.gcstate = "sweep"]
Sweep ==
  /\ g.gcstate = "sweep"
  /\ \E objs \in SUBSET g.sweep :
       /\ Cardinality(objs) = GCSWEEPMAX \/ (objs = g.sweep /\ Cardinality(objs) < GCSWEEPMAX)
       /\ LET s == [sweeplist(g, objs) EXCEPT !.sweep = @ \ objs]
          IN g' = IF objs = g.sweep THEN swept(s) ELSE s
Finalize ==
  /\ g.gcstate = "finalize"
  /\ \/ g.tmudata # <<>> /\ room(g) /\ g' = GCTM(g)
     \/ g.tmudata = <<>> /\ g' = [g EXCEPT !.gcstate = "pause", !.full = "no"]
singlestep ==
  /\ closing # "closed" /\ UNCHANGED closing
  /\ Markroot \/ Propagate \/ Atomic \/ Sweepstring \/ Sweep \/ Finalize
-----------------------------------------------------------------------------
(* The program: what the code running on L, a finalizer included, can do.       *)
onstack(S) == Range(stack(S)) \cap Obj
known(S)   == onstack(S) \cup {Registry}
\* Within luaC_fullgc only finalizers run.
malloc(kind) == Of(kind) \cap g.free \cap g.arena.objects
running(op) ==
  op \in g.arena.uses /\ closing # "closed"
  /\ (g.full = "no" \/ (g.full = "mark" /\ g.gcstate = "finalize"))

NewTable ==
  /\ running("NewTable") /\ room(g)
  /\ \E o \in malloc("table"), meta \in g.arena.metas :
       g' = push(luaC_link(g, o, [Blank EXCEPT !.meta = meta]), o)
NewUserdata ==
  /\ running("NewUserdata") /\ room(g)
  /\ \E o \in malloc("userdata") :
       g' = push([luaC_link(g, o, [Blank EXCEPT !.env = Registry]) EXCEPT !.udata = <<o>> \o @], o)
\* A string that is there is used again, even if it is dead and not swept yet.
NewString ==
  /\ running("NewString") /\ room(g)
  /\ \E o \in (Of("string") \cap g.arena.objects) \ onstack(g) :
       g' = push(CASE o \in g.free -> luaC_link(g, o, Blank)
                   [] o \notin g.free /\ isdead(g, o) -> makewhite(g, {o})
                   [] OTHER -> g, o)
\* The parser makes a prototype, and adds constants to it while it stays on the stack.
NewProto ==
  /\ running("NewProto") /\ room(g)
  /\ \E o \in malloc("proto") : g' = push(luaC_link(g, o, Blank), o)
AddConstant ==
  /\ running("AddConstant")
  /\ \E p \in onstack(g) \cap Of("proto"), s \in onstack(g) \cap Of("string") :
       /\ s \notin g.heap[p].refs
       /\ g' = luaC_barrier([g EXCEPT !.heap[p].refs = @ \cup {s}], p, s)
\* A closure, in the place of its prototype, that captures a variable or none.
captures(S, th, n) == {u \in openupvals(S) : S.heap[u].at = <<th, n>>}
luaF_findupval(S, u, n) ==
  IF u \in S.free THEN luaC_link(S, u, [Blank EXCEPT !.at = <<S.L, n>>])
  ELSE IF isdead(S, u) THEN makewhite(S, {u}) ELSE S
Closure ==
  /\ running("Closure")
  /\ \E f \in malloc("function"), p \in Of("proto") :
       LET top == Len(stack(g))
           object(refs) == [Blank EXCEPT !.env = Registry, !.refs = refs]
           open(n) == captures(g, g.L, n)
       IN /\ top > 0 /\ stack(g)[top] = p
          /\ \/ g' = [luaC_link(g, f, object({p})) EXCEPT !.heap[g.L].stack[top] = f]
             \/ \E n \in 1..(top - 1) :
                  \E u \in IF open(n) # {} THEN open(n) ELSE malloc("upval") :
                    g' = [luaC_link(luaF_findupval(g, u, n), f, object({p, u}))
                          EXCEPT !.heap[g.L].stack[top] = f]
NewThread ==
  /\ running("NewThread") /\ room(g)
  /\ \E o \in malloc("thread") :
       g' = push(luaC_link(g, o, [Blank EXCEPT !.env = Registry]), o)

\* Pushes a value an object at hand gives: a field, a key, an upvalue, a metatable.
visible(S, o) ==
  LET x == S.heap[o]
      fields == {x.mt, x.env}
  IN (CASE Kind[o] = "table" -> fields \cup keys(S, o) \cup {x.node[k] : k \in keys(S, o)}
        [] Kind[o] = "function" -> fields \cup {uvalue(S, u) : u \in x.refs \cap Of("upval")}
        [] OTHER -> fields) \cap Obj
Read ==
  /\ running("Read") /\ room(g)
  /\ \E o \in known(g) : \E v \in visible(g, o) \ onstack(g) : g' = push(g, v)
\* Leaves a block: the upvalues of its variables are closed.
Pop ==
  /\ running("Pop") /\ stack(g) # <<>>
  /\ LET s == luaF_close(g, {g.L}, Len(stack(g)))
     IN g' = [s EXCEPT !.heap[g.L].stack = Front(@)]

\* A new key goes into a node of its own; when there is none, empty ones are dropped.
Settable ==
  /\ running("Settable")
  /\ \E t \in known(g) \cap Of("table"), v \in onstack(g) \cup {None} :
     \E k \in IF t = Registry THEN {Other} ELSE onstack(g) \cup {Other} :
       LET node == g.heap[t].node
           rehashed == IF Cardinality(DOMAIN node) < MaxNodes THEN DOMAIN node ELSE keys(g, t)
           found == k \in DOMAIN node
           s == IF found THEN g ELSE luaC_barriert(g, t, k)
       IN /\ found \/ (v # None /\ Cardinality(rehashed) < MaxNodes)   \* bound
          /\ g' = luaC_barriert([s EXCEPT !.heap[t].node =
                      [x \in (IF found THEN DOMAIN node ELSE rehashed \cup {k}) |-> IF x = k THEN v ELSE node[x]]],
                     t, v)
lua_setmetatable ==
  /\ running("lua_setmetatable")
  /\ \E o \in onstack(g) \cap (Of("table") \cup Of("userdata")), mt \in (onstack(g) \cap Of("table")) \cup {None} :
       LET s == [g EXCEPT !.heap[o].mt = mt]
       IN g' = IF Kind[o] = "table" THEN luaC_barriert(s, o, mt) ELSE luaC_barrier(s, o, mt)
lua_setfenv ==
  /\ running("lua_setfenv")
  /\ \E o \in onstack(g) \cap UNION {Of("function"), Of("userdata"), Of("thread")},
        t \in onstack(g) \cap Of("table") : g' = luaC_barrier([g EXCEPT !.heap[o].env = t], o, t)
\* A function assigns the value on the top of the stack to a variable it captured.
Setupval ==
  /\ running("Setupval") /\ stack(g) # <<>>
  /\ \E f \in onstack(g) \cap Of("function") : \E u \in g.heap[f].refs \cap Of("upval") :
       LET v == Last(stack(g))
           at == g.heap[u].at
       IN g' = luaC_barrier(IF isopen(g, u) THEN [g EXCEPT !.heap[at[1]].stack[at[2]] = v]
                            ELSE [g EXCEPT !.heap[u].v = v], u, v)
\* coroutine.resume passes a value to the coroutine, yield or return passes one back.
\* The coroutine is an argument, in a slot that no closure captures.
Resume ==
  /\ running("Resume") /\ stack(g) # <<>> /\ captures(g, g.L, Len(stack(g))) = {}
  /\ LET co == Last(stack(g))
     IN /\ co \in Of("thread") \ (Range(g.callers) \cup {g.L})
        /\ LET s == [g EXCEPT !.callers = Append(@, g.L), !.L = co]
           IN \/ g' = s
              \/ \E v \in onstack(g) : room(s) /\ g' = push(s, v)
Yield ==
  /\ running("Yield") /\ g.callers # <<>> /\ closing = "no"
  /\ LET from == Last(g.callers)
         s == [g EXCEPT !.L = from, !.callers = Front(@)]
     IN \/ g' = s
        \/ \E v \in onstack(g) : room(s) /\ g' = push(s, v)

luaC_fullgc ==
  /\ running("luaC_fullgc")
  /\ g' = CASE g.gcstate \in {"pause", "propagate"} ->
                  [startsweep(g) EXCEPT !.full = "sweep", !.gray = {}, !.grayagain = {}, !.weak = {}]
             [] g.gcstate = "finalize" -> [markroot(g) EXCEPT !.full = "mark"]
             [] OTHER -> [g EXCEPT !.full = "sweep"]
\* lua_close: all userdata with a finalizer are finalized, then everything is freed.
Close ==
  /\ running("Close") /\ closing = "no" /\ closing' = "finalizing" /\ g.L = MainThread
  /\ LET s == luaC_separateudata(luaF_close(g, {MainThread}, 1), TRUE)
     IN g' = [s EXCEPT !.heap[MainThread].stack = <<>>]
CallGCTM ==
  /\ closing = "finalizing" /\ running("Close") /\ g.L = MainThread
  /\ \/ g.tmudata # <<>> /\ room(g) /\ g' = GCTM(g) /\ UNCHANGED closing
     \/ g.tmudata = <<>> /\ g' = luaC_freeall(luaF_close(g, {MainThread}, 1)) /\ closing' = "closed"

program ==
  /\ UNCHANGED closing
  /\ \/ NewTable \/ NewUserdata \/ NewString \/ NewProto \/ AddConstant \/ Closure \/ NewThread
     \/ Read \/ Pop \/ Settable \/ lua_setmetatable \/ lua_setfenv \/ Setupval
     \/ Resume \/ Yield \/ luaC_fullgc
lua_close == Close \/ CallGCTM

lua_newstate(arena) ==
  [heap |-> [o \in Obj |-> IF o \in DOMAIN arena.made THEN arena.made[o]
                            ELSE IF o = MainThread THEN [Blank EXCEPT !.env = Registry] ELSE Blank],
   marked |-> [o \in Obj |-> "white"], free |-> Obj \ (DOMAIN arena.made \cup {MainThread, Registry}), arena |-> arena,
   gcstate |-> "pause", gray |-> {}, grayagain |-> {}, weak |-> {},
   strings |-> {}, sweep |-> {}, udata |-> arena.udata, tmudata |-> <<>>, finalized |-> {}, owed |-> {},
   called |-> [o \in Obj |-> 0], L |-> MainThread, callers |-> <<>>, full |-> "no",
   bad |-> {}]
referred(S, o) ==
  LET x == S.heap[o]
  IN {x.mt, x.env, x.v} \cup x.refs \cup Range(x.stack) \cup keys(S, o)
     \cup {x.node[k] : k \in keys(S, o)} \cup (IF isopen(S, o) THEN {uvalue(S, o)} ELSE {})
roots(S) == {MainThread, Registry, S.L} \cup Range(S.callers) \cup Range(S.tmudata)

\* What an object has, by its type; no value is an upvalue.
Data == Value \ Of("upval")
ObjectFields == {"mt", "env", "node", "refs", "v", "at", "stack", "meta"}
Shaped(x, kind) ==
  /\ DOMAIN x = ObjectFields
  /\ {x.mt, x.env} \subseteq Of("table") \cup {None} /\ x.v \in Data /\ x.refs \subseteq Obj
  /\ x.stack \in Seq(Data) /\ \A k \in DOMAIN x.node : k \in Data /\ x.node[k] \in Data
  /\ x.at = <<>> \/ (kind = "upval" /\ x.at \in Of("thread") \X Nat /\ x.v = None)
  /\ kind \in {"table", "userdata"} \/ x.mt = None
  /\ kind \in {"userdata", "function", "thread"} \/ x.env = None
  /\ kind = "thread" \/ x.stack = <<>>
  /\ kind \in {"function", "proto"} \/ x.refs = {}
  /\ kind = "upval" \/ x.v = None
  /\ kind = "table" \/ DOMAIN x.node = {}
Shapes(S) == \A o \in Obj : Shaped(S.heap[o], Kind[o])
\* No object in use refers to one that is free or found dead.
live(S) == {o \in Obj \ S.free : ~ isdead(S, o)}
GraphIsLive(S) ==
  /\ roots(S) \subseteq live(S)
  /\ \A o \in live(S) : referred(S, o) \cap Obj \subseteq live(S)
\* An open upvalue is in the stack of a thread.
OpenUpvals(S) ==
  \A u \in openupvals(S) :
    LET th == S.heap[u].at[1]
    IN th \notin S.free /\ S.heap[u].at[2] \in 1..Len(S.heap[th].stack)
\* What a program begins with can be there.
ASSUME ArenasAssumption ==
  \A arena \in Arenas :
    LET S == lua_newstate(arena)
    IN /\ Shapes(S) /\ GraphIsLive(S) /\ OpenUpvals(S)
       /\ S.udata \in Seq(Of("userdata")) /\ IsInjective(S.udata) /\ Range(S.udata) = Of("userdata") \ S.free
Init == closing = "no" /\ \E arena \in Arenas : g = lua_newstate(arena)
Next == singlestep \/ program \/ lua_close
Spec == Init /\ [][Next]_vars
-----------------------------------------------------------------------------
(* Correctness.                                                                 *)
TypeOK ==
  /\ g.marked \in [Obj -> {"white", "otherwhite", "gray", "black"}]
  /\ g.gcstate \in {"pause", "propagate", "sweepstring", "sweep", "finalize"}
  /\ \A o \in Obj : LET x == g.heap[o] IN
       /\ {x.mt, x.env, x.v} \cup x.refs \cup Range(x.stack) \cup DOMAIN x.node \subseteq Value
       /\ Len(x.stack) <= MaxStack /\ Cardinality(DOMAIN x.node) <= MaxNodes
  /\ g.free \cup g.gray \cup g.grayagain \cup g.weak \cup g.sweep \cup g.strings \subseteq Obj

\* Everything the program can reach from its threads, the registry and the userdata
\* to finalize, weak references included.
reachable(S) ==
  LET reach[n \in 0..Cardinality(Obj)] ==
        IF n = 0 THEN roots(S)
        ELSE LET X == reach[n - 1] IN X \cup (Obj \cap UNION {referred(S, o) : o \in X})
  IN reach[Cardinality(Obj)]

\* No object the program can reach has been freed: the marking, with barriers at the
\* stores, reaches all that is reachable at its end, and the sweep takes no other
\* (lgc.c). It is not claimed while lua_close runs finalizers: a state closed between
\* two steps of the marking has made userdata white that black objects refer to.
NoDanglingReference == closing = "no" => reachable(g) \cap g.free = {}

\* The invariant of the marking: a black object refers to no white one, so that all
\* that is left to mark is behind a gray one. A userdata still to be finalized may be
\* left black from the cycle before (lgc.c, marktmu).
BlackNeverPointsToWhite ==
  g.gcstate = "propagate" /\ closing = "no" =>
    \A o \in Obj \ (g.free \cup Range(g.tmudata)) :
      isblack(g, o) => \A v \in references(g, o) \cap Obj : ~ iswhite(g, v)

\* The assertions of lgc.c and lfunc.c hold, and no object is put in two of the lists
\* that share its gclist field. One assertion is left out: a finalizer that changes the
\* metatable or environment of a userdata that is itself to be finalized meets a
\* barrier in the last phase, which luaC_barrierf says cannot be. None of this is claimed
\* once lua_close runs finalizers, for the same reason as above: a userdata that a later
\* finalizer takes from a black object can then be one that was found dead.
AssertionsHold == closing = "no" => g.bad \subseteq {"barrierf outside a cycle"}

\* A finalizer is called once, and before the userdata is freed: a userdata is freed
\* after a collection that found it dead, or with the state, and if it had a finalizer
\* when it was found, that was called, unless another finalizer had taken it away
\* (lgc.c luaC_separateudata, GCTM, lstate.c lua_close).
FinalizersRunOnce ==
  [][\A u \in Of("userdata") :
       /\ g'.called[u] <= 1
       /\ u \in g'.free \ g.free => /\ u \in g.finalized \/ closing' = "closed"
                                    /\ u \in g.owed => g.called[u] = 1]_vars

\* "A table with weak keys allows the collection of its keys, but prevents the
\* collection of its values" (doc/manual.html): an entry whose key is not dead stays.
WeakKeysKeepEntries ==
  [][g.gcstate = "propagate" /\ g'.gcstate = "sweepstring" =>
       \A t \in Of("table") \ g.free : \A k \in keys(g, t) :
         ~ isdead(g', t) /\ ~ has(g, t, "v") /\ (k = Other \/ ~ isdead(g', k)) => k \in keys(g', t)]_vars
=============================================================================
