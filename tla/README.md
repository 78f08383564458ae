# TLA+ specification of wasmoon (Lua 5.1)

This directory holds a TLA+ model of wasmoon: of the JavaScript side, which
keeps two heaps, two stacks and two garbage collectors consistent with each
other, and of the Lua 5.1 interpreter it ships (`lua/src`), from the characters
of a program to the collector. TLC checks the modules on small instances, and
TLAPS proves the most important results about the JavaScript side, Lua's
tables and its collector for every size. Line numbers refer to this commit.

- [The system](#the-system)
- [Modules and their correspondence to the code](#modules-and-their-correspondence-to-the-code)
- [Runs](#runs)
- [Fairness](#fairness)
- [What is proved](#what-is-proved)
- [What the model shows about the code](#what-the-model-shows-about-the-code)
- [What is only model-checked, and what is not modelled](#what-is-only-model-checked-and-what-is-not-modelled)
- [Plan](#plan)

## The system

wasmoon runs the Lua 5.1 interpreter, compiled to WebAssembly, inside a
JavaScript program. Lua values live in the WebAssembly heap under Lua's
incremental collector; JavaScript values live in the JavaScript heap. Each
side holds values of the other by proxy. There is one thread of control, but
it is reentered from many places: a Lua allocation can run a finalizer
written in JavaScript, a JavaScript function called by Lua can call Lua, and
between two turns of the event loop any number of Lua executions are
suspended. Inside the interpreter the same thread of control is shared by
coroutines, unwound by `longjmp` on errors, and interrupted by the count hook
that implements timeouts; the collector works in small steps between the
instructions.

The JavaScript side:

| Component | State | Operations | Hard behaviour | What makes it correct |
|---|---|---|---|---|
| Reference table (`api.ts` `LuaApi`) | `referenceMap`, `referenceTracker`, `availableReferences` | `ref`, `unref`, `getRef` | counts against a collector that runs at any allocation; failures half way through `ref` or right after it | an index a userdata stores always leads to its own object; an object leaves with its last holder |
| JS userdata (`thread.ts` `pushValue`, `func-manager.ts` `registerGcFunction`, `global.ts` `close`) | the userdata in the Lua heap | push, finalize, close | order of pushes, deaths and reuse of indices | every reference is given back exactly once |
| Lua registry (`lauxlib.c`) | the registry's slots, a free list threaded through them | `luaL_ref`, `luaL_unref` | a double unref corrupts the list silently | a reference is a unique key |
| Wrappers of Lua values (`table.ts`, `thread.ts` `getFunction`) | `pointerRefs`, one registry reference per wrapper | create, reuse, `$destroy` | a cache keyed by address; a reference taken and then not needed | one wrapper per value, none stale, nothing anchored for nobody |
| Copying objects (`thread.ts` `pushTable`) | the recursion, `options.refs` | one recursive call per object | cycles, sharing, exceptions that unwind all levels | the Lua tables form the same graph; the registry is left as it was |
| JS functions in Lua (`lua.ts` `initTypeBindings`, `func-manager.ts`) | `pointerRedirect`, `indexMap` | push, index, finalize | phases of the collector; addresses reused | indexing a function reaches its own JS object |
| Executions (`lua.ts` `callByteCode`, `bindAsync`; `thread.ts` `run`) | the main Lua stack, a coroutine and a promise per execution | start, yield, await, resume, resolve, reject | a saved stack index used after awaits; nested and synchronous executions; collection of coroutines | each execution finds its own coroutine and result; every one ends |
| Timeouts (`thread.ts` `setTimeout`, `run`) | a count hook per thread, copied to new coroutines | set, fire, clear | an error raised between any two instructions; inherited hooks | the code of a timed execution comes back to the hook; the next execution is undisturbed |
| Traced allocator (`global.ts`) | `memoryUsed`, `memoryMax` | allocate, reallocate, free | any allocation of Lua may fail | structures survive a failed allocation |
| Detach and map transformation (`table.ts`, `utils/map-transform.ts`) | `refs` and `options.refs`, positions on the Lua stack | `$detach`, `mapTransform` | cycles, sharing, keys that JS does not tell apart, an index used across nested calls | the Maps, and the objects made of them, form the tables' graph; the Lua stack is left as it was |
| Type bindings, context and globals, C API shims, stack traces, file system, CLI | | | | not modelled |

The interpreter:

| Component | State | Operations | Hard behaviour | What makes it correct |
|---|---|---|---|---|
| Lexer and compiler (`llex.c`, `lparser.c`, `lcode.c`) | token, function states, expression descriptor, free register, jump lists | one per production and per generator routine | one pass: registers, jumps and constants are decided before the rest is seen; operands have limits | the code does what the text means |
| Code checker, binary chunks (`ldebug.c`, `ldump.c`, `lundump.c`) | | check, dump, undump | chunks that are cut short, stripped debug information | what was dumped comes back; nothing else is taken for it |
| Virtual machine (`lvm.c`, `ltm.c`) | call frame, pc, registers | 38 instructions, metamethods | a metamethod is a call in the middle of an instruction, and may raise or be interrupted | the language's meaning |
| Calls, errors, coroutines (`ldo.c`, `lfunc.c`, `lbaselib.c`) | stacks, `CallInfo`s, the C stack, open upvalues, counters | call, return, raise, pcall, xpcall, resume, yield | an error unwinds all of these at once, across C functions and threads | each is left as the handler found it |
| Tables (`ltable.c`) | array part, nodes in chains, free pointer | get, set, `next`, `#`, rehash | collisions, keys removed while traversing, dead keys, allocation failures | lookups, traversals and borders agree with the stores |
| Collector (`lgc.c`) | colours, lists of gray objects, phase | one step, barriers, finalizers | the program changes the graph between any two steps; finalizers revive objects | nothing reachable is freed; finalizers run once |
| String and table library (`lstrlib.c`, `ltablib.c`) | a match and its captures; the bounds, indexes and held elements of a sort | match, substitute, sort, insert, remove | captures undone by backtracking; a callback between two steps of a sort or substitution changes the table, raises, yields or contradicts itself | what the manual says of each function; no callback leaves the interpreter inconsistent |
| Other libraries over the C API, stand-alone programs | | | | not modelled |

How they interact:

- `pushValue` takes a reference in the table and stores its index in a new
  userdata; Lua's collector calls back into JavaScript to give it back
  (`RefTable` / `UserdataRefs`).
- `pushTable`, `getTable` and `getFunction` share the registry, so what one
  does to the free list another one meets (`LuaRegistry` under `PushTable`
  and `Wrappers`).
- `callByteCode`, `getFunction`'s wrapper, `bindAsync` and `doStringSync` share
  the stack of the main Lua state (`RunLoop`, `SyncCalls`).
- wrappers remember the thread they were read on, and coroutines are collected
  (`RunLoop`).
- the compiler's output is what the machine executes and the checker accepts
  (`LuaParser` under `LuaVM` and `LuaCheck`, composed in `MCLuaCompiler`); the
  libraries call back into the machine (`LuaBase`, `LuaStrings` and `LuaTableLib`
  over `LuaVM`, composed in `MCLuaCalls`), which runs whole programs, lexed and parsed from their text,
  under a host that starts, resumes and times them out as `thread.ts` does.

`PROJECT.json` lists the hazards of this code, each at its line, with the
property that covers it or the reason why none does.

## Modules and their correspondence to the code

`PROJECT.json` maps every definition to the lines it stands for. Definitions
marked "Mutant of" or "Wrong:" in a comment are small bugs used to see that a
property notices them; nothing else refers to them. The type invariants
(`WrappersTypeOK`, `PushTypeOK`, `FuncTypeOK`, `DetachTypeOK`, `TypeOK`) say
what the state looks like; they hold in the runs, too, but are not listed there.

### RefTable, UserdataRefs, ObjectPins

`RefTable` has the three collections of `LuaApi` and its two operations. `Ref`
and `Unref` follow `api.ts:370-409` branch by branch, the two early returns of
`unref` included; `RefThrows` is `WeakMap.set` throwing after
`referenceMap.set`. `UserdataRefs` has the callers: `PushValue` (the generic
userdata, `js-function`, and `decorate`d values, whose own metatable may lack
`__gc`), `PushValueNoMemory` (`lua_newuserdata` fails after `ref`),
`Finalize`, `Sweep` and `Close`. `held` and `lost` are history variables.

`ObjectPins` is the abstract specification: a value is pinned exactly while
some userdata holds it or a reference to it has leaked. It has no indices, no
counters and no free list. `Pins` in `UserdataRefs` is the refinement mapping
and `ImplementsPins` the claim.

`PushValue` is atomic, although `lua_newuserdata` between `ref` and the store of
the index can collect. The finalizers it runs concern other userdata; each
gives back a reference that was counted before, and such an `Unref` gives the
same table before and after `Ref` except that an index may be recycled in the
other order. The state between the two is that of `PushValueNoMemory`, so the
counts a finalizer meets there are covered.

### LuaRegistry, Wrappers

`LuaRegistry` translates `luaL_ref` and `luaL_unref`: slot 0 heads the list of
freed slots, and a freed slot holds its successor. `RefChoices` leaves open
which border `lua_objlen` reports, as the manual does. `Hold` and `Drop` are
the creation and destruction of a wrapper. `Wrappers` adds `pointerRefs`;
`RefetchFunction` is the second read of a function, which takes a reference
before it looks at the cache (`thread.ts:222-227`), whereas `getTable` looks
first (`table.ts:113-117`).

### PushTable

The recursion of `pushTable` is the sequence `frames`. `Enter` is a call up to
its `try`, `PushScalarField`, `PushHandleField`, `PushKnownObject`,
`PushNewObject` and `PushFieldThrows` are the kinds of field, and `Leave` is
the `finally` block, on return and on throw. The object graph is chosen at
the start and stays; pushes alternate with the creation and destruction of
wrappers in the same registry.

### RunLoop, SyncCalls

An action of `RunLoop` is what runs between two turns of the event loop.
`Begin` is `callByteCode` up to its first `await`; `Slice` is one
`lua_resume` and what `run` makes of it (a plain yield, a yielded promise, a
call of a bound function, a return, an error). A call of a bound function takes
four turns: `CallAsync` makes the request, `InvokeCallback` is the first `then`
of `begin`, `Settle` the end of the callback's promise, `KeepOutcome` the handlers
of the second `then`, and `AfterRequest` the `await` of `ready`, after which the
script calls `request[1]`. What the handlers and the script share are the
variables of `begin` (lua.ts:110-112), the record `request`; a result or failure in it
is the number of the call it comes from, so that a stale one can be told.
`Resolve` and `Reject` are the end with its `finally` block, which removes the
coroutine at the saved `threadIndex`. `gstack` is the main stack, `CallbackDoesString` an execution
nested in a bound callback, `DoStringSync` a synchronous one in between, and
`Collect` the Lua collector. `received` and `resolved` are history variables.

README.md:94-95 of the source asks callers to serialize executions, so a new
one starts when none is active or inside a callback that awaits it.

`SyncCalls` adds the wrappers of Lua functions, called from JavaScript: the
wrapper pushes a coroutine, runs the function and pops the top of the stack.

### FuncBinding

Blocks of the Lua heap with the phases of the collector: `Atomic` ends
marking and queues unreachable userdata for finalization, `Sweep` frees
closures and userdata finalized in an earlier cycle, `Finalize` is the `__gc`
callback, which deletes the entry of `indexMap` that `pointerRedirect` names
(`func-manager.ts:29-67`). Freed addresses are reused.

### Detach, MapTransform

The mirror image of `PushTable`. `frames` is the recursion of `detachTable`;
a frame stands before `lua_next`, before the conversion of the key or before
that of the value (`at`), and the Lua stack holds what the C API would have
there. `NextEntry` takes any entry not visited yet, since the order of
`lua_next` is not specified. `JsValue` is `getValue`, which gives two userdata
of one JS object the same value. `MapTransform` is the second recursion, over
the Maps: `PropertyName` is what `String` makes of a key, so that 1 and "1"
collide, and all Maps do. `DictTypes` are what a caller can ask for, and
`Detected` is `mapTransform` without a type. `lua_next` looks its table up at
the index the frame saved (`Remaining`), as the C API does.

`result[key] = v` is `Assign`. It makes a property of the result, but for two names:
`"__proto__"` makes the result inherit from an object, does nothing for other
values and throws for a cycle of results, and `"length"` of an array removes the
elements past it or throws. `thrown` says that an assignment did. So a key may be
lost though `mapTransform` found all names to differ (`NoKeyIsLost`, to be run by
hand); `ResultsMirrorMaps` says what becomes of such a key, and that no other is lost.
Of what a result may inherit from only other results are told apart: accessors and
read-only properties an inherited Map, function or userdata object could have are left
out, as are objects with a null prototype or a `toString` of their own as keys.

### LuaOpcodes, LuaLex, LuaCode, LuaParser

`LuaOpcodes` is the instruction set: formats, operand modes and their limits.
An instruction is a record; encoding it in 32 bits is left out, except where
the code reads a raw word as an instruction.

`LuaLex` turns characters into tokens, `llex` with its long brackets, escapes,
comments and numerals included. It is used through `INSTANCE` by the parser.

`LuaCode` is `lcode.c`, function by function: the descriptor of an expression
and where its value is, constants, registers, jump lists threaded through the
jump instructions, constant folding, tests and comparisons, assignment and
`SETLIST`. Its operators thread one record `S`, whose fields are those of
`FuncState` and `LexState`; `S.bad` collects the names of the assertions that
fail, and `S.err` the error that ends the compilation.

`LuaParser` is `lparser.c`: one operator per production, with scopes, upvalues,
blocks, varargs, the conflict check of multiple assignments and the
level counter, which is the C call counter of the thread: `luaY_parser` starts from
the thread's `nCcalls` and gives back what it leaves. The operators are recursive, as
the productions are.

### LuaSyntax, LuaLanguage

The reference the compiler is compared with. `LuaSyntax` has programs as trees
and writes them as tokens; `LuaLanguage` says what a tree means, with
environments and a store and no registers, jumps or instructions. Neither
models code.

### LuaDo, LuaVM

The interpreter that runs. One record, `vm`, holds the threads, tables,
closures, upvalues and the C stack: a sequence of the C functions that wait for
Lua code (`luaV_execute` with the number of calls it will return from, a
metamethod's caller, `pcall`, `xpcall` and its handler, `resume`, the host).
`LuaDo` is `ldo.c` and `lfunc.c`: `luaD_precall`, `luaD_poscall`, stack growth
and the limits of calls, `luaD_throw` as the search for the frame that catches,
what `luaD_pcall` and `lua_resume` restore, `luaF_close`.

`LuaVM` has one action per opcode, one per way back into a waiting C function
(`CReturns`), the raise of an error and its landing (`Errors`), the host
(`Host`: a chunk is loaded, run, yields to the event loop, is resumed) and
`CountHook`, the timeout: when the counter reaches zero the deadline may have
passed, and then the hook raises its error on the thread it was set on,
whichever runs.

The compiled chunk and the libraries are constants of the machine, given by the
configurations, so that the recursive parser is not a part of the machine's
module: `Chunk(_, _)`, what the parser makes of a chunk with a number of C calls
already active, `CFunction(_, _)`, what a C function does when it is called
(`CFunctionRuns`), and `CResult(_, _, _)`, what it does with the result of a
function it called or a table it read (`LibReturns`, `IndexReturns`). `Parse`
is `luaD_protectedparser`, for the host and for `loadstring`.

### LuaBase, LuaStrings, LuaTableLib

`LuaBase` is `lbaselib.c`: what calls, raises or switches threads, metatables,
environments, conversions, traversal (in the order of the keys; `LuaTable` has
the real one). A function takes the machine and gives the machine it leaves.

`LuaStrings` is `lstrlib.c`. `match` and the functions it calls take and give
the `MatchState`, so that what a failed branch leaves in the captures is the
code's. `LuaTableLib` is `ltablib.c`. A function that calls back, as `gsub`,
`sort` or `foreach` do, puts a frame on the C stack with its local variables
(for `sort`: where it is, its bounds and indexes, the elements it holds, and
the ranges its callers have left), and goes on from the frame: between the two,
the callback may do anything. The programs of `MCLuaCalls` have it change the
table, raise, yield, contradict itself or run into the timeout.

### LuaCheck

`luaG_checkcode` with its symbolic execution, and its other use, finding the
name of a value for an error message; `luaU_dump` and `luaU_undump` over a
sequence of items, each an integer, byte, number or block of bytes. `LoadInt`
refuses a negative integer, as the code does.

### LuaTable

One table of `ltable.c`. Nodes are numbered and chained as in the C array, from 1;
`next` is 0 at the end of a chain. `mainposition` is what the code computes from a
string's hash, an object's address or the two words of a double; the constants
`Hash` and `Address` are chosen so that keys collide. A program uses one of
`Programs`, a set of keys; its steps are assignments, also of nil, one list of a
constructor, and calls of `next`, in any interleaving with the collector, which makes
keys of empty nodes dead. `field` is what the program assigned last to each key, and
`trav` the traversal under way: the keys it has visited, and those that have had a
value since it began. `Failures` says which allocation of a resize may fail:
`"array"` (nothing has been changed yet) in the passing run, and `"nodes"` (the
array part has grown) in the run that finds a violation. An object is the
address its key holds, so an object at the address of a dead key is the same
key, which is what `findindex` compares.

### LuaGC

The collector of `lgc.c`. `singlestep` is one step in each phase: mark the
roots, propagate from one gray object, the atomic phase (open upvalues of dead
threads, weak tables, userdata to finalize, `cleartable`, the flip of the
white), sweep strings and objects, call a finalizer. `program` is everything
code can do between two steps: create objects of each type, store references
with the barrier the code has at that place, push and pop, open and close
upvalues, switch threads, intern strings, run a full collection, close the
state. `closing` says how far `lua_close` is: it calls every finalizer and then
frees everything. `owed` has the userdata whose finalizer is still to be called or
was, unless another finalizer took it away before its turn. An arena gives the addresses, metatables and operations of a scenario;
the collector's lists are sets where their order decides nothing, and
`propagateall` marks the least closed set, since the atomic phase is not
interrupted.

## Runs

The column "Bounds" says which behaviours each bound admits.

| Run | Module, configuration | Properties | Distinct states | Bounds |
|---|---|---|---|---|
| `userdata_refs` | `MCUserdataRefs`, `UserdataRefs.cfg` | `HolderReadsItsObject`, `OnlyLastHolderReleases`, `ImplementsPins`, `CloseReleasesAll` | 99,310 | two objects, one primitive, three blocks: an object with two holders while another one dies and is pushed again; four indices and one lost reference per object: failed pushes leave holes |
| `wrappers` | `MCWrappers`, `Wrappers.cfg` | `HandleReadsItsValue`, `OneWrapperPerValue`, `TablesAnchoredByWrappers` | 17,793 | two tables, two functions, four wrappers, six slots: a free list of four, and slots leaked by refetched functions |
| `push_table` | `MCPushTable`, `PushTable.cfg` | `PushReleasesItsRefs`, `PushedImageIsIsomorphic`, `PushMakesProgress` | 1,059,899 | 730 graphs of three objects: nesting of depth three, sharing, self references and cycles of every length, a throw two levels deep; one wrapper in the same registry |
| `run_loop` | `MCRunLoop`, `RunLoop.cfg` | `ThreadIndexNamesThread`, `ActiveThreadIsNotFreed`, `NoThreadLeftBehind`, `ResolvesToItsFirstResult`, `CallbackOutcomeReachesLua`, `EveryRunEnds` | 660,146 | two executions of up to two yields and two results, one synchronous execution: one nested in the other, or started over the leftovers of the others |
| `detach` | `MCDetach`, `Detach.cfg` | `DetachedMapsMirrorTables`, `ResultsMirrorMaps`, `DetachMakesProgress` | 505,739 | 2844 graphs of three tables: cycles of length one to three, through values and through keys; sharing; keys 1 and "1"; the keys `"__proto__"`, with cycles through it, and `"length"`, before and after an element it cuts off; two userdata of one object as keys; two values below on the stack |
| `func_binding` | `MCFuncBinding`, `FuncBinding.cfg` | `RedirectsAreOwned` | 14,714 | two targets, three userdata and two closure addresses: a function being collected, one being pushed and an object |
| `lua_compiler` | `MCLuaCompiler`, `LuaCompiler.cfg` | `AssertionsHold`, `CompiledMeansSource`, `UndumpRestoresChunk`, `TruncatedChunkIsRefused` | 44,906 | families of programs: all pairs of logical operators over leaves that jump, call or are constants, in ten places; arithmetic that folds or not; all pairs of assignment targets; constructors, loops, closures, calls with every kind of argument list; calls and concatenations of 11 to 14 operands. Operand limits of 2 and 16 registers: the limits of `RK` operands, of a `SETLIST` batch and of the registers are crossed, the last by programs that are refused |
| `lua_calls` | `MCLuaCalls`, `LuaCalls.cfg` | `OutcomesAsExpected`, `CCallsCountTheCStack`, `ExecuteRunsItsCalls`, `OpenUpvaluesAreLive`, `NormalCoroutinesWait`, `TimeoutReachesItsCoroutines` | 25,780 | 80 programs, most of them also with a timeout at every fifth instruction and a second chunk after it; 14 C calls and 40 Lua calls before an overflow; three captures; sorts of up to six elements, among them all permutations of four |
| `lua_collector` | `MCLuaGC`, `LuaGC.cfg` | `NoDanglingReference`, `BlackNeverPointsToWhite`, `AssertionsHold`, `FinalizersRunOnce` | 379,092 | arenas of three or four objects of the types that interact: tables and closures, upvalues and threads, weak tables, userdata with finalizers, one of which may take the other's away, strings; stacks of two slots, tables of one node, sweeps of three objects a step |
| `lua_tables` | `MCLuaTable`, `LuaTable.cfg` | `GetReturnsLastSet`, `MainInvariant`, `TraversalVisitsAll`, `BoundaryIsBorder`, `RehashMakesRoom`, `ArrayIsHalfFull` | 106,996 | integers, strings and objects whose main positions collide, up to eight nodes: chains of three, moved nodes, several rehashes in both directions, and a failed one |

| Run that finds a violation | Property | Statement it refutes |
|---|---|---|
| `push_nested` | `HandleReadsItsValue` | the manual: `luaL_ref` returns unique keys |
| `lua_tables_memory` | `TraversalVisitsAll` | the manual: after the last index `next` returns nil |

Each property of a passing run has a mutant in `PROJECT.json`: an operator that
differs from the code's by one plausible mistake, with which TLC finds the
property violated.

Eight more properties are there to be run by hand, two with a configuration of
their own. Each ends in a violation, and each shows one thing described below.

| Configuration | Module | Property |
|---|---|---|
| `RunLoop.cfg` with this property alone | `MCRunLoop` | `NothingLeftBehind` |
| `RunLoop.cfg` with this property alone | `MCRunLoop` | `WrapperStateIsNotFreed` |
| `SyncCalls.cfg` | `MCSyncCalls` | `ThreadIndexNamesThread` |
| `FuncBinding.cfg` with this property alone | `MCFuncBinding` | `IndexFindsItsTarget` |
| `DetachDeep.cfg` | `MCDetach` | `StackStaysInBounds` |
| `Detach.cfg` with this property alone | `MCDetach` | `NoKeyIsLost` |
| `LuaGC.cfg` with this property alone | `MCLuaGC` | `WeakKeysKeepEntries` |
| `LuaCalls.cfg` with this property alone | `MCLuaCalls` | `NormalMeansRunning` |

Deadlock is checked where the system cannot stop. `UserdataRefs` may stop
after close, `RunLoop` when every execution of the instance is over, `Detach`
when `$detach` has returned, the machine when the host's scripts are done, a
table's program when it is over, and `LuaGC` when the state is closed.

`PushReleasesItsRefs` is stated for graphs that nest no object, and
`PushedImageIsIsomorphic` for these and for trees without Lua values; the run
`push_nested` shows why.

## Fairness

- `UserdataRefs!Fairness`: once `close` was called, every block left is
  finalized or swept. `lua_close` runs all finalizers and frees all blocks
  before it returns. Without close nothing is assumed: the collector need
  never run.
- `RunLoop!Fairness`: weak fairness of each execution's turns. The event loop
  runs every microtask (the handlers of a request among them) and immediate that is
  due, in order; the remaining assumption, that promises and callbacks a script waits for settle, is the
  script's own. It is needed: with a promise that never settles `run` awaits
  for ever. Starting an execution and collecting a coroutine are not fair.
- `LuaVM`: weak fairness of `Next`: the machine executes the next instruction.
- `PushTable` and `Detach` need none. Each is one synchronous call, and
  `PushMakesProgress` and `DetachMakesProgress` bound it with a variant
  instead.

## What is proved

The modules named `...Proofs` are checked by TLAPS without exceptions. The
constants are arbitrary except for the assumptions the modules name: sets of
values of different kinds are disjoint (`Objects` and `Primitives`, tables and
other Lua values), the constants that stand for nothing (`NoObject`, `NoTask`,
`Nil`) are not among the values they stand apart from, `Userdata` is finite
(the memory is), a table has one entry per key, `"__proto__"`, `"length"` and the
array indices are different property names, indices and lengths are naturals, the bounds are naturals, and the
numbers of `LuaTable` are integers a double holds. The
bounds of the actions only remove steps.

**The reference table** (`UserdataRefsProofs`, the lemmas of its first part). `TableInv` is kept by
`Ref`, `RefThrows` and `Unref` of a tracked index. The interesting part is
`IndexSpace`: bound and available indices are exactly 1..n, each once. It is
why `size + 1` is unused whenever no index is available (`NextIndexUnused`),
which the code relies on without saying so.

**Userdata** (`UserdataRefsProofs`). `HolderReadsItsObject` is not inductive:
an index in a userdata stays right only if the last `unref` comes from the
last holder, which needs the counts to be exact, which in turn needs the map
and the tracker to agree about every object's index. `IInv` conjoins these.

| Theorem | Result |
|---|---|
| `Safety` | `Spec => []IInv` |
| `HoldersNeverDangle` | every userdata reads back its own object, counts are exact |
| `IndicesAreFresh` | the next index is unused, and indices are partitioned |
| `FinalizersFindTheirEntries` | a finalizer takes neither early return of `unref` |
| `LastHolderReleases` | a value leaves the map only in the step that kills its last holder |
| `Refinement` | `Spec => ImplementsPins`, step by step under the mapping of `Pins` |

**Executions** (`RunLoopProofs`). The saved index of an execution is an index
into a stack others change. It stays right because coroutines are only ever
removed from above all the other ones, and that holds because executions are
nested: one that is not on top awaits the next (`NestedInOrder`), and only a
running callback awaits (`ChildIsAwaited`). `RunInv` conjoins these with the
exact contents of the stack (`OnlyActiveThreadsOnStack`), what the collector
may have taken (`FreedAreUnanchored`) and the results. `RemoveThreadEffect`
says what `lua_remove` leaves, and `EndKeeps` treats `Resolve` and `Reject`
at once.

That a script gets the outcome of the call it made needs an invariant of its own,
since the callback's promise and the variables of `begin` change in different turns:
`RequestKeepsOutcome` says that the variables are untouched until `ready` is fulfilled
and hold the outcome of this call afterwards. It is inductive next to `RunInv`: no
step of another execution changes what a waiting one has (`TurnTouchesNoOther`), and
the promise, once settled, stays as it is until the script goes on.

| Theorem | Result |
|---|---|
| `RunSafety` | `Spec => []RunInv` |
| `IndexStaysRight` | `threadIndex` names the execution's own coroutine while it is active |
| `ResumedThreadsLive` | no coroutine that `run` will resume is freed |
| `EndedThreadsAreReleased` | an execution that is over anchors no coroutine |
| `FirstResultIsRight` | `doString` resolves to the first value of its own script |
| `RequestsKeepOutcomes` | `Spec => []RequestKeepsOutcome` |
| `OutcomeReachesLua` | a script goes on after a bound call only when the handlers have run, with the outcome of this call |

**Wrappers and the registry** (`LuaRegistryProofs`, lemmas; part 1 of `BindingProofs`). A reference is fresh only if
`lauxlib.c`'s free list, a list threaded through the registry's own slots, is
well formed. Following it would be induction over data; instead the invariant
`FreeListIsList` gives every free slot a rank, its distance from the end: a slot
of rank 0 ends the list and any other one points to the slot one below. Ranks
are distinct, so `luaL_unref` puts a new highest one in front, and `luaL_ref`
takes the highest away. When the list is empty no slot holds a link, and
`lua_objlen`, which may answer any border, names one outside all slots in use.
That the list also ends within the bound and loses no slot (`FreeListIsSound`) is
counting without induction over the list: the ranks of its slots are the numbers
from 0 up (`RanksHaveNoGaps`), and the n-th link meets the slot n ranks below
the head (`ChainIsWalk`), so as many links as there are slots meet them all.

| Theorem | Result |
|---|---|
| `WrapperSafety` | `Spec => []IInv` |
| `WrappersReadTheirValues` | every slot a live handle keeps holds the handle's value |
| `OneWrapper` | `pointerRefs` names exactly the live wrappers, one for each value |
| `TablesAreAnchored` | a table in the registry has a live wrapper |
| `FreshReferences` | `luaL_ref` never names a slot that holds a value |
| `NothingIsLost` | the free list and the values account for every slot ever used |

**Copying objects** (`PushTableProofs`). `Images` is about graphs of any depth
without induction over them: every table, complete or not, has the images of the
fields it has (`ImageSoFar`), every active call has set the fields before its
`next` and fills a table of its own (`CallFills`), and each waits for the one
above it, which copies the object of its next field (`CallsNest`). This much
every push keeps as long as what it reads back from the registry is right. It
is for two kinds of graphs, and the proof shows why these:

- in a tree no object is met twice, so `options.refs` is never asked for one.
  `VisitsOnce` says that every table but the first is the copy of an object in a
  place of its own, a field that was set or that an active call is about to set
  (`PlacedIn`). The second conjunct of `Tree` is well-foundedness in
  the form the proof needs it: the objects copied so far cannot all be nested
  in one another (`NotVisited`);
- a flat object is pushed by a single call, so that the `finally` block runs once
  and its slot, which no wrapper has, is still its own when a field that refers to
  the object reads it (`FlatRegistry`, `TableAnchored`). The fold over
  `options.refs` is then one `luaL_unref` (`ReleaseOne`).

For other graphs the property is false, as `push_nested` shows. A tree that holds
a `LuaTable` is not covered either: the pushes of nested objects before it may have
put another table in the wrapper's slot. TLC found such a tree when the
inductive invariant was first checked, and the claim was narrowed to trees without
Lua values.

| Theorem | Result |
|---|---|
| `PushSafety` | `Spec => []IInv` |
| `ImagesAreIsomorphic` | flat objects and trees without Lua values are copied faithfully |
| `PushesReleaseTheirRefs` | pushing flat objects disturbs no wrapper and gives back every reference |

**JS functions in Lua** (part 2 of `BindingProofs`). `RedirectsAreOwned` needs to know
that a finalizer cannot meet an entry that was made for another pair at the same
addresses. That follows from what the mark phase leaves: a closure the script
can reach keeps its userdata alive (`RootedBlocksStay`), so the two are condemned
together and the entry is deleted before the userdata is freed.

| Theorem | Result |
|---|---|
| `BindingSafety` | `BindSpec => []BindIInv` |
| `RedirectsHaveOwners` | an entry of `indexMap` has a userdata whose finalizer will delete it |
| `ReachableClosuresStay` | no closure the script can reach is freed, nor is its upvalue |

**Detached tables** (`DetachProofs`). Both recursions are
proved correct without induction over the graph: the invariant `DetachInv` says
of every active call what it has done (`Mirrors` for the entries it has seen,
`PropsMirror` for the first `next - 1` keys), that the call above it makes the
Map it waits for (`Awaited`, `Waits`), and that every Map that no call is filling
is complete (`Complete`, `ResultsComplete`). A call that returns early because
of a cycle is covered by the same conjuncts: it gives a reference to a Map that
is not complete yet, which only its identity matters for. The positions of the
Lua stack are part of it: the k-th call finds its table, key and value at `Base(k)`
and the two above it whatever the calls above have pushed, which is why
`index` may be computed once (table.ts:90); `RemainingIsLeft` cites it to show that
`lua_next` reads the table the frame was made for. For the properties, `PropsMirror`
says of the keys assigned so far which of them lasts: the last of its name, unless it
is `"__proto__"`, the `"length"` of an array, or an element a later `"length"` cut
off. `OwnAdd`, `ProtoAdd` and `LengthAdd` treat the three kinds of assignment, and
`ThrowExplained` the errors. Each operation is a lemma about the
state in parameters (`EntryFound`, `NestedCall`, `ValueConverted`, `NestedReturn`,
`MapEntered`, `ResultStored`, `CallReturns`), and the step of each action cites
them. The theorems hold for every graph, finite or not; that the copy ends is
`DetachMakesProgress`, which stays with TLC.

| Theorem | Result |
|---|---|
| `DetachSafety` | `Spec => []DetachInv` |
| `MapsMirrorTables` | the Maps form the graph of the tables, and the stack is as before |
| `ResultsMirrorTheMaps` | objects and arrays have the entries of the Maps as properties, whatever cycles the Maps form; only `"__proto__"` and the `"length"` of an array lose keys or throw, and the names of a Map's keys differ where the type was detected |

**The collector** (`LuaGCProofs`). Its correctness has two halves that need each
other. A sweep frees what has the white of the last cycle, so nothing in use
may refer to such an object; and that holds after the flip of the whites only
because, while marking, no object the collector has finished with refers to
one it has not met. `GCInv` says both of every state before `lua_close`:

- `WellFormed`: objects have the fields of their types (`Shapes`); no object in
  use, and no root, refers to one that is free or was found dead
  (`GraphIsLive`); every open upvalue is in the stack of a thread that exists
  (`OpenUpvals`); threads that wait have the coroutine they resumed in their
  last slot, which no closure captures (`Chain`); threads and open upvalues are
  never black (`NeverBlack`), since their values change without a barrier.
- `Phase`: what the colours may be in each phase. While marking (`Marking`)
  nothing has the other white, the main thread and the registry are marked, a
  black object has no white field (`Strong`; userdata that still wait for
  their finalizers are excused), and an object that can be traversed is gray
  exactly if it is in one of the three lists. While sweeping (`Swept`) all that
  has not the current white is still to be swept, with the open upvalues of a
  thread going when the thread does. Otherwise all is white (`AllWhite`).

Each operation of the collector is a lemma about the global state in parameters
(`markobject` of any values, traversing one object, the parts of `atomic`,
freeing a set of objects, closing the upvalues of a set of threads), each store
a lemma about the barrier it uses, and every action of `program` one that cites
them. `traverseall` marks a closed set of objects, which is why nothing needs
an induction over the marking. The proof assumes `TypesAssumption` and
`ArenasAssumption`: the heap a program begins with is well formed. It holds for
every number of objects and every bound, and for programs that mix all
operations, which the arenas of the run keep apart.

| Theorem | Result |
|---|---|
| `CollectorInvariant` | `Spec => []GCInv` |
| `NoReachableObjectIsFreed` | no object the program can reach is freed, before the state is closed |
| `BlackIsMarkedThrough` | the tricolour invariant, userdata that still wait for their finalizers excepted |
| `CollectorAssertionsHold` | the assertions hold until the state is closed |
| `FinalizersAreCalledOnce` | no finalizer runs twice, and no userdata is freed before the finalizer it is owed has run, `lua_close` included |

`lua_close` frees everything without a sweep, so `GCInv` does not describe it.
`FinalizersRunOnce` speaks of that step too and has an invariant of its own, which
needs nothing of `GCInv`. `FinalizersKept` keeps the books of the userdata: in the two
lists together each is at most once and none is free, and one that is in use and in
neither was finalized (`Lists`); a finalizer was called exactly if it is owed and its
userdata no longer waits for it (`Calls`); and an object found dead is no userdata that
still may have a finalizer to run (`DeadAreDone`), which is what the sweep, the only
one to free but for the end of `lua_close`, relies on. The steps of the program change
none of this, except that they make userdata (`Quiet`); marking makes nothing white
(`Marks`); the atomic phase moves the dead userdata and marks them before it flips the
whites. Trying to prove it showed a hole in the property as it had first been
stated: with two userdata, a finalizer can remove the metatable of the other before
its turn, and that one's finalizer is rightly never called. The run now has such an
arena.

**Lua tables** (`LuaTableProofs`). That a table is a map needs every detail of its
nodes, for any number of them and any hashes. `IInv` says of the table `Kept`: it is
`WellFormed`, no rehash lacked room, and every key has the value the program
assigned (`Remembers`); and `TravInv` of the traversal. Their parts are:

- `Chained`: chains end, no two meet, and no node that never held a key is in one. A
  chain ends if the nodes can be ranked so that each link goes to a lower rank
  (`Acyclic`); this says without induction what `inchain` needs to find its answer
  (`LookFinds`), and each way of linking a node comes with the ranks that show it.
- `Placed`: every key is in the chain of its main position, and what is there is in its
  own: the "main invariant" of the comment in `ltable.c`. It is why `newkey` may
  move a colliding node that is not in its own: no key's chain begins there.
- `Keyed`: a key is in one place only, except that dead keys with the address of a
  live one may come after it in the chain. `findindex` compares addresses and takes
  the first, so this order is what makes a traversal go on from the right node.
- `Spare`: every node from `lastfree` on has a key, so that `getfreepos` looks at each
  node once and `dummynode` is never written.
- `Visiting`: the key at hand has an index; of the keys a traversal owes, which are
  those it began with that still have their values, each has an index after it, and
  those visited do not. Assignments to existing keys, removals and dead keys keep the
  order of the nodes; an assignment to a new key ends the traversal.

`rehash` is correct by counting. `nums` counts the integer keys by their powers of two,
so that the sum up to a power is the number of keys up to it (`CandidatesAre`, `InUse`);
the nodes get as many places as keys are left of those `totaluse` counts
(`SizesFit`), so that `resize` finds a free node for each one it inserts again
(`Roomy`, `RoomyFits`). No key asks for another rehash, and only therefore may the
recursion of `luaH_set`, `newkey` and `rehash` be an operator that is not recursive.
A recursive function is proved to satisfy its equation by showing that some function
does (`TwotoRecursion`, `RecursionExists`, `LookExists`, and `TailRecursion` for the two
searches, whose interval shrinks). What it computes then follows by induction over a
set of numbers (`Induction`), since one over a predicate is out of the prover's reach.

The theorems have one hypothesis besides the assumptions: `"nodes" \notin Failures`, the
allocation of new nodes does not fail. Without it they are false, as the run
`lua_tables_memory` shows (`ltable.c:303`); an allocation of the array part may fail at
any time. `KeysAssumption` says that strings, objects and numbers differ, and
`SizesAssumption` that `MAX_INT` is larger than any array part and that no table has all
integers up to it: there is no memory for them, and `unbound_search` would not find
a border otherwise but count on for ever. It also bounds a table by `MAXASIZE` elements
and slots, so that no hash part is a "table overflow" (ltable.c:281) and `numusearray`
counts every slot (`SizesAre`).

| Theorem | Result |
|---|---|
| `TableInvariant` | `Spec => []IInv` |
| `TableTypeOK` | the type invariant |
| `TableIsMap` | every key reads back the value assigned last, through collisions, moves, rehashes and dead keys |
| `MainPositions` | what is in the main position of a key is in its own |
| `RehashIsEnough` | a rehash makes room for all elements and the new key |
| `RehashHalfFull` | and chooses the largest array part of which more than half is in use |
| `TraversalIsComplete` | a traversal visits what keeps a value from beginning to end, and nothing twice |
| `LengthIsBorder` | the length is a border, whichever search finds it |

The runs check the properties named in the theorems; the other conjuncts of
the inductive invariants, type invariants among them, are proved and were
checked by TLC first, with the same configurations.

## What the model shows about the code

The passing runs and the proofs say that the reference table is right, that
serialized executions keep their indices and results, that flat objects,
trees without Lua values, and all tables that fit on the stack are copied faithfully, that the
compiler and the machine give programs their meaning within the families
checked, that a Lua table is a map that is traversed completely as long as its nodes can be
allocated, that the collector frees nothing a program can reach, and that errors,
coroutines and timeouts leave the interpreter
consistent. Two runs end in a violation, each of something the repository says
of itself:

1. `push_nested` (`thread.ts:186`): every level of `pushTable` unrefs all of
   `options.refs`, so an object inside another is unreffed twice. The free
   list becomes cyclic, and a later push puts its table into the slot of a live
   wrapper. The same
   premature unref makes `{child: {}, self: obj}` read a reused slot.
2. `lua_tables_memory` (`ltable.c:303`): `resize` grows the array part and only
   then allocates the nodes. If that fails and the program catches the error, as
   it can under `setMemoryMax`, integer keys still in the nodes read nil and
   `pairs` visits them for ever.

The properties to be run by hand show:

3. `NothingLeftBehind` (`lua.ts:219`): the results moved to the main stack are
   never popped, against README.md:17, "without memory leaks".
4. `WrapperStateIsNotFreed` (`thread.ts:317`): wrappers made while the script ran
   remember its coroutine, which is collected afterwards (see lua.ts:217-218
   and engine.test.js:190).
5. `ThreadIndexNamesThread` with `SyncCalls.cfg` (`thread.ts:255`): the wrapper of a Lua function ends with a
   pop of whatever is on top of the main stack.
6. `IndexFindsItsTarget` (`func-manager.ts:38`): a finalizer deletes the entry
   of an address that has a new owner.
7. `StackStaysInBounds` with `DetachDeep.cfg` (`table.ts:100`): a table nested 23 deep is pushed past the
   end of a Lua stack that nothing has grown.
8. `NoKeyIsLost` with `Detach.cfg` (`map-transform.ts:54-57`): of a table with the key
   `"__proto__"`, or an array with `"length"`, the object `mapTransform` chooses has no
   such property; the first changes what it inherits from, the second may remove
   elements, and both may throw.
9. `WeakKeysKeepEntries` (`lgc.c:351`): `cleartable` removes from a table with
   weak keys an entry whose value is a userdata that is being finalized
   although the key is alive; the manual says such a table "prevents the
   collection of its values".
10. `NormalMeansRunning` (`thread.ts:405`, `lbaselib.c:484`): when an inherited
   hook raises the timeout's error on a thread other than the one that runs,
   a coroutine that had resumed another one may report "normal" for ever.

Further observations made while translating, without a run:

- `Wrappers`: reading a wrapped function again takes a registry reference that
  is forgotten (`thread.ts:222`), which is why `TablesAnchoredByWrappers`
  speaks of tables only.
- `LuaGC`: the assertion at `lgc.c:664` fails when a finalizer changes the
  metatable or environment of a userdata that itself awaits its finalizer;
  `AssertionsHold` leaves this one out. A userdata without `__gc` that another
  one's finalizer revives is already marked as finalized, so a `__gc` it is
  given later never runs. `lua_close` between two steps of the marking makes a
  userdata white that black objects refer to; the properties about reachable
  objects, and the assertions, are claimed until then. A run with an arena of a
  table that keeps such a userdata finds the assertion of `luaC_barrierf` about
  dead objects violated: a later finalizer reads the userdata, found dead in the
  meantime, and changes its environment. It takes a step of the collector while
  `lua_close` runs the finalizers.
- `LuaCode`: the batch number after a `SETLIST` is a raw word of the code, and
  `getjumpcontrol` (`lcode.c:109`) looks at the word before a jump: for
  constructors of 26901 to 26950 items the number looks like a test.
- `LuaCheck`: for `(a or b)()` the name given in the error message is that of
  the last variable loaded into the register.
- `LuaLex`: `check_next` (`llex.c:163`) uses `strchr`, which finds the NUL at the
  end of the set, so a NUL character is taken for one of its members.
- `LuaVM`: a handler of `xpcall` that the timeout itself has called runs with the
  hook disabled, and a coroutine made before a timed execution is not limited by
  it. `ltable.c:14-16` says that half of the array part's slots are in use at
  least; the code asks for more than half (`ArrayIsHalfFull`).

## What is only model-checked, and what is not modelled

Model-checked only: `CloseReleasesAll` and `EveryRunEnds`, because liveness is
out of the prover's reach; `LuaTable` when new nodes cannot be allocated; everything about
the modules of the interpreter other than `LuaGC` and `LuaTable`.
`PushMakesProgress` and `DetachMakesProgress` sum over a graph, and `ReleaseRefs` of
`PushTable`, for an object that nests others, is a fold over any number of
references: both would need induction over data. The parser and the machine are
built from recursive operators.

Not modelled, on the JavaScript side:

- executions that are not serialized, and `close` while one is active: the
  source asks callers not to;
- bound functions called in coroutines that Lua code made itself: Lua's own
  `coroutine.resume` gets their yields;
- the second `$destroy` of a function wrapper, and use of a `LuaTable` after
  `close`; `setTimeout` while a hook is installed, and the function table
  entries it leaves;
- positions on the Lua stack inside `pushValue` (`Detach` has those of
  `$detach`);
- a JS Map that Lua holds as a userdata, which `mapTransform` would take for a
  detached table; function values in a detached table, whose wrappers are
  those of `Wrappers`;
- argument and error conversion of calls, field access through proxies; the
  accounting of the allocator; components marked so in the tables above.

Not modelled, of the interpreter:

- numbers that are not integers; `strcoll` is the order of the character codes,
  as in the C locale; zero characters in strings that a pattern or a format meets;
- the wording and position of error messages, except where they are a
  program's result; `linedefined` and `source` in dumped chunks;
- the bytes of a dumped item, cuts inside one included; what `correctstack` does to
  the pointers into a stack that moves, since slots are positions;
- call, return and line hooks; `lua_getinfo` and the rest of `ldblib.c`;
- upvalues of C closures, light userdata, metatables of types other than tables
  and strings;
- when the collector takes a step (thresholds and debt), the sizes of blocks,
  the array parts of weak tables, and the string table's hashing and resizing;
- a rehash inside a rehash, which `RehashMakesRoom` shows is never needed; tables of
  more than `MAXASIZE` elements ("table overflow", and slots `numusearray` leaves out);
- the libraries other than base, string and table, and the stand-alone programs.

## Plan

1. The traced allocator with 32-bit sizes, and an abstract accounting
   specification it implements.
2. `close` with wrappers and `LuaTable`s that are still in use.
3. `pushValue` in two steps, `ref` and `lua_newuserdata`, with finalizers in
   between, shown to implement `UserdataRefs`.
4. Proofs: `LuaTable` with nodes that cannot be allocated, for which
   `GetReturnsLastSet` has to be stated of the states before the failure.
