------------------------------ MODULE RunLoop ------------------------------
(***************************************************************************)
(* Asynchronous executions: Lua.callByteCode (src/src/lua.ts), the resume  *)
(* loop of LuaThread.run (src/src/thread.ts) and the functions bound with  *)
(* Lua.bindAsync.  Each execution runs a coroutine of its own, which the   *)
(* stack of the main state anchors until the execution is over; when the   *)
(* coroutine yields, the event loop runs other JavaScript.                 *)
(*                                                                         *)
(* One action is what runs between two turns of the event loop.  The       *)
(* README of the source asks for serialized executions, so a new one       *)
(* starts when none is active, or from inside a bound callback that awaits *)
(* it before it settles.                                                   *)
(***************************************************************************)
EXTENDS Naturals, Sequences, FiniteSets, SequencesExt

CONSTANTS
  Tasks,       \* executions, each with its coroutine
  NoTask,
  MaxYields,   \* bound on the yields of one script
  MaxResults,  \* bound on the values a script returns
  MaxSync      \* bound on the synchronous executions

ASSUME NoTaskAssumption == NoTask \notin Tasks
ASSUME RunBoundsAssumption ==
  MaxYields \in Nat /\ MaxResults \in Nat /\ MaxSync \in Nat

VARIABLES
  gstack,     \* the main state's stack: entries [by, k]; k = 0 is the coroutine
              \* itself, k > 0 the k-th result of execution by
  run,        \* task -> [pc, index, yields, results]
  promise,    \* task -> state of the promise it awaits, or of its callback's
  request,    \* task -> what its last call of a bound function shares with the
              \* handlers of that promise
  child,      \* task -> the execution its callback awaits
  received,   \* history: what the last bound call returned to the script
  resolved,   \* task -> the entry its promise was resolved with
  wrappers,   \* the coroutines JS wrappers of Lua values were made on
  freed       \* the coroutines the Lua collector has freed

vars == <<gstack, run, promise, request, child, received, resolved, wrappers, freed>>

Entry(t, k) == [by |-> t, k |-> k]

Undefined == Entry(NoTask, 0)

\* The variables of begin and the state of its promise ready.  A result or a
\* failure is the number of the call it belongs to, 0 is undefined.
NewRequest == [ready |-> FALSE, rejected |-> FALSE, result |-> 0, failure |-> 0]

NoAnswer == [is |-> "none", of |-> 0]

Idle == [pc |-> "idle", index |-> 0, yields |-> 0, results |-> 0]

Init ==
  /\ gstack = <<>>
  /\ run = [t \in Tasks |-> Idle]
  /\ promise = [t \in Tasks |-> "none"]
  /\ child = [t \in Tasks |-> NoTask]
  /\ request = [t \in Tasks |-> NewRequest]
  /\ received = [t \in Tasks |-> NoAnswer]
  /\ resolved = [t \in Tasks |-> Undefined]
  /\ wrappers = {}
  /\ freed = {}

Over(t) == run[t].pc \in {"resolved", "rejected"}

Active(t) == run[t].pc # "idle" /\ ~Over(t)

-----------------------------------------------------------------------------
(***************************************************************************)
(* One slice of a coroutine: lua_resume runs it to its next yield, or to   *)
(* its end, and run looks at what it left.  r is the execution's record,   *)
(* which a starting execution has just been given.                         *)
(***************************************************************************)

\* The script may hand Lua functions and tables to JS functions it calls, and
\* returns n values: getValue makes wrappers that remember this coroutine.
MayWrap(t) == wrappers' \in {wrappers, wrappers \cup {t}}

\* An outcome of a slice that is no call of a bound function.
NoCall(t, promised) ==
  /\ promise' = [promise EXCEPT ![t] = promised]
  /\ UNCHANGED request

\* A yield with no value or one that is not a promise: setImmediate.
YieldTick(t, r) ==
  /\ r.yields < MaxYields
  /\ run' = [run EXCEPT ![t] = [r EXCEPT !.pc = "tick", !.yields = @ + 1]]
  /\ NoCall(t, "none")
  /\ MayWrap(t)

\* A yield of a promise that some JS function made.
YieldPromise(t, r) ==
  /\ r.yields < MaxYields
  /\ run' = [run EXCEPT ![t] = [r EXCEPT !.pc = "promise", !.yields = @ + 1]]
  /\ NoCall(t, "running")
  /\ MayWrap(t)

\* Mutant of CallAsync: begin's variables are declared outside it, in bindAsync,
\* so that a call finds what the one before it left there.
CallAsyncShared(t, r) ==
  /\ r.yields < MaxYields
  /\ run' = [run EXCEPT ![t] = [r EXCEPT !.pc = "request", !.yields = @ + 1]]
  /\ promise' = [promise EXCEPT ![t] = "called"]
  /\ request' = [request EXCEPT ![t].ready = FALSE]
  /\ MayWrap(t)

\* A call of a bound function: begin() makes the request, whose callback runs
\* in a later microtask, and the wrapper yields its ready promise.
CallAsync(t, r) ==
  /\ r.yields < MaxYields
  /\ run' = [run EXCEPT ![t] = [r EXCEPT !.pc = "request", !.yields = @ + 1]]
  /\ promise' = [promise EXCEPT ![t] = "called"]
  /\ request' = [request EXCEPT ![t] = NewRequest]
  /\ MayWrap(t)

\* The script returns n values, which stay on the coroutine's stack;
\* getStackValues converts each.
Return(t, r) ==
  \E n \in 0 .. MaxResults :
    /\ run' = [run EXCEPT ![t] = [r EXCEPT !.pc = "returned", !.results = n]]
    /\ NoCall(t, "none")
    /\ MayWrap(t)

\* The script raises an error that nothing catches: assertOk throws.
RaiseError(t, r) ==
  /\ run' = [run EXCEPT ![t] = [r EXCEPT !.pc = "failed"]]
  /\ NoCall(t, "none")
  /\ MayWrap(t)

Slice(t, r) ==
  YieldTick(t, r) \/ YieldPromise(t, r) \/ CallAsync(t, r) \/ Return(t, r) \/ RaiseError(t, r)

-----------------------------------------------------------------------------
\* Mutant of Begin: threadIndex is taken before the coroutine is pushed.
BeginIndexEarly(t) ==
  /\ run[t] = Idle
  /\ gstack' = Append(gstack, Entry(t, 0))
  /\ Slice(t, [Idle EXCEPT !.index = Len(gstack)])
  /\ UNCHANGED <<received, resolved, freed>>

\* callByteCode up to its first await: newThread pushes the coroutine, the
\* loader compiles the script, and run resumes it for the first time.
Begin(t) ==
  /\ run[t] = Idle
  /\ gstack' = Append(gstack, Entry(t, 0))
  /\ Slice(t, [Idle EXCEPT !.index = Len(gstack) + 1])
  /\ UNCHANGED <<received, resolved, freed>>

\* The loader throws (a syntax error): the coroutine is removed again.
BeginFails(t) ==
  /\ run[t] = Idle
  /\ run' = [run EXCEPT ![t].pc = "rejected"]
  /\ UNCHANGED <<gstack, promise, request, received, resolved, wrappers, freed>>

\* doString or doFile is called while no execution is active.
DoString(t) ==
  /\ \A s \in Tasks : ~Active(s)
  /\ Begin(t) \/ BeginFails(t)
  /\ UNCHANGED child

\* The callback of p's request calls doString, and will await it.
CallbackDoesString(p, t) ==
  /\ run[p].pc = "request" /\ promise[p] = "running"
  /\ child[p] = NoTask
  /\ Begin(t) \/ BeginFails(t)
  /\ child' = [child EXCEPT ![p] = t]

\* The first then of the request's promise: the callback is called.
InvokeCallback(t) ==
  /\ run[t].pc = "request" /\ promise[t] = "called"
  /\ promise' = [promise EXCEPT ![t] = "running"]
  /\ UNCHANGED <<gstack, run, child, request, received, resolved, wrappers, freed>>

\* Mutant of Settle: a failing callback leaves its request pending.
SettleOnlyFulfilled(t) ==
  /\ promise[t] = "running"
  /\ \A s \in Tasks : child[t] = s => Over(s)
  /\ \E s \in {"fulfilled", "lost"} : promise' = [promise EXCEPT ![t] = s]
  /\ child' = [child EXCEPT ![t] = NoTask]
  /\ UNCHANGED <<gstack, run, request, received, resolved, wrappers, freed>>

\* The awaited promise settles; for a request, its callback has returned, thrown,
\* or settled the promise it returned.
Settle(t) ==
  /\ promise[t] = "running"
  /\ \A s \in Tasks : child[t] = s => Over(s)
  /\ \E s \in {"fulfilled", "rejected"} : promise' = [promise EXCEPT ![t] = s]
  /\ child' = [child EXCEPT ![t] = NoTask]
  /\ UNCHANGED <<gstack, run, request, received, resolved, wrappers, freed>>

Settled(t) == promise[t] \in {"fulfilled", "rejected"}

\* The handlers of the second then, in a microtask of their own: one of them
\* keeps what the callback came to, and when it returns ready is fulfilled.
KeepOutcome(t) ==
  /\ run[t].pc = "request" /\ Settled(t) /\ ~request[t].ready
  /\ request' = [request EXCEPT ![t] =
       IF promise[t] = "fulfilled" THEN [@ EXCEPT !.ready = TRUE, !.result = run[t].yields]
       ELSE [@ EXCEPT !.ready = TRUE, !.rejected = TRUE, !.failure = run[t].yields]]
  /\ UNCHANGED <<gstack, run, promise, child, received, resolved, wrappers, freed>>

\* The function of request[1], called by the script when it has been resumed.
Answer(q) ==
  IF q.rejected THEN [is |-> "error", of |-> q.failure] ELSE [is |-> "value", of |-> q.result]

AfterTick(t) ==
  /\ run[t].pc = "tick"
  /\ Slice(t, run[t])
  /\ UNCHANGED <<gstack, child, received, resolved, freed>>

\* await of a plain promise: the value is discarded, a rejection ends run.
AfterPromise(t) ==
  /\ run[t].pc = "promise"
  /\ \/ promise[t] = "fulfilled" /\ Slice(t, run[t])
     \/ /\ promise[t] = "rejected"
        /\ run' = [run EXCEPT ![t].pc = "failed"]
        /\ NoCall(t, "none")
        /\ UNCHANGED wrappers
  /\ UNCHANGED <<gstack, child, received, resolved, freed>>

\* Mutant of AfterRequest: run goes on without waiting for the promise.
AfterRequestUnsettled(t) ==
  /\ run[t].pc = "request"
  /\ received' = [received EXCEPT ![t] = Answer(request[t])]
  /\ Slice(t, run[t])
  /\ UNCHANGED <<gstack, child, resolved, freed>>

\* await of a request's ready promise, which never rejects: the coroutine is
\* resumed and calls request[1](), which returns the result or raises.
AfterRequest(t) ==
  /\ run[t].pc = "request" /\ request[t].ready
  /\ received' = [received EXCEPT ![t] = Answer(request[t])]
  /\ Slice(t, run[t])
  /\ UNCHANGED <<gstack, child, resolved, freed>>

-----------------------------------------------------------------------------
Results(t) == [k \in 1 .. run[t].results |-> Entry(t, k)]

\* Mutant of FirstResult: the + 1 is missing.
FirstResultOffByOne(s, n) == s[Len(s) - n]

\* getValue(getTop() - n + 1) on stack s.
FirstResult(s, n) == s[Len(s) - n + 1]

\* Mutant of RemoveThread: the top of the stack is popped instead.
RemoveTop(s, i) == Front(s)

\* global.remove(threadIndex), lua_remove.
RemoveThread(s, i) == RemoveAt(s, i)

\* run has returned: the values move to the main stack, the first of them is
\* read there, and the finally block removes the coroutine.
Resolve(t) ==
  /\ run[t].pc = "returned"
  /\ run' = [run EXCEPT ![t].pc = "resolved"]
  /\ resolved' =
       IF run[t].results = 0 THEN resolved
       ELSE [resolved EXCEPT ![t] = FirstResult(gstack \o Results(t), run[t].results)]
  /\ gstack' = RemoveThread(gstack \o Results(t), run[t].index)
  /\ UNCHANGED <<promise, child, request, received, wrappers, freed>>

Reject(t) ==
  /\ run[t].pc = "failed"
  /\ run' = [run EXCEPT ![t].pc = "rejected"]
  /\ gstack' = RemoveThread(gstack, run[t].index)
  /\ UNCHANGED <<promise, child, request, received, resolved, wrappers, freed>>

\* doStringSync between two turns: loadString, pcall; the result (or the error
\* message) stays on the main stack.
SyncEntries == {i \in DOMAIN gstack : gstack[i].by = NoTask}

DoStringSync ==
  /\ Cardinality(SyncEntries) < MaxSync
  /\ gstack' = Append(gstack, Entry(NoTask, 1))
  /\ UNCHANGED <<run, promise, child, request, received, resolved, wrappers, freed>>

\* The Lua collector frees a coroutine that nothing anchors.
Collect(t) ==
  /\ run[t].pc # "idle"
  /\ t \notin freed
  /\ Entry(t, 0) \notin Range(gstack)
  /\ freed' = freed \cup {t}
  /\ UNCHANGED <<gstack, run, promise, child, request, received, resolved, wrappers>>

\* The turns that carry an execution on.
Turn(t) ==
  \/ InvokeCallback(t) \/ Settle(t) \/ KeepOutcome(t)
  \/ AfterTick(t) \/ AfterPromise(t) \/ AfterRequest(t)
  \/ Resolve(t) \/ Reject(t)

Next ==
  \/ \E t \in Tasks : DoString(t) \/ Turn(t) \/ Collect(t)
  \/ \E p, t \in Tasks : CallbackDoesString(p, t)
  \/ DoStringSync

Spec == Init /\ [][Next]_vars

\* The event loop runs every microtask and immediate that is due, and the
\* callbacks and promises a script waits for settle.
Fairness == \A t \in Tasks : WF_vars(Turn(t))

FairSpec == Spec /\ Fairness

-----------------------------------------------------------------------------
(***************************************************************************)
(* Properties.                                                             *)
(***************************************************************************)
PCs == {"idle", "tick", "promise", "request", "returned", "failed", "resolved", "rejected"}

Entries == [by : Tasks \cup {NoTask}, k : Nat]

Requests ==
  [ready : BOOLEAN, rejected : BOOLEAN, result : 0 .. MaxYields, failure : 0 .. MaxYields]

Answers == [is : {"none", "value", "error"}, of : 0 .. MaxYields]

\* Type invariant: where each execution is in run (thread.ts:322-364), and what
\* begin has kept of its request (lua.ts:110-136).
RunTypeOK ==
  /\ gstack \in Seq(Entries)
  /\ run \in [Tasks -> [pc : PCs, index : Nat, yields : 0 .. MaxYields, results : 0 .. MaxResults]]
  /\ promise \in [Tasks -> {"none", "called", "running", "fulfilled", "rejected"}]
  /\ child \in [Tasks -> Tasks \cup {NoTask}]
  /\ request \in [Tasks -> Requests]
  /\ received \in [Tasks -> Answers]
  /\ resolved \in [Tasks -> Entries]
  /\ wrappers \subseteq Tasks
  /\ freed \subseteq Tasks

\* threadIndex (lua.ts:212), taken before the first await, still names the
\* execution's own coroutine whatever synchronous and nested executions did to
\* the stack in between, so that the finally block "pops the [th]read" it means
\* to (the comment at lua.ts:228).
ThreadIndexNamesThread ==
  \A t \in Tasks : Active(t) =>
    run[t].index \in DOMAIN gstack /\ gstack[run[t].index] = Entry(t, 0)

\* A coroutine is not freed while run holds its address across an await.
ActiveThreadIsNotFreed == \A t \in Tasks : Active(t) => t \notin freed

\* An execution that is over no longer anchors its coroutine, so that the
\* collector can take it (the finally block, lua.ts:226-229).
NoThreadLeftBehind ==
  \A t \in Tasks : Over(t) => Entry(t, 0) \notin Range(gstack)

\* doString resolves to the first value its own script returned, or to
\* undefined (lua.ts:219-225), however many values others left on the stack.
ResolvesToItsFirstResult ==
  \A t \in Tasks : run[t].pc = "resolved" =>
    resolved[t] = IF run[t].results = 0 THEN Undefined ELSE Entry(t, 1)

\* What the callback of the last bound call came to, by its own promise.
CallbackOutcome(t) ==
  [is |-> IF promise[t] = "fulfilled" THEN "value" ELSE "error", of |-> run[t].yields]

\* What a bound call gives its script is what the callback of this call, and of
\* no earlier one, came to, a rejection included (the comment at lua.ts:129).
\* The script and the handlers of the callback's promise share only the variables
\* of begin: the handlers run after the callback has settled and before the
\* script goes on, which never ends with the answer unread.
CallbackOutcomeReachesLua ==
  [][\A t \in Tasks : run[t].pc = "request" /\ run'[t] # run[t] =>
       Settled(t) /\ received'[t] = CallbackOutcome(t)]_vars

\* The parts of the inductive invariant.  A coroutine is on the main stack
\* exactly while its execution is active, at the index the execution knows.
OnlyActiveThreadsOnStack ==
  \A i \in DOMAIN gstack : gstack[i].k = 0 =>
    /\ gstack[i].by \in Tasks
    /\ Active(gstack[i].by)
    /\ run[gstack[i].by].index = i

\* Only a callback that is running awaits an execution.
ChildIsAwaited ==
  \A t \in Tasks : child[t] # NoTask => run[t].pc = "request" /\ promise[t] = "running"

\* Executions are nested: one that is not on top of the others awaits the next.
\* It is why a coroutine is only ever removed from above all the other ones, so
\* that their indices stay right.
NestedInOrder ==
  \A s, t \in Tasks :
    Active(s) /\ Active(t) /\ run[s].index < run[t].index =>
      /\ child[s] \in Tasks
      /\ Active(child[s])
      /\ run[child[s]].index <= run[t].index

FreedAreUnanchored ==
  \A t \in freed : run[t].pc # "idle" /\ Entry(t, 0) \notin Range(gstack)

UnresolvedAreUndefined ==
  \A t \in Tasks : run[t].pc # "resolved" => resolved[t] = Undefined

RunInv ==
  /\ RunTypeOK
  /\ ThreadIndexNamesThread
  /\ OnlyActiveThreadsOnStack
  /\ ChildIsAwaited
  /\ NestedInOrder
  /\ FreedAreUnanchored
  /\ UnresolvedAreUndefined
  /\ ResolvesToItsFirstResult

\* What begin's variables hold while a script waits for the answer of its call:
\* nothing, until ready is fulfilled, and then what the callback came to.
RequestKeepsOutcome ==
  \A t \in Tasks : run[t].pc = "request" =>
    IF request[t].ready THEN Settled(t) /\ Answer(request[t]) = CallbackOutcome(t)
    ELSE request[t] = NewRequest

\* Every execution that was started resolves or rejects.
EveryRunEnds == \A t \in Tasks : Active(t) ~> Over(t)

\* "Interop Lua and JS without memory leaks" (README.md:17): nothing an
\* execution pushed on the main stack is left there, anchored for the life of
\* the state, when it is over.
NothingLeftBehind ==
  \A t \in Tasks : Over(t) => \A i \in DOMAIN gstack : gstack[i].by # t

\* No wrapper refers to a coroutine that has been freed: values are moved to
\* the main state "to avoid referencing the thread values which will be cleaned
\* up" (lua.ts:217-218), and "scheduled lua calls should succeed"
\* (engine.test.js:190) after the doString that made them is over.
WrapperStateIsNotFreed == wrappers \cap freed = {}
=============================================================================
