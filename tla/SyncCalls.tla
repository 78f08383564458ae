----------------------------- MODULE SyncCalls -----------------------------
(***************************************************************************)
(* Calls from JavaScript of a Lua function that was read from the main     *)
(* state, beside the executions of RunLoop.  The wrapper that getFunction  *)
(* returns (src/src/thread.ts) pushes a coroutine on the main stack for    *)
(* the call and pops the top of that stack when the call is over, so what  *)
(* JS code pushed there while the Lua function ran gets in its way.  The   *)
(* call is synchronous: it is one step.                                    *)
(***************************************************************************)
EXTENDS RunLoop

\* The stack entry of the coroutine a call makes.
CallEntry == Entry(NoTask, 2)

InCall == Append(gstack, CallEntry)

\* The Lua function calls a JS function that starts an execution, which it
\* does not wait for: the coroutine of t is on top when the wrapper pops.
CallStartsRun(t) ==
  /\ \A s \in Tasks : ~Active(s)
  /\ run[t] = Idle
  /\ Slice(t, [Idle EXCEPT !.index = Len(InCall) + 1])
  /\ gstack' = Front(Append(InCall, Entry(t, 0)))
  /\ UNCHANGED <<child, received, resolved, freed>>

\* The Lua function calls a JS function that calls doStringSync.
CallRunsStringSync ==
  /\ Cardinality(SyncEntries) < MaxSync
  /\ gstack' = Front(Append(InCall, Entry(NoTask, 1)))
  /\ UNCHANGED <<run, promise, child, request, received, resolved, wrappers, freed>>

CallsNext == Next \/ CallRunsStringSync \/ \E t \in Tasks : CallStartsRun(t)

CallsSpec == Init /\ [][CallsNext]_vars
=============================================================================
