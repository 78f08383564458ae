--------------------------- MODULE RunLoopProofs ---------------------------
(***************************************************************************)
(* Safety of RunLoop for any number of executions, yields and results.     *)
(***************************************************************************)
EXTENDS RunLoop, SequenceTheorems, TLAPS

\* What lua_remove leaves: the elements above the removed one move down.
LEMMA RemoveThreadEffect ==
  ASSUME NEW S, NEW s \in Seq(S), NEW i \in 1 .. Len(s)
  PROVE  /\ RemoveThread(s, i) \in Seq(S)
         /\ Len(RemoveThread(s, i)) = Len(s) - 1
         /\ \A j \in 1 .. Len(s) - 1 :
              RemoveThread(s, i)[j] = IF j < i THEN s[j] ELSE s[j + 1]
<1> DEFINE below == SubSeq(s, 1, i - 1)
           above == SubSeq(s, i + 1, Len(s))
<1>1. Len(s) \in Nat /\ \A j \in 1 .. Len(s) : s[j] \in S
  BY LenProperties, ElementOfSeq
<1>2. /\ below \in Seq(S)
      /\ Len(below) = i - 1
      /\ \A j \in 1 .. i - 1 : below[j] = s[j]
  <2>1. \A j \in 1 .. i - 1 : s[j] \in S
    BY <1>1
  <2>2. i - 1 \in Int /\ 1 \in Int
    OBVIOUS
  <2> HIDE DEF below
  <2> QED
    BY <1>1, <2>1, <2>2, SubSeqProperties DEF below
<1>3. /\ above \in Seq(S)
      /\ Len(above) = Len(s) - i
      /\ \A j \in 1 .. Len(s) - i : above[j] = s[i + j]
  <2>1. \A j \in i + 1 .. Len(s) : s[j] \in S
    BY <1>1
  <2>2. i + 1 \in Int /\ Len(s) \in Int
    BY <1>1
  <2>3. /\ above \in Seq(S)
        /\ Len(above) = IF i + 1 <= Len(s) THEN Len(s) - (i + 1) + 1 ELSE 0
        /\ \A j \in 1 .. Len(s) - (i + 1) + 1 : above[j] = s[(i + 1) + j - 1]
    BY <2>1, <2>2, SubSeqProperties
  <2> HIDE DEF above
  <2> QED
    BY <1>1, <2>3
<1>4. RemoveThread(s, i) = below \o above
  BY DEF RemoveThread, RemoveAt
<1> HIDE DEF below, above
<1>5. /\ below \o above \in Seq(S)
      /\ Len(below \o above) = Len(below) + Len(above)
      /\ \A j \in 1 .. Len(below) + Len(above) :
           (below \o above)[j] = IF j <= Len(below) THEN below[j] ELSE above[j - Len(below)]
  BY <1>2, <1>3, ConcatProperties
<1>6. \A j \in 1 .. Len(s) - 1 : (below \o above)[j] = IF j < i THEN s[j] ELSE s[j + 1]
  <2> SUFFICES ASSUME NEW j \in 1 .. Len(s) - 1
               PROVE  (below \o above)[j] = IF j < i THEN s[j] ELSE s[j + 1]
    OBVIOUS
  <2>1. CASE j < i
    BY <1>1, <1>2, <1>3, <1>5, <2>1
  <2>2. CASE ~(j < i)
    <3>1. /\ j - (i - 1) \in 1 .. Len(s) - i
          /\ i + (j - (i - 1)) = j + 1
      BY <1>1, <2>2
    <3>2. above[j - (i - 1)] = s[j + 1]
      BY <1>3, <3>1
    <3>3. (below \o above)[j] = above[j - (i - 1)]
      BY <1>1, <1>2, <1>3, <1>5, <2>2
    <3> QED
      BY <2>2, <3>2, <3>3
  <2> QED
    BY <2>1, <2>2
<1> QED
  BY <1>1, <1>2, <1>3, <1>4, <1>5, <1>6

-----------------------------------------------------------------------------
RunRecords ==
  [pc : PCs, index : Nat, yields : 0 .. MaxYields, results : 0 .. MaxResults]

\* Where an execution that has been started and is not over can be.
ActivePCs == {"tick", "promise", "request", "returned", "failed"}

LEMMA ActiveByPC ==
  ASSUME RunTypeOK, NEW t \in Tasks
  PROVE  Active(t) <=> run[t].pc \in ActivePCs
BY DEF RunTypeOK, Active, Over, PCs, ActivePCs

PromiseStates == {"none", "called", "running", "fulfilled", "rejected"}

\* What every outcome of a slice has in common: the record of t is replaced by
\* an active one with the same index.
LEMMA SliceOutcome ==
  ASSUME RunTypeOK, NEW t \in Tasks, NEW rec \in RunRecords, NEW p \in PromiseStates,
         run' = [run EXCEPT ![t] = rec],
         promise' = [promise EXCEPT ![t] = p],
         request' = IF rec.pc = "request" THEN [request EXCEPT ![t] = NewRequest] ELSE request,
         MayWrap(t)
  PROVE  /\ run' \in [Tasks -> RunRecords]
         /\ run'[t] = rec
         /\ \A u \in Tasks \ {t} :
              run'[u] = run[u] /\ promise'[u] = promise[u] /\ request'[u] = request[u]
         /\ promise' \in [Tasks -> PromiseStates]
         /\ request' \in [Tasks -> Requests]
         /\ rec.pc = "request" => request'[t] = NewRequest
         /\ wrappers' \subseteq Tasks
<1>1. run \in [Tasks -> RunRecords] /\ promise \in [Tasks -> PromiseStates]
  BY DEF RunTypeOK, RunRecords, PromiseStates
<1>2. wrappers \subseteq Tasks
  BY DEF RunTypeOK
<1>3. /\ request' \in [Tasks -> Requests]
      /\ \A u \in Tasks \ {t} : request'[u] = request[u]
      /\ rec.pc = "request" => request'[t] = NewRequest
  <2>1. request \in [Tasks -> Requests] /\ NewRequest \in Requests
    BY RunBoundsAssumption DEF RunTypeOK, Requests, NewRequest
  <2> QED
    BY <2>1
<1> QED
  BY <1>1, <1>2, <1>3 DEF MayWrap

\* A slice of the coroutine of t touches no other execution, leaves t active
\* and keeps the index it was started with.
LEMMA SliceEffect ==
  ASSUME RunTypeOK, NEW t \in Tasks, NEW r \in RunRecords, Slice(t, r)
  PROVE  /\ run' \in [Tasks -> RunRecords]
         /\ run'[t].index = r.index
         /\ run'[t].pc \in ActivePCs
         /\ \A u \in Tasks \ {t} :
              run'[u] = run[u] /\ promise'[u] = promise[u] /\ request'[u] = request[u]
         /\ promise' \in [Tasks -> PromiseStates]
         /\ request' \in [Tasks -> Requests]
         /\ run'[t].pc = "request" => request'[t] = NewRequest
         /\ wrappers' \subseteq Tasks
<1>1. MaxYields \in Nat /\ MaxResults \in Nat
  BY RunBoundsAssumption
<1>2. /\ r.pc \in PCs /\ r.index \in Nat
      /\ r.yields \in 0 .. MaxYields /\ r.results \in 0 .. MaxResults
  BY DEF RunRecords
<1>3. CASE YieldTick(t, r)
  <2> DEFINE rec == [r EXCEPT !.pc = "tick", !.yields = @ + 1]
  <2>0. r.yields + 1 \in 0 .. MaxYields
    BY <1>1, <1>2, <1>3 DEF YieldTick
  <2>1. rec \in RunRecords /\ rec.index = r.index /\ rec.pc = "tick"
    BY <1>2, <2>0 DEF RunRecords, PCs
  <2>2. run' = [run EXCEPT ![t] = rec] /\ promise' = [promise EXCEPT ![t] = "none"] /\ MayWrap(t)
    BY <1>3 DEF YieldTick, NoCall
  <2>3. request' = request
    BY <1>3 DEF YieldTick, NoCall
  <2> QED
    BY <2>1, <2>2, <2>3, SliceOutcome DEF ActivePCs, PromiseStates
<1>4. CASE YieldPromise(t, r)
  <2> DEFINE rec == [r EXCEPT !.pc = "promise", !.yields = @ + 1]
  <2>0. r.yields + 1 \in 0 .. MaxYields
    BY <1>1, <1>2, <1>4 DEF YieldPromise
  <2>1. rec \in RunRecords /\ rec.index = r.index /\ rec.pc = "promise"
    BY <1>2, <2>0 DEF RunRecords, PCs
  <2>2. run' = [run EXCEPT ![t] = rec] /\ promise' = [promise EXCEPT ![t] = "running"] /\ MayWrap(t)
    BY <1>4 DEF YieldPromise, NoCall
  <2>3. request' = request
    BY <1>4 DEF YieldPromise, NoCall
  <2> QED
    BY <2>1, <2>2, <2>3, SliceOutcome DEF ActivePCs, PromiseStates
<1>5. CASE CallAsync(t, r)
  <2> DEFINE rec == [r EXCEPT !.pc = "request", !.yields = @ + 1]
  <2>0. r.yields + 1 \in 0 .. MaxYields
    BY <1>1, <1>2, <1>5 DEF CallAsync
  <2>1. rec \in RunRecords /\ rec.index = r.index /\ rec.pc = "request"
    BY <1>2, <2>0 DEF RunRecords, PCs
  <2>2. run' = [run EXCEPT ![t] = rec] /\ promise' = [promise EXCEPT ![t] = "called"] /\ MayWrap(t)
    BY <1>5 DEF CallAsync
  <2>3. request' = [request EXCEPT ![t] = NewRequest]
    BY <1>5 DEF CallAsync
  <2> QED
    BY <2>1, <2>2, <2>3, SliceOutcome DEF ActivePCs, PromiseStates
<1>6. CASE Return(t, r)
  <2> PICK n \in 0 .. MaxResults :
         /\ run' = [run EXCEPT ![t] = [r EXCEPT !.pc = "returned", !.results = n]]
         /\ promise' = [promise EXCEPT ![t] = "none"]
         /\ request' = request
         /\ MayWrap(t)
    BY <1>6 DEF Return, NoCall
  <2> DEFINE rec == [r EXCEPT !.pc = "returned", !.results = n]
  <2>1. rec \in RunRecords /\ rec.index = r.index /\ rec.pc = "returned"
    BY <1>1, <1>2 DEF RunRecords, PCs
  <2> QED
    BY <2>1, SliceOutcome DEF ActivePCs, PromiseStates
<1>7. CASE RaiseError(t, r)
  <2> DEFINE rec == [r EXCEPT !.pc = "failed"]
  <2>1. rec \in RunRecords /\ rec.index = r.index /\ rec.pc = "failed"
    BY <1>2 DEF RunRecords, PCs
  <2>2. run' = [run EXCEPT ![t] = rec] /\ promise' = [promise EXCEPT ![t] = "none"] /\ MayWrap(t)
    BY <1>7 DEF RaiseError, NoCall
  <2>3. request' = request
    BY <1>7 DEF RaiseError, NoCall
  <2> QED
    BY <2>1, <2>2, <2>3, SliceOutcome DEF ActivePCs, PromiseStates
<1> QED
  BY <1>3, <1>4, <1>5, <1>6, <1>7 DEF Slice

\* A step that leaves the main stack alone, starts and ends no execution that
\* holds a place on it, and at most stops waiting for executions that are over,
\* keeps the invariant.
LEMMA QuietKeeps ==
  ASSUME RunInv, RunTypeOK', ChildIsAwaited',
         UNCHANGED <<gstack, freed, resolved>>,
         \A t \in Tasks : /\ run'[t].index = run[t].index
                          /\ Active(t)' <=> Active(t)
                          /\ run[t].pc # "idle" => run'[t].pc # "idle"
                          /\ run'[t].pc = "resolved" <=> run[t].pc = "resolved"
                          /\ run'[t].pc = "resolved" => run'[t].results = run[t].results,
         \A s, t \in Tasks :
           child'[s] = child[s] \/ ~(Active(s) /\ Active(t) /\ run[s].index < run[t].index)
  PROVE  RunInv'
<1>1. ThreadIndexNamesThread'
  BY DEF RunInv, ThreadIndexNamesThread, Entry
<1>2. OnlyActiveThreadsOnStack'
  BY DEF RunInv, OnlyActiveThreadsOnStack, Active, Over
<1>3. NestedInOrder'
  <2> SUFFICES ASSUME NEW s \in Tasks, NEW t \in Tasks,
                      Active(s)', Active(t)', run'[s].index < run'[t].index
               PROVE  child'[s] \in Tasks /\ Active(child[s])' /\ run'[child'[s]].index <= run'[t].index
    BY DEF NestedInOrder, Active, Over
  <2>1. Active(s) /\ Active(t) /\ run[s].index < run[t].index
    OBVIOUS
  <2>2. child[s] \in Tasks /\ Active(child[s]) /\ run[child[s]].index <= run[t].index
    BY <2>1 DEF RunInv, NestedInOrder
  <2>3. child'[s] = child[s]
    BY <2>1
  <2> DEFINE u == child[s]
  <2>4. u \in Tasks /\ Active(u)' /\ run'[u].index = run[u].index /\ run'[t].index = run[t].index
    BY <2>2
  <2> QED
    BY <2>2, <2>3, <2>4 DEF Active, Over
<1>4. FreedAreUnanchored'
  BY DEF RunInv, RunTypeOK, FreedAreUnanchored, Entry
<1>5. UnresolvedAreUndefined' /\ ResolvesToItsFirstResult'
  BY DEF RunInv, UnresolvedAreUndefined, ResolvesToItsFirstResult, Undefined, Entry
<1> QED
  BY <1>1, <1>2, <1>3, <1>4, <1>5 DEF RunInv

-----------------------------------------------------------------------------
LEMMA InitEstablishes == Init => RunInv
<1> SUFFICES ASSUME Init PROVE RunInv
  OBVIOUS
<1>1. MaxYields \in Nat /\ MaxResults \in Nat
  BY RunBoundsAssumption
<1>2. RunTypeOK
  BY <1>1 DEF Init, RunTypeOK, Idle, PCs, Entries, Undefined, Entry,
              Requests, NewRequest, Answers, NoAnswer
<1>3. gstack = <<>> /\ DOMAIN gstack = {} /\ freed = {}
  BY DEF Init
<1>4. \A t \in Tasks : ~Active(t) /\ child[t] = NoTask /\ resolved[t] = Undefined
                       /\ run[t].pc = "idle"
  BY DEF Init, Active, Idle
<1> QED
  BY <1>2, <1>3, <1>4
  DEF RunInv, ThreadIndexNamesThread, OnlyActiveThreadsOnStack, ChildIsAwaited,
      NestedInOrder, FreedAreUnanchored, UnresolvedAreUndefined, ResolvesToItsFirstResult

LEMMA StackFacts ==
  ASSUME RunTypeOK
  PROVE  /\ gstack \in Seq(Entries)
         /\ Len(gstack) \in Nat
         /\ DOMAIN gstack = 1 .. Len(gstack)
         /\ \A i \in 1 .. Len(gstack) : gstack[i] \in Entries
BY LenProperties, ElementOfSeq DEF RunTypeOK

\* Two active executions have different indices.
LEMMA IndicesDiffer ==
  ASSUME RunInv, NEW s \in Tasks, NEW t \in Tasks, Active(s), Active(t),
         run[s].index = run[t].index
  PROVE  s = t
<1>1. gstack[run[s].index] = Entry(s, 0) /\ gstack[run[t].index] = Entry(t, 0)
  BY DEF RunInv, ThreadIndexNamesThread
<1>2. Entry(s, 0).by = Entry(t, 0).by
  BY <1>1
<1> QED
  BY <1>2 DEF Entry

\* An execution that awaits no other is above all the other ones.
LEMMA ChildlessIsOnTop ==
  ASSUME RunInv, NEW t \in Tasks, Active(t), child[t] \notin Tasks
  PROVE  \A u \in Tasks \ {t} : Active(u) => run[u].index < run[t].index
<1> SUFFICES ASSUME NEW u \in Tasks \ {t}, Active(u)
             PROVE  run[u].index < run[t].index
  OBVIOUS
<1>1. run[u].index \in Nat /\ run[t].index \in Nat
  BY DEF RunInv, RunTypeOK
<1>2. run[u].index # run[t].index
  BY IndicesDiffer
<1>3. ~(run[t].index < run[u].index)
  BY DEF RunInv, NestedInOrder
<1> QED
  BY <1>1, <1>2, <1>3

-----------------------------------------------------------------------------
\* The steps that leave the main stack alone.

LEMMA InvokeCallbackKeeps ==
  ASSUME RunInv, NEW t \in Tasks, InvokeCallback(t)
  PROVE  RunInv'
<1>1. RunTypeOK'
  BY DEF RunInv, RunTypeOK, InvokeCallback, Entries, PCs
<1>2. ChildIsAwaited'
  BY DEF RunInv, RunTypeOK, ChildIsAwaited, InvokeCallback
<1> QED
  BY <1>1, <1>2, QuietKeeps DEF InvokeCallback, Active, Over

LEMMA SettleKeeps ==
  ASSUME RunInv, NEW t \in Tasks, Settle(t)
  PROVE  RunInv'
<1>1. PICK p \in {"fulfilled", "rejected"} : promise' = [promise EXCEPT ![t] = p]
  BY DEF Settle
<1>2. /\ UNCHANGED <<gstack, run, request, received, resolved, wrappers, freed>>
      /\ child' = [child EXCEPT ![t] = NoTask]
  BY DEF Settle
<1>3. RunTypeOK'
  BY <1>1, <1>2 DEF RunInv, RunTypeOK, Entries, PCs
<1>4. ChildIsAwaited'
  BY <1>1, <1>2 DEF RunInv, RunTypeOK, ChildIsAwaited
<1>5. ASSUME NEW s \in Tasks, NEW u \in Tasks, Active(s), Active(u), run[s].index < run[u].index
      PROVE  child'[s] = child[s]
  <2>1. child[s] \in Tasks /\ Active(child[s])
    BY <1>5 DEF RunInv, NestedInOrder
  <2>2. s # t
    BY <2>1 DEF Settle, Active
  <2> QED
    BY <1>2, <2>2 DEF RunInv, RunTypeOK
<1> QED
  BY <1>2, <1>3, <1>4, <1>5, QuietKeeps DEF Active, Over

LEMMA KeepOutcomeKeeps ==
  ASSUME RunInv, NEW t \in Tasks, KeepOutcome(t)
  PROVE  RunInv'
<1>1. request[t] \in Requests /\ run[t].yields \in 0 .. MaxYields
  BY DEF RunInv, RunTypeOK
<1>2. PICK q \in Requests : request' = [request EXCEPT ![t] = q]
  BY <1>1 DEF KeepOutcome, Requests
<1>3. UNCHANGED <<gstack, run, promise, child, received, resolved, wrappers, freed>>
  BY DEF KeepOutcome
<1>4. RunTypeOK' /\ ChildIsAwaited'
  BY <1>2, <1>3 DEF RunInv, RunTypeOK, ChildIsAwaited
<1> QED
  BY <1>3, <1>4, QuietKeeps DEF Active, Over

\* A turn of an execution that awaited: it runs its next slice, or fails.
LEMMA TurnKeeps ==
  ASSUME RunInv, NEW t \in Tasks, Active(t), child[t] = NoTask,
         run' \in [Tasks -> RunRecords],
         run'[t].index = run[t].index,
         run'[t].pc \in ActivePCs,
         \A u \in Tasks \ {t} : run'[u] = run[u] /\ promise'[u] = promise[u],
         promise' \in [Tasks -> PromiseStates],
         request' \in [Tasks -> Requests],
         wrappers' \subseteq Tasks,
         received' \in [Tasks -> Answers],
         UNCHANGED <<gstack, child, resolved, freed>>
  PROVE  RunInv'
<1>1. RunTypeOK'
  BY DEF RunInv, RunTypeOK, RunRecords, PromiseStates, Entries, PCs
<1>2. ChildIsAwaited'
  BY DEF RunInv, ChildIsAwaited
<1>3. Active(t)'
  BY DEF Active, Over, ActivePCs
<1>4. run[t].pc # "idle" /\ run[t].pc # "resolved" /\ run'[t].pc # "idle" /\ run'[t].pc # "resolved"
  BY DEF Active, Over, ActivePCs
<1>5. \A u \in Tasks : Active(u)' <=> Active(u)
  BY <1>3 DEF Active, Over
<1> QED
  BY <1>1, <1>2, <1>4, <1>5, QuietKeeps

LEMMA AfterTickKeeps ==
  ASSUME RunInv, NEW t \in Tasks, AfterTick(t)
  PROVE  RunInv'
<1>1. Active(t) /\ child[t] = NoTask
  BY DEF AfterTick, Active, Over, RunInv, ChildIsAwaited
<1>2. run[t] \in RunRecords /\ received' \in [Tasks -> Answers]
  BY DEF AfterTick, RunInv, RunTypeOK, RunRecords
<1> QED
  BY <1>1, <1>2, SliceEffect, TurnKeeps DEF AfterTick, RunInv

LEMMA AfterPromiseKeeps ==
  ASSUME RunInv, NEW t \in Tasks, AfterPromise(t)
  PROVE  RunInv'
<1>1. Active(t) /\ child[t] = NoTask
  BY DEF AfterPromise, Active, Over, RunInv, ChildIsAwaited
<1>2. run[t] \in RunRecords /\ received' \in [Tasks -> Answers]
  BY DEF AfterPromise, RunInv, RunTypeOK, RunRecords
<1>3. UNCHANGED <<gstack, child, resolved, freed>>
  BY DEF AfterPromise
<1>4. CASE Slice(t, run[t])
  BY <1>1, <1>2, <1>3, <1>4, SliceEffect, TurnKeeps DEF RunInv
<1>5. CASE /\ run' = [run EXCEPT ![t].pc = "failed"]
           /\ NoCall(t, "none")
           /\ UNCHANGED wrappers
  <2>1. run \in [Tasks -> RunRecords] /\ promise \in [Tasks -> PromiseStates]
    BY DEF RunInv, RunTypeOK, RunRecords, PromiseStates
  <2>2. run' \in [Tasks -> RunRecords] /\ run'[t].index = run[t].index /\ run'[t].pc = "failed"
    BY <1>5, <2>1 DEF RunRecords, PCs
  <2>3. promise' \in [Tasks -> PromiseStates]
    BY <1>5, <2>1 DEF NoCall, PromiseStates
  <2>4. \A u \in Tasks \ {t} : run'[u] = run[u] /\ promise'[u] = promise[u]
    BY <1>5, <2>1 DEF NoCall
  <2>6. request' \in [Tasks -> Requests]
    BY <1>5 DEF NoCall, RunInv, RunTypeOK
  <2>5. wrappers' \subseteq Tasks /\ run'[t].pc \in ActivePCs
    BY <1>5, <2>2 DEF RunInv, RunTypeOK, ActivePCs
  <2> QED
    BY <1>1, <1>2, <1>3, <2>2, <2>3, <2>4, <2>5, <2>6, TurnKeeps
<1> QED
  BY <1>4, <1>5 DEF AfterPromise

LEMMA AfterRequestKeeps ==
  ASSUME RunInv, RequestKeepsOutcome, NEW t \in Tasks, AfterRequest(t)
  PROVE  RunInv'
<1>1. Active(t) /\ child[t] = NoTask
  BY DEF AfterRequest, RequestKeepsOutcome, Settled, Active, Over, RunInv, ChildIsAwaited
<1>2. request[t] \in Requests
  BY DEF RunInv, RunTypeOK
<1>3. Answer(request[t]) \in Answers
  BY <1>2 DEF Answer, Requests, Answers
<1>4. run[t] \in RunRecords /\ received' \in [Tasks -> Answers]
  BY <1>3 DEF AfterRequest, RunInv, RunTypeOK, RunRecords
<1> QED
  BY <1>1, <1>4, SliceEffect, TurnKeeps DEF AfterRequest, RunInv

-----------------------------------------------------------------------------
\* An execution that begins is put on top of all the others.

LEMMA BeginKeeps ==
  ASSUME RunInv, NEW t \in Tasks, Begin(t),
         child' \in [Tasks -> Tasks \cup {NoTask}], ChildIsAwaited',
         \A s \in Tasks : Active(s) =>
           \/ child'[s] = t /\ child[s] \notin Tasks
           \/ child'[s] = child[s] /\ \E u \in Tasks : Active(u) /\ run[s].index < run[u].index
  PROVE  RunInv'
<1> DEFINE n == Len(gstack)
<1>1. /\ gstack \in Seq(Entries)
      /\ n \in Nat
      /\ DOMAIN gstack = 1 .. n
  BY StackFacts DEF RunInv
<1>2. Entry(t, 0) \in Entries
  BY DEF Entry, Entries
<1>3. /\ gstack' \in Seq(Entries)
      /\ DOMAIN gstack' = 1 .. n + 1
      /\ gstack'[n + 1] = Entry(t, 0)
      /\ \A i \in 1 .. n : gstack'[i] = gstack[i]
  BY <1>1, <1>2, AppendProperties, LenProperties DEF Begin
<1>4. ~Active(t) /\ run[t].pc = "idle"
  BY DEF Begin, Idle, Active
<1>5. MaxYields \in Nat /\ MaxResults \in Nat
  BY RunBoundsAssumption
<1>6. [Idle EXCEPT !.index = n + 1] \in RunRecords /\ [Idle EXCEPT !.index = n + 1].index = n + 1
  BY <1>1, <1>5 DEF Idle, RunRecords, PCs
<1>7. /\ run' \in [Tasks -> RunRecords]
      /\ run'[t].index = n + 1
      /\ run'[t].pc \in ActivePCs
      /\ \A u \in Tasks \ {t} :
           run'[u] = run[u] /\ promise'[u] = promise[u] /\ request'[u] = request[u]
      /\ promise' \in [Tasks -> PromiseStates]
      /\ request' \in [Tasks -> Requests]
      /\ wrappers' \subseteq Tasks
  BY <1>6, SliceEffect DEF Begin, RunInv
<1>8. RunTypeOK'
  BY <1>3, <1>7 DEF RunInv, RunTypeOK, RunRecords, PromiseStates, Begin, Entries
<1>9. /\ Active(t)'
      /\ \A u \in Tasks \ {t} : Active(u)' <=> Active(u)
  BY <1>7 DEF Active, Over, ActivePCs
<1>10. \A u \in Tasks : Active(u) => run[u].index \in 1 .. n
  BY <1>1 DEF RunInv, ThreadIndexNamesThread
<1> HIDE DEF n
<1>11. ThreadIndexNamesThread'
  <2> SUFFICES ASSUME NEW u \in Tasks, Active(u)'
               PROVE  run'[u].index \in DOMAIN gstack' /\ gstack'[run'[u].index] = Entry(u, 0)
    BY DEF ThreadIndexNamesThread, Entry
  <2>1. CASE u = t
    BY <1>1, <1>3, <1>7, <2>1
  <2>2. CASE u # t
    <3>1. Active(u) /\ run'[u] = run[u]
      BY <1>7, <1>9, <2>2
    <3>2. run[u].index \in 1 .. n /\ gstack[run[u].index] = Entry(u, 0)
      BY <1>10, <3>1 DEF RunInv, ThreadIndexNamesThread
    <3> QED
      BY <1>1, <1>3, <3>1, <3>2
  <2> QED
    BY <2>1, <2>2
<1>12. OnlyActiveThreadsOnStack'
  <2> SUFFICES ASSUME NEW i \in 1 .. n + 1, gstack'[i].k = 0
               PROVE  /\ gstack'[i].by \in Tasks
                      /\ Active(gstack[i].by)'
                      /\ run'[gstack'[i].by].index = i
    BY <1>3 DEF OnlyActiveThreadsOnStack
  <2>1. CASE i = n + 1
    <3>1. gstack'[i].by = t
      BY <1>3, <2>1 DEF Entry
    <3> QED
      BY <1>7, <1>9, <2>1, <3>1 DEF Active, Over
  <2>2. CASE i # n + 1
    <3>1. i \in 1 .. n /\ gstack'[i] = gstack[i]
      BY <1>1, <1>3, <2>2
    <3>2. gstack[i].by \in Tasks /\ Active(gstack[i].by) /\ run[gstack[i].by].index = i
      BY <1>1, <3>1 DEF RunInv, OnlyActiveThreadsOnStack
    <3>3. gstack[i].by # t
      BY <1>4, <3>2
    <3> QED
      BY <1>7, <1>9, <3>1, <3>2, <3>3 DEF Active, Over
  <2> QED
    BY <2>1, <2>2
<1>13. NestedInOrder'
  <2> SUFFICES ASSUME NEW s \in Tasks, NEW u \in Tasks,
                      Active(s)', Active(u)', run'[s].index < run'[u].index
               PROVE  child'[s] \in Tasks /\ Active(child[s])' /\ run'[child'[s]].index <= run'[u].index
    BY DEF NestedInOrder, Active, Over
  <2>1. s # t
    <3> SUFFICES ASSUME s = t PROVE FALSE
      OBVIOUS
    <3>1. u # t /\ Active(u) /\ run'[u] = run[u]
      BY <1>1, <1>7, <1>9
    <3> QED
      BY <1>1, <1>7, <1>10, <3>1
  <2>2. Active(s) /\ run'[s] = run[s] /\ run[s].index \in 1 .. n
    BY <1>7, <1>9, <1>10, <2>1
  <2>3. CASE child'[s] = t /\ child[s] \notin Tasks
    <3>1. u = t
      <4> SUFFICES ASSUME u # t PROVE FALSE
        OBVIOUS
      <4>1. Active(u) /\ run'[u] = run[u] /\ u # s
        BY <1>7, <1>9, <2>2
      <4>2. run[u].index < run[s].index
        BY <2>2, <2>3, <4>1, ChildlessIsOnTop
      <4> QED
        BY <1>10, <2>2, <4>1, <4>2
    <3> QED
      BY <1>1, <1>7, <1>9, <2>3, <3>1 DEF Active, Over
  <2>4. CASE child'[s] = child[s] /\ \E v \in Tasks : Active(v) /\ run[s].index < run[v].index
    <3>1. PICK v \in Tasks : Active(v) /\ run[s].index < run[v].index
      BY <2>4
    <3>2. child[s] \in Tasks /\ Active(child[s])
      BY <2>2, <2>4, <3>1 DEF RunInv, NestedInOrder
    <3>3. child[s] # t /\ run'[child[s]] = run[child[s]] /\ run[child[s]].index \in 1 .. n
      BY <1>4, <1>7, <1>10, <2>4, <3>2
    <3>4. run[child[s]].index <= run'[u].index
      <4>1. CASE u = t
        BY <1>1, <1>7, <3>3, <4>1
      <4>2. CASE u # t
        BY <1>7, <1>9, <2>2, <4>2 DEF RunInv, NestedInOrder
      <4> QED
        BY <4>1, <4>2
    <3> QED
      BY <1>9, <2>4, <3>2, <3>3, <3>4 DEF Active, Over
  <2> QED
    BY <2>2, <2>3, <2>4
<1>14. FreedAreUnanchored'
  <2> SUFFICES ASSUME NEW f \in freed
               PROVE  run'[f].pc # "idle" /\ \A i \in 1 .. n + 1 : gstack'[i] # Entry(f, 0)
    BY <1>3 DEF FreedAreUnanchored, Begin, Range, Entry
  <2>1. f \in Tasks /\ run[f].pc # "idle" /\ \A i \in 1 .. n : gstack[i] # Entry(f, 0)
    BY <1>1 DEF RunInv, RunTypeOK, FreedAreUnanchored, Range
  <2>2. f # t
    BY <1>4, <2>1
  <2>3. Entry(f, 0) # Entry(t, 0)
    <3>1. Entry(f, 0).by # Entry(t, 0).by
      BY <2>2 DEF Entry
    <3> QED
      BY <3>1
  <2>4. run'[f].pc # "idle"
    BY <1>7, <2>1, <2>2
  <2> QED
    BY <1>1, <1>3, <2>1, <2>3, <2>4
<1>15. UnresolvedAreUndefined' /\ ResolvesToItsFirstResult'
  BY <1>4, <1>7
  DEF RunInv, UnresolvedAreUndefined, ResolvesToItsFirstResult, Begin, Undefined, Entry, ActivePCs
<1>16. ChildIsAwaited'
  OBVIOUS
<1> QED
  BY <1>8, <1>11, <1>12, <1>13, <1>14, <1>15, <1>16 DEF RunInv

\* A loader that throws leaves no trace on the stack.
LEMMA BeginFailsKeeps ==
  ASSUME RunInv, NEW t \in Tasks, BeginFails(t),
         child' \in [Tasks -> Tasks \cup {NoTask}], ChildIsAwaited',
         \A s \in Tasks : Active(s) => child'[s] = child[s] \/ child[s] \notin Tasks
  PROVE  RunInv'
<1>1. /\ run[t].pc = "idle"
      /\ run' = [run EXCEPT ![t].pc = "rejected"]
      /\ UNCHANGED <<gstack, promise, request, received, resolved, wrappers, freed>>
  BY DEF BeginFails, Idle
<1>2. run \in [Tasks -> RunRecords]
  BY DEF RunInv, RunTypeOK, RunRecords
<1>3. /\ run' \in [Tasks -> RunRecords]
      /\ run'[t].index = run[t].index /\ run'[t].pc = "rejected"
      /\ \A u \in Tasks \ {t} : run'[u] = run[u]
  BY <1>1, <1>2 DEF RunRecords, PCs
<1>4. RunTypeOK'
  BY <1>1, <1>3 DEF RunInv, RunTypeOK, RunRecords, Entries
<1>5. \A u \in Tasks : Active(u)' <=> Active(u)
  BY <1>1, <1>3 DEF Active, Over
<1>6. ASSUME NEW s \in Tasks, NEW u \in Tasks,
             Active(s), Active(u), run[s].index < run[u].index
      PROVE  child'[s] = child[s]
  BY <1>6 DEF RunInv, NestedInOrder
<1> QED
  BY <1>1, <1>3, <1>4, <1>5, <1>6, QuietKeeps

LEMMA DoStringKeeps ==
  ASSUME RunInv, NEW t \in Tasks, DoString(t)
  PROVE  RunInv'
<1>1. child' = child /\ \A s \in Tasks : ~Active(s)
  BY DEF DoString
<1>2. child' \in [Tasks -> Tasks \cup {NoTask}]
  BY <1>1 DEF RunInv, RunTypeOK
<1>3. ASSUME NEW s \in Tasks PROVE child[s] = NoTask
  BY <1>1 DEF RunInv, ChildIsAwaited, Active, Over
<1>4. ChildIsAwaited'
  BY <1>1, <1>3 DEF ChildIsAwaited
<1> QED
  BY <1>1, <1>2, <1>4, BeginKeeps, BeginFailsKeeps DEF DoString

LEMMA CallbackDoesStringKeeps ==
  ASSUME RunInv, NEW p \in Tasks, NEW t \in Tasks, CallbackDoesString(p, t)
  PROVE  RunInv'
<1>1. /\ run[p].pc = "request" /\ promise[p] = "running" /\ child[p] = NoTask
      /\ child' = [child EXCEPT ![p] = t]
  BY DEF CallbackDoesString
<1>2. /\ child' \in [Tasks -> Tasks \cup {NoTask}]
      /\ child'[p] = t
      /\ \A s \in Tasks \ {p} : child'[s] = child[s]
  BY <1>1 DEF RunInv, RunTypeOK
<1>3. Active(p) /\ child[p] \notin Tasks
  BY <1>1, NoTaskAssumption DEF Active, Over
<1>4. run[t].pc = "idle" /\ p # t
  BY <1>1 DEF CallbackDoesString, Begin, BeginFails, Idle
<1>5. run'[p] = run[p] /\ promise'[p] = promise[p]
  <2>1. CASE Begin(t)
    <3>1. Len(gstack) + 1 \in Nat
      BY StackFacts DEF RunInv
    <3>2. [Idle EXCEPT !.index = Len(gstack) + 1] \in RunRecords
      BY <3>1, RunBoundsAssumption DEF Idle, RunRecords, PCs
    <3> QED
      BY <1>4, <2>1, <3>2, SliceEffect DEF Begin, RunInv
  <2>2. CASE BeginFails(t)
    BY <1>4, <2>2 DEF BeginFails, RunInv, RunTypeOK
  <2> QED
    BY <2>1, <2>2 DEF CallbackDoesString
<1>6. \A s \in Tasks : child[s] # NoTask => s # t /\ run[s].pc = "request" /\ promise[s] = "running"
  BY <1>4 DEF RunInv, ChildIsAwaited
<1>7. \A s \in Tasks \ {t} : run'[s] = run[s] /\ promise'[s] = promise[s]
  <2>1. CASE Begin(t)
    <3>1. Len(gstack) + 1 \in Nat
      BY StackFacts DEF RunInv
    <3>2. [Idle EXCEPT !.index = Len(gstack) + 1] \in RunRecords
      BY <3>1, RunBoundsAssumption DEF Idle, RunRecords, PCs
    <3> QED
      BY <2>1, <3>2, SliceEffect DEF Begin, RunInv
  <2>2. CASE BeginFails(t)
    BY <2>2 DEF BeginFails, RunInv, RunTypeOK
  <2> QED
    BY <2>1, <2>2 DEF CallbackDoesString
<1>8. ChildIsAwaited'
  BY <1>1, <1>2, <1>4, <1>6, <1>7 DEF ChildIsAwaited
<1>9. \A s \in Tasks : Active(s) =>
        \/ child'[s] = t /\ child[s] \notin Tasks
        \/ child'[s] = child[s] /\ \E u \in Tasks : Active(u) /\ run[s].index < run[u].index
  BY <1>2, <1>3, ChildlessIsOnTop
<1>10. \A s \in Tasks : Active(s) => child'[s] = child[s] \/ child[s] \notin Tasks
  BY <1>2, <1>3
<1> QED
  BY <1>2, <1>8, <1>9, <1>10, BeginKeeps, BeginFailsKeeps DEF CallbackDoesString

-----------------------------------------------------------------------------
\* An execution that ends takes its coroutine off the stack.  It awaits no
\* other, so nothing but results is above it and moves down.

LEMMA EndKeeps ==
  ASSUME RunInv, RunTypeOK', NEW t \in Tasks, NEW over \in {"resolved", "rejected"},
         run[t].pc \in {"returned", "failed"},
         run' = [run EXCEPT ![t].pc = over],
         UNCHANGED <<promise, child, freed>>,
         NEW extra \in Seq(Entries),
         \A k \in 1 .. Len(extra) : extra[k].k # 0,
         gstack' = RemoveThread(gstack \o extra, run[t].index),
         UnresolvedAreUndefined', ResolvesToItsFirstResult'
  PROVE  RunInv'
<1> DEFINE n == Len(gstack)
           m == Len(gstack \o extra)
           i == run[t].index
<1>1. /\ gstack \in Seq(Entries)
      /\ n \in Nat
      /\ DOMAIN gstack = 1 .. n
  BY StackFacts DEF RunInv
<1>2. /\ gstack \o extra \in Seq(Entries)
      /\ m = n + Len(extra) /\ Len(extra) \in Nat
      /\ \A j \in 1 .. m : (gstack \o extra)[j] = IF j <= n THEN gstack[j] ELSE extra[j - n]
  BY <1>1, ConcatProperties, LenProperties
<1>3. Active(t) /\ child[t] = NoTask /\ i \in 1 .. n
  BY <1>1 DEF Active, Over, RunInv, ChildIsAwaited, ThreadIndexNamesThread
<1>4. /\ gstack' \in Seq(Entries)
      /\ DOMAIN gstack' = 1 .. m - 1
      /\ \A j \in 1 .. m - 1 :
           gstack'[j] = IF j < i THEN (gstack \o extra)[j] ELSE (gstack \o extra)[j + 1]
  <2> DEFINE s == gstack \o extra
  <2>1. s \in Seq(Entries) /\ i \in 1 .. Len(s) /\ Len(s) = m
    BY <1>1, <1>2, <1>3
  <2>2. gstack' = RemoveThread(s, i)
    OBVIOUS
  <2> HIDE DEF s, i, m
  <2>3. /\ RemoveThread(s, i) \in Seq(Entries)
        /\ Len(RemoveThread(s, i)) = Len(s) - 1
        /\ \A j \in 1 .. Len(s) - 1 :
             RemoveThread(s, i)[j] = IF j < i THEN s[j] ELSE s[j + 1]
    BY <2>1, RemoveThreadEffect
  <2>4. DOMAIN gstack' = 1 .. m - 1
    BY <2>1, <2>2, <2>3, LenProperties
  <2> QED
    BY <2>1, <2>2, <2>3, <2>4 DEF s
<1>5. \A u \in Tasks \ {t} : Active(u) => run[u].index < i /\ run[u].index \in 1 .. n
  BY <1>1, <1>3, NoTaskAssumption, ChildlessIsOnTop DEF RunInv, ThreadIndexNamesThread
<1>6. /\ \A u \in Tasks \ {t} : run'[u] = run[u]
      /\ run'[t].pc = over
  BY DEF RunInv, RunTypeOK
<1>7. ~Active(t)' /\ \A u \in Tasks \ {t} : Active(u)' <=> Active(u)
  BY <1>6 DEF Active, Over
\* Every entry of the new stack that stands for a coroutine is an old one, in
\* its old place below that of t.
<1>8. \A j \in 1 .. m - 1 : gstack'[j].k = 0 => j < i /\ j \in 1 .. n /\ gstack'[j] = gstack[j]
  <2> SUFFICES ASSUME NEW j \in 1 .. m - 1, gstack'[j].k = 0
               PROVE  j < i /\ j \in 1 .. n /\ gstack'[j] = gstack[j]
    OBVIOUS
  <2>1. CASE j < i
    BY <1>1, <1>2, <1>3, <1>4, <2>1
  <2>2. CASE ~(j < i)
    <3>1. j + 1 \in 1 .. m /\ i < j + 1 /\ gstack'[j] = (gstack \o extra)[j + 1]
      BY <1>1, <1>2, <1>3, <1>4, <2>2
    <3>2. CASE j + 1 <= n
      <4>1. j + 1 \in 1 .. n /\ gstack[j + 1].k = 0
        BY <1>1, <1>2, <3>1, <3>2
      <4>2. /\ gstack[j + 1].by \in Tasks
            /\ Active(gstack[j + 1].by)
            /\ run[gstack[j + 1].by].index = j + 1
        BY <1>1, <4>1 DEF RunInv, OnlyActiveThreadsOnStack
      <4>3. gstack[j + 1].by # t
        BY <1>1, <1>3, <3>1, <4>2
      <4> QED
        BY <1>1, <1>3, <1>5, <3>1, <4>2, <4>3
    <3>3. CASE ~(j + 1 <= n)
      <4>1. j + 1 - n \in 1 .. Len(extra)
        BY <1>1, <1>2, <3>1, <3>3
      <4>2. gstack'[j] = extra[j + 1 - n]
        BY <1>2, <3>1, <3>3
      <4> QED
        BY <4>1, <4>2
    <3> QED
      BY <3>2, <3>3
  <2> QED
    BY <2>1, <2>2
<1>9. \A j \in 1 .. n : j < i => j \in 1 .. m - 1 /\ gstack'[j] = gstack[j]
  BY <1>1, <1>2, <1>3, <1>4
<1> HIDE DEF n, m, i
<1>10. ThreadIndexNamesThread'
  <2> SUFFICES ASSUME NEW u \in Tasks, Active(u)'
               PROVE  run'[u].index \in DOMAIN gstack' /\ gstack'[run'[u].index] = Entry(u, 0)
    BY DEF ThreadIndexNamesThread, Entry
  <2>1. u # t /\ Active(u) /\ run'[u] = run[u]
    BY <1>6, <1>7
  <2>2. run[u].index < i /\ run[u].index \in 1 .. n /\ gstack[run[u].index] = Entry(u, 0)
    BY <1>5, <2>1 DEF RunInv, ThreadIndexNamesThread
  <2> QED
    BY <1>4, <1>9, <2>1, <2>2
<1>11. OnlyActiveThreadsOnStack'
  <2> SUFFICES ASSUME NEW j \in 1 .. m - 1, gstack'[j].k = 0
               PROVE  /\ gstack'[j].by \in Tasks
                      /\ Active(gstack[j].by)'
                      /\ run'[gstack'[j].by].index = j
    BY <1>4 DEF OnlyActiveThreadsOnStack
  <2>1. j < i /\ j \in 1 .. n /\ gstack'[j] = gstack[j]
    BY <1>8
  <2>2. gstack[j].by \in Tasks /\ Active(gstack[j].by) /\ run[gstack[j].by].index = j
    BY <1>1, <2>1 DEF RunInv, OnlyActiveThreadsOnStack
  <2>3. gstack[j].by # t
    BY <1>1, <1>3, <2>1, <2>2 DEF i
  <2> QED
    BY <1>6, <1>7, <2>1, <2>2, <2>3 DEF Active, Over
<1>12. ChildIsAwaited'
  <2> SUFFICES ASSUME NEW s \in Tasks, child[s] # NoTask
               PROVE  run'[s].pc = "request" /\ promise[s] = "running"
    BY DEF ChildIsAwaited
  <2> QED
    BY <1>3, <1>6 DEF RunInv, ChildIsAwaited
<1>13. NestedInOrder'
  <2> SUFFICES ASSUME NEW s \in Tasks, NEW u \in Tasks,
                      Active(s)', Active(u)', run'[s].index < run'[u].index
               PROVE  child[s] \in Tasks /\ Active(child[s])' /\ run'[child[s]].index <= run'[u].index
    BY DEF NestedInOrder, Active, Over
  <2>1. /\ s # t /\ Active(s) /\ run'[s] = run[s]
        /\ u # t /\ Active(u) /\ run'[u] = run[u]
    BY <1>6, <1>7
  <2>2. child[s] \in Tasks /\ Active(child[s]) /\ run[child[s]].index <= run[u].index
    BY <2>1 DEF RunInv, NestedInOrder
  <2>3. run[u].index < i /\ run[u].index \in Nat /\ run[child[s]].index \in Nat /\ i \in Nat
    BY <1>1, <1>3, <1>5, <2>1, <2>2 DEF RunInv, RunTypeOK
  <2>4. child[s] # t
    BY <2>2, <2>3 DEF i
  <2> QED
    BY <1>6, <1>7, <2>1, <2>2, <2>4 DEF Active, Over
<1>14. FreedAreUnanchored'
  <2> SUFFICES ASSUME NEW f \in freed
               PROVE  run'[f].pc # "idle" /\ \A j \in 1 .. m - 1 : gstack'[j] # Entry(f, 0)
    BY <1>4 DEF FreedAreUnanchored, Range, Entry
  <2>1. f \in Tasks /\ run[f].pc # "idle" /\ \A j \in 1 .. n : gstack[j] # Entry(f, 0)
    BY <1>1 DEF RunInv, RunTypeOK, FreedAreUnanchored, Range
  <2>2. run'[f].pc # "idle"
    BY <1>6, <2>1
  <2>3. \A j \in 1 .. m - 1 : gstack'[j] = Entry(f, 0) => gstack'[j].k = 0
    BY DEF Entry
  <2> QED
    BY <1>8, <2>1, <2>2, <2>3
<1> QED
  BY <1>10, <1>11, <1>12, <1>13, <1>14 DEF RunInv

LEMMA ResolveKeeps ==
  ASSUME RunInv, NEW t \in Tasks, Resolve(t)
  PROVE  RunInv'
<1> DEFINE c == run[t].results
           n == Len(gstack)
           extra == Results(t)
<1>1. /\ run[t].pc = "returned"
      /\ run' = [run EXCEPT ![t].pc = "resolved"]
      /\ gstack' = RemoveThread(gstack \o extra, run[t].index)
      /\ UNCHANGED <<promise, child, request, received, wrappers, freed>>
  BY DEF Resolve
<1>2. /\ run \in [Tasks -> RunRecords]
      /\ resolved \in [Tasks -> Entries]
      /\ c \in 0 .. MaxResults /\ c \in Nat
  BY RunBoundsAssumption DEF RunInv, RunTypeOK, RunRecords
<1>3. /\ gstack \in Seq(Entries)
      /\ n \in Nat
  BY StackFacts DEF RunInv
<1>4. /\ extra \in Seq(Entries)
      /\ Len(extra) = c
      /\ \A k \in 1 .. c : extra[k] = Entry(t, k) /\ extra[k].k # 0
  <2>1. \A k \in 1 .. c : Entry(t, k) \in Entries
    BY <1>2 DEF Entry, Entries
  <2> QED
    BY <1>2, <2>1 DEF Results, Entry
<1> HIDE DEF extra, c, n
<1>5. /\ run' \in [Tasks -> RunRecords]
      /\ run'[t].pc = "resolved" /\ run'[t].results = c
      /\ \A u \in Tasks \ {t} : run'[u] = run[u]
  BY <1>1, <1>2 DEF RunRecords, PCs, c
\* The first of the values moved is read below all of them.
<1>6. resolved' = IF c = 0 THEN resolved ELSE [resolved EXCEPT ![t] = Entry(t, 1)]
  <2> SUFFICES ASSUME c # 0
               PROVE  FirstResult(gstack \o extra, c) = Entry(t, 1)
    BY DEF Resolve, c, extra
  <2>1. /\ Len(gstack \o extra) = n + c
        /\ (gstack \o extra)[n + 1] = extra[1]
    <3>1. \A k \in 1 .. n + c :
            (gstack \o extra)[k] = IF k <= n THEN gstack[k] ELSE extra[k - n]
      BY <1>3, <1>4, ConcatProperties DEF n
    <3>2. n + 1 \in 1 .. n + c /\ ~(n + 1 <= n) /\ n + 1 - n = 1
      BY <1>2, <1>3
    <3>3. Len(gstack \o extra) = n + c
      BY <1>3, <1>4, ConcatProperties DEF n
    <3> QED
      BY <1>2, <1>3, <3>1, <3>2, <3>3
  <2>2. (n + c) - c + 1 = n + 1
    BY <1>2, <1>3
  <2> QED
    BY <1>2, <1>4, <2>1, <2>2 DEF FirstResult
<1>7. Entry(t, 1) \in Entries
  BY DEF Entry, Entries
<1>8. /\ resolved' \in [Tasks -> Entries]
      /\ resolved'[t] = IF c = 0 THEN Undefined ELSE Entry(t, 1)
      /\ \A u \in Tasks \ {t} : resolved'[u] = resolved[u]
  BY <1>1, <1>2, <1>6, <1>7 DEF RunInv, UnresolvedAreUndefined
<1>9. gstack' \in Seq(Entries)
  <2>1. Active(t)
    BY <1>1 DEF Active, Over
  <2>2. run[t].index \in 1 .. n
    BY <2>1, StackFacts DEF RunInv, ThreadIndexNamesThread, n
  <2>3. gstack \o extra \in Seq(Entries) /\ Len(gstack \o extra) = n + c
    BY <1>3, <1>4, ConcatProperties DEF n
  <2>4. run[t].index \in 1 .. Len(gstack \o extra)
    BY <1>2, <1>3, <2>2, <2>3
  <2> QED
    BY <1>1, <2>3, <2>4, RemoveThreadEffect
<1>10. RunTypeOK'
  BY <1>1, <1>5, <1>8, <1>9 DEF RunInv, RunTypeOK, RunRecords
<1>11. UnresolvedAreUndefined'
  BY <1>5, <1>8 DEF RunInv, UnresolvedAreUndefined, Undefined, Entry
<1>12. ResolvesToItsFirstResult'
  BY <1>5, <1>8 DEF RunInv, ResolvesToItsFirstResult, Undefined, Entry
<1> QED
  BY <1>1, <1>4, <1>10, <1>11, <1>12, EndKeeps

LEMMA RejectKeeps ==
  ASSUME RunInv, NEW t \in Tasks, Reject(t)
  PROVE  RunInv'
<1>1. /\ run[t].pc = "failed"
      /\ run' = [run EXCEPT ![t].pc = "rejected"]
      /\ gstack' = RemoveThread(gstack, run[t].index)
      /\ UNCHANGED <<promise, child, request, received, resolved, wrappers, freed>>
  BY DEF Reject
<1>2. /\ run \in [Tasks -> RunRecords]
      /\ gstack \in Seq(Entries)
      /\ gstack \o <<>> = gstack
      /\ <<>> \in Seq(Entries) /\ Len(<<>>) = 0
  BY ConcatEmptySeq DEF RunInv, RunTypeOK, RunRecords
<1>3. /\ run' \in [Tasks -> RunRecords]
      /\ run'[t].pc = "rejected"
      /\ \A u \in Tasks \ {t} : run'[u] = run[u]
  BY <1>1, <1>2 DEF RunRecords, PCs
<1>4. gstack' \in Seq(Entries)
  <2>1. Active(t)
    BY <1>1 DEF Active, Over
  <2>2. run[t].index \in 1 .. Len(gstack)
    BY <2>1, StackFacts DEF RunInv, ThreadIndexNamesThread
  <2> QED
    BY <1>1, <1>2, <2>2, RemoveThreadEffect
<1>5. RunTypeOK'
  BY <1>1, <1>3, <1>4 DEF RunInv, RunTypeOK, RunRecords
<1>6. UnresolvedAreUndefined' /\ ResolvesToItsFirstResult'
  BY <1>1, <1>3
  DEF RunInv, UnresolvedAreUndefined, ResolvesToItsFirstResult, Undefined, Entry
<1>7. \A k \in 1 .. Len(<<>>) : <<>>[k].k # 0
  BY <1>2
<1> QED
  BY <1>1, <1>2, <1>5, <1>6, <1>7, EndKeeps

-----------------------------------------------------------------------------
\* The collector only takes what the stack does not hold.
LEMMA CollectKeeps ==
  ASSUME RunInv, NEW t \in Tasks, Collect(t)
  PROVE  RunInv'
<1>1. /\ UNCHANGED <<run, promise, child, request, received, resolved, wrappers, gstack>>
      /\ freed' = freed \cup {t}
      /\ run[t].pc # "idle" /\ Entry(t, 0) \notin Range(gstack)
  BY DEF Collect
<1>2. RunTypeOK' /\ ChildIsAwaited'
  BY <1>1 DEF RunInv, RunTypeOK, ChildIsAwaited
<1>3. ThreadIndexNamesThread' /\ OnlyActiveThreadsOnStack' /\ NestedInOrder'
  BY <1>1 DEF RunInv, ThreadIndexNamesThread, OnlyActiveThreadsOnStack, NestedInOrder,
              Active, Over, Entry
<1>4. FreedAreUnanchored'
  BY <1>1 DEF RunInv, FreedAreUnanchored, Range, Entry
<1>5. UnresolvedAreUndefined' /\ ResolvesToItsFirstResult'
  BY <1>1
  DEF RunInv, UnresolvedAreUndefined, ResolvesToItsFirstResult, Undefined, Entry
<1> QED
  BY <1>2, <1>3, <1>4, <1>5 DEF RunInv

\* A synchronous execution leaves its result above every coroutine.
LEMMA DoStringSyncKeeps ==
  ASSUME RunInv, DoStringSync
  PROVE  RunInv'
<1> DEFINE n == Len(gstack)
<1>1. /\ gstack \in Seq(Entries)
      /\ n \in Nat
      /\ DOMAIN gstack = 1 .. n
  BY StackFacts DEF RunInv
<1>2. Entry(NoTask, 1) \in Entries /\ Entry(NoTask, 1).k = 1
  BY DEF Entry, Entries
<1>3. UNCHANGED <<run, promise, child, request, received, resolved, wrappers, freed>>
  BY DEF DoStringSync
<1>4. /\ gstack' \in Seq(Entries)
      /\ DOMAIN gstack' = 1 .. n + 1
      /\ gstack'[n + 1] = Entry(NoTask, 1)
      /\ \A i \in 1 .. n : gstack'[i] = gstack[i]
  BY <1>1, <1>2, AppendProperties, LenProperties DEF DoStringSync
<1> HIDE DEF n
<1>5. \A i \in 1 .. n + 1 : gstack'[i].k = 0 => i \in 1 .. n
  BY <1>1, <1>2, <1>4
<1>6. RunTypeOK' /\ ChildIsAwaited'
  BY <1>3, <1>4 DEF RunInv, RunTypeOK, ChildIsAwaited
<1>7. ThreadIndexNamesThread'
  BY <1>1, <1>3, <1>4 DEF RunInv, ThreadIndexNamesThread, Active, Over, Entry
<1>8. OnlyActiveThreadsOnStack'
  BY <1>1, <1>3, <1>4, <1>5 DEF RunInv, OnlyActiveThreadsOnStack, Active, Over
<1>9. NestedInOrder'
  BY <1>3 DEF RunInv, NestedInOrder, Active, Over
<1>10. FreedAreUnanchored'
  <2> SUFFICES ASSUME NEW f \in freed
               PROVE  run[f].pc # "idle" /\ \A i \in 1 .. n + 1 : gstack'[i] # Entry(f, 0)
    BY <1>3, <1>4 DEF FreedAreUnanchored, Range, Entry
  <2>1. run[f].pc # "idle" /\ \A i \in 1 .. n : gstack[i] # Entry(f, 0)
    BY <1>1 DEF RunInv, FreedAreUnanchored, Range
  <2>2. Entry(f, 0).k = 0
    BY DEF Entry
  <2> QED
    BY <1>4, <1>5, <2>1, <2>2
<1>11. UnresolvedAreUndefined' /\ ResolvesToItsFirstResult'
  BY <1>3
  DEF RunInv, UnresolvedAreUndefined, ResolvesToItsFirstResult, Undefined, Entry
<1> QED
  BY <1>6, <1>7, <1>8, <1>9, <1>10, <1>11 DEF RunInv

LEMMA StutterKeeps ==
  ASSUME RunInv, UNCHANGED vars
  PROVE  RunInv'
<1>1. UNCHANGED <<gstack, run, promise, child, request, received, resolved, wrappers, freed>>
  BY DEF vars
<1>2. RunTypeOK' /\ ChildIsAwaited'
  BY <1>1 DEF RunInv, RunTypeOK, ChildIsAwaited
<1>3. \A t \in Tasks : Active(t)' <=> Active(t)
  BY <1>1 DEF Active, Over
<1> QED
  BY <1>1, <1>2, <1>3, QuietKeeps

-----------------------------------------------------------------------------
\* A step that begins another execution does not touch t.
LEMMA BeginTouchesNoOther ==
  ASSUME RunInv, NEW t \in Tasks, NEW u \in Tasks \ {t}, Begin(u) \/ BeginFails(u)
  PROVE  run'[t] = run[t] /\ promise'[t] = promise[t] /\ request'[t] = request[t]
<1>1. CASE Begin(u)
  <2>1. Len(gstack) + 1 \in Nat
    BY StackFacts DEF RunInv
  <2>2. [Idle EXCEPT !.index = Len(gstack) + 1] \in RunRecords
    BY <2>1, RunBoundsAssumption DEF Idle, RunRecords, PCs
  <2> QED
    BY <1>1, <2>2, SliceEffect DEF Begin, RunInv
<1>2. CASE BeginFails(u)
  BY <1>2 DEF BeginFails, RunInv, RunTypeOK
<1> QED
  BY <1>1, <1>2

\* A turn of another execution does not touch t.
LEMMA TurnTouchesNoOther ==
  ASSUME RunInv, NEW t \in Tasks, NEW u \in Tasks \ {t}, Turn(u)
  PROVE  run'[t] = run[t] /\ promise'[t] = promise[t] /\ request'[t] = request[t]
<1>1. run[u] \in RunRecords
  BY DEF RunInv, RunTypeOK, RunRecords
<1>2. CASE Slice(u, run[u])
  BY <1>1, <1>2, SliceEffect DEF RunInv
<1>3. CASE InvokeCallback(u) \/ Settle(u) \/ KeepOutcome(u)
  BY <1>3 DEF InvokeCallback, Settle, KeepOutcome, RunInv, RunTypeOK
<1>4. CASE Resolve(u) \/ Reject(u)
  BY <1>4 DEF Resolve, Reject, RunInv, RunTypeOK
<1>5. CASE run' = [run EXCEPT ![u].pc = "failed"] /\ NoCall(u, "none")
  BY <1>5 DEF NoCall, RunInv, RunTypeOK
<1> QED
  BY <1>2, <1>3, <1>4, <1>5 DEF Turn, AfterTick, AfterPromise, AfterRequest

\* A turn of t keeps what its request holds.
LEMMA TurnKeepsOutcome ==
  ASSUME RunInv, RequestKeepsOutcome, NEW t \in Tasks, Turn(t), run'[t].pc = "request"
  PROVE  IF request'[t].ready THEN Settled(t)' /\ Answer(request'[t]) = CallbackOutcome(t)'
         ELSE request'[t] = NewRequest
<1>1. run[t] \in RunRecords
  BY DEF RunInv, RunTypeOK, RunRecords
<1>2. CASE Slice(t, run[t])
  <2>1. request'[t] = NewRequest
    BY <1>1, <1>2, SliceEffect DEF RunInv
  <2> QED
    BY <2>1 DEF NewRequest
\* Until the promise has settled ready is not fulfilled.
<1>3. CASE InvokeCallback(t) \/ Settle(t)
  <2>1. run[t].pc = "request" /\ ~Settled(t) /\ request' = request
    BY <1>3 DEF InvokeCallback, Settle, Settled
  <2>2. request[t] = NewRequest
    BY <2>1 DEF RequestKeepsOutcome
  <2> QED
    BY <2>1, <2>2 DEF NewRequest
\* Before the handlers run the variables are as begin declared them.
<1>4. CASE KeepOutcome(t)
  <2>1. /\ run' = run /\ promise' = promise /\ Settled(t)
        /\ request[t] = NewRequest /\ request \in [Tasks -> Requests]
    BY <1>4 DEF KeepOutcome, RequestKeepsOutcome, RunInv, RunTypeOK
  <2>2. Settled(t)'
    BY <2>1 DEF Settled
  <2>3. CASE promise[t] = "fulfilled"
    <3>1. request'[t] = [NewRequest EXCEPT !.ready = TRUE, !.result = run[t].yields]
      BY <1>4, <2>1, <2>3 DEF KeepOutcome
    <3>2. /\ request'[t].ready /\ request'[t].rejected = FALSE
          /\ request'[t].result = run[t].yields
      BY <3>1 DEF NewRequest
    <3> QED
      BY <2>1, <2>2, <2>3, <3>2 DEF Answer, CallbackOutcome
  <2>4. CASE promise[t] # "fulfilled"
    <3>1. request'[t] = [NewRequest EXCEPT !.ready = TRUE, !.rejected = TRUE,
                                           !.failure = run[t].yields]
      BY <1>4, <2>1, <2>4 DEF KeepOutcome
    <3>2. /\ request'[t].ready /\ request'[t].rejected
          /\ request'[t].failure = run[t].yields
      BY <3>1 DEF NewRequest
    <3> QED
      BY <2>1, <2>2, <2>4, <3>2 DEF Answer, CallbackOutcome
  <2> QED
    BY <2>3, <2>4
<1>5. CASE Resolve(t) \/ Reject(t) \/ run' = [run EXCEPT ![t].pc = "failed"]
  BY <1>5 DEF Resolve, Reject, RunInv, RunTypeOK
<1> QED
  BY <1>2, <1>3, <1>4, <1>5 DEF Turn, AfterTick, AfterPromise, AfterRequest

\* What the requests hold is kept by every step.
LEMMA OutcomeIsKept ==
  ASSUME RunInv, RequestKeepsOutcome, [Next]_vars
  PROVE  RequestKeepsOutcome'
<1> SUFFICES ASSUME NEW t \in Tasks, run'[t].pc = "request"
             PROVE  IF request'[t].ready
                    THEN Settled(t)' /\ Answer(request'[t]) = CallbackOutcome(t)'
                    ELSE request'[t] = NewRequest
  BY DEF RequestKeepsOutcome, Settled, CallbackOutcome
<1>1. CASE run'[t] = run[t] /\ promise'[t] = promise[t] /\ request'[t] = request[t]
  BY <1>1 DEF RequestKeepsOutcome, Settled, CallbackOutcome
<1>2. ASSUME NEW u \in Tasks, Begin(u) \/ BeginFails(u)
      PROVE  IF request'[t].ready
             THEN Settled(t)' /\ Answer(request'[t]) = CallbackOutcome(t)'
             ELSE request'[t] = NewRequest
  <2>1. CASE u # t
    BY <1>1, <1>2, <2>1, BeginTouchesNoOther
  <2>2. CASE u = t /\ Begin(t)
    <3>1. Len(gstack) + 1 \in Nat
      BY StackFacts DEF RunInv
    <3>2. [Idle EXCEPT !.index = Len(gstack) + 1] \in RunRecords
      BY <3>1, RunBoundsAssumption DEF Idle, RunRecords, PCs
    <3>3. request'[t] = NewRequest
      BY <2>2, <3>2, SliceEffect DEF Begin, RunInv
    <3> QED
      BY <3>3 DEF NewRequest
  <2>3. CASE u = t /\ BeginFails(t)
    BY <2>3 DEF BeginFails, RunInv, RunTypeOK
  <2> QED
    BY <1>2, <2>1, <2>2, <2>3
<1>3. CASE \E u \in Tasks : Turn(u)
  <2>1. PICK u \in Tasks : Turn(u)
    BY <1>3
  <2>2. CASE u # t
    BY <1>1, <2>1, <2>2, TurnTouchesNoOther
  <2>3. CASE u = t
    BY <2>1, <2>3, TurnKeepsOutcome
  <2> QED
    BY <2>2, <2>3
<1>4. CASE \E u \in Tasks : DoString(u) \/ Collect(u)
  BY <1>1, <1>2, <1>4 DEF DoString, Collect
<1>5. CASE \E p, u \in Tasks : CallbackDoesString(p, u)
  BY <1>2, <1>5 DEF CallbackDoesString
<1>6. CASE DoStringSync \/ UNCHANGED vars
  BY <1>1, <1>6 DEF DoStringSync, vars
<1> QED
  BY <1>3, <1>4, <1>5, <1>6 DEF Next

\* The two invariants together are inductive.
LEMMA StepKeeps ==
  RunInv /\ RequestKeepsOutcome /\ [Next]_vars => RunInv' /\ RequestKeepsOutcome'
<1> SUFFICES ASSUME RunInv, RequestKeepsOutcome, [Next]_vars PROVE RunInv'
  BY OutcomeIsKept
<1>1. ASSUME NEW t \in Tasks, DoString(t) PROVE RunInv'
  BY <1>1, DoStringKeeps
<1>2. ASSUME NEW t \in Tasks, Turn(t) PROVE RunInv'
  <2>1. CASE InvokeCallback(t)
    BY <2>1, InvokeCallbackKeeps
  <2>2. CASE Settle(t)
    BY <2>2, SettleKeeps
  <2>3. CASE AfterTick(t)
    BY <2>3, AfterTickKeeps
  <2>4. CASE AfterPromise(t)
    BY <2>4, AfterPromiseKeeps
  <2>5. CASE AfterRequest(t)
    BY <2>5, AfterRequestKeeps
  <2>6. CASE Resolve(t)
    BY <2>6, ResolveKeeps
  <2>7. CASE Reject(t)
    BY <2>7, RejectKeeps
  <2>8. CASE KeepOutcome(t)
    BY <2>8, KeepOutcomeKeeps
  <2> QED
    BY <1>2, <2>1, <2>2, <2>3, <2>4, <2>5, <2>6, <2>7, <2>8 DEF Turn
<1>3. ASSUME NEW t \in Tasks, Collect(t) PROVE RunInv'
  BY <1>3, CollectKeeps
<1>4. ASSUME NEW p \in Tasks, NEW t \in Tasks, CallbackDoesString(p, t) PROVE RunInv'
  BY <1>4, CallbackDoesStringKeeps
<1>5. CASE DoStringSync
  BY <1>5, DoStringSyncKeeps
<1>6. CASE UNCHANGED vars
  BY <1>6, StutterKeeps
<1> QED
  BY <1>1, <1>2, <1>3, <1>4, <1>5, <1>6 DEF Next

-----------------------------------------------------------------------------
\* Every state callByteCode and run go through (src/src/lua.ts,
\* src/src/thread.ts) satisfies the inductive invariant: coroutines are nested
\* on the main stack in the order their executions await each other.
THEOREM RunSafety == Spec => []RunInv
<1>1. Init => RequestKeepsOutcome
  BY DEF Init, Idle, RequestKeepsOutcome
<1> QED
  BY <1>1, InitEstablishes, StepKeeps, PTL DEF Spec

\* While a script waits for a bound call, the variables of begin are as they were
\* declared until the handlers of the callback's promise have run, and then hold
\* what the callback of this call came to (lua.ts:110-136).
THEOREM RequestsKeepOutcomes == Spec => []RequestKeepsOutcome
<1>1. Init => RequestKeepsOutcome
  BY DEF Init, Idle, RequestKeepsOutcome
<1> QED
  BY <1>1, InitEstablishes, StepKeeps, PTL DEF Spec

\* The index callByteCode took before its first await still names its own
\* coroutine when the finally block removes it (lua.ts:212, 226-229).
THEOREM IndexStaysRight == Spec => []ThreadIndexNamesThread
<1>1. RunInv => ThreadIndexNamesThread
  BY DEF RunInv
<1> QED
  BY <1>1, RunSafety, PTL

\* The collector never frees a coroutine that run will resume again
\* (thread.ts:322-364).
THEOREM ResumedThreadsLive == Spec => []ActiveThreadIsNotFreed
<1>1. RunInv => ActiveThreadIsNotFreed
  <2> SUFFICES ASSUME RunInv, NEW t \in Tasks, Active(t), t \in freed
               PROVE  FALSE
    BY DEF ActiveThreadIsNotFreed
  <2>1. run[t].index \in DOMAIN gstack /\ gstack[run[t].index] = Entry(t, 0)
    BY DEF RunInv, ThreadIndexNamesThread
  <2>2. Entry(t, 0) \notin Range(gstack)
    BY DEF RunInv, FreedAreUnanchored
  <2> QED
    BY <2>1, <2>2 DEF Range
<1> QED
  BY <1>1, RunSafety, PTL

\* The finally block of callByteCode takes the coroutine off the main stack,
\* whichever way the execution ended (lua.ts:226-229).
THEOREM EndedThreadsAreReleased == Spec => []NoThreadLeftBehind
<1>1. RunInv => NoThreadLeftBehind
  <2> SUFFICES ASSUME RunInv, NEW t \in Tasks, Over(t),
                      NEW i \in DOMAIN gstack, gstack[i] = Entry(t, 0)
               PROVE  FALSE
    BY DEF NoThreadLeftBehind, Range
  <2>1. gstack[i].k = 0 /\ gstack[i].by = t
    BY DEF Entry
  <2>2. Active(t)
    BY <2>1 DEF RunInv, OnlyActiveThreadsOnStack
  <2> QED
    BY <2>2 DEF Active
<1> QED
  BY <1>1, RunSafety, PTL

\* doString gives its caller the first value of its own script, whatever lies
\* on the main stack (lua.ts:219-225).
THEOREM FirstResultIsRight == Spec => []ResolvesToItsFirstResult
<1>1. RunInv => ResolvesToItsFirstResult
  BY DEF RunInv
<1> QED
  BY <1>1, RunSafety, PTL

-----------------------------------------------------------------------------
\* An execution that awaits a request goes on by no step but AfterRequest.
LEMMA RequestIsAnswered ==
  ASSUME RunInv, RequestKeepsOutcome, [Next]_vars,
         NEW t \in Tasks, run[t].pc = "request", run'[t] # run[t]
  PROVE  Settled(t) /\ received'[t] = CallbackOutcome(t)
<1>1. ASSUME NEW u \in Tasks, Begin(u) \/ BeginFails(u) PROVE FALSE
  <2>1. u # t
    BY <1>1 DEF Begin, BeginFails, Idle
  <2> QED
    BY <1>1, <2>1, BeginTouchesNoOther
<1>2. CASE \E u \in Tasks : Turn(u)
  <2>1. PICK u \in Tasks : Turn(u)
    BY <1>2
  <2>2. u = t
    BY <2>1, TurnTouchesNoOther
  <2>3. AfterRequest(t)
    BY <2>1, <2>2
    DEF Turn, InvokeCallback, Settle, KeepOutcome, AfterTick, AfterPromise, AfterRequest,
        Resolve, Reject
  <2>4. received'[t] = Answer(request[t]) /\ request[t].ready
    BY <2>3 DEF AfterRequest, RunInv, RunTypeOK
  <2> QED
    BY <2>4 DEF RequestKeepsOutcome
<1>3. ~(run' = run)
  OBVIOUS
<1>4. CASE \E u \in Tasks : DoString(u) \/ Collect(u)
  BY <1>1, <1>3, <1>4 DEF DoString, Collect
<1>5. CASE \E p, u \in Tasks : CallbackDoesString(p, u)
  BY <1>1, <1>5 DEF CallbackDoesString
<1>6. CASE DoStringSync \/ UNCHANGED vars
  BY <1>3, <1>6 DEF DoStringSync, vars
<1> QED
  BY <1>2, <1>4, <1>5, <1>6 DEF Next

\* A script that called a bound function goes on only after the callback of this
\* call has settled, with what the callback came to (lua.ts:110-136).
THEOREM OutcomeReachesLua == Spec => CallbackOutcomeReachesLua
<1>1. RunInv /\ RequestKeepsOutcome /\ [Next]_vars =>
        [\A t \in Tasks : run[t].pc = "request" /\ run'[t] # run[t] =>
           Settled(t) /\ received'[t] = CallbackOutcome(t)]_vars
  BY RequestIsAnswered
<1> QED
  BY <1>1, RunSafety, RequestsKeepOutcomes, PTL DEF Spec, CallbackOutcomeReachesLua
=============================================================================
