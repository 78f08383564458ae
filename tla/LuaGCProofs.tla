---------------------------- MODULE LuaGCProofs ----------------------------
(***************************************************************************)
(* Safety of LuaGC for every program, every heap and every number of       *)
(* objects: the tricolour invariant, what it needs of the heap, and that   *)
(* no object the program can reach is freed.                               *)
(*                                                                         *)
(* The invariant has two parts.  WellFormed is about the heap: what is     *)
(* alive refers to nothing free or dead, open upvalues are in a stack,     *)
(* threads that wait have the one they wait for.  Phase is about the       *)
(* colours: what each phase of a collection may count on.  Each operator   *)
(* of LuaGC gets a lemma that says what it does to a state that has both.  *)
(* That a finalizer runs once has an invariant of its own, FinalizersKept: *)
(* it holds while lua_close runs them too, when the other two need not.    *)
(***************************************************************************)
EXTENDS LuaGC, TLAPS, FiniteSetTheorems, SequenceTheorems, NaturalsInduction, WellFoundedInduction

\* The fields of the global_State.
StateFields == {"heap", "marked", "free", "arena", "gcstate", "gray", "grayagain", "weak", "strings",
  "sweep", "udata", "tmudata", "finalized", "owed", "called", "L", "callers", "full", "bad"}
Colours == {"white", "otherwhite", "gray", "black"}
\* The types of the fields.  What is free is white, and no userdata of a list is free.
Types(S) ==
  /\ DOMAIN S = StateFields
  /\ DOMAIN S.heap = Obj
  /\ S.marked \in [Obj -> Colours]
  /\ S.gcstate \in {"pause", "propagate", "sweepstring", "sweep", "finalize"}
  /\ S.free \subseteq Obj
  /\ S.udata \in Seq(Of("userdata")) /\ S.tmudata \in Seq(Of("userdata"))
  /\ S.L \in Of("thread") /\ S.callers \in Seq(Of("thread"))
  /\ Range(S.udata) \cap S.free = {}
  /\ S.bad \subseteq {"barrierf outside a cycle"}
  /\ \A o \in S.free : S.marked[o] = "white"
\* The threads that wait for a coroutine, and the one that runs.
path(S) == Append(S.callers, S.L)
\* A thread that waits has the one it resumed in its last slot, which is not captured.
Waits(S, i) ==
  LET st == S.heap[S.callers[i]].stack
  IN st # <<>> /\ st[Len(st)] = path(S)[i + 1] /\ captures(S, S.callers[i], Len(st)) = {}
\* The threads that run or wait, from the main one, are different ones.
Chain(S) ==
  /\ path(S)[1] = MainThread
  /\ \A i, j \in DOMAIN path(S) : path(S)[i] = path(S)[j] => i = j
  /\ \A i \in DOMAIN S.callers : Waits(S, i)
\* Threads and open upvalues are never black: their values change without a barrier.
NeverBlack(S) ==
  \A o \in Obj : isblack(S, o) => Kind[o] # "thread" /\ (Kind[o] = "upval" => ~ isopen(S, o))
WellFormed(S) == Types(S) /\ Shapes(S) /\ GraphIsLive(S) /\ OpenUpvals(S) /\ Chain(S) /\ NeverBlack(S)

-----------------------------------------------------------------------------
\* What an object has, weak entries and empty nodes included.
fields(S, o) ==
  LET x == S.heap[o]
  IN {x.mt, x.env, x.v} \cup x.refs \cup DOMAIN x.node \cup {x.node[k] : k \in DOMAIN x.node}
tofinalize(S) == Range(S.tmudata)
\* No member of a set is white.
Marked(S, values) == \A v \in values \cap Obj : ~ iswhite(S, v)
\* The tricolour invariant, but for the objects of E: black objects have no white field.
Strong(S, E) == \A o \in Obj \ (tofinalize(S) \cup E) : isblack(S, o) => Marked(S, fields(S, o))
\* Gray objects are in one of the lists of those to traverse, and no others are.
GrayIsListed(S) ==
  \A o \in Obj : isgray(S, o) =>
    /\ Kind[o] # "userdata"
    /\ Kind[o] = "upval" => isopen(S, o)
    /\ Kind[o] \in traversed => o \in S.gray \cup S.grayagain \cup S.weak
ListedIsGray(S) ==
  /\ \A o \in S.gray \cup S.grayagain \cup S.weak : o \in Obj /\ isgray(S, o) /\ Kind[o] \in traversed
  /\ S.gray \cap S.grayagain = {} /\ S.gray \cap S.weak = {} /\ S.grayagain \cap S.weak = {}
  /\ S.weak \subseteq Of("table")
NoneDead(S) == \A o \in Obj : ~ isdead(S, o)
Tricolour(S, E) == NoneDead(S) /\ Strong(S, E) /\ GrayIsListed(S) /\ ListedIsGray(S)
Marking(S, E) == Tricolour(S, E) /\ Marked(S, {MainThread, Registry})
\* What is not swept yet: open upvalues are swept with their thread.
pending(S) == S.sweep \cup S.strings \cup {u \in openupvals(S) : S.heap[u].at[1] \in S.sweep}
Swept(S) ==
  /\ S.sweep \cup S.strings \subseteq Obj
  /\ \A o \in Obj \ (S.free \cup tofinalize(S)) : S.marked[o] = "white" \/ o \in pending(S)
AllWhite(S) == \A o \in Obj \ (S.free \cup tofinalize(S)) : S.marked[o] = "white"
\* What each phase of a collection may count on.
PhaseBut(S, E) ==
  /\ \A u \in tofinalize(S) : ~ isgray(S, u)
  /\ S.gcstate \in {"pause", "finalize"} => AllWhite(S)
  /\ S.gcstate = "propagate" => Marking(S, E)
  /\ S.gcstate \in {"sweepstring", "sweep"} => Swept(S)
  /\ S.gcstate = "sweep" => S.strings = {}
Phase(S) == PhaseBut(S, {})

\* Two states that differ in some fields only.
Same(S, T, fs) == DOMAIN T = DOMAIN S /\ \A f \in StateFields \ fs : T[f] = S[f]
\* What is read from the heap alone does not change with the other fields.
LEMMA HeapDecides ==
  ASSUME NEW S, NEW T, T.heap = S.heap
  PROVE  /\ Shapes(T) = Shapes(S)
         /\ \A o : isopen(T, o) = isopen(S, o)
         /\ \A o : uvalue(T, o) = uvalue(S, o)
         /\ \A o : keys(T, o) = keys(S, o)
         /\ \A o : fields(T, o) = fields(S, o)
         /\ \A o, e : has(T, o, e) = has(S, o, e)
         /\ \A o \in Obj : references(T, o) = references(S, o)
         /\ \A o : referred(T, o) = referred(S, o)
<1>1. Shapes(T) = Shapes(S)
  BY DEF Shapes
<1>2. \A o : isopen(T, o) = isopen(S, o)
  BY DEF isopen
<1>3. \A o : uvalue(T, o) = uvalue(S, o)
  BY DEF uvalue, isopen
<1>4. \A o : keys(T, o) = keys(S, o)
  BY DEF keys
<1>5. \A o : fields(T, o) = fields(S, o)
  BY DEF fields
<1>6. \A o, e : has(T, o, e) = has(S, o, e)
  BY DEF has
<1>7. ASSUME NEW o \in Obj PROVE references(T, o) = references(S, o)
  <2>1. CASE Kind[o] = "table"
    BY <1>3, <1>4, <1>6, <2>1 DEF references
  <2>2. CASE Kind[o] = "userdata"
    BY <2>2 DEF references
  <2>3. CASE Kind[o] \in {"function", "proto"}
    BY <2>3 DEF references
  <2>4. CASE Kind[o] = "upval"
    BY <1>3, <2>4 DEF references
  <2>5. CASE Kind[o] = "thread"
    BY <2>5 DEF references
  <2>6. CASE Kind[o] = "string"
    BY <2>6 DEF references
  <2> QED
    BY <2>1, <2>2, <2>3, <2>4, <2>5, <2>6, TypesAssumption
<1>8. \A o : referred(T, o) = referred(S, o)
  BY <1>2, <1>3, <1>4 DEF referred
<1> QED
  BY <1>1, <1>2, <1>3, <1>4, <1>5, <1>6, <1>7, <1>8

-----------------------------------------------------------------------------
(* Colours, and what a change of them must keep.                             *)
\* What the heap must be depends on no colour but that of the dead.
LEMMA SameGraph ==
  ASSUME NEW S, WellFormed(S), NEW T, T.heap = S.heap, T.free = S.free, T.L = S.L,
         T.callers = S.callers, T.tmudata = S.tmudata, live(T) = live(S)
  PROVE  Shapes(T) /\ GraphIsLive(T) /\ OpenUpvals(T) /\ Chain(T)
<1>1. Shapes(T)
  BY HeapDecides DEF WellFormed
<1>2. GraphIsLive(T)
  <2>1. roots(T) = roots(S)
    BY DEF roots
  <2>2. \A o : referred(T, o) = referred(S, o)
    BY HeapDecides
  <2> QED
    BY <2>1, <2>2 DEF WellFormed, GraphIsLive
<1>3. openupvals(T) = openupvals(S)
  BY DEF openupvals, isopen
<1>4. OpenUpvals(T)
  BY <1>3 DEF WellFormed, OpenUpvals
<1>5. path(T) = path(S)
  BY DEF path
<1>6. Chain(T)
  <2>1. Chain(S)
    BY DEF WellFormed
  <2>2. ASSUME NEW i \in DOMAIN S.callers PROVE Waits(T, i)
    <3>1. Waits(S, i)
      BY <2>1 DEF Chain
    <3>2. captures(T, S.callers[i], Len(S.heap[S.callers[i]].stack)) = {}
      BY <3>1, <1>3 DEF Waits, captures
    <3> QED
      BY <3>1, <3>2, <1>5 DEF Waits
  <2> QED
    BY <1>5, <2>1, <2>2 DEF Chain
<1> QED
  BY <1>1, <1>2, <1>4, <1>6

\* What a change of colours must keep.
Recoloured(S, T, E) ==
  /\ Same(S, T, {"marked", "gray"})
  /\ T.marked \in [Obj -> Colours]
  /\ T.gray = S.gray \cup {o \in Obj : T.marked[o] # S.marked[o] /\ Kind[o] \in traversed}
  /\ \A o \in Obj : T.marked[o] # S.marked[o] =>
       /\ o \notin S.free /\ S.marked[o] = "white"
       /\ \/ /\ T.marked[o] = "black"
             /\ Kind[o] = "userdata" \/ (Kind[o] = "upval" /\ ~ isopen(S, o))
             /\ o \in tofinalize(S) \cup E \/ Marked(T, fields(S, o))
          \/ /\ T.marked[o] = "gray"
             /\ Kind[o] # "userdata" /\ (Kind[o] = "upval" => isopen(S, o))

\* Marking white objects keeps the tricolour invariant when it marks what they have.
LEMMA RecolouredKeepsColours ==
  ASSUME NEW S, WellFormed(S), NEW E, Tricolour(S, E), NEW T, Recoloured(S, T, E)
  PROVE  WellFormed(T) /\ Tricolour(T, E)
<1> USE DEF StateFields
<1>1. /\ T.heap = S.heap /\ T.free = S.free /\ T.L = S.L /\ T.callers = S.callers /\ T.tmudata = S.tmudata
      /\ T.udata = S.udata /\ T.gcstate = S.gcstate /\ T.grayagain = S.grayagain /\ T.weak = S.weak
      /\ T.bad = S.bad /\ DOMAIN T = DOMAIN S
  BY DEF Recoloured, Same, WellFormed, Types
<1>2. NoneDead(T)
  BY DEF NoneDead, isdead, Recoloured, Tricolour
<1>3. live(T) = live(S)
  BY <1>1, <1>2 DEF live, NoneDead, Tricolour
<1>4. Shapes(T) /\ GraphIsLive(T) /\ OpenUpvals(T) /\ Chain(T)
  BY <1>1, <1>3, SameGraph
<1>5. \A o : fields(T, o) = fields(S, o) /\ isopen(T, o) = isopen(S, o)
  BY <1>1, HeapDecides
<1>6. \A o \in Obj : ~ iswhite(S, o) => T.marked[o] = S.marked[o]
  BY DEF Recoloured, iswhite
<1>7. \A X : Marked(S, X) => Marked(T, X)
  BY <1>6 DEF Marked, iswhite
<1>8. Types(T)
  BY <1>1 DEF Types, WellFormed, Recoloured
<1>9. NeverBlack(T)
  <2>1. ASSUME NEW o \in Obj, isblack(T, o) PROVE Kind[o] # "thread" /\ (Kind[o] = "upval" => ~ isopen(T, o))
    BY <2>1, <1>5 DEF Recoloured, WellFormed, NeverBlack, isblack
  <2> QED
    BY <2>1 DEF NeverBlack
<1>10. Strong(T, E)
  <2>1. ASSUME NEW o \in Obj \ (tofinalize(T) \cup E), isblack(T, o) PROVE Marked(T, fields(T, o))
    <3>1. o \notin tofinalize(S) \cup E
      BY <1>1 DEF tofinalize
    <3>2. CASE T.marked[o] = S.marked[o]
      BY <3>1, <3>2, <2>1, <1>5, <1>7 DEF Tricolour, Strong, isblack
    <3>3. CASE T.marked[o] # S.marked[o]
      BY <3>1, <3>3, <2>1, <1>5 DEF Recoloured, isblack
    <3> QED
      BY <3>2, <3>3
  <2> QED
    BY <2>1 DEF Strong
<1>11. GrayIsListed(T)
  <2>1. ASSUME NEW o \in Obj, isgray(T, o)
        PROVE  /\ Kind[o] # "userdata"
               /\ Kind[o] = "upval" => isopen(T, o)
               /\ Kind[o] \in traversed => o \in T.gray \cup T.grayagain \cup T.weak
    BY <2>1, <1>1, <1>5 DEF Recoloured, Tricolour, GrayIsListed, isgray
  <2> QED
    BY <2>1 DEF GrayIsListed
<1>12. ListedIsGray(T)
  <2>1. \A o \in T.gray \cup T.grayagain \cup T.weak : o \in Obj /\ isgray(T, o) /\ Kind[o] \in traversed
    BY <1>1 DEF Recoloured, Tricolour, ListedIsGray, isgray, traversed
  <2>2. T.gray \cap T.grayagain = {} /\ T.gray \cap T.weak = {}
    BY <1>1 DEF Recoloured, Tricolour, ListedIsGray, isgray
  <2> QED
    BY <1>1, <2>1, <2>2 DEF Tricolour, ListedIsGray
<1> QED
  BY <1>2, <1>4, <1>7, <1>8, <1>9, <1>10, <1>11, <1>12 DEF WellFormed, Tricolour

\* Marking takes no mark away.
LEMMA RecolouredGrows ==
  ASSUME NEW S, NEW T, NEW E, Recoloured(S, T, E)
  PROVE  \A X : Marked(S, X) => Marked(T, X)
<1>1. \A o \in Obj : ~ iswhite(S, o) => T.marked[o] = S.marked[o]
  BY DEF Recoloured, iswhite
<1> QED
  BY <1>1 DEF Marked, iswhite

\* The same with the roots marked.
LEMMA RecolouredKeeps ==
  ASSUME NEW S, WellFormed(S), NEW E, Marking(S, E), NEW T, Recoloured(S, T, E)
  PROVE  WellFormed(T) /\ Marking(T, E)
BY RecolouredKeepsColours, RecolouredGrows DEF Marking

\* The value of an upvalue is one of those it refers to.
LEMMA UvalueIsReferred ==
  ASSUME NEW S, WellFormed(S), NEW u \in Of("upval"), u \notin S.free
  PROVE  uvalue(S, u) \in Data /\ uvalue(S, u) \in referred(S, u)
<1>1. Shaped(S.heap[u], Kind[u])
  BY DEF WellFormed, Shapes, Of
<1>2. CASE isopen(S, u)
  <2>1. u \in openupvals(S)
    BY <1>2 DEF openupvals
  <2> DEFINE th == S.heap[u].at[1]
             n == S.heap[u].at[2]
  <2>2. n \in 1..Len(S.heap[th].stack)
    BY <2>1 DEF WellFormed, OpenUpvals
  <2>3. th \in Obj
    BY <1>1, <1>2 DEF Shaped, isopen, Of
  <2>4. S.heap[th].stack \in Seq(Data)
    BY <2>3 DEF WellFormed, Shapes, Shaped
  <2>5. uvalue(S, u) = S.heap[th].stack[n]
    BY <1>2 DEF uvalue
  <2>6. uvalue(S, u) \in Data
    BY <2>2, <2>4, <2>5
  <2>7. uvalue(S, u) \in referred(S, u)
    BY <1>2 DEF referred
  <2> QED
    BY <2>6, <2>7
<1>3. CASE ~ isopen(S, u)
  BY <1>1, <1>3 DEF uvalue, referred, Shaped
<1> QED
  BY <1>2, <1>3

\* What a userdata and an upvalue have.
LEMMA FieldsByKind ==
  ASSUME NEW S, Shapes(S), NEW o \in Obj
  PROVE  /\ Kind[o] = "userdata" => fields(S, o) \cap Obj \subseteq {S.heap[o].mt, S.heap[o].env}
         /\ Kind[o] = "upval" => fields(S, o) \cap Obj \subseteq {S.heap[o].v}
<1>1. Shaped(S.heap[o], Kind[o])
  BY DEF Shapes
<1> QED
  BY <1>1, TypesAssumption DEF Shaped, fields

turnsblack(S, o) == Kind[o] = "userdata" \/ (Kind[o] = "upval" /\ ~ isopen(S, o))

\* What setmarks does: the colour of each object depends on its type.
LEMMA SetmarksMarks ==
  ASSUME NEW S, Types(S), NEW objs \in SUBSET Obj, \A o \in objs : ~ isdead(S, o),
         NEW T, T = setmarks(S, objs)
  PROVE  /\ Same(S, T, {"marked", "gray"})
         /\ T.marked \in [Obj -> Colours]
         /\ \A o \in Obj : T.marked[o] = IF o \notin objs THEN S.marked[o]
                                          ELSE IF turnsblack(S, o) THEN "black" ELSE "gray"
         /\ T.gray = S.gray \cup {o \in objs : Kind[o] \in traversed}
<1>1. T = [S EXCEPT !.marked = [o \in Obj |-> IF o \notin objs THEN S.marked[o]
                                              ELSE IF turnsblack(S, o) THEN "black" ELSE "gray"],
                    !.gray = S.gray \cup {o \in objs : Kind[o] \in traversed}]
  BY DEF setmarks, lua_assert, turnsblack
<1>2. DOMAIN S = StateFields
  BY DEF Types
<1>3. T.gray = S.gray \cup {o \in objs : Kind[o] \in traversed}
  BY <1>1, <1>2 DEF StateFields
<1>4. T.marked = [o \in Obj |-> IF o \notin objs THEN S.marked[o]
                                              ELSE IF turnsblack(S, o) THEN "black" ELSE "gray"]
  BY <1>1, <1>2 DEF StateFields
<1>5. Same(S, T, {"marked", "gray"})
  BY <1>1, <1>2 DEF StateFields, Same
<1>6. T.marked \in [Obj -> Colours]
  BY <1>4 DEF Types, Colours
<1> QED
  BY <1>3, <1>4, <1>5, <1>6

\* What markobject marks of an object, and with it.
LEMMA MarkingKeeps ==
  ASSUME NEW S, WellFormed(S), NEW E, Tricolour(S, E), NEW objs \in SUBSET (Obj \ S.free),
         \A o \in objs : iswhite(S, o), NEW T, T = reallymarkobject(S, objs)
  PROVE  /\ Recoloured(S, T, E) /\ Marked(T, objs)
         /\ \A u \in Of("upval") : T.marked[u] # S.marked[u] => Marked(T, {uvalue(S, u)})
         /\ T.gray = S.gray \cup {o \in withfields(S, withvalues(S, objs)) : Kind[o] \in traversed}
<1>a. PICK A : A = withvalues(S, objs)
  OBVIOUS
<1> DEFINE F == UNION {{S.heap[u].mt, S.heap[u].env} : u \in A \cap Of("userdata")}
           B == A \cup {o \in Obj \cap F : iswhite(S, o)}
<1>0. T = setmarks(S, B) /\ B = withfields(S, withvalues(S, objs))
  <2>1. B = withfields(S, A)
    BY DEF withfields
  <2> QED
    BY <1>a, <2>1 DEF reallymarkobject
<1>1. \A o \in Obj : iswhite(S, o) => S.marked[o] = "white"
  BY DEF Tricolour, NoneDead, isdead, iswhite
<1>2. \A o \in Obj \ S.free : o \in live(S)
  BY DEF live, Tricolour, NoneDead
<1>3. \A o \in live(S) : referred(S, o) \cap Obj \subseteq Obj \ S.free
  BY DEF WellFormed, GraphIsLive, live
<1>4. ASSUME NEW o \in A
      PROVE  o \in Obj /\ o \notin S.free /\ iswhite(S, o) /\ (o \in objs \/ o \in Data)
  <2>1. CASE o \in objs
    BY <2>1
  <2>2. CASE o \notin objs
    <3>1. PICK u \in objs \cap Of("upval") : o = uvalue(S, u) /\ o \in Obj /\ iswhite(S, o)
      BY <1>a, <1>4, <2>2 DEF withvalues
    <3>2. o \in Data /\ o \in referred(S, u)
      BY <3>1, UvalueIsReferred
    <3> QED
      BY <3>1, <3>2, <1>2, <1>3
  <2> QED
    BY <2>1, <2>2
<1>5. ASSUME NEW o \in B
      PROVE  o \in Obj /\ o \notin S.free /\ iswhite(S, o) /\ (o \in A \/ o \in Of("table"))
  <2>1. CASE o \in A
    BY <2>1, <1>4
  <2>2. CASE o \notin A
    <3>1. PICK u \in A \cap Of("userdata") : o \in {S.heap[u].mt, S.heap[u].env} /\ o \in Obj /\ iswhite(S, o)
      BY <1>5, <2>2
    <3>2. u \in Obj /\ u \notin S.free
      BY <3>1, <1>4
    <3>3. o \in referred(S, u)
      BY <3>1 DEF referred
    <3>4. Shaped(S.heap[u], Kind[u])
      BY <3>2 DEF WellFormed, Shapes
    <3>5. o \in Of("table")
      BY <3>1, <3>4, TypesAssumption DEF Shaped
    <3> QED
      BY <3>1, <3>2, <3>3, <3>5, <1>2, <1>3
  <2> QED
    BY <2>1, <2>2
<1> HIDE DEF F, B
<1>7. /\ Same(S, T, {"marked", "gray"})
      /\ T.marked \in [Obj -> Colours]
      /\ \A o \in Obj : T.marked[o] = IF o \notin B THEN S.marked[o]
                                       ELSE IF turnsblack(S, o) THEN "black" ELSE "gray"
      /\ T.gray = S.gray \cup {o \in B : Kind[o] \in traversed}
  <2>1. \A o \in B : ~ isdead(S, o)
    BY <1>5 DEF Tricolour, NoneDead
  <2>2. B \in SUBSET Obj
    BY <1>5
  <2> QED
    BY <1>0, <2>1, <2>2, SetmarksMarks DEF WellFormed
<1>8. objs \subseteq A /\ A \subseteq B
  BY <1>a DEF B, withvalues
<1>9. \A o \in Obj : T.marked[o] # S.marked[o] <=> o \in B
  BY <1>1, <1>5, <1>7 DEF iswhite
<1>10. \A o \in Obj : iswhite(T, o) => iswhite(S, o) /\ o \notin B
  BY <1>5, <1>7 DEF iswhite
<1>11. ASSUME NEW o \in B, turnsblack(S, o) PROVE Marked(T, fields(S, o))
  <2>1. o \in Obj /\ o \in A /\ (Kind[o] = "upval" => o \in objs)
    BY <1>11, <1>4, <1>5 DEF turnsblack, Of, Data
  <2>2. CASE Kind[o] = "userdata"
    <3>0. o \in A \cap Of("userdata")
      BY <2>1, <2>2 DEF Of
    <3>1. ASSUME NEW v \in {S.heap[o].mt, S.heap[o].env} \cap Obj, iswhite(S, v) PROVE v \in B
      BY <3>0, <3>1 DEF B, F
    <3> QED
      BY <2>1, <2>2, <3>1, <1>10, FieldsByKind DEF Marked, WellFormed
  <2>3. CASE Kind[o] = "upval" /\ ~ isopen(S, o)
    <3>1. uvalue(S, o) = S.heap[o].v
      BY <2>3 DEF uvalue
    <3>2. S.heap[o].v \in Obj /\ iswhite(S, S.heap[o].v) => S.heap[o].v \in A
      BY <1>a, <2>1, <2>3, <3>1 DEF withvalues, Of
    <3> QED
      BY <2>1, <2>3, <3>2, <1>8, <1>10, FieldsByKind DEF Marked, WellFormed
  <2> QED
    BY <1>11, <2>2, <2>3 DEF turnsblack
<1>12. Marked(T, objs)
  BY <1>8, <1>10 DEF Marked
<1>13. T.gray = S.gray \cup {o \in Obj : T.marked[o] # S.marked[o] /\ Kind[o] \in traversed}
  BY <1>5, <1>7, <1>9
<1>14. ASSUME NEW o \in Obj, T.marked[o] # S.marked[o]
       PROVE  /\ o \notin S.free /\ S.marked[o] = "white"
              /\ \/ /\ T.marked[o] = "black"
                    /\ Kind[o] = "userdata" \/ (Kind[o] = "upval" /\ ~ isopen(S, o))
                    /\ o \in tofinalize(S) \cup E \/ Marked(T, fields(S, o))
                 \/ /\ T.marked[o] = "gray"
                    /\ Kind[o] # "userdata" /\ (Kind[o] = "upval" => isopen(S, o))
  BY <1>1, <1>5, <1>7, <1>9, <1>11, <1>14 DEF turnsblack
<1>15. ASSUME NEW u \in Of("upval"), T.marked[u] # S.marked[u] PROVE Marked(T, {uvalue(S, u)})
  <2>1. u \in objs
    BY <1>15, <1>4, <1>5, <1>9 DEF Of, Data
  <2>2. uvalue(S, u) \in Obj /\ iswhite(S, uvalue(S, u)) => uvalue(S, u) \in A
    BY <1>a, <1>15, <2>1 DEF withvalues
  <2> QED
    BY <2>2, <1>8, <1>10 DEF Marked
<1> QED
  BY <1>0, <1>7, <1>12, <1>13, <1>14, <1>15 DEF Recoloured

-----------------------------------------------------------------------------
(* Marking, and traversing gray objects.                                     *)
\* What markobject marks.
marks(S, values) == withfields(S, withvalues(S, {o \in values \cap Obj : iswhite(S, o)}))

\* markobject marks the values and keeps the tricolour invariant.
LEMMA MarkobjectKeepsColours ==
  ASSUME NEW S, WellFormed(S), NEW E, Tricolour(S, E), NEW values, values \cap S.free = {},
         NEW T, T = markobject(S, values)
  PROVE  /\ WellFormed(T) /\ Tricolour(T, E) /\ Recoloured(S, T, E) /\ Marked(T, values)
         /\ \A u \in Of("upval") : T.marked[u] # S.marked[u] => Marked(T, {uvalue(S, u)})
         /\ T.gray = S.gray \cup {o \in marks(S, values) : Kind[o] \in traversed}
<1>1. PICK objs : objs = {o \in values \cap Obj : iswhite(S, o)}
  OBVIOUS
<1>2. objs \in SUBSET (Obj \ S.free) /\ \A o \in objs : iswhite(S, o)
  BY <1>1
<1>3. T = reallymarkobject(S, objs)
  BY <1>1 DEF markobject
<1>4. /\ Recoloured(S, T, E) /\ Marked(T, objs)
      /\ \A u \in Of("upval") : T.marked[u] # S.marked[u] => Marked(T, {uvalue(S, u)})
      /\ T.gray = S.gray \cup {o \in withfields(S, withvalues(S, objs)) : Kind[o] \in traversed}
  BY <1>2, <1>3, MarkingKeeps
<1>5. WellFormed(T) /\ Tricolour(T, E)
  BY <1>4, RecolouredKeepsColours
<1>6. Marked(T, values)
  <2>1. Marked(S, values \ objs)
    BY <1>1 DEF Marked
  <2>2. Marked(T, values \ objs)
    BY <2>1, <1>4, RecolouredGrows
  <2> QED
    BY <2>2, <1>4 DEF Marked
<1>7. marks(S, values) = withfields(S, withvalues(S, objs))
  BY <1>1 DEF marks
<1> QED
  BY <1>4, <1>5, <1>6, <1>7

\* The same with the roots marked.
LEMMA MarkobjectKeeps ==
  ASSUME NEW S, WellFormed(S), NEW E, Marking(S, E), NEW values, values \cap S.free = {},
         NEW T, T = markobject(S, values)
  PROVE  /\ WellFormed(T) /\ Marking(T, E) /\ Recoloured(S, T, E) /\ Marked(T, values)
         /\ \A u \in Of("upval") : T.marked[u] # S.marked[u] => Marked(T, {uvalue(S, u)})
         /\ T.gray = S.gray \cup {o \in marks(S, values) : Kind[o] \in traversed}
<1>1. /\ WellFormed(T) /\ Tricolour(T, E) /\ Recoloured(S, T, E) /\ Marked(T, values)
      /\ \A u \in Of("upval") : T.marked[u] # S.marked[u] => Marked(T, {uvalue(S, u)})
      /\ T.gray = S.gray \cup {o \in marks(S, values) : Kind[o] \in traversed}
  BY MarkobjectKeepsColours DEF Marking
<1>2. Marking(T, E)
  BY <1>1, RecolouredGrows DEF Marking
<1> QED
  BY <1>1, <1>2

\* The tables of T have some of the nodes they have in S.
Pruned(S, T) ==
  /\ DOMAIN T.heap = Obj
  /\ \A o \in Obj :
       /\ DOMAIN T.heap[o] = ObjectFields
       /\ \A f \in ObjectFields \ {"node"} : T.heap[o][f] = S.heap[o][f]
       /\ DOMAIN T.heap[o].node \subseteq DOMAIN S.heap[o].node
       /\ \A k \in DOMAIN T.heap[o].node : T.heap[o].node[k] = S.heap[o].node[k]

\* Removing the nodes of a table leaves its other fields.
LEMMA PrunedObject ==
  ASSUME NEW S, NEW T, Pruned(S, T), NEW o \in Obj
  PROVE  /\ T.heap[o].mt = S.heap[o].mt /\ T.heap[o].env = S.heap[o].env /\ T.heap[o].refs = S.heap[o].refs
         /\ T.heap[o].v = S.heap[o].v /\ T.heap[o].at = S.heap[o].at /\ T.heap[o].stack = S.heap[o].stack
         /\ T.heap[o].meta = S.heap[o].meta
BY DEF Pruned, ObjectFields

\* Removing nodes changes no upvalue and no metatable, and gives no field.
LEMMA PrunedHeap ==
  ASSUME NEW S, Shapes(S), NEW T, Pruned(S, T), NEW o \in Obj
  PROVE  /\ isopen(T, o) = isopen(S, o)
         /\ uvalue(T, o) = uvalue(S, o)
         /\ \A e : has(T, o, e) = has(S, o, e)
         /\ fields(T, o) \subseteq fields(S, o)
         /\ keys(T, o) \subseteq keys(S, o)
         /\ referred(T, o) \subseteq referred(S, o)
         /\ Shaped(T.heap[o], Kind[o])
         /\ keys(T, o) = keys(S, o) => references(T, o) = references(S, o)
<1>1. Shaped(S.heap[o], Kind[o])
  BY DEF Shapes
<1>2. isopen(T, o) = isopen(S, o)
  BY PrunedObject DEF isopen
<1>3. uvalue(T, o) = uvalue(S, o)
  <2>1. CASE isopen(S, o)
    <3>1. PICK th \in Obj : th = S.heap[o].at[1]
      BY <1>1, <2>1 DEF Shaped, isopen, Of
    <3>2. T.heap[th].stack = S.heap[th].stack
      BY PrunedObject
    <3>3. T.heap[o].at = S.heap[o].at
      BY PrunedObject
    <3> QED
      BY <1>2, <2>1, <3>1, <3>2, <3>3 DEF uvalue
  <2>2. CASE ~ isopen(S, o)
    BY <1>2, <2>2, PrunedObject DEF uvalue
  <2> QED
    BY <2>1, <2>2
<1>4. \A e : has(T, o, e) = has(S, o, e)
  <2>1. S.heap[o].mt # None => S.heap[o].mt \in Obj
    BY <1>1 DEF Shaped, Of
  <2> QED
    BY <2>1, PrunedObject DEF has
<1>5. /\ DOMAIN T.heap[o].node \subseteq DOMAIN S.heap[o].node
      /\ \A k \in DOMAIN T.heap[o].node : T.heap[o].node[k] = S.heap[o].node[k]
  BY DEF Pruned
<1>6. fields(T, o) \subseteq fields(S, o)
  BY <1>5, PrunedObject DEF fields
<1>7. keys(T, o) \subseteq keys(S, o)
  BY <1>5 DEF keys
<1>8. {T.heap[o].node[k] : k \in keys(T, o)} \subseteq {S.heap[o].node[k] : k \in keys(S, o)}
  BY <1>5, <1>7 DEF keys
<1>9. referred(T, o) \subseteq referred(S, o)
  <2>1. /\ T.heap[o].mt = S.heap[o].mt /\ T.heap[o].env = S.heap[o].env /\ T.heap[o].refs = S.heap[o].refs
        /\ T.heap[o].v = S.heap[o].v /\ T.heap[o].stack = S.heap[o].stack
    BY PrunedObject
  <2> QED
    BY <2>1, <1>2, <1>3, <1>7, <1>8 DEF referred
<1>10. Shaped(T.heap[o], Kind[o])
  <2>1. DOMAIN T.heap[o] = ObjectFields
    BY DEF Pruned
  <2> QED
    BY <1>1, <1>5, <2>1, PrunedObject DEF Shaped
<1>11. ASSUME keys(T, o) = keys(S, o) PROVE references(T, o) = references(S, o)
  <2>1. {T.heap[o].node[k] : k \in keys(T, o)} = {S.heap[o].node[k] : k \in keys(S, o)}
    BY <1>5, <1>11 DEF keys
  <2>2. CASE Kind[o] = "table"
    <3>1. has(T, o, "k") = has(S, o, "k") /\ has(T, o, "v") = has(S, o, "v")
      BY <1>4
    <3>2. T.heap[o].mt = S.heap[o].mt
      BY PrunedObject
    <3> QED
      BY <1>11, <2>1, <2>2, <3>1, <3>2 DEF references
  <2>3. CASE Kind[o] # "table"
    <3>1. /\ T.heap[o].mt = S.heap[o].mt /\ T.heap[o].env = S.heap[o].env /\ T.heap[o].refs = S.heap[o].refs
          /\ T.heap[o].stack = S.heap[o].stack
      BY PrunedObject
    <3>2. CASE Kind[o] = "userdata"
      BY <3>1, <3>2 DEF references
    <3>3. CASE Kind[o] \in {"function", "proto"}
      BY <3>1, <3>3 DEF references
    <3>4. CASE Kind[o] = "upval"
      BY <1>3, <3>4 DEF references
    <3>5. CASE Kind[o] = "thread"
      BY <3>1, <3>5 DEF references
    <3>6. CASE Kind[o] = "string"
      BY <3>6 DEF references
    <3> QED
      BY <2>3, <3>2, <3>3, <3>4, <3>5, <3>6, TypesAssumption
  <2> QED
    BY <2>2, <2>3
<1> QED
  BY <1>2, <1>3, <1>4, <1>6, <1>7, <1>9, <1>10, <1>11

\* Removing nodes keeps the heap well formed.
LEMMA PrunedGraph ==
  ASSUME NEW S, WellFormed(S), NEW T, Pruned(S, T), T.free = S.free, T.L = S.L, T.callers = S.callers
  PROVE  /\ Shapes(T) /\ OpenUpvals(T) /\ Chain(T)
         /\ T.tmudata = S.tmudata /\ live(T) = live(S) => GraphIsLive(T)
<1>0. Shapes(S)
  BY DEF WellFormed
<1>1. Shapes(T)
  BY <1>0, PrunedHeap DEF Shapes
<1>2. ASSUME T.tmudata = S.tmudata, live(T) = live(S) PROVE GraphIsLive(T)
  <2>1. roots(T) = roots(S)
    BY <1>2 DEF roots
  <2>2. \A o \in live(S) : referred(T, o) \subseteq referred(S, o)
    BY <1>0, PrunedHeap DEF live
  <2> QED
    BY <1>2, <2>1, <2>2 DEF WellFormed, GraphIsLive
<1>3. openupvals(T) = openupvals(S)
  BY <1>0, PrunedHeap DEF openupvals, Of
<1>4. OpenUpvals(T)
  <2>1. ASSUME NEW u \in openupvals(S)
        PROVE  /\ T.heap[u].at = S.heap[u].at
               /\ T.heap[S.heap[u].at[1]].stack = S.heap[S.heap[u].at[1]].stack
    <3>1. u \in Obj /\ isopen(S, u)
      BY <2>1 DEF openupvals, Of
    <3>2. Shaped(S.heap[u], Kind[u])
      BY <3>1, <1>0 DEF Shapes
    <3>3. S.heap[u].at[1] \in Obj
      BY <3>1, <3>2 DEF Shaped, isopen, Of
    <3> QED
      BY <3>1, <3>3, PrunedObject
  <2> QED
    BY <1>3, <2>1 DEF WellFormed, OpenUpvals
<1>5. path(T) = path(S)
  BY DEF path
<1>6. \A th, n : captures(T, th, n) = captures(S, th, n)
  <2>1. \A u \in openupvals(S) : T.heap[u].at = S.heap[u].at
    BY PrunedObject DEF openupvals, Of
  <2> QED
    BY <1>3, <2>1 DEF captures
<1>7. Chain(T)
  <2>1. Chain(S) /\ S.callers \in Seq(Of("thread"))
    BY DEF WellFormed, Types
  <2>2. ASSUME NEW i \in DOMAIN S.callers PROVE Waits(T, i)
    <3>1. Waits(S, i)
      BY <2>1 DEF Chain
    <3>2. S.callers[i] \in Obj
      BY <2>1 DEF Of
    <3>3. T.heap[S.callers[i]].stack = S.heap[S.callers[i]].stack
      BY <3>2, PrunedObject
    <3> QED
      BY <3>1, <3>3, <1>5, <1>6 DEF Waits
  <2> QED
    BY <1>5, <2>1, <2>2 DEF Chain
<1> QED
  BY <1>1, <1>2, <1>4, <1>7

\* The traversal marks nothing but what the object refers to.
LEMMA ReferencesAreReferred ==
  ASSUME NEW S, WellFormed(S), NEW o \in Obj, o \notin S.free
  PROVE  references(S, o) \subseteq referred(S, o)
<1>1. CASE Kind[o] = "table"
  <2>1. \A x \in references(S, o) :
          x \in {S.heap[o].mt} \cup keys(S, o) \cup {S.heap[o].node[k] : k \in keys(S, o)}
    BY <1>1 DEF references
  <2> QED
    BY <2>1 DEF referred
<1>2. CASE Kind[o] = "userdata"
  BY <1>2 DEF references, referred
<1>3. CASE Kind[o] \in {"function", "proto"}
  BY <1>3 DEF references, referred
<1>4. CASE Kind[o] = "upval"
  <2>1. uvalue(S, o) \in referred(S, o)
    BY <1>4, UvalueIsReferred DEF Of
  <2> QED
    BY <1>4, <2>1 DEF references
<1>5. CASE Kind[o] = "thread"
  BY <1>5 DEF references, referred
<1>6. CASE Kind[o] = "string"
  BY <1>6 DEF references
<1> QED
  BY <1>1, <1>2, <1>3, <1>4, <1>5, <1>6, TypesAssumption

\* During the marking nothing in use refers to what is free.
LEMMA ReferencesAreNotFree ==
  ASSUME NEW S, WellFormed(S), NEW E, Marking(S, E), NEW o \in Obj, o \notin S.free
  PROVE  references(S, o) \cap S.free = {}
<1>1. o \in live(S)
  BY DEF live, Marking, Tricolour, NoneDead
<1>2. references(S, o) \cap Obj \subseteq live(S)
  BY <1>1, ReferencesAreReferred DEF WellFormed, GraphIsLive
<1> QED
  BY <1>2 DEF live, WellFormed, Types

\* removeentries drops the empty nodes, and keeps the others (traversetable).
LEMMA PruneEntries ==
  ASSUME NEW S, Shapes(S), NEW t \in Of("table"), NEW x, x = removeentries(S, t)
  PROVE  /\ DOMAIN x = ObjectFields
         /\ \A f \in ObjectFields \ {"node"} : x[f] = S.heap[t][f]
         /\ DOMAIN x.node \subseteq DOMAIN S.heap[t].node
         /\ \A k \in DOMAIN x.node : x.node[k] = S.heap[t].node[k]
         /\ keys(S, t) \subseteq DOMAIN x.node
         /\ ~ isweak(S, t) => DOMAIN x.node = keys(S, t)
<1>1. Shaped(S.heap[t], Kind[t])
  BY DEF Shapes, Of
<1>2. DOMAIN S.heap[t] = ObjectFields /\ keys(S, t) \subseteq DOMAIN S.heap[t].node
  BY <1>1 DEF Shaped, keys
<1>3. CASE has(S, t, "k") /\ has(S, t, "v")
  BY <1>2, <1>3 DEF removeentries, isweak
<1>4. CASE ~ (has(S, t, "k") /\ has(S, t, "v"))
  <2>1. x = [S.heap[t] EXCEPT !.node = [k \in keys(S, t) |-> S.heap[t].node[k]]]
    BY <1>4 DEF removeentries
  <2>2. x.node = [k \in keys(S, t) |-> S.heap[t].node[k]]
    BY <1>2, <2>1 DEF ObjectFields
  <2>3. DOMAIN x = ObjectFields /\ \A f \in ObjectFields \ {"node"} : x[f] = S.heap[t][f]
    BY <1>2, <2>1
  <2> QED
    BY <1>2, <2>2, <2>3
<1> QED
  BY <1>3, <1>4

weaktables(S, objs) == {t \in objs \cap Of("table") : isweak(S, t)}

\* What gray2black does in traverse.
Moved(S, G, objs) ==
  /\ Same(S, G, {"heap", "marked", "gray", "weak", "grayagain"})
  /\ DOMAIN G.heap = Obj
  /\ \A o \in Obj : G.heap[o] = IF o \in objs /\ Kind[o] = "table" THEN removeentries(S, o) ELSE S.heap[o]
  /\ G.marked \in [Obj -> Colours]
  /\ \A o \in Obj : G.marked[o] = IF o \in objs \ (weaktables(S, objs) \cup Of("thread")) THEN "black"
                                   ELSE S.marked[o]
  /\ G.gray = S.gray \ objs
  /\ G.weak = S.weak \cup weaktables(S, objs)
  /\ G.grayagain = S.grayagain \cup (objs \cap Of("thread"))

\* What gray2black does: the objects leave the gray list, and those to be looked at again go to another.
LEMMA Gray2blackMoves ==
  ASSUME NEW S, WellFormed(S), Marking(S, {}), NEW objs, objs \subseteq S.gray,
         NEW G, G = gray2black(S, objs, weaktables(S, objs), objs \cap Of("thread"))
  PROVE  Moved(S, G, objs)
<1>1. \A o \in objs : o \in Obj /\ isgray(S, o) /\ o \notin S.weak /\ o \notin S.grayagain
  BY DEF Marking, Tricolour, ListedIsGray
<1>2. PICK W : W = weaktables(S, objs)
  OBVIOUS
<1>3. W \subseteq objs
  BY <1>2 DEF weaktables
<1>4. PICK H : H = objs \cap Of("thread")
  OBVIOUS
<1>5. (W \cup H) \cap (S.weak \cup S.grayagain) = {}
  BY <1>1, <1>3, <1>4
<1>6. G = [S EXCEPT
             !.heap = [o \in Obj |-> IF o \in objs /\ Kind[o] = "table" THEN removeentries(S, o) ELSE S.heap[o]],
             !.marked = [o \in Obj |-> IF o \in objs \ (W \cup H) THEN "black" ELSE S.marked[o]],
             !.gray = S.gray \ objs, !.weak = S.weak \cup W, !.grayagain = S.grayagain \cup H]
  <2>1. \A o \in objs : isgray(S, o)
    BY <1>1
  <2> QED
    BY <1>2, <1>4, <1>5, <2>1 DEF gray2black, lua_assert
<1>7. DOMAIN S = StateFields
  BY DEF WellFormed, Types
<1>8. /\ G.heap = [o \in Obj |-> IF o \in objs /\ Kind[o] = "table" THEN removeentries(S, o) ELSE S.heap[o]]
      /\ G.marked = [o \in Obj |-> IF o \in objs \ (W \cup H) THEN "black" ELSE S.marked[o]]
      /\ G.gray = S.gray \ objs /\ G.weak = S.weak \cup W /\ G.grayagain = S.grayagain \cup H
  BY <1>6, <1>7 DEF StateFields
<1>9. Same(S, G, {"heap", "marked", "gray", "weak", "grayagain"})
  BY <1>6, <1>7 DEF Same, StateFields
<1>10. G.marked \in [Obj -> Colours]
  <2>1. S.marked \in [Obj -> Colours] /\ "black" \in Colours
    BY DEF WellFormed, Types, Colours
  <2>2. \A o \in Obj : (IF o \in objs \ (W \cup H) THEN "black" ELSE S.marked[o]) \in Colours
    BY <2>1
  <2> QED
    BY <1>8, <2>2
<1>11. \A o \in Obj : G.marked[o] = IF o \in objs \ (weaktables(S, objs) \cup Of("thread")) THEN "black" ELSE S.marked[o]
  BY <1>2, <1>4, <1>8
<1> QED
  BY <1>2, <1>4, <1>8, <1>9, <1>10, <1>11 DEF Moved

\* The objects traversed are the only exception to the tricolour invariant, until what they refer to is marked.
LEMMA Gray2blackKeeps ==
  ASSUME NEW S, WellFormed(S), Marking(S, {}), NEW objs, objs \subseteq S.gray,
         NEW G, G = gray2black(S, objs, weaktables(S, objs), objs \cap Of("thread"))
  PROVE  /\ WellFormed(G) /\ Marking(G, objs) /\ Pruned(S, G)
         /\ \A o \in Obj : keys(G, o) = keys(S, o)
         /\ \A o \in objs : isblack(G, o) => fields(G, o) \cap Obj \subseteq references(S, o)
<1>0. PICK W : W = weaktables(S, objs)
  OBVIOUS
<1>1. /\ Same(S, G, {"heap", "marked", "gray", "weak", "grayagain"})
      /\ DOMAIN G.heap = Obj
      /\ \A o \in Obj : G.heap[o] = IF o \in objs /\ Kind[o] = "table" THEN removeentries(S, o) ELSE S.heap[o]
      /\ G.marked \in [Obj -> Colours]
      /\ \A o \in Obj : G.marked[o] = IF o \in objs \ (W \cup Of("thread")) THEN "black" ELSE S.marked[o]
      /\ G.gray = S.gray \ objs
      /\ G.weak = S.weak \cup W
      /\ G.grayagain = S.grayagain \cup (objs \cap Of("thread"))
  <2>1. Moved(S, G, objs)
    BY Gray2blackMoves
  <2>2. \A o \in Obj : G.marked[o] = IF o \in objs \ (W \cup Of("thread")) THEN "black" ELSE S.marked[o]
    BY <1>0, <2>1 DEF Moved
  <2>3. G.weak = S.weak \cup W
    BY <1>0, <2>1 DEF Moved
  <2> QED
    BY <2>1, <2>2, <2>3 DEF Moved
<1>2. /\ G.free = S.free /\ G.L = S.L /\ G.callers = S.callers /\ G.tmudata = S.tmudata
      /\ G.udata = S.udata /\ G.gcstate = S.gcstate /\ G.bad = S.bad /\ DOMAIN G = DOMAIN S
  BY <1>1 DEF Same, StateFields
<1>3. \A o \in objs : o \in Obj /\ isgray(S, o) /\ Kind[o] \in traversed /\ o \notin S.weak /\ o \notin S.grayagain
  BY DEF Marking, Tricolour, ListedIsGray
<1>4. Shapes(S) /\ \A o \in Obj : Shaped(S.heap[o], Kind[o])
  BY DEF WellFormed, Shapes
<1>5. ASSUME NEW o \in Obj
      PROVE  /\ DOMAIN G.heap[o] = ObjectFields
             /\ \A f \in ObjectFields \ {"node"} : G.heap[o][f] = S.heap[o][f]
             /\ DOMAIN G.heap[o].node \subseteq DOMAIN S.heap[o].node
             /\ \A k \in DOMAIN G.heap[o].node : G.heap[o].node[k] = S.heap[o].node[k]
             /\ keys(S, o) \subseteq DOMAIN G.heap[o].node
             /\ o \in objs /\ Kind[o] = "table" /\ ~ isweak(S, o) => DOMAIN G.heap[o].node = keys(S, o)
  <2>1. CASE o \in objs /\ Kind[o] = "table"
    <3>1. G.heap[o] = removeentries(S, o) /\ o \in Of("table")
      BY <1>1, <2>1 DEF Of
    <3>2. PICK x : x = removeentries(S, o)
      OBVIOUS
    <3>3. /\ DOMAIN x = ObjectFields
          /\ \A f \in ObjectFields \ {"node"} : x[f] = S.heap[o][f]
          /\ DOMAIN x.node \subseteq DOMAIN S.heap[o].node
          /\ \A k \in DOMAIN x.node : x.node[k] = S.heap[o].node[k]
          /\ keys(S, o) \subseteq DOMAIN x.node
          /\ ~ isweak(S, o) => DOMAIN x.node = keys(S, o)
      BY <1>4, <3>1, <3>2, PruneEntries
    <3>4. G.heap[o] = x
      BY <3>1, <3>2
    <3> QED
      BY <3>3, <3>4
  <2>2. CASE ~ (o \in objs /\ Kind[o] = "table")
    <3>1. G.heap[o] = S.heap[o] /\ DOMAIN S.heap[o] = ObjectFields
      BY <1>1, <1>4, <2>2 DEF Shaped
    <3> QED
      BY <2>2, <3>1 DEF keys
  <2> QED
    BY <2>1, <2>2
<1>6. Pruned(S, G)
  BY <1>1, <1>5 DEF Pruned
<1>7. \A o \in Obj : keys(G, o) = keys(S, o)
  BY <1>5 DEF keys
<1>8. NoneDead(G)
  BY <1>1 DEF NoneDead, isdead, Marking, Tricolour
<1>9. live(G) = live(S)
  BY <1>2, <1>8 DEF live, NoneDead, Marking, Tricolour
<1>10. Shapes(G) /\ GraphIsLive(G) /\ OpenUpvals(G) /\ Chain(G)
  BY <1>2, <1>6, <1>9, PrunedGraph
<1>11. \A o \in Obj : isopen(G, o) = isopen(S, o) /\ fields(G, o) \subseteq fields(S, o)
  BY <1>4, <1>6, PrunedHeap
<1>12. Types(G)
  <2>1. \A o \in S.free : G.marked[o] = "white"
    BY <1>1, <1>3 DEF WellFormed, Types, isgray
  <2> QED
    BY <1>1, <1>2, <2>1 DEF WellFormed, Types
<1>13. NeverBlack(G)
  <2>1. ASSUME NEW o \in Obj, isblack(G, o) PROVE Kind[o] # "thread" /\ (Kind[o] = "upval" => ~ isopen(G, o))
    BY <1>1, <1>3, <1>11, <2>1 DEF isblack, WellFormed, NeverBlack, traversed, Of
  <2> QED
    BY <2>1 DEF NeverBlack
<1>14. \A X : Marked(S, X) => Marked(G, X)
  BY <1>1 DEF Marked, iswhite
<1>15. Strong(G, objs)
  <2>1. ASSUME NEW o \in Obj \ (tofinalize(G) \cup objs), isblack(G, o) PROVE Marked(G, fields(G, o))
    <3>1. isblack(S, o) /\ o \notin tofinalize(S)
      BY <2>1, <1>1, <1>2 DEF isblack, tofinalize
    <3>2. Marked(S, fields(S, o))
      BY <3>1 DEF Marking, Tricolour, Strong
    <3>3. Marked(S, fields(G, o))
      BY <1>11, <3>2 DEF Marked
    <3> QED
      BY <1>14, <3>3
  <2> QED
    BY <2>1 DEF Strong
<1>16. GrayIsListed(G)
  <2>1. ASSUME NEW o \in Obj, isgray(G, o)
        PROVE  /\ Kind[o] # "userdata"
               /\ Kind[o] = "upval" => isopen(G, o)
               /\ Kind[o] \in traversed => o \in G.gray \cup G.grayagain \cup G.weak
    <3>1. isgray(S, o) /\ (o \in objs => o \in W \cup Of("thread"))
      BY <2>1, <1>1 DEF isgray
    <3>2. /\ Kind[o] # "userdata"
          /\ Kind[o] = "upval" => isopen(S, o)
          /\ Kind[o] \in traversed => o \in S.gray \cup S.grayagain \cup S.weak
      BY <3>1 DEF Marking, Tricolour, GrayIsListed
    <3> QED
      BY <3>1, <3>2, <1>1, <1>11
  <2> QED
    BY <2>1 DEF GrayIsListed
<1>17. W \subseteq objs \cap Of("table")
  BY <1>0 DEF weaktables
<1>18. Of("table") \cap Of("thread") = {}
  BY DEF Of
<1>19. ListedIsGray(G)
  <2>1. ASSUME NEW o \in G.gray \cup G.grayagain \cup G.weak
        PROVE  o \in Obj /\ isgray(G, o) /\ Kind[o] \in traversed
    <3>1. o \in Obj /\ isgray(S, o) /\ Kind[o] \in traversed
      BY <2>1, <1>1, <1>3, <1>17 DEF Marking, Tricolour, ListedIsGray
    <3>2. o \in objs => o \in W \cup Of("thread")
      BY <2>1, <1>1, <1>3
    <3> QED
      BY <3>1, <3>2, <1>1 DEF isgray
  <2>2. G.gray \cap G.grayagain = {} /\ G.gray \cap G.weak = {}
    BY <1>1, <1>17 DEF Marking, Tricolour, ListedIsGray
  <2>3. G.grayagain \cap G.weak = {}
    BY <1>1, <1>3, <1>17, <1>18 DEF Marking, Tricolour, ListedIsGray
  <2>4. G.weak \subseteq Of("table")
    BY <1>1, <1>17 DEF Marking, Tricolour, ListedIsGray
  <2> QED
    BY <2>1, <2>2, <2>3, <2>4 DEF ListedIsGray
<1>20. ASSUME NEW o \in objs, isblack(G, o) PROVE fields(G, o) \cap Obj \subseteq references(S, o)
  <2>1. o \in Obj /\ Kind[o] \in {"table", "function", "proto"} /\ ~ (o \in W)
    BY <1>20, <1>1, <1>3 DEF isblack, isgray, traversed, Of
  <2>2. Shaped(G.heap[o], Kind[o])
    BY <2>1, <1>10 DEF Shapes
  <2>3. G.heap[o].mt = S.heap[o].mt /\ G.heap[o].env = S.heap[o].env /\ G.heap[o].refs = S.heap[o].refs
    BY <2>1, <1>6, PrunedObject
  <2>4. CASE Kind[o] = "table"
    <3>1. ~ isweak(S, o)
      BY <1>0, <2>1, <2>4 DEF weaktables, Of
    <3>2. DOMAIN G.heap[o].node = keys(S, o)
      BY <2>1, <2>4, <3>1, <1>5
    <3>3. \A k \in keys(S, o) : G.heap[o].node[k] = S.heap[o].node[k]
      BY <2>1, <3>2, <1>5
    <3>4. references(S, o) = {S.heap[o].mt} \cup keys(S, o) \cup {S.heap[o].node[k] : k \in keys(S, o)}
      BY <2>4, <3>1 DEF references, isweak
    <3>5. G.heap[o].env = None /\ G.heap[o].v = None /\ G.heap[o].refs = {}
      BY <2>2, <2>4 DEF Shaped
    <3>6. ASSUME NEW x \in fields(G, o) \cap Obj PROVE x \in references(S, o)
      <4>1. x = G.heap[o].mt \/ x = None \/ x \in DOMAIN G.heap[o].node \/ \E k \in DOMAIN G.heap[o].node : x = G.heap[o].node[k]
        BY <3>5, <3>6 DEF fields
      <4> QED
        BY <4>1, <3>2, <3>3, <3>4, <2>3, <3>6, TypesAssumption
    <3> QED
      BY <3>6
  <2>5. CASE Kind[o] \in {"function", "proto"}
    <3>1. G.heap[o].mt = None /\ G.heap[o].v = None /\ DOMAIN G.heap[o].node = {}
      BY <2>2, <2>5 DEF Shaped
    <3>2. references(S, o) = {S.heap[o].env} \cup S.heap[o].refs
      BY <2>5 DEF references
    <3> QED
      BY <2>3, <3>1, <3>2, TypesAssumption DEF fields
  <2> QED
    BY <2>1, <2>4, <2>5
<1>21. Marking(G, objs)
  BY <1>8, <1>14, <1>15, <1>16, <1>19 DEF Marking, Tricolour
<1> QED
  BY <1>6, <1>7, <1>10, <1>12, <1>13, <1>20, <1>21 DEF WellFormed

\* An object that the traversal of some objects marks is marked by the traversal of one of them.
LEMMA MarksShrink ==
  ASSUME NEW S, Shapes(S), NEW G, Pruned(S, G), \A o \in Obj : iswhite(G, o) => iswhite(S, o),
         NEW X \in SUBSET Obj, NEW w \in marks(G, UNION {references(S, o) : o \in X})
  PROVE  w \in Obj /\ iswhite(G, w) /\ \E o \in X : w \in marks(S, references(S, o))
<1>1. PICK U : U = UNION {references(S, o) : o \in X}
  OBVIOUS
<1>2. PICK V : V = {o \in U \cap Obj : iswhite(G, o)}
  OBVIOUS
<1>3. PICK A : A = withvalues(G, V)
  OBVIOUS
<1>4. w \in withfields(G, A)
  BY <1>1, <1>2, <1>3 DEF marks
<1> DEFINE Q(o) == {v \in references(S, o) \cap Obj : iswhite(S, v)}
<1>5. ASSUME NEW v \in V PROVE v \in Obj /\ iswhite(G, v) /\ \E o \in X : v \in Q(o)
  BY <1>1, <1>2, <1>5
<1>6. ASSUME NEW a \in A PROVE a \in Obj /\ iswhite(G, a) /\ \E o \in X : a \in withvalues(S, Q(o))
  <2>1. CASE a \in V
    BY <1>5, <2>1 DEF withvalues
  <2>2. CASE a \notin V
    <3>1. PICK u \in V \cap Of("upval") : a = uvalue(G, u) /\ a \in Obj /\ iswhite(G, a)
      BY <1>3, <1>6, <2>2 DEF withvalues
    <3>2. PICK o \in X : u \in Q(o)
      BY <3>1, <1>5
    <3>3. uvalue(G, u) = uvalue(S, u)
      BY <3>1, PrunedHeap DEF Of
    <3>4. a \in {uvalue(S, x) : x \in Q(o) \cap Of("upval")} \cap Obj /\ iswhite(S, a)
      BY <3>1, <3>2, <3>3
    <3>5. a \in withvalues(S, Q(o))
      BY <3>4 DEF withvalues
    <3> QED
      BY <3>1, <3>5
  <2> QED
    BY <2>1, <2>2
<1> HIDE DEF Q
<1>7. w \in Obj /\ iswhite(G, w) /\ \E o \in X : w \in withfields(S, withvalues(S, Q(o)))
  <2>1. CASE w \in A
    BY <1>6, <2>1 DEF withfields
  <2>2. CASE w \notin A
    <3>1. PICK u \in A \cap Of("userdata") : w \in {G.heap[u].mt, G.heap[u].env} /\ w \in Obj /\ iswhite(G, w)
      BY <1>4, <2>2 DEF withfields
    <3>2. PICK o \in X : u \in withvalues(S, Q(o))
      BY <3>1, <1>6
    <3>3. G.heap[u].mt = S.heap[u].mt /\ G.heap[u].env = S.heap[u].env
      BY <3>1, PrunedObject DEF Of
    <3>4. w \in UNION {{S.heap[x].mt, S.heap[x].env} : x \in withvalues(S, Q(o)) \cap Of("userdata")}
      BY <3>1, <3>2, <3>3
    <3>5. w \in withfields(S, withvalues(S, Q(o)))
      BY <3>1, <3>4 DEF withfields
    <3> QED
      BY <3>1, <3>5
  <2> QED
    BY <2>1, <2>2
<1> QED
  BY <1>7 DEF marks, Q

\* The values of gray upvalues are marked.
GrayUpvals(S) == \A u \in Of("upval") : isgray(S, u) => Marked(S, {uvalue(S, u)})

\* What a traversal of some gray objects does.
Traversed(S, T, objs) ==
  /\ WellFormed(T) /\ Marking(T, {})
  /\ Same(S, T, {"heap", "marked", "gray", "weak", "grayagain"})
  /\ Pruned(S, T) /\ \A o \in Obj : keys(T, o) = keys(S, o)
  /\ \A o \in Obj : ~ iswhite(S, o) => ~ iswhite(T, o)
  /\ \A o \in objs : Marked(T, references(S, o))
  /\ S.weak \subseteq T.weak /\ T.weak \subseteq S.weak \cup objs
  /\ T.grayagain \subseteq S.grayagain \cup (objs \cap Of("thread"))
  /\ GrayUpvals(S) => GrayUpvals(T)
  /\ T.gray \subseteq (S.gray \ objs) \cup {w \in Obj : iswhite(S, w) /\ Kind[w] \in traversed /\
                                                \E o \in objs : w \in marks(S, references(S, o))}

\* The traversal of gray objects keeps the tricolour invariant.
LEMMA TraverseKeeps ==
  ASSUME NEW S, WellFormed(S), Marking(S, {}), NEW objs, objs \subseteq S.gray, NEW T, T = traverse(S, objs)
  PROVE  Traversed(S, T, objs)
<1>1. PICK G : G = gray2black(S, objs, weaktables(S, objs), objs \cap Of("thread"))
  OBVIOUS
<1>2. PICK U : U = UNION {references(S, o) : o \in objs}
  OBVIOUS
<1>3. T = markobject(G, U)
  BY <1>1, <1>2 DEF traverse, weaktables
<1>4. Moved(S, G, objs)
  BY <1>1, Gray2blackMoves
<1>5. /\ WellFormed(G) /\ Marking(G, objs) /\ Pruned(S, G)
      /\ \A o \in Obj : keys(G, o) = keys(S, o)
      /\ \A o \in objs : isblack(G, o) => fields(G, o) \cap Obj \subseteq references(S, o)
  BY <1>1, Gray2blackKeeps
<1>6. Same(S, G, {"heap", "marked", "gray", "weak", "grayagain"})
  BY <1>4 DEF Moved
<1>7. G.free = S.free
  BY <1>6 DEF Same, StateFields
<1>8. \A o \in objs : o \in Obj /\ isgray(S, o) /\ o \notin S.free
  BY DEF Marking, Tricolour, ListedIsGray, WellFormed, Types, isgray
<1>9. U \cap G.free = {}
  <2>1. \A o \in objs : references(S, o) \cap S.free = {}
    BY <1>8, ReferencesAreNotFree
  <2> QED
    BY <1>2, <1>7, <2>1
<1>10. /\ WellFormed(T) /\ Marking(T, objs) /\ Recoloured(G, T, objs) /\ Marked(T, U)
       /\ \A u \in Of("upval") : T.marked[u] # G.marked[u] => Marked(T, {uvalue(G, u)})
       /\ T.gray = G.gray \cup {o \in marks(G, U) : Kind[o] \in traversed}
  BY <1>3, <1>5, <1>9, MarkobjectKeeps
<1>11. Same(G, T, {"marked", "gray"})
  BY <1>10 DEF Recoloured
<1>12. Same(S, T, {"heap", "marked", "gray", "weak", "grayagain"})
  BY <1>6, <1>11 DEF Same
<1>13. T.heap = G.heap /\ T.weak = G.weak /\ T.grayagain = G.grayagain /\ T.tmudata = G.tmudata
  BY <1>11 DEF Same, StateFields
<1>14. Pruned(S, T) /\ \A o \in Obj : keys(T, o) = keys(S, o)
  BY <1>5, <1>13 DEF Pruned, keys
<1>15. \A o \in Obj : iswhite(G, o) => iswhite(S, o)
  BY <1>4, <1>8 DEF Moved, iswhite
<1>16. \A o \in Obj : iswhite(T, o) => iswhite(G, o)
  BY <1>10 DEF Recoloured, iswhite
<1>17. \A o \in objs : Marked(T, references(S, o))
  BY <1>2, <1>10 DEF Marked
<1>18. Marking(T, {})
  <2>1. ASSUME NEW o \in Obj \ tofinalize(T), isblack(T, o) PROVE Marked(T, fields(T, o))
    <3>1. CASE o \in objs
      <4>1. isblack(G, o)
        BY <2>1, <3>1, <1>4, <1>8, <1>10 DEF Moved, Recoloured, isblack, isgray
      <4>2. fields(T, o) \cap Obj \subseteq references(S, o)
        BY <3>1, <4>1, <1>5, <1>13, HeapDecides
      <4> QED
        BY <3>1, <4>2, <1>17 DEF Marked
    <3>2. CASE o \notin objs
      BY <2>1, <3>2, <1>10 DEF Marking, Tricolour, Strong
    <3> QED
      BY <3>1, <3>2
  <2>2. Strong(T, {})
    BY <2>1 DEF Strong
  <2> QED
    BY <2>2, <1>10 DEF Marking, Tricolour
<1>19. S.weak \subseteq T.weak /\ T.weak \subseteq S.weak \cup objs
  BY <1>4, <1>13 DEF Moved, weaktables
<1>20. T.grayagain \subseteq S.grayagain \cup (objs \cap Of("thread"))
  BY <1>4, <1>13 DEF Moved
<1>21. ASSUME GrayUpvals(S) PROVE GrayUpvals(T)
  <2>1. ASSUME NEW u \in Of("upval"), isgray(T, u) PROVE Marked(T, {uvalue(T, u)})
    <3>0. u \in Obj /\ Shapes(S)
      BY DEF Of, WellFormed
    <3>1. uvalue(T, u) = uvalue(S, u) /\ uvalue(G, u) = uvalue(S, u)
      BY <3>0, <1>5, <1>14, PrunedHeap
    <3>2. CASE T.marked[u] # G.marked[u]
      BY <3>1, <3>2, <1>10
    <3>3. CASE T.marked[u] = G.marked[u]
      <4>1. isgray(S, u)
        BY <3>0, <3>3, <2>1, <1>4 DEF Moved, isgray
      <4>2. Marked(S, {uvalue(S, u)})
        BY <4>1, <1>21 DEF GrayUpvals
      <4> QED
        BY <4>2, <3>1, <1>15, <1>16 DEF Marked
    <3> QED
      BY <3>2, <3>3
  <2> QED
    BY <2>1 DEF GrayUpvals
<1>22. ASSUME NEW w \in T.gray, w \notin S.gray \ objs
       PROVE  w \in Obj /\ iswhite(S, w) /\ Kind[w] \in traversed /\ \E o \in objs : w \in marks(S, references(S, o))
  <2>1. w \in marks(G, U) /\ Kind[w] \in traversed
    BY <1>22, <1>4, <1>10 DEF Moved
  <2>2. objs \in SUBSET Obj /\ Shapes(S)
    BY <1>8 DEF WellFormed
  <2>3. w \in Obj /\ iswhite(G, w) /\ \E o \in objs : w \in marks(S, references(S, o))
    BY <2>1, <2>2, <1>2, <1>5, <1>15, MarksShrink
  <2> QED
    BY <2>1, <2>3, <1>15
<1> QED
  BY <1>10, <1>12, <1>14, <1>15, <1>16, <1>17, <1>18, <1>19, <1>20, <1>21, <1>22 DEF Traversed

\* The set that closedset chooses is closed.
LEMMA ClosedSetIsClosed ==
  ASSUME NEW S, NEW next, S.gray \subseteq DOMAIN next, \A o \in DOMAIN next : next[o] \subseteq DOMAIN next,
         NEW X, X = closedset(S, next)
  PROVE  X \subseteq DOMAIN next /\ S.gray \subseteq X /\ \A o \in X : next[o] \subseteq X
<1>1. PICK closed : closed = {Y \in SUBSET DOMAIN next : S.gray \subseteq Y /\ \A o \in Y : next[o] \subseteq Y}
  OBVIOUS
<1>2. X = CHOOSE Y \in closed : \A Z \in closed : Y \subseteq Z
  BY <1>1 DEF closedset
<1>3. PICK least : least = {o \in DOMAIN next : \A Z \in closed : o \in Z}
  OBVIOUS
<1>4. DOMAIN next \in closed
  BY <1>1
<1>5. least \in closed
  <2>1. S.gray \subseteq least
    BY <1>1, <1>3
  <2>2. ASSUME NEW o \in least PROVE next[o] \subseteq least
    BY <1>1, <1>3, <2>2
  <2> QED
    BY <1>1, <1>3, <2>1, <2>2
<1>6. \A Z \in closed : least \subseteq Z
  BY <1>3
<1>7. X \in closed
  BY <1>2, <1>5, <1>6
<1> QED
  BY <1>1, <1>7

\* What propagateall does.
Propagated(S, T) ==
  /\ WellFormed(T) /\ Marking(T, {}) /\ T.gray = {}
  /\ Same(S, T, {"heap", "marked", "gray", "weak", "grayagain"})
  /\ Pruned(S, T) /\ \A o \in Obj : keys(T, o) = keys(S, o)
  /\ \A o \in Obj : ~ iswhite(S, o) => ~ iswhite(T, o)
  /\ \A o \in S.gray : Marked(T, references(S, o))
  /\ S.weak \subseteq T.weak
  /\ \A o \in T.weak : o \in S.weak \/ Marked(T, references(S, o))
  /\ \A o \in T.grayagain : o \in S.grayagain \/ Marked(T, references(S, o))
  /\ T.grayagain \subseteq S.grayagain \cup Of("thread")
  /\ GrayUpvals(S) => GrayUpvals(T)

\* Propagating until no object is gray keeps the tricolour invariant and marks all that gray objects refer to.
LEMMA PropagateallKeeps ==
  ASSUME NEW S, WellFormed(S), Marking(S, {}), NEW T, T = propagateall(S)
  PROVE  Propagated(S, T)
<1>1. PICK D : D = S.gray \cup {w \in Obj \ S.free : iswhite(S, w) /\ Kind[w] \in traversed}
  OBVIOUS
<1>2. PICK next : next = [o \in D |-> newlygray(S, o)]
  OBVIOUS
<1>3. PICK X : X = closedset(S, next)
  OBVIOUS
<1>4. T = traverseall(S, X)
  BY <1>1, <1>2, <1>3 DEF propagateall
<1>5. \A o \in S.gray : o \in Obj /\ isgray(S, o) /\ o \notin S.free /\ Kind[o] \in traversed
  BY DEF Marking, Tricolour, ListedIsGray, WellFormed, Types, isgray
<1>6. ASSUME NEW o \in D
      PROVE  /\ next[o] = S.gray \cup {w \in marks(S, references(S, o)) : Kind[w] \in traversed}
             /\ next[o] \subseteq D
  <2>1. references(S, o) \cap S.free = {}
    BY <1>1, <1>5, <1>6, ReferencesAreNotFree
  <2>2. PICK R : R = markobject(S, references(S, o))
    OBVIOUS
  <2>3. /\ WellFormed(R) /\ Marking(R, {}) /\ Recoloured(S, R, {})
        /\ R.gray = S.gray \cup {w \in marks(S, references(S, o)) : Kind[w] \in traversed}
    BY <2>1, <2>2, MarkobjectKeeps
  <2>4. next[o] = R.gray
    BY <1>2, <1>6, <2>2 DEF newlygray
  <2>5. R.gray \subseteq D
    BY <2>3, <1>1 DEF Recoloured, iswhite
  <2> QED
    BY <2>3, <2>4, <2>5
<1>7. X \subseteq D /\ S.gray \subseteq X /\ \A o \in X : next[o] \subseteq X
  <2>1. DOMAIN next = D /\ S.gray \subseteq D
    BY <1>1, <1>2
  <2>2. \A o \in DOMAIN next : next[o] \subseteq DOMAIN next
    BY <2>1, <1>6
  <2> QED
    BY <2>1, <2>2, <1>3, ClosedSetIsClosed
<1>8. \A o \in X : o \in Obj /\ o \notin S.free /\ Kind[o] \in traversed /\ (o \in S.gray \/ iswhite(S, o))
  BY <1>1, <1>5, <1>7
<1>9. PICK M : M = [S EXCEPT !.marked = [o \in Obj |-> IF o \in X \ S.gray THEN "gray" ELSE S.marked[o]], !.gray = X]
  OBVIOUS
<1>10. T = traverse(M, X)
  BY <1>4, <1>9 DEF traverseall
<1>11. /\ M.marked = [o \in Obj |-> IF o \in X \ S.gray THEN "gray" ELSE S.marked[o]] /\ M.gray = X
       /\ Same(S, M, {"marked", "gray"})
  <2>1. DOMAIN S = StateFields
    BY DEF WellFormed, Types
  <2> QED
    BY <1>9, <2>1 DEF Same, StateFields
<1>12. S.marked \in [Obj -> Colours] /\ M.marked \in [Obj -> Colours]
  <2>1. S.marked \in [Obj -> Colours] /\ "gray" \in Colours
    BY DEF WellFormed, Types, Colours
  <2>2. \A o \in Obj : (IF o \in X \ S.gray THEN "gray" ELSE S.marked[o]) \in Colours
    BY <2>1
  <2> QED
    BY <1>11, <2>1, <2>2
<1>13. \A o \in Obj : M.marked[o] # S.marked[o] <=> o \in X \ S.gray
  <2>1. \A o \in X \ S.gray : S.marked[o] # "gray"
    BY <1>8 DEF iswhite
  <2> QED
    BY <1>11, <2>1
<1>14. Recoloured(S, M, {})
  <2>1. M.gray = S.gray \cup {o \in Obj : M.marked[o] # S.marked[o] /\ Kind[o] \in traversed}
    BY <1>7, <1>8, <1>11, <1>13
  <2>2. ASSUME NEW o \in Obj, M.marked[o] # S.marked[o]
        PROVE  /\ o \notin S.free /\ S.marked[o] = "white"
               /\ M.marked[o] = "gray" /\ Kind[o] # "userdata" /\ Kind[o] # "upval"
    <3>1. o \in X \ S.gray
      BY <2>2, <1>13
    <3> QED
      BY <3>1, <1>8, <1>11 DEF Marking, Tricolour, NoneDead, isdead, iswhite, traversed
  <2> QED
    BY <1>11, <1>12, <2>1, <2>2 DEF Recoloured
<1>15. WellFormed(M) /\ Marking(M, {})
  BY <1>14, RecolouredKeeps
<1>16. Traversed(M, T, X)
  BY <1>10, <1>11, <1>15, TraverseKeeps
<1>17. M.heap = S.heap /\ M.weak = S.weak /\ M.grayagain = S.grayagain
  BY <1>11 DEF Same, StateFields
<1>18. \A o \in Obj : references(M, o) = references(S, o) /\ keys(M, o) = keys(S, o)
  BY <1>17, HeapDecides
<1>19. \A o \in Obj : iswhite(M, o) => iswhite(S, o) /\ o \notin X
  BY <1>8, <1>11 DEF iswhite, Marking, Tricolour, ListedIsGray, isgray
<1>20. Pruned(S, M)
  BY <1>17 DEF WellFormed, Types, Shapes, Shaped, Pruned
<1>21. T.gray = {}
  <2>1. ASSUME NEW w \in T.gray PROVE FALSE
    <3>1. w \in Obj /\ iswhite(M, w) /\ Kind[w] \in traversed /\ \E o \in X : w \in marks(M, references(M, o))
      BY <1>11, <1>16, <2>1 DEF Traversed
    <3>2. PICK o \in X : w \in marks(M, references(S, o))
      BY <3>1, <1>8, <1>18
    <3>3. references(S, o) = UNION {references(S, x) : x \in {o}}
      OBVIOUS
    <3>4. {o} \in SUBSET Obj /\ Shapes(S)
      BY <1>8 DEF WellFormed
    <3>5. \E x \in {o} : w \in marks(S, references(S, x))
      BY <3>2, <3>3, <3>4, <1>19, <1>20, MarksShrink
    <3>6. w \in next[o]
      BY <3>1, <3>5, <1>6, <1>7
    <3>7. w \in X
      BY <3>6, <1>7
    <3> QED
      BY <3>1, <3>7, <1>19
  <2> QED
    BY <2>1
<1>22. Same(S, T, {"heap", "marked", "gray", "weak", "grayagain"})
  BY <1>11, <1>16 DEF Traversed, Same
<1>23. Pruned(S, T) /\ \A o \in Obj : keys(T, o) = keys(S, o)
  BY <1>16, <1>17, <1>18 DEF Traversed, Pruned
<1>24. \A o \in Obj : ~ iswhite(S, o) => ~ iswhite(T, o)
  BY <1>16, <1>19 DEF Traversed
<1>25. \A o \in X : Marked(T, references(S, o))
  BY <1>8, <1>16, <1>18 DEF Traversed
<1>26. /\ S.weak \subseteq T.weak /\ T.weak \subseteq S.weak \cup X
       /\ T.grayagain \subseteq S.grayagain \cup (X \cap Of("thread"))
  BY <1>16, <1>17 DEF Traversed
<1>27. ASSUME GrayUpvals(S) PROVE GrayUpvals(T)
  <2>1. ASSUME NEW u \in Of("upval"), isgray(M, u) PROVE Marked(M, {uvalue(M, u)})
    <3>1. isgray(S, u)
      BY <2>1, <1>8, <1>13 DEF isgray, Of, traversed
    <3>2. Marked(S, {uvalue(S, u)}) /\ uvalue(M, u) = uvalue(S, u)
      BY <3>1, <1>17, <1>27, HeapDecides DEF GrayUpvals
    <3> QED
      BY <3>2, <1>19 DEF Marked
  <2> QED
    BY <2>1, <1>16 DEF GrayUpvals, Traversed
<1>28. /\ \A o \in T.weak : o \in S.weak \/ Marked(T, references(S, o))
       /\ \A o \in T.grayagain : o \in S.grayagain \/ Marked(T, references(S, o))
  BY <1>25, <1>26
<1> QED
  BY <1>7, <1>16, <1>21, <1>22, <1>23, <1>24, <1>25, <1>26, <1>27, <1>28 DEF Propagated, Traversed

\* A set of numbers has a least one.
LEMMA LeastNumber ==
  ASSUME NEW T, T \subseteq Nat, T # {}
  PROVE  \E n \in T : \A m \in T : n <= m
<1> DEFINE R == {p \in Nat \X Nat : p[1] < p[2]}
<1>1. IsWellFoundedOn(R, Nat)
  BY NatLessThanWellFounded DEF OpToRel
<1> HIDE DEF R
<1>2. \E n \in T : \A m \in T : ~ (<<m, n>> \in R)
  BY <1>1, WFMin
<1>3. PICK n \in T : \A m \in T : ~ (<<m, n>> \in R)
  BY <1>2
<1>4. ASSUME NEW m \in T PROVE n <= m
  <2>1. <<m, n>> \in Nat \X Nat /\ m \in Nat /\ n \in Nat
    OBVIOUS
  <2>2. ~ m < n
    BY <1>3, <2>1 DEF R
  <2> QED
    BY <2>1, <2>2
<1> QED
  BY <1>4

\* What holds at 0, and at each number when it holds at the one before, holds up to N.
Inductive(P, N) == 0 \in P /\ \A n \in 1..N : n - 1 \in P => n \in P

\* Induction up to a number, for a set and not for a predicate.
LEMMA Induction ==
  ASSUME NEW N \in Nat, NEW P, Inductive(P, N)
  PROVE  N \in P
<1>1. SUFFICES ASSUME N \notin P PROVE FALSE
  OBVIOUS
<1>2. PICK T : T = {n \in 0..N : n \notin P}
  OBVIOUS
<1>3. T \subseteq Nat /\ T # {}
  BY <1>1, <1>2
<1>4. PICK n \in T : \A m \in T : n <= m
  BY <1>3, LeastNumber
<1>5. n \in 1..N /\ n - 1 \in 0..N /\ ~ n <= n - 1
  <2>1. n \in 0..N /\ n # 0
    BY <1>2, <1>4 DEF Inductive
  <2> QED
    BY <2>1
<1>6. n - 1 \in P
  BY <1>2, <1>4, <1>5
<1> QED
  BY <1>2, <1>4, <1>5, <1>6 DEF Inductive

\* A recursion of N steps that a function gives has a solution.
Iterates(f, x0, N, G) == DOMAIN f = 0..N /\ f[0] = x0 /\ \A n \in 1..N : f[n] = G[<<n, f[n - 1]>>]

\* There is a function that follows such a recursion.
LEMMA RecursionExists ==
  ASSUME NEW X, NEW x0 \in X, NEW N \in Nat, NEW G \in [(1..N) \X X -> X]
  PROVE  \E f \in [0..N -> X] : Iterates(f, x0, N, G)
<1>1. PICK P : P = {n \in 0..N : \E f \in [0..n -> X] : Iterates(f, x0, n, G)}
  OBVIOUS
<1>2. 0 \in P
  <2>1. PICK f : f = [m \in 0..0 |-> x0]
    OBVIOUS
  <2>2. f \in [0..0 -> X] /\ Iterates(f, x0, 0, G)
    BY <2>1 DEF Iterates
  <2> QED
    BY <1>1, <2>2
<1>3. ASSUME NEW n \in 1..N, n - 1 \in P PROVE n \in P
  <2>1. PICK f \in [0..(n - 1) -> X] : Iterates(f, x0, n - 1, G)
    BY <1>1, <1>3
  <2>2. G[<<n, f[n - 1]>>] \in X
    OBVIOUS
  <2>3. PICK h : h = [m \in 0..n |-> IF m = n THEN G[<<n, f[n - 1]>>] ELSE f[m]]
    OBVIOUS
  <2>4. \A m \in 0..n : m # n => m \in 0..(n - 1)
    OBVIOUS
  <2>5. h \in [0..n -> X]
    BY <2>2, <2>3, <2>4
  <2>6. \A m \in 1..n : h[m] = G[<<m, h[m - 1]>>]
    <3>1. ASSUME NEW m \in 1..n PROVE h[m] = G[<<m, h[m - 1]>>]
      <4>1. h[m - 1] = f[m - 1]
        BY <2>3
      <4>2. CASE m = n
        <5>1. h[n] = G[<<n, f[n - 1]>>] /\ h[n - 1] = f[n - 1]
          BY <2>3, <4>1, <4>2
        <5> QED
          BY <4>2, <5>1
      <4>3. CASE m # n
        <5>1. m \in 1..(n - 1) /\ h[m] = f[m]
          BY <2>3, <4>3
        <5>2. f[m] = G[<<m, f[m - 1]>>]
          BY <2>1, <5>1 DEF Iterates
        <5> QED
          BY <4>1, <5>1, <5>2
      <4> QED
        BY <4>2, <4>3
    <3> QED
      BY <3>1
  <2>7. h[0] = x0
    BY <2>1, <2>3 DEF Iterates
  <2>8. n \in 0..N
    OBVIOUS
  <2> QED
    BY <1>1, <2>5, <2>6, <2>7, <2>8 DEF Iterates
<1>4. N \in P
  BY <1>2, <1>3, Induction DEF Inductive
<1> QED
  BY <1>1, <1>4

\* The elements of a sequence with one more.
LEMMA RangeOfAppend ==
  ASSUME NEW D, NEW q \in Seq(D), NEW x \in D
  PROVE  Append(q, x) \in Seq(D) /\ Range(Append(q, x)) = Range(q) \cup {x}
<1>1. PICK r : r = Append(q, x)
  OBVIOUS
<1>2. r \in Seq(D) /\ Len(r) = Len(q) + 1 /\ r[Len(q) + 1] = x /\ \A i \in 1..Len(q) : r[i] = q[i]
  BY <1>1, AppendProperties
<1>3. DOMAIN r = 1..Len(r) /\ DOMAIN q = 1..Len(q) /\ Len(q) \in Nat
  OBVIOUS
<1>4. Range(r) \subseteq Range(q) \cup {x}
  <2>1. ASSUME NEW i \in DOMAIN r PROVE r[i] \in Range(q) \cup {x}
    <3>1. CASE i = Len(q) + 1
      BY <1>2, <3>1
    <3>2. CASE i # Len(q) + 1
      <4>1. i \in 1..Len(q)
        BY <1>2, <1>3, <3>2
      <4> QED
        BY <1>2, <1>3, <4>1 DEF Range
    <3> QED
      BY <3>1, <3>2
  <2> QED
    BY <2>1 DEF Range
<1>5. Range(q) \cup {x} \subseteq Range(r)
  BY <1>2, <1>3 DEF Range
<1> QED
  BY <1>1, <1>4, <1>5

\* The elements of two sequences, one after the other.
LEMMA RangeOfConcat ==
  ASSUME NEW D, NEW q \in Seq(D), NEW r \in Seq(D)
  PROVE  q \o r \in Seq(D) /\ Range(q \o r) = Range(q) \cup Range(r)
<1>1. PICK c : c = q \o r
  OBVIOUS
<1>2. /\ c \in Seq(D) /\ Len(c) = Len(q) + Len(r)
      /\ \A i \in 1..Len(c) : c[i] = IF i <= Len(q) THEN q[i] ELSE r[i - Len(q)]
  BY <1>1, ConcatProperties
<1>3. DOMAIN c = 1..Len(c) /\ DOMAIN q = 1..Len(q) /\ DOMAIN r = 1..Len(r) /\ Len(q) \in Nat /\ Len(r) \in Nat
  BY <1>2
<1>4. Range(c) \subseteq Range(q) \cup Range(r)
  <2>1. ASSUME NEW i \in DOMAIN c PROVE c[i] \in Range(q) \cup Range(r)
    <3>1. CASE i <= Len(q)
      BY <1>2, <1>3, <3>1 DEF Range
    <3>2. CASE ~ i <= Len(q)
      <4>1. i - Len(q) \in 1..Len(r) /\ c[i] = r[i - Len(q)]
        BY <1>2, <1>3, <3>2
      <4> QED
        BY <1>3, <4>1 DEF Range
    <3> QED
      BY <3>1, <3>2
  <2> QED
    BY <2>1 DEF Range
<1>5. Range(q) \subseteq Range(c)
  <2>1. ASSUME NEW i \in DOMAIN q PROVE i \in DOMAIN c /\ c[i] = q[i]
    BY <1>2, <1>3
  <2> QED
    BY <2>1 DEF Range
<1>6. Range(r) \subseteq Range(c)
  <2>1. ASSUME NEW i \in DOMAIN r PROVE r[i] \in Range(c)
    <3>1. PICK j \in Nat : j = Len(q) + i
      BY <1>3
    <3>2. j \in DOMAIN c /\ ~ j <= Len(q) /\ j - Len(q) = i
      BY <1>2, <1>3, <3>1
    <3>3. c[j] = r[i]
      BY <1>2, <1>3, <3>2
    <3> QED
      BY <3>2, <3>3 DEF Range
  <2> QED
    BY <2>1 DEF Range
<1> QED
  BY <1>1, <1>2, <1>4, <1>5, <1>6

\* Nothing is twice in two sequences one after the other that have nothing in common.
LEMMA ConcatIsInjective ==
  ASSUME NEW D, NEW q \in Seq(D), NEW r \in Seq(D), IsInjective(q), IsInjective(r), Range(q) \cap Range(r) = {}
  PROVE  IsInjective(q \o r)
<1>1. PICK c : c = q \o r
  OBVIOUS
<1>2. /\ c \in Seq(D) /\ Len(c) = Len(q) + Len(r)
      /\ \A i \in 1..Len(c) : c[i] = IF i <= Len(q) THEN q[i] ELSE r[i - Len(q)]
  BY <1>1, ConcatProperties
<1>3. DOMAIN c = 1..Len(c) /\ DOMAIN q = 1..Len(q) /\ DOMAIN r = 1..Len(r) /\ Len(q) \in Nat /\ Len(r) \in Nat
  BY <1>2
<1>4. ASSUME NEW i \in DOMAIN c, NEW j \in DOMAIN c, c[i] = c[j], i <= j PROVE i = j
  <2>1. i \in Nat /\ j \in Nat
    BY <1>3
  <2>2. CASE j <= Len(q)
    <3>1. i \in DOMAIN q /\ j \in DOMAIN q /\ q[i] = q[j]
      BY <1>2, <1>3, <1>4, <2>1, <2>2
    <3> QED
      BY <3>1 DEF IsInjective
  <2>3. CASE ~ i <= Len(q)
    <3>1. /\ i - Len(q) \in DOMAIN r /\ j - Len(q) \in DOMAIN r
          /\ c[i] = r[i - Len(q)] /\ c[j] = r[j - Len(q)]
      BY <1>2, <1>3, <1>4, <2>1, <2>3
    <3>2. i - Len(q) = j - Len(q)
      BY <1>4, <3>1 DEF IsInjective
    <3> QED
      BY <1>3, <2>1, <3>2
  <2>4. CASE i <= Len(q) /\ ~ j <= Len(q)
    <3>1. i \in DOMAIN q /\ j - Len(q) \in DOMAIN r
      BY <1>2, <1>3, <1>4, <2>1, <2>4
    <3>2. c[i] \in Range(q) /\ c[j] \in Range(r)
      BY <1>2, <1>3, <2>4, <3>1 DEF Range
    <3> QED
      BY <1>4, <3>2
  <2> QED
    BY <2>2, <2>3, <2>4
<1>5. ASSUME NEW i \in DOMAIN c, NEW j \in DOMAIN c, c[i] = c[j] PROVE i = j
  <2>1. i \in Nat /\ j \in Nat
    BY <1>3
  <2>2. i <= j \/ j <= i
    BY <2>1
  <2> QED
    BY <1>4, <1>5, <2>2
<1> QED
  BY <1>1, <1>5 DEF IsInjective

\* A sequence of one element.
LEMMA OneIsInjective ==
  ASSUME NEW D, NEW x \in D, NEW q, q = <<x>>
  PROVE  q \in Seq(D) /\ IsInjective(q) /\ Range(q) = {x}
BY DEF IsInjective, Range

\* The first of a sequence where nothing is twice is none of the others.
LEMMA TailIsInjective ==
  ASSUME NEW D, NEW s \in Seq(D), s # <<>>, IsInjective(s)
  PROVE  IsInjective(Tail(s)) /\ Head(s) \notin Range(Tail(s))
<1>1. PICK t : t = Tail(s)
  OBVIOUS
<1>2. t \in Seq(D) /\ Len(t) = Len(s) - 1 /\ \A i \in 1..Len(t) : t[i] = s[i + 1]
  BY <1>1, HeadTailProperties
<1>3. Head(s) = s[1] /\ Len(s) \in Nat /\ Len(s) > 0 /\ DOMAIN s = 1..Len(s) /\ DOMAIN t = 1..Len(t)
  BY <1>2
<1>4. ASSUME NEW i \in DOMAIN t PROVE i \in Nat /\ i # 0 /\ i + 1 \in DOMAIN s /\ t[i] = s[i + 1]
  BY <1>2, <1>3
<1>5. Head(s) \notin Range(t)
  <2>1. ASSUME NEW i \in DOMAIN t, t[i] = Head(s) PROVE FALSE
    <3>1. 1 \in DOMAIN s /\ i + 1 = 1
      BY <1>3, <1>4, <2>1 DEF IsInjective
    <3> QED
      BY <1>4, <3>1
  <2> QED
    BY <2>1 DEF Range
<1>6. IsInjective(t)
  <2>1. ASSUME NEW i \in DOMAIN t, NEW j \in DOMAIN t, t[i] = t[j] PROVE i = j
    <3>1. i + 1 = j + 1
      BY <1>4, <2>1 DEF IsInjective
    <3> QED
      BY <1>4, <3>1
  <2> QED
    BY <2>1 DEF IsInjective
<1> QED
  BY <1>1, <1>5, <1>6

\* What only selects is all of the sequence that is in the set, each element once if it was there once.
LEMMA OnlySelects ==
  ASSUME NEW D, NEW s \in Seq(D), NEW objs
  PROVE  /\ only(s, objs) \in Seq(D) /\ Range(only(s, objs)) = Range(s) \cap objs
         /\ IsInjective(s) => IsInjective(only(s, objs))
<1> DEFINE Body(f) == [n \in 0..Len(s) |-> IF n = 0 THEN <<>>
                         ELSE IF s[n] \in objs THEN Append(f[n - 1], s[n]) ELSE f[n - 1]]
<1>1. only(s, objs) = (CHOOSE f : f = Body(f))[Len(s)]
  BY DEF only
<1>2. PICK G : G = [p \in (1..Len(s)) \X Seq(D) |-> IF s[p[1]] \in objs THEN Append(p[2], s[p[1]]) ELSE p[2]]
  OBVIOUS
<1>3. G \in [(1..Len(s)) \X Seq(D) -> Seq(D)]
  BY <1>2
<1>4. PICK f \in [0..Len(s) -> Seq(D)] : Iterates(f, <<>>, Len(s), G)
  <2>1. <<>> \in Seq(D) /\ Len(s) \in Nat
    OBVIOUS
  <2> QED
    BY <1>3, <2>1, RecursionExists
<1>5. f = Body(f)
  <2>1. ASSUME NEW n \in 0..Len(s)
        PROVE  f[n] = IF n = 0 THEN <<>> ELSE IF s[n] \in objs THEN Append(f[n - 1], s[n]) ELSE f[n - 1]
    <3>1. CASE n = 0
      BY <1>4, <3>1 DEF Iterates
    <3>2. CASE n # 0
      <4>1. n \in 1..Len(s) /\ f[n - 1] \in Seq(D)
        BY <3>2
      <4>2. f[n] = G[<<n, f[n - 1]>>]
        BY <1>4, <4>1 DEF Iterates
      <4> QED
        BY <1>2, <3>2, <4>1, <4>2
    <3> QED
      BY <3>1, <3>2
  <2> QED
    BY <2>1
<1>6. (CHOOSE h : h = Body(h)) = Body(CHOOSE h : h = Body(h))
  BY Zenon, <1>5
<1>7. PICK h : h = Body(h) /\ h = CHOOSE e : e = Body(e)
  BY Zenon, <1>6
<1> DEFINE First(n) == {s[i] : i \in 1..n}
<1>8. PICK P : P = {n \in 0..Len(s) : /\ h[n] \in Seq(D) /\ Range(h[n]) = First(n) \cap objs
                                      /\ IsInjective(s) => IsInjective(h[n])}
  OBVIOUS
<1>9. h[0] = <<>> /\ \A n \in 1..Len(s) : h[n] = IF s[n] \in objs THEN Append(h[n - 1], s[n]) ELSE h[n - 1]
  <2>1. h = Body(h)
    BY <1>7
  <2>2. ASSUME NEW n \in 0..Len(s)
        PROVE  h[n] = IF n = 0 THEN <<>> ELSE IF s[n] \in objs THEN Append(h[n - 1], s[n]) ELSE h[n - 1]
    BY <2>1
  <2>3. Len(s) \in Nat
    OBVIOUS
  <2> HIDE DEF Body
  <2>4. 0 \in 0..Len(s) /\ \A n \in 1..Len(s) : n \in 0..Len(s) /\ n # 0
    BY <2>3
  <2> QED
    BY <2>2, <2>4
<1> HIDE DEF Body
<1>10. 0 \in P
  <2>1. <<>> \in Seq(D) /\ Range(<<>>) = {} /\ 0 \in 0..Len(s) /\ First(0) = {} /\ IsInjective(<<>>)
    BY DEF Range, IsInjective
  <2> QED
    BY <1>8, <1>9, <2>1
<1>11. ASSUME NEW n \in 1..Len(s), n - 1 \in P PROVE n \in P
  <2>1. /\ h[n - 1] \in Seq(D) /\ Range(h[n - 1]) = First(n - 1) \cap objs
        /\ IsInjective(s) => IsInjective(h[n - 1])
    BY <1>8, <1>11
  <2>2. s[n] \in D /\ n \in 0..Len(s) /\ DOMAIN s = 1..Len(s) /\ n \in Nat /\ Len(s) \in Nat
    OBVIOUS
  <2>3. First(n) = First(n - 1) \cup {s[n]}
    <3>1. 1..n = (1..(n - 1)) \cup {n}
      BY <2>2
    <3> QED
      BY <3>1
  <2>4. h[n] = IF s[n] \in objs THEN Append(h[n - 1], s[n]) ELSE h[n - 1]
    BY <1>9
  <2>5. IsInjective(s) => s[n] \notin First(n - 1)
    <3>1. ASSUME NEW i \in 1..(n - 1) PROVE i \in DOMAIN s /\ i # n
      BY <2>2
    <3> QED
      BY <2>2, <3>1 DEF IsInjective
  <2>6. CASE s[n] \in objs
    <3>1. PICK e : e = <<s[n]>>
      OBVIOUS
    <3>2. e \in Seq(D) /\ IsInjective(e) /\ Range(e) = {s[n]}
      BY <2>2, <3>1, OneIsInjective
    <3>3. PICK q : q = h[n - 1]
      OBVIOUS
    <3>4. q \in Seq(D)
      BY <2>1, <3>3
    <3>5. h[n] = q \o e
      <4>1. Append(q, s[n]) = q \o <<s[n]>>
        BY <2>2, <3>4, AppendIsConcat
      <4> QED
        BY <2>4, <2>6, <3>1, <3>3, <4>1
    <3>6. q \o e \in Seq(D) /\ Range(q \o e) = Range(q) \cup Range(e)
      BY <3>2, <3>4, RangeOfConcat
    <3>7. ASSUME IsInjective(s) PROVE IsInjective(q \o e)
      <4>1. IsInjective(q) /\ Range(q) \cap Range(e) = {}
        BY <2>1, <2>5, <3>2, <3>3, <3>7
      <4> QED
        BY <3>2, <3>4, <4>1, ConcatIsInjective
    <3>8. Range(h[n]) = First(n) \cap objs
      BY <2>1, <2>3, <2>6, <3>2, <3>3, <3>5, <3>6
    <3> QED
      BY <1>8, <2>2, <3>5, <3>6, <3>7, <3>8
  <2>7. CASE s[n] \notin objs
    <3>1. h[n] = h[n - 1] /\ First(n) \cap objs = First(n - 1) \cap objs
      BY <2>3, <2>4, <2>7
    <3> QED
      BY <1>8, <2>1, <2>2, <3>1
  <2> QED
    BY <2>6, <2>7
<1>12. Len(s) \in P
  <2>1. Len(s) \in Nat /\ Inductive(P, Len(s))
    BY <1>10, <1>11 DEF Inductive
  <2> QED
    BY <2>1, Induction
<1>13. First(Len(s)) = Range(s)
  BY DEF Range
<1> QED
  BY <1>1, <1>7, <1>8, <1>12, <1>13

-----------------------------------------------------------------------------
(* The end of the marking.                                                   *)
\* The state when the marking of what threads and weak tables refer to is over.
Remarked(S) ==
  /\ WellFormed(S) /\ Marking(S, {}) /\ S.gray = {} /\ GrayUpvals(S)
  /\ \A o \in S.weak \cup S.grayagain : Marked(S, references(S, o))
  /\ S.grayagain \subseteq Of("thread")

\* remarkupvals marks the values of the open upvalues that are marked, those of dead threads too.
LEMMA MarkedByRemarkupvals ==
  ASSUME NEW S, WellFormed(S), Marking(S, {}), NEW T, T = remarkupvals(S)
  PROVE  WellFormed(T) /\ Marking(T, {}) /\ GrayUpvals(T) /\ Same(S, T, {"marked", "gray"})
<1>1. PICK U : U = {uvalue(S, u) : u \in {w \in openupvals(S) : isgray(S, w)}}
  OBVIOUS
<1>2. U \cap S.free = {}
  <2>1. ASSUME NEW u \in openupvals(S) PROVE uvalue(S, u) \notin S.free
    <3>1. u \in Of("upval") /\ u \notin S.free /\ u \in Obj
      BY <2>1 DEF openupvals, Of
    <3>2. references(S, u) = {uvalue(S, u)}
      BY <3>1 DEF references, Of
    <3> QED
      BY <3>1, <3>2, ReferencesAreNotFree
  <2> QED
    BY <1>1, <2>1
<1>3. T = markobject(S, U)
  BY <1>1 DEF remarkupvals
<1>4. /\ WellFormed(T) /\ Marking(T, {}) /\ Recoloured(S, T, {}) /\ Marked(T, U)
      /\ \A u \in Of("upval") : T.marked[u] # S.marked[u] => Marked(T, {uvalue(S, u)})
  BY <1>2, <1>3, MarkobjectKeeps
<1>5. Same(S, T, {"marked", "gray"})
  BY <1>4 DEF Recoloured
<1>6. T.heap = S.heap
  BY <1>5 DEF Same, StateFields
<1>7. ASSUME NEW u \in Of("upval"), isgray(T, u) PROVE Marked(T, {uvalue(T, u)})
  <2>1. uvalue(T, u) = uvalue(S, u)
    BY <1>6, HeapDecides
  <2>2. CASE T.marked[u] # S.marked[u]
    BY <1>4, <2>1, <2>2
  <2>3. CASE T.marked[u] = S.marked[u]
    <3>1. u \in Obj /\ isgray(S, u) /\ Kind[u] = "upval"
      BY <1>7, <2>3 DEF isgray, Of
    <3>2. isopen(S, u) /\ u \notin S.free
      BY <3>1 DEF Marking, Tricolour, GrayIsListed, WellFormed, Types, isgray
    <3>3. uvalue(S, u) \in U
      BY <1>1, <1>7, <3>1, <3>2 DEF openupvals
    <3> QED
      BY <1>4, <2>1, <3>3 DEF Marked
  <2> QED
    BY <2>2, <2>3
<1> QED
  BY <1>4, <1>5, <1>7 DEF GrayUpvals

\* The list of the gray objects takes the place of another.
LEMMA ListsMove ==
  ASSUME NEW S, WellFormed(S), Marking(S, {}), S.gray = {}, NEW T,
         Same(S, T, {"gray", "weak", "grayagain"}),
         T.gray \cup T.weak \cup T.grayagain = S.weak \cup S.grayagain,
         T.gray \cap T.weak = {}, T.gray \cap T.grayagain = {}, T.weak \cap T.grayagain = {},
         T.weak \subseteq S.weak
  PROVE  WellFormed(T) /\ Marking(T, {}) /\ (GrayUpvals(S) => GrayUpvals(T))
<1>1. /\ T.heap = S.heap /\ T.free = S.free /\ T.L = S.L /\ T.callers = S.callers /\ T.tmudata = S.tmudata
      /\ T.udata = S.udata /\ T.gcstate = S.gcstate /\ T.marked = S.marked
      /\ T.bad = S.bad /\ DOMAIN T = DOMAIN S
  BY DEF Same, StateFields
<1>2. live(T) = live(S)
  BY <1>1 DEF live, isdead
<1>3. Shapes(T) /\ GraphIsLive(T) /\ OpenUpvals(T) /\ Chain(T)
  BY <1>1, <1>2, SameGraph
<1>4. \A o : fields(T, o) = fields(S, o) /\ isopen(T, o) = isopen(S, o) /\ uvalue(T, o) = uvalue(S, o)
  BY <1>1, HeapDecides
<1>5. Types(T)
  BY <1>1 DEF Types, WellFormed
<1>6. NeverBlack(T)
  BY <1>1, <1>4 DEF WellFormed, NeverBlack, isblack
<1>7. NoneDead(T) /\ \A X : Marked(T, X) = Marked(S, X)
  BY <1>1 DEF NoneDead, Marking, Tricolour, isdead, Marked, iswhite
<1>8. Strong(T, {})
  BY <1>1, <1>4, <1>7 DEF Marking, Tricolour, Strong, isblack, tofinalize
<1>9. GrayIsListed(T)
  BY <1>1, <1>4 DEF Marking, Tricolour, GrayIsListed, isgray
<1>10. ListedIsGray(T)
  <2>1. \A o \in T.gray \cup T.grayagain \cup T.weak : o \in Obj /\ isgray(T, o) /\ Kind[o] \in traversed
    BY <1>1 DEF Marking, Tricolour, ListedIsGray, isgray
  <2>2. T.weak \subseteq Of("table")
    BY DEF Marking, Tricolour, ListedIsGray
  <2> QED
    BY <2>1, <2>2 DEF ListedIsGray
<1>11. GrayUpvals(S) => GrayUpvals(T)
  BY <1>1, <1>4, <1>7 DEF GrayUpvals, isgray
<1> QED
  BY <1>3, <1>5, <1>6, <1>7, <1>8, <1>9, <1>10, <1>11 DEF WellFormed, Marking, Tricolour

\* The marking that atomic repeats leaves no reference from a marked object to a white one, but weak ones.
LEMMA RemarkKeeps ==
  ASSUME NEW S, WellFormed(S), Marking(S, {}), S.gray = {},
         NEW T, T = propagateall(remarkgray(propagateall(remarkweak(propagateall(remarkupvals(S))))))
  PROVE  Remarked(T) /\ Same(S, T, {"heap", "marked", "gray", "weak", "grayagain"})
<1>1. PICK A : A = remarkupvals(S)
  OBVIOUS
<1>2. WellFormed(A) /\ Marking(A, {}) /\ GrayUpvals(A) /\ Same(S, A, {"marked", "gray"})
  BY <1>1, MarkedByRemarkupvals
<1>3. PICK B : B = propagateall(A)
  OBVIOUS
<1>4. Propagated(A, B)
  BY <1>2, <1>3, PropagateallKeeps
<1>5. WellFormed(B) /\ Marking(B, {}) /\ GrayUpvals(B) /\ B.gray = {}
  BY <1>2, <1>4 DEF Propagated
<1>6. PICK M : M = [B EXCEPT !.gray = B.weak, !.weak = {}]
  OBVIOUS
<1>7. DOMAIN B = StateFields
  BY <1>5 DEF WellFormed, Types
<1>8. M.gray = B.weak /\ M.weak = {} /\ Same(B, M, {"gray", "weak", "grayagain"}) /\ M.grayagain = B.grayagain
  BY <1>6, <1>7 DEF Same, StateFields
<1>9. WellFormed(M) /\ Marking(M, {}) /\ GrayUpvals(M)
  <2>1. B.weak \cap B.grayagain = {}
    BY <1>5 DEF Marking, Tricolour, ListedIsGray
  <2>2. M.gray \cup M.weak \cup M.grayagain = B.weak \cup B.grayagain
    BY <1>8
  <2> QED
    BY <1>5, <1>8, <2>1, <2>2, ListsMove
<1>10. PICK C : C = remarkweak(B)
  OBVIOUS
<1>11. C = markobject(M, {M.L})
  <2>1. ~ iswhite(B, MainThread)
    BY <1>5, TypesAssumption DEF Marking, Tricolour, Marked, Of
  <2>2. M.L = B.L
    BY <1>8 DEF Same, StateFields
  <2> QED
    BY <1>6, <1>10, <2>1, <2>2 DEF remarkweak, lua_assert
<1>12. {M.L} \cap M.free = {}
  BY <1>9 DEF WellFormed, GraphIsLive, roots, live
<1>13. /\ WellFormed(C) /\ Marking(C, {}) /\ Recoloured(M, C, {})
       /\ \A u \in Of("upval") : C.marked[u] # M.marked[u] => Marked(C, {uvalue(M, u)})
  BY <1>9, <1>11, <1>12, MarkobjectKeeps
<1>14. Same(M, C, {"marked", "gray"})
  BY <1>13 DEF Recoloured
<1>15. C.weak = {} /\ C.heap = M.heap
  BY <1>8, <1>14 DEF Same, StateFields
<1>16. GrayUpvals(C)
  <2>1. ASSUME NEW u \in Of("upval"), isgray(C, u) PROVE Marked(C, {uvalue(C, u)})
    <3>1. uvalue(C, u) = uvalue(M, u)
      BY <1>15, HeapDecides
    <3>2. CASE C.marked[u] # M.marked[u]
      BY <1>13, <3>1, <3>2
    <3>3. CASE C.marked[u] = M.marked[u]
      <4>1. Marked(M, {uvalue(M, u)})
        BY <1>9, <2>1, <3>3 DEF GrayUpvals, isgray
      <4> QED
        BY <1>13, <3>1, <4>1, RecolouredGrows
    <3> QED
      BY <3>2, <3>3
  <2> QED
    BY <2>1 DEF GrayUpvals
<1>17. PICK D : D = propagateall(C)
  OBVIOUS
<1>18. Propagated(C, D)
  BY <1>13, <1>17, PropagateallKeeps
<1>19. WellFormed(D) /\ Marking(D, {}) /\ GrayUpvals(D) /\ D.gray = {}
  BY <1>16, <1>18 DEF Propagated
<1>20. \A o \in D.weak : o \in Obj /\ o \in Of("table") /\ Marked(D, references(D, o))
  <2>1. \A o \in D.weak : o \in Obj /\ o \in Of("table") /\ Marked(D, references(C, o))
    BY <1>15, <1>18, <1>19 DEF Propagated, Marking, Tricolour, ListedIsGray
  <2>2. \A o \in Obj : references(D, o) = references(C, o)
    BY <1>13, <1>18, PrunedHeap DEF Propagated, WellFormed
  <2> QED
    BY <2>1, <2>2
<1>21. PICK E : E = remarkgray(D)
  OBVIOUS
<1>22. DOMAIN D = StateFields
  BY <1>19 DEF WellFormed, Types
<1>23. E.gray = D.grayagain /\ E.grayagain = {} /\ Same(D, E, {"gray", "weak", "grayagain"}) /\ E.weak = D.weak
  BY <1>21, <1>22 DEF Same, StateFields, remarkgray
<1>24. WellFormed(E) /\ Marking(E, {}) /\ GrayUpvals(E)
  <2>1. D.weak \cap D.grayagain = {}
    BY <1>19 DEF Marking, Tricolour, ListedIsGray
  <2>2. E.gray \cup E.weak \cup E.grayagain = D.weak \cup D.grayagain
    BY <1>23
  <2> QED
    BY <1>19, <1>23, <2>1, <2>2, ListsMove
<1>25. T = propagateall(E)
  BY <1>1, <1>3, <1>10, <1>17, <1>21
<1>26. Propagated(E, T)
  BY <1>24, <1>25, PropagateallKeeps
<1>27. WellFormed(T) /\ Marking(T, {}) /\ GrayUpvals(T) /\ T.gray = {} /\ T.grayagain \subseteq Of("thread")
  BY <1>23, <1>24, <1>26 DEF Propagated
<1>28. E.heap = D.heap /\ E.marked = D.marked
  BY <1>23 DEF Same, StateFields
<1>29. \A o \in Obj : references(T, o) = references(E, o) /\ references(E, o) = references(D, o)
  BY <1>24, <1>26, <1>28, PrunedHeap, HeapDecides DEF Propagated, WellFormed
<1>30. ASSUME NEW o \in T.weak \cup T.grayagain PROVE Marked(T, references(T, o))
  <2>1. o \in Obj
    BY <1>27, <1>30 DEF Marking, Tricolour, ListedIsGray
  <2>2. CASE o \in D.weak
    <3>1. Marked(D, references(T, o))
      BY <1>20, <1>29, <2>2
    <3>2. \A v \in Obj : ~ iswhite(D, v) => ~ iswhite(T, v)
      BY <1>26, <1>28 DEF Propagated, iswhite
    <3> QED
      BY <3>1, <3>2 DEF Marked
  <2>3. CASE o \notin D.weak
    BY <1>23, <1>26, <1>29, <1>30, <2>1, <2>3 DEF Propagated
  <2> QED
    BY <2>2, <2>3
<1>31. Same(S, T, {"heap", "marked", "gray", "weak", "grayagain"})
  BY <1>2, <1>4, <1>8, <1>14, <1>18, <1>23, <1>26 DEF Same, Propagated
<1> QED
  BY <1>27, <1>30, <1>31 DEF Remarked

\* What the later steps of atomic keep: the userdata to finalize and what they have are marked.
Finalizable(S) ==
  \A u \in tofinalize(S) : ~ iswhite(S, u) /\ Marked(S, {S.heap[u].mt, S.heap[u].env})

\* Moving the dead userdata that have finalizers keeps the marking.
LEMMA SeparateKeeps ==
  ASSUME NEW S, Remarked(S), NEW T, T = luaC_separateudata(S, FALSE)
  PROVE  Remarked(T) /\ Same(S, T, {"finalized", "owed", "udata", "tmudata"})
<1>1. PICK found : found = {u \in Range(S.udata) : (iswhite(S, u) \/ FALSE) /\ u \notin S.finalized}
  OBVIOUS
<1>2. PICK gc : gc = {u \in found : has(S, u, "__gc")}
  OBVIOUS
<1>3. T = [S EXCEPT !.finalized = S.finalized \cup found, !.owed = S.owed \cup gc,
                    !.tmudata = S.tmudata \o only(S.udata, gc), !.udata = only(S.udata, Obj \ gc)]
  BY <1>1, <1>2 DEF luaC_separateudata
<1>4. WellFormed(S) /\ Marking(S, {})
  BY DEF Remarked
<1>5. DOMAIN S = StateFields
  BY <1>4 DEF WellFormed, Types
<1>6. /\ T.tmudata = S.tmudata \o only(S.udata, gc) /\ T.udata = only(S.udata, Obj \ gc)
      /\ Same(S, T, {"finalized", "owed", "udata", "tmudata"})
  BY <1>3, <1>5 DEF Same, StateFields
<1>7. /\ T.heap = S.heap /\ T.free = S.free /\ T.L = S.L /\ T.callers = S.callers
      /\ T.gcstate = S.gcstate /\ T.marked = S.marked /\ T.gray = S.gray /\ T.weak = S.weak
      /\ T.grayagain = S.grayagain /\ T.bad = S.bad /\ DOMAIN T = DOMAIN S
  BY <1>6 DEF Same, StateFields
<1>8. S.udata \in Seq(Of("userdata")) /\ S.tmudata \in Seq(Of("userdata")) /\ Range(S.udata) \cap S.free = {}
  BY <1>4 DEF WellFormed, Types
<1>9. only(S.udata, gc) \in Seq(Of("userdata")) /\ Range(only(S.udata, gc)) \subseteq Range(S.udata)
  BY <1>8, OnlySelects
<1>10. T.udata \in Seq(Of("userdata")) /\ Range(T.udata) \subseteq Range(S.udata)
  <2>1. PICK q : q = only(S.udata, Obj \ gc)
    OBVIOUS
  <2>2. q \in Seq(Of("userdata")) /\ Range(q) \subseteq Range(S.udata)
    BY <1>8, <2>1, OnlySelects
  <2> QED
    BY <1>6, <2>1, <2>2
<1>11. T.tmudata \in Seq(Of("userdata")) /\ Range(T.tmudata) = Range(S.tmudata) \cup Range(only(S.udata, gc))
  <2>1. PICK q : q = only(S.udata, gc)
    OBVIOUS
  <2>2. q \in Seq(Of("userdata")) /\ S.tmudata \in Seq(Of("userdata"))
    BY <1>8, <1>9, <2>1
  <2>3. S.tmudata \o q \in Seq(Of("userdata")) /\ Range(S.tmudata \o q) = Range(S.tmudata) \cup Range(q)
    BY <2>2, RangeOfConcat
  <2> QED
    BY <1>6, <2>1, <2>3
<1>12. Types(T)
  BY <1>4, <1>7, <1>8, <1>10, <1>11 DEF WellFormed, Types
<1>13. live(T) = live(S)
  BY <1>7 DEF live, isdead
<1>14. Range(S.udata) \subseteq live(S)
  <2>1. \A u \in Range(S.udata) : u \in Obj
    BY <1>8 DEF Range, Of
  <2> QED
    BY <2>1, <1>4, <1>8 DEF live, Marking, Tricolour, NoneDead
<1>15. \A o : /\ fields(T, o) = fields(S, o) /\ isopen(T, o) = isopen(S, o) /\ uvalue(T, o) = uvalue(S, o)
              /\ referred(T, o) = referred(S, o)
  BY <1>7, HeapDecides
<1>16. GraphIsLive(T)
  <2>1. roots(T) \subseteq live(S)
    BY <1>4, <1>7, <1>9, <1>11, <1>14 DEF roots, WellFormed, GraphIsLive
  <2> QED
    BY <1>4, <1>13, <1>15, <2>1 DEF WellFormed, GraphIsLive
<1>17. Shapes(T) /\ OpenUpvals(T) /\ Chain(T)
  <2>1. Pruned(S, T)
    BY <1>4, <1>7 DEF WellFormed, Types, Shapes, Shaped, Pruned
  <2> QED
    BY <2>1, <1>4, <1>7, PrunedGraph
<1>18. NeverBlack(T)
  BY <1>4, <1>7, <1>15 DEF WellFormed, NeverBlack, isblack
<1>19. \A X : Marked(T, X) = Marked(S, X)
  BY <1>7 DEF Marked, iswhite
<1>20. NoneDead(T) /\ Marked(T, {MainThread, Registry})
  BY <1>4, <1>7, <1>19 DEF NoneDead, Marking, Tricolour, isdead
<1>21. Strong(T, {})
  BY <1>4, <1>7, <1>11, <1>15, <1>19 DEF Marking, Tricolour, Strong, isblack, tofinalize
<1>22. GrayIsListed(T) /\ ListedIsGray(T)
  BY <1>4, <1>7, <1>15 DEF Marking, Tricolour, GrayIsListed, isgray, ListedIsGray
<1>23. GrayUpvals(T)
  BY <1>7, <1>15, <1>19 DEF Remarked, GrayUpvals, isgray
<1>24. \A o \in T.weak \cup T.grayagain : Marked(T, references(T, o))
  <2>1. \A o \in S.weak \cup S.grayagain : o \in Obj /\ Marked(S, references(S, o))
    BY <1>4 DEF Remarked, Marking, Tricolour, ListedIsGray
  <2>2. \A o \in Obj : references(T, o) = references(S, o)
    BY <1>7, HeapDecides
  <2> QED
    BY <1>7, <1>19, <2>1, <2>2
<1>25. T.gray = {} /\ T.grayagain \subseteq Of("thread")
  BY <1>7 DEF Remarked
<1> QED
  BY <1>6, <1>12, <1>16, <1>17, <1>18, <1>20, <1>21, <1>22, <1>23, <1>24, <1>25 DEF Remarked, WellFormed, Marking, Tricolour

\* The userdata to finalize are marked with their metatable and environment.
LEMMA MarktmuKeeps ==
  ASSUME NEW S, Remarked(S), NEW T, T = marktmu(S)
  PROVE  Recoloured(S, T, {}) /\ Finalizable(T) /\ \A u \in Of("upval") : T.marked[u] = S.marked[u]
<1>1. WellFormed(S) /\ Marking(S, {}) /\ DOMAIN S = StateFields
  BY DEF Remarked, WellFormed, Types
<1>2. PICK tm : tm = Range(S.tmudata)
  OBVIOUS
<1>3. tm \subseteq Of("userdata") /\ tm \subseteq live(S)
  <2>1. tm \subseteq Of("userdata")
    <3>1. S.tmudata \in Seq(Of("userdata"))
      BY <1>1 DEF WellFormed, Types
    <3> QED
      BY <1>2, <3>1 DEF Range
  <2> QED
    BY <1>1, <1>2, <2>1 DEF WellFormed, GraphIsLive, roots
<1>4. \A u \in tm : u \in Obj /\ u \notin S.free /\ Kind[u] = "userdata"
  BY <1>3 DEF live, Of
<1>5. PICK M : M = makewhite(S, tm)
  OBVIOUS
<1>6. /\ M.marked = [o \in Obj |-> IF o \in tm THEN "white" ELSE S.marked[o]]
      /\ Same(S, M, {"marked"})
  BY <1>1, <1>5 DEF makewhite, Same, StateFields
<1>7. /\ M.heap = S.heap /\ M.gray = S.gray /\ M.free = S.free /\ M.udata = S.udata /\ M.tmudata = S.tmudata
      /\ M.L = S.L /\ M.callers = S.callers /\ M.gcstate = S.gcstate /\ M.bad = S.bad /\ DOMAIN M = DOMAIN S
  BY <1>6 DEF Same, StateFields
<1>8. S.marked \in [Obj -> Colours] /\ "white" \in Colours /\ Types(S)
  BY <1>1 DEF WellFormed, Types, Colours
<1>9. M.marked \in [Obj -> Colours]
  <2>1. \A o \in Obj : (IF o \in tm THEN "white" ELSE S.marked[o]) \in Colours
    BY <1>8
  <2> QED
    BY <1>6, <2>1
<1>10. Types(M)
  <2>1. \A o \in S.free : M.marked[o] = "white"
    BY <1>4, <1>6, <1>8 DEF Types
  <2> QED
    BY <1>7, <1>8, <1>9, <2>1 DEF Types
<1>11. PICK F : F = {o \in Obj : iswhite(M, o) /\ \E u \in tm : o \in {S.heap[u].mt, S.heap[u].env}}
  OBVIOUS
<1>12. PICK B : B = tm \cup F
  OBVIOUS
<1>13. T = setmarks(M, B)
  <2>1. tm \cap Of("upval") = {}
    BY <1>3 DEF Of
  <2>2. withvalues(M, tm) = tm
    BY <2>1 DEF withvalues
  <2>3. withfields(M, tm) = B
    <3>1. ASSUME NEW o \in withfields(M, tm), o \notin tm PROVE o \in F
      <4>1. o \in UNION {{M.heap[u].mt, M.heap[u].env} : u \in tm \cap Of("userdata")} /\ o \in Obj /\ iswhite(M, o)
        BY <3>1 DEF withfields
      <4>2. PICK u \in tm : o \in {M.heap[u].mt, M.heap[u].env}
        BY <4>1
      <4> QED
        BY <1>7, <1>11, <4>1, <4>2
    <3>2. ASSUME NEW o \in F PROVE o \in withfields(M, tm)
      <4>1. PICK u \in tm \cap Of("userdata") : o \in {M.heap[u].mt, M.heap[u].env}
        BY <1>3, <1>7, <1>11, <3>2
      <4>2. o \in UNION {{M.heap[x].mt, M.heap[x].env} : x \in tm \cap Of("userdata")}
        BY <4>1
      <4>3. o \in Obj /\ iswhite(M, o)
        BY <1>11, <3>2
      <4> QED
        BY <4>2, <4>3 DEF withfields
    <3>3. tm \subseteq withfields(M, tm)
      BY DEF withfields
    <3> QED
      BY <1>12, <3>1, <3>2, <3>3
  <2> QED
    BY <1>2, <1>5, <2>2, <2>3 DEF marktmu, reallymarkobject
<1>14. \A o \in F \ tm : o \in Of("table") /\ o \notin S.free /\ S.marked[o] = "white"
  <2>1. ASSUME NEW o \in F \ tm PROVE o \in Of("table") /\ o \notin S.free /\ S.marked[o] = "white"
    <3>1. PICK u \in tm : o \in {S.heap[u].mt, S.heap[u].env}
      BY <1>11, <2>1
    <3>2. u \in Obj /\ u \in live(S) /\ Shaped(S.heap[u], Kind[u])
      BY <1>3, <1>4, <3>1, <1>1 DEF WellFormed, Shapes
    <3>3. o \in Obj /\ iswhite(M, o)
      BY <1>11, <2>1
    <3>4. o \in Of("table")
      BY <3>1, <3>2, <3>3, TypesAssumption DEF Shaped
    <3>5. o \in referred(S, u)
      BY <3>1 DEF referred
    <3>6. o \in live(S)
      BY <1>1, <3>2, <3>3, <3>5 DEF WellFormed, GraphIsLive
    <3>7. S.marked[o] = "white"
      BY <1>1, <1>6, <2>1, <3>3 DEF Marking, Tricolour, NoneDead, isdead, iswhite
    <3> QED
      BY <3>4, <3>6, <3>7 DEF live
  <2> QED
    BY <2>1
<1>15. /\ Same(M, T, {"marked", "gray"})
       /\ T.marked \in [Obj -> Colours]
       /\ \A o \in Obj : T.marked[o] = IF o \notin B THEN M.marked[o]
                                        ELSE IF turnsblack(M, o) THEN "black" ELSE "gray"
       /\ T.gray = M.gray \cup {o \in B : Kind[o] \in traversed}
  <2>1. B \in SUBSET Obj
    BY <1>4, <1>11, <1>12
  <2>2. \A o \in B : ~ isdead(M, o)
    BY <1>1, <1>6, <2>1 DEF isdead, Marking, Tricolour, NoneDead
  <2> QED
    BY <1>10, <1>13, <2>1, <2>2, SetmarksMarks
<1>16. ASSUME NEW o \in Obj
       PROVE  T.marked[o] = IF o \in tm THEN "black" ELSE IF o \in F THEN "gray" ELSE S.marked[o]
  BY <1>4, <1>6, <1>12, <1>14, <1>15 DEF turnsblack, Of
<1>17. \A u \in tm : ~ isgray(S, u) /\ (S.marked[u] = "white" \/ S.marked[u] = "black")
  BY <1>1, <1>4, <1>8 DEF Marking, Tricolour, GrayIsListed, isgray, NoneDead, isdead, Colours
<1>18. ASSUME NEW o \in Obj, T.marked[o] # S.marked[o]
       PROVE  /\ o \notin S.free /\ S.marked[o] = "white"
              /\ \/ T.marked[o] = "black" /\ Kind[o] = "userdata" /\ o \in tofinalize(S)
                 \/ T.marked[o] = "gray" /\ Kind[o] = "table"
  <2>1. CASE o \in tm
    BY <1>2, <1>4, <1>16, <1>17, <1>18, <2>1 DEF tofinalize
  <2>2. CASE o \notin tm
    BY <1>14, <1>16, <1>18, <2>2 DEF Of
  <2> QED
    BY <2>1, <2>2
<1>19. T.gray = S.gray \cup {o \in Obj : T.marked[o] # S.marked[o] /\ Kind[o] \in traversed}
  <2>1. \A o \in B : Kind[o] \in traversed <=> o \in F \ tm
    BY <1>4, <1>12, <1>14 DEF traversed, Of
  <2>2. \A o \in Obj : T.marked[o] # S.marked[o] /\ Kind[o] \in traversed <=> o \in F \ tm
    BY <1>4, <1>14, <1>16 DEF traversed, Of
  <2>3. F \ tm \subseteq B /\ F \subseteq Obj
    BY <1>11, <1>12
  <2> QED
    BY <1>7, <1>15, <2>1, <2>2, <2>3
<1>20. Same(S, T, {"marked", "gray"})
  BY <1>6, <1>15 DEF Same
<1>21. Recoloured(S, T, {})
  BY <1>15, <1>18, <1>19, <1>20 DEF Recoloured
<1>22. Finalizable(T)
  <2>1. T.heap = S.heap /\ T.tmudata = S.tmudata
    BY <1>20 DEF Same, StateFields
  <2>2. ASSUME NEW u \in tm PROVE ~ iswhite(T, u) /\ Marked(T, {S.heap[u].mt, S.heap[u].env})
    <3>1. ~ iswhite(T, u)
      BY <1>4, <1>16 DEF iswhite
    <3>2. ASSUME NEW v \in {S.heap[u].mt, S.heap[u].env} \cap Obj PROVE ~ iswhite(T, v)
      <4>1. CASE v \in F \/ v \in tm
        BY <1>16, <4>1 DEF iswhite
      <4>2. CASE v \notin F /\ v \notin tm
        <5>1. ~ iswhite(M, v)
          BY <1>11, <3>2, <4>2
        <5> QED
          BY <1>6, <1>16, <4>2, <5>1 DEF iswhite
      <4> QED
        BY <4>1, <4>2
    <3> QED
      BY <3>1, <3>2 DEF Marked
  <2> QED
    BY <1>2, <2>1, <2>2 DEF Finalizable, tofinalize
<1>23. \A u \in Of("upval") : T.marked[u] = S.marked[u]
  BY <1>18 DEF Of
<1> QED
  BY <1>21, <1>22, <1>23

\* What the finalizers can reach is marked.
LEMMA FinalizableKeeps ==
  ASSUME NEW S, Remarked(S), NEW T, T = propagateall(marktmu(S))
  PROVE  /\ Remarked(T) /\ Finalizable(T)
         /\ Same(S, T, {"heap", "marked", "gray", "weak", "grayagain"})
<1>1. PICK A : A = marktmu(S)
  OBVIOUS
<1>2. Recoloured(S, A, {}) /\ Finalizable(A) /\ \A u \in Of("upval") : A.marked[u] = S.marked[u]
  BY <1>1, MarktmuKeeps
<1>3. WellFormed(A) /\ Marking(A, {})
  BY <1>2, RecolouredKeeps DEF Remarked
<1>4. T = propagateall(A)
  BY <1>1
<1>5. Propagated(A, T)
  BY <1>3, <1>4, PropagateallKeeps
<1>6. Same(S, A, {"marked", "gray"})
  BY <1>2 DEF Recoloured
<1>7. A.heap = S.heap /\ A.weak = S.weak /\ A.grayagain = S.grayagain
  BY <1>6 DEF Same, StateFields
<1>8. GrayUpvals(A)
  <2>1. ASSUME NEW u \in Of("upval"), isgray(A, u) PROVE Marked(A, {uvalue(A, u)})
    <3>1. isgray(S, u)
      BY <1>2, <2>1 DEF isgray
    <3>2. Marked(S, {uvalue(S, u)})
      BY <3>1 DEF Remarked, GrayUpvals
    <3>3. uvalue(A, u) = uvalue(S, u)
      BY <1>7, HeapDecides
    <3> QED
      BY <1>2, <3>2, <3>3, RecolouredGrows
  <2> QED
    BY <2>1 DEF GrayUpvals
<1>9. WellFormed(T) /\ Marking(T, {}) /\ GrayUpvals(T) /\ T.gray = {} /\ T.grayagain \subseteq Of("thread")
  BY <1>5, <1>7, <1>8 DEF Propagated, Remarked
<1>10. \A o \in Obj : references(T, o) = references(S, o)
  <2>1. \A o \in Obj : references(A, o) = references(S, o)
    BY <1>7, HeapDecides
  <2>2. \A o \in Obj : references(T, o) = references(A, o)
    BY <1>3, <1>5, PrunedHeap DEF Propagated, WellFormed
  <2> QED
    BY <2>1, <2>2
<1>11. \A X : Marked(A, X) => Marked(T, X)
  BY <1>5 DEF Propagated, Marked
<1>12. ASSUME NEW o \in T.weak \cup T.grayagain PROVE Marked(T, references(T, o))
  <2>1. o \in Obj
    BY <1>9, <1>12 DEF Marking, Tricolour, ListedIsGray
  <2>2. CASE o \in S.weak \cup S.grayagain
    <3>1. Marked(S, references(S, o))
      BY <2>2 DEF Remarked
    <3> QED
      BY <3>1, <1>2, <1>10, <1>11, <2>1, RecolouredGrows
  <2>3. CASE o \notin S.weak \cup S.grayagain
    <3>1. Marked(T, references(A, o))
      BY <1>5, <1>7, <1>12, <2>3 DEF Propagated
    <3>2. references(A, o) = references(S, o)
      BY <1>7, <2>1, HeapDecides
    <3> QED
      BY <3>1, <3>2, <1>10, <2>1
  <2> QED
    BY <2>2, <2>3
<1>13. Same(S, T, {"heap", "marked", "gray", "weak", "grayagain"})
  BY <1>5, <1>6 DEF Same, Propagated
<1>14. Finalizable(T)
  <2>1. T.tmudata = A.tmudata
    BY <1>5 DEF Propagated, Same, StateFields
  <2>2. ASSUME NEW u \in tofinalize(T) PROVE ~ iswhite(T, u) /\ Marked(T, {T.heap[u].mt, T.heap[u].env})
    <3>1. u \in Obj
      BY <2>2, <1>9 DEF WellFormed, GraphIsLive, roots, tofinalize, live
    <3>2. ~ iswhite(A, u) /\ Marked(A, {A.heap[u].mt, A.heap[u].env})
      BY <1>2, <2>1, <2>2 DEF Finalizable, tofinalize
    <3>3. T.heap[u].mt = A.heap[u].mt /\ T.heap[u].env = A.heap[u].env
      BY <3>1, <1>5, PrunedObject DEF Propagated
    <3>4. ~ iswhite(T, u)
      BY <3>1, <3>2, <1>5 DEF Propagated
    <3> QED
      BY <3>2, <3>3, <3>4, <1>11
  <2> QED
    BY <2>2 DEF Finalizable
<1> QED
  BY <1>9, <1>12, <1>13, <1>14 DEF Remarked

\* Marked objects refer to marked objects.
Closed(S) == \A o \in Obj \ S.free : ~ iswhite(S, o) => Marked(S, referred(S, o))

\* What cleartable does.
Cleared(S, T) ==
  /\ Same(S, T, {"heap", "marked"})
  /\ Pruned(S, T)
  /\ \A o \in Obj \ S.weak : T.heap[o] = S.heap[o]
  /\ \A o \in S.weak : DOMAIN T.heap[o].node = kept(S, o)
  /\ T.marked \in [Obj -> Colours]
  /\ \A o \in Obj : T.marked[o] = IF Kind[o] = "string" /\ iswhite(S, o) /\ \E t \in S.weak : o \in entries(S, t)
                                   THEN "gray" ELSE S.marked[o]

\* What cleartable does: entries of dead objects are removed from weak tables, and strings are marked.
LEMMA CleartableClears ==
  ASSUME NEW S, WellFormed(S), S.weak \subseteq Obj, NEW T, T = cleartable(S)
  PROVE  Cleared(S, T)
<1>1. DOMAIN S = StateFields /\ S.marked \in [Obj -> Colours] /\ "gray" \in Colours
  BY DEF WellFormed, Types, Colours
<1>a. PICK hp : hp = [o \in Obj |-> IF o \in S.weak THEN keptentries(S, o) ELSE S.heap[o]]
  OBVIOUS
<1>b. PICK mk : mk = [o \in Obj |-> IF Kind[o] = "string" /\ iswhite(S, o) /\ \E t \in S.weak : o \in entries(S, t)
                                   THEN "gray" ELSE S.marked[o]]
  OBVIOUS
<1>c. T = [S EXCEPT !.heap = hp, !.marked = mk]
  BY <1>a, <1>b DEF cleartable
<1>d. T.heap = hp /\ T.marked = mk /\ Same(S, T, {"heap", "marked"})
  BY <1>1, <1>c DEF StateFields, Same
<1>2. /\ T.heap = [o \in Obj |-> IF o \in S.weak THEN keptentries(S, o) ELSE S.heap[o]]
      /\ T.marked = [o \in Obj |-> IF Kind[o] = "string" /\ iswhite(S, o) /\ \E t \in S.weak : o \in entries(S, t)
                                   THEN "gray" ELSE S.marked[o]]
      /\ Same(S, T, {"heap", "marked"})
  BY <1>a, <1>b, <1>d
<1>3. ASSUME NEW o \in Obj
      PROVE  /\ DOMAIN T.heap[o] = ObjectFields
             /\ \A f \in ObjectFields \ {"node"} : T.heap[o][f] = S.heap[o][f]
             /\ DOMAIN T.heap[o].node \subseteq DOMAIN S.heap[o].node
             /\ \A k \in DOMAIN T.heap[o].node : T.heap[o].node[k] = S.heap[o].node[k]
             /\ o \in S.weak => DOMAIN T.heap[o].node = kept(S, o)
  <2>1. DOMAIN S.heap[o] = ObjectFields
    BY DEF WellFormed, Shapes, Shaped
  <2>2. CASE o \notin S.weak
    <3>1. T.heap[o] = S.heap[o]
      BY <1>2, <2>2
    <3> QED
      BY <2>1, <2>2, <3>1
  <2>3. CASE o \in S.weak
    <3>1. T.heap[o] = [S.heap[o] EXCEPT !.node = [k \in kept(S, o) |-> S.heap[o].node[k]]]
      BY <1>2, <2>3 DEF keptentries
    <3>2. T.heap[o].node = [k \in kept(S, o) |-> S.heap[o].node[k]]
      BY <2>1, <3>1 DEF ObjectFields
    <3>3. DOMAIN T.heap[o] = ObjectFields /\ \A f \in ObjectFields \ {"node"} : T.heap[o][f] = S.heap[o][f]
      BY <2>1, <3>1
    <3>4. kept(S, o) \subseteq DOMAIN S.heap[o].node
      BY DEF kept
    <3> QED
      BY <3>2, <3>3, <3>4
  <2> QED
    BY <2>2, <2>3
<1>4. Pruned(S, T)
  BY <1>2, <1>3 DEF Pruned
<1>5. T.marked \in [Obj -> Colours]
  <2>1. \A o \in Obj : (IF Kind[o] = "string" /\ iswhite(S, o) /\ \E t \in S.weak : o \in entries(S, t)
                                   THEN "gray" ELSE S.marked[o]) \in Colours
    BY <1>1
  <2> QED
    BY <1>2, <2>1
<1> QED
  BY <1>2, <1>3, <1>4, <1>5 DEF Cleared

\* A table refers to its entries, weak ones included.
LEMMA EntriesAreReferred ==
  ASSUME NEW S, NEW t
  PROVE  entries(S, t) \subseteq referred(S, t)
BY DEF entries, referred

\* What is left in a table with weak entries is marked.
LEMMA KeptEntries ==
  ASSUME NEW S, NEW T, Cleared(S, T), NEW t \in S.weak, S.weak \subseteq Obj,
         NEW k \in keys(T, t)
  PROVE  Marked(T, {k, T.heap[t].node[k]})
<1>1. /\ k \in DOMAIN S.heap[t].node /\ T.heap[t].node[k] = S.heap[t].node[k]
      /\ k \in keys(S, t) /\ k \in kept(S, t)
  BY DEF Cleared, Pruned, keys
<1>2. ~ iscleared(S, k, TRUE) /\ ~ iscleared(S, S.heap[t].node[k], FALSE)
  BY <1>1 DEF kept
<1>3. k \in entries(S, t) /\ S.heap[t].node[k] \in entries(S, t)
  BY <1>1 DEF entries
<1>4. ASSUME NEW v \in entries(S, t) \cap Obj, iswhite(S, v) => Kind[v] = "string" PROVE ~ iswhite(T, v)
  BY <1>4 DEF Cleared, iswhite
<1>5. \A v \in {k, S.heap[t].node[k]} \cap Obj : iswhite(S, v) => Kind[v] = "string"
  BY <1>2 DEF iscleared
<1> QED
  BY <1>1, <1>3, <1>4, <1>5 DEF Marked

\* When the weak tables are cleared, marked objects refer to marked ones only.
LEMMA ClearedIsClosed ==
  ASSUME NEW S, Remarked(S), Finalizable(S), NEW T, Cleared(S, T)
  PROVE  Closed(T)
<1>1. WellFormed(S) /\ Marking(S, {}) /\ Shapes(S) /\ S.weak \subseteq Of("table") /\ S.weak \subseteq Obj
  BY DEF Remarked, WellFormed, Marking, Tricolour, ListedIsGray
<1>2. T.free = S.free
  BY DEF Cleared, Same, StateFields
<1>3. \A v \in Obj : ~ iswhite(S, v) => ~ iswhite(T, v)
  BY DEF Cleared, iswhite
<1>4. \A X : Marked(S, X) => Marked(T, X)
  BY <1>3 DEF Marked
<1>5. ASSUME NEW o \in Obj \ S.free, ~ iswhite(T, o) PROVE Marked(T, referred(T, o))
  <2>1. Pruned(S, T)
    BY DEF Cleared
  <2>2. Shaped(T.heap[o], Kind[o]) /\ referred(T, o) \subseteq referred(S, o)
    BY <1>1, <2>1, PrunedHeap
  <2>3. Shaped(S.heap[o], Kind[o])
    BY <1>1 DEF Shapes
  <2>4. CASE iswhite(S, o)
    <3>1. Kind[o] = "string"
      BY <1>5, <2>4 DEF Cleared, iswhite
    <3>2. referred(S, o) \cap Obj = {}
      BY <2>3, <3>1, TypesAssumption DEF Shaped, referred, Range, isopen, keys
    <3> QED
      BY <2>2, <3>2 DEF Marked
  <2>5. CASE o \in S.weak
    <3>1. Kind[o] = "table"
      BY <1>1, <2>5 DEF Of
    <3>2. Marked(T, {T.heap[o].mt})
      <4>1. S.heap[o].mt \in references(S, o)
        BY <3>1 DEF references
      <4>2. Marked(S, references(S, o))
        BY <2>5 DEF Remarked
      <4>3. T.heap[o].mt = S.heap[o].mt
        BY <2>1, PrunedObject
      <4> QED
        BY <1>3, <4>1, <4>2, <4>3 DEF Marked
    <3>3. \A k \in keys(T, o) : Marked(T, {k, T.heap[o].node[k]})
      BY <1>1, <2>5, KeptEntries
    <3>4. ASSUME NEW v \in referred(T, o) \cap Obj PROVE ~ iswhite(T, v)
      <4>1. v = T.heap[o].mt \/ v \in keys(T, o) \/ \E k \in keys(T, o) : v = T.heap[o].node[k]
        BY <2>2, <3>1, <3>4, TypesAssumption DEF Shaped, referred, Range, isopen
      <4> QED
        BY <3>2, <3>3, <3>4, <4>1 DEF Marked
    <3> QED
      BY <3>4 DEF Marked
  <2>6. CASE o \in S.grayagain
    <3>1. Kind[o] = "thread" /\ Marked(S, references(S, o))
      BY <2>6 DEF Remarked, Of
    <3>2. referred(S, o) \cap Obj \subseteq references(S, o)
      BY <2>3, <3>1, TypesAssumption DEF Shaped, referred, references, isopen, keys
    <3>3. Marked(S, referred(T, o))
      BY <2>2, <3>1, <3>2 DEF Marked
    <3> QED
      BY <1>4, <3>3
  <2>7. CASE o \in tofinalize(S)
    <3>1. Kind[o] = "userdata" /\ Marked(S, {S.heap[o].mt, S.heap[o].env})
      <4>1. S.tmudata \in Seq(Of("userdata"))
        BY <1>1 DEF WellFormed, Types
      <4>2. o \in Of("userdata")
        BY <2>7, <4>1 DEF tofinalize, Range
      <4> QED
        BY <2>7, <4>2 DEF Finalizable, Of
    <3>2. referred(S, o) \cap Obj \subseteq {S.heap[o].mt, S.heap[o].env}
      BY <2>3, <3>1, TypesAssumption DEF Shaped, referred, isopen, keys, Range
    <3>3. Marked(S, referred(T, o))
      BY <2>2, <3>1, <3>2 DEF Marked
    <3> QED
      BY <1>4, <3>3
  <2>8. CASE isblack(S, o) /\ o \notin tofinalize(S)
    <3>1. Marked(S, fields(S, o))
      BY <1>1, <2>8 DEF Marking, Tricolour, Strong
    <3>2. Kind[o] # "thread" /\ ~ isopen(S, o)
      BY <1>1, <2>3, <2>8 DEF WellFormed, NeverBlack, Shaped, isopen
    <3>3. referred(S, o) \subseteq fields(S, o)
      BY <2>3, <3>2 DEF Shaped, referred, fields, keys, Range
    <3>4. Marked(S, referred(T, o))
      BY <2>2, <3>1, <3>3 DEF Marked
    <3> QED
      BY <1>4, <3>4
  <2>9. CASE isgray(S, o) /\ o \notin S.weak \cup S.grayagain
    <3>1. Kind[o] # "userdata" /\ Kind[o] \notin traversed /\ (Kind[o] = "upval" => isopen(S, o))
      BY <1>1, <2>9 DEF Marking, Tricolour, GrayIsListed, Remarked
    <3>2. Kind[o] \in {"upval", "string"}
      BY <3>1, TypesAssumption DEF traversed
    <3>3. CASE Kind[o] = "upval"
      <4>1. Marked(S, {uvalue(S, o)})
        BY <2>9, <3>3 DEF Remarked, GrayUpvals, Of
      <4>2. S.heap[o].v = None
        BY <2>3, <3>1, <3>3 DEF Shaped, isopen
      <4>3. referred(S, o) \cap Obj \subseteq {uvalue(S, o)}
        BY <2>3, <3>3, <4>2, TypesAssumption DEF Shaped, referred, keys, Range
      <4>4. Marked(S, referred(T, o))
        BY <2>2, <4>1, <4>3 DEF Marked
      <4> QED
        BY <1>4, <4>4
    <3>4. CASE Kind[o] = "string"
      <4>1. referred(S, o) \cap Obj = {}
        BY <2>3, <3>4, TypesAssumption DEF Shaped, referred, Range, isopen, keys
      <4> QED
        BY <2>2, <4>1 DEF Marked
    <3> QED
      BY <3>2, <3>3, <3>4
  <2>10. iswhite(S, o) \/ isblack(S, o) \/ isgray(S, o)
    <3>1. S.marked \in [Obj -> Colours]
      BY <1>1 DEF WellFormed, Types
    <3>2. S.marked[o] \in Colours
      BY <3>1
    <3> QED
      BY <3>2 DEF iswhite, isblack, isgray, Colours
  <2> QED
    BY <2>4, <2>5, <2>6, <2>7, <2>8, <2>9, <2>10
<1> QED
  BY <1>2, <1>5 DEF Closed

\* The threads from the main one to the one that runs are marked when what they refer to is.
LEMMA PathIsMarked ==
  ASSUME NEW S, Types(S), Shapes(S), Chain(S), Closed(S), roots(S) \cap S.free = {}, ~ iswhite(S, MainThread),
         NEW i \in DOMAIN path(S)
  PROVE  ~ iswhite(S, path(S)[i])
<1>1. S.callers \in Seq(Of("thread")) /\ S.L \in Of("thread")
  BY DEF Types
<1>2. PICK p : p = path(S)
  OBVIOUS
<1>3. /\ p \in Seq(Of("thread")) /\ Len(p) = Len(S.callers) + 1 /\ DOMAIN p = 1..Len(p)
      /\ \A j \in 1..Len(S.callers) : p[j] = S.callers[j]
  BY <1>1, <1>2, AppendProperties DEF path
<1>4. PICK P : P = {n \in Nat : n + 1 \in DOMAIN p => ~ iswhite(S, p[n + 1])}
  OBVIOUS
<1>5. 0 \in P
  BY <1>2, <1>4 DEF Chain
<1>6. ASSUME NEW n \in 1..(i - 1), n - 1 \in P PROVE n \in P
  <2>1. i \in Nat /\ i <= Len(p) /\ Len(S.callers) \in Nat
    BY <1>1, <1>2, <1>3
  <2>2. n \in DOMAIN S.callers /\ n \in DOMAIN p /\ n - 1 + 1 = n
    BY <1>1, <1>3, <2>1
  <2>3. p[n] = S.callers[n] /\ S.callers[n] \in Of("thread") /\ S.callers[n] \in Range(S.callers)
    BY <1>1, <1>3, <2>2 DEF Range
  <2>4. ~ iswhite(S, S.callers[n])
    BY <1>4, <1>6, <2>2, <2>3
  <2>5. S.callers[n] \notin S.free /\ S.callers[n] \in Obj
    BY <2>3 DEF roots, Of
  <2>6. Marked(S, referred(S, S.callers[n]))
    BY <2>4, <2>5 DEF Closed
  <2>7. Waits(S, n)
    BY <2>2 DEF Chain
  <2>8. PICK st : st = S.heap[S.callers[n]].stack
    OBVIOUS
  <2>9. p[n + 1] = st[Len(st)] /\ st # <<>>
    BY <1>2, <2>7, <2>8 DEF Waits
  <2>10. n + 1 \in DOMAIN p => p[n + 1] \in Obj
    BY <1>3 DEF Of
  <2>11. st \in Seq(Data)
    BY <2>5, <2>8 DEF Shapes, Shaped
  <2>12. Len(st) \in DOMAIN st
    BY <2>9, <2>11
  <2>13. p[n + 1] \in Range(st)
    BY <2>9, <2>12 DEF Range
  <2>14. p[n + 1] \in referred(S, S.callers[n])
    BY <2>8, <2>13 DEF referred
  <2>15. n + 1 \in DOMAIN p => ~ iswhite(S, p[n + 1])
    BY <2>6, <2>10, <2>14 DEF Marked
  <2> QED
    BY <1>4, <2>15
<1>7. i - 1 \in Nat /\ i - 1 + 1 = i /\ i \in DOMAIN p
  BY <1>2, <1>3
<1>8. Inductive(P, i - 1)
  BY <1>5, <1>6 DEF Inductive
<1>9. i - 1 \in P
  BY <1>7, <1>8, Induction
<1> QED
  BY <1>2, <1>4, <1>7, <1>9

\* What the beginning of a sweep does.
LEMMA StartsweepStarts ==
  ASSUME NEW S, DOMAIN S = StateFields, NEW T, T = startsweep(S)
  PROVE  /\ Same(S, T, {"gcstate", "strings", "sweep"}) /\ T.gcstate = "sweepstring"
         /\ T.strings = tosweep(S) \cap Of("string") /\ T.sweep = tosweep(S) \ Of("string")
<1>1. PICK a : a = tosweep(S)
  OBVIOUS
<1>2. T = [S EXCEPT !.gcstate = "sweepstring", !.strings = a \cap Of("string"), !.sweep = a \ Of("string")]
  BY <1>1 DEF startsweep
<1>3. T.gcstate = "sweepstring" /\ T.strings = a \cap Of("string") /\ T.sweep = a \ Of("string")
  BY <1>2 DEF StateFields
<1>4. Same(S, T, {"gcstate", "strings", "sweep"})
  BY <1>2 DEF StateFields, Same
<1> QED
  BY <1>1, <1>3, <1>4

\* At the beginning of a sweep everything is to be swept.
LEMMA StartsweepSweeps ==
  ASSUME NEW S, Types(S), Shapes(S), OpenUpvals(S), \A u \in tofinalize(S) : ~ isgray(S, u),
         NEW T, T = startsweep(S)
  PROVE  Phase(T)
<1>1. /\ Same(S, T, {"gcstate", "strings", "sweep"}) /\ T.gcstate = "sweepstring"
      /\ T.strings = tosweep(S) \cap Of("string") /\ T.sweep = tosweep(S) \ Of("string")
  BY StartsweepStarts DEF Types
<1>2. T.heap = S.heap /\ T.free = S.free /\ T.tmudata = S.tmudata /\ T.marked = S.marked
  BY <1>1 DEF Same, StateFields
<1>3. openupvals(T) = openupvals(S)
  BY <1>2, HeapDecides DEF openupvals
<1>4. ASSUME NEW o \in Obj \ (S.free \cup tofinalize(S)) PROVE o \in pending(T)
  <2>1. CASE o \in openupvals(S)
    <3>1. S.heap[o].at[1] \notin S.free
      BY <2>1 DEF OpenUpvals
    <3>2. Shaped(S.heap[o], Kind[o]) /\ S.heap[o].at # <<>>
      BY <2>1 DEF Shapes, openupvals, isopen
    <3>3. S.heap[o].at[1] \in Of("thread")
      BY <3>2 DEF Shaped
    <3>4. S.heap[o].at[1] \notin Range(S.tmudata) /\ S.heap[o].at[1] \notin openupvals(S)
      <4>1. S.tmudata \in Seq(Of("userdata"))
        BY DEF Types
      <4>2. Range(S.tmudata) \subseteq Of("userdata") /\ openupvals(S) \subseteq Of("upval")
        BY <4>1 DEF Range, openupvals
      <4> QED
        BY <3>3, <4>2 DEF Of
    <3>5. S.heap[o].at[1] \in T.sweep
      BY <1>1, <3>1, <3>3, <3>4 DEF tosweep, Of
    <3> QED
      BY <1>2, <1>3, <2>1, <3>5 DEF pending
  <2>2. CASE o \notin openupvals(S)
    BY <1>1, <2>2 DEF tosweep, tofinalize, pending
  <2> QED
    BY <2>1, <2>2
<1>5. Swept(T)
  BY <1>1, <1>2, <1>4 DEF Swept, tofinalize, tosweep
<1>6. \A u \in tofinalize(T) : ~ isgray(T, u)
  BY <1>2 DEF tofinalize, isgray
<1> QED
  BY <1>1, <1>5, <1>6 DEF Phase, PhaseBut

\* During the marking no userdata is gray.
LEMMA NoGrayUserdata ==
  ASSUME NEW S, WellFormed(S), GrayIsListed(S)
  PROVE  \A u \in tofinalize(S) : ~ isgray(S, u)
<1>1. S.tmudata \in Seq(Of("userdata"))
  BY DEF WellFormed, Types
<1>2. tofinalize(S) \subseteq Of("userdata")
  BY <1>1 DEF tofinalize, Range
<1> QED
  BY <1>2 DEF GrayIsListed, Of

\* The end of the marking: all that is reachable is marked, so what is still white is dead.
LEMMA AtomicKeeps ==
  ASSUME NEW S, WellFormed(S), Marking(S, {}), S.gray = {}, NEW T, T = atomic(S)
  PROVE  WellFormed(T) /\ Phase(T)
<1>1. PICK A : A = propagateall(remarkgray(propagateall(remarkweak(propagateall(remarkupvals(S))))))
  OBVIOUS
<1>2. Remarked(A)
  BY <1>1, RemarkKeeps
<1>3. PICK B : B = luaC_separateudata(A, FALSE)
  OBVIOUS
<1>4. Remarked(B)
  BY <1>2, <1>3, SeparateKeeps
<1>5. PICK C : C = propagateall(marktmu(B))
  OBVIOUS
<1>6. Remarked(C) /\ Finalizable(C)
  BY <1>4, <1>5, FinalizableKeeps
<1>7. WellFormed(C) /\ Marking(C, {}) /\ C.weak \subseteq Obj
  BY <1>6 DEF Remarked, Marking, Tricolour, ListedIsGray, Of
<1>8. PICK D : D = cleartable(C)
  OBVIOUS
<1>9. Cleared(C, D)
  BY <1>7, <1>8, CleartableClears
<1>10. Closed(D)
  BY <1>6, <1>9, ClearedIsClosed
<1>11. /\ D.free = C.free /\ D.L = C.L /\ D.callers = C.callers /\ D.tmudata = C.tmudata /\ D.udata = C.udata
       /\ D.bad = C.bad /\ D.gcstate = C.gcstate /\ DOMAIN D = DOMAIN C
  BY <1>9 DEF Cleared, Same, StateFields
<1>12. Pruned(C, D) /\ Shapes(C)
  BY <1>7, <1>9 DEF Cleared, WellFormed
<1>13. Shapes(D) /\ OpenUpvals(D) /\ Chain(D)
  BY <1>7, <1>11, <1>12, PrunedGraph
<1>14. ASSUME NEW o \in Obj, o \in C.free PROVE D.marked[o] = "white"
  <2>1. C.marked[o] = "white"
    BY <1>7, <1>14 DEF WellFormed, Types
  <2>2. ASSUME NEW t \in C.weak, o \in entries(C, t) PROVE FALSE
    <3>1. isgray(C, t) /\ t \in Obj
      BY <1>7 DEF Marking, Tricolour, ListedIsGray
    <3>2. t \in live(C)
      BY <1>7, <3>1 DEF live, WellFormed, Types, isgray, Marking, Tricolour, NoneDead
    <3>3. o \in referred(C, t)
      BY <2>2, EntriesAreReferred
    <3> QED
      BY <1>7, <1>14, <3>2, <3>3 DEF WellFormed, GraphIsLive, live
  <2> QED
    BY <1>9, <2>1, <2>2 DEF Cleared
<1>15. D.marked \in [Obj -> Colours] /\ \A o \in Obj : ~ iswhite(C, o) => ~ iswhite(D, o)
  BY <1>9 DEF Cleared, iswhite
<1>16. \A o \in Obj : D.marked[o] # "otherwhite"
  BY <1>7, <1>9 DEF Cleared, Marking, Tricolour, NoneDead, isdead
<1>17. Types(D)
  BY <1>7, <1>11, <1>12, <1>14, <1>15 DEF WellFormed, Types, Pruned
<1>18. roots(D) = roots(C) /\ roots(D) \cap D.free = {}
  BY <1>7, <1>11 DEF roots, WellFormed, GraphIsLive, live
<1>19. MainThread \in Obj /\ ~ iswhite(D, MainThread) /\ Registry \in Obj /\ ~ iswhite(D, Registry)
  BY <1>7, <1>15, TypesAssumption DEF Marking, Tricolour, Marked, Of
<1>20. \A i \in DOMAIN path(D) : ~ iswhite(D, path(D)[i])
  BY <1>10, <1>13, <1>17, <1>18, <1>19, PathIsMarked
<1>21. D.callers \in Seq(Of("thread")) /\ D.L \in Of("thread")
  BY <1>17 DEF Types
<1>22. PICK p : p = path(D)
  OBVIOUS
<1>23. Range(p) = Range(D.callers) \cup {D.L} /\ p \in Seq(Of("thread"))
  BY <1>21, <1>22, RangeOfAppend DEF path
<1>24. \A o \in Range(D.callers) \cup {D.L} : ~ iswhite(D, o)
  BY <1>20, <1>22, <1>23 DEF Range
<1>25. \A o \in Range(D.tmudata) : ~ iswhite(D, o)
  <2>1. ASSUME NEW o \in Range(D.tmudata) PROVE ~ iswhite(D, o)
    <3>1. o \in Obj
      BY <1>7, <1>11 DEF WellFormed, GraphIsLive, roots, live
    <3>2. ~ iswhite(C, o)
      BY <1>6, <1>11 DEF Finalizable, tofinalize
    <3> QED
      BY <1>15, <3>1, <3>2
  <2> QED
    BY <2>1
<1>26. \A o \in roots(D) : o \in Obj /\ o \notin D.free /\ ~ iswhite(D, o)
  <2>1. \A o \in roots(D) : ~ iswhite(D, o)
    BY <1>19, <1>24, <1>25 DEF roots
  <2>2. roots(D) \subseteq Obj
    BY <1>7, <1>18 DEF WellFormed, GraphIsLive, live
  <2> QED
    BY <1>18, <2>1, <2>2
<1>27. PICK E : E = flipwhite(D)
  OBVIOUS
<1>28. /\ E.marked = [o \in Obj |-> IF D.marked[o] = "white" /\ o \notin D.free THEN "otherwhite" ELSE D.marked[o]]
       /\ Same(D, E, {"marked"})
  <2>1. PICK m : m = [o \in Obj |-> IF D.marked[o] = "white" /\ o \notin D.free THEN "otherwhite" ELSE D.marked[o]]
    OBVIOUS
  <2>2. E = [D EXCEPT !.marked = m]
    BY <1>27, <2>1 DEF flipwhite
  <2>3. DOMAIN D = StateFields
    BY <1>17 DEF Types
  <2> QED
    BY <2>1, <2>2, <2>3 DEF Same, StateFields
<1>29. T = startsweep(E)
  BY <1>1, <1>3, <1>5, <1>8, <1>27 DEF atomic
<1>30. /\ E.heap = D.heap /\ E.free = D.free /\ E.L = D.L /\ E.callers = D.callers /\ E.tmudata = D.tmudata
       /\ E.udata = D.udata /\ E.bad = D.bad /\ E.gcstate = D.gcstate /\ DOMAIN E = DOMAIN D
  BY <1>28 DEF Same, StateFields
<1>31. E.marked \in [Obj -> Colours]
  <2>1. \A o \in Obj : (IF D.marked[o] = "white" /\ o \notin D.free THEN "otherwhite" ELSE D.marked[o]) \in Colours
    BY <1>15 DEF Colours
  <2> QED
    BY <1>28, <2>1
<1>32. \A o \in E.free : E.marked[o] = "white"
  BY <1>14, <1>11, <1>17, <1>28, <1>30 DEF Types
<1>33. Types(E)
  BY <1>17, <1>30, <1>31, <1>32 DEF Types
<1>34. live(E) = {o \in Obj \ D.free : ~ iswhite(D, o)}
  BY <1>16, <1>28, <1>30 DEF live, isdead, iswhite
<1>35. Shapes(E)
  BY <1>13, <1>30, HeapDecides
<1>36. OpenUpvals(E) /\ Chain(E)
  <2>1. Pruned(C, E)
    BY <1>12, <1>30 DEF Pruned
  <2> QED
    BY <2>1, <1>7, <1>11, <1>30, PrunedGraph
<1>37. GraphIsLive(E)
  <2>1. roots(E) = roots(D)
    BY <1>30 DEF roots
  <2>2. ASSUME NEW o \in live(E) PROVE referred(E, o) \cap Obj \subseteq live(E)
    <3>1. o \in Obj \ D.free /\ ~ iswhite(D, o)
      BY <1>34, <2>2
    <3>2. referred(E, o) = referred(D, o)
      BY <1>30, HeapDecides
    <3>3. Marked(D, referred(D, o))
      BY <1>10, <3>1 DEF Closed
    <3>4. referred(D, o) \subseteq referred(C, o)
      BY <1>12, <3>1, PrunedHeap
    <3>5. o \in live(C)
      BY <1>7, <1>11, <3>1 DEF live, Marking, Tricolour, NoneDead
    <3>6. referred(C, o) \cap Obj \subseteq live(C)
      BY <1>7, <3>5 DEF WellFormed, GraphIsLive
    <3> QED
      BY <1>11, <1>34, <3>2, <3>3, <3>4, <3>6 DEF Marked, live
  <2> QED
    BY <1>26, <1>34, <2>1, <2>2 DEF GraphIsLive
<1>38. NeverBlack(E)
  <2>1. ASSUME NEW o \in Obj, isblack(E, o) PROVE Kind[o] # "thread" /\ (Kind[o] = "upval" => ~ isopen(E, o))
    <3>1. isblack(C, o)
      BY <1>9, <1>28, <2>1 DEF isblack, Cleared
    <3>2. isopen(E, o) = isopen(C, o)
      BY <1>12, <1>30, PrunedHeap, HeapDecides
    <3> QED
      BY <1>7, <3>1, <3>2 DEF WellFormed, NeverBlack
  <2> QED
    BY <2>1 DEF NeverBlack
<1>39. Phase(T)
  <2>1. ASSUME NEW u \in tofinalize(E) PROVE ~ isgray(E, u)
    <3>1. C.tmudata \in Seq(Of("userdata"))
      BY <1>7 DEF WellFormed, Types
    <3>2. u \in tofinalize(C) /\ u \in Of("userdata")
      BY <1>11, <1>30, <2>1, <3>1 DEF tofinalize, Range
    <3>3. ~ isgray(C, u)
      BY <1>7, <3>2, NoGrayUserdata DEF Marking, Tricolour
    <3> QED
      BY <1>9, <1>28, <3>2, <3>3 DEF Cleared, isgray, Of
  <2> QED
    BY <2>1, <1>29, <1>33, <1>35, <1>36, StartsweepSweeps
<1>40. WellFormed(E)
  BY <1>33, <1>35, <1>36, <1>37, <1>38 DEF WellFormed
<1>41. Same(E, T, {"gcstate", "strings", "sweep"}) /\ T.gcstate = "sweepstring"
  BY <1>29, <1>33, StartsweepStarts DEF Types
<1>42. WellFormed(T)
  <2>1. /\ T.heap = E.heap /\ T.free = E.free /\ T.L = E.L /\ T.callers = E.callers /\ T.tmudata = E.tmudata
        /\ T.udata = E.udata /\ T.bad = E.bad /\ T.marked = E.marked /\ DOMAIN T = DOMAIN E
    BY <1>41 DEF Same, StateFields
  <2>2. Types(T)
    BY <1>33, <1>41, <2>1 DEF Types
  <2>3. live(T) = live(E)
    BY <2>1 DEF live, isdead
  <2>4. Shapes(T) /\ GraphIsLive(T) /\ OpenUpvals(T) /\ Chain(T)
    BY <1>40, <2>1, <2>3, SameGraph
  <2>5. NeverBlack(T)
    BY <1>38, <2>1, HeapDecides DEF NeverBlack, isblack
  <2> QED
    BY <2>2, <2>4, <2>5 DEF WellFormed
<1> QED
  BY <1>39, <1>42

-----------------------------------------------------------------------------
(* Freeing objects, closing upvalues, sweeping.                              *)

\* What does not change the objects, their colours and the threads.
LEMMA BooksKeep ==
  ASSUME NEW S, WellFormed(S), NEW T,
         Same(S, T, {"gcstate", "strings", "sweep", "gray", "grayagain", "weak", "full", "arena",
                     "finalized", "owed", "called", "udata", "bad"}),
         T.gcstate \in {"pause", "propagate", "sweepstring", "sweep", "finalize"},
         T.udata \in Seq(Of("userdata")), Range(T.udata) \cap S.free = {}, T.bad \subseteq {"barrierf outside a cycle"}
  PROVE  WellFormed(T) /\ live(T) = live(S)
<1>1. /\ T.heap = S.heap /\ T.free = S.free /\ T.L = S.L /\ T.callers = S.callers /\ T.tmudata = S.tmudata
      /\ T.marked = S.marked /\ DOMAIN T = DOMAIN S
  BY DEF Same, StateFields
<1>2. Types(T)
  BY <1>1 DEF WellFormed, Types
<1>3. live(T) = live(S)
  BY <1>1 DEF live, isdead
<1>4. Shapes(T) /\ GraphIsLive(T) /\ OpenUpvals(T) /\ Chain(T)
  BY <1>1, <1>3, SameGraph
<1>5. NeverBlack(T)
  BY <1>1, HeapDecides DEF WellFormed, NeverBlack, isblack
<1> QED
  BY <1>2, <1>3, <1>4, <1>5 DEF WellFormed

\* What makewhite does.
LEMMA MakewhiteMakes ==
  ASSUME NEW S, DOMAIN S = StateFields, NEW X, NEW T, T = makewhite(S, X)
  PROVE  /\ Same(S, T, {"marked"})
         /\ T.marked = [o \in Obj |-> IF o \in X THEN "white" ELSE S.marked[o]]
<1>1. PICK m : m = [o \in Obj |-> IF o \in X THEN "white" ELSE S.marked[o]]
  OBVIOUS
<1>2. T = [S EXCEPT !.marked = m]
  BY <1>1 DEF makewhite
<1>3. T.marked = m
  BY <1>2 DEF StateFields
<1>4. Same(S, T, {"marked"})
  BY <1>2 DEF StateFields, Same
<1> QED
  BY <1>1, <1>3, <1>4

\* Dead objects that are made white again refer to nothing dead.
RefersToLive(S, o) == referred(S, o) \cap Obj \subseteq live(S)

\* Making objects white keeps the heap well formed when the dead ones among them refer to nothing dead.
LEMMA MakewhiteKeeps ==
  ASSUME NEW S, WellFormed(S), NEW X \in SUBSET Obj,
         \A o \in X : isdead(S, o) => RefersToLive(S, o), NEW T, T = makewhite(S, X)
  PROVE  /\ WellFormed(T) /\ Same(S, T, {"marked"}) /\ live(T) = live(S) \cup (X \ S.free)
         /\ \A o \in Obj : T.marked[o] = IF o \in X THEN "white" ELSE S.marked[o]
<1>0. DOMAIN S = StateFields
  BY DEF WellFormed, Types
<1>1. /\ Same(S, T, {"marked"})
      /\ T.marked = [o \in Obj |-> IF o \in X THEN "white" ELSE S.marked[o]]
  BY <1>0, MakewhiteMakes
<1>2. /\ T.heap = S.heap /\ T.free = S.free /\ T.L = S.L /\ T.callers = S.callers /\ T.tmudata = S.tmudata
      /\ T.udata = S.udata /\ T.gcstate = S.gcstate /\ T.bad = S.bad /\ DOMAIN T = DOMAIN S
  BY <1>1 DEF Same, StateFields
<1>3. S.marked \in [Obj -> Colours] /\ "white" \in Colours
  BY DEF WellFormed, Types, Colours
<1>4. T.marked \in [Obj -> Colours]
  <2>1. \A o \in Obj : (IF o \in X THEN "white" ELSE S.marked[o]) \in Colours
    BY <1>3
  <2> QED
    BY <1>1, <2>1
<1>5. Types(T)
  <2>1. ASSUME NEW o \in S.free PROVE T.marked[o] = "white"
    <3>1. o \in Obj /\ S.marked[o] = "white"
      BY DEF WellFormed, Types
    <3> QED
      BY <1>1, <3>1
  <2> QED
    BY <1>2, <1>4, <2>1 DEF WellFormed, Types
<1>6. live(T) = live(S) \cup (X \ S.free)
  BY <1>1, <1>2 DEF live, isdead
<1>7. \A o : referred(T, o) = referred(S, o) /\ isopen(T, o) = isopen(S, o)
  BY <1>2, HeapDecides
<1>8. GraphIsLive(T)
  <2>1. roots(T) \subseteq live(T)
    BY <1>2, <1>6 DEF roots, WellFormed, GraphIsLive
  <2>2. ASSUME NEW o \in live(T) PROVE referred(T, o) \cap Obj \subseteq live(T)
    <3>1. CASE o \in live(S)
      BY <1>6, <1>7, <3>1 DEF WellFormed, GraphIsLive
    <3>2. CASE o \notin live(S)
      <4>1. o \in X /\ isdead(S, o)
        BY <1>2, <1>6, <2>2, <3>2 DEF live
      <4> QED
        BY <1>6, <1>7, <4>1 DEF RefersToLive
    <3> QED
      BY <3>1, <3>2
  <2> QED
    BY <2>1, <2>2 DEF GraphIsLive
<1>9. Shapes(T) /\ OpenUpvals(T) /\ Chain(T)
  <2>1. Pruned(S, T)
    BY <1>2 DEF WellFormed, Types, Shapes, Shaped, Pruned
  <2> QED
    BY <2>1, <1>2, PrunedGraph
<1>10. NeverBlack(T)
  BY <1>1, <1>7 DEF WellFormed, NeverBlack, isblack
<1> QED
  BY <1>1, <1>5, <1>6, <1>8, <1>9, <1>10 DEF WellFormed

\* What freeing objects does.
Freed(S, T, F) ==
  /\ Same(S, T, {"free", "heap", "marked", "called", "finalized", "owed", "udata"})
  /\ T.free = S.free \cup F
  /\ DOMAIN T.heap = Obj /\ \A o \in Obj : T.heap[o] = IF o \in F THEN Blank ELSE S.heap[o]
  /\ T.marked \in [Obj -> Colours] /\ \A o \in Obj : T.marked[o] = IF o \in F THEN "white" ELSE S.marked[o]
  /\ T.udata \in Seq(Of("userdata")) /\ Range(T.udata) \cap T.free = {}

\* What free does.
LEMMA FreeFrees ==
  ASSUME NEW S, Types(S), NEW F, NEW T, T = free(S, F)
  PROVE  Freed(S, T, F)
<1>1. DOMAIN S = StateFields
  BY DEF Types
<1>2. PICK h : h = [o \in Obj |-> IF o \in F THEN Blank ELSE S.heap[o]]
  OBVIOUS
<1>3. PICK m : m = [o \in Obj |-> IF o \in F THEN "white" ELSE S.marked[o]]
  OBVIOUS
<1>4. PICK c : c = [o \in Obj |-> IF o \in F THEN 0 ELSE S.called[o]]
  OBVIOUS
<1>5. PICK u : u = only(S.udata, Obj \ F)
  OBVIOUS
<1>6. T = [S EXCEPT !.free = S.free \cup F, !.heap = h, !.marked = m, !.called = c,
                    !.finalized = S.finalized \ F, !.owed = S.owed \ F, !.udata = u]
  BY <1>2, <1>3, <1>4, <1>5 DEF free
<1>7. T.free = S.free \cup F /\ T.heap = h /\ T.marked = m /\ T.udata = u
  BY <1>1, <1>6 DEF StateFields
<1>8. Same(S, T, {"free", "heap", "marked", "called", "finalized", "owed", "udata"})
  BY <1>1, <1>6 DEF StateFields, Same
<1>9. m \in [Obj -> Colours]
  <2>1. S.marked \in [Obj -> Colours] /\ "white" \in Colours
    BY DEF Types, Colours
  <2>2. \A o \in Obj : (IF o \in F THEN "white" ELSE S.marked[o]) \in Colours
    BY <2>1
  <2> QED
    BY <1>3, <2>2
<1>10. u \in Seq(Of("userdata")) /\ Range(u) \subseteq Range(S.udata) \cap (Obj \ F)
  <2>1. S.udata \in Seq(Of("userdata"))
    BY DEF Types
  <2> QED
    BY <1>5, <2>1, OnlySelects
<1>11. Range(u) \cap (S.free \cup F) = {}
  BY <1>10 DEF Types
<1>12. \A o \in Obj : T.marked[o] = IF o \in F THEN "white" ELSE S.marked[o]
  BY <1>3, <1>7
<1>13. DOMAIN T.heap = Obj /\ \A o \in Obj : T.heap[o] = IF o \in F THEN Blank ELSE S.heap[o]
  BY <1>2, <1>7
<1> QED
  BY <1>7, <1>8, <1>9, <1>10, <1>11, <1>12, <1>13 DEF Freed

\* A blank object is one of every type.
LEMMA BlankIsShaped ==
  ASSUME NEW kind
  PROVE  Shaped(Blank, kind)
<1>1. DOMAIN Blank = ObjectFields
  BY DEF Blank, ObjectFields
<1>2. /\ Blank.mt = None /\ Blank.env = None /\ Blank.v = None /\ Blank.refs = {} /\ Blank.stack = <<>>
      /\ DOMAIN Blank.node = {} /\ Blank.at = <<>>
  BY DEF Blank
<1>3. None \in Data
  BY TypesAssumption DEF Data, Value, Of
<1> QED
  BY <1>1, <1>2, <1>3 DEF Shaped

\* Dead objects are freed, a thread only when it has no open upvalue.
LEMMA FreedKeeps ==
  ASSUME NEW S, WellFormed(S), NEW F \in SUBSET Obj, \A o \in F : isdead(S, o),
         \A u \in openupvals(S) \ F : S.heap[u].at[1] \notin F, NEW T, Freed(S, T, F)
  PROVE  WellFormed(T) /\ live(T) = live(S) /\ openupvals(T) = openupvals(S) \ F
<1>1. /\ T.L = S.L /\ T.callers = S.callers /\ T.tmudata = S.tmudata
      /\ T.gcstate = S.gcstate /\ T.bad = S.bad /\ DOMAIN T = DOMAIN S
  BY DEF Freed, Same, StateFields
<1>2. /\ T.free = S.free \cup F
      /\ DOMAIN T.heap = Obj /\ \A o \in Obj : T.heap[o] = IF o \in F THEN Blank ELSE S.heap[o]
      /\ T.marked \in [Obj -> Colours] /\ \A o \in Obj : T.marked[o] = IF o \in F THEN "white" ELSE S.marked[o]
  BY DEF Freed
<1>3. Types(T)
  <2>1. ASSUME NEW o \in T.free PROVE T.marked[o] = "white"
    <3>1. o \in F \/ (o \in S.free /\ S.marked[o] = "white" /\ o \in Obj)
      BY <1>2, <2>1 DEF WellFormed, Types
    <3> QED
      BY <1>2, <3>1
  <2>2. T.udata \in Seq(Of("userdata")) /\ Range(T.udata) \cap T.free = {}
    BY DEF Freed
  <2> QED
    BY <1>1, <1>2, <2>1, <2>2 DEF WellFormed, Types
<1>4. Shapes(T)
  <2>1. ASSUME NEW o \in Obj PROVE Shaped(T.heap[o], Kind[o])
    <3>1. CASE o \in F
      BY <1>2, <3>1, BlankIsShaped
    <3>2. CASE o \notin F
      BY <1>2, <3>2 DEF WellFormed, Shapes
    <3> QED
      BY <3>1, <3>2
  <2> QED
    BY <2>1 DEF Shapes
<1>5. live(T) = live(S)
  <2>1. \A o \in Obj \ S.free : o \in F \/ T.marked[o] = S.marked[o]
    BY <1>2
  <2> QED
    BY <1>2, <2>1 DEF live, isdead
<1>6. \A o \in Obj : isopen(T, o) <=> isopen(S, o) /\ o \notin F
  BY <1>2 DEF isopen, Blank
<1>7. openupvals(T) = openupvals(S) \ F
  BY <1>2, <1>6 DEF openupvals, Of
<1>8. ASSUME NEW u \in openupvals(T)
      PROVE  /\ u \in Obj /\ u \notin F /\ T.heap[u] = S.heap[u]
             /\ S.heap[u].at[1] \in Obj /\ T.heap[S.heap[u].at[1]] = S.heap[S.heap[u].at[1]]
  <2>1. u \in openupvals(S) \ F
    BY <1>7, <1>8
  <2>2. u \in Obj /\ isopen(S, u)
    BY <2>1 DEF openupvals, Of
  <2>3. Shaped(S.heap[u], Kind[u])
    BY <2>2 DEF WellFormed, Shapes
  <2>4. S.heap[u].at[1] \in Obj
    BY <2>2, <2>3 DEF Shaped, isopen, Of
  <2> QED
    BY <2>1, <2>2, <2>4, <1>2
<1>9. OpenUpvals(T)
  <2>1. ASSUME NEW u \in openupvals(T)
        PROVE  T.heap[u].at[1] \notin T.free /\ T.heap[u].at[2] \in 1..Len(T.heap[T.heap[u].at[1]].stack)
    <3>1. u \in openupvals(S) \ F
      BY <1>7, <2>1
    <3>2. S.heap[u].at[1] \notin S.free /\ S.heap[u].at[2] \in 1..Len(S.heap[S.heap[u].at[1]].stack)
      BY <3>1 DEF WellFormed, OpenUpvals
    <3> QED
      BY <1>2, <1>8, <2>1, <3>1, <3>2
  <2> QED
    BY <2>1 DEF OpenUpvals
<1>10. ASSUME NEW o \in live(S) PROVE T.heap[o] = S.heap[o] /\ referred(T, o) = referred(S, o)
  <2>1. o \in Obj /\ o \notin F /\ o \notin S.free
    BY <1>10 DEF live
  <2>2. T.heap[o] = S.heap[o]
    BY <1>2, <2>1
  <2>3. keys(T, o) = keys(S, o)
    BY <2>2 DEF keys
  <2>4. isopen(T, o) = isopen(S, o)
    BY <2>2 DEF isopen
  <2>5. isopen(T, o) => uvalue(T, o) = uvalue(S, o)
    <3>1. ASSUME isopen(T, o) PROVE o \in openupvals(T)
      <4>1. Shaped(T.heap[o], Kind[o])
        BY <1>4, <2>1 DEF Shapes
      <4>2. Kind[o] = "upval"
        BY <4>1, <3>1 DEF Shaped, isopen
      <4> QED
        BY <1>2, <2>1, <3>1, <4>2 DEF openupvals, Of
    <3> QED
      BY <3>1, <2>2, <2>4, <1>8 DEF uvalue
  <2> QED
    BY <2>2, <2>3, <2>4, <2>5 DEF referred
<1>11. GraphIsLive(T)
  <2>1. roots(T) = roots(S)
    BY <1>1 DEF roots
  <2> QED
    BY <1>5, <1>10, <2>1 DEF WellFormed, GraphIsLive
<1>12. path(T) = path(S)
  BY <1>1 DEF path
<1>13. Chain(T)
  <2>1. Chain(S) /\ S.callers \in Seq(Of("thread"))
    BY DEF WellFormed, Types
  <2>2. ASSUME NEW i \in DOMAIN S.callers PROVE Waits(T, i)
    <3>1. Waits(S, i)
      BY <2>1 DEF Chain
    <3>2. S.callers[i] \in live(S)
      BY <2>1 DEF WellFormed, GraphIsLive, roots, Range
    <3>3. T.heap[S.callers[i]] = S.heap[S.callers[i]]
      BY <1>10, <3>2
    <3>4. \A th, n : captures(T, th, n) \subseteq captures(S, th, n)
      BY <1>7, <1>8 DEF captures
    <3> QED
      BY <1>1, <1>12, <3>1, <3>3, <3>4 DEF Waits
  <2> QED
    BY <1>1, <1>12, <2>1, <2>2 DEF Chain
<1>14. NeverBlack(T)
  BY <1>2, <1>6 DEF WellFormed, NeverBlack, isblack
<1> QED
  BY <1>3, <1>4, <1>5, <1>7, <1>9, <1>11, <1>13, <1>14 DEF WellFormed

\* What closing upvalues does.
Closing(S, T, U) ==
  /\ Same(S, T, {"heap"}) /\ DOMAIN T.heap = Obj
  /\ \A o \in Obj \ U : T.heap[o] = S.heap[o]
  /\ \A u \in U : /\ DOMAIN T.heap[u] = ObjectFields /\ T.heap[u].v = uvalue(S, u) /\ T.heap[u].at = <<>>
                  /\ \A f \in ObjectFields \ {"v", "at"} : T.heap[u][f] = S.heap[u][f]

\* What closeupvals does.
LEMMA CloseupvalsCloses ==
  ASSUME NEW S, WellFormed(S), NEW U \in SUBSET Obj, NEW T, T = closeupvals(S, U)
  PROVE  Closing(S, T, U)
<1>1. DOMAIN S = StateFields
  BY DEF WellFormed, Types
<1>2. PICK h : h = [o \in Obj |-> IF o \in U THEN [S.heap[o] EXCEPT !.v = uvalue(S, o), !.at = <<>>] ELSE S.heap[o]]
  OBVIOUS
<1>3. T = [S EXCEPT !.heap = h]
  BY <1>2 DEF closeupvals
<1>4. T.heap = h
  BY <1>1, <1>3 DEF StateFields
<1>5. Same(S, T, {"heap"})
  BY <1>1, <1>3 DEF StateFields, Same
<1>6. ASSUME NEW u \in U
      PROVE  /\ DOMAIN h[u] = ObjectFields /\ h[u].v = uvalue(S, u) /\ h[u].at = <<>>
             /\ \A f \in ObjectFields \ {"v", "at"} : h[u][f] = S.heap[u][f]
  <2>1. DOMAIN S.heap[u] = ObjectFields
    BY DEF WellFormed, Shapes, Shaped
  <2>2. PICK x : x = uvalue(S, u)
    OBVIOUS
  <2>3. h[u] = [S.heap[u] EXCEPT !.v = x, !.at = <<>>]
    BY <1>2, <2>2
  <2>4. h[u].v = x /\ h[u].at = <<>> /\ DOMAIN h[u] = ObjectFields
    BY <2>1, <2>3 DEF ObjectFields
  <2>5. \A f \in ObjectFields \ {"v", "at"} : h[u][f] = S.heap[u][f]
    BY <2>1, <2>3
  <2> QED
    BY <2>2, <2>4, <2>5
<1>7. DOMAIN h = Obj /\ \A o \in Obj \ U : h[o] = S.heap[o]
  BY <1>2
<1> QED
  BY <1>4, <1>5, <1>6, <1>7 DEF Closing

\* A closed upvalue has the value it had in the stack.
LEMMA ClosingKeeps ==
  ASSUME NEW S, WellFormed(S), NEW U \in SUBSET openupvals(S), NEW T, Closing(S, T, U)
  PROVE  /\ WellFormed(T) /\ live(T) = live(S) /\ openupvals(T) = openupvals(S) \ U
         /\ \A u \in U : T.heap[u].v = uvalue(S, u) /\ uvalue(S, u) \in referred(S, u)
<1>1. /\ T.L = S.L /\ T.callers = S.callers /\ T.tmudata = S.tmudata /\ T.udata = S.udata
      /\ T.gcstate = S.gcstate /\ T.bad = S.bad /\ DOMAIN T = DOMAIN S /\ T.free = S.free /\ T.marked = S.marked
  BY DEF Closing, Same, StateFields
<1>2. /\ DOMAIN T.heap = Obj /\ \A o \in Obj \ U : T.heap[o] = S.heap[o]
  BY DEF Closing
<1>3. ASSUME NEW u \in U
      PROVE  /\ u \in Obj /\ u \in Of("upval") /\ u \notin S.free /\ isopen(S, u)
             /\ DOMAIN T.heap[u] = ObjectFields /\ T.heap[u].v = uvalue(S, u) /\ T.heap[u].at = <<>>
             /\ T.heap[u].mt = S.heap[u].mt /\ T.heap[u].env = S.heap[u].env /\ T.heap[u].refs = S.heap[u].refs
             /\ T.heap[u].node = S.heap[u].node /\ T.heap[u].stack = S.heap[u].stack
             /\ uvalue(S, u) \in Data /\ uvalue(S, u) \in referred(S, u)
  <2>1. u \in Of("upval") /\ u \in Obj /\ u \notin S.free /\ isopen(S, u)
    BY DEF openupvals, Of
  <2>2. uvalue(S, u) \in Data /\ uvalue(S, u) \in referred(S, u)
    BY <2>1, UvalueIsReferred
  <2>3. /\ DOMAIN T.heap[u] = ObjectFields /\ T.heap[u].v = uvalue(S, u) /\ T.heap[u].at = <<>>
        /\ \A f \in ObjectFields \ {"v", "at"} : T.heap[u][f] = S.heap[u][f]
    BY DEF Closing
  <2>4. /\ T.heap[u].mt = S.heap[u].mt /\ T.heap[u].env = S.heap[u].env /\ T.heap[u].refs = S.heap[u].refs
        /\ T.heap[u].node = S.heap[u].node /\ T.heap[u].stack = S.heap[u].stack
    BY <2>3 DEF ObjectFields
  <2> QED
    BY <2>1, <2>2, <2>3, <2>4
<1>4. \A o \in Obj : T.heap[o].stack = S.heap[o].stack
  BY <1>2, <1>3
<1>5. Types(T)
  BY <1>1, <1>2 DEF WellFormed, Types
<1>6. Shapes(T)
  <2>1. ASSUME NEW o \in Obj PROVE Shaped(T.heap[o], Kind[o])
    <3>1. Shaped(S.heap[o], Kind[o])
      BY DEF WellFormed, Shapes
    <3>2. CASE o \in U
      BY <3>1, <3>2, <1>3 DEF Shaped, Of
    <3>3. CASE o \notin U
      BY <3>1, <3>3, <1>2
    <3> QED
      BY <3>2, <3>3
  <2> QED
    BY <2>1 DEF Shapes
<1>7. live(T) = live(S)
  BY <1>1 DEF live, isdead
<1>8. \A o \in Obj : isopen(T, o) <=> isopen(S, o) /\ o \notin U
  BY <1>2, <1>3 DEF isopen
<1>9. openupvals(T) = openupvals(S) \ U
  BY <1>1, <1>8 DEF openupvals, Of
<1>10. ASSUME NEW u \in openupvals(T)
       PROVE  /\ u \in Obj /\ u \notin U /\ T.heap[u] = S.heap[u] /\ u \in openupvals(S)
              /\ S.heap[u].at[1] \in Obj /\ T.heap[S.heap[u].at[1]].stack = S.heap[S.heap[u].at[1]].stack
  <2>1. u \in openupvals(S) /\ u \notin U
    BY <1>9, <1>10
  <2>2. u \in Obj /\ isopen(S, u)
    BY <2>1 DEF openupvals, Of
  <2>3. Shaped(S.heap[u], Kind[u])
    BY <2>2 DEF WellFormed, Shapes
  <2>4. S.heap[u].at[1] \in Obj
    BY <2>2, <2>3 DEF Shaped, isopen, Of
  <2> QED
    BY <2>1, <2>2, <2>4, <1>2, <1>4
<1>11. OpenUpvals(T)
  <2>1. ASSUME NEW u \in openupvals(T)
        PROVE  T.heap[u].at[1] \notin T.free /\ T.heap[u].at[2] \in 1..Len(T.heap[T.heap[u].at[1]].stack)
    BY <1>1, <1>10, <2>1 DEF WellFormed, OpenUpvals
  <2> QED
    BY <2>1 DEF OpenUpvals
<1>12. ASSUME NEW o \in live(S) PROVE referred(T, o) \subseteq referred(S, o)
  <2>1. o \in Obj /\ o \notin S.free
    BY <1>12 DEF live
  <2>2. CASE o \in U
    <3>1. ~ isopen(T, o) /\ keys(T, o) = keys(S, o)
      BY <1>3, <2>2 DEF isopen, keys
    <3>2. referred(T, o) = {T.heap[o].mt, T.heap[o].env, T.heap[o].v} \cup T.heap[o].refs \cup Range(T.heap[o].stack)
            \cup keys(T, o) \cup {T.heap[o].node[k] : k \in keys(T, o)}
      BY <3>1 DEF referred
    <3>3. uvalue(S, o) \in referred(S, o)
      BY <1>3, <2>2
    <3>4. /\ {S.heap[o].mt, S.heap[o].env} \cup S.heap[o].refs \cup Range(S.heap[o].stack)
                \cup keys(S, o) \cup {S.heap[o].node[k] : k \in keys(S, o)} \subseteq referred(S, o)
      BY DEF referred
    <3>5. /\ T.heap[o].mt = S.heap[o].mt /\ T.heap[o].env = S.heap[o].env /\ T.heap[o].refs = S.heap[o].refs
          /\ T.heap[o].node = S.heap[o].node /\ T.heap[o].stack = S.heap[o].stack /\ T.heap[o].v = uvalue(S, o)
      BY <1>3, <2>2
    <3>6. referred(T, o) = {S.heap[o].mt, S.heap[o].env, uvalue(S, o)} \cup S.heap[o].refs \cup Range(S.heap[o].stack)
            \cup keys(S, o) \cup {S.heap[o].node[k] : k \in keys(S, o)}
      BY <3>1, <3>2, <3>5
    <3> QED
      BY <3>3, <3>4, <3>6
  <2>3. CASE o \notin U
    <3>1. T.heap[o] = S.heap[o]
      BY <1>2, <2>1, <2>3
    <3>2. keys(T, o) = keys(S, o) /\ isopen(T, o) = isopen(S, o)
      BY <3>1 DEF keys, isopen
    <3>3. isopen(T, o) => uvalue(T, o) = uvalue(S, o)
      <4>1. ASSUME isopen(T, o) PROVE o \in openupvals(T)
        <5>1. Shaped(T.heap[o], Kind[o])
          BY <1>6, <2>1 DEF Shapes
        <5>2. Kind[o] = "upval"
          BY <5>1, <4>1 DEF Shaped, isopen
        <5> QED
          BY <1>1, <2>1, <4>1, <5>2 DEF openupvals, Of
      <4> QED
        BY <4>1, <3>1, <3>2, <1>10 DEF uvalue
    <3> QED
      BY <3>1, <3>2, <3>3 DEF referred
  <2> QED
    BY <2>2, <2>3
<1>13. GraphIsLive(T)
  <2>1. roots(T) = roots(S)
    BY <1>1 DEF roots
  <2> QED
    BY <1>7, <1>12, <2>1 DEF WellFormed, GraphIsLive
<1>14. path(T) = path(S)
  BY <1>1 DEF path
<1>15. Chain(T)
  <2>1. Chain(S) /\ S.callers \in Seq(Of("thread"))
    BY DEF WellFormed, Types
  <2>2. ASSUME NEW i \in DOMAIN S.callers PROVE Waits(T, i)
    <3>1. Waits(S, i)
      BY <2>1 DEF Chain
    <3>2. S.callers[i] \in Obj
      BY <2>1 DEF Of
    <3>3. T.heap[S.callers[i]].stack = S.heap[S.callers[i]].stack
      BY <1>4, <3>2
    <3>4. \A th, n : captures(T, th, n) \subseteq captures(S, th, n)
      BY <1>10 DEF captures
    <3> QED
      BY <1>1, <1>14, <3>1, <3>3, <3>4 DEF Waits
  <2> QED
    BY <1>1, <1>14, <2>1, <2>2 DEF Chain
<1>16. NeverBlack(T)
  <2>1. ASSUME NEW o \in Obj, isblack(T, o) PROVE Kind[o] # "thread" /\ (Kind[o] = "upval" => ~ isopen(T, o))
    BY <1>1, <1>8, <2>1 DEF WellFormed, NeverBlack, isblack
  <2> QED
    BY <2>1 DEF NeverBlack
<1> QED
  BY <1>3, <1>5, <1>6, <1>7, <1>9, <1>11, <1>13, <1>15, <1>16 DEF WellFormed

\* Upvalues that were closed and are not yet objects like the others.
Unlinked(S, U) ==
  /\ \A u \in U : u \in Of("upval") /\ u \notin S.free /\ ~ isopen(S, u) /\ S.marked[u] \in {"white", "gray"}
  /\ S.gcstate \in {"pause", "finalize"} => \A u \in U : S.marked[u] = "white"
  /\ S.gcstate = "propagate" =>
       /\ NoneDead(S) /\ Marked(S, {MainThread, Registry}) /\ Strong(S, {}) /\ ListedIsGray(S)
       /\ \A o \in Obj \ U : isgray(S, o) =>
            /\ Kind[o] # "userdata"
            /\ Kind[o] = "upval" => isopen(S, o)
            /\ Kind[o] \in traversed => o \in S.gray \cup S.grayagain \cup S.weak

\* Upvalues closed during the marking become black: their values are still to be marked.
LEMMA BlackenKeeps ==
  ASSUME NEW S, WellFormed(S), NEW U, Unlinked(S, U), S.gcstate = "propagate",
         NEW X, X = {u \in U : isgray(S, u)}, NEW T, T = blacken(S, X)
  PROVE  WellFormed(T) /\ Marking(T, X) /\ Same(S, T, {"marked"}) /\ live(T) = live(S)
<1>1. DOMAIN S = StateFields /\ S.marked \in [Obj -> Colours] /\ "black" \in Colours
  BY DEF WellFormed, Types, Colours
<1>2. PICK m : m = [o \in Obj |-> IF o \in X THEN "black" ELSE S.marked[o]]
  OBVIOUS
<1>3. T = [S EXCEPT !.marked = m]
  BY <1>2 DEF blacken
<1>4. T.marked = m
  BY <1>1, <1>3 DEF StateFields
<1>5. Same(S, T, {"marked"})
  BY <1>1, <1>3 DEF StateFields, Same
<1>6. \A o \in Obj : T.marked[o] = IF o \in X THEN "black" ELSE S.marked[o]
  BY <1>2, <1>4
<1>7. T.marked \in [Obj -> Colours]
  <2>1. \A o \in Obj : (IF o \in X THEN "black" ELSE S.marked[o]) \in Colours
    BY <1>1
  <2> QED
    BY <1>2, <1>4, <2>1
<1>8. /\ T.heap = S.heap /\ T.free = S.free /\ T.L = S.L /\ T.callers = S.callers /\ T.tmudata = S.tmudata
      /\ T.udata = S.udata /\ T.gcstate = S.gcstate /\ T.bad = S.bad /\ DOMAIN T = DOMAIN S
      /\ T.gray = S.gray /\ T.grayagain = S.grayagain /\ T.weak = S.weak
  BY <1>5 DEF Same, StateFields
<1>9. \A u \in X : u \in Obj /\ Kind[u] = "upval" /\ u \notin S.free /\ ~ isopen(S, u) /\ isgray(S, u)
  BY DEF Unlinked, Of
<1>10. Types(T)
  <2>1. ASSUME NEW o \in S.free PROVE T.marked[o] = "white"
    BY <1>6, <1>9 DEF WellFormed, Types
  <2> QED
    BY <1>7, <1>8, <2>1 DEF WellFormed, Types
<1>11. NoneDead(T)
  BY <1>6 DEF NoneDead, isdead, Unlinked
<1>12. live(T) = live(S)
  BY <1>8, <1>11 DEF live, NoneDead, Unlinked
<1>13. Shapes(T) /\ GraphIsLive(T) /\ OpenUpvals(T) /\ Chain(T)
  BY <1>8, <1>12, SameGraph
<1>14. \A o : fields(T, o) = fields(S, o) /\ isopen(T, o) = isopen(S, o)
  BY <1>8, HeapDecides
<1>15. NeverBlack(T)
  BY <1>6, <1>9, <1>14 DEF WellFormed, NeverBlack, isblack
<1>16. \A V : Marked(S, V) => Marked(T, V)
  BY <1>6 DEF Marked, iswhite
<1>17. Strong(T, X)
  <2>1. ASSUME NEW o \in Obj \ (tofinalize(T) \cup X), isblack(T, o) PROVE Marked(T, fields(T, o))
    <3>1. isblack(S, o) /\ o \notin tofinalize(S)
      BY <1>6, <1>8, <2>1 DEF isblack, tofinalize
    <3> QED
      BY <3>1, <1>14, <1>16 DEF Unlinked, Strong
  <2> QED
    BY <2>1 DEF Strong
<1>18. GrayIsListed(T)
  <2>1. ASSUME NEW o \in Obj, isgray(T, o)
        PROVE  /\ Kind[o] # "userdata"
               /\ Kind[o] = "upval" => isopen(T, o)
               /\ Kind[o] \in traversed => o \in T.gray \cup T.grayagain \cup T.weak
    <3>1. isgray(S, o) /\ o \notin X
      BY <1>6, <2>1 DEF isgray
    <3>2. o \notin U
      BY <3>1
    <3> QED
      BY <3>1, <3>2, <1>8, <1>14 DEF Unlinked
  <2> QED
    BY <2>1 DEF GrayIsListed
<1>19. ListedIsGray(T)
  <2>1. ListedIsGray(S)
    BY DEF Unlinked
  <2>2. \A o \in S.gray \cup S.grayagain \cup S.weak : o \notin X
    BY <1>9, <2>1 DEF ListedIsGray, traversed
  <2>3. ASSUME NEW o \in T.gray \cup T.grayagain \cup T.weak PROVE o \in Obj /\ isgray(T, o) /\ Kind[o] \in traversed
    <3>1. o \in Obj /\ isgray(S, o) /\ Kind[o] \in traversed
      BY <1>8, <2>1, <2>3 DEF ListedIsGray
    <3> QED
      BY <1>6, <1>8, <2>2, <2>3, <3>1 DEF isgray
  <2> QED
    BY <1>8, <2>1, <2>3 DEF ListedIsGray
<1>20. Marked(T, {MainThread, Registry})
  BY <1>16 DEF Unlinked
<1> QED
  BY <1>5, <1>10, <1>11, <1>12, <1>13, <1>15, <1>17, <1>18, <1>19, <1>20 DEF WellFormed, Marking, Tricolour

\* The barrier of luaC_linkupval makes closed upvalues objects like the others.
LEMMA LinkupvalKeeps ==
  ASSUME NEW S, WellFormed(S), NEW U, Unlinked(S, U), NEW T, T = luaC_linkupval(S, U)
  PROVE  /\ WellFormed(T) /\ Same(S, T, {"marked", "gray"}) /\ live(T) = live(S)
         /\ S.gcstate = "propagate" => Marking(T, {})
         /\ S.gcstate # "propagate" =>
              \A o \in Obj : T.marked[o] = IF o \in U THEN "white" ELSE S.marked[o]
<1>1. PICK X : X = {u \in U : isgray(S, u)}
  OBVIOUS
<1>2. \A u \in U : u \in Obj /\ Kind[u] = "upval" /\ u \notin S.free /\ ~ isopen(S, u)
  BY DEF Unlinked, Of
<1>3. CASE S.gcstate = "propagate"
  <2>1. PICK B : B = blacken(S, X)
    OBVIOUS
  <2>2. WellFormed(B) /\ Marking(B, X) /\ Same(S, B, {"marked"}) /\ live(B) = live(S)
    BY <1>1, <1>3, <2>1, BlackenKeeps
  <2>3. PICK V : V = {S.heap[u].v : u \in X}
    OBVIOUS
  <2>4. T = markobject(B, V)
    BY <1>1, <1>3, <2>1, <2>3 DEF luaC_linkupval
  <2>5. B.heap = S.heap /\ B.free = S.free /\ B.tmudata = S.tmudata
    BY <2>2 DEF Same, StateFields
  <2>6. V \cap B.free = {}
    <3>1. ASSUME NEW u \in X PROVE S.heap[u].v \notin S.free
      <4>1. u \in live(S)
        BY <1>1, <1>2, <1>3 DEF live, Unlinked, NoneDead
      <4>2. S.heap[u].v \in referred(S, u)
        BY DEF referred
      <4> QED
        BY <4>1, <4>2 DEF WellFormed, GraphIsLive, live, Types
    <3> QED
      BY <2>3, <2>5, <3>1
  <2>7. WellFormed(T) /\ Marking(T, X) /\ Recoloured(B, T, X) /\ Marked(T, V)
    BY <2>2, <2>4, <2>6, MarkobjectKeeps
  <2>8. Same(B, T, {"marked", "gray"})
    BY <2>7 DEF Recoloured
  <2>9. Same(S, T, {"marked", "gray"})
    BY <2>2, <2>8 DEF Same
  <2>10. T.heap = S.heap /\ T.free = S.free
    BY <2>9 DEF Same, StateFields
  <2>11. live(T) = live(S)
    BY <1>3, <2>7, <2>10 DEF live, Marking, Tricolour, Unlinked, NoneDead
  <2>12. Strong(T, {})
    <3>1. ASSUME NEW o \in Obj \ tofinalize(T), isblack(T, o) PROVE Marked(T, fields(T, o))
      <4>1. CASE o \in X
        <5>1. Kind[o] = "upval" /\ o \in Obj /\ Shapes(T)
          BY <1>1, <1>2, <2>7, <4>1 DEF WellFormed
        <5>2. fields(T, o) \cap Obj \subseteq {S.heap[o].v}
          BY <5>1, <2>10, FieldsByKind
        <5>3. S.heap[o].v \in V
          BY <2>3, <4>1
        <5> QED
          BY <2>7, <5>2, <5>3 DEF Marked
      <4>2. CASE o \notin X
        BY <2>7, <3>1, <4>2 DEF Marking, Tricolour, Strong
      <4> QED
        BY <4>1, <4>2
    <3> QED
      BY <3>1 DEF Strong
  <2> QED
    BY <1>3, <2>7, <2>9, <2>11, <2>12 DEF Marking, Tricolour
<1>4. CASE S.gcstate # "propagate"
  <2>1. X = {} \/ S.gcstate \notin {"finalize", "pause"}
    BY <1>1 DEF Unlinked, isgray
  <2>2. T = makewhite(S, X)
    BY <1>1, <1>4, <2>1 DEF luaC_linkupval, lua_assert
  <2>3. X \in SUBSET Obj /\ X \cap S.free = {}
    BY <1>1, <1>2
  <2>4. \A o \in X : ~ isdead(S, o)
    BY <1>1 DEF isgray, isdead
  <2>5. /\ WellFormed(T) /\ Same(S, T, {"marked"}) /\ live(T) = live(S) \cup (X \ S.free)
        /\ \A o \in Obj : T.marked[o] = IF o \in X THEN "white" ELSE S.marked[o]
    BY <2>2, <2>3, <2>4, MakewhiteKeeps
  <2>6. X \subseteq live(S)
    BY <2>3, <2>4 DEF live
  <2>7. \A o \in Obj : T.marked[o] = IF o \in U THEN "white" ELSE S.marked[o]
    BY <1>1, <2>5 DEF Unlinked, isgray
  <2> QED
    BY <1>4, <2>5, <2>6, <2>7 DEF Same
<1> QED
  BY <1>3, <1>4

\* The open upvalues of threads from a level up.
tobeclosed(S, threads, level) == {u \in openupvals(S) : S.heap[u].at[1] \in threads /\ S.heap[u].at[2] >= level}

\* What luaF_close does.
Closes(S, T, U) ==
  /\ WellFormed(T) /\ live(T) = live(S) /\ openupvals(T) = openupvals(S) \ U
  /\ Same(S, T, {"heap", "marked", "gray", "free", "called", "finalized", "owed", "udata"})
  /\ \A o \in Obj \ U : T.heap[o] = S.heap[o]
  /\ S.free \subseteq T.free /\ T.free \subseteq S.free \cup U
  /\ S.gcstate = "propagate" => Marking(T, {})
  /\ S.gcstate # "propagate" => \A o \in Obj : T.marked[o] = IF o \in U THEN "white" ELSE S.marked[o]

\* luaF_close closes the upvalues of some threads, and frees the dead ones.
LEMMA LuafCloseKeeps ==
  ASSUME NEW S, WellFormed(S), S.gcstate = "propagate" => Marking(S, {}),
         S.gcstate \in {"pause", "finalize"} => AllWhite(S), NEW threads, NEW level,
         NEW U, U = tobeclosed(S, threads, level), NEW T, T = luaF_close(S, threads, level)
  PROVE  Closes(S, T, U)
<1>1. PICK dead : dead = {u \in U : isdead(S, u)}
  OBVIOUS
<1>2. ASSUME NEW u \in U PROVE u \in Obj /\ Kind[u] = "upval" /\ u \notin S.free /\ isopen(S, u) /\ ~ isblack(S, u)
  <2>1. u \in Obj /\ Kind[u] = "upval" /\ u \notin S.free /\ isopen(S, u)
    BY DEF tobeclosed, openupvals, Of
  <2> QED
    BY <2>1 DEF WellFormed, NeverBlack
<1>3. U \subseteq openupvals(S)
  BY DEF tobeclosed
<1>4. PICK F : F = free(S, dead)
  OBVIOUS
<1>5. PICK C : C = closeupvals(F, U \ dead)
  OBVIOUS
<1>6. T = luaC_linkupval(C, U \ dead)
  <2>1. \A u \in U : ~ isblack(S, u)
    BY <1>2
  <2>2. U = {u \in openupvals(S) : S.heap[u].at[1] \in threads /\ S.heap[u].at[2] >= level}
    BY DEF tobeclosed
  <2> QED
    BY Zenon, <1>1, <1>4, <1>5, <2>1, <2>2 DEF luaF_close, lua_assert
<1>7. Freed(S, F, dead)
  BY <1>4, FreeFrees DEF WellFormed
<1>8. WellFormed(F) /\ live(F) = live(S) /\ openupvals(F) = openupvals(S) \ dead
  <2>1. dead \in SUBSET Obj /\ \A o \in dead : isdead(S, o)
    BY <1>1, <1>2
  <2>2. ASSUME NEW u \in openupvals(S) PROVE S.heap[u].at[1] \notin dead
    <3>1. u \in Obj /\ isopen(S, u)
      BY <2>2 DEF openupvals, Of
    <3>2. Shaped(S.heap[u], Kind[u])
      BY <3>1 DEF WellFormed, Shapes
    <3>3. S.heap[u].at[1] \in Of("thread")
      BY <3>1, <3>2 DEF Shaped, isopen
    <3> QED
      BY <3>3, <1>1, <1>2 DEF Of
  <2> QED
    BY <1>7, <2>1, <2>2, FreedKeeps
<1>9. Closing(F, C, U \ dead)
  <2>1. U \ dead \in SUBSET Obj
    BY <1>2
  <2> QED
    BY <1>5, <1>8, <2>1, CloseupvalsCloses
<1>10. WellFormed(C) /\ live(C) = live(F) /\ openupvals(C) = openupvals(F) \ (U \ dead)
  <2>1. U \ dead \in SUBSET openupvals(F)
    BY <1>1, <1>3, <1>8
  <2> QED
    BY <1>8, <1>9, <2>1, ClosingKeeps
<1>11. Same(S, C, {"heap", "marked", "free", "called", "finalized", "owed", "udata"})
  BY <1>7, <1>9 DEF Freed, Closing, Same
<1>12. /\ C.gcstate = S.gcstate /\ C.tmudata = S.tmudata /\ C.gray = S.gray /\ C.weak = S.weak
       /\ C.grayagain = S.grayagain
  BY <1>11 DEF Same, StateFields
<1>13. /\ C.free = S.free \cup dead
       /\ \A o \in Obj : C.marked[o] = IF o \in dead THEN "white" ELSE S.marked[o]
       /\ \A o \in Obj \ U : C.heap[o] = S.heap[o]
  <2>1. C.free = F.free /\ C.marked = F.marked
    BY <1>9 DEF Closing, Same, StateFields
  <2>2. \A o \in Obj \ U : C.heap[o] = F.heap[o]
    BY <1>1, <1>9 DEF Closing
  <2>3. \A o \in Obj \ U : F.heap[o] = S.heap[o]
    BY <1>1, <1>7 DEF Freed
  <2> QED
    BY <1>7, <2>1, <2>2, <2>3 DEF Freed
<1>14. \A o \in Obj \ U : isopen(C, o) = isopen(S, o) /\ fields(C, o) = fields(S, o)
  BY <1>13 DEF isopen, fields
<1>15. ASSUME NEW u \in U \ dead
       PROVE  u \in Of("upval") /\ u \notin C.free /\ ~ isopen(C, u) /\ C.marked[u] \in {"white", "gray"}
              /\ C.marked[u] = S.marked[u]
  <2>1. u \in Obj /\ u \in Of("upval") /\ u \notin C.free /\ C.marked[u] = S.marked[u]
    BY <1>2, <1>13 DEF Of
  <2>2. ~ isopen(C, u)
    BY <1>9 DEF Closing, isopen
  <2>3. S.marked[u] \in Colours
    BY <2>1 DEF WellFormed, Types
  <2>4. S.marked[u] # "black" /\ S.marked[u] # "otherwhite"
    BY <1>1, <1>2 DEF isblack, isdead
  <2> QED
    BY <2>1, <2>2, <2>3, <2>4 DEF Colours
<1>16. ASSUME S.gcstate \in {"pause", "finalize"}, NEW u \in U \ dead PROVE C.marked[u] = "white"
  <2>1. S.tmudata \in Seq(Of("userdata"))
    BY DEF WellFormed, Types
  <2>2. u \notin tofinalize(S)
    BY <1>2, <2>1 DEF tofinalize, Range, Of
  <2> QED
    BY <1>2, <1>15, <1>16, <2>2 DEF AllWhite
<1>17. ASSUME S.gcstate = "propagate"
       PROVE  /\ NoneDead(C) /\ Marked(C, {MainThread, Registry}) /\ Strong(C, {}) /\ ListedIsGray(C)
              /\ \A o \in Obj \ (U \ dead) : isgray(C, o) =>
                   /\ Kind[o] # "userdata"
                   /\ Kind[o] = "upval" => isopen(C, o)
                   /\ Kind[o] \in traversed => o \in C.gray \cup C.grayagain \cup C.weak
  <2>1. Marking(S, {})
    BY <1>17
  <2>2. dead = {}
    BY <1>1, <1>2, <2>1 DEF Marking, Tricolour, NoneDead
  <2>3. \A o \in Obj : C.marked[o] = S.marked[o]
    BY <1>13, <2>2
  <2>4. NoneDead(C) /\ Marked(C, {MainThread, Registry})
    BY <2>1, <2>3 DEF Marking, Tricolour, NoneDead, isdead, Marked, iswhite
  <2>5. ListedIsGray(C)
    BY <1>12, <2>1, <2>3 DEF Marking, Tricolour, ListedIsGray, isgray
  <2>6. Strong(C, {})
    <3>1. ASSUME NEW o \in Obj \ tofinalize(C), isblack(C, o) PROVE Marked(C, fields(C, o))
      <4>1. isblack(S, o) /\ o \notin tofinalize(S)
        BY <1>12, <2>3, <3>1 DEF isblack, tofinalize
      <4>2. o \notin U
        BY <1>2, <4>1
      <4>3. Marked(S, fields(S, o))
        BY <2>1, <4>1 DEF Marking, Tricolour, Strong
      <4> QED
        BY <1>14, <2>3, <4>2, <4>3 DEF Marked, iswhite
    <3> QED
      BY <3>1 DEF Strong
  <2>7. ASSUME NEW o \in Obj \ U, isgray(C, o)
        PROVE  /\ Kind[o] # "userdata"
               /\ Kind[o] = "upval" => isopen(C, o)
               /\ Kind[o] \in traversed => o \in C.gray \cup C.grayagain \cup C.weak
    <3>1. isgray(S, o)
      BY <2>3, <2>7 DEF isgray
    <3> QED
      BY <1>12, <1>14, <2>1, <3>1 DEF Marking, Tricolour, GrayIsListed
  <2> QED
    BY <2>2, <2>4, <2>5, <2>6, <2>7
<1>18. Unlinked(C, U \ dead)
  BY <1>12, <1>15, <1>16, <1>17 DEF Unlinked
<1>19. /\ WellFormed(T) /\ Same(C, T, {"marked", "gray"}) /\ live(T) = live(C)
       /\ C.gcstate = "propagate" => Marking(T, {})
       /\ C.gcstate # "propagate" =>
            \A o \in Obj : T.marked[o] = IF o \in U \ dead THEN "white" ELSE C.marked[o]
  <2>1. PICK V : V = U \ dead
    OBVIOUS
  <2>2. WellFormed(C) /\ Unlinked(C, V) /\ T = luaC_linkupval(C, V)
    BY <1>6, <1>10, <1>18, <2>1
  <2>3. /\ WellFormed(T) /\ Same(C, T, {"marked", "gray"}) /\ live(T) = live(C)
        /\ C.gcstate = "propagate" => Marking(T, {})
        /\ C.gcstate # "propagate" =>
             \A o \in Obj : T.marked[o] = IF o \in V THEN "white" ELSE C.marked[o]
    BY <2>2, LinkupvalKeeps
  <2> QED
    BY <2>1, <2>3
<1>20. Same(S, T, {"heap", "marked", "gray", "free", "called", "finalized", "owed", "udata"})
  BY <1>11, <1>19 DEF Same
<1>21. T.heap = C.heap /\ T.free = C.free
  BY <1>19 DEF Same, StateFields
<1>22. openupvals(T) = openupvals(S) \ U
  <2>1. openupvals(T) = openupvals(C)
    BY <1>21, HeapDecides DEF openupvals
  <2> QED
    BY <1>1, <1>8, <1>10, <2>1
<1>23. S.gcstate # "propagate" => \A o \in Obj : T.marked[o] = IF o \in U THEN "white" ELSE S.marked[o]
  BY <1>1, <1>12, <1>13, <1>19
<1>24. S.free \subseteq T.free /\ T.free \subseteq S.free \cup U
  BY <1>1, <1>13, <1>21
<1>25. \A o \in Obj \ U : T.heap[o] = S.heap[o]
  BY <1>13, <1>21
<1>26. live(T) = live(S) /\ WellFormed(T)
  BY <1>8, <1>10, <1>19
<1>27. S.gcstate = "propagate" => Marking(T, {})
  BY <1>12, <1>19
<1> QED
  BY <1>20, <1>22, <1>23, <1>24, <1>25, <1>26, <1>27 DEF Closes

\* What the sweep of some objects does.
Sweeps(S, T, objs) ==
  /\ WellFormed(T)
  /\ Same(S, T, {"heap", "marked", "gray", "free", "called", "finalized", "owed", "udata"})
  /\ \A o \in Obj \ (T.free \cup tofinalize(T)) :
       \/ T.marked[o] = "white"
       \/ o \in (S.sweep \cup S.strings) \ objs
       \/ o \in openupvals(T) /\ T.heap[o].at[1] \in S.sweep \ objs
  /\ \A o \in tofinalize(T) : ~ isgray(T, o)

\* A sweep frees the dead objects and makes the others white, open upvalues with their thread.
LEMMA SweeplistSweeps ==
  ASSUME NEW S, WellFormed(S), Phase(S), S.gcstate \in {"sweepstring", "sweep"}, NEW objs \in SUBSET Obj,
         NEW T, T = sweeplist(S, objs)
  PROVE  Sweeps(S, T, objs)
<1>1. PICK upvals : upvals = {u \in openupvals(S) : S.heap[u].at[1] \in objs}
  OBVIOUS
<1>2. PICK dead : dead = {o \in objs \cup upvals : isdead(S, o) /\ o # MainThread}
  OBVIOUS
<1>3. PICK D : D = dead \ Of("thread")
  OBVIOUS
<1>4. PICK H : H = dead \cap Of("thread")
  OBVIOUS
<1>5. PICK X : X = (objs \cup upvals) \ dead
  OBVIOUS
<1>6. PICK F : F = free(S, D)
  OBVIOUS
<1>7. PICK w : w = makewhite(F, X)
  OBVIOUS
<1>8. PICK z : z = luaF_close(w, H, 1)
  OBVIOUS
<1>9. T = free(z, H)
  <2>1. S.L \notin dead
    BY <1>2 DEF WellFormed, GraphIsLive, roots, live
  <2> QED
    BY <1>1, <1>2, <1>3, <1>4, <1>5, <1>6, <1>7, <1>8, <2>1 DEF sweeplist, lua_assert, luaE_freethread
<1>10. upvals \subseteq Obj /\ \A o \in dead : o \in Obj /\ isdead(S, o)
  BY <1>1, <1>2 DEF openupvals, Of
<1>11. Freed(S, F, D)
  BY <1>6, FreeFrees DEF WellFormed
<1>12. WellFormed(F) /\ live(F) = live(S) /\ openupvals(F) = openupvals(S) \ D
  <2>1. D \in SUBSET Obj /\ \A o \in D : isdead(S, o)
    BY <1>3, <1>10
  <2>2. ASSUME NEW u \in openupvals(S) PROVE S.heap[u].at[1] \notin D
    <3>1. u \in Obj /\ isopen(S, u)
      BY <2>2 DEF openupvals, Of
    <3>2. Shaped(S.heap[u], Kind[u])
      BY <3>1 DEF WellFormed, Shapes
    <3> QED
      BY <3>1, <3>2, <1>3 DEF Shaped, isopen
  <2> QED
    BY <1>11, <2>1, <2>2, FreedKeeps
<1>13. X \in SUBSET Obj /\ \A o \in X : ~ isdead(F, o)
  <2>1. MainThread \in live(S) /\ X \in SUBSET Obj
    BY <1>5, <1>10 DEF WellFormed, GraphIsLive, roots
  <2>2. \A o \in X : ~ isdead(S, o)
    BY <1>2, <1>5, <2>1 DEF live
  <2> QED
    BY <1>11, <2>1, <2>2 DEF Freed, isdead
<1>14. /\ WellFormed(w) /\ Same(F, w, {"marked"})
       /\ \A o \in Obj : w.marked[o] = IF o \in X THEN "white" ELSE F.marked[o]
  BY <1>7, <1>12, <1>13, MakewhiteKeeps
<1>15. w.heap = F.heap /\ w.free = F.free
  BY <1>14 DEF Same, StateFields
<1>16. Same(S, w, {"free", "heap", "marked", "called", "finalized", "owed", "udata"})
  BY <1>11, <1>14 DEF Freed, Same
<1>17. w.gcstate = S.gcstate /\ w.tmudata = S.tmudata
  BY <1>16 DEF Same, StateFields
<1>18. openupvals(w) = openupvals(S) \ D
  <2>1. openupvals(w) = openupvals(F)
    BY <1>15, HeapDecides DEF openupvals
  <2> QED
    BY <1>12, <2>1
<1>19. PICK U : U = tobeclosed(w, H, 1)
  OBVIOUS
<1>20. Closes(w, z, U)
  BY <1>8, <1>14, <1>17, <1>19, LuafCloseKeeps
<1>21. U \subseteq Of("upval") /\ U \subseteq openupvals(w)
  BY <1>19 DEF tobeclosed, openupvals
<1>22. WellFormed(z) /\ openupvals(z) = openupvals(w) \ U /\ (\A o \in Obj \ U : z.heap[o] = w.heap[o])
       /\ w.free \subseteq z.free
       /\ \A o \in Obj : z.marked[o] = IF o \in U THEN "white" ELSE w.marked[o]
  BY <1>17, <1>20 DEF Closes
<1>23. Freed(z, T, H)
  BY <1>9, <1>22, FreeFrees DEF WellFormed
<1>24. WellFormed(T) /\ openupvals(T) = openupvals(z) \ H
  <2>1. ASSUME NEW o \in H PROVE o \in Obj /\ isdead(z, o)
    <3>1. o \in Obj /\ isdead(S, o) /\ o \in Of("thread") /\ o \notin D /\ o \notin X
      BY <1>3, <1>4, <1>5, <1>10, <2>1
    <3>2. o \notin U
      BY <1>21, <3>1 DEF Of
    <3> QED
      BY <1>11, <1>14, <1>22, <3>1, <3>2 DEF isdead, Freed
  <2>2. ASSUME NEW u \in openupvals(z) PROVE z.heap[u].at[1] \notin H
    <3>1. u \in openupvals(w) /\ u \notin U /\ u \in Obj
      BY <1>22, <2>2 DEF openupvals, Of
    <3>2. z.heap[u] = w.heap[u]
      BY <1>22, <3>1
    <3>3. w.heap[u].at[2] \in 1..Len(w.heap[w.heap[u].at[1]].stack)
      BY <1>14, <3>1 DEF WellFormed, OpenUpvals
    <3>4. w.heap[u].at[2] >= 1
      BY <3>3
    <3> QED
      BY <1>19, <3>1, <3>2, <3>4 DEF tobeclosed
  <2>3. H \in SUBSET Obj /\ \A o \in H : isdead(z, o)
    BY <2>1
  <2> QED
    BY <1>22, <1>23, <2>2, <2>3, FreedKeeps
<1>25. Same(S, T, {"heap", "marked", "gray", "free", "called", "finalized", "owed", "udata"})
  BY <1>16, <1>20, <1>23 DEF Freed, Closes, Same
<1>26. T.tmudata = S.tmudata
  BY <1>25 DEF Same, StateFields
<1>27. ASSUME NEW o \in Obj
       PROVE  T.marked[o] = IF o \in H \cup U \cup X \cup D THEN "white" ELSE S.marked[o]
  BY <1>11, <1>14, <1>22, <1>23 DEF Freed
<1>28. objs \cup upvals = X \cup D \cup H
  BY <1>2, <1>3, <1>4, <1>5
<1>29. ASSUME NEW o \in Obj, o \notin T.free, o \notin tofinalize(T), T.marked[o] # "white"
       PROVE  \/ o \in (S.sweep \cup S.strings) \ objs
              \/ o \in openupvals(T) /\ T.heap[o].at[1] \in S.sweep \ objs
  <2>1. o \notin H \cup U \cup X \cup D /\ S.marked[o] # "white" /\ o \notin objs /\ o \notin upvals
    BY <1>27, <1>28, <1>29
  <2>2. o \notin S.free
    BY <1>11, <1>15, <1>22, <1>23, <1>29 DEF Freed
  <2>3. o \in pending(S)
    BY <1>26, <1>29, <2>1, <2>2 DEF Phase, PhaseBut, Swept, tofinalize
  <2>4. CASE o \in S.sweep \cup S.strings
    BY <2>1, <2>4
  <2>5. CASE o \in openupvals(S) /\ S.heap[o].at[1] \in S.sweep
    <3>1. S.heap[o].at[1] \notin objs
      BY <1>1, <2>1, <2>5
    <3>2. o \in openupvals(T)
      BY <1>18, <1>22, <1>24, <2>1, <2>5
    <3>3. T.heap[o] = S.heap[o]
      BY <1>11, <1>15, <1>22, <1>23, <2>1 DEF Freed
    <3> QED
      BY <2>5, <3>1, <3>2, <3>3
  <2> QED
    BY <2>3, <2>4, <2>5 DEF pending
<1>30. ASSUME NEW o \in tofinalize(T) PROVE ~ isgray(T, o)
  <2>1. o \in tofinalize(S) /\ o \in Obj
    BY <1>26, <1>30 DEF tofinalize, WellFormed, GraphIsLive, roots, live
  <2>2. ~ isgray(S, o)
    BY <2>1 DEF Phase, PhaseBut
  <2> QED
    BY <1>27, <2>1, <2>2 DEF isgray
<1> QED
  BY <1>24, <1>25, <1>29, <1>30 DEF Sweeps

-----------------------------------------------------------------------------
(* The phases, and the steps of the collector.                               *)

\* A step that changes no colour and no list, and that gives a black object no field.
LEMMA PhaseKeeps ==
  ASSUME NEW S, Types(S), NEW E, PhaseBut(S, E), NEW T, NEW X, E \subseteq X,
         Same(S, T, {"heap", "free", "full", "arena", "finalized", "owed", "called", "udata", "bad",
                     "L", "callers"}),
         \A o \in Obj \ X : isblack(S, o) => fields(T, o) \subseteq fields(S, o),
         \A o \in Obj : S.marked[o] # "white" => T.heap[o].at = S.heap[o].at /\ (o \in T.free => o \in S.free)
  PROVE  PhaseBut(T, X)
<1>1. /\ T.tmudata = S.tmudata /\ T.marked = S.marked
      /\ T.gcstate = S.gcstate /\ T.gray = S.gray /\ T.grayagain = S.grayagain /\ T.weak = S.weak
      /\ T.sweep = S.sweep /\ T.strings = S.strings
  BY DEF Same, StateFields
<1>2. \A o \in Obj : S.marked[o] # "white" => isopen(T, o) = isopen(S, o)
  BY DEF isopen
<1>4. tofinalize(T) = tofinalize(S)
  BY <1>1 DEF tofinalize
<1>5. ASSUME Marking(S, E) PROVE Marking(T, X)
  <2>1. \A V : Marked(T, V) = Marked(S, V)
    BY <1>1 DEF Marked, iswhite
  <2>2. ASSUME NEW o \in Obj \ (tofinalize(T) \cup X), isblack(T, o) PROVE Marked(T, fields(T, o))
    <3>1. isblack(S, o) /\ o \notin tofinalize(S) \cup E /\ o \notin X
      BY <1>1, <1>4, <2>2 DEF isblack
    <3>2. Marked(S, fields(S, o))
      BY <3>1, <1>5 DEF Marking, Tricolour, Strong
    <3>3. fields(T, o) \subseteq fields(S, o)
      BY <3>1
    <3>4. Marked(S, fields(T, o))
      BY <3>2, <3>3 DEF Marked
    <3> QED
      BY <2>1, <3>4
  <2>3. GrayIsListed(T)
    <3>1. ASSUME NEW o \in Obj, isgray(T, o)
          PROVE  /\ Kind[o] # "userdata"
                 /\ Kind[o] = "upval" => isopen(T, o)
                 /\ Kind[o] \in traversed => o \in T.gray \cup T.grayagain \cup T.weak
      BY <1>1, <1>2, <1>5, <3>1 DEF Marking, Tricolour, GrayIsListed, isgray
    <3> QED
      BY <3>1 DEF GrayIsListed
  <2>4. ListedIsGray(T)
    BY <1>1, <1>5 DEF ListedIsGray, isgray, Marking, Tricolour
  <2>5. NoneDead(T)
    BY <1>1, <1>5 DEF NoneDead, isdead, Marking, Tricolour
  <2>6. Strong(T, X)
    BY <2>2 DEF Strong
  <2> QED
    BY <1>5, <2>1, <2>3, <2>4, <2>5, <2>6 DEF Marking, Tricolour
<1>6. ASSUME Swept(S) PROVE Swept(T)
  <2>1. T.sweep \cup T.strings \subseteq Obj
    BY <1>1, <1>6 DEF Swept
  <2>2. ASSUME NEW o \in Obj, o \notin T.free, o \notin tofinalize(T), T.marked[o] # "white" PROVE o \in pending(T)
    <3>1. S.marked[o] # "white" /\ o \notin S.free /\ o \notin tofinalize(S)
      BY <1>1, <1>4, <2>2 DEF Types
    <3>2. o \in pending(S)
      BY <1>6, <3>1 DEF Swept
    <3>3. CASE o \in S.sweep \cup S.strings
      BY <1>1, <3>3 DEF pending
    <3>4. CASE o \in openupvals(S) /\ S.heap[o].at[1] \in S.sweep
      <4>1. T.heap[o].at = S.heap[o].at
        BY <3>1
      <4>2. o \in openupvals(T)
        BY <1>2, <2>2, <3>1, <3>4 DEF openupvals
      <4> QED
        BY <1>1, <3>4, <4>1, <4>2 DEF pending
    <3> QED
      BY <3>2, <3>3, <3>4 DEF pending
  <2> QED
    BY <2>1, <2>2 DEF Swept
<1>7. ASSUME AllWhite(S) PROVE AllWhite(T)
  <2>1. ASSUME NEW o \in Obj, o \notin T.free, o \notin tofinalize(T) PROVE T.marked[o] = "white"
    BY <1>1, <1>4, <1>7, <2>1 DEF AllWhite, Types
  <2> QED
    BY <2>1 DEF AllWhite
<1>8. \A u \in tofinalize(T) : ~ isgray(T, u)
  BY <1>1, <1>4 DEF PhaseBut, isgray
<1> QED
  BY <1>1, <1>5, <1>6, <1>7, <1>8 DEF PhaseBut

\* A step that changes the books only.
LEMMA BooksKeepPhase ==
  ASSUME NEW S, WellFormed(S), NEW E, PhaseBut(S, E), NEW T,
         Same(S, T, {"full", "arena", "finalized", "owed", "called", "udata", "bad"}),
         T.udata \in Seq(Of("userdata")), Range(T.udata) \cap S.free = {}, T.bad \subseteq {"barrierf outside a cycle"}
  PROVE  WellFormed(T) /\ PhaseBut(T, E) /\ live(T) = live(S)
<1>1. T.gcstate \in {"pause", "propagate", "sweepstring", "sweep", "finalize"} /\ T.heap = S.heap /\ T.free = S.free
  BY DEF Same, StateFields, WellFormed, Types
<1>2. Same(S, T, {"gcstate", "strings", "sweep", "gray", "grayagain", "weak", "full", "arena",
                     "finalized", "owed", "called", "udata", "bad"})
  BY DEF Same
<1>3. WellFormed(T) /\ live(T) = live(S)
  BY <1>1, <1>2, BooksKeep
<1>4. PhaseBut(T, E)
  <2>1. \A o \in Obj \ E : isblack(S, o) => fields(T, o) \subseteq fields(S, o)
    BY <1>1, HeapDecides
  <2>2. \A o \in Obj : S.marked[o] # "white" => T.heap[o].at = S.heap[o].at /\ (o \in T.free => o \in S.free)
    BY <1>1
  <2>3. Same(S, T, {"heap", "free", "full", "arena", "finalized", "owed", "called", "udata", "bad",
                     "L", "callers"})
    BY DEF Same
  <2>4. Types(S)
    BY DEF WellFormed
  <2> QED
    BY <2>1, <2>2, <2>3, <2>4, PhaseKeeps
<1> QED
  BY <1>3, <1>4

\* How far luaC_fullgc is matters to no object.
LEMMA FullKeeps ==
  ASSUME NEW S, WellFormed(S), Phase(S), NEW full, NEW T, T = [S EXCEPT !.full = full]
  PROVE  WellFormed(T) /\ Phase(T)
<1>1. DOMAIN S = StateFields
  BY DEF WellFormed, Types
<1>2. Same(S, T, {"full"})
  BY <1>1 DEF StateFields, Same
<1>3. T.udata = S.udata /\ T.bad = S.bad
  BY <1>2 DEF Same, StateFields
<1>4. T.udata \in Seq(Of("userdata")) /\ Range(T.udata) \cap S.free = {} /\ T.bad \subseteq {"barrierf outside a cycle"}
  BY <1>3 DEF WellFormed, Types
<1>5. Same(S, T, {"full", "arena", "finalized", "owed", "called", "udata", "bad"})
  BY <1>2 DEF Same
<1> QED
  BY <1>4, <1>5, BooksKeepPhase DEF Phase

\* A cycle begins with every object white and the roots marked.
LEMMA MarkrootKeeps ==
  ASSUME NEW S, WellFormed(S), AllWhite(S), \A u \in tofinalize(S) : ~ isgray(S, u),
         NEW T, T = markroot(S)
  PROVE  WellFormed(T) /\ Phase(T)
<1>1. PICK M : M = [S EXCEPT !.gray = {}, !.grayagain = {}, !.weak = {}, !.gcstate = "propagate"]
  OBVIOUS
<1>2. DOMAIN S = StateFields
  BY DEF WellFormed, Types
<1>3. M.gray = {} /\ M.grayagain = {} /\ M.weak = {} /\ M.gcstate = "propagate"
  BY <1>1, <1>2 DEF StateFields
<1>4. Same(S, M, {"gray", "grayagain", "weak", "gcstate"})
  BY <1>1, <1>2 DEF StateFields, Same
<1>5. /\ M.heap = S.heap /\ M.free = S.free /\ M.tmudata = S.tmudata /\ M.udata = S.udata /\ M.bad = S.bad
      /\ M.marked = S.marked
  BY <1>4 DEF Same, StateFields
<1>6. WellFormed(M)
  <2>1. M.udata \in Seq(Of("userdata")) /\ Range(M.udata) \cap S.free = {} /\ M.bad \subseteq {"barrierf outside a cycle"}
    BY <1>5 DEF WellFormed, Types
  <2> QED
    BY <1>3, <1>4, <2>1, BooksKeep DEF Same
<1>7. \A o \in Obj : M.marked[o] = "white" \/ o \in tofinalize(S)
  BY <1>5 DEF AllWhite, WellFormed, Types
<1>8. \A o \in tofinalize(S) : ~ isdead(S, o)
  BY DEF WellFormed, GraphIsLive, roots, live, tofinalize
<1>9. Tricolour(M, {})
  <2>1. NoneDead(M)
    BY <1>5, <1>7, <1>8 DEF NoneDead, isdead
  <2>2. Strong(M, {})
    BY <1>5, <1>7 DEF Strong, isblack, tofinalize
  <2>3. \A o \in Obj : ~ isgray(M, o)
    BY <1>5, <1>7 DEF isgray
  <2>4. GrayIsListed(M) /\ ListedIsGray(M)
    BY <1>3, <2>3 DEF GrayIsListed, ListedIsGray
  <2> QED
    BY <2>1, <2>2, <2>4 DEF Tricolour
<1>10. PICK V : V = {MainThread, Registry, S.heap[MainThread].env}
  OBVIOUS
<1>11. V \cap M.free = {}
  <2>1. MainThread \in live(S) /\ Registry \in live(S)
    BY DEF WellFormed, GraphIsLive, roots
  <2>2. S.heap[MainThread].env \in referred(S, MainThread)
    BY DEF referred
  <2>3. S.heap[MainThread].env \in Obj => S.heap[MainThread].env \in live(S)
    BY <2>1, <2>2 DEF WellFormed, GraphIsLive
  <2>4. S.free \subseteq Obj
    BY DEF WellFormed, Types
  <2> QED
    BY <1>5, <1>10, <2>1, <2>3, <2>4 DEF live
<1>12. T = markobject(M, V)
  BY <1>1, <1>10 DEF markroot
<1>13. WellFormed(T) /\ Tricolour(T, {}) /\ Recoloured(M, T, {}) /\ Marked(T, V)
  BY <1>6, <1>9, <1>11, <1>12, MarkobjectKeepsColours
<1>14. Marking(T, {})
  BY <1>10, <1>13 DEF Marking, Marked
<1>15. T.gcstate = "propagate"
  BY <1>3, <1>13 DEF Recoloured, Same, StateFields
<1>16. \A u \in tofinalize(T) : ~ isgray(T, u)
  BY <1>13, NoGrayUserdata DEF Tricolour
<1> QED
  BY <1>13, <1>14, <1>15, <1>16 DEF Phase, PhaseBut

\* A step of the marking.
LEMMA PropagateKeeps ==
  ASSUME NEW S, WellFormed(S), Phase(S), S.gcstate = "propagate", NEW o \in S.gray, NEW T, T = propagatemark(S, o)
  PROVE  WellFormed(T) /\ Phase(T)
<1>1. PICK X : X = {o}
  OBVIOUS
<1>2. T = traverse(S, X) /\ X \subseteq S.gray /\ Marking(S, {})
  BY <1>1 DEF propagatemark, Phase, PhaseBut
<1>3. Traversed(S, T, X)
  BY <1>2, TraverseKeeps
<1>4. WellFormed(T) /\ Marking(T, {}) /\ T.gcstate = "propagate"
  BY <1>3 DEF Traversed, Same, StateFields
<1>5. \A u \in tofinalize(T) : ~ isgray(T, u)
  BY <1>4, NoGrayUserdata DEF Marking, Tricolour
<1> QED
  BY <1>4, <1>5 DEF Phase, PhaseBut

\* The swept objects leave the lists.
SweptOn(S, T) == Swept(T) /\ (\A u \in tofinalize(T) : ~ isgray(T, u)) /\ T.gcstate = S.gcstate

\* The objects swept leave the lists of those to sweep.
LEMMA SweptLeave ==
  ASSUME NEW S, WellFormed(S), Phase(S), S.gcstate \in {"sweepstring", "sweep"}, NEW objs \in SUBSET Obj,
         NEW R, Sweeps(S, R, objs), NEW T, Same(R, T, {"strings", "sweep"}),
         T.strings \subseteq S.strings, T.sweep \subseteq S.sweep,
         S.sweep \ objs \subseteq T.sweep, (S.sweep \cup S.strings) \ objs \subseteq T.sweep \cup T.strings
  PROVE  WellFormed(T) /\ SweptOn(S, T)
<1>1. Sweeps(S, R, objs)
  OBVIOUS
<1>2. WellFormed(R) /\ R.gcstate = S.gcstate
  BY <1>1 DEF Sweeps, Same, StateFields
<1>3. /\ T.heap = R.heap /\ T.free = R.free /\ T.tmudata = R.tmudata /\ T.udata = R.udata /\ T.bad = R.bad
      /\ T.marked = R.marked /\ T.gcstate = R.gcstate
  BY DEF Same, StateFields
<1>4. WellFormed(T)
  <2>1. T.udata \in Seq(Of("userdata")) /\ Range(T.udata) \cap R.free = {} /\ T.bad \subseteq {"barrierf outside a cycle"}
        /\ T.gcstate \in {"pause", "propagate", "sweepstring", "sweep", "finalize"}
    BY <1>2, <1>3 DEF WellFormed, Types
  <2> QED
    BY <1>2, <2>1, BooksKeep DEF Same
<1>5. openupvals(T) = openupvals(R)
  BY <1>3, HeapDecides DEF openupvals
<1>6. Swept(T)
  <2>1. T.sweep \cup T.strings \subseteq Obj
    BY DEF Phase, PhaseBut, Swept
  <2>2. ASSUME NEW o \in Obj, o \notin T.free, o \notin tofinalize(T), T.marked[o] # "white" PROVE o \in pending(T)
    <3>1. o \notin R.free /\ o \notin tofinalize(R) /\ R.marked[o] # "white"
      BY <1>3, <2>2 DEF tofinalize
    <3>2. \/ o \in (S.sweep \cup S.strings) \ objs
          \/ o \in openupvals(R) /\ R.heap[o].at[1] \in S.sweep \ objs
      BY <1>1, <3>1 DEF Sweeps
    <3>3. o \in T.sweep \cup T.strings \/ (o \in openupvals(T) /\ T.heap[o].at[1] \in T.sweep)
      BY <1>3, <1>5, <3>2
    <3> QED
      BY <3>3 DEF pending
  <2> QED
    BY <2>1, <2>2 DEF Swept
<1>7. \A u \in tofinalize(T) : ~ isgray(T, u)
  BY <1>1, <1>3 DEF Sweeps, tofinalize, isgray
<1> QED
  BY <1>2, <1>3, <1>4, <1>6, <1>7 DEF SweptOn

\* A step of the sweep of the strings.
LEMMA SweepstringKeeps ==
  ASSUME NEW S, WellFormed(S), Phase(S), S.gcstate = "sweepstring", NEW s \in S.strings,
         NEW T, T = [sweeplist(S, {s}) EXCEPT !.strings = @ \ {s}]
  PROVE  WellFormed(T) /\ Phase(T)
<1>1. PICK objs : objs = {s}
  OBVIOUS
<1>2. objs \in SUBSET Obj
  BY <1>1 DEF Phase, PhaseBut, Swept
<1>3. PICK R : R = sweeplist(S, objs)
  OBVIOUS
<1>4. Sweeps(S, R, objs)
  BY <1>2, <1>3, SweeplistSweeps
<1>5. R.strings = S.strings /\ R.sweep = S.sweep /\ DOMAIN R = StateFields
  BY <1>4 DEF Sweeps, Same, StateFields, WellFormed, Types
<1>6. T = [R EXCEPT !.strings = R.strings \ {s}]
  BY <1>1, <1>3
<1>7. T.strings = S.strings \ objs /\ T.sweep = S.sweep
  BY <1>1, <1>5, <1>6 DEF StateFields
<1>8. Same(R, T, {"strings", "sweep"})
  BY <1>5, <1>6 DEF Same, StateFields
<1>9. WellFormed(T) /\ Swept(T) /\ (\A u \in tofinalize(T) : ~ isgray(T, u)) /\ T.gcstate = S.gcstate
  <2>1. /\ T.strings \subseteq S.strings /\ T.sweep \subseteq S.sweep /\ S.sweep \ objs \subseteq T.sweep
        /\ (S.sweep \cup S.strings) \ objs \subseteq T.sweep \cup T.strings
        /\ S.gcstate \in {"sweepstring", "sweep"}
    BY <1>7
  <2> QED
    <3>1. WellFormed(T) /\ SweptOn(S, T)
      BY <1>2, <1>4, <1>8, <2>1, SweptLeave
    <3> QED
      BY <3>1 DEF SweptOn
<1> QED
  BY <1>9 DEF Phase, PhaseBut

\* When nothing is left to sweep every object is white.
LEMMA SweptIsWhite ==
  ASSUME NEW S, Swept(S), S.sweep = {}, S.strings = {}
  PROVE  AllWhite(S)
BY DEF Swept, AllWhite, pending

\* A step of the sweep; after the last one all objects are white.
LEMMA SweepKeeps ==
  ASSUME NEW S, WellFormed(S), Phase(S), S.gcstate = "sweep", NEW objs \in SUBSET S.sweep,
         NEW A, A = [sweeplist(S, objs) EXCEPT !.sweep = @ \ objs],
         NEW T, T = IF objs = S.sweep THEN swept(A) ELSE A
  PROVE  WellFormed(T) /\ Phase(T)
<1>2. objs \in SUBSET Obj
  BY DEF Phase, PhaseBut, Swept
<1>3. PICK R : R = sweeplist(S, objs)
  OBVIOUS
<1>4. Sweeps(S, R, objs)
  BY <1>2, <1>3, SweeplistSweeps
<1>5. R.strings = S.strings /\ R.sweep = S.sweep /\ DOMAIN R = StateFields
  BY <1>4 DEF Sweeps, Same, StateFields, WellFormed, Types
<1>6. A = [R EXCEPT !.sweep = R.sweep \ objs]
  BY <1>3
<1>7. A.sweep = S.sweep \ objs /\ A.strings = S.strings /\ S.strings = {}
  BY <1>5, <1>6 DEF StateFields, Phase, PhaseBut
<1>8. Same(R, A, {"strings", "sweep"})
  BY <1>5, <1>6 DEF Same, StateFields
<1>9. WellFormed(A) /\ Swept(A) /\ (\A u \in tofinalize(A) : ~ isgray(A, u)) /\ A.gcstate = S.gcstate
  <2>1. /\ A.strings \subseteq S.strings /\ A.sweep \subseteq S.sweep /\ S.sweep \ objs \subseteq A.sweep
        /\ (S.sweep \cup S.strings) \ objs \subseteq A.sweep \cup A.strings
        /\ S.gcstate \in {"sweepstring", "sweep"}
    BY <1>7
  <2> QED
    <3>1. WellFormed(A) /\ SweptOn(S, A)
      BY <1>2, <1>4, <1>8, <2>1, SweptLeave
    <3> QED
      BY <3>1 DEF SweptOn
<1>10. CASE objs # S.sweep
  BY <1>7, <1>9, <1>10 DEF Phase, PhaseBut
<1>11. CASE objs = S.sweep
  <2>1. AllWhite(A)
    BY <1>7, <1>9, <1>11, SweptIsWhite
  <2>2. DOMAIN A = StateFields
    BY <1>9 DEF WellFormed, Types
  <2>3. CASE A.full = "sweep"
    <3>1. PICK B : B = markroot(A)
      OBVIOUS
    <3>2. WellFormed(B) /\ Phase(B)
      BY <1>9, <2>1, <3>1, MarkrootKeeps
    <3>3. T = [B EXCEPT !.full = "mark"]
      BY <1>11, <2>3, <3>1 DEF swept
    <3> QED
      BY <3>2, <3>3, FullKeeps
  <2>4. CASE A.full # "sweep"
    <3>1. T = [A EXCEPT !.gcstate = "finalize"]
      BY <1>11, <2>4 DEF swept
    <3>2. T.gcstate = "finalize" /\ T.marked = A.marked /\ T.free = A.free /\ T.tmudata = A.tmudata
          /\ T.udata = A.udata /\ T.bad = A.bad
      BY <2>2, <3>1 DEF StateFields
    <3>3. Same(A, T, {"gcstate"})
      BY <2>2, <3>1 DEF StateFields, Same
    <3>4. WellFormed(T)
      <4>1. T.udata \in Seq(Of("userdata")) /\ Range(T.udata) \cap A.free = {} /\ T.bad \subseteq {"barrierf outside a cycle"}
        BY <1>9, <3>2 DEF WellFormed, Types
      <4>2. T.gcstate \in {"pause", "propagate", "sweepstring", "sweep", "finalize"}
        BY <3>2
      <4> QED
        BY <1>9, <3>3, <4>1, <4>2, BooksKeep DEF Same
    <3>5. AllWhite(T) /\ \A u \in tofinalize(T) : ~ isgray(T, u)
      BY <1>9, <2>1, <3>2 DEF AllWhite, tofinalize, isgray
    <3> QED
      BY <3>2, <3>4, <3>5 DEF Phase, PhaseBut
  <2> QED
    BY <2>3, <2>4
<1> QED
  BY <1>10, <1>11

-----------------------------------------------------------------------------
(* Changes of the heap between two steps of the collector.                   *)

\* What a change of one object, which may have been free, must keep.
Changed(S, T, x) ==
  /\ Same(S, T, {"heap", "free"})
  /\ T.free = S.free \ {x}
  /\ DOMAIN T.heap = Obj /\ \A o \in Obj \ {x} : T.heap[o] = S.heap[o]
  /\ Shaped(T.heap[x], Kind[x])
  /\ \/ x \notin S.free /\ T.heap[x].at = S.heap[x].at
     \/ x \in S.free /\ T.heap[x].at = <<>>
     \/ x \in S.free /\ T.heap[x].at[1] = S.L /\ T.heap[x].at[2] \in 1..Len(S.heap[S.L].stack)
  /\ x \in live(S) \cup S.free => referred(T, x) \cap Obj \subseteq live(S) \cup {x}
  /\ \A u \in openupvals(S) : S.heap[u].at[1] = x =>
       /\ S.heap[u].at[2] \in 1..Len(T.heap[x].stack)
       /\ T.heap[x].stack[S.heap[u].at[2]] \in
            {S.heap[x].stack[S.heap[u].at[2]]} \cup live(S) \cup (Data \ Obj)
  /\ x \in Range(S.callers) =>
       /\ Len(T.heap[x].stack) = Len(S.heap[x].stack)
       /\ T.heap[x].stack[Len(S.heap[x].stack)] = S.heap[x].stack[Len(S.heap[x].stack)]
\* A change of one object leaves the graph as it must be.
LEMMA ChangedKeepsGraph ==
  ASSUME NEW S, WellFormed(S), NEW x \in Obj, NEW T, Changed(S, T, x)
  PROVE  WellFormed(T) /\ live(T) = live(S) \cup ({x} \cap S.free)
<1>1. /\ T.L = S.L /\ T.callers = S.callers /\ T.tmudata = S.tmudata /\ T.udata = S.udata
      /\ T.gcstate = S.gcstate /\ T.bad = S.bad /\ DOMAIN T = DOMAIN S /\ T.marked = S.marked
  BY Zenon DEF Changed, Same, StateFields
<1>2. /\ T.free = S.free \ {x} /\ DOMAIN T.heap = Obj /\ \A o \in Obj \ {x} : T.heap[o] = S.heap[o]
  BY Zenon DEF Changed
<1>3. \A o \in S.free : o \in Obj /\ S.marked[o] = "white"
  BY DEF WellFormed, Types
<1>4. Types(T)
  BY <1>1, <1>2 DEF WellFormed, Types
<1>5. live(T) = live(S) \cup ({x} \cap S.free)
  BY <1>1, <1>2, <1>3 DEF live, isdead
<1>6. Shapes(T)
  <2>1. ASSUME NEW o \in Obj PROVE Shaped(T.heap[o], Kind[o])
    BY Zenon, <1>2 DEF Changed, WellFormed, Shapes
  <2> QED
    BY <2>1 DEF Shapes
<1>7. path(T) = path(S)
  BY <1>1 DEF path
<1>8. S.L \in live(S) /\ S.L \in Of("thread") /\ S.L \notin S.free
  BY DEF WellFormed, GraphIsLive, roots, live, Types
<1>9. \A o \in Obj \ {x} : isopen(T, o) = isopen(S, o)
  BY <1>2 DEF isopen
<1>10. x \notin S.free => isopen(T, x) = isopen(S, x)
  BY Zenon DEF isopen, Changed
<1>11. ASSUME NEW u \in openupvals(T)
       PROVE  /\ u \in Obj /\ Kind[u] = "upval" /\ u \notin T.free /\ T.heap[u].at[1] \in Of("thread")
              /\ \/ u \in openupvals(S) /\ u \notin S.free /\ T.heap[u].at = S.heap[u].at
                 \/ u = x /\ x \in S.free /\ T.heap[x].at[1] = S.L /\ T.heap[x].at[2] \in 1..Len(S.heap[S.L].stack)
  <2>1. u \in Obj /\ Kind[u] = "upval" /\ u \notin T.free /\ isopen(T, u)
    BY DEF openupvals, Of
  <2>2. T.heap[u].at[1] \in Of("thread")
    BY <1>6, <2>1 DEF Shapes, Shaped, isopen
  <2>3. CASE u # x
    <3>1. u \notin S.free /\ T.heap[u] = S.heap[u] /\ isopen(S, u)
      BY <1>2, <1>9, <2>1, <2>3
    <3> QED
      BY <2>1, <2>2, <3>1 DEF openupvals, Of
  <2>4. CASE u = x /\ x \notin S.free
    <3>1. isopen(S, u) /\ T.heap[u].at = S.heap[u].at
      BY Zenon, <1>10, <2>1, <2>4 DEF Changed
    <3> QED
      BY <2>1, <2>2, <2>4, <3>1 DEF openupvals, Of
  <2>5. CASE u = x /\ x \in S.free
    BY Zenon, <2>1, <2>2, <2>5 DEF Changed, isopen
  <2> QED
    BY <2>3, <2>4, <2>5
<1>12. OpenUpvals(T)
  <2>1. ASSUME NEW u \in openupvals(T)
        PROVE  T.heap[u].at[1] \notin T.free /\ T.heap[u].at[2] \in 1..Len(T.heap[T.heap[u].at[1]].stack)
    <3>1. CASE u \in openupvals(S) /\ T.heap[u].at = S.heap[u].at
      <4>1. S.heap[u].at[1] \notin S.free /\ S.heap[u].at[2] \in 1..Len(S.heap[S.heap[u].at[1]].stack)
        BY <3>1 DEF WellFormed, OpenUpvals
      <4>2. S.heap[u].at[1] \in Obj
        BY <1>11, <3>1 DEF Of
      <4>3. CASE S.heap[u].at[1] = x
        BY Zenon, <1>2, <3>1, <4>1, <4>3 DEF Changed
      <4>4. CASE S.heap[u].at[1] # x
        BY <1>2, <3>1, <4>1, <4>2, <4>4
      <4> QED
        BY <4>3, <4>4
    <3>2. CASE u = x /\ x \in S.free /\ T.heap[x].at[1] = S.L /\ T.heap[x].at[2] \in 1..Len(S.heap[S.L].stack)
      <4>1. S.L # x /\ S.L \in Obj
        BY <1>8, <3>2 DEF Of
      <4> QED
        BY <1>2, <1>8, <3>2, <4>1
    <3> QED
      BY <1>11, <3>1, <3>2
  <2> QED
    BY <2>1 DEF OpenUpvals
<1>13. NeverBlack(T)
  <2>1. ASSUME NEW o \in Obj, isblack(T, o) PROVE Kind[o] # "thread" /\ (Kind[o] = "upval" => ~ isopen(T, o))
    <3>1. isblack(S, o) /\ o \notin S.free
      BY <1>1, <1>3, <2>1 DEF isblack
    <3> QED
      BY <1>9, <1>10, <3>1 DEF WellFormed, NeverBlack
  <2> QED
    BY <2>1 DEF NeverBlack
<1>14. Chain(T)
  <2>1. Chain(S)
    BY DEF WellFormed
  <2>2. ASSUME NEW i \in DOMAIN S.callers PROVE Waits(T, i)
    <3>0. S.callers \in Seq(Of("thread"))
      BY DEF WellFormed, Types
    <3>1. PICK c : c = S.callers[i]
      OBVIOUS
    <3>2. c \in Of("thread") /\ c \in Range(S.callers) /\ c \in Obj
      BY <3>0, <3>1 DEF Of, Range
    <3>3. c # S.L
      <4>1. Len(S.callers) \in Nat /\ DOMAIN S.callers = 1..Len(S.callers)
        BY <3>0
      <4>2. path(S)[i] = c /\ path(S)[Len(S.callers) + 1] = S.L /\ DOMAIN path(S) = 1..(Len(S.callers) + 1)
        BY <1>8, <3>0, <3>1, <4>1, AppendProperties DEF path
      <4>3. i # Len(S.callers) + 1 /\ i \in DOMAIN path(S) /\ Len(S.callers) + 1 \in DOMAIN path(S)
        BY <4>1, <4>2
      <4> QED
        BY <2>1, <4>2, <4>3 DEF Chain
    <3>4. Waits(S, i)
      BY <2>1 DEF Chain
    <3>5. PICK st : st = S.heap[c].stack
      OBVIOUS
    <3>6. st # <<>> /\ st[Len(st)] = path(S)[i + 1] /\ captures(S, c, Len(st)) = {}
      BY <3>1, <3>4, <3>5 DEF Waits
    <3>7. Len(T.heap[c].stack) = Len(st) /\ T.heap[c].stack[Len(st)] = st[Len(st)]
      BY Zenon, <1>2, <3>2, <3>5 DEF Changed
    <3>8. captures(T, c, Len(st)) = {}
      <4>1. ASSUME NEW u \in captures(T, c, Len(st)) PROVE FALSE
        <5>1. u \in openupvals(T) /\ T.heap[u].at = <<c, Len(st)>>
          BY <4>1 DEF captures
        <5>2. T.heap[u].at[1] = c
          BY <5>1
        <5>3. u \in openupvals(S) /\ S.heap[u].at = <<c, Len(st)>>
          BY <1>11, <3>3, <5>1, <5>2
        <5> QED
          BY <3>6, <5>3 DEF captures
      <4> QED
        BY <4>1
    <3>9. T.heap[c].stack # <<>>
      <4>1. st \in Seq(Data) /\ T.heap[c].stack \in Seq(Data)
        BY <1>6, <3>2, <3>5 DEF WellFormed, Shapes, Shaped
      <4> QED
        BY <3>6, <3>7, <4>1
    <3> QED
      BY <1>1, <1>7, <3>1, <3>6, <3>7, <3>8, <3>9 DEF Waits
  <2> QED
    BY <1>1, <1>7, <2>1, <2>2 DEF Chain
<1>15. GraphIsLive(T)
  <2>1. roots(T) \subseteq live(T)
    BY <1>1, <1>5 DEF roots, WellFormed, GraphIsLive
  <2>2. ASSUME NEW o \in live(T) PROVE referred(T, o) \cap Obj \subseteq live(T)
    <3>1. CASE o = x
      BY Zenon, <1>5, <2>2, <3>1 DEF Changed
    <3>2. CASE o # x
      <4>1. o \in live(S) /\ o \in Obj /\ o \notin S.free
        BY <1>5, <2>2, <3>2 DEF live
      <4>2. referred(S, o) \cap Obj \subseteq live(S)
        BY <4>1 DEF WellFormed, GraphIsLive
      <4>3. T.heap[o] = S.heap[o] /\ keys(T, o) = keys(S, o) /\ isopen(T, o) = isopen(S, o)
        BY <1>2, <3>2, <4>1 DEF keys, isopen
      <4>4. referred(T, o) \subseteq referred(S, o) \cup (IF isopen(T, o) THEN {uvalue(T, o)} ELSE {})
        BY <4>3 DEF referred
      <4>5. ASSUME isopen(T, o) PROVE uvalue(T, o) \in referred(S, o) \cup live(S) \cup (Data \ Obj)
        <5>1. Shaped(S.heap[o], Kind[o]) /\ isopen(S, o)
          BY <4>1, <4>3, <4>5 DEF WellFormed, Shapes
        <5>2. o \in openupvals(S) /\ S.heap[o].at[1] \in Obj
          BY <4>1, <5>1 DEF Shaped, openupvals, isopen, Of
        <5>3. uvalue(T, o) = T.heap[S.heap[o].at[1]].stack[S.heap[o].at[2]]
          BY <4>3, <4>5 DEF uvalue
        <5>4. uvalue(S, o) = S.heap[S.heap[o].at[1]].stack[S.heap[o].at[2]] /\ uvalue(S, o) \in referred(S, o)
          BY <5>1 DEF uvalue, referred
        <5>5. CASE S.heap[o].at[1] = x
          BY Zenon, <5>2, <5>3, <5>4, <5>5 DEF Changed
        <5>6. CASE S.heap[o].at[1] # x
          BY <1>2, <5>2, <5>3, <5>4, <5>6
        <5> QED
          BY <5>5, <5>6
      <4> QED
        BY <1>5, <4>2, <4>4, <4>5
    <3> QED
      BY <3>1, <3>2
  <2> QED
    BY <2>1, <2>2 DEF GraphIsLive
<1> QED
  BY <1>4, <1>5, <1>6, <1>12, <1>13, <1>14, <1>15 DEF WellFormed

\* It leaves the phase as it must be but for the changed object, if that is black.
LEMMA ChangedKeeps ==
  ASSUME NEW S, WellFormed(S), Phase(S), NEW x \in Obj, NEW T, Changed(S, T, x)
  PROVE  /\ WellFormed(T) /\ live(T) = live(S) \cup ({x} \cap S.free) /\ PhaseBut(T, {x})
         /\ ~ isblack(S, x) => Phase(T)
<1>1. WellFormed(T) /\ live(T) = live(S) \cup ({x} \cap S.free)
  BY ChangedKeepsGraph
<1>2. /\ T.free = S.free \ {x} /\ DOMAIN T.heap = Obj /\ \A o \in Obj \ {x} : T.heap[o] = S.heap[o]
  BY Zenon DEF Changed
<1>3. Same(S, T, {"heap", "free", "full", "arena", "finalized", "owed", "called", "udata", "bad",
                  "L", "callers"})
  BY Zenon DEF Changed, Same
<1>4. \A o \in Obj \ {x} : fields(T, o) = fields(S, o)
  BY <1>2 DEF fields
<1>5. \A o \in Obj : S.marked[o] # "white" => T.heap[o].at = S.heap[o].at /\ (o \in T.free => o \in S.free)
  <2>1. \A o \in S.free : S.marked[o] = "white"
    BY DEF WellFormed, Types
  <2> QED
    BY Zenon, <1>2, <2>1 DEF Changed
<1>6. Types(S) /\ PhaseBut(S, {})
  BY DEF WellFormed, Phase
<1>7. PhaseBut(T, {x})
  <2>1. PICK X : X = {x}
    OBVIOUS
  <2>2. {} \subseteq X /\ \A o \in Obj \ X : isblack(S, o) => fields(T, o) \subseteq fields(S, o)
    BY <1>4, <2>1
  <2>3. PhaseBut(T, X)
    BY <1>3, <1>5, <1>6, <2>2, PhaseKeeps
  <2> QED
    BY <2>1, <2>3
<1>8. ASSUME ~ isblack(S, x) PROVE Phase(T)
  <2>1. \A o \in Obj \ {} : isblack(S, o) => fields(T, o) \subseteq fields(S, o)
    BY <1>4, <1>8
  <2>2. PhaseBut(T, {})
    BY <1>3, <1>5, <1>6, <2>1, PhaseKeeps
  <2> QED
    BY <2>2 DEF Phase
<1> QED
  BY <1>1, <1>7, <1>8

\* What the new stack of a thread must keep.
Restacks(S, th, st) ==
  /\ th \in live(S) => Range(st) \cap Obj \subseteq live(S)
  /\ \A u \in openupvals(S) : S.heap[u].at[1] = th =>
       /\ S.heap[u].at[2] \in 1..Len(st)
       /\ st[S.heap[u].at[2]] \in {S.heap[th].stack[S.heap[u].at[2]]} \cup live(S) \cup (Data \ Obj)
  /\ th \in Range(S.callers) =>
       Len(st) = Len(S.heap[th].stack) /\ st[Len(S.heap[th].stack)] = S.heap[th].stack[Len(S.heap[th].stack)]
\* A thread gets another stack.
LEMMA RestackKeeps ==
  ASSUME NEW S, WellFormed(S), Phase(S), NEW th \in Of("thread"), th \notin S.free, NEW st \in Seq(Data),
         Restacks(S, th, st), NEW T, T = [S EXCEPT !.heap[th].stack = st]
  PROVE  WellFormed(T) /\ Phase(T) /\ live(T) = live(S)
<1>0. th \in Obj /\ Kind[th] = "thread" /\ DOMAIN S = StateFields /\ DOMAIN S.heap = Obj
  BY DEF Of, WellFormed, Types
<1>1. PICK y : y = [S.heap[th] EXCEPT !.stack = st]
  OBVIOUS
<1>2. PICK h : h = [S.heap EXCEPT ![th] = y]
  OBVIOUS
<1>3. T = [S EXCEPT !.heap = h]
  BY <1>1, <1>2
<1>4. T.heap = h
  BY <1>0, <1>3 DEF StateFields
<1>5. Same(S, T, {"heap", "free"}) /\ T.free = S.free
  BY <1>0, <1>3 DEF StateFields, Same
<1>6. Shaped(S.heap[th], "thread")
  BY <1>0 DEF WellFormed, Shapes
<1>7. T.heap[th] = y /\ DOMAIN T.heap = Obj /\ \A o \in Obj \ {th} : T.heap[o] = S.heap[o]
  BY <1>0, <1>2, <1>4
<1>8. DOMAIN y = ObjectFields /\ y.stack = st /\ \A f \in ObjectFields \ {"stack"} : y[f] = S.heap[th][f]
  BY <1>1, <1>6 DEF Shaped, ObjectFields
<1>9. y.mt = S.heap[th].mt /\ y.env = S.heap[th].env /\ y.refs = S.heap[th].refs /\ y.node = S.heap[th].node
      /\ y.v = S.heap[th].v /\ y.at = S.heap[th].at
  BY <1>8 DEF ObjectFields
<1>10. Shaped(T.heap[th], Kind[th])
  BY <1>0, <1>6, <1>7, <1>8, <1>9 DEF Shaped
<1>11. S.heap[th].at = <<>>
  BY <1>6 DEF Shaped
<1>12. referred(T, th) \subseteq referred(S, th) \cup Range(st)
  <2>1. keys(T, th) = keys(S, th) /\ ~ isopen(T, th)
    BY <1>7, <1>9, <1>11 DEF keys, isopen
  <2> QED
    BY <1>7, <1>8, <1>9, <2>1 DEF referred
<1>13. th \in live(S) => referred(T, th) \cap Obj \subseteq live(S)
  BY <1>12 DEF WellFormed, GraphIsLive, Restacks
<1>14. Changed(S, T, th)
  BY Zenon, <1>0, <1>5, <1>7, <1>8, <1>9, <1>10, <1>13 DEF Changed, Restacks
<1>15. ~ isblack(S, th)
  BY <1>0 DEF WellFormed, NeverBlack
<1>16. WellFormed(T) /\ live(T) = live(S) \cup ({th} \cap S.free) /\ Phase(T)
  BY <1>0, <1>14, <1>15, ChangedKeeps
<1> QED
  BY <1>16

\* A thread that runs does not wait.
LEMMA RunningIsNoCaller ==
  ASSUME NEW S, WellFormed(S)
  PROVE  S.L \in Of("thread") /\ S.L \in live(S) /\ S.L \notin S.free /\ S.L \notin Range(S.callers)
         /\ stack(S) \in Seq(Data) /\ Range(stack(S)) \cap Obj \subseteq live(S)
<1>1. S.L \in Of("thread") /\ S.L \in live(S) /\ S.L \notin S.free /\ S.callers \in Seq(Of("thread")) /\ S.L \in Obj
  BY DEF WellFormed, GraphIsLive, roots, live, Types, Of
<1>2. stack(S) \in Seq(Data)
  BY <1>1 DEF stack, WellFormed, Shapes, Shaped
<1>3. Range(stack(S)) \subseteq referred(S, S.L)
  BY DEF stack, referred
<1>4. S.L \notin Range(S.callers)
  <2>1. ASSUME NEW i \in DOMAIN S.callers, S.callers[i] = S.L PROVE FALSE
    <3>1. Len(S.callers) \in Nat /\ DOMAIN S.callers = 1..Len(S.callers)
      BY <1>1
    <3>2. path(S)[i] = S.L /\ path(S)[Len(S.callers) + 1] = S.L /\ DOMAIN path(S) = 1..(Len(S.callers) + 1)
      BY <1>1, <2>1, <3>1, AppendProperties DEF path
    <3>3. i # Len(S.callers) + 1 /\ i \in DOMAIN path(S) /\ Len(S.callers) + 1 \in DOMAIN path(S)
      BY <3>1, <3>2
    <3> QED
      BY <3>2, <3>3 DEF WellFormed, Chain
  <2> QED
    BY <2>1 DEF Range
<1> QED
  BY <1>1, <1>2, <1>3, <1>4 DEF WellFormed, GraphIsLive

\* The slots of an open upvalue are there.
LEMMA OpenSlots ==
  ASSUME NEW S, WellFormed(S), NEW th \in Obj, NEW u \in openupvals(S), S.heap[u].at[1] = th
  PROVE  S.heap[u].at[2] \in 1..Len(S.heap[th].stack)
BY DEF WellFormed, OpenUpvals

\* A value is pushed on the stack of the running thread.
LEMMA PushKeeps ==
  ASSUME NEW S, WellFormed(S), Phase(S), NEW v \in Data, v \in Obj => v \in live(S), NEW T, T = push(S, v)
  PROVE  WellFormed(T) /\ Phase(T)
<1>1. PICK s : s = stack(S)
  OBVIOUS
<1>2. PICK st : st = Append(s, v)
  OBVIOUS
<1>3. T = [S EXCEPT !.heap[S.L].stack = st]
  BY <1>1, <1>2 DEF push, stack
<1>4. S.L \in Of("thread") /\ S.L \notin S.free /\ S.L \notin Range(S.callers) /\ S.L \in Obj
      /\ s \in Seq(Data) /\ Range(s) \cap Obj \subseteq live(S)
  BY <1>1, RunningIsNoCaller DEF Of
<1>5. st \in Seq(Data) /\ Range(st) = Range(s) \cup {v}
  BY <1>2, <1>4, RangeOfAppend
<1>6. Len(st) = Len(s) + 1 /\ Len(s) \in Nat /\ \A i \in 1..Len(s) : st[i] = s[i]
  BY <1>2, <1>4, AppendProperties
<1>7. Restacks(S, S.L, st)
  <2>1. ASSUME NEW u \in openupvals(S), S.heap[u].at[1] = S.L
        PROVE  S.heap[u].at[2] \in 1..Len(st) /\ st[S.heap[u].at[2]] = S.heap[S.L].stack[S.heap[u].at[2]]
    <3>1. S.heap[u].at[2] \in 1..Len(s)
      BY <1>1, <1>4, <2>1, OpenSlots DEF stack
    <3>2. PICK n : n = S.heap[u].at[2]
      OBVIOUS
    <3>3. n \in 1..Len(st) /\ st[n] = s[n]
      BY <1>6, <3>1, <3>2
    <3> QED
      BY <1>1, <3>2, <3>3 DEF stack
  <2> QED
    BY <1>4, <1>5, <2>1 DEF Restacks
<1> QED
  BY <1>3, <1>4, <1>5, <1>7, RestackKeeps

\* A slot of a thread that does not wait, or below the last one, gets a value.
LEMMA AssignKeeps ==
  ASSUME NEW S, WellFormed(S), Phase(S), NEW th \in Of("thread"), th \notin S.free,
         NEW n \in 1..Len(S.heap[th].stack), NEW v \in Data, v \in Obj => v \in live(S),
         th \in Range(S.callers) => n # Len(S.heap[th].stack),
         NEW T, T = [S EXCEPT !.heap[th].stack[n] = v]
  PROVE  WellFormed(T) /\ Phase(T)
<1>1. PICK s : s = S.heap[th].stack
  OBVIOUS
<1>2. PICK st : st = [s EXCEPT ![n] = v]
  OBVIOUS
<1>3. T = [S EXCEPT !.heap[th].stack = st]
  BY <1>1, <1>2
<1>4. th \in Obj
  BY DEF Of
<1>5. s \in Seq(Data)
  BY <1>1, <1>4 DEF WellFormed, Shapes, Shaped
<1>6. st \in Seq(Data) /\ Len(st) = Len(s) /\ DOMAIN st = 1..Len(s) /\ DOMAIN s = 1..Len(s) /\ Len(s) \in Nat
      /\ \A i \in 1..Len(s) : st[i] = IF i = n THEN v ELSE s[i]
  BY <1>1, <1>2, <1>5
<1>7. Range(st) \subseteq Range(s) \cup {v}
  BY <1>6 DEF Range
<1>8. Range(s) \subseteq referred(S, th)
  BY <1>1 DEF referred
<1>9. Restacks(S, th, st)
  <2>1. ASSUME NEW u \in openupvals(S), S.heap[u].at[1] = th
        PROVE  S.heap[u].at[2] \in 1..Len(st)
               /\ st[S.heap[u].at[2]] \in {S.heap[th].stack[S.heap[u].at[2]]} \cup live(S) \cup (Data \ Obj)
    <3>1. S.heap[u].at[2] \in 1..Len(s)
      BY <1>1, <1>4, <2>1, OpenSlots
    <3> QED
      BY <1>1, <1>6, <3>1
  <2>2. th \in live(S) => Range(st) \cap Obj \subseteq live(S)
    BY <1>7, <1>8 DEF WellFormed, GraphIsLive
  <2>3. th \in Range(S.callers) =>
          Len(st) = Len(S.heap[th].stack) /\ st[Len(S.heap[th].stack)] = S.heap[th].stack[Len(S.heap[th].stack)]
    <3>1. Len(s) \in 1..Len(s)
      BY <1>1, <1>6
    <3> QED
      BY <1>1, <1>6, <3>1
  <2> QED
    BY <2>1, <2>2, <2>3 DEF Restacks
<1> QED
  BY <1>3, <1>6, <1>9, RestackKeeps

\* An object as it is made.
Fresh(S, x, kind) ==
  /\ DOMAIN x = ObjectFields /\ x.mt = None /\ x.v = None /\ x.stack = <<>> /\ DOMAIN x.node = {}
  /\ x.env = None \/ (x.env = Registry /\ kind \in {"userdata", "function", "thread"})
  /\ x.refs \subseteq live(S) /\ (x.refs = {} \/ kind = "function")
  /\ x.at = <<>> \/ (kind = "upval" /\ \E n \in 1..Len(stack(S)) : x.at = <<S.L, n>>)
\* A new object is linked.
LEMMA LinkKeeps ==
  ASSUME NEW S, WellFormed(S), Phase(S), NEW o \in S.free, NEW x, Fresh(S, x, Kind[o]),
         NEW T, T = luaC_link(S, o, x)
  PROVE  /\ WellFormed(T) /\ Phase(T) /\ live(T) = live(S) \cup {o} /\ Same(S, T, {"heap", "free"})
         /\ stack(T) = stack(S) /\ T.free = S.free \ {o} /\ \A p \in Obj \ {o} : T.heap[p] = S.heap[p]
<1>0. o \in Obj /\ S.marked[o] = "white" /\ DOMAIN S = StateFields /\ DOMAIN S.heap = Obj
      /\ S.marked \in [Obj -> Colours] /\ S.free \subseteq Obj
  BY DEF WellFormed, Types
<1>1. PICK h : h = [S.heap EXCEPT ![o] = x]
  OBVIOUS
<1>2. PICK m : m = [S.marked EXCEPT ![o] = "white"]
  OBVIOUS
<1>3. T = [S EXCEPT !.free = S.free \ {o}, !.heap = h, !.marked = m]
  BY <1>1, <1>2 DEF luaC_link
<1>4. m = S.marked
  BY <1>0, <1>2
<1>5. T.heap = h /\ T.marked = m /\ T.free = S.free \ {o}
  BY <1>0, <1>3 DEF StateFields
<1>6. Same(S, T, {"heap", "free", "marked"})
  BY <1>0, <1>3 DEF StateFields, Same
<1>7. Same(S, T, {"heap", "free"})
  BY <1>4, <1>5, <1>6 DEF StateFields, Same
<1>8. T.heap[o] = x /\ DOMAIN T.heap = Obj /\ \A p \in Obj \ {o} : T.heap[p] = S.heap[p]
  BY <1>0, <1>1, <1>5
<1>9. /\ DOMAIN x = ObjectFields /\ x.mt = None /\ x.v = None /\ x.stack = <<>> /\ DOMAIN x.node = {}
      /\ x.env = None \/ (x.env = Registry /\ Kind[o] \in {"userdata", "function", "thread"})
      /\ x.refs \subseteq live(S) /\ (x.refs = {} \/ Kind[o] = "function")
      /\ x.at = <<>> \/ (Kind[o] = "upval" /\ \E n \in 1..Len(stack(S)) : x.at = <<S.L, n>>)
  BY DEF Fresh
<1>10. live(S) \subseteq Obj \ S.free
  BY DEF live
<1>11. S.L \in Of("thread") /\ S.L \in live(S) /\ stack(S) \in Seq(Data) /\ Range(stack(S)) \cap Obj \subseteq live(S)
  BY RunningIsNoCaller
<1>12. Shaped(T.heap[o], Kind[o])
  <2>1. None \in Data /\ Registry \in Of("table") /\ Registry \in Obj
    BY TypesAssumption DEF Data, Value, Of
  <2>2. x.at = <<>> \/ (Kind[o] = "upval" /\ x.at \in Of("thread") \X Nat /\ x.v = None)
    <3>1. ASSUME NEW n \in 1..Len(stack(S)), x.at = <<S.L, n>> PROVE x.at \in Of("thread") \X Nat
      <4>1. n \in Nat
        OBVIOUS
      <4> QED
        BY <1>11, <3>1, <4>1
    <3> QED
      BY <1>9, <3>1
  <2>3. {x.mt, x.env} \subseteq Of("table") \cup {None}
    BY <1>9, <2>1
  <2>4. x.stack \in Seq(Data)
    BY <1>9
  <2> QED
    BY <1>8, <1>9, <1>10, <2>1, <2>2, <2>3, <2>4 DEF Shaped
<1>13. \/ T.heap[o].at = <<>>
       \/ T.heap[o].at[1] = S.L /\ T.heap[o].at[2] \in 1..Len(S.heap[S.L].stack)
  BY <1>8, <1>9 DEF stack
<1>14. referred(T, o) \cap Obj \subseteq live(S) \cup {o}
  <2>1. Registry \in live(S)
    BY DEF WellFormed, GraphIsLive, roots
  <2>2. keys(T, o) = {}
    BY <1>8, <1>9 DEF keys
  <2>3. Range(x.stack) = {}
    BY <1>9 DEF Range
  <2>4. ASSUME isopen(T, o) PROVE uvalue(T, o) \in Range(stack(S))
    <3>1. PICK n \in 1..Len(stack(S)) : x.at = <<S.L, n>>
      BY <1>8, <1>9, <2>4 DEF isopen
    <3>2. S.L # o /\ S.L \in Obj
      BY <1>10, <1>11
    <3>3. uvalue(T, o) = stack(S)[n]
      BY <1>8, <2>4, <3>1, <3>2 DEF uvalue, stack
    <3>4. n \in DOMAIN stack(S)
      BY <1>11
    <3> QED
      BY <3>3, <3>4 DEF Range
  <2>5. referred(T, o) \subseteq {None, x.env} \cup x.refs \cup (IF isopen(T, o) THEN {uvalue(T, o)} ELSE {})
    BY <1>8, <1>9, <2>2, <2>3 DEF referred
  <2>6. None \notin Obj
    BY TypesAssumption
  <2> QED
    BY <1>9, <1>11, <2>1, <2>4, <2>5, <2>6
<1>15. \A u \in openupvals(S) : S.heap[u].at[1] # o
  BY DEF WellFormed, OpenUpvals
<1>16. o \notin Range(S.callers)
  BY <1>10 DEF WellFormed, GraphIsLive, roots
<1>17. Changed(S, T, o)
  BY Zenon, <1>5, <1>7, <1>8, <1>12, <1>13, <1>14, <1>15, <1>16 DEF Changed
<1>18. ~ isblack(S, o)
  BY <1>0 DEF isblack
<1>19. WellFormed(T) /\ live(T) = live(S) \cup ({o} \cap S.free) /\ Phase(T)
  BY <1>0, <1>17, <1>18, ChangedKeeps
<1>20. stack(T) = stack(S)
  <2>1. T.L = S.L
    BY <1>7 DEF Same, StateFields
  <2>2. S.L # o /\ S.L \in Obj
    BY <1>10, <1>11
  <2> QED
    BY <1>8, <2>1, <2>2 DEF stack
<1> QED
  BY <1>5, <1>7, <1>8, <1>19, <1>20

\* The blank object is as objects are made, with or without an environment.
LEMMA BlankIsFresh ==
  ASSUME NEW S, NEW kind
  PROVE  /\ Fresh(S, Blank, kind)
         /\ \A meta : Fresh(S, [Blank EXCEPT !.meta = meta], kind)
         /\ kind \in {"userdata", "thread"} => Fresh(S, [Blank EXCEPT !.env = Registry], kind)
<1>1. DOMAIN Blank = ObjectFields
  BY DEF Blank, ObjectFields
<1>2. /\ Blank.mt = None /\ Blank.env = None /\ Blank.v = None /\ Blank.refs = {} /\ Blank.stack = <<>>
      /\ DOMAIN Blank.node = {} /\ Blank.at = <<>>
  BY DEF Blank
<1>3. Fresh(S, Blank, kind)
  BY <1>1, <1>2 DEF Fresh
<1>4. ASSUME NEW meta PROVE Fresh(S, [Blank EXCEPT !.meta = meta], kind)
  <2>1. PICK x : x = [Blank EXCEPT !.meta = meta]
    OBVIOUS
  <2>2. DOMAIN x = ObjectFields /\ \A f \in ObjectFields \ {"meta"} : x[f] = Blank[f]
    BY <1>1, <2>1
  <2>3. /\ x.mt = None /\ x.env = None /\ x.v = None /\ x.refs = {} /\ x.stack = <<>>
        /\ DOMAIN x.node = {} /\ x.at = <<>>
    BY <1>2, <2>2 DEF ObjectFields
  <2> QED
    BY <2>1, <2>2, <2>3 DEF Fresh
<1>5. ASSUME kind \in {"userdata", "thread"} PROVE Fresh(S, [Blank EXCEPT !.env = Registry], kind)
  <2>1. PICK x : x = [Blank EXCEPT !.env = Registry]
    OBVIOUS
  <2>2. DOMAIN x = ObjectFields /\ x.env = Registry /\ \A f \in ObjectFields \ {"env"} : x[f] = Blank[f]
    BY <1>1, <2>1 DEF ObjectFields
  <2>3. /\ x.mt = None /\ x.v = None /\ x.refs = {} /\ x.stack = <<>>
        /\ DOMAIN x.node = {} /\ x.at = <<>>
    BY <1>2, <2>2 DEF ObjectFields
  <2> QED
    BY <1>5, <2>1, <2>2, <2>3 DEF Fresh
<1> QED
  BY <1>3, <1>4, <1>5

-----------------------------------------------------------------------------
(* The operations of the program.                                            *)

\* A new object is linked and pushed.
LEMMA NewKeeps ==
  ASSUME NEW S, WellFormed(S), Phase(S), NEW o \in S.free, Kind[o] # "upval", NEW x, Fresh(S, x, Kind[o]),
         NEW T, T = push(luaC_link(S, o, x), o)
  PROVE  WellFormed(T) /\ Phase(T)
<1>1. PICK A : A = luaC_link(S, o, x)
  OBVIOUS
<1>2. WellFormed(A) /\ Phase(A) /\ live(A) = live(S) \cup {o}
  BY <1>1, LinkKeeps
<1>3. o \in Data
  BY DEF WellFormed, Types, Data, Value, Of
<1> QED
  BY <1>1, <1>2, <1>3, PushKeeps

\* A new table.
LEMMA NewTableKeeps ==
  ASSUME WellFormed(g), Phase(g), NewTable
  PROVE  WellFormed(g') /\ Phase(g')
<1>1. PICK o \in malloc("table"), meta \in g.arena.metas :
        g' = push(luaC_link(g, o, [Blank EXCEPT !.meta = meta]), o)
  BY DEF NewTable
<1>2. o \in g.free /\ Kind[o] # "upval"
  BY DEF malloc, Of
<1>3. PICK x : x = [Blank EXCEPT !.meta = meta]
  OBVIOUS
<1>4. Fresh(g, x, Kind[o])
  BY <1>3, BlankIsFresh
<1> QED
  BY <1>1, <1>2, <1>3, <1>4, NewKeeps

\* A new prototype.
LEMMA NewProtoKeeps ==
  ASSUME WellFormed(g), Phase(g), NewProto
  PROVE  WellFormed(g') /\ Phase(g')
<1>1. PICK o \in malloc("proto") : g' = push(luaC_link(g, o, Blank), o)
  BY DEF NewProto
<1>2. o \in g.free /\ Kind[o] # "upval"
  BY DEF malloc, Of
<1>3. Fresh(g, Blank, Kind[o])
  BY BlankIsFresh
<1> QED
  BY <1>1, <1>2, <1>3, NewKeeps

\* A new coroutine.
LEMMA NewThreadKeeps ==
  ASSUME WellFormed(g), Phase(g), NewThread
  PROVE  WellFormed(g') /\ Phase(g')
<1>1. PICK o \in malloc("thread") : g' = push(luaC_link(g, o, [Blank EXCEPT !.env = Registry]), o)
  BY DEF NewThread
<1>2. o \in g.free /\ Kind[o] = "thread"
  BY DEF malloc, Of
<1>3. PICK x : x = [Blank EXCEPT !.env = Registry]
  OBVIOUS
<1>4. Fresh(g, x, Kind[o])
  BY <1>2, <1>3, BlankIsFresh
<1> QED
  BY <1>1, <1>2, <1>3, <1>4, NewKeeps

\* A userdata is put before the others.
LEMMA RangeOfPrepend ==
  ASSUME NEW D, NEW s \in Seq(D), NEW o \in D
  PROVE  <<o>> \o s \in Seq(D) /\ Range(<<o>> \o s) = {o} \cup Range(s)
<1>1. PICK q : q = <<o>>
  OBVIOUS
<1>2. q \in Seq(D) /\ Range(q) = {o}
  BY <1>1 DEF Range
<1>3. q \o s \in Seq(D) /\ Range(q \o s) = Range(q) \cup Range(s)
  BY <1>2, RangeOfConcat
<1> QED
  BY <1>1, <1>2, <1>3

\* A new userdata.
LEMMA NewUserdataKeeps ==
  ASSUME WellFormed(g), Phase(g), NewUserdata
  PROVE  WellFormed(g') /\ Phase(g')
<1>1. PICK o \in malloc("userdata") :
        g' = push([luaC_link(g, o, [Blank EXCEPT !.env = Registry]) EXCEPT !.udata = <<o>> \o @], o)
  BY DEF NewUserdata
<1>2. o \in g.free /\ o \in Of("userdata") /\ Kind[o] = "userdata" /\ o \in Obj
  BY DEF malloc, Of
<1>3. PICK x : x = [Blank EXCEPT !.env = Registry]
  OBVIOUS
<1>4. Fresh(g, x, Kind[o])
  BY <1>2, <1>3, BlankIsFresh
<1>5. PICK A : A = luaC_link(g, o, x)
  OBVIOUS
<1>6. /\ WellFormed(A) /\ Phase(A) /\ live(A) = live(g) \cup {o} /\ Same(g, A, {"heap", "free"})
      /\ A.free = g.free \ {o}
  BY <1>2, <1>4, <1>5, LinkKeeps
<1>7. PICK u : u = <<o>> \o A.udata
  OBVIOUS
<1>8. PICK B : B = [A EXCEPT !.udata = u]
  OBVIOUS
<1>9. g' = push(B, o)
  BY <1>1, <1>3, <1>5, <1>7, <1>8
<1>10. DOMAIN A = StateFields /\ A.udata \in Seq(Of("userdata")) /\ Range(A.udata) \cap A.free = {}
       /\ A.bad \subseteq {"barrierf outside a cycle"}
  BY <1>6 DEF WellFormed, Types
<1>11. B.udata = u /\ B.bad = A.bad /\ Same(A, B, {"udata"})
  BY <1>8, <1>10 DEF StateFields, Same
<1>12. u \in Seq(Of("userdata")) /\ Range(u) = {o} \cup Range(A.udata)
  BY <1>2, <1>7, <1>10, RangeOfPrepend
<1>13. Range(u) \cap A.free = {}
  BY <1>6, <1>10, <1>12
<1>14. WellFormed(B) /\ Phase(B) /\ live(B) = live(A)
  <2>1. Same(A, B, {"full", "arena", "finalized", "owed", "called", "udata", "bad"})
    BY <1>11 DEF Same
  <2>2. PhaseBut(A, {})
    BY <1>6 DEF Phase
  <2> QED
    BY <1>6, <1>10, <1>11, <1>12, <1>13, <2>1, <2>2, BooksKeepPhase DEF Phase
<1>15. o \in Data /\ o \in live(B)
  BY <1>2, <1>6, <1>14 DEF Data, Value, Of
<1> QED
  BY <1>9, <1>14, <1>15, PushKeeps

\* Dead objects, found before they are swept, are used again.
LEMMA RevivalKeeps ==
  ASSUME NEW S, WellFormed(S), Phase(S), NEW o \in Obj, isdead(S, o), NEW X \in SUBSET Obj, o \in X,
         \A p \in X : isdead(S, p) /\ RefersToLive(S, p), NEW T, T = makewhite(S, X)
  PROVE  WellFormed(T) /\ Phase(T) /\ live(T) = live(S) \cup X /\ Same(S, T, {"marked"})
<1>2. o \notin S.free /\ X \cap S.free = {}
  BY DEF WellFormed, Types, isdead
<1>3. /\ WellFormed(T) /\ Same(S, T, {"marked"}) /\ live(T) = live(S) \cup (X \ S.free)
      /\ \A p \in Obj : T.marked[p] = IF p \in X THEN "white" ELSE S.marked[p]
  BY MakewhiteKeeps
<1>4. /\ T.heap = S.heap /\ T.free = S.free /\ T.tmudata = S.tmudata /\ T.gcstate = S.gcstate
      /\ T.sweep = S.sweep /\ T.strings = S.strings
  BY <1>3 DEF Same, StateFields
<1>5. o \notin tofinalize(S)
  BY DEF tofinalize, WellFormed, GraphIsLive, roots, live
<1>6. S.gcstate \in {"sweepstring", "sweep"}
  <2>1. S.gcstate \notin {"pause", "finalize"}
    BY <1>2, <1>5 DEF Phase, PhaseBut, AllWhite, isdead
  <2>2. S.gcstate # "propagate"
    BY DEF Phase, PhaseBut, Marking, Tricolour, NoneDead
  <2>3. S.gcstate \in {"pause", "propagate", "sweepstring", "sweep", "finalize"}
    BY DEF WellFormed, Types
  <2> QED
    BY <2>1, <2>2, <2>3
<1>7. Swept(T)
  <2>1. Swept(S)
    BY <1>6 DEF Phase, PhaseBut
  <2>2. pending(T) = pending(S)
    BY <1>4, HeapDecides DEF pending, openupvals
  <2> QED
    BY <1>3, <1>4, <2>1, <2>2 DEF Swept, tofinalize
<1>8. ASSUME NEW u \in tofinalize(T) PROVE ~ isgray(T, u)
  <2>1. u \in tofinalize(S) /\ u \in Obj
    BY <1>4, <1>8 DEF tofinalize, WellFormed, GraphIsLive, roots, live
  <2>2. ~ isgray(S, u)
    BY <2>1 DEF Phase, PhaseBut
  <2> QED
    BY <1>3, <2>1, <2>2 DEF isgray
<1>9. Phase(T)
  BY <1>4, <1>6, <1>7, <1>8 DEF Phase, PhaseBut
<1> QED
  BY <1>2, <1>3, <1>9

\* A string, new, found again or found dead and used again.
LEMMA NewStringKeeps ==
  ASSUME WellFormed(g), Phase(g), NewString
  PROVE  WellFormed(g') /\ Phase(g')
<1>1. PICK o \in (Of("string") \cap g.arena.objects) \ onstack(g) :
        g' = push(CASE o \in g.free -> luaC_link(g, o, Blank)
                    [] o \notin g.free /\ isdead(g, o) -> makewhite(g, {o})
                    [] OTHER -> g, o)
  BY DEF NewString
<1>2. o \in Obj /\ Kind[o] = "string" /\ o \in Data
  BY DEF Of, Data, Value
<1>3. CASE o \in g.free
  <2>1. g' = push(luaC_link(g, o, Blank), o)
    BY <1>1, <1>3
  <2>2. Fresh(g, Blank, Kind[o])
    BY BlankIsFresh
  <2> QED
    BY <1>2, <1>3, <2>1, <2>2, NewKeeps
<1>4. CASE o \notin g.free /\ isdead(g, o)
  <2>a. PICK X : X = {o}
    OBVIOUS
  <2>1. PICK A : A = makewhite(g, X)
    OBVIOUS
  <2>2. g' = push(A, o)
    BY <1>1, <1>4, <2>1, <2>a
  <2>3. referred(g, o) \cap Obj \subseteq live(g)
    <3>1. Shaped(g.heap[o], Kind[o])
      BY <1>2 DEF WellFormed, Shapes
    <3>2. keys(g, o) = {} /\ ~ isopen(g, o) /\ Range(g.heap[o].stack) = {}
      BY <1>2, <3>1 DEF Shaped, keys, isopen, Range
    <3>3. referred(g, o) \subseteq {None}
      BY <1>2, <3>1, <3>2 DEF Shaped, referred
    <3> QED
      BY <3>3, TypesAssumption
  <2>4. WellFormed(A) /\ Phase(A) /\ live(A) = live(g) \cup X
    <3>1. X \in SUBSET Obj /\ o \in X /\ \A p \in X : isdead(g, p) /\ RefersToLive(g, p)
      BY <1>2, <1>4, <2>a, <2>3 DEF RefersToLive
    <3> QED
      BY <1>2, <1>4, <2>1, <3>1, RevivalKeeps
  <2>5. o \in live(A)
    BY <2>a, <2>4
  <2> QED
    BY <1>2, <2>2, <2>4, <2>5, PushKeeps
<1>5. CASE o \notin g.free /\ ~ isdead(g, o)
  <2>1. g' = push(g, o)
    BY <1>1, <1>5
  <2>2. o \in live(g)
    BY <1>2, <1>5 DEF live
  <2> QED
    BY <1>2, <2>1, <2>2, PushKeeps
<1> QED
  BY <1>3, <1>4, <1>5

\* Another thread runs.
LEMMA ThreadsKeep ==
  ASSUME NEW S, WellFormed(S), Phase(S), NEW T, Same(S, T, {"L", "callers"}),
         T.L \in Of("thread"), T.callers \in Seq(Of("thread")), roots(T) \subseteq live(S), Chain(T)
  PROVE  WellFormed(T) /\ Phase(T) /\ live(T) = live(S)
<1>1. /\ T.heap = S.heap /\ T.free = S.free /\ T.marked = S.marked /\ T.tmudata = S.tmudata /\ T.udata = S.udata
      /\ T.gcstate = S.gcstate /\ T.bad = S.bad /\ DOMAIN T = DOMAIN S
  BY DEF Same, StateFields
<1>2. Types(T)
  BY <1>1 DEF WellFormed, Types
<1>3. live(T) = live(S)
  BY <1>1 DEF live, isdead
<1>4. GraphIsLive(T)
  BY <1>1, <1>3, HeapDecides DEF GraphIsLive, WellFormed
<1>5. Shapes(T) /\ openupvals(T) = openupvals(S)
  BY <1>1, HeapDecides DEF WellFormed, openupvals
<1>6. OpenUpvals(T)
  BY <1>1, <1>5 DEF WellFormed, OpenUpvals
<1>7. NeverBlack(T)
  BY <1>1, HeapDecides DEF WellFormed, NeverBlack, isblack
<1>8. PhaseBut(T, {})
  <2>1. \A o \in Obj \ {} : isblack(S, o) => fields(T, o) \subseteq fields(S, o)
    BY <1>1, HeapDecides
  <2>2. \A o \in Obj : S.marked[o] # "white" => T.heap[o].at = S.heap[o].at /\ (o \in T.free => o \in S.free)
    BY <1>1
  <2>3. Same(S, T, {"heap", "free", "full", "arena", "finalized", "owed", "called", "udata", "bad",
                     "L", "callers"})
    BY DEF Same
  <2>4. Types(S) /\ PhaseBut(S, {})
    BY DEF WellFormed, Phase
  <2> QED
    BY <2>1, <2>2, <2>3, <2>4, PhaseKeeps
<1> QED
  BY <1>2, <1>3, <1>4, <1>5, <1>6, <1>7, <1>8 DEF WellFormed, Phase

\* The coroutine is resumed.
LEMMA SwitchKeeps ==
  ASSUME NEW S, WellFormed(S), Phase(S), stack(S) # <<>>, captures(S, S.L, Len(stack(S))) = {},
         NEW co, co = stack(S)[Len(stack(S))], co \in Of("thread") \ (Range(S.callers) \cup {S.L}),
         NEW T, T = [S EXCEPT !.callers = Append(@, S.L), !.L = co]
  PROVE  WellFormed(T) /\ Phase(T) /\ live(T) = live(S)
<1>1. PICK c : c = Append(S.callers, S.L)
  OBVIOUS
<1>2. T = [S EXCEPT !.callers = c, !.L = co]
  BY <1>1
<1>3. DOMAIN S = StateFields /\ S.callers \in Seq(Of("thread")) /\ S.L \in Of("thread")
  BY DEF WellFormed, Types
<1>4. T.callers = c /\ T.L = co
  BY <1>2, <1>3 DEF StateFields
<1>5. Same(S, T, {"L", "callers"})
  BY <1>2, <1>3 DEF StateFields, Same
<1>6. c \in Seq(Of("thread")) /\ Range(c) = Range(S.callers) \cup {S.L}
  BY <1>1, <1>3, RangeOfAppend
<1>7. c = path(S)
  BY <1>1 DEF path
<1>8. stack(S) \in Seq(Data) /\ Range(stack(S)) \cap Obj \subseteq live(S)
  BY RunningIsNoCaller
<1>9. co \in live(S)
  <2>1. Len(stack(S)) \in DOMAIN stack(S)
    BY <1>8
  <2>2. co \in Obj /\ co \in Range(stack(S))
    BY <2>1 DEF Of, Range
  <2> QED
    BY <1>8, <2>2
<1>10. T.tmudata = S.tmudata /\ T.heap = S.heap /\ T.free = S.free
  BY <1>5 DEF Same, StateFields
<1>11. roots(T) \subseteq live(S)
  BY <1>4, <1>6, <1>9, <1>10 DEF roots, WellFormed, GraphIsLive
<1>12. Chain(T)
  <2>0. PICK p : p = path(T)
    OBVIOUS
  <2>1. p = Append(c, co)
    BY <1>4, <2>0 DEF path
  <2>2. p \in Seq(Of("thread")) /\ Len(p) = Len(c) + 1 /\ p[Len(c) + 1] = co /\ \A i \in 1..Len(c) : p[i] = c[i]
    BY <1>6, <2>1, AppendProperties
  <2>3. DOMAIN p = 1..(Len(c) + 1) /\ DOMAIN c = 1..Len(c) /\ Len(c) \in Nat
    BY <1>6, <2>2
  <2>4. Len(c) = Len(S.callers) + 1 /\ c[Len(S.callers) + 1] = S.L /\ Len(S.callers) \in Nat
        /\ \A i \in 1..Len(S.callers) : c[i] = S.callers[i]
    BY <1>1, <1>3, AppendProperties
  <2>5. Chain(S)
    BY DEF WellFormed
  <2>6. p[1] = MainThread
    BY <1>7, <2>2, <2>4, <2>5 DEF Chain
  <2>7. ASSUME NEW i \in 1..Len(c) PROVE c[i] # co
    BY <1>6, <2>3 DEF Range
  <2>8. ASSUME NEW i \in DOMAIN p, NEW j \in DOMAIN p, p[i] = p[j] PROVE i = j
    <3>1. CASE i = Len(c) + 1 /\ j = Len(c) + 1
      BY <3>1
    <3>2. CASE i \in 1..Len(c) /\ j \in 1..Len(c)
      BY <1>7, <2>2, <2>3, <2>5, <2>8, <3>2 DEF Chain
    <3>3. CASE i \in 1..Len(c) /\ j = Len(c) + 1
      BY <2>2, <2>7, <2>8, <3>3
    <3>4. CASE i = Len(c) + 1 /\ j \in 1..Len(c)
      BY <2>2, <2>7, <2>8, <3>4
    <3> QED
      BY <2>3, <3>1, <3>2, <3>3, <3>4
  <2>9. openupvals(T) = openupvals(S)
    BY <1>10 DEF openupvals, isopen
  <2>10. ASSUME NEW i \in DOMAIN T.callers PROVE Waits(T, i)
    <3>1. CASE i \in 1..Len(S.callers)
      <4>1. Waits(S, i)
        BY <1>3, <2>5, <3>1 DEF Chain
      <4>2. T.callers[i] = S.callers[i] /\ path(T)[i + 1] = path(S)[i + 1]
        <5>1. i + 1 \in 1..Len(c)
          BY <2>4, <3>1
        <5> QED
          BY <1>4, <1>7, <2>0, <2>2, <2>4, <3>1, <5>1
      <4>3. captures(T, S.callers[i], Len(S.heap[S.callers[i]].stack)) = {}
        BY <1>10, <2>9, <4>1 DEF Waits, captures
      <4> QED
        BY Zenon, <1>10, <4>1, <4>2, <4>3 DEF Waits
    <3>2. CASE i = Len(S.callers) + 1
      <4>1. T.callers[i] = S.L /\ path(T)[i + 1] = co
        BY <1>4, <2>0, <2>2, <2>4, <3>2
      <4>2. captures(T, S.L, Len(stack(S))) = {}
        BY <1>10, <2>9 DEF captures
      <4> QED
        BY Zenon, <1>10, <4>1, <4>2 DEF Waits, stack
    <3> QED
      BY <1>4, <2>3, <2>4, <3>1, <3>2
  <2> QED
    BY <2>0, <2>6, <2>8, <2>10 DEF Chain
<1> QED
  BY <1>4, <1>5, <1>6, <1>11, <1>12, ThreadsKeep

\* The thread that resumed it runs again.
LEMMA SwitchBackKeeps ==
  ASSUME NEW S, WellFormed(S), Phase(S), S.callers # <<>>, NEW from, from = S.callers[Len(S.callers)],
         NEW T, T = [S EXCEPT !.L = from, !.callers = Front(@)]
  PROVE  WellFormed(T) /\ Phase(T) /\ live(T) = live(S)
<1>1. PICK c : c = Front(S.callers)
  OBVIOUS
<1>2. T = [S EXCEPT !.L = from, !.callers = c]
  BY <1>1
<1>3. DOMAIN S = StateFields /\ S.callers \in Seq(Of("thread")) /\ S.L \in Of("thread")
  BY DEF WellFormed, Types
<1>4. T.callers = c /\ T.L = from
  BY <1>2, <1>3 DEF StateFields
<1>5. Same(S, T, {"L", "callers"})
  BY <1>2, <1>3 DEF StateFields, Same
<1>a. PICK N : N = Len(S.callers)
  OBVIOUS
<1>b. N \in Nat /\ N > 0 /\ DOMAIN S.callers = 1..N /\ from = S.callers[N]
  BY <1>3, <1>a
<1>6. c \in Seq(Of("thread")) /\ Len(c) = N - 1 /\ \A i \in 1..(N - 1) : c[i] = S.callers[i]
  BY <1>1, <1>3, <1>a, <1>b DEF Front
<1>7. from \in Of("thread") /\ from \in Range(S.callers)
  BY <1>3, <1>b DEF Range
<1>8. Range(c) \subseteq Range(S.callers)
  <2>1. DOMAIN c = 1..(N - 1)
    BY <1>6
  <2> QED
    BY <1>6, <1>b, <2>1 DEF Range
<1>9. T.tmudata = S.tmudata /\ T.heap = S.heap /\ T.free = S.free
  BY <1>5 DEF Same, StateFields
<1>10. roots(T) \subseteq live(S)
  BY <1>4, <1>7, <1>8, <1>9 DEF roots, WellFormed, GraphIsLive
<1>11. PICK p : p = path(T)
  OBVIOUS
<1>12. p = Append(c, from)
  BY <1>4, <1>11 DEF path
<1>13. p \in Seq(Of("thread")) /\ Len(p) = N /\ DOMAIN p = 1..N /\ \A i \in 1..N : p[i] = S.callers[i]
  <2>1. p \in Seq(Of("thread")) /\ Len(p) = Len(c) + 1 /\ p[Len(c) + 1] = from /\ \A i \in 1..Len(c) : p[i] = c[i]
    BY <1>6, <1>7, <1>12, AppendProperties
  <2>2. Len(p) = N /\ p[N] = from /\ \A i \in 1..(N - 1) : p[i] = c[i]
    BY <1>6, <1>b, <2>1
  <2>3. DOMAIN p = 1..N
    BY <2>1, <2>2
  <2>4. ASSUME NEW i \in 1..N PROVE p[i] = S.callers[i]
    <3>1. CASE i = N
      BY <1>b, <2>2, <3>1
    <3>2. CASE i \in 1..(N - 1)
      BY <1>6, <2>2, <3>2
    <3> QED
      BY <1>b, <3>1, <3>2
  <2> QED
    BY <2>1, <2>2, <2>3, <2>4
<1>14. PICK q : q = path(S)
  OBVIOUS
<1>15. DOMAIN q = 1..(N + 1) /\ \A i \in 1..N : q[i] = S.callers[i]
  BY <1>3, <1>14, <1>a, AppendProperties DEF path
<1>16. Chain(T)
  <2>1. Chain(S)
    BY DEF WellFormed
  <2>2. p[1] = MainThread
    BY <1>13, <1>14, <1>15, <1>b, <2>1 DEF Chain
  <2>3. \A i, j \in DOMAIN p : p[i] = p[j] => i = j
    <3>1. \A i \in 1..N : p[i] = q[i] /\ i \in DOMAIN q
      BY <1>13, <1>15, <1>b
    <3> QED
      BY <1>13, <1>14, <2>1, <3>1 DEF Chain
  <2>4. openupvals(T) = openupvals(S)
    BY <1>9 DEF openupvals, isopen
  <2>5. ASSUME NEW i \in DOMAIN T.callers PROVE Waits(T, i)
    <3>1. i \in 1..(N - 1) /\ i + 1 \in 1..N /\ i \in DOMAIN S.callers
      BY <1>4, <1>6, <1>b
    <3>2. Waits(S, i)
      BY <2>1, <3>1 DEF Chain
    <3>3. T.callers[i] = S.callers[i] /\ path(T)[i + 1] = path(S)[i + 1]
      BY <1>4, <1>6, <1>11, <1>13, <1>14, <1>15, <3>1
    <3>4. captures(T, S.callers[i], Len(S.heap[S.callers[i]].stack)) = {}
      BY <1>9, <2>4, <3>2 DEF Waits, captures
    <3> QED
      BY <1>9, <3>2, <3>3, <3>4 DEF Waits
  <2> QED
    BY <1>11, <2>2, <2>3, <2>5 DEF Chain
<1> QED
  BY <1>4, <1>5, <1>6, <1>7, <1>10, <1>16, ThreadsKeep

\* The values on the running stack are alive.
LEMMA StackValues ==
  ASSUME NEW S, WellFormed(S), NEW v \in onstack(S)
  PROVE  v \in Data /\ v \in Obj /\ v \in live(S)
<1>1. stack(S) \in Seq(Data) /\ Range(stack(S)) \cap Obj \subseteq live(S)
  BY RunningIsNoCaller
<1>2. Range(stack(S)) \subseteq Data
  BY <1>1 DEF Range
<1> QED
  BY <1>1, <1>2 DEF onstack

\* A coroutine is resumed.
LEMMA ResumeKeeps ==
  ASSUME WellFormed(g), Phase(g), Resume
  PROVE  WellFormed(g') /\ Phase(g')
<1>1. PICK co : co = Last(stack(g))
  OBVIOUS
<1>2. PICK s : s = [g EXCEPT !.callers = Append(@, g.L), !.L = co]
  OBVIOUS
<1>3. /\ stack(g) # <<>> /\ captures(g, g.L, Len(stack(g))) = {} /\ co \in Of("thread") \ (Range(g.callers) \cup {g.L})
      /\ g' = s \/ \E v \in onstack(g) : g' = push(s, v)
  BY <1>1, <1>2 DEF Resume
<1>4. co = stack(g)[Len(stack(g))]
  BY <1>1 DEF Last
<1>5. WellFormed(s) /\ Phase(s) /\ live(s) = live(g)
  BY <1>2, <1>3, <1>4, SwitchKeeps
<1>6. CASE g' = s
  BY <1>5, <1>6
<1>7. ASSUME NEW v \in onstack(g), g' = push(s, v) PROVE WellFormed(g') /\ Phase(g')
  <2>1. v \in Data /\ v \in live(s)
    BY <1>5, StackValues
  <2> QED
    BY <1>5, <1>7, <2>1, PushKeeps
<1> QED
  BY <1>3, <1>6, <1>7

\* A coroutine yields or returns.
LEMMA YieldKeeps ==
  ASSUME WellFormed(g), Phase(g), Yield
  PROVE  WellFormed(g') /\ Phase(g')
<1>1. PICK from : from = Last(g.callers)
  OBVIOUS
<1>2. PICK s : s = [g EXCEPT !.L = from, !.callers = Front(@)]
  OBVIOUS
<1>3. /\ g.callers # <<>>
      /\ g' = s \/ \E v \in onstack(g) : g' = push(s, v)
  BY <1>1, <1>2 DEF Yield
<1>4. from = g.callers[Len(g.callers)]
  BY <1>1 DEF Last
<1>5. WellFormed(s) /\ Phase(s) /\ live(s) = live(g)
  BY <1>2, <1>3, <1>4, SwitchBackKeeps
<1>6. CASE g' = s
  BY <1>5, <1>6
<1>7. ASSUME NEW v \in onstack(g), g' = push(s, v) PROVE WellFormed(g') /\ Phase(g')
  <2>1. v \in Data /\ v \in live(s)
    BY <1>5, StackValues
  <2> QED
    BY <1>5, <1>7, <2>1, PushKeeps
<1> QED
  BY <1>3, <1>6, <1>7

\* An object at hand is alive.
LEMMA KnownIsLive ==
  ASSUME NEW S, WellFormed(S), NEW o \in known(S)
  PROVE  o \in Obj /\ o \in live(S) /\ o \notin S.free
<1>1. Registry \in live(S)
  BY DEF WellFormed, GraphIsLive, roots
<1>2. o \in live(S)
  BY <1>1, StackValues DEF known
<1> QED
  BY <1>2 DEF live

\* What an object at hand gives is alive.
LEMMA VisibleIsLive ==
  ASSUME NEW S, WellFormed(S), NEW o \in live(S), NEW v \in visible(S, o)
  PROVE  v \in Data /\ v \in live(S)
<1>1. o \in Obj /\ o \notin S.free
  BY DEF live
<1>2. Shaped(S.heap[o], Kind[o])
  BY <1>1 DEF WellFormed, Shapes
<1>3. referred(S, o) \cap Obj \subseteq live(S)
  BY DEF WellFormed, GraphIsLive
<1>4. PICK X : X = {S.heap[o].mt, S.heap[o].env}
  OBVIOUS
<1>5. v \in Obj
  BY DEF visible
<1>6. X \cap Obj \subseteq Of("table") /\ X \subseteq referred(S, o)
  BY <1>2, <1>4, TypesAssumption DEF Shaped, referred
<1>7. X \cap Obj \subseteq Data
  BY <1>6 DEF Data, Value, Of
<1>8. CASE v \in X
  BY <1>3, <1>5, <1>6, <1>7, <1>8
<1>9. CASE v \in keys(S, o) \cup {S.heap[o].node[k] : k \in keys(S, o)}
  <2>1. v \in Data
    BY <1>2, <1>9 DEF Shaped, keys
  <2>2. v \in referred(S, o)
    BY <1>9 DEF referred
  <2> QED
    BY <1>3, <1>5, <2>1, <2>2
<1>10. ASSUME NEW u \in S.heap[o].refs \cap Of("upval"), v = uvalue(S, u) PROVE v \in Data /\ v \in live(S)
  <2>1. u \in Obj /\ u \in referred(S, o)
    BY DEF Of, referred
  <2>2. u \in live(S)
    BY <1>3, <2>1
  <2>3. u \notin S.free /\ referred(S, u) \cap Obj \subseteq live(S)
    BY <2>2 DEF live, WellFormed, GraphIsLive
  <2>4. uvalue(S, u) \in Data /\ uvalue(S, u) \in referred(S, u)
    BY <2>3, UvalueIsReferred
  <2> QED
    BY <1>5, <1>10, <2>3, <2>4
<1>11. \/ v \in X
       \/ v \in keys(S, o) \cup {S.heap[o].node[k] : k \in keys(S, o)}
       \/ \E u \in S.heap[o].refs \cap Of("upval") : v = uvalue(S, u)
  <2>1. CASE Kind[o] = "table"
    BY <1>4, <2>1 DEF visible
  <2>2. CASE Kind[o] = "function"
    BY <1>4, <2>2 DEF visible
  <2>3. CASE Kind[o] # "table" /\ Kind[o] # "function"
    BY <1>4, <2>3 DEF visible
  <2> QED
    BY <2>1, <2>2, <2>3
<1> QED
  BY <1>8, <1>9, <1>10, <1>11

\* A field, a key, an upvalue or a metatable is pushed.
LEMMA ReadKeeps ==
  ASSUME WellFormed(g), Phase(g), Read
  PROVE  WellFormed(g') /\ Phase(g')
<1>1. PICK o \in known(g) : \E v \in visible(g, o) \ onstack(g) : g' = push(g, v)
  BY DEF Read
<1>2. PICK v \in visible(g, o) : g' = push(g, v)
  BY <1>1
<1>3. v \in Data /\ v \in live(g)
  BY KnownIsLive, VisibleIsLive
<1> QED
  BY <1>2, <1>3, PushKeeps

\* Closing upvalues leaves the phase as it must be.
LEMMA ClosesKeepsPhase ==
  ASSUME NEW S, WellFormed(S), Phase(S), NEW U, U \subseteq Of("upval"), NEW T, Closes(S, T, U)
  PROVE  Phase(T)
<1>1. /\ WellFormed(T) /\ openupvals(T) = openupvals(S) \ U /\ S.free \subseteq T.free
      /\ \A o \in Obj \ U : T.heap[o] = S.heap[o]
      /\ S.gcstate = "propagate" => Marking(T, {})
      /\ S.gcstate # "propagate" => \A o \in Obj : T.marked[o] = IF o \in U THEN "white" ELSE S.marked[o]
  BY DEF Closes
<1>2. /\ T.gcstate = S.gcstate /\ T.tmudata = S.tmudata /\ T.sweep = S.sweep /\ T.strings = S.strings
  BY DEF Closes, Same, StateFields
<1>3. tofinalize(T) = tofinalize(S) /\ tofinalize(S) \subseteq Obj
  BY <1>2 DEF tofinalize, WellFormed, GraphIsLive, roots, live
<1>4. CASE S.gcstate = "propagate"
  <2>1. \A u \in tofinalize(T) : ~ isgray(T, u)
    BY <1>1, <1>4, NoGrayUserdata DEF Marking, Tricolour
  <2> QED
    BY <1>1, <1>2, <1>4, <2>1 DEF Phase, PhaseBut
<1>5. CASE S.gcstate # "propagate"
  <2>1. \A o \in Obj : T.marked[o] = IF o \in U THEN "white" ELSE S.marked[o]
    BY <1>1, <1>5
  <2>2. \A u \in tofinalize(T) : ~ isgray(T, u)
    BY <1>3, <2>1 DEF Phase, PhaseBut, isgray
  <2>3. AllWhite(S) => AllWhite(T)
    BY <1>1, <1>3, <2>1 DEF AllWhite
  <2>4. ASSUME Swept(S) PROVE Swept(T)
    <3>1. ASSUME NEW o \in Obj, o \notin T.free, o \notin tofinalize(T), T.marked[o] # "white" PROVE o \in pending(T)
      <4>1. o \notin U /\ S.marked[o] # "white" /\ o \notin S.free /\ o \notin tofinalize(S)
        BY <1>1, <1>3, <2>1, <3>1
      <4>2. o \in pending(S)
        BY <2>4, <4>1 DEF Swept
      <4>3. T.heap[o] = S.heap[o]
        BY <1>1, <4>1
      <4> QED
        BY <1>1, <1>2, <4>1, <4>2, <4>3 DEF pending
    <3> QED
      BY <1>2, <2>4, <3>1 DEF Swept
  <2> QED
    BY <1>2, <1>5, <2>2, <2>3, <2>4 DEF Phase, PhaseBut
<1> QED
  BY <1>4, <1>5

\* A block is left, and the upvalues of its variables are closed.
LEMMA PopKeeps ==
  ASSUME WellFormed(g), Phase(g), Pop
  PROVE  WellFormed(g') /\ Phase(g')
<1>1. PICK threads : threads = {g.L}
  OBVIOUS
<1>2. PICK N : N = Len(stack(g))
  OBVIOUS
<1>3. PICK s : s = luaF_close(g, threads, N)
  OBVIOUS
<1>4. stack(g) # <<>> /\ g' = [s EXCEPT !.heap[g.L].stack = Front(@)]
  BY <1>1, <1>2, <1>3 DEF Pop
<1>5. PICK U : U = tobeclosed(g, threads, N)
  OBVIOUS
<1>6. Closes(g, s, U)
  <2>1. g.gcstate = "propagate" => Marking(g, {})
    BY DEF Phase, PhaseBut
  <2>2. g.gcstate \in {"pause", "finalize"} => AllWhite(g)
    BY DEF Phase, PhaseBut
  <2> QED
    BY <1>3, <1>5, <2>1, <2>2, LuafCloseKeeps
<1>7. U \subseteq Of("upval")
  BY <1>5 DEF tobeclosed, openupvals
<1>8. Phase(s)
  BY <1>6, <1>7, ClosesKeepsPhase
<1>9. /\ WellFormed(s) /\ live(s) = live(g) /\ openupvals(s) = openupvals(g) \ U
      /\ \A o \in Obj \ U : s.heap[o] = g.heap[o]
  BY <1>6 DEF Closes
<1>10. s.L = g.L
  BY <1>6 DEF Closes, Same, StateFields
<1>11. g.L \in Of("thread") /\ g.L \in Obj /\ g.L \notin U
  BY <1>7, RunningIsNoCaller DEF Of
<1>12. stack(s) = stack(g)
  BY <1>9, <1>10, <1>11 DEF stack
<1>13. PICK q : q = stack(g)
  OBVIOUS
<1>14. PICK st : st = Front(q)
  OBVIOUS
<1>15. q \in Seq(Data) /\ Len(q) = N /\ N \in Nat /\ N > 0 /\ DOMAIN q = 1..N
  BY <1>2, <1>4, <1>13, RunningIsNoCaller
<1>16. st \in Seq(Data) /\ Len(st) = N - 1 /\ \A i \in 1..(N - 1) : st[i] = q[i]
  BY <1>14, <1>15 DEF Front
<1>17. Range(st) \subseteq Range(q)
  <2>1. DOMAIN st = 1..(N - 1)
    BY <1>16
  <2> QED
    BY <1>15, <1>16, <2>1 DEF Range
<1>18. s.L \notin s.free /\ s.L \notin Range(s.callers) /\ Range(stack(s)) \cap Obj \subseteq live(s)
  BY <1>9, RunningIsNoCaller
<1>19. Restacks(s, g.L, st)
  <2>1. ASSUME NEW u \in openupvals(s), s.heap[u].at[1] = g.L
        PROVE  s.heap[u].at[2] \in 1..Len(st) /\ st[s.heap[u].at[2]] = s.heap[g.L].stack[s.heap[u].at[2]]
    <3>1. s.heap[u].at[2] \in 1..N
      BY <1>9, <1>10, <1>11, <1>12, <1>13, <1>15, <2>1, OpenSlots DEF stack
    <3>2. u \in openupvals(g) /\ u \notin U /\ u \in Obj
      BY <1>9, <2>1 DEF openupvals, Of
    <3>3. g.heap[u].at = s.heap[u].at
      BY <1>9, <3>2
    <3>4. ~ (g.heap[u].at[2] >= N)
      BY <1>1, <1>5, <2>1, <3>2, <3>3 DEF tobeclosed
    <3>5. PICK n : n = s.heap[u].at[2]
      OBVIOUS
    <3>6. n \in 1..(N - 1)
      BY <1>15, <3>1, <3>3, <3>4, <3>5
    <3>7. n \in 1..Len(st) /\ st[n] = q[n]
      BY <1>16, <3>6
    <3> QED
      BY <1>10, <1>12, <1>13, <3>5, <3>7 DEF stack
  <2>2. Range(st) \cap Obj \subseteq live(s)
    BY <1>12, <1>13, <1>17, <1>18
  <2> QED
    BY <1>10, <1>18, <2>1, <2>2 DEF Restacks
<1>20. g' = [s EXCEPT !.heap[g.L].stack = st]
  BY <1>4, <1>10, <1>12, <1>13, <1>14 DEF stack
<1> QED
  BY <1>8, <1>9, <1>10, <1>11, <1>16, <1>18, <1>19, <1>20, RestackKeeps

\* A full collection begins: an unfinished cycle is swept without any mark.
LEMMA FullgcKeeps ==
  ASSUME WellFormed(g), Phase(g), luaC_fullgc
  PROVE  WellFormed(g') /\ Phase(g')
<1>0. DOMAIN g = StateFields /\ \A u \in tofinalize(g) : ~ isgray(g, u)
  BY DEF WellFormed, Types, Phase, PhaseBut
<1>1. CASE g.gcstate \in {"pause", "propagate"}
  <2>1. PICK A : A = startsweep(g)
    OBVIOUS
  <2>2. g' = [A EXCEPT !.full = "sweep", !.gray = {}, !.grayagain = {}, !.weak = {}]
    BY <1>1, <2>1 DEF luaC_fullgc
  <2>3. Same(g, A, {"gcstate", "strings", "sweep"}) /\ A.gcstate = "sweepstring"
    BY <1>0, <2>1, StartsweepStarts
  <2>4. Phase(A)
    BY <1>0, <2>1, StartsweepSweeps DEF WellFormed
  <2>5. A.udata = g.udata /\ A.bad = g.bad /\ A.free = g.free
    BY <2>3 DEF Same, StateFields
  <2>6. WellFormed(A)
    <3>1. A.udata \in Seq(Of("userdata")) /\ Range(A.udata) \cap g.free = {} /\ A.bad \subseteq {"barrierf outside a cycle"}
      BY <2>5 DEF WellFormed, Types
    <3>2. A.gcstate \in {"pause", "propagate", "sweepstring", "sweep", "finalize"}
      BY <2>3
    <3> QED
      BY <2>3, <3>1, <3>2, BooksKeep DEF Same
  <2>7. DOMAIN A = StateFields
    BY <2>6 DEF WellFormed, Types
  <2>8. PICK T : T = [A EXCEPT !.full = "sweep", !.gray = {}, !.grayagain = {}, !.weak = {}]
    OBVIOUS
  <2>9. Same(A, T, {"full", "gray", "grayagain", "weak"})
    BY <2>7, <2>8 DEF StateFields, Same
  <2>10. /\ T.gcstate = "sweepstring" /\ T.heap = A.heap /\ T.free = A.free /\ T.marked = A.marked
         /\ T.tmudata = A.tmudata /\ T.udata = A.udata /\ T.bad = A.bad /\ T.sweep = A.sweep /\ T.strings = A.strings
    BY <2>3, <2>9 DEF Same, StateFields
  <2>11. WellFormed(T)
    <3>1. T.udata \in Seq(Of("userdata")) /\ Range(T.udata) \cap A.free = {} /\ T.bad \subseteq {"barrierf outside a cycle"}
      BY <2>6, <2>10 DEF WellFormed, Types
    <3>2. T.gcstate \in {"pause", "propagate", "sweepstring", "sweep", "finalize"}
      BY <2>10
    <3> QED
      BY <2>6, <2>9, <3>1, <3>2, BooksKeep DEF Same
  <2>12. Swept(T) /\ \A u \in tofinalize(T) : ~ isgray(T, u)
    <3>1. Swept(A) /\ \A u \in tofinalize(A) : ~ isgray(A, u)
      BY <2>3, <2>4 DEF Phase, PhaseBut
    <3>2. openupvals(T) = openupvals(A)
      BY <2>10 DEF openupvals, isopen
    <3>3. pending(T) = pending(A) /\ tofinalize(T) = tofinalize(A)
      BY <2>10, <3>2 DEF pending, tofinalize
    <3> QED
      BY <2>10, <3>1, <3>3 DEF Swept, isgray
  <2>13. Phase(T)
    BY <2>10, <2>12 DEF Phase, PhaseBut
  <2> QED
    BY <2>2, <2>8, <2>11, <2>13
<1>2. CASE g.gcstate = "finalize"
  <2>1. PICK A : A = markroot(g)
    OBVIOUS
  <2>2. g' = [A EXCEPT !.full = "mark"]
    BY <1>2, <2>1 DEF luaC_fullgc
  <2>3. AllWhite(g)
    BY <1>2 DEF Phase, PhaseBut
  <2>4. WellFormed(A) /\ Phase(A)
    BY <1>0, <2>1, <2>3, MarkrootKeeps
  <2> QED
    BY <2>2, <2>4, FullKeeps
<1>3. CASE g.gcstate \notin {"pause", "propagate", "finalize"}
  <2>1. g' = [g EXCEPT !.full = "sweep"]
    BY <1>3 DEF luaC_fullgc
  <2> QED
    BY <2>1, FullKeeps
<1> QED
  BY <1>1, <1>2, <1>3

\* The first of a sequence and the others.
LEMMA RangeOfTail ==
  ASSUME NEW D, NEW s \in Seq(D), s # <<>>
  PROVE  Head(s) \in D /\ Tail(s) \in Seq(D) /\ Range(s) = {Head(s)} \cup Range(Tail(s))
<1>1. PICK t : t = Tail(s)
  OBVIOUS
<1>2. t \in Seq(D) /\ Len(t) = Len(s) - 1 /\ \A i \in 1..Len(t) : t[i] = s[i + 1]
  BY <1>1, HeadTailProperties
<1>3. Head(s) = s[1] /\ Len(s) \in Nat /\ Len(s) > 0 /\ DOMAIN s = 1..Len(s) /\ DOMAIN t = 1..Len(t)
  BY <1>2
<1>4. Range(t) \subseteq Range(s)
  <2>1. ASSUME NEW i \in 1..Len(t) PROVE t[i] \in Range(s)
    <3>1. i + 1 \in DOMAIN s
      BY <1>2, <1>3
    <3> QED
      BY <1>2, <3>1 DEF Range
  <2> QED
    BY <1>3, <2>1 DEF Range
<1>5. ASSUME NEW i \in 1..Len(s), i # 1 PROVE s[i] \in Range(t)
  <2>1. i - 1 \in 1..Len(t) /\ (i - 1) + 1 = i
    BY <1>2, <1>3, <1>5
  <2>2. t[i - 1] = s[i]
    BY <1>2, <2>1
  <2> QED
    BY <1>3, <2>1, <2>2 DEF Range
<1>6. s[1] \in Range(s) /\ s[1] \in D
  BY <1>3 DEF Range
<1>7. Range(s) \subseteq {s[1]} \cup Range(t)
  BY <1>3, <1>5 DEF Range
<1> QED
  BY <1>1, <1>2, <1>3, <1>4, <1>6, <1>7

\* The first userdata to finalize goes back to the others.
Untmu(S, T, o) ==
  /\ WellFormed(T) /\ Same(S, T, {"tmudata", "udata"}) /\ live(T) = live(S)
  /\ o \in Of("userdata") /\ o \in live(S) /\ tofinalize(S) = {o} \cup tofinalize(T)

\* A userdata goes back to the others before its finalizer is called.
LEMMA UntmuKeeps ==
  ASSUME NEW S, WellFormed(S), S.tmudata # <<>>, NEW o, o = Head(S.tmudata),
         NEW T, T = [S EXCEPT !.tmudata = Tail(@), !.udata = <<o>> \o @]
  PROVE  Untmu(S, T, o)
<1>1. PICK t : t = Tail(S.tmudata)
  OBVIOUS
<1>2. PICK u : u = <<o>> \o S.udata
  OBVIOUS
<1>3. T = [S EXCEPT !.tmudata = t, !.udata = u]
  BY <1>1, <1>2
<1>4. /\ DOMAIN S = StateFields /\ S.tmudata \in Seq(Of("userdata")) /\ S.udata \in Seq(Of("userdata"))
      /\ Range(S.udata) \cap S.free = {}
  BY DEF WellFormed, Types
<1>5. T.tmudata = t /\ T.udata = u
  BY <1>3, <1>4 DEF StateFields
<1>6. Same(S, T, {"tmudata", "udata"})
  BY <1>3, <1>4 DEF StateFields, Same
<1>7. /\ T.heap = S.heap /\ T.free = S.free /\ T.marked = S.marked /\ T.L = S.L /\ T.callers = S.callers
      /\ T.gcstate = S.gcstate /\ T.bad = S.bad /\ DOMAIN T = DOMAIN S
  BY <1>6 DEF Same, StateFields
<1>8. o \in Of("userdata") /\ t \in Seq(Of("userdata")) /\ Range(S.tmudata) = {o} \cup Range(t)
  BY <1>1, <1>4, RangeOfTail
<1>9. o \in live(S) /\ o \notin S.free /\ roots(T) \subseteq live(S)
  <2>1. roots(S) \subseteq live(S)
    BY DEF WellFormed, GraphIsLive
  <2>2. roots(T) \subseteq roots(S) /\ o \in roots(S)
    BY <1>5, <1>7, <1>8 DEF roots
  <2> QED
    BY <2>1, <2>2 DEF live
<1>10. u \in Seq(Of("userdata")) /\ Range(u) = {o} \cup Range(S.udata)
  BY <1>2, <1>4, <1>8, RangeOfPrepend
<1>11. Range(u) \cap S.free = {}
  BY <1>4, <1>9, <1>10
<1>12. Types(T)
  BY <1>5, <1>7, <1>8, <1>10, <1>11 DEF WellFormed, Types
<1>13. live(T) = live(S)
  BY <1>7 DEF live, isdead
<1>14. GraphIsLive(T)
  <2>1. \A p : referred(T, p) = referred(S, p)
    BY <1>7, HeapDecides
  <2> QED
    BY <1>9, <1>13, <2>1 DEF GraphIsLive, WellFormed
<1>15. Shapes(T) /\ OpenUpvals(T) /\ Chain(T)
  <2>1. Pruned(S, T)
    BY <1>7 DEF WellFormed, Types, Shapes, Shaped, Pruned
  <2> QED
    BY <1>7, <2>1, PrunedGraph
<1>16. NeverBlack(T)
  BY <1>7 DEF WellFormed, NeverBlack, isblack, isopen
<1> QED
  BY <1>5, <1>6, <1>8, <1>9, <1>12, <1>13, <1>14, <1>15, <1>16 DEF WellFormed, tofinalize, Untmu

\* A finalizer is called.
LEMMA GCTMKeeps ==
  ASSUME NEW S, WellFormed(S), Phase(S), S.gcstate = "finalize", S.tmudata # <<>>, NEW T, T = GCTM(S)
  PROVE  WellFormed(T) /\ Phase(T)
<1>1. PICK o : o = Head(S.tmudata)
  OBVIOUS
<1>2. PICK A : A = [S EXCEPT !.tmudata = Tail(@), !.udata = <<o>> \o @]
  OBVIOUS
<1>3. PICK X : X = {o}
  OBVIOUS
<1>4. PICK B : B = makewhite(A, X)
  OBVIOUS
<1>5. /\ WellFormed(A) /\ Same(S, A, {"tmudata", "udata"}) /\ live(A) = live(S)
      /\ o \in Of("userdata") /\ o \in live(S) /\ tofinalize(S) = {o} \cup tofinalize(A)
  <2>1. Untmu(S, A, o)
    BY <1>1, <1>2, UntmuKeeps
  <2> QED
    BY <2>1 DEF Untmu
<1>6. X \in SUBSET Obj /\ \A p \in X : ~ isdead(A, p)
  BY <1>3, <1>5 DEF live
<1>7. /\ WellFormed(B) /\ Same(A, B, {"marked"}) /\ live(B) = live(A) \cup (X \ A.free)
      /\ \A p \in Obj : B.marked[p] = IF p \in X THEN "white" ELSE A.marked[p]
  BY <1>4, <1>5, <1>6, MakewhiteKeeps
<1>8. A.marked = S.marked /\ A.free = S.free /\ A.gcstate = S.gcstate
  BY <1>5 DEF Same, StateFields
<1>9. B.free = S.free /\ B.gcstate = S.gcstate /\ B.tmudata = A.tmudata
  BY <1>7, <1>8 DEF Same, StateFields
<1>10. tofinalize(B) = tofinalize(A) /\ tofinalize(A) \subseteq Obj
  BY <1>5, <1>9 DEF tofinalize, WellFormed, GraphIsLive, roots, live
<1>11. AllWhite(B)
  <2>1. AllWhite(S)
    BY DEF Phase, PhaseBut
  <2>2. ASSUME NEW p \in Obj \ (B.free \cup tofinalize(B)) PROVE B.marked[p] = "white"
    <3>1. CASE p = o
      BY <1>3, <1>7, <3>1
    <3>2. CASE p # o
      <4>1. p \notin tofinalize(S)
        BY <1>5, <1>10, <2>2, <3>2
      <4>2. S.marked[p] = "white"
        BY <1>9, <2>1, <2>2, <4>1 DEF AllWhite
      <4> QED
        BY <1>3, <1>7, <1>8, <3>2, <4>2
    <3> QED
      BY <3>1, <3>2
  <2> QED
    BY <2>2 DEF AllWhite
<1>12. ASSUME NEW u \in tofinalize(B) PROVE ~ isgray(B, u)
  <2>1. u \in tofinalize(S) /\ u \in Obj
    BY <1>5, <1>10, <1>12
  <2>2. ~ isgray(S, u)
    BY <2>1 DEF Phase, PhaseBut
  <2> QED
    BY <1>7, <1>8, <2>1, <2>2 DEF isgray
<1>13. Phase(B)
  BY <1>9, <1>11, <1>12 DEF Phase, PhaseBut
<1>14. CASE ~ has(S, o, "__gc")
  <2>1. PICK w : w = B.owed \ {o}
    OBVIOUS
  <2>2. T = [B EXCEPT !.owed = w]
    BY <1>1, <1>2, <1>3, <1>4, <1>14, <2>1 DEF GCTM
  <2>3. DOMAIN B = StateFields /\ B.udata \in Seq(Of("userdata")) /\ Range(B.udata) \cap B.free = {}
        /\ B.bad \subseteq {"barrierf outside a cycle"}
    BY <1>7 DEF WellFormed, Types
  <2>4. T.udata = B.udata /\ T.bad = B.bad /\ Same(B, T, {"owed"})
    BY <2>2, <2>3 DEF StateFields, Same
  <2>5. Same(B, T, {"full", "arena", "finalized", "owed", "called", "udata", "bad"}) /\ PhaseBut(B, {})
    BY <1>13, <2>4 DEF Same, Phase
  <2> QED
    BY <1>7, <2>3, <2>4, <2>5, BooksKeepPhase DEF Phase
<1>15. CASE has(S, o, "__gc")
  <2>1. PICK c : c = [B.called EXCEPT ![o] = @ + 1]
    OBVIOUS
  <2>2. PICK C : C = [B EXCEPT !.called = c]
    OBVIOUS
  <2>3. T = push(C, o)
    BY <1>1, <1>2, <1>3, <1>4, <1>15, <2>1, <2>2 DEF GCTM
  <2>4. DOMAIN B = StateFields /\ B.udata \in Seq(Of("userdata")) /\ Range(B.udata) \cap B.free = {}
        /\ B.bad \subseteq {"barrierf outside a cycle"}
    BY <1>7 DEF WellFormed, Types
  <2>5. C.udata = B.udata /\ C.bad = B.bad /\ Same(B, C, {"called"})
    BY <2>2, <2>4 DEF StateFields, Same
  <2>6. WellFormed(C) /\ PhaseBut(C, {}) /\ live(C) = live(B)
    <3>1. Same(B, C, {"full", "arena", "finalized", "owed", "called", "udata", "bad"})
      BY <2>5 DEF Same
    <3>2. PhaseBut(B, {})
      BY <1>13 DEF Phase
    <3> QED
      BY <1>7, <2>4, <2>5, <3>1, <3>2, BooksKeepPhase
  <2>7. o \in Data /\ o \in live(C)
    BY <1>5, <1>7, <2>6 DEF Data, Value, Of
  <2> QED
    BY <2>3, <2>6, <2>7, PushKeeps DEF Phase
<1> QED
  BY <1>14, <1>15

\* The collector goes from one phase to the next.
LEMMA SweepstringEnds ==
  ASSUME NEW S, WellFormed(S), Phase(S), S.gcstate = "sweepstring", S.strings = {},
         NEW T, T = [S EXCEPT !.gcstate = "sweep"]
  PROVE  WellFormed(T) /\ Phase(T)
<1>0. DOMAIN S = StateFields
  BY DEF WellFormed, Types
<1>1. Same(S, T, {"gcstate"}) /\ T.gcstate = "sweep"
  BY <1>0 DEF StateFields, Same
<1>2. /\ T.heap = S.heap /\ T.free = S.free /\ T.marked = S.marked
      /\ T.tmudata = S.tmudata /\ T.udata = S.udata /\ T.bad = S.bad /\ T.sweep = S.sweep /\ T.strings = S.strings
  BY <1>1 DEF Same, StateFields
<1>3. WellFormed(T)
  <2>1. T.udata \in Seq(Of("userdata")) /\ Range(T.udata) \cap S.free = {} /\ T.bad \subseteq {"barrierf outside a cycle"}
    BY <1>2 DEF WellFormed, Types
  <2>2. T.gcstate \in {"pause", "propagate", "sweepstring", "sweep", "finalize"}
    BY <1>1
  <2> QED
    BY <1>1, <2>1, <2>2, BooksKeep DEF Same
<1>4. Swept(S) /\ \A u \in tofinalize(S) : ~ isgray(S, u)
  BY DEF Phase, PhaseBut
<1>5. openupvals(T) = openupvals(S)
  BY <1>2 DEF openupvals, isopen
<1>6. pending(T) = pending(S) /\ tofinalize(T) = tofinalize(S)
  BY <1>2, <1>5 DEF pending, tofinalize
<1>7. Swept(T) /\ \A u \in tofinalize(T) : ~ isgray(T, u)
  BY <1>2, <1>4, <1>6 DEF Swept, isgray
<1> QED
  BY <1>1, <1>2, <1>3, <1>7 DEF Phase, PhaseBut

\* A cycle ends when no userdata is left to finalize.
LEMMA FinalizeEnds ==
  ASSUME NEW S, WellFormed(S), Phase(S), S.gcstate = "finalize",
         NEW T, T = [S EXCEPT !.gcstate = "pause", !.full = "no"]
  PROVE  WellFormed(T) /\ Phase(T)
<1>0. DOMAIN S = StateFields
  BY DEF WellFormed, Types
<1>1. Same(S, T, {"gcstate", "full"}) /\ T.gcstate = "pause"
  BY <1>0 DEF StateFields, Same
<1>2. /\ T.heap = S.heap /\ T.free = S.free /\ T.marked = S.marked
      /\ T.tmudata = S.tmudata /\ T.udata = S.udata /\ T.bad = S.bad
  BY <1>1 DEF Same, StateFields
<1>3. WellFormed(T)
  <2>1. T.udata \in Seq(Of("userdata")) /\ Range(T.udata) \cap S.free = {} /\ T.bad \subseteq {"barrierf outside a cycle"}
    BY <1>2 DEF WellFormed, Types
  <2>2. T.gcstate \in {"pause", "propagate", "sweepstring", "sweep", "finalize"}
    BY <1>1
  <2> QED
    BY <1>1, <2>1, <2>2, BooksKeep DEF Same
<1>4. AllWhite(S) /\ \A u \in tofinalize(S) : ~ isgray(S, u)
  BY DEF Phase, PhaseBut
<1>5. AllWhite(T) /\ \A u \in tofinalize(T) : ~ isgray(T, u)
  BY <1>2, <1>4 DEF AllWhite, tofinalize, isgray
<1> QED
  BY <1>1, <1>3, <1>5 DEF Phase, PhaseBut

\* A value was stored in an object, and the barrier is still to come.
Stored(S, o, v) ==
  /\ PhaseBut(S, {o})
  /\ S.gcstate = "propagate" /\ isblack(S, o) /\ o \notin tofinalize(S) => Marked(S, fields(S, o) \ {v})

\* When the value is marked, or the object is not black, no barrier is needed.
LEMMA NoBarrier ==
  ASSUME NEW S, NEW o, NEW v, Stored(S, o, v), ~ (v \in Obj /\ iswhite(S, v) /\ isblack(S, o))
  PROVE  Phase(S)
<1>1. PhaseBut(S, {o})
  BY DEF Stored
<1>2. ASSUME S.gcstate = "propagate" PROVE Marking(S, {})
  <2>1. Marking(S, {o})
    BY <1>1, <1>2 DEF PhaseBut
  <2>2. ASSUME NEW p \in Obj \ tofinalize(S), isblack(S, p) PROVE Marked(S, fields(S, p))
    <3>1. CASE p = o
      BY <1>2, <2>2, <3>1 DEF Stored, Marked
    <3>2. CASE p # o
      BY <2>1, <2>2, <3>2 DEF Marking, Tricolour, Strong
    <3> QED
      BY <3>1, <3>2
  <2>3. Strong(S, {})
    BY <2>2 DEF Strong
  <2> QED
    BY <2>1, <2>3 DEF Marking, Tricolour
<1> QED
  BY <1>1, <1>2 DEF Phase, PhaseBut

\* Objects that are not dead are made white outside of the marking.
LEMMA WhitenKeeps ==
  ASSUME NEW S, WellFormed(S), NEW E, PhaseBut(S, E), S.gcstate # "propagate", NEW X \in SUBSET Obj,
         \A o \in X : ~ isdead(S, o), NEW T, T = makewhite(S, X)
  PROVE  WellFormed(T) /\ Phase(T)
<1>1. /\ WellFormed(T) /\ Same(S, T, {"marked"})
      /\ \A o \in Obj : T.marked[o] = IF o \in X THEN "white" ELSE S.marked[o]
  BY MakewhiteKeeps
<1>2. /\ T.heap = S.heap /\ T.free = S.free /\ T.tmudata = S.tmudata /\ T.gcstate = S.gcstate
      /\ T.sweep = S.sweep /\ T.strings = S.strings
  BY <1>1 DEF Same, StateFields
<1>3. openupvals(T) = openupvals(S)
  BY <1>2 DEF openupvals, isopen
<1>4. pending(T) = pending(S) /\ tofinalize(T) = tofinalize(S)
  BY <1>2, <1>3 DEF pending, tofinalize
<1>5. Swept(S) => Swept(T)
  BY <1>1, <1>2, <1>4 DEF Swept
<1>6. AllWhite(S) => AllWhite(T)
  BY <1>1, <1>2, <1>4 DEF AllWhite
<1>7. ASSUME NEW u \in tofinalize(T) PROVE ~ isgray(T, u)
  <2>1. u \in tofinalize(S) /\ u \in Obj
    BY <1>4, <1>7 DEF tofinalize, WellFormed, GraphIsLive, roots, live
  <2>2. ~ isgray(S, u)
    BY <2>1 DEF PhaseBut
  <2> QED
    BY <1>1, <2>1, <2>2 DEF isgray
<1> QED
  BY <1>1, <1>2, <1>5, <1>6, <1>7 DEF Phase, PhaseBut

\* The forward barrier.
LEMMA BarrierKeeps ==
  ASSUME NEW S, WellFormed(S), NEW o \in Obj, NEW v, v \in Obj => v \in live(S), Stored(S, o, v),
         NEW T, T = luaC_barrier(S, o, v)
  PROVE  WellFormed(T) /\ Phase(T)
<1>1. CASE ~ (v \in Obj /\ iswhite(S, v) /\ isblack(S, o))
  <2>1. T = S
    BY <1>1 DEF luaC_barrier
  <2> QED
    BY <1>1, <2>1, NoBarrier
<1>2. CASE v \in Obj /\ iswhite(S, v) /\ isblack(S, o)
  <2>1. v \in live(S) /\ v \notin S.free /\ ~ isdead(S, v) /\ ~ isdead(S, o)
    BY <1>2 DEF live, isdead, isblack
  <2>2. PhaseBut(S, {o}) /\ DOMAIN S = StateFields
    BY DEF Stored, WellFormed, Types
  <2>3. PICK s : s = lua_assert(S, S.gcstate \notin {"finalize", "pause"}, "barrierf outside a cycle")
    OBVIOUS
  <2>4. T = IF S.gcstate = "propagate" THEN reallymarkobject(s, {v}) ELSE makewhite(s, {o})
    BY <1>2, <2>1, <2>3 DEF luaC_barrier, luaC_barrierf, lua_assert
  <2>5. CASE S.gcstate = "propagate"
    <3>1. s = S
      BY <2>3, <2>5 DEF lua_assert
    <3>2. PICK E : E = {o}
      OBVIOUS
    <3>3. PICK objs : objs = {v}
      OBVIOUS
    <3>4. Marking(S, E)
      BY <2>2, <2>5, <3>2 DEF PhaseBut
    <3>5. Tricolour(S, E) /\ objs \in SUBSET (Obj \ S.free) /\ \A p \in objs : iswhite(S, p)
      BY <1>2, <2>1, <3>3, <3>4 DEF Marking
    <3>6. T = reallymarkobject(S, objs)
      BY <2>4, <2>5, <3>1, <3>3
    <3>7. Recoloured(S, T, E) /\ Marked(T, objs)
      BY <3>5, <3>6, MarkingKeeps
    <3>8. WellFormed(T) /\ Marking(T, E)
      BY <3>4, <3>7, RecolouredKeeps
    <3>9. \A X : Marked(S, X) => Marked(T, X)
      BY <3>7, RecolouredGrows
    <3>10. T.heap = S.heap /\ T.tmudata = S.tmudata /\ T.gcstate = S.gcstate
      BY <3>7 DEF Recoloured, Same, StateFields
    <3>11. fields(T, o) = fields(S, o) /\ tofinalize(T) = tofinalize(S)
      BY <3>10 DEF fields, tofinalize
    <3>12. o \notin tofinalize(S) => Marked(T, fields(S, o) \ {v})
      BY <1>2, <2>5, <3>9 DEF Stored
    <3>13. Marked(T, {v})
      BY <3>3, <3>7
    <3>14. Stored(T, o, v)
      <4>1. \A u \in tofinalize(T) : ~ isgray(T, u)
        BY <3>8, NoGrayUserdata DEF Marking, Tricolour
      <4> QED
        BY <2>5, <3>2, <3>8, <3>10, <3>11, <3>12, <4>1 DEF Stored, PhaseBut
    <3>15. ~ iswhite(T, v)
      BY <1>2, <3>13 DEF Marked
    <3> QED
      BY <3>8, <3>14, <3>15, NoBarrier
  <2>6. CASE S.gcstate # "propagate"
    <3>1. Same(S, s, {"bad"}) /\ s.bad \subseteq S.bad \cup {"barrierf outside a cycle"}
      BY <2>2, <2>3 DEF lua_assert, Same, StateFields
    <3>2. s.udata = S.udata /\ s.gcstate = S.gcstate /\ s.marked = S.marked
      BY <3>1 DEF Same, StateFields
    <3>3. PICK E : E = {o}
      OBVIOUS
    <3>4. WellFormed(s) /\ PhaseBut(s, E)
      <4>1. s.udata \in Seq(Of("userdata")) /\ Range(s.udata) \cap S.free = {} /\ s.bad \subseteq {"barrierf outside a cycle"}
        BY <3>1, <3>2 DEF WellFormed, Types
      <4>2. Same(S, s, {"full", "arena", "finalized", "owed", "called", "udata", "bad"})
        BY <3>1 DEF Same
      <4>3. PhaseBut(S, E)
        BY <2>2, <3>3
      <4> QED
        BY <4>1, <4>2, <4>3, BooksKeepPhase
    <3>5. PICK X : X = {o}
      OBVIOUS
    <3>6. X \in SUBSET Obj /\ \A p \in X : ~ isdead(s, p)
      BY <2>1, <3>2, <3>5 DEF isdead
    <3>7. T = makewhite(s, X)
      BY <2>4, <2>6, <3>5
    <3> QED
      BY <2>6, <3>2, <3>4, <3>6, <3>7, WhitenKeeps
  <2> QED
    BY <2>5, <2>6
<1> QED
  BY <1>1, <1>2

\* The backward barrier.
LEMMA BarriertKeeps ==
  ASSUME NEW S, WellFormed(S), NEW t \in Of("table"), t \notin S.free, NEW v, Stored(S, t, v),
         NEW T, T = luaC_barriert(S, t, v)
  PROVE  /\ WellFormed(T) /\ Phase(T) /\ Same(S, T, {"marked", "grayagain"}) /\ live(T) = live(S)
         /\ isblack(T, t) => ~ (v \in Obj /\ iswhite(T, v))
<1>1. CASE ~ (v \in Obj /\ iswhite(S, v) /\ isblack(S, t))
  <2>1. T = S
    BY <1>1 DEF luaC_barriert
  <2> QED
    BY <1>1, <2>1, NoBarrier DEF Same
<1>2. CASE v \in Obj /\ iswhite(S, v) /\ isblack(S, t)
  <2>0. t \in Obj /\ Kind[t] = "table"
    BY DEF Of
  <2>1. PhaseBut(S, {t}) /\ DOMAIN S = StateFields /\ S.marked \in [Obj -> Colours] /\ "gray" \in Colours
    BY DEF Stored, WellFormed, Types, Colours
  <2>2. t \notin tofinalize(S)
    <3>1. S.tmudata \in Seq(Of("userdata"))
      BY DEF WellFormed, Types
    <3> QED
      BY <2>0, <3>1 DEF tofinalize, Range, Of
  <2>3. S.gcstate \notin {"finalize", "pause"}
    BY <1>2, <2>0, <2>1, <2>2 DEF PhaseBut, AllWhite, isblack
  <2>4. S.gcstate = "propagate" => t \notin S.gray \cup S.grayagain \cup S.weak
    BY <1>2, <2>1 DEF PhaseBut, Marking, Tricolour, ListedIsGray, isblack, isgray
  <2>5. PICK m : m = [S.marked EXCEPT ![t] = "gray"]
    OBVIOUS
  <2>6. PICK ga : ga = S.grayagain \cup {t}
    OBVIOUS
  <2>7. T = [S EXCEPT !.marked = m, !.grayagain = ga]
    BY <1>2, <2>3, <2>4, <2>5, <2>6 DEF luaC_barriert, luaC_barrierback, lua_assert
  <2>8. T.marked = m /\ T.grayagain = ga
    BY <2>1, <2>7 DEF StateFields
  <2>9. Same(S, T, {"marked", "grayagain"})
    BY <2>1, <2>7 DEF StateFields, Same
  <2>10. m \in [Obj -> Colours] /\ \A o \in Obj : m[o] = IF o = t THEN "gray" ELSE S.marked[o]
    BY <2>0, <2>1, <2>5
  <2>11. /\ T.heap = S.heap /\ T.free = S.free /\ T.L = S.L /\ T.callers = S.callers /\ T.tmudata = S.tmudata
         /\ T.udata = S.udata /\ T.gcstate = S.gcstate /\ T.bad = S.bad /\ DOMAIN T = DOMAIN S
         /\ T.sweep = S.sweep /\ T.strings = S.strings /\ T.gray = S.gray /\ T.weak = S.weak
    BY <2>9 DEF Same, StateFields
  <2>12. Types(T)
    <3>1. ASSUME NEW o \in S.free PROVE T.marked[o] = "white"
      <4>1. o \in Obj /\ S.marked[o] = "white"
        BY DEF WellFormed, Types
      <4> QED
        BY <2>8, <2>10, <4>1
    <3> QED
      BY <2>8, <2>10, <2>11, <3>1 DEF WellFormed, Types
  <2>13. live(T) = live(S)
    BY <1>2, <2>8, <2>10, <2>11 DEF live, isdead, isblack
  <2>14. Shapes(T) /\ GraphIsLive(T) /\ OpenUpvals(T) /\ Chain(T)
    BY <2>11, <2>13, SameGraph
  <2>15. NeverBlack(T)
    BY <2>8, <2>10, <2>11 DEF WellFormed, NeverBlack, isblack, isopen
  <2>16. openupvals(T) = openupvals(S)
    BY <2>11 DEF openupvals, isopen
  <2>17. pending(T) = pending(S) /\ tofinalize(T) = tofinalize(S)
    BY <2>11, <2>16 DEF pending, tofinalize
  <2>18. Swept(S) => Swept(T)
    BY <1>2, <2>8, <2>10, <2>11, <2>17 DEF Swept, isblack
  <2>19. ASSUME NEW u \in tofinalize(T) PROVE ~ isgray(T, u)
    <3>1. u \in tofinalize(S) /\ u \in Obj /\ u # t
      BY <2>2, <2>17, <2>19 DEF tofinalize, WellFormed, GraphIsLive, roots, live
    <3>2. ~ isgray(S, u)
      BY <2>1, <3>1 DEF PhaseBut
    <3> QED
      BY <2>8, <2>10, <3>1, <3>2 DEF isgray
  <2>20. ASSUME S.gcstate = "propagate" PROVE Marking(T, {})
    <3>1. Marking(S, {t})
      BY <2>1, <2>20 DEF PhaseBut
    <3>2. \A X : Marked(S, X) => Marked(T, X)
      BY <2>8, <2>10 DEF Marked, iswhite
    <3>3. NoneDead(T) /\ Marked(T, {MainThread, Registry})
      BY <2>8, <2>10, <3>1, <3>2 DEF Marking, Tricolour, NoneDead, isdead
    <3>4. Strong(T, {})
      <4>1. ASSUME NEW o \in Obj \ tofinalize(T), isblack(T, o) PROVE Marked(T, fields(T, o))
        <5>1. o # t /\ isblack(S, o) /\ o \notin tofinalize(S)
          BY <2>8, <2>10, <2>17, <4>1 DEF isblack
        <5>2. Marked(S, fields(S, o))
          BY <3>1, <5>1 DEF Marking, Tricolour, Strong
        <5>3. fields(T, o) = fields(S, o)
          BY <2>11 DEF fields
        <5> QED
          BY <3>2, <5>2, <5>3
      <4> QED
        BY <4>1 DEF Strong
    <3>5. GrayIsListed(T)
      <4>1. ASSUME NEW o \in Obj, isgray(T, o)
            PROVE  /\ Kind[o] # "userdata"
                   /\ Kind[o] = "upval" => isopen(T, o)
                   /\ Kind[o] \in traversed => o \in T.gray \cup T.grayagain \cup T.weak
        <5>1. CASE o = t
          BY <2>0, <2>6, <2>8, <5>1
        <5>2. CASE o # t
          <6>1. isgray(S, o)
            BY <2>8, <2>10, <4>1, <5>2 DEF isgray
          <6> QED
            BY <2>6, <2>8, <2>11, <3>1, <6>1 DEF Marking, Tricolour, GrayIsListed, isopen
        <5> QED
          BY <5>1, <5>2
      <4> QED
        BY <4>1 DEF GrayIsListed
    <3>6. ListedIsGray(T)
      <4>1. ListedIsGray(S)
        BY <3>1 DEF Marking, Tricolour
      <4>2. ASSUME NEW o \in T.gray \cup T.grayagain \cup T.weak PROVE o \in Obj /\ isgray(T, o) /\ Kind[o] \in traversed
        <5>1. CASE o = t
          BY <2>0, <2>8, <2>10, <5>1 DEF isgray, traversed
        <5>2. CASE o # t
          BY <2>6, <2>8, <2>10, <2>11, <4>1, <4>2, <5>2 DEF ListedIsGray, isgray
        <5> QED
          BY <5>1, <5>2
      <4> QED
        BY <2>4, <2>6, <2>8, <2>11, <2>20, <4>1, <4>2 DEF ListedIsGray
    <3> QED
      BY <3>3, <3>4, <3>5, <3>6 DEF Marking, Tricolour
  <2>21. Phase(T)
    BY <2>1, <2>3, <2>11, <2>18, <2>19, <2>20 DEF Phase, PhaseBut
  <2>22. ~ isblack(T, t)
    BY <2>0, <2>8, <2>10 DEF isblack
  <2> QED
    BY <2>9, <2>12, <2>13, <2>14, <2>15, <2>21, <2>22 DEF WellFormed
<1> QED
  BY <1>1, <1>2

\* The entries of an object that are in use, and what it has with them.
entriesOf(x) == LET inuse == {k \in DOMAIN x.node : x.node[k] # None} IN inuse \cup {x.node[k] : k \in inuse}
fieldsOf(x) == {x.mt, x.env, x.v} \cup x.refs \cup DOMAIN x.node \cup {x.node[k] : k \in DOMAIN x.node}
\* An object in use gets some fields and keeps its stack and its place.
Rewrites(S, o, y, N) ==
  /\ Shaped(y, Kind[o]) /\ y.at = S.heap[o].at /\ y.stack = S.heap[o].stack
  /\ N \cap Obj \subseteq live(S)
  /\ {y.mt, y.env, y.v} \cup y.refs \subseteq {S.heap[o].mt, S.heap[o].env, S.heap[o].v} \cup S.heap[o].refs \cup N
  /\ entriesOf(y) \subseteq entriesOf(S.heap[o]) \cup N
  /\ fieldsOf(y) \subseteq fieldsOf(S.heap[o]) \cup N

\* An object gets fields, all marked but one value.
LEMMA RewriteKeeps ==
  ASSUME NEW S, WellFormed(S), Phase(S), NEW o \in live(S), NEW y, NEW N, Rewrites(S, o, y, N),
         NEW v, isblack(S, o) => Marked(S, fieldsOf(y) \ (fieldsOf(S.heap[o]) \cup {v})), NEW T, T = [S EXCEPT !.heap[o] = y]
  PROVE  WellFormed(T) /\ Stored(T, o, v) /\ live(T) = live(S) /\ T.free = S.free
<1>0. o \in Obj /\ o \notin S.free /\ DOMAIN S = StateFields /\ DOMAIN S.heap = Obj
  BY DEF live, WellFormed, Types
<1>1. PICK h : h = [S.heap EXCEPT ![o] = y]
  OBVIOUS
<1>2. T = [S EXCEPT !.heap = h]
  BY <1>1
<1>3. T.heap = h /\ Same(S, T, {"heap"})
  BY <1>0, <1>2 DEF StateFields, Same
<1>4. T.heap[o] = y /\ DOMAIN T.heap = Obj /\ \A p \in Obj \ {o} : T.heap[p] = S.heap[p]
  BY <1>0, <1>1, <1>3
<1>5. T.free = S.free /\ T.marked = S.marked /\ T.gcstate = S.gcstate /\ T.tmudata = S.tmudata
  BY <1>3 DEF Same, StateFields
<1>6. referred(S, o) \cap Obj \subseteq live(S)
  BY DEF WellFormed, GraphIsLive
<1>7. referred(T, o) \cap Obj \subseteq live(S) \cup {o}
  <2>1. {y.mt, y.env, y.v} \cup y.refs \subseteq referred(S, o) \cup N
    BY DEF Rewrites, referred
  <2>2. Range(y.stack) \subseteq referred(S, o)
    BY DEF Rewrites, referred
  <2>3. entriesOf(y) \subseteq referred(S, o) \cup N
    BY DEF Rewrites, referred, entriesOf, keys
  <2>4. keys(T, o) \cup {T.heap[o].node[k] : k \in keys(T, o)} \subseteq entriesOf(y)
    BY <1>4 DEF entriesOf, keys
  <2>5. ASSUME isopen(T, o) PROVE uvalue(T, o) \in referred(S, o)
    <3>1. isopen(S, o) /\ y.at = S.heap[o].at
      BY <1>4, <2>5 DEF isopen, Rewrites
    <3>2. Shaped(S.heap[o], Kind[o])
      BY <1>0 DEF WellFormed, Shapes
    <3>3. Kind[o] = "upval" /\ S.heap[o].at[1] \in Of("thread")
      BY <3>1, <3>2 DEF Shaped, isopen
    <3>4. S.heap[o].at[1] \in Obj \ {o}
      BY <3>3 DEF Of
    <3>5. uvalue(T, o) = uvalue(S, o)
      BY <1>4, <2>5, <3>1, <3>4 DEF uvalue
    <3> QED
      BY <3>1, <3>5 DEF referred
  <2>6. referred(T, o) \subseteq referred(S, o) \cup N
    BY <1>4, <2>1, <2>2, <2>3, <2>4, <2>5 DEF referred
  <2> QED
    BY <1>6, <2>6 DEF Rewrites
<1>8. ASSUME NEW u \in openupvals(S), S.heap[u].at[1] = o
      PROVE  /\ S.heap[u].at[2] \in 1..Len(y.stack)
             /\ y.stack[S.heap[u].at[2]] = S.heap[o].stack[S.heap[u].at[2]]
  BY <1>0, <1>8, OpenSlots DEF Rewrites
<1>9. Changed(S, T, o)
  BY Zenon, <1>0, <1>3, <1>4, <1>5, <1>7, <1>8 DEF Changed, Same, Rewrites
<1>10. WellFormed(T) /\ live(T) = live(S) /\ PhaseBut(T, {o})
  <2>1. WellFormed(T) /\ live(T) = live(S) \cup ({o} \cap S.free) /\ PhaseBut(T, {o})
    BY <1>0, <1>9, ChangedKeeps
  <2> QED
    BY <1>0, <2>1
<1>11. ASSUME T.gcstate = "propagate", isblack(T, o), o \notin tofinalize(T) PROVE Marked(T, fields(T, o) \ {v})
  <2>1. S.gcstate = "propagate" /\ isblack(S, o) /\ o \notin tofinalize(S)
    BY <1>5, <1>11 DEF isblack, tofinalize
  <2>2. Marked(S, fields(S, o))
    BY <1>0, <2>1 DEF Phase, PhaseBut, Marking, Tricolour, Strong
  <2>3. fields(S, o) = fieldsOf(S.heap[o]) /\ fields(T, o) = fieldsOf(y)
    BY <1>4 DEF fields, fieldsOf
  <2>4. Marked(S, fieldsOf(y) \ (fieldsOf(S.heap[o]) \cup {v}))
    BY <2>1
  <2> QED
    BY <1>5, <2>2, <2>3, <2>4 DEF Marked, iswhite
<1> QED
  BY <1>5, <1>10, <1>11 DEF Stored

\* The same when what it may get is one value.
LEMMA StoreKeeps ==
  ASSUME NEW S, WellFormed(S), Phase(S), NEW o \in live(S), NEW y, NEW N, Rewrites(S, o, y, N),
         NEW v, Marked(S, N \ {v}), NEW T, T = [S EXCEPT !.heap[o] = y]
  PROVE  WellFormed(T) /\ Stored(T, o, v) /\ live(T) = live(S) /\ T.free = S.free
<1>1. Marked(S, fieldsOf(y) \ (fieldsOf(S.heap[o]) \cup {v}))
  BY DEF Rewrites, Marked
<1> QED
  BY <1>1, RewriteKeeps

\* The parser adds a constant to a prototype.
LEMMA AddConstantKeeps ==
  ASSUME WellFormed(g), Phase(g), AddConstant
  PROVE  WellFormed(g') /\ Phase(g')
<1>1. PICK p \in onstack(g) \cap Of("proto"), s \in onstack(g) \cap Of("string") :
        g' = luaC_barrier([g EXCEPT !.heap[p].refs = @ \cup {s}], p, s)
  BY DEF AddConstant
<1>2. p \in live(g) /\ p \in Obj /\ Kind[p] = "proto" /\ s \in live(g) /\ s \in Obj
  BY StackValues DEF Of
<1>3. Shaped(g.heap[p], "proto")
  BY <1>2 DEF WellFormed, Shapes
<1>4. PICK r : r = g.heap[p].refs \cup {s}
  OBVIOUS
<1>5. PICK y : y = [g.heap[p] EXCEPT !.refs = r]
  OBVIOUS
<1>6. PICK A : A = [g EXCEPT !.heap[p] = y]
  OBVIOUS
<1>7. g' = luaC_barrier(A, p, s)
  BY <1>1, <1>4, <1>5, <1>6
<1>8. DOMAIN y = ObjectFields /\ y.refs = r /\ \A f \in ObjectFields \ {"refs"} : y[f] = g.heap[p][f]
  BY <1>3, <1>5 DEF Shaped, ObjectFields
<1>9. /\ y.mt = g.heap[p].mt /\ y.env = g.heap[p].env /\ y.node = g.heap[p].node /\ y.v = g.heap[p].v
      /\ y.at = g.heap[p].at /\ y.stack = g.heap[p].stack
  BY <1>8 DEF ObjectFields
<1>10. PICK N : N = {s}
  OBVIOUS
<1>11. Rewrites(g, p, y, N)
  <2>1. Shaped(y, Kind[p])
    BY <1>2, <1>3, <1>4, <1>8, <1>9 DEF Shaped
  <2>2. entriesOf(y) = entriesOf(g.heap[p])
    BY <1>9 DEF entriesOf
  <2>3. fieldsOf(y) \subseteq fieldsOf(g.heap[p]) \cup N
    BY <1>4, <1>8, <1>9, <1>10 DEF fieldsOf
  <2> QED
    BY <1>2, <1>4, <1>8, <1>9, <1>10, <2>1, <2>2, <2>3 DEF Rewrites
<1>12. WellFormed(A) /\ Stored(A, p, s) /\ live(A) = live(g)
  <2>1. Marked(g, N \ {s})
    BY <1>10 DEF Marked
  <2> QED
    BY <1>2, <1>6, <1>11, <2>1, StoreKeeps
<1> QED
  BY <1>2, <1>7, <1>12, BarrierKeeps

\* A metatable or an environment is set.
LEMMA StoreFieldKeeps ==
  ASSUME NEW S, WellFormed(S), Phase(S), NEW o \in live(S), NEW v, v \in Of("table") \cup {None},
         v \in Obj => v \in live(S), NEW A,
         \/ Kind[o] \in {"table", "userdata"} /\ A = [S EXCEPT !.heap[o].mt = v]
         \/ Kind[o] \in {"userdata", "function", "thread"} /\ A = [S EXCEPT !.heap[o].env = v]
  PROVE  WellFormed(A) /\ Stored(A, o, v) /\ live(A) = live(S) /\ A.free = S.free
<1>1. o \in Obj
  BY DEF live
<1>2. Shaped(S.heap[o], Kind[o])
  BY <1>1 DEF WellFormed, Shapes
<1>3. PICK y : \/ Kind[o] \in {"table", "userdata"} /\ y = [S.heap[o] EXCEPT !.mt = v] /\ A = [S EXCEPT !.heap[o] = y]
               \/ Kind[o] \in {"userdata", "function", "thread"} /\ y = [S.heap[o] EXCEPT !.env = v] /\ A = [S EXCEPT !.heap[o] = y]
  <2>1. PICK y1 : y1 = [S.heap[o] EXCEPT !.mt = v]
    OBVIOUS
  <2>2. PICK y2 : y2 = [S.heap[o] EXCEPT !.env = v]
    OBVIOUS
  <2>3. A = [S EXCEPT !.heap[o].mt = v] => A = [S EXCEPT !.heap[o] = y1]
    BY <2>1
  <2>4. A = [S EXCEPT !.heap[o].env = v] => A = [S EXCEPT !.heap[o] = y2]
    BY <2>2
  <2> QED
    BY <2>1, <2>2, <2>3, <2>4
<1>4. /\ DOMAIN y = ObjectFields /\ y.mt \in {S.heap[o].mt, v} /\ y.env \in {S.heap[o].env, v}
      /\ y.mt # S.heap[o].mt => Kind[o] \in {"table", "userdata"}
      /\ y.env # S.heap[o].env => Kind[o] \in {"userdata", "function", "thread"}
      /\ \A f \in ObjectFields \ {"mt", "env"} : y[f] = S.heap[o][f]
  <2>1. DOMAIN S.heap[o] = ObjectFields
    BY <1>2 DEF Shaped
  <2>2. CASE Kind[o] \in {"table", "userdata"} /\ y = [S.heap[o] EXCEPT !.mt = v]
    <3>1. DOMAIN y = ObjectFields /\ y.mt = v /\ \A f \in ObjectFields \ {"mt"} : y[f] = S.heap[o][f]
      BY <2>1, <2>2 DEF ObjectFields
    <3> QED
      BY <2>2, <3>1 DEF ObjectFields
  <2>3. CASE Kind[o] \in {"userdata", "function", "thread"} /\ y = [S.heap[o] EXCEPT !.env = v]
    <3>1. DOMAIN y = ObjectFields /\ y.env = v /\ \A f \in ObjectFields \ {"env"} : y[f] = S.heap[o][f]
      BY <2>1, <2>3 DEF ObjectFields
    <3> QED
      BY <2>3, <3>1 DEF ObjectFields
  <2> QED
    BY <1>3, <2>2, <2>3
<1>5. /\ y.refs = S.heap[o].refs /\ y.node = S.heap[o].node /\ y.v = S.heap[o].v
      /\ y.at = S.heap[o].at /\ y.stack = S.heap[o].stack
  BY <1>4 DEF ObjectFields
<1>6. PICK N : N = {v}
  OBVIOUS
<1>7. Rewrites(S, o, y, N)
  <2>1. Shaped(y, Kind[o])
    <3>1. {y.mt, y.env} \subseteq Of("table") \cup {None}
      BY <1>2, <1>4 DEF Shaped
    <3>2. /\ Kind[o] \in {"table", "userdata"} \/ y.mt = None
          /\ Kind[o] \in {"userdata", "function", "thread"} \/ y.env = None
      BY <1>2, <1>4 DEF Shaped
    <3> QED
      BY <1>2, <1>4, <1>5, <3>1, <3>2 DEF Shaped
  <2>2. entriesOf(y) = entriesOf(S.heap[o])
    BY <1>5 DEF entriesOf
  <2>3. fieldsOf(y) \subseteq fieldsOf(S.heap[o]) \cup N
    BY <1>4, <1>5, <1>6 DEF fieldsOf
  <2> QED
    BY <1>4, <1>5, <1>6, <2>1, <2>2, <2>3 DEF Rewrites
<1>8. A = [S EXCEPT !.heap[o] = y]
  BY <1>3
<1>9. Marked(S, N \ {v})
  BY <1>6 DEF Marked
<1> QED
  BY <1>7, <1>8, <1>9, StoreKeeps

\* A table or a userdata gets a metatable.
LEMMA SetmetatableKeeps ==
  ASSUME WellFormed(g), Phase(g), lua_setmetatable
  PROVE  WellFormed(g') /\ Phase(g')
<1>1. PICK o \in onstack(g) \cap (Of("table") \cup Of("userdata")), mt \in (onstack(g) \cap Of("table")) \cup {None} :
        LET s == [g EXCEPT !.heap[o].mt = mt]
        IN g' = IF Kind[o] = "table" THEN luaC_barriert(s, o, mt) ELSE luaC_barrier(s, o, mt)
  BY DEF lua_setmetatable
<1>2. PICK A : A = [g EXCEPT !.heap[o].mt = mt]
  OBVIOUS
<1>3. g' = IF Kind[o] = "table" THEN luaC_barriert(A, o, mt) ELSE luaC_barrier(A, o, mt)
  BY <1>1, <1>2
<1>4. o \in live(g) /\ o \in Obj /\ Kind[o] \in {"table", "userdata"}
  BY StackValues DEF Of
<1>5. mt \in Of("table") \cup {None} /\ (mt \in Obj => mt \in live(g))
  BY StackValues, TypesAssumption
<1>6. WellFormed(A) /\ Stored(A, o, mt) /\ live(A) = live(g) /\ A.free = g.free
  BY <1>2, <1>4, <1>5, StoreFieldKeeps
<1>7. CASE Kind[o] = "table"
  <2>1. o \in Of("table") /\ o \notin A.free /\ g' = luaC_barriert(A, o, mt)
    BY <1>3, <1>4, <1>6, <1>7 DEF Of, live
  <2> QED
    BY <1>6, <2>1, BarriertKeeps
<1>8. CASE Kind[o] # "table"
  <2>1. g' = luaC_barrier(A, o, mt) /\ (mt \in Obj => mt \in live(A))
    BY <1>3, <1>5, <1>6, <1>8
  <2> QED
    BY <1>4, <1>6, <2>1, BarrierKeeps
<1> QED
  BY <1>7, <1>8

\* A function, a userdata or a thread gets an environment.
LEMMA SetfenvKeeps ==
  ASSUME WellFormed(g), Phase(g), lua_setfenv
  PROVE  WellFormed(g') /\ Phase(g')
<1>1. PICK o \in onstack(g) \cap UNION {Of("function"), Of("userdata"), Of("thread")}, t \in onstack(g) \cap Of("table") :
        g' = luaC_barrier([g EXCEPT !.heap[o].env = t], o, t)
  BY DEF lua_setfenv
<1>2. PICK A : A = [g EXCEPT !.heap[o].env = t]
  OBVIOUS
<1>3. o \in live(g) /\ o \in Obj /\ Kind[o] \in {"userdata", "function", "thread"}
  BY StackValues DEF Of
<1>4. t \in Of("table") \cup {None} /\ (t \in Obj => t \in live(g))
  BY StackValues
<1>5. WellFormed(A) /\ Stored(A, o, t) /\ live(A) = live(g) /\ A.free = g.free
  BY <1>2, <1>3, <1>4, StoreFieldKeeps
<1>6. g' = luaC_barrier(A, o, t) /\ (t \in Obj => t \in live(A))
  BY <1>1, <1>2, <1>4, <1>5
<1> QED
  BY <1>3, <1>5, <1>6, BarrierKeeps

\* A captured variable is assigned, open or closed.
LEMMA SetupvalKeeps ==
  ASSUME WellFormed(g), Phase(g), Setupval
  PROVE  WellFormed(g') /\ Phase(g')
<1>1. PICK v : v = Last(stack(g))
  OBVIOUS
<1>a. PICK f \in onstack(g) \cap Of("function") : \E u \in g.heap[f].refs \cap Of("upval") :
        LET at == g.heap[u].at
        IN g' = luaC_barrier(IF isopen(g, u) THEN [g EXCEPT !.heap[at[1]].stack[at[2]] = v]
                             ELSE [g EXCEPT !.heap[u].v = v], u, v)
  BY Zenon, <1>1 DEF Setupval
<1>2. PICK u \in g.heap[f].refs \cap Of("upval") :
        LET at == g.heap[u].at
        IN g' = luaC_barrier(IF isopen(g, u) THEN [g EXCEPT !.heap[at[1]].stack[at[2]] = v]
                             ELSE [g EXCEPT !.heap[u].v = v], u, v)
  BY Zenon, <1>a
<1>3. stack(g) # <<>>
  BY DEF Setupval
<1>4. v \in Data /\ (v \in Obj => v \in live(g))
  <2>1. stack(g) \in Seq(Data) /\ Range(stack(g)) \cap Obj \subseteq live(g)
    BY RunningIsNoCaller
  <2>2. v = stack(g)[Len(stack(g))] /\ Len(stack(g)) \in DOMAIN stack(g)
    BY <1>1, <1>3, <2>1 DEF Last
  <2> QED
    BY <2>1, <2>2 DEF Range
<1>5. u \in Obj /\ Kind[u] = "upval" /\ u \in live(g) /\ u \notin g.free
  <2>1. f \in live(g)
    BY StackValues
  <2>2. u \in Obj /\ Kind[u] = "upval" /\ u \in referred(g, f)
    BY DEF Of, referred
  <2> QED
    BY <2>1, <2>2 DEF WellFormed, GraphIsLive, live
<1>6. Shaped(g.heap[u], "upval")
  BY <1>5 DEF WellFormed, Shapes
<1>7. CASE isopen(g, u)
  <2>1. PICK th : th = g.heap[u].at[1]
    OBVIOUS
  <2>2. PICK n : n = g.heap[u].at[2]
    OBVIOUS
  <2>3. PICK A : A = [g EXCEPT !.heap[th].stack[n] = v]
    OBVIOUS
  <2>4. g' = luaC_barrier(A, u, v)
    BY <1>2, <1>7, <2>1, <2>2, <2>3
  <2>5. g.heap[u].at = <<th, n>> /\ th \in Of("thread")
    BY <1>6, <1>7, <2>1, <2>2 DEF Shaped, isopen
  <2>6. u \in openupvals(g)
    BY <1>5, <1>7 DEF openupvals, Of
  <2>7. th \notin g.free /\ n \in 1..Len(g.heap[th].stack)
    BY <2>1, <2>2, <2>6 DEF WellFormed, OpenUpvals
  <2>8. th \in Range(g.callers) => n # Len(g.heap[th].stack)
    <3>1. ASSUME NEW i \in DOMAIN g.callers, g.callers[i] = th, n = Len(g.heap[th].stack) PROVE FALSE
      <4>1. Waits(g, i)
        BY DEF WellFormed, Chain
      <4>2. captures(g, th, n) = {}
        BY <3>1, <4>1 DEF Waits
      <4> QED
        BY <2>5, <2>6, <4>2 DEF captures
    <3> QED
      BY <3>1 DEF Range
  <2>9. WellFormed(A) /\ Phase(A)
    BY <1>4, <2>3, <2>5, <2>7, <2>8, AssignKeeps
  <2>10. A.marked = g.marked
    <3>1. DOMAIN g = StateFields
      BY DEF WellFormed, Types
    <3>2. PICK h : h = [g.heap EXCEPT ![th].stack[n] = v]
      OBVIOUS
    <3>3. A = [g EXCEPT !.heap = h]
      BY <2>3, <3>2
    <3> QED
      BY <3>1, <3>3 DEF StateFields
  <2>11. ~ isblack(A, u)
    BY <1>5, <1>7, <2>10 DEF WellFormed, NeverBlack, isblack
  <2>12. g' = A
    BY <2>4, <2>11 DEF luaC_barrier
  <2> QED
    BY <2>9, <2>12
<1>8. CASE ~ isopen(g, u)
  <2>1. PICK y : y = [g.heap[u] EXCEPT !.v = v]
    OBVIOUS
  <2>2. PICK A : A = [g EXCEPT !.heap[u] = y]
    OBVIOUS
  <2>3. g' = luaC_barrier(A, u, v)
    BY <1>2, <1>8, <2>1, <2>2
  <2>4. DOMAIN y = ObjectFields /\ y.v = v /\ \A d \in ObjectFields \ {"v"} : y[d] = g.heap[u][d]
    BY <1>6, <2>1 DEF Shaped, ObjectFields
  <2>5. /\ y.mt = g.heap[u].mt /\ y.env = g.heap[u].env /\ y.node = g.heap[u].node /\ y.refs = g.heap[u].refs
        /\ y.at = g.heap[u].at /\ y.stack = g.heap[u].stack
    BY <2>4 DEF ObjectFields
  <2>6. PICK N : N = {v}
    OBVIOUS
  <2>7. Rewrites(g, u, y, N)
    <3>1. y.at = <<>>
      BY <1>8, <2>5 DEF isopen
    <3>2. Shaped(y, Kind[u])
      BY <1>4, <1>5, <1>6, <2>4, <2>5, <3>1 DEF Shaped
    <3>3. entriesOf(y) = entriesOf(g.heap[u])
      BY <2>5 DEF entriesOf
    <3>4. fieldsOf(y) \subseteq fieldsOf(g.heap[u]) \cup N
      BY <2>4, <2>5, <2>6 DEF fieldsOf
    <3> QED
      BY <1>4, <2>4, <2>5, <2>6, <3>2, <3>3, <3>4 DEF Rewrites
  <2>8. WellFormed(A) /\ Stored(A, u, v) /\ live(A) = live(g)
    <3>1. Marked(g, N \ {v})
      BY <2>6 DEF Marked
    <3> QED
      BY <1>5, <2>2, <2>7, <3>1, StoreKeeps
  <2> QED
    BY <1>4, <1>5, <2>3, <2>8, BarrierKeeps
<1> QED
  BY <1>7, <1>8

\* A table gets a node, or the value of a node, when its key is marked or it is not black.
LEMMA SetnodeKeeps ==
  ASSUME NEW S, WellFormed(S), Phase(S), NEW t \in live(S), Kind[t] = "table",
         NEW k \in Data, k \in Obj => k \in live(S), NEW v \in Data, v \in Obj => v \in live(S),
         isblack(S, t) => k \in DOMAIN S.heap[t].node \/ ~ (k \in Obj /\ iswhite(S, k)),
         NEW D, D \subseteq DOMAIN S.heap[t].node \cup {k},
         NEW node, node = [x \in D |-> IF x = k THEN v ELSE S.heap[t].node[x]],
         NEW T, T = [S EXCEPT !.heap[t].node = node]
  PROVE  WellFormed(T) /\ Stored(T, t, v) /\ live(T) = live(S) /\ T.free = S.free
<1>1. t \in Obj
  BY DEF live
<1>2. Shaped(S.heap[t], "table")
  BY <1>1 DEF WellFormed, Shapes
<1>3. PICK old : old = S.heap[t].node
  OBVIOUS
<1>4. node = [x \in D |-> IF x = k THEN v ELSE old[x]]
  BY <1>3
<1>5. PICK y : y = [S.heap[t] EXCEPT !.node = node]
  OBVIOUS
<1>6. T = [S EXCEPT !.heap[t] = y]
  BY <1>5
<1>7. DOMAIN y = ObjectFields /\ y.node = node /\ \A f \in ObjectFields \ {"node"} : y[f] = S.heap[t][f]
  BY <1>2, <1>5 DEF Shaped, ObjectFields
<1>8. /\ y.mt = S.heap[t].mt /\ y.env = S.heap[t].env /\ y.v = S.heap[t].v /\ y.refs = S.heap[t].refs
      /\ y.at = S.heap[t].at /\ y.stack = S.heap[t].stack
  BY <1>7 DEF ObjectFields
<1>9. DOMAIN node = D /\ \A x \in D : node[x] = IF x = k THEN v ELSE old[x]
  BY <1>4
<1>10. D \subseteq DOMAIN old \cup {k}
  BY <1>3
<1>12. PICK M : M = {k, v}
  OBVIOUS
<1>13. Shaped(y, Kind[t])
  <2>1. \A x \in DOMAIN old : x \in Data /\ old[x] \in Data
    BY <1>2, <1>3 DEF Shaped
  <2>2. ASSUME NEW x \in DOMAIN y.node PROVE x \in Data /\ y.node[x] \in Data
    BY <1>7, <1>9, <1>10, <2>1, <2>2
  <2> QED
    BY <1>2, <1>7, <1>8, <2>2 DEF Shaped
<1>14. entriesOf(y) \subseteq entriesOf(S.heap[t]) \cup M
  <2>1. PICK inuse : inuse = {x \in DOMAIN old : old[x] # None}
    OBVIOUS
  <2>2. entriesOf(S.heap[t]) = inuse \cup {old[x] : x \in inuse}
    BY <1>3, <2>1 DEF entriesOf
  <2>3. PICK now : now = {x \in D : node[x] # None}
    OBVIOUS
  <2>4. entriesOf(y) = now \cup {node[x] : x \in now}
    BY <1>7, <1>9, <2>3 DEF entriesOf
  <2>5. ASSUME NEW x \in now PROVE {x, node[x]} \subseteq entriesOf(S.heap[t]) \cup M
    <3>1. CASE x = k
      BY <1>9, <1>12, <2>3, <3>1
    <3>2. CASE x # k
      <4>1. x \in DOMAIN old /\ node[x] = old[x] /\ old[x] # None
        BY <1>9, <1>10, <2>3, <3>2
      <4>2. x \in inuse
        BY <2>1, <4>1
      <4> QED
        BY <2>2, <4>1, <4>2
    <3> QED
      BY <3>1, <3>2
  <2> QED
    BY <2>4, <2>5
<1>15. fieldsOf(y) \subseteq fieldsOf(S.heap[t]) \cup M
  <2>1. ASSUME NEW x \in D PROVE {x, node[x]} \subseteq fieldsOf(S.heap[t]) \cup M
    <3>1. CASE x = k
      BY <1>9, <1>12, <3>1
    <3>2. CASE x # k
      <4>1. x \in DOMAIN old /\ node[x] = old[x]
        BY <1>9, <1>10, <3>2
      <4> QED
        BY <1>3, <4>1 DEF fieldsOf
    <3> QED
      BY <3>1, <3>2
  <2>2. \A x \in {y.mt, y.env, y.v} \cup y.refs : x \in fieldsOf(S.heap[t])
    BY <1>8 DEF fieldsOf
  <2>3. fieldsOf(y) = {y.mt, y.env, y.v} \cup y.refs \cup D \cup {node[x] : x \in D}
    BY <1>7, <1>9 DEF fieldsOf
  <2> QED
    BY <2>1, <2>2, <2>3
<1>16. Rewrites(S, t, y, M)
  BY <1>8, <1>12, <1>13, <1>14, <1>15 DEF Rewrites
<1>17. isblack(S, t) => Marked(S, fieldsOf(y) \ (fieldsOf(S.heap[t]) \cup {v}))
  <2>1. k \in DOMAIN old => k \in fieldsOf(S.heap[t])
    BY <1>3 DEF fieldsOf
  <2> QED
    BY <1>3, <1>12, <1>15, <2>1 DEF Marked
<1> QED
  BY <1>6, <1>16, <1>17, RewriteKeeps

\* Before a store the invariant holds without exception.
LEMMA PhaseIsStored ==
  ASSUME NEW S, Phase(S), NEW o \in Obj, NEW v
  PROVE  Stored(S, o, v)
<1>1. ASSUME S.gcstate = "propagate" PROVE Marking(S, {o}) /\ (isblack(S, o) /\ o \notin tofinalize(S) => Marked(S, fields(S, o) \ {v}))
  <2>1. Marking(S, {})
    BY <1>1 DEF Phase, PhaseBut
  <2>2. Strong(S, {})
    BY <2>1 DEF Marking, Tricolour
  <2>3. Strong(S, {o})
    BY <2>2 DEF Strong
  <2>4. isblack(S, o) /\ o \notin tofinalize(S) => Marked(S, fields(S, o))
    BY <2>2 DEF Strong
  <2> QED
    BY <2>1, <2>3, <2>4 DEF Marking, Tricolour, Marked
<1> QED
  BY <1>1 DEF Stored, Phase, PhaseBut

\* A store in a table, with the barriers for the key and for the value.
LEMMA SettableKeeps ==
  ASSUME WellFormed(g), Phase(g), Settable
  PROVE  WellFormed(g') /\ Phase(g')
<1>a. PICK t \in known(g) \cap Of("table"), v \in onstack(g) \cup {None} :
     \E k \in IF t = Registry THEN {Other} ELSE onstack(g) \cup {Other} :
       LET node == g.heap[t].node
           rehashed == IF Cardinality(DOMAIN node) < MaxNodes THEN DOMAIN node ELSE keys(g, t)
           found == k \in DOMAIN node
           s == IF found THEN g ELSE luaC_barriert(g, t, k)
       IN g' = luaC_barriert([s EXCEPT !.heap[t].node =
                      [x \in (IF found THEN DOMAIN node ELSE rehashed \cup {k}) |-> IF x = k THEN v ELSE node[x]]],
                     t, v)
  BY DEF Settable
<1>b. PICK k \in IF t = Registry THEN {Other} ELSE onstack(g) \cup {Other} :
       LET node == g.heap[t].node
           rehashed == IF Cardinality(DOMAIN node) < MaxNodes THEN DOMAIN node ELSE keys(g, t)
           found == k \in DOMAIN node
           s == IF found THEN g ELSE luaC_barriert(g, t, k)
       IN g' = luaC_barriert([s EXCEPT !.heap[t].node =
                      [x \in (IF found THEN DOMAIN node ELSE rehashed \cup {k}) |-> IF x = k THEN v ELSE node[x]]],
                     t, v)
  BY <1>a
<1>1. PICK s : s = IF k \in DOMAIN g.heap[t].node THEN g ELSE luaC_barriert(g, t, k)
  OBVIOUS
<1>2. PICK rehashed : rehashed = IF Cardinality(DOMAIN g.heap[t].node) < MaxNodes THEN DOMAIN g.heap[t].node ELSE keys(g, t)
  OBVIOUS
<1>3. PICK D : D = IF k \in DOMAIN g.heap[t].node THEN DOMAIN g.heap[t].node ELSE rehashed \cup {k}
  OBVIOUS
<1>4. g' = luaC_barriert([s EXCEPT !.heap[t].node = [x \in D |-> IF x = k THEN v ELSE g.heap[t].node[x]]], t, v)
  BY <1>b, <1>1, <1>2, <1>3
<1>5. D \subseteq DOMAIN g.heap[t].node \cup {k}
  BY <1>2, <1>3 DEF keys
<1>6. t \in Of("table") /\ t \in Obj /\ Kind[t] = "table" /\ t \in live(g) /\ t \notin g.free
  <2>1. t \in known(g)
    OBVIOUS
  <2> QED
    BY <2>1, KnownIsLive DEF Of
<1>7. None \in Data /\ Other \in Data /\ None \notin Obj /\ Other \notin Obj
  BY TypesAssumption DEF Data, Value, Of
<1>8. k \in Data /\ (k \in Obj => k \in live(g))
  <2>1. k \in onstack(g) \/ k = Other
    BY <1>b
  <2> QED
    BY <1>7, <2>1, StackValues
<1>9. v \in Data /\ (v \in Obj => v \in live(g))
  <2>1. v \in onstack(g) \/ v = None
    BY <1>a
  <2> QED
    BY <1>7, <2>1, StackValues
<1>10. /\ WellFormed(s) /\ Phase(s) /\ s.heap = g.heap /\ live(s) = live(g)
       /\ isblack(s, t) => k \in DOMAIN s.heap[t].node \/ ~ (k \in Obj /\ iswhite(s, k))
  <2>1. CASE k \in DOMAIN g.heap[t].node
    BY <1>1, <2>1
  <2>2. CASE k \notin DOMAIN g.heap[t].node
    <3>1. s = luaC_barriert(g, t, k)
      BY <1>1, <2>2
    <3>2. Stored(g, t, k)
      BY <1>6, PhaseIsStored
    <3>3. /\ WellFormed(s) /\ Phase(s) /\ Same(g, s, {"marked", "grayagain"}) /\ live(s) = live(g)
          /\ isblack(s, t) => ~ (k \in Obj /\ iswhite(s, k))
      BY <1>6, <3>1, <3>2, BarriertKeeps
    <3>4. s.heap = g.heap
      BY <3>3 DEF Same, StateFields
    <3> QED
      BY <3>3, <3>4
  <2> QED
    BY <2>1, <2>2
<1>c. PICK node : node = [x \in D |-> IF x = k THEN v ELSE s.heap[t].node[x]]
  OBVIOUS
<1>11. PICK A : A = [s EXCEPT !.heap[t].node = node]
  OBVIOUS
<1>12. g' = luaC_barriert(A, t, v)
  BY <1>4, <1>10, <1>11, <1>c
<1>13. D \subseteq DOMAIN s.heap[t].node \cup {k}
  BY <1>5, <1>10
<1>14. t \in live(s) /\ (k \in Obj => k \in live(s)) /\ (v \in Obj => v \in live(s))
  BY <1>6, <1>8, <1>9, <1>10
<1>15. WellFormed(A) /\ Stored(A, t, v) /\ live(A) = live(s) /\ A.free = s.free
  <2>1. isblack(s, t) => k \in DOMAIN s.heap[t].node \/ ~ (k \in Obj /\ iswhite(s, k))
    BY <1>10
  <2>2. WellFormed(s) /\ Phase(s) /\ t \in live(s) /\ Kind[t] = "table"
    BY <1>6, <1>10, <1>14
  <2>3. k \in Data /\ (k \in Obj => k \in live(s)) /\ v \in Data /\ (v \in Obj => v \in live(s))
    BY <1>8, <1>9, <1>14
  <2> QED
    BY <1>11, <1>c, <1>13, <2>1, <2>2, <2>3, SetnodeKeeps
<1>16. t \notin A.free
  BY <1>14, <1>15 DEF live
<1> QED
  BY <1>6, <1>12, <1>15, <1>16, BarriertKeeps

\* A closure is made and takes the place of its prototype.
LEMMA ClosureMade ==
  ASSUME NEW S, WellFormed(S), Phase(S), NEW f \in S.free, Kind[f] = "function", NEW refs, refs \subseteq live(S),
         stack(S) # <<>>, NEW x, x = [Blank EXCEPT !.env = Registry, !.refs = refs],
         NEW T, T = [luaC_link(S, f, x) EXCEPT !.heap[S.L].stack[Len(stack(S))] = f]
  PROVE  WellFormed(T) /\ Phase(T)
<1>1. Fresh(S, x, Kind[f])
  <2>1. DOMAIN Blank = ObjectFields
    BY DEF Blank, ObjectFields
  <2>2. /\ Blank.mt = None /\ Blank.env = None /\ Blank.v = None /\ Blank.refs = {} /\ Blank.stack = <<>>
        /\ DOMAIN Blank.node = {} /\ Blank.at = <<>>
    BY DEF Blank
  <2>3. DOMAIN x = ObjectFields /\ x.env = Registry /\ x.refs = refs /\ \A d \in ObjectFields \ {"env", "refs"} : x[d] = Blank[d]
    BY <2>1 DEF ObjectFields
  <2>4. x.mt = None /\ x.v = None /\ x.stack = <<>> /\ DOMAIN x.node = {} /\ x.at = <<>>
    BY <2>2, <2>3 DEF ObjectFields
  <2> QED
    BY <2>3, <2>4 DEF Fresh
<1>2. PICK A : A = luaC_link(S, f, x)
  OBVIOUS
<1>3. /\ WellFormed(A) /\ Phase(A) /\ live(A) = live(S) \cup {f} /\ Same(S, A, {"heap", "free"})
      /\ stack(A) = stack(S)
  BY <1>1, <1>2, LinkKeeps
<1>4. A.L = S.L /\ A.callers = S.callers
  BY <1>3 DEF Same, StateFields
<1>5. PICK n : n = Len(stack(S))
  OBVIOUS
<1>6. PICK th : th = S.L
  OBVIOUS
<1>7. T = [A EXCEPT !.heap[th].stack[n] = f]
  BY <1>2, <1>5, <1>6
<1>8. th \in Of("thread") /\ th \notin A.free /\ th \notin Range(A.callers) /\ stack(A) \in Seq(Data)
  BY <1>3, <1>4, <1>6, RunningIsNoCaller
<1>9. n \in 1..Len(A.heap[th].stack)
  BY <1>3, <1>4, <1>5, <1>6, <1>8 DEF stack
<1>10. f \in Data /\ f \in live(A)
  <2>1. f \in Obj
    BY DEF WellFormed, Types
  <2> QED
    BY <1>3, <2>1 DEF Data, Value, Of
<1> QED
  BY <1>3, <1>7, <1>8, <1>9, <1>10, AssignKeeps

\* The upvalue of a variable is found, made again if it is dead, or made.
LEMMA FindupvalKeeps ==
  ASSUME NEW S, WellFormed(S), Phase(S), NEW n \in 1..Len(stack(S)), NEW u \in Of("upval"),
         u \in S.free \/ u \in captures(S, S.L, n), NEW T, T = luaF_findupval(S, u, n)
  PROVE  WellFormed(T) /\ Phase(T) /\ u \in live(T) /\ live(S) \subseteq live(T)
         /\ stack(T) = stack(S) /\ T.L = S.L /\ S.free \ {u} \subseteq T.free
<1>0. u \in Obj /\ Kind[u] = "upval"
  BY DEF Of
<1>1. CASE u \in S.free
  <2>1. PICK x : x = [Blank EXCEPT !.at = <<S.L, n>>]
    OBVIOUS
  <2>2. T = luaC_link(S, u, x)
    BY <1>1, <2>1 DEF luaF_findupval
  <2>3. Fresh(S, x, Kind[u])
    <3>1. DOMAIN Blank = ObjectFields
      BY DEF Blank, ObjectFields
    <3>2. /\ Blank.mt = None /\ Blank.env = None /\ Blank.v = None /\ Blank.refs = {} /\ Blank.stack = <<>>
          /\ DOMAIN Blank.node = {}
      BY DEF Blank
    <3>3. DOMAIN x = ObjectFields /\ x.at = <<S.L, n>> /\ \A d \in ObjectFields \ {"at"} : x[d] = Blank[d]
      BY <2>1, <3>1 DEF ObjectFields
    <3>4. x.mt = None /\ x.env = None /\ x.v = None /\ x.refs = {} /\ x.stack = <<>> /\ DOMAIN x.node = {}
      BY <3>2, <3>3 DEF ObjectFields
    <3> QED
      BY <1>0, <3>3, <3>4 DEF Fresh
  <2>4. /\ WellFormed(T) /\ Phase(T) /\ live(T) = live(S) \cup {u} /\ Same(S, T, {"heap", "free"})
        /\ stack(T) = stack(S) /\ T.free = S.free \ {u}
    BY <1>1, <2>2, <2>3, LinkKeeps
  <2>5. T.L = S.L
    BY <2>4 DEF Same, StateFields
  <2> QED
    BY <2>4, <2>5
<1>2. CASE u \notin S.free /\ isdead(S, u)
  <2>1. PICK X : X = {u}
    OBVIOUS
  <2>2. T = makewhite(S, X)
    BY <1>2, <2>1 DEF luaF_findupval
  <2>3. S.heap[u].at = <<S.L, n>> /\ isopen(S, u)
    BY <1>2 DEF captures, openupvals
  <2>4. RefersToLive(S, u)
    <3>1. Shaped(S.heap[u], "upval")
      BY <1>0 DEF WellFormed, Shapes
    <3>2. keys(S, u) = {} /\ Range(S.heap[u].stack) = {} /\ S.heap[u].v = None
      BY <2>3, <3>1 DEF Shaped, keys, Range
    <3>3. uvalue(S, u) = stack(S)[n]
      BY <2>3 DEF uvalue, stack
    <3>4. uvalue(S, u) \in Range(stack(S))
      <4>1. stack(S) \in Seq(Data)
        BY RunningIsNoCaller
      <4> QED
        BY <3>3, <4>1 DEF Range
    <3>5. referred(S, u) \subseteq {None, uvalue(S, u)}
      BY <3>1, <3>2 DEF Shaped, referred
    <3>6. Range(stack(S)) \cap Obj \subseteq live(S) /\ None \notin Obj
      BY RunningIsNoCaller, TypesAssumption
    <3> QED
      BY <3>4, <3>5, <3>6 DEF RefersToLive
  <2>5. X \in SUBSET Obj /\ u \in X /\ \A p \in X : isdead(S, p) /\ RefersToLive(S, p)
    BY <1>0, <1>2, <2>1, <2>4
  <2>6. WellFormed(T) /\ Phase(T) /\ live(T) = live(S) \cup X /\ Same(S, T, {"marked"})
    BY <1>0, <1>2, <2>2, <2>5, RevivalKeeps
  <2>7. T.L = S.L /\ T.heap = S.heap /\ T.free = S.free
    BY <2>6 DEF Same, StateFields
  <2> QED
    BY <2>1, <2>6, <2>7 DEF stack
<1>3. CASE u \notin S.free /\ ~ isdead(S, u)
  <2>1. T = S
    BY <1>3 DEF luaF_findupval
  <2>2. u \in live(S)
    BY <1>0, <1>3 DEF live
  <2> QED
    BY <2>1, <2>2
<1> QED
  BY <1>1, <1>2, <1>3

\* A closure is made, with a captured variable or without.
LEMMA ClosureKeeps ==
  ASSUME WellFormed(g), Phase(g), Closure
  PROVE  WellFormed(g') /\ Phase(g')
<1>a. PICK f \in malloc("function"), p \in Of("proto") :
       LET top == Len(stack(g))
           object(refs) == [Blank EXCEPT !.env = Registry, !.refs = refs]
           open(n) == captures(g, g.L, n)
       IN /\ top > 0 /\ stack(g)[top] = p
          /\ \/ g' = [luaC_link(g, f, object({p})) EXCEPT !.heap[g.L].stack[top] = f]
             \/ \E n \in 1..(top - 1) :
                  \E u \in IF open(n) # {} THEN open(n) ELSE malloc("upval") :
                    g' = [luaC_link(luaF_findupval(g, u, n), f, object({p, u}))
                          EXCEPT !.heap[g.L].stack[top] = f]
  BY Zenon DEF Closure
<1>1. PICK top : top = Len(stack(g))
  OBVIOUS
<1>2. top > 0 /\ stack(g)[top] = p
  BY Zenon, <1>a, <1>1
<1>3. f \in g.free /\ Kind[f] = "function" /\ f \in Obj
  BY DEF malloc, Of
<1>4. stack(g) \in Seq(Data) /\ Range(stack(g)) \cap Obj \subseteq live(g)
  BY RunningIsNoCaller
<1>5. p \in live(g) /\ stack(g) # <<>>
  <2>1. top \in DOMAIN stack(g)
    BY <1>1, <1>2, <1>4
  <2>2. p \in Range(stack(g)) /\ p \in Obj
    BY <1>2, <2>1 DEF Range, Of
  <2> QED
    BY <1>1, <1>2, <1>4, <2>2
<1>6. \/ g' = [luaC_link(g, f, [Blank EXCEPT !.env = Registry, !.refs = {p}]) EXCEPT !.heap[g.L].stack[top] = f]
      \/ \E n \in 1..(top - 1) : \E u \in IF captures(g, g.L, n) # {} THEN captures(g, g.L, n) ELSE malloc("upval") :
           g' = [luaC_link(luaF_findupval(g, u, n), f, [Blank EXCEPT !.env = Registry, !.refs = {p, u}])
                 EXCEPT !.heap[g.L].stack[top] = f]
  BY Zenon, <1>a, <1>1
<1>7. CASE g' = [luaC_link(g, f, [Blank EXCEPT !.env = Registry, !.refs = {p}]) EXCEPT !.heap[g.L].stack[top] = f]
  <2>1. PICK refs : refs = {p}
    OBVIOUS
  <2>2. PICK x : x = [Blank EXCEPT !.env = Registry, !.refs = refs]
    OBVIOUS
  <2>3. g' = [luaC_link(g, f, x) EXCEPT !.heap[g.L].stack[Len(stack(g))] = f]
    BY <1>1, <1>7, <2>1, <2>2
  <2>4. refs \subseteq live(g)
    BY <1>5, <2>1
  <2> QED
    BY Zenon, <1>3, <1>5, <2>2, <2>3, <2>4, ClosureMade
<1>8. ASSUME NEW n \in 1..(top - 1), NEW u \in IF captures(g, g.L, n) # {} THEN captures(g, g.L, n) ELSE malloc("upval"),
             g' = [luaC_link(luaF_findupval(g, u, n), f, [Blank EXCEPT !.env = Registry, !.refs = {p, u}])
                   EXCEPT !.heap[g.L].stack[top] = f]
      PROVE  WellFormed(g') /\ Phase(g')
  <2>1. n \in 1..Len(stack(g))
    BY <1>1, <1>4
  <2>2. u \in Of("upval") /\ (u \in g.free \/ u \in captures(g, g.L, n))
    BY <1>8 DEF captures, openupvals, malloc
  <2>3. PICK B : B = luaF_findupval(g, u, n)
    OBVIOUS
  <2>4. WellFormed(B) /\ Phase(B) /\ u \in live(B) /\ live(g) \subseteq live(B)
        /\ stack(B) = stack(g) /\ B.L = g.L /\ g.free \ {u} \subseteq B.free
    BY <2>1, <2>2, <2>3, FindupvalKeeps
  <2>5. PICK refs : refs = {p, u}
    OBVIOUS
  <2>6. PICK x : x = [Blank EXCEPT !.env = Registry, !.refs = refs]
    OBVIOUS
  <2>7. g' = [luaC_link(B, f, x) EXCEPT !.heap[B.L].stack[Len(stack(B))] = f]
    BY <1>1, <1>8, <2>3, <2>4, <2>5, <2>6
  <2>8. refs \subseteq live(B) /\ f \in B.free
    BY <1>3, <1>5, <2>2, <2>4, <2>5 DEF Of
  <2>9. stack(B) # <<>>
    BY <1>5, <2>4
  <2> QED
    BY Zenon, <1>3, <2>4, <2>6, <2>7, <2>8, <2>9, ClosureMade
<1> QED
  BY Zenon, <1>6, <1>7, <1>8

-----------------------------------------------------------------------------
(* Every step keeps the invariant.                                           *)

\* A step of the sweep, of some objects or of the last ones.
LEMMA SweepStepKeeps ==
  ASSUME WellFormed(g), Phase(g), Sweep
  PROVE  WellFormed(g') /\ Phase(g')
<1>1. g.gcstate = "sweep"
  BY DEF Sweep
<1>2. PICK objs \in SUBSET g.sweep :
        LET s == [sweeplist(g, objs) EXCEPT !.sweep = @ \ objs]
        IN g' = IF objs = g.sweep THEN swept(s) ELSE s
  BY DEF Sweep
<1>3. PICK A : A = [sweeplist(g, objs) EXCEPT !.sweep = @ \ objs]
  OBVIOUS
<1>4. g' = IF objs = g.sweep THEN swept(A) ELSE A
  BY <1>2, <1>3
<1> QED
  BY <1>1, <1>3, <1>4, SweepKeeps

\* Every step of the collector keeps the invariant.
LEMMA SinglestepKeeps ==
  ASSUME WellFormed(g), Phase(g), singlestep
  PROVE  WellFormed(g') /\ Phase(g')
<1>1. CASE Markroot
  <2>1. AllWhite(g) /\ g' = markroot(g) /\ \A u \in tofinalize(g) : ~ isgray(g, u)
    BY <1>1 DEF Markroot, Phase, PhaseBut
  <2> QED
    BY <2>1, MarkrootKeeps
<1>2. CASE Propagate
  <2>1. g.gcstate = "propagate"
    BY <1>2 DEF Propagate
  <2>2. PICK o \in g.gray : g' = propagatemark(g, o)
    BY <1>2 DEF Propagate
  <2> QED
    BY <2>1, <2>2, PropagateKeeps
<1>3. CASE Atomic
  <2>1. g.gcstate = "propagate" /\ g.gray = {} /\ g' = atomic(g)
    BY <1>3 DEF Atomic
  <2>2. Marking(g, {})
    BY <2>1 DEF Phase, PhaseBut
  <2> QED
    BY <2>1, <2>2, AtomicKeeps
<1>4. CASE Sweepstring
  <2>1. g.gcstate = "sweepstring"
    BY <1>4 DEF Sweepstring
  <2>2. CASE g.strings = {} /\ g' = [g EXCEPT !.gcstate = "sweep"]
    BY <2>1, <2>2, SweepstringEnds
  <2>3. ASSUME NEW s \in g.strings, g' = [sweeplist(g, {s}) EXCEPT !.strings = @ \ {s}]
        PROVE  WellFormed(g') /\ Phase(g')
    BY <2>1, <2>3, SweepstringKeeps
  <2> QED
    BY <1>4, <2>2, <2>3 DEF Sweepstring
<1>5. CASE Sweep
  BY <1>5, SweepStepKeeps
<1>6. CASE Finalize
  <2>1. g.gcstate = "finalize"
    BY <1>6 DEF Finalize
  <2>2. CASE g.tmudata # <<>> /\ g' = GCTM(g)
    BY <2>1, <2>2, GCTMKeeps
  <2>3. CASE g' = [g EXCEPT !.gcstate = "pause", !.full = "no"]
    BY <2>1, <2>3, FinalizeEnds
  <2> QED
    BY <1>6, <2>2, <2>3 DEF Finalize
<1> QED
  BY <1>1, <1>2, <1>3, <1>4, <1>5, <1>6 DEF singlestep

\* What a program begins with.
LEMMA NewstateKeeps ==
  ASSUME NEW arena \in Arenas, NEW S, S = lua_newstate(arena)
  PROVE  WellFormed(S) /\ Phase(S)
<1>1. /\ Shapes(S) /\ GraphIsLive(S) /\ OpenUpvals(S)
      /\ S.udata \in Seq(Of("userdata")) /\ Range(S.udata) \cap S.free = {}
  BY ArenasAssumption
<1>2. /\ DOMAIN S = StateFields /\ DOMAIN S.heap = Obj /\ S.marked = [o \in Obj |-> "white"]
      /\ S.free = Obj \ (DOMAIN arena.made \cup {MainThread, Registry}) /\ S.gcstate = "pause"
      /\ S.tmudata = <<>> /\ S.L = MainThread /\ S.callers = <<>> /\ S.bad = {}
  BY DEF lua_newstate, StateFields
<1>3. \A o \in Obj : S.marked[o] = "white"
  BY <1>2
<1>4. Range(S.tmudata) = {} /\ DOMAIN S.callers = {}
  BY <1>2 DEF Range
<1>5. Types(S)
  <2>1. S.free \subseteq Obj /\ S.marked \in [Obj -> Colours]
    BY <1>2 DEF Colours
  <2>2. \A o \in S.free : S.marked[o] = "white"
    BY <1>3, <2>1
  <2>3. S.tmudata \in Seq(Of("userdata")) /\ S.callers \in Seq(Of("thread"))
    BY <1>2
  <2>4. S.L \in Of("thread")
    BY <1>2, TypesAssumption
  <2> QED
    BY <1>1, <1>2, <2>1, <2>2, <2>3, <2>4 DEF Types
<1>6. Chain(S)
  <2>1. path(S) = <<MainThread>>
    BY <1>2 DEF path
  <2> QED
    BY <1>4, <2>1 DEF Chain
<1>7. NeverBlack(S)
  BY <1>3 DEF NeverBlack, isblack
<1>8. Phase(S)
  BY <1>2, <1>3, <1>4 DEF Phase, PhaseBut, AllWhite, tofinalize
<1> QED
  BY <1>1, <1>5, <1>6, <1>7, <1>8 DEF WellFormed

\* The inductive invariant: while the state is not being closed, the heap is well formed
\* and the colours are what the phase of the collection requires.
GCInv == closing = "no" => WellFormed(g) /\ Phase(g)

\* The invariant holds when the program begins.
LEMMA GCInvInit == Init => GCInv
BY NewstateKeeps DEF Init, GCInv

\* Every step keeps the invariant: those of the collector, of the program, and of lua_close.
LEMMA GCInvNext == GCInv /\ [Next]_vars => GCInv'
<1> SUFFICES ASSUME GCInv, [Next]_vars, closing' = "no" PROVE WellFormed(g') /\ Phase(g')
  BY DEF GCInv
<1>1. CASE UNCHANGED vars
  BY <1>1 DEF vars, GCInv
<1>2. closing = "no"
  <2>1. ASSUME singlestep PROVE closing' = closing
    BY <2>1 DEF singlestep
  <2>2. ASSUME program PROVE closing' = closing
    BY <2>2 DEF program
  <2>3. ASSUME lua_close PROVE closing' # "no"
    BY <2>3 DEF lua_close, Close, CallGCTM
  <2> QED
    BY <2>1, <2>2, <2>3 DEF Next, vars
<1>3. WellFormed(g) /\ Phase(g)
  BY <1>2 DEF GCInv
<1>4. CASE singlestep
  BY <1>3, <1>4, SinglestepKeeps
<1>5. CASE program
  <2>1. CASE NewTable \/ NewUserdata \/ NewString \/ NewProto \/ NewThread
    BY <1>3, <2>1, NewTableKeeps, NewUserdataKeeps, NewStringKeeps, NewProtoKeeps, NewThreadKeeps
  <2>2. CASE AddConstant \/ Settable \/ lua_setmetatable \/ lua_setfenv \/ Setupval
    BY <1>3, <2>2, AddConstantKeeps, SettableKeeps, SetmetatableKeeps, SetfenvKeeps, SetupvalKeeps
  <2>3. CASE Closure \/ Read \/ Pop
    BY <1>3, <2>3, ClosureKeeps, ReadKeeps, PopKeeps
  <2>4. CASE Resume \/ Yield \/ luaC_fullgc
    BY <1>3, <2>4, ResumeKeeps, YieldKeeps, FullgcKeeps
  <2> QED
    BY <1>5, <2>1, <2>2, <2>3, <2>4 DEF program
<1>6. CASE lua_close
  BY <1>2, <1>6 DEF lua_close, Close, CallGCTM
<1> QED
  BY <1>1, <1>4, <1>5, <1>6 DEF Next
-----------------------------------------------------------------------------
\* The tricolour invariant, with what it needs, at every point of every program.
THEOREM CollectorInvariant == Spec => []GCInv
<1>1. Init => GCInv
  BY GCInvInit
<1>2. GCInv /\ [Next]_vars => GCInv'
  BY GCInvNext
<1> QED
  BY <1>1, <1>2, PTL DEF Spec

\* What can be reached from what is alive is alive.
LEMMA ReachableIsLive ==
  ASSUME NEW S, WellFormed(S)
  PROVE  reachable(S) \subseteq live(S)
<1> DEFINE Body(f) == [n \in 0..Cardinality(Obj) |-> IF n = 0 THEN roots(S)
                         ELSE f[n - 1] \cup (Obj \cap UNION {referred(S, o) : o \in f[n - 1]})]
<1>1. reachable(S) = (CHOOSE f : f = Body(f))[Cardinality(Obj)]
  BY DEF reachable
<1>2. PICK N : N = Cardinality(Obj)
  OBVIOUS
<1>3. N \in Nat
  BY <1>2, TypesAssumption, FS_CardinalityType
<1>4. roots(S) \subseteq live(S) /\ live(S) \subseteq Obj /\ \A o \in live(S) : referred(S, o) \cap Obj \subseteq live(S)
  BY DEF WellFormed, GraphIsLive, live
<1>5. PICK G : G = [p \in (1..N) \X SUBSET Obj |-> p[2] \cup (Obj \cap UNION {referred(S, o) : o \in p[2]})]
  OBVIOUS
<1>6. G \in [(1..N) \X SUBSET Obj -> SUBSET Obj]
  BY <1>5
<1>7. PICK f \in [0..N -> SUBSET Obj] : Iterates(f, roots(S), N, G)
  <2>1. roots(S) \in SUBSET Obj
    BY <1>4
  <2> QED
    BY <1>3, <1>6, <2>1, RecursionExists
<1>8. f = Body(f)
  <2>1. ASSUME NEW n \in 0..N
        PROVE  f[n] = IF n = 0 THEN roots(S) ELSE f[n - 1] \cup (Obj \cap UNION {referred(S, o) : o \in f[n - 1]})
    <3>1. CASE n = 0
      BY <1>7, <3>1 DEF Iterates
    <3>2. CASE n # 0
      <4>1. n \in 1..N /\ f[n - 1] \in SUBSET Obj
        BY <1>3, <3>2
      <4>2. f[n] = G[<<n, f[n - 1]>>]
        BY <1>7, <4>1 DEF Iterates
      <4> QED
        BY <1>5, <3>2, <4>1, <4>2
    <3> QED
      BY <3>1, <3>2
  <2> QED
    BY <1>2, <2>1
<1>9. (CHOOSE h : h = Body(h)) = Body(CHOOSE h : h = Body(h))
  BY <1>8
<1>10. PICK h : h = Body(h) /\ h = CHOOSE e : e = Body(e)
  BY <1>9
<1>11. h[0] = roots(S) /\ \A n \in 1..N : h[n] = h[n - 1] \cup (Obj \cap UNION {referred(S, o) : o \in h[n - 1]})
  <2>1. h = Body(h)
    BY <1>10
  <2>2. ASSUME NEW n \in 0..N
        PROVE  h[n] = IF n = 0 THEN roots(S) ELSE h[n - 1] \cup (Obj \cap UNION {referred(S, o) : o \in h[n - 1]})
    BY <1>2, <2>1
  <2> HIDE DEF Body
  <2>3. 0 \in 0..N /\ \A n \in 1..N : n \in 0..N /\ n # 0
    BY <1>3
  <2> QED
    BY <2>2, <2>3
<1> HIDE DEF Body
<1>12. PICK P : P = {n \in 0..N : h[n] \subseteq live(S)}
  OBVIOUS
<1>13. 0 \in P
  BY <1>3, <1>4, <1>11, <1>12
<1>14. ASSUME NEW n \in 1..N, n - 1 \in P PROVE n \in P
  <2>1. h[n - 1] \subseteq live(S)
    BY <1>12, <1>14
  <2>2. h[n] = h[n - 1] \cup (Obj \cap UNION {referred(S, o) : o \in h[n - 1]})
    BY <1>11
  <2>3. h[n] \subseteq live(S)
    BY <1>4, <2>1, <2>2
  <2> QED
    BY <1>3, <1>12, <2>3
<1>15. N \in P
  <2>1. Inductive(P, N)
    BY <1>13, <1>14 DEF Inductive
  <2> QED
    BY <1>3, <2>1, Induction
<1> QED
  BY <1>1, <1>2, <1>10, <1>12, <1>15

\* No object the program can reach, from its threads, the registry or the userdata to
\* finalize, has been freed (lgc.c: the marking, the barriers and the sweep together).
THEOREM NoReachableObjectIsFreed == Spec => []NoDanglingReference
<1>1. GCInv => NoDanglingReference
  <2> SUFFICES ASSUME GCInv, closing = "no" PROVE reachable(g) \cap g.free = {}
    BY DEF NoDanglingReference
  <2>1. reachable(g) \subseteq live(g)
    BY ReachableIsLive DEF GCInv
  <2> QED
    BY <2>1 DEF live
<1> QED
  BY <1>1, CollectorInvariant, PTL

\* A black object refers to no white one while the marking goes on.
THEOREM BlackIsMarkedThrough == Spec => []BlackNeverPointsToWhite
<1>1. GCInv => BlackNeverPointsToWhite
  <2> SUFFICES ASSUME GCInv, g.gcstate = "propagate", closing = "no",
                      NEW o \in Obj \ (g.free \cup Range(g.tmudata)), isblack(g, o),
                      NEW v \in references(g, o) \cap Obj
               PROVE  ~ iswhite(g, v)
    BY DEF BlackNeverPointsToWhite
  <2>1. WellFormed(g) /\ Marking(g, {})
    BY DEF GCInv, Phase, PhaseBut
  <2>2. Marked(g, fields(g, o))
    BY <2>1 DEF Marking, Tricolour, Strong, tofinalize
  <2>3. Kind[o] # "thread" /\ (Kind[o] = "upval" => ~ isopen(g, o))
    BY <2>1 DEF WellFormed, NeverBlack
  <2>4. v \in fields(g, o)
    <3>1. CASE Kind[o] = "table"
      BY <3>1 DEF references, fields, keys
    <3>2. CASE Kind[o] = "userdata"
      BY <3>2 DEF references, fields
    <3>3. CASE Kind[o] \in {"function", "proto"}
      BY <3>3 DEF references, fields
    <3>4. CASE Kind[o] = "upval"
      BY <2>3, <3>4 DEF references, fields, uvalue
    <3>5. CASE Kind[o] = "string"
      BY <3>5 DEF references
    <3> QED
      BY <2>3, <3>1, <3>2, <3>3, <3>4, <3>5, TypesAssumption
  <2> QED
    BY <2>2, <2>4 DEF Marked
<1> QED
  BY <1>1, CollectorInvariant, PTL

\* While the state is not being closed, the assertions of lgc.c and lfunc.c hold.
THEOREM CollectorAssertionsHold == Spec => []AssertionsHold
<1>1. GCInv => AssertionsHold
  BY DEF GCInv, WellFormed, Types, AssertionsHold
<1> QED
  BY <1>1, CollectorInvariant, PTL

-----------------------------------------------------------------------------
(* Finalizers.                                                               *)
\* Userdata with a finalizer: which are to be found dead, which wait for the call, which had it.
Userdata == Of("userdata")
Lists(S) ==
  /\ S.udata \in Seq(Userdata) /\ IsInjective(S.udata)
  /\ S.tmudata \in Seq(Userdata) /\ IsInjective(S.tmudata)
  /\ Range(S.udata) \cap tofinalize(S) = {}
  /\ (Range(S.udata) \cup tofinalize(S)) \cap S.free = {}
  /\ Userdata \subseteq S.free \cup S.finalized \cup Range(S.udata)
Calls(S) ==
  /\ S.called \in [Obj -> {0, 1}]
  /\ S.finalized \subseteq Userdata \ S.free
  /\ tofinalize(S) \subseteq S.owed /\ S.owed \subseteq S.finalized
  /\ \A u \in Userdata : S.called[u] = 1 <=> u \in S.owed \ tofinalize(S)
Coloured(S) ==
  /\ DOMAIN S = StateFields /\ S.marked \in [Obj -> Colours]
  /\ S.free \cup S.sweep \cup S.strings \subseteq Obj
DeadAreDone(S) == \A u \in Userdata : isdead(S, u) => u \in S.finalized \ tofinalize(S)
FinalizersKept(S) == Coloured(S) /\ Lists(S) /\ Calls(S) /\ DeadAreDone(S)

\* The fields that have nothing to do with finalizers, the lists of what is to be swept but for them.
Others == {"heap", "marked", "arena", "gcstate", "gray", "grayagain", "weak", "L", "callers", "full", "bad"}

\* A step that concerns no finalizer, and one that only marks.
Calm(S, T) ==
  /\ Coloured(T) /\ Same(S, T, Others \cup {"sweep", "strings"})
  /\ \A o \in Obj : isdead(T, o) => isdead(S, o)
Marks(S, T) == Calm(S, T) /\ \A o \in Obj : iswhite(T, o) => iswhite(S, o)

\* What concerns finalizers is the same after a calm step.
LEMMA CalmFields ==
  ASSUME NEW S, NEW T, Calm(S, T)
  PROVE  /\ Coloured(T) /\ DOMAIN T = StateFields
         /\ T.free = S.free /\ T.udata = S.udata /\ T.tmudata = S.tmudata
         /\ T.finalized = S.finalized /\ T.owed = S.owed /\ T.called = S.called
BY DEF Calm, Same, StateFields, Others, Coloured

\* A calm step keeps the invariant.
LEMMA CalmKeeps ==
  ASSUME NEW S, FinalizersKept(S), NEW T, Calm(S, T)
  PROVE  FinalizersKept(T) /\ T.free = S.free
<1>1. /\ T.free = S.free /\ T.udata = S.udata /\ T.tmudata = S.tmudata
      /\ T.finalized = S.finalized /\ T.owed = S.owed /\ T.called = S.called /\ Coloured(T)
  BY CalmFields
<1>2. Lists(T) /\ Calls(T)
  BY <1>1 DEF FinalizersKept, Lists, Calls, tofinalize
<1>3. DeadAreDone(T)
  BY <1>1 DEF FinalizersKept, DeadAreDone, Calm, tofinalize, Userdata, Of
<1> QED
  BY <1>1, <1>2, <1>3 DEF FinalizersKept

\* A calm step and another are one.
LEMMA CalmTwice ==
  ASSUME NEW S, NEW T, NEW U, Calm(S, T), Calm(T, U)
  PROVE  Calm(S, U)
BY DEF Calm, Same, StateFields, Others, Coloured

\* So are two that mark.
LEMMA MarksTwice ==
  ASSUME NEW S, NEW T, NEW U, Marks(S, T), Marks(T, U)
  PROVE  Marks(S, U)
BY CalmTwice DEF Marks

\* Nothing but the colours and other lists changes.
LEMMA Uncoloured ==
  ASSUME NEW S, Coloured(S), NEW T, DOMAIN T = StateFields,
         Same(S, T, Others \ {"marked"})
  PROVE  Marks(S, T)
BY DEF Marks, Calm, Same, StateFields, Others, Coloured, isdead, iswhite

\* An assertion that fails is noted.
LEMMA AssertMarks ==
  ASSUME NEW S, Coloured(S), NEW c, NEW n, NEW T, T = lua_assert(S, c, n)
  PROVE  Marks(S, T) /\ Same(S, T, {"bad"})
<1>1. CASE c
  BY <1>1 DEF lua_assert, Marks, Calm, Same, Coloured
<1>2. CASE ~ c
  <2>1. PICK b : b = S.bad \cup {n}
    OBVIOUS
  <2>2. T = [S EXCEPT !.bad = b]
    BY <1>2, <2>1 DEF lua_assert
  <2>3. DOMAIN T = StateFields /\ Same(S, T, {"bad"})
    BY <2>2 DEF Coloured, Same, StateFields, Others
  <2> QED
    BY <2>3, Uncoloured DEF Same, StateFields, Others
<1> QED
  BY <1>1, <1>2

\* New colours, none of them that of the dead.
LEMMA RecolouringIsCalm ==
  ASSUME NEW S, Coloured(S), NEW m, m \in [Obj -> Colours],
         \A o \in Obj : m[o] = "otherwhite" => S.marked[o] = "otherwhite",
         NEW T, DOMAIN T = StateFields, T.marked = m,
         Same(S, T, Others)
  PROVE  /\ Calm(S, T)
         /\ (\A o \in Obj : m[o] \in {"white", "otherwhite"} => iswhite(S, o)) => Marks(S, T)
BY DEF Marks, Calm, Same, StateFields, Others, Coloured, isdead, iswhite

\* makewhite makes nothing dead.
LEMMA MakewhiteIsCalm ==
  ASSUME NEW S, Coloured(S), NEW X, NEW T, T = makewhite(S, X)
  PROVE  /\ Calm(S, T) /\ T.marked = [o \in Obj |-> IF o \in X THEN "white" ELSE S.marked[o]]
<1>1. PICK m : m = [o \in Obj |-> IF o \in X THEN "white" ELSE S.marked[o]]
  OBVIOUS
<1>2. Same(S, T, {"marked"}) /\ T.marked = m
  BY <1>1, MakewhiteMakes DEF Coloured
<1>3. S.marked \in [Obj -> Colours] /\ "white" \in Colours
  BY DEF Coloured, Colours
<1>4. m \in [Obj -> Colours]
  BY <1>1, <1>3
<1>5. \A o \in Obj : m[o] = "otherwhite" => S.marked[o] = "otherwhite"
  BY <1>1
<1>6. DOMAIN T = StateFields /\ Same(S, T, Others)
  BY <1>2 DEF Same, StateFields, Others, Coloured
<1>7. Calm(S, T)
  BY <1>2, <1>4, <1>5, <1>6, RecolouringIsCalm
<1> QED
  BY <1>1, <1>2, <1>7

\* setmarks only marks, and makes userdata black.
LEMMA SetmarksMarksOnly ==
  ASSUME NEW S, Coloured(S), NEW objs, NEW T, T = setmarks(S, objs)
  PROVE  /\ Marks(S, T)
         /\ \A u \in objs : u \in Userdata => T.marked[u] = "black"
<1>1. PICK a : a = (\A o \in objs : ~ isdead(S, o))
  OBVIOUS
<1>2. PICK A : A = lua_assert(S, a, "reallymarkobject")
  OBVIOUS
<1>3. Marks(S, A) /\ Same(S, A, {"bad"})
  BY <1>2, AssertMarks
<1>4. A.marked = S.marked /\ A.gray = S.gray /\ DOMAIN A = StateFields
  BY <1>3 DEF Same, StateFields, Others, Coloured
<1>5. PICK m : m = [o \in Obj |-> IF o \notin objs THEN S.marked[o]
                                  ELSE IF turnsblack(S, o) THEN "black" ELSE "gray"]
  OBVIOUS
<1>6. PICK y : y = S.gray \cup {o \in objs : Kind[o] \in traversed}
  OBVIOUS
<1>7. T = [A EXCEPT !.marked = m, !.gray = y]
  BY <1>1, <1>2, <1>4, <1>5, <1>6 DEF setmarks, turnsblack
<1>8. T.marked = m /\ DOMAIN T = StateFields /\ Same(A, T, {"marked", "gray"})
  BY <1>4, <1>7 DEF Same, StateFields, Others
<1>9. Coloured(A)
  BY <1>3 DEF Marks, Calm
<1>10. m \in [Obj -> Colours] /\ \A o \in Obj : m[o] \in {"white", "otherwhite"} => m[o] = A.marked[o]
  BY <1>4, <1>5, <1>9 DEF Coloured, Colours
<1>11. Same(A, T, Others)
  BY <1>8 DEF Same, StateFields, Others
<1>12. Marks(A, T)
  BY <1>8, <1>9, <1>10, <1>11, RecolouringIsCalm DEF iswhite
<1>13. Marks(S, T)
  BY <1>3, <1>12, MarksTwice
<1>14. ASSUME NEW u \in objs, u \in Userdata PROVE T.marked[u] = "black"
  BY <1>5, <1>8, <1>14 DEF turnsblack, Userdata, Of
<1> QED
  BY <1>13, <1>14

\* markobject only marks.
LEMMA MarkobjectMarks ==
  ASSUME NEW S, Coloured(S), NEW values, NEW T, T = markobject(S, values)
  PROVE  Marks(S, T)
<1>1. PICK X : X = withfields(S, withvalues(S, {o \in values \cap Obj : iswhite(S, o)}))
  OBVIOUS
<1>2. T = setmarks(S, X)
  BY <1>1 DEF markobject, reallymarkobject
<1> QED
  BY <1>2, SetmarksMarksOnly

\* So does the traversal of some objects.
LEMMA TraverseMarks ==
  ASSUME NEW S, Coloured(S), NEW objs, NEW T, T = traverse(S, objs)
  PROVE  Marks(S, T)
<1>1. PICK W : W = {t \in objs \cap Of("table") : isweak(S, t)}
  OBVIOUS
<1>2. PICK H : H = objs \cap Of("thread")
  OBVIOUS
<1>3. PICK R : R = UNION {references(S, o) : o \in objs}
  OBVIOUS
<1>4. PICK G : G = gray2black(S, objs, W, H)
  OBVIOUS
<1>5. T = markobject(G, R)
  BY <1>1, <1>2, <1>3, <1>4 DEF traverse
<1>6. Marks(S, G)
  <2>1. PICK a : a = (\A o \in objs : isgray(S, o))
    OBVIOUS
  <2>2. PICK b : b = ((W \cup H) \cap (S.weak \cup S.grayagain) = {})
    OBVIOUS
  <2>3. PICK A : A = lua_assert(S, a, "propagatemark")
    OBVIOUS
  <2>4. PICK B : B = lua_assert(A, b, "gclist")
    OBVIOUS
  <2>5. Marks(S, A) /\ Same(S, A, {"bad"}) /\ Coloured(A)
    BY <2>3, AssertMarks DEF Marks, Calm
  <2>6. Marks(A, B) /\ Same(A, B, {"bad"}) /\ Coloured(B)
    BY <2>4, <2>5, AssertMarks DEF Marks, Calm
  <2>7. DOMAIN B = StateFields /\ B.heap = S.heap /\ B.marked = S.marked
    BY <2>5, <2>6 DEF Same, StateFields, Others, Coloured
  <2>8. PICK h : h = [o \in Obj |-> IF o \in objs /\ Kind[o] = "table" THEN removeentries(S, o) ELSE S.heap[o]]
    OBVIOUS
  <2>9. PICK m : m = [o \in Obj |-> IF o \in objs \ (W \cup H) THEN "black" ELSE S.marked[o]]
    OBVIOUS
  <2>10. G = [B EXCEPT !.heap = h, !.marked = m, !.gray = B.gray \ objs, !.weak = B.weak \cup W,
                       !.grayagain = B.grayagain \cup H]
    <3>1. B = lua_assert(lua_assert(S, \A o \in objs : isgray(S, o), "propagatemark"),
                         (W \cup H) \cap (S.weak \cup S.grayagain) = {}, "gclist")
      BY <2>1, <2>2, <2>3, <2>4
    <3>2. /\ h = [o \in Obj |-> IF o \in objs /\ Kind[o] = "table" THEN removeentries(S, o) ELSE B.heap[o]]
          /\ m = [o \in Obj |-> IF o \in objs \ (W \cup H) THEN "black" ELSE B.marked[o]]
      BY <2>7, <2>8, <2>9
    <3> QED
      BY <1>4, <3>1, <3>2 DEF gray2black
  <2>11. /\ G.marked = m /\ DOMAIN G = StateFields
         /\ Same(B, G, Others)
    BY <2>7, <2>10 DEF Same, StateFields, Others
  <2>12. m \in [Obj -> Colours] /\ \A o \in Obj : m[o] \in {"white", "otherwhite"} => m[o] = B.marked[o]
    BY <2>6, <2>7, <2>9 DEF Coloured, Colours
  <2>13. Marks(B, G)
    BY <2>6, <2>11, <2>12, RecolouringIsCalm DEF iswhite
  <2> QED
    BY <2>5, <2>6, <2>13, MarksTwice
<1>7. Marks(G, T)
  BY <1>5, <1>6, MarkobjectMarks DEF Marks, Calm
<1> QED
  BY <1>6, <1>7, MarksTwice

\* So does propagateall, whatever it traverses.
LEMMA PropagateallMarks ==
  ASSUME NEW S, Coloured(S), NEW T, T = propagateall(S)
  PROVE  Marks(S, T)
<1>1. PICK X : X = closedset(S,
    [o \in S.gray \cup {w \in Obj \ S.free : iswhite(S, w) /\ Kind[w] \in traversed} |-> newlygray(S, o)])
  OBVIOUS
<1>2. PICK m : m = [o \in Obj |-> IF o \in X \ S.gray THEN "gray" ELSE S.marked[o]]
  OBVIOUS
<1>3. PICK A : A = [S EXCEPT !.marked = m, !.gray = X]
  OBVIOUS
<1>4. T = traverse(A, X)
  BY <1>1, <1>2, <1>3 DEF propagateall, traverseall
<1>5. /\ A.marked = m /\ DOMAIN A = StateFields
      /\ Same(S, A, Others)
  BY <1>3 DEF Same, StateFields, Others, Coloured
<1>6. m \in [Obj -> Colours] /\ \A o \in Obj : m[o] \in {"white", "otherwhite"} => m[o] = S.marked[o]
  BY <1>2 DEF Coloured, Colours
<1>7. Marks(S, A)
  BY <1>5, <1>6, RecolouringIsCalm DEF iswhite
<1>8. Marks(A, T)
  BY <1>4, <1>7, TraverseMarks DEF Marks, Calm
<1> QED
  BY <1>7, <1>8, MarksTwice

\* cleartable removes entries and marks strings.
LEMMA CleartableMarks ==
  ASSUME NEW S, Coloured(S), NEW T, T = cleartable(S)
  PROVE  Marks(S, T)
<1>1. PICK h : h = [o \in Obj |-> IF o \in S.weak THEN keptentries(S, o) ELSE S.heap[o]]
  OBVIOUS
<1>2. PICK m : m = [o \in Obj |-> IF Kind[o] = "string" /\ iswhite(S, o) /\ \E t \in S.weak : o \in entries(S, t)
                                   THEN "gray" ELSE S.marked[o]]
  OBVIOUS
<1>3. T = [S EXCEPT !.heap = h, !.marked = m]
  BY <1>1, <1>2 DEF cleartable
<1>4. /\ T.marked = m /\ DOMAIN T = StateFields
      /\ Same(S, T, Others)
  BY <1>3 DEF Same, StateFields, Others, Coloured
<1>5. m \in [Obj -> Colours] /\ \A o \in Obj : m[o] \in {"white", "otherwhite"} => m[o] = S.marked[o]
  <2>1. S.marked \in [Obj -> Colours] /\ "gray" \in Colours /\ "gray" \notin {"white", "otherwhite"}
    BY DEF Coloured, Colours
  <2>2. ASSUME NEW o \in Obj PROVE m[o] = "gray" \/ m[o] = S.marked[o]
    BY <1>2
  <2>3. ASSUME NEW o \in Obj PROVE m[o] \in Colours
    BY <2>1, <2>2
  <2>4. DOMAIN m = Obj /\ m = [o \in Obj |-> m[o]]
    BY <1>2
  <2> QED
    BY <2>1, <2>2, <2>3, <2>4
<1> QED
  BY <1>4, <1>5, RecolouringIsCalm DEF iswhite

\* A step that frees no userdata.
Quiet(S, T) == FinalizersKept(T) /\ T.free \cap Userdata \subseteq S.free

\* A calm step frees nothing.
LEMMA CalmIsQuiet ==
  ASSUME NEW S, FinalizersKept(S), NEW T, Calm(S, T)
  PROVE  Quiet(S, T)
BY CalmKeeps DEF Quiet

\* The colours after a calm step are colours.
LEMMA CalmColours ==
  ASSUME NEW S, NEW T, Calm(S, T)
  PROVE  Coloured(T)
BY DEF Calm

\* Only the objects change.
LEMMA HeapIsCalm ==
  ASSUME NEW S, Coloured(S), NEW h, NEW T, T = [S EXCEPT !.heap = h]
  PROVE  Calm(S, T)
<1>1. DOMAIN T = StateFields /\ Same(S, T, Others \ {"marked"})
  BY DEF Same, StateFields, Others, Coloured
<1> QED
  BY <1>1, Uncoloured DEF Marks

\* No step is a calm one.
LEMMA SameIsCalm ==
  ASSUME NEW S, Coloured(S)
  PROVE  Calm(S, S)
BY DEF Calm, Same, Coloured

\* A value is pushed.
LEMMA PushIsCalm ==
  ASSUME NEW S, Coloured(S), NEW v, NEW T, T = push(S, v)
  PROVE  Calm(S, T)
<1>1. PICK h : h = [S.heap EXCEPT ![S.L].stack = Append(@, v)]
  OBVIOUS
<1>2. T = [S EXCEPT !.heap = h]
  BY <1>1 DEF push
<1> QED
  BY <1>2, HeapIsCalm

\* The barrier that moves the collector forward marks, or makes white.
LEMMA BarrierfIsCalm ==
  ASSUME NEW S, Coloured(S), NEW o, NEW v, NEW T, T = luaC_barrierf(S, o, v)
  PROVE  Calm(S, T)
<1>1. PICK a : a = (~ isdead(S, v) /\ ~ isdead(S, o))
  OBVIOUS
<1>2. PICK b : b = (S.gcstate \notin {"finalize", "pause"})
  OBVIOUS
<1>3. PICK A : A = lua_assert(S, a, "barrierf")
  OBVIOUS
<1>4. PICK B : B = lua_assert(A, b, "barrierf outside a cycle")
  OBVIOUS
<1>5. Calm(S, A) /\ Coloured(A)
  BY <1>3, AssertMarks, CalmColours DEF Marks
<1>6. Calm(S, B) /\ Coloured(B)
  BY <1>4, <1>5, AssertMarks, CalmTwice, CalmColours DEF Marks
<1>7. PICK X : X = withfields(B, withvalues(B, {v}))
  OBVIOUS
<1>8. PICK Y : Y = {o}
  OBVIOUS
<1>9. B = lua_assert(lua_assert(S, ~ isdead(S, v) /\ ~ isdead(S, o), "barrierf"),
                     S.gcstate \notin {"finalize", "pause"}, "barrierf outside a cycle")
  BY <1>1, <1>2, <1>3, <1>4
<1>10. T = setmarks(B, X) \/ T = makewhite(B, Y)
  BY <1>7, <1>8, <1>9 DEF luaC_barrierf, reallymarkobject
<1>11. Calm(B, T)
  BY <1>6, <1>10, SetmarksMarksOnly, MakewhiteIsCalm DEF Marks
<1> QED
  BY <1>6, <1>11, CalmTwice

\* So does luaC_barrier, or nothing.
LEMMA BarrierIsCalm ==
  ASSUME NEW S, Coloured(S), NEW o, NEW v, NEW T, T = luaC_barrier(S, o, v)
  PROVE  Calm(S, T)
<1>1. T = S \/ T = luaC_barrierf(S, o, v)
  BY DEF luaC_barrier
<1> QED
  BY <1>1, SameIsCalm, BarrierfIsCalm

\* The barrier that moves it back makes a table gray.
LEMMA BarriertIsCalm ==
  ASSUME NEW S, Coloured(S), NEW t, NEW v, NEW T, T = luaC_barriert(S, t, v)
  PROVE  Calm(S, T)
<1>1. T = S \/ T = luaC_barrierback(S, t)
  BY DEF luaC_barriert
<1>2. CASE T = luaC_barrierback(S, t)
  <2>1. PICK a : a = (S.gcstate \notin {"finalize", "pause"})
    OBVIOUS
  <2>2. PICK b : b = (t \notin S.gray \cup S.grayagain \cup S.weak \/ S.gcstate # "propagate")
    OBVIOUS
  <2>3. PICK A : A = lua_assert(S, a, "barrierback")
    OBVIOUS
  <2>4. PICK B : B = lua_assert(A, b, "gclist")
    OBVIOUS
  <2>5. Calm(S, A) /\ Coloured(A)
    BY <2>3, AssertMarks, CalmColours DEF Marks
  <2>6. Calm(S, B) /\ Coloured(B)
    BY <2>4, <2>5, AssertMarks, CalmTwice, CalmColours DEF Marks
  <2>7. PICK m : m = [B.marked EXCEPT ![t] = "gray"]
    OBVIOUS
  <2>8. B = lua_assert(lua_assert(S, S.gcstate \notin {"finalize", "pause"}, "barrierback"),
                       t \notin S.gray \cup S.grayagain \cup S.weak \/ S.gcstate # "propagate", "gclist")
    BY <2>1, <2>2, <2>3, <2>4
  <2>9. T = [B EXCEPT !.marked = m, !.grayagain = B.grayagain \cup {t}]
    BY <1>2, <2>7, <2>8 DEF luaC_barrierback
  <2>10. DOMAIN T = StateFields /\ T.marked = m /\ Same(B, T, Others)
    BY <2>6, <2>9 DEF Same, StateFields, Others, Coloured
  <2>11. m \in [Obj -> Colours] /\ \A o \in Obj : m[o] = "otherwhite" => B.marked[o] = "otherwhite"
    BY <2>6, <2>7 DEF Coloured, Colours
  <2>12. Calm(B, T)
    BY <2>6, <2>10, <2>11, RecolouringIsCalm
  <2> QED
    BY <2>6, <2>12, CalmTwice
<1> QED
  BY <1>1, <1>2, SameIsCalm

\* Upvalues that are closed are made black or white.
LEMMA LinkupvalIsCalm ==
  ASSUME NEW S, Coloured(S), NEW upvals, NEW T, T = luaC_linkupval(S, upvals)
  PROVE  Calm(S, T)
<1>1. PICK grays : grays = {u \in upvals : isgray(S, u)}
  OBVIOUS
<1>2. CASE S.gcstate = "propagate"
  <2>1. PICK A : A = blacken(S, grays)
    OBVIOUS
  <2>2. PICK X : X = {S.heap[u].v : u \in grays}
    OBVIOUS
  <2>3. T = markobject(A, X)
    BY <1>1, <1>2, <2>1, <2>2 DEF luaC_linkupval
  <2>4. PICK m : m = [o \in Obj |-> IF o \in grays THEN "black" ELSE S.marked[o]]
    OBVIOUS
  <2>5. A = [S EXCEPT !.marked = m]
    BY <2>1, <2>4 DEF blacken
  <2>6. DOMAIN A = StateFields /\ A.marked = m /\ Same(S, A, Others)
    BY <2>5 DEF Same, StateFields, Others, Coloured
  <2>7. m \in [Obj -> Colours] /\ \A o \in Obj : m[o] = "otherwhite" => S.marked[o] = "otherwhite"
    BY <2>4 DEF Coloured, Colours
  <2>8. Calm(S, A) /\ Coloured(A)
    BY <2>6, <2>7, RecolouringIsCalm, CalmColours
  <2>9. Calm(A, T)
    BY <2>3, <2>8, MarkobjectMarks DEF Marks
  <2> QED
    BY <2>8, <2>9, CalmTwice
<1>3. CASE S.gcstate # "propagate"
  <2>1. PICK a : a = (grays = {} \/ S.gcstate \notin {"finalize", "pause"})
    OBVIOUS
  <2>2. PICK A : A = lua_assert(S, a, "linkupval")
    OBVIOUS
  <2>3. T = makewhite(A, grays)
    BY <1>1, <1>3, <2>1, <2>2 DEF luaC_linkupval
  <2>4. Calm(S, A) /\ Coloured(A)
    BY <2>2, AssertMarks, CalmColours DEF Marks
  <2> QED
    BY <2>3, <2>4, MakewhiteIsCalm, CalmTwice
<1> QED
  BY <1>2, <1>3

\* What is freed waits for no finalizer.
LEMMA FreeingKeeps ==
  ASSUME NEW S, FinalizersKept(S), NEW F \in SUBSET Obj, F \cap tofinalize(S) = {}, NEW T, T = free(S, F)
  PROVE  FinalizersKept(T) /\ T.free = S.free \cup F
<1>1. DOMAIN S = StateFields /\ S.marked \in [Obj -> Colours] /\ S.free \cup S.sweep \cup S.strings \subseteq Obj
  BY DEF FinalizersKept, Coloured
<1>2. PICK h : h = [o \in Obj |-> IF o \in F THEN Blank ELSE S.heap[o]]
  OBVIOUS
<1>3. PICK m : m = [o \in Obj |-> IF o \in F THEN "white" ELSE S.marked[o]]
  OBVIOUS
<1>4. PICK c : c = [o \in Obj |-> IF o \in F THEN 0 ELSE S.called[o]]
  OBVIOUS
<1>5. PICK u : u = only(S.udata, Obj \ F)
  OBVIOUS
<1>6. T = [S EXCEPT !.free = S.free \cup F, !.heap = h, !.marked = m, !.called = c,
                    !.finalized = S.finalized \ F, !.owed = S.owed \ F, !.udata = u]
  BY <1>2, <1>3, <1>4, <1>5 DEF free
<1>7. /\ T.free = S.free \cup F /\ T.marked = m /\ T.udata = u /\ T.called = c /\ T.tmudata = S.tmudata
      /\ T.finalized = S.finalized \ F /\ T.owed = S.owed \ F /\ T.sweep = S.sweep /\ T.strings = S.strings
      /\ DOMAIN T = StateFields
  BY <1>1, <1>6 DEF StateFields
<1>8. /\ u \in Seq(Userdata) /\ Range(u) = Range(S.udata) \cap (Obj \ F) /\ IsInjective(u)
      /\ Range(S.udata) \subseteq Userdata
  <2>1. S.udata \in Seq(Userdata) /\ IsInjective(S.udata)
    BY DEF FinalizersKept, Lists
  <2>2. PICK X : X = Obj \ F
    OBVIOUS
  <2>3. u = only(S.udata, X)
    BY <1>5, <2>2
  <2>4. u \in Seq(Userdata) /\ Range(u) = Range(S.udata) \cap X /\ IsInjective(u)
    BY <2>1, <2>3, OnlySelects
  <2>5. Range(S.udata) \subseteq Userdata
    BY <2>1 DEF Range
  <2> QED
    BY <2>2, <2>4, <2>5
<1>9. Userdata \subseteq Obj
  BY DEF Userdata, Of
<1>10. Coloured(T)
  <2>1. m \in [Obj -> Colours]
    BY <1>1, <1>3 DEF Colours
  <2> QED
    BY <1>1, <1>7, <2>1 DEF Coloured
<1>11. tofinalize(T) = tofinalize(S)
  BY <1>7 DEF tofinalize
<1>12. Lists(T)
  BY <1>7, <1>8, <1>9, <1>11 DEF FinalizersKept, Lists
<1>13. Calls(T)
  <2>1. c \in [Obj -> {0, 1}]
    BY <1>4 DEF FinalizersKept, Calls
  <2>2. ASSUME NEW o \in Userdata PROVE c[o] = 1 <=> o \in T.owed \ tofinalize(T)
    <3>1. CASE o \in F
      BY <1>4, <1>7, <1>9, <3>1
    <3>2. CASE o \notin F
      BY <1>4, <1>7, <1>9, <1>11, <3>2 DEF FinalizersKept, Calls
    <3> QED
      BY <3>1, <3>2
  <2>3. T.finalized \subseteq Userdata \ T.free /\ tofinalize(T) \subseteq T.owed /\ T.owed \subseteq T.finalized
    BY <1>7, <1>11 DEF FinalizersKept, Calls
  <2> QED
    BY <1>7, <2>1, <2>2, <2>3 DEF Calls
<1>14. DeadAreDone(T)
  BY <1>3, <1>7, <1>9, <1>11 DEF FinalizersKept, DeadAreDone, isdead
<1> QED
  BY <1>7, <1>10, <1>12, <1>13, <1>14 DEF FinalizersKept

\* Closing upvalues frees no userdata.
LEMMA LuafCloseIsQuiet ==
  ASSUME NEW S, FinalizersKept(S), NEW threads, NEW level, NEW T, T = luaF_close(S, threads, level)
  PROVE  Quiet(S, T) /\ T.tmudata = S.tmudata
<1>1. PICK U : U = {u \in openupvals(S) : S.heap[u].at[1] \in threads /\ S.heap[u].at[2] >= level}
  OBVIOUS
<1>2. PICK dead : dead = {u \in U : isdead(S, u)}
  OBVIOUS
<1>3. PICK a : a = (\A u \in U : ~ isblack(S, u))
  OBVIOUS
<1>4. PICK A : A = lua_assert(S, a, "luaF_close")
  OBVIOUS
<1>5. PICK B : B = free(A, dead)
  OBVIOUS
<1>6. PICK C : C = closeupvals(B, U \ dead)
  OBVIOUS
<1>7. T = luaC_linkupval(C, U \ dead)
  BY Zenon, <1>1, <1>2, <1>3, <1>4, <1>5, <1>6 DEF luaF_close
<1>8. Coloured(S)
  BY DEF FinalizersKept
<1>9. FinalizersKept(A) /\ A.free = S.free /\ A.tmudata = S.tmudata
  BY <1>4, <1>8, AssertMarks, CalmKeeps, CalmFields DEF Marks
<1>10. U \subseteq Of("upval")
  BY <1>1 DEF openupvals
<1>11. Of("upval") \subseteq Obj /\ Of("upval") \cap Userdata = {}
  BY DEF Of, Userdata
<1>12. tofinalize(A) \subseteq Userdata
  BY <1>9 DEF FinalizersKept, Calls
<1>13. dead \in SUBSET Obj /\ dead \cap tofinalize(A) = {} /\ dead \cap Userdata = {}
  BY <1>2, <1>10, <1>11, <1>12
<1>14. FinalizersKept(B) /\ B.free = A.free \cup dead
  BY <1>5, <1>9, <1>13, FreeingKeeps
<1>15. PICK V : V = U \ dead
  OBVIOUS
<1>16. PICK h : h = [o \in Obj |-> IF o \in V THEN [B.heap[o] EXCEPT !.v = uvalue(B, o), !.at = <<>>] ELSE B.heap[o]]
  OBVIOUS
<1>17. C = [B EXCEPT !.heap = h]
  BY <1>6, <1>15, <1>16 DEF closeupvals
<1>18. Coloured(B)
  BY <1>14 DEF FinalizersKept
<1>19. Calm(B, C) /\ Coloured(C)
  BY <1>17, <1>18, HeapIsCalm, CalmColours
<1>20. Calm(C, T)
  BY <1>7, <1>19, LinkupvalIsCalm
<1>21. FinalizersKept(T) /\ T.free = B.free
  BY <1>14, <1>19, <1>20, CalmTwice, CalmKeeps
<1>22. T.tmudata = S.tmudata
  <2>1. B.tmudata = A.tmudata
    <3>1. DOMAIN A = StateFields
      BY <1>9 DEF FinalizersKept, Coloured
    <3> QED
      BY <1>5, <3>1 DEF free, StateFields
  <2> QED
    BY <1>9, <1>19, <1>20, <2>1, CalmFields
<1> QED
  BY <1>9, <1>13, <1>14, <1>21, <1>22 DEF Quiet

\* Userdata that are freed were found dead, and their finalizers, if they had any, were called.
Frees(S, T) ==
  \A u \in Userdata : u \in T.free \ S.free => u \in S.finalized /\ (u \in S.owed => S.called[u] = 1)

\* The sweep frees the dead: threads with their upvalues, and userdata that wait for no finalizer.
LEMMA SweeplistFrees ==
  ASSUME NEW S, FinalizersKept(S), NEW objs \in SUBSET Obj, NEW T, T = sweeplist(S, objs)
  PROVE  FinalizersKept(T) /\ Frees(S, T)
<1>1. PICK upvals : upvals = {u \in openupvals(S) : S.heap[u].at[1] \in objs}
  OBVIOUS
<1>2. PICK dead : dead = {o \in objs \cup upvals : isdead(S, o) /\ o # MainThread}
  OBVIOUS
<1>3. PICK a : a = (S.L \notin dead)
  OBVIOUS
<1>4. PICK A : A = lua_assert(S, a, "freeobj")
  OBVIOUS
<1>5. PICK F : F = dead \ Of("thread")
  OBVIOUS
<1>6. PICK B : B = free(A, F)
  OBVIOUS
<1>7. PICK X : X = (objs \cup upvals) \ dead
  OBVIOUS
<1>8. PICK C : C = makewhite(B, X)
  OBVIOUS
<1>9. PICK H : H = dead \cap Of("thread")
  OBVIOUS
<1>10. PICK D : D = luaF_close(C, H, 1)
  OBVIOUS
<1>11. T = free(D, H)
  BY Zenon, <1>1, <1>2, <1>3, <1>4, <1>5, <1>6, <1>7, <1>8, <1>9, <1>10 DEF sweeplist, luaE_freethread
<1>12. Coloured(S)
  BY DEF FinalizersKept
<1>13. FinalizersKept(A) /\ A.free = S.free /\ A.tmudata = S.tmudata
  BY <1>4, <1>12, AssertMarks, CalmKeeps, CalmFields DEF Marks
<1>14. dead \subseteq Obj
  BY <1>1, <1>2 DEF openupvals, Of
<1>15. ASSUME NEW u \in dead, u \in Userdata PROVE u \in S.finalized \ tofinalize(S)
  BY <1>2, <1>15 DEF FinalizersKept, DeadAreDone
<1>16. tofinalize(A) = tofinalize(S) /\ tofinalize(A) \subseteq Userdata
  BY <1>13 DEF tofinalize, FinalizersKept, Calls
<1>17. F \in SUBSET Obj /\ F \cap tofinalize(A) = {}
  BY <1>5, <1>14, <1>15, <1>16
<1>18. FinalizersKept(B) /\ B.free = S.free \cup F
  BY <1>6, <1>13, <1>17, FreeingKeeps
<1>19. Coloured(B)
  BY <1>18 DEF FinalizersKept
<1>20. FinalizersKept(C) /\ C.free = S.free \cup F
  BY <1>8, <1>18, <1>19, MakewhiteIsCalm, CalmKeeps
<1>21. FinalizersKept(D) /\ D.free \cap Userdata \subseteq C.free
  BY <1>10, <1>20, LuafCloseIsQuiet DEF Quiet
<1>22. H \in SUBSET Obj /\ H \cap Userdata = {}
  BY <1>9 DEF Of, Userdata
<1>23. H \cap tofinalize(D) = {}
  BY <1>21, <1>22 DEF FinalizersKept, Calls
<1>24. FinalizersKept(T) /\ T.free = D.free \cup H
  BY <1>11, <1>21, <1>22, <1>23, FreeingKeeps
<1>25. ASSUME NEW u \in Userdata, u \in T.free \ S.free
       PROVE  u \in S.finalized /\ (u \in S.owed => S.called[u] = 1)
  <2>1. u \in F
    BY <1>20, <1>21, <1>22, <1>24, <1>25
  <2>2. u \in S.finalized \ tofinalize(S)
    BY <1>5, <1>15, <2>1
  <2> QED
    BY <2>2 DEF FinalizersKept, Calls
<1> QED
  BY <1>24, <1>25 DEF Frees

\* A new object that is no userdata.
LEMMA LinkIsQuiet ==
  ASSUME NEW S, FinalizersKept(S), NEW o \in Obj \ Userdata, NEW x, NEW T, T = luaC_link(S, o, x)
  PROVE  Quiet(S, T)
<1>1. PICK h : h = [S.heap EXCEPT ![o] = x]
  OBVIOUS
<1>2. PICK m : m = [S.marked EXCEPT ![o] = "white"]
  OBVIOUS
<1>3. T = [S EXCEPT !.free = S.free \ {o}, !.heap = h, !.marked = m]
  BY <1>1, <1>2 DEF luaC_link
<1>4. DOMAIN S = StateFields /\ S.marked \in [Obj -> Colours] /\ S.free \cup S.sweep \cup S.strings \subseteq Obj
  BY DEF FinalizersKept, Coloured
<1>5. /\ DOMAIN T = StateFields /\ T.free = S.free \ {o} /\ T.marked = m
      /\ T.udata = S.udata /\ T.tmudata = S.tmudata /\ T.finalized = S.finalized /\ T.owed = S.owed
      /\ T.called = S.called /\ T.sweep = S.sweep /\ T.strings = S.strings
  BY <1>3, <1>4 DEF StateFields
<1>6. m \in [Obj -> Colours] /\ \A p \in Obj : m[p] = "otherwhite" => S.marked[p] = "otherwhite"
  BY <1>2, <1>4 DEF Colours
<1>7. Coloured(T)
  BY <1>4, <1>5, <1>6 DEF Coloured
<1>8. Lists(T) /\ Calls(T)
  BY <1>5 DEF FinalizersKept, Lists, Calls, tofinalize
<1>9. DeadAreDone(T)
  BY <1>5, <1>6 DEF FinalizersKept, DeadAreDone, isdead, tofinalize, Userdata, Of
<1> QED
  BY <1>5, <1>7, <1>8, <1>9 DEF Quiet, FinalizersKept

\* A userdata that is found dead is to be finalized if it has a finalizer, and is not looked at again.
LEMMA SeparateFinds ==
  ASSUME NEW S, FinalizersKept(S), NEW all, NEW T, T = luaC_separateudata(S, all)
  PROVE  /\ FinalizersKept(T) /\ T.free = S.free
         /\ \A u \in Userdata \ T.free : iswhite(T, u) => u \in T.finalized
<1>1. PICK found : found = {u \in Range(S.udata) : (iswhite(S, u) \/ all) /\ u \notin S.finalized}
  OBVIOUS
<1>2. PICK gc : gc = {u \in found : has(S, u, "__gc")}
  OBVIOUS
<1>3. PICK q : q = only(S.udata, gc)
  OBVIOUS
<1>4. PICK r : r = only(S.udata, Obj \ gc)
  OBVIOUS
<1>5. PICK t : t = S.tmudata \o q
  OBVIOUS
<1>6. T = [S EXCEPT !.finalized = S.finalized \cup found, !.owed = S.owed \cup gc, !.tmudata = t, !.udata = r]
  BY <1>1, <1>2, <1>3, <1>4, <1>5 DEF luaC_separateudata
<1>7. DOMAIN S = StateFields
  BY DEF FinalizersKept, Coloured
<1>8. /\ DOMAIN T = StateFields /\ T.finalized = S.finalized \cup found /\ T.owed = S.owed \cup gc
      /\ T.tmudata = t /\ T.udata = r /\ T.free = S.free /\ T.marked = S.marked /\ T.called = S.called
      /\ T.sweep = S.sweep /\ T.strings = S.strings
  BY <1>6, <1>7 DEF StateFields
<1>9. /\ S.udata \in Seq(Userdata) /\ IsInjective(S.udata) /\ S.tmudata \in Seq(Userdata) /\ IsInjective(S.tmudata)
      /\ Range(S.udata) \cap tofinalize(S) = {}
  BY DEF FinalizersKept, Lists
<1>10. Range(S.udata) \subseteq Userdata /\ Userdata \subseteq Obj
  BY <1>9 DEF Range, Userdata, Of
<1>11. found \subseteq Range(S.udata) /\ gc \subseteq found /\ found \cap S.finalized = {}
  BY <1>1, <1>2
<1>12. q \in Seq(Userdata) /\ Range(q) = gc /\ IsInjective(q)
  <2>1. q \in Seq(Userdata) /\ Range(q) = Range(S.udata) \cap gc /\ IsInjective(q)
    BY <1>3, <1>9, OnlySelects
  <2> QED
    BY <1>11, <2>1
<1>13. r \in Seq(Userdata) /\ Range(r) = Range(S.udata) \ gc /\ IsInjective(r)
  <2>1. PICK X : X = Obj \ gc
    OBVIOUS
  <2>2. r = only(S.udata, X)
    BY <1>4, <2>1
  <2>3. r \in Seq(Userdata) /\ Range(r) = Range(S.udata) \cap X /\ IsInjective(r)
    BY <1>9, <2>2, OnlySelects
  <2> QED
    BY <1>10, <2>1, <2>3
<1>14. t \in Seq(Userdata) /\ Range(t) = Range(S.tmudata) \cup gc /\ IsInjective(t)
  <2>1. Range(S.tmudata) \cap Range(q) = {}
    BY <1>9, <1>11, <1>12 DEF tofinalize
  <2>2. t \in Seq(Userdata) /\ Range(t) = Range(S.tmudata) \cup Range(q)
    BY <1>5, <1>9, <1>12, RangeOfConcat
  <2>3. IsInjective(t)
    BY <1>5, <1>9, <1>12, <2>1, ConcatIsInjective
  <2> QED
    BY <1>12, <2>2, <2>3
<1>15. tofinalize(T) = tofinalize(S) \cup gc
  BY <1>8, <1>14 DEF tofinalize
<1>16. Coloured(T)
  BY <1>8 DEF FinalizersKept, Coloured
<1>17. Lists(T)
  BY <1>8, <1>11, <1>13, <1>14, <1>15 DEF FinalizersKept, Lists
<1>18. Calls(T)
  <2>1. T.finalized \subseteq Userdata \ T.free
    BY <1>8, <1>10, <1>11 DEF FinalizersKept, Calls, Lists
  <2>2. ASSUME NEW u \in Userdata PROVE T.called[u] = 1 <=> u \in T.owed \ tofinalize(T)
    <3>1. u \in gc => u \notin S.owed
      BY <1>11 DEF FinalizersKept, Calls
    <3> QED
      BY <1>8, <1>15, <3>1 DEF FinalizersKept, Calls
  <2> QED
    BY <1>8, <1>11, <1>15, <2>1, <2>2 DEF FinalizersKept, Calls
<1>19. DeadAreDone(T)
  BY <1>8, <1>11, <1>15 DEF FinalizersKept, DeadAreDone, isdead
<1>20. ASSUME NEW u \in Userdata \ T.free, iswhite(T, u) PROVE u \in T.finalized
  <2>1. iswhite(S, u) /\ u \notin S.free
    BY <1>8, <1>20 DEF iswhite
  <2>2. u \in S.finalized \/ u \in Range(S.udata)
    BY <2>1 DEF FinalizersKept, Lists
  <2> QED
    BY <1>1, <1>8, <2>1, <2>2
<1> QED
  BY <1>8, <1>16, <1>17, <1>18, <1>19, <1>20 DEF FinalizersKept

\* The userdata to finalize are marked: what is white after it was found, and waits for nothing.
LEMMA MarktmuMarks ==
  ASSUME NEW S, FinalizersKept(S), \A u \in Userdata \ S.free : iswhite(S, u) => u \in S.finalized, NEW T, T = marktmu(S)
  PROVE  /\ FinalizersKept(T) /\ T.free = S.free
         /\ \A u \in Userdata \ T.free : iswhite(T, u) => u \in T.finalized \ tofinalize(T)
<1>1. PICK R : R = Range(S.tmudata)
  OBVIOUS
<1>2. PICK B : B = makewhite(S, R)
  OBVIOUS
<1>3. PICK X : X = withfields(B, withvalues(B, R))
  OBVIOUS
<1>4. T = setmarks(B, X)
  BY <1>1, <1>2, <1>3 DEF marktmu, reallymarkobject
<1>5. R \subseteq X
  BY <1>3 DEF withfields, withvalues
<1>6. Coloured(S)
  BY DEF FinalizersKept
<1>7. Calm(S, B) /\ Coloured(B) /\ B.marked = [o \in Obj |-> IF o \in R THEN "white" ELSE S.marked[o]]
  BY <1>2, <1>6, MakewhiteIsCalm, CalmColours
<1>8. Marks(B, T) /\ \A u \in X : u \in Userdata => T.marked[u] = "black"
  BY <1>4, <1>7, SetmarksMarksOnly
<1>9. Calm(S, T)
  BY <1>7, <1>8, CalmTwice DEF Marks
<1>10. FinalizersKept(T) /\ T.free = S.free /\ T.tmudata = S.tmudata /\ T.finalized = S.finalized
  BY <1>9, CalmKeeps, CalmFields
<1>11. ASSUME NEW u \in Userdata \ T.free, iswhite(T, u) PROVE u \in T.finalized \ tofinalize(T)
  <2>1. u \notin R
    BY <1>5, <1>8, <1>11 DEF iswhite
  <2>2. u \in Obj
    BY DEF Userdata, Of
  <2>3. iswhite(B, u)
    BY <1>8, <1>11, <2>2 DEF Marks
  <2>4. iswhite(S, u)
    BY <1>7, <2>1, <2>2, <2>3 DEF iswhite
  <2> QED
    BY <1>1, <1>10, <2>1, <2>4 DEF tofinalize
<1> QED
  BY <1>10, <1>11

\* The end of the marking: the userdata that are dead after it were found.
LEMMA AtomicIsQuiet ==
  ASSUME NEW S, FinalizersKept(S), NEW T, T = atomic(S)
  PROVE  Quiet(S, T)
<1>1. PICK A1 : A1 = remarkupvals(S)
  OBVIOUS
<1>2. PICK A2 : A2 = propagateall(A1)
  OBVIOUS
<1>3. PICK A3 : A3 = remarkweak(A2)
  OBVIOUS
<1>4. PICK A4 : A4 = propagateall(A3)
  OBVIOUS
<1>5. PICK A5 : A5 = remarkgray(A4)
  OBVIOUS
<1>6. PICK A6 : A6 = propagateall(A5)
  OBVIOUS
<1>7. PICK A7 : A7 = luaC_separateudata(A6, FALSE)
  OBVIOUS
<1>8. PICK A8 : A8 = marktmu(A7)
  OBVIOUS
<1>9. PICK A9 : A9 = propagateall(A8)
  OBVIOUS
<1>10. PICK A10 : A10 = cleartable(A9)
  OBVIOUS
<1>11. PICK A11 : A11 = flipwhite(A10)
  OBVIOUS
<1>12. T = startsweep(A11)
  BY <1>1, <1>2, <1>3, <1>4, <1>5, <1>6, <1>7, <1>8, <1>9, <1>10, <1>11 DEF atomic
<1>13. Coloured(S)
  BY DEF FinalizersKept
<1>14. Calm(S, A1) /\ Coloured(A1)
  <2>1. PICK X : X = {uvalue(S, u) : u \in {w \in openupvals(S) : isgray(S, w)}}
    OBVIOUS
  <2>2. A1 = markobject(S, X)
    BY <1>1, <2>1 DEF remarkupvals
  <2> QED
    BY <1>13, <2>2, MarkobjectMarks, CalmColours DEF Marks
<1>15. Calm(S, A2) /\ Coloured(A2)
  BY <1>2, <1>14, PropagateallMarks, CalmTwice, CalmColours DEF Marks
<1>16. Calm(A2, A3) /\ Coloured(A3)
  <2>1. PICK a : a = (~ iswhite(A2, MainThread))
    OBVIOUS
  <2>2. PICK B : B = lua_assert(A2, a, "atomic")
    OBVIOUS
  <2>3. PICK C : C = [B EXCEPT !.gray = A2.weak, !.weak = {}]
    OBVIOUS
  <2>4. PICK X : X = {A2.L}
    OBVIOUS
  <2>5. A3 = markobject(C, X)
    BY <1>3, <2>1, <2>2, <2>3, <2>4 DEF remarkweak
  <2>6. Calm(A2, B) /\ Coloured(B)
    BY <1>15, <2>2, AssertMarks, CalmColours DEF Marks
  <2>7. DOMAIN C = StateFields /\ Same(B, C, Others \ {"marked"})
    BY <2>3, <2>6 DEF Same, StateFields, Others, Coloured
  <2>8. Calm(B, C) /\ Coloured(C)
    BY <2>6, <2>7, Uncoloured, CalmColours DEF Marks
  <2>9. Calm(C, A3)
    BY <2>5, <2>8, MarkobjectMarks DEF Marks
  <2> QED
    BY <2>6, <2>8, <2>9, CalmTwice, CalmColours
<1>17. Calm(S, A4) /\ Coloured(A4)
  BY <1>4, <1>15, <1>16, PropagateallMarks, CalmTwice, CalmColours DEF Marks
<1>18. Calm(A4, A5) /\ Coloured(A5)
  <2>1. A5 = [A4 EXCEPT !.gray = A4.grayagain, !.grayagain = {}]
    BY <1>5 DEF remarkgray
  <2>2. DOMAIN A5 = StateFields /\ Same(A4, A5, Others \ {"marked"})
    BY <1>17, <2>1 DEF Same, StateFields, Others, Coloured
  <2> QED
    BY <1>17, <2>2, Uncoloured, CalmColours DEF Marks
<1>19. Calm(S, A6)
  BY <1>6, <1>17, <1>18, PropagateallMarks, CalmTwice DEF Marks
<1>20. FinalizersKept(A6) /\ A6.free = S.free
  BY <1>19, CalmKeeps
<1>21. FinalizersKept(A7) /\ A7.free = S.free /\ \A u \in Userdata \ A7.free : iswhite(A7, u) => u \in A7.finalized
  BY <1>7, <1>20, SeparateFinds
<1>22. /\ FinalizersKept(A8) /\ A8.free = S.free
       /\ \A u \in Userdata \ A8.free : iswhite(A8, u) => u \in A8.finalized \ tofinalize(A8)
  BY <1>8, <1>21, MarktmuMarks
<1>23. Marks(A8, A9) /\ Coloured(A9)
  BY <1>9, <1>22, PropagateallMarks, CalmColours DEF Marks, FinalizersKept
<1>24. Marks(A8, A10)
  BY <1>10, <1>23, CleartableMarks, MarksTwice
<1>25. FinalizersKept(A10) /\ A10.free = S.free /\ A10.finalized = A8.finalized /\ A10.tmudata = A8.tmudata
  BY <1>22, <1>24, CalmKeeps, CalmFields DEF Marks
<1>26. ASSUME NEW u \in Userdata \ A10.free, iswhite(A10, u) PROVE u \in A10.finalized \ tofinalize(A10)
  <2>1. u \in Obj
    BY DEF Userdata, Of
  <2>2. iswhite(A8, u)
    BY <1>24, <1>26, <2>1 DEF Marks
  <2> QED
    BY <1>22, <1>25, <2>2 DEF tofinalize
<1>27. PICK m : m = [o \in Obj |-> IF A10.marked[o] = "white" /\ o \notin A10.free THEN "otherwhite" ELSE A10.marked[o]]
  OBVIOUS
<1>28. A11 = [A10 EXCEPT !.marked = m]
  BY <1>11, <1>27 DEF flipwhite
<1>29. /\ DOMAIN A10 = StateFields /\ A10.marked \in [Obj -> Colours]
       /\ A10.free \cup A10.sweep \cup A10.strings \subseteq Obj
  BY <1>25 DEF FinalizersKept, Coloured
<1>30. DOMAIN A11 = StateFields /\ A11.marked = m /\ Same(A10, A11, {"marked"})
  BY <1>28, <1>29 DEF StateFields, Same
<1>31. m \in [Obj -> Colours]
  BY <1>27, <1>29 DEF Colours
<1>32. /\ DOMAIN T = StateFields /\ T.marked = m /\ T.free = A10.free /\ T.udata = A10.udata /\ T.tmudata = A10.tmudata
       /\ T.finalized = A10.finalized /\ T.owed = A10.owed /\ T.called = A10.called
       /\ T.sweep \cup T.strings \subseteq Obj
  <2>1. /\ Same(A11, T, {"gcstate", "strings", "sweep"})
        /\ T.strings = tosweep(A11) \cap Of("string") /\ T.sweep = tosweep(A11) \ Of("string")
    BY <1>12, <1>30, StartsweepStarts
  <2>2. tosweep(A11) \subseteq Obj
    BY DEF tosweep
  <2> QED
    BY <1>30, <2>1, <2>2 DEF Same, StateFields
<1>33. Coloured(T)
  BY <1>29, <1>31, <1>32 DEF Coloured
<1>34. Lists(T) /\ Calls(T)
  BY <1>25, <1>32 DEF FinalizersKept, Lists, Calls, tofinalize
<1>35. DeadAreDone(T)
  <2>1. ASSUME NEW u \in Userdata, isdead(T, u) PROVE u \in A10.finalized \ tofinalize(A10)
    <3>1. u \in Obj
      BY DEF Userdata, Of
    <3>2. CASE A10.marked[u] = "white" /\ u \notin A10.free
      BY <1>26, <3>2 DEF iswhite
    <3>3. CASE ~ (A10.marked[u] = "white" /\ u \notin A10.free)
      <4>1. isdead(A10, u)
        BY <1>27, <1>32, <2>1, <3>1, <3>3 DEF isdead
      <4> QED
        BY <1>25, <4>1 DEF FinalizersKept, DeadAreDone
    <3> QED
      BY <3>2, <3>3
  <2> QED
    BY <1>32, <2>1 DEF DeadAreDone, tofinalize
<1> QED
  BY <1>25, <1>32, <1>33, <1>34, <1>35 DEF Quiet, FinalizersKept

\* A step that frees no userdata frees none that it should not.
LEMMA QuietFrees ==
  ASSUME NEW S, NEW T, Quiet(S, T)
  PROVE  FinalizersKept(T) /\ Frees(S, T)
BY DEF Quiet, Frees

\* A step that frees no userdata, and a calm one.
LEMMA QuietThenCalm ==
  ASSUME NEW S, NEW T, Quiet(S, T), NEW U, Calm(T, U)
  PROVE  Quiet(S, U)
BY CalmKeeps DEF Quiet

\* The first finalizer is called, if it is still there.
LEMMA GCTMIsQuiet ==
  ASSUME NEW S, FinalizersKept(S), S.tmudata # <<>>, NEW T, T = GCTM(S)
  PROVE  Quiet(S, T)
<1>1. PICK o : o = Head(S.tmudata)
  OBVIOUS
<1>2. PICK t : t = Tail(S.tmudata)
  OBVIOUS
<1>3. PICK q : q = <<o>>
  OBVIOUS
<1>4. PICK r : r = q \o S.udata
  OBVIOUS
<1>5. /\ S.udata \in Seq(Userdata) /\ IsInjective(S.udata) /\ S.tmudata \in Seq(Userdata) /\ IsInjective(S.tmudata)
      /\ Range(S.udata) \cap tofinalize(S) = {}
  BY DEF FinalizersKept, Lists
<1>6. o \in Userdata /\ t \in Seq(Userdata) /\ Range(S.tmudata) = {o} \cup Range(t)
  BY <1>1, <1>2, <1>5, RangeOfTail
<1>7. IsInjective(t) /\ o \notin Range(t)
  BY <1>1, <1>2, <1>5, TailIsInjective
<1>8. q \in Seq(Userdata) /\ IsInjective(q) /\ Range(q) = {o}
  BY <1>3, <1>6, OneIsInjective
<1>9. r \in Seq(Userdata) /\ Range(r) = {o} \cup Range(S.udata) /\ IsInjective(r)
  <2>1. r \in Seq(Userdata) /\ Range(r) = Range(q) \cup Range(S.udata)
    BY <1>4, <1>5, <1>8, RangeOfConcat
  <2>2. Range(q) \cap Range(S.udata) = {}
    BY <1>5, <1>6, <1>8 DEF tofinalize
  <2>3. IsInjective(r)
    BY <1>4, <1>5, <1>8, <2>2, ConcatIsInjective
  <2> QED
    BY <1>8, <2>1, <2>3
<1>10. PICK A : A = [S EXCEPT !.tmudata = t, !.udata = r]
  OBVIOUS
<1>11. PICK X : X = {o}
  OBVIOUS
<1>12. PICK B : B = makewhite(A, X)
  OBVIOUS
<1>13. PICK c : c = [B.called EXCEPT ![o] = @ + 1]
  OBVIOUS
<1>14. PICK w : w = B.owed \ {o}
  OBVIOUS
<1>15. PICK C : C = IF has(S, o, "__gc") THEN [B EXCEPT !.called = c] ELSE [B EXCEPT !.owed = w]
  OBVIOUS
<1>16. T = C \/ T = push(C, o)
  <2>1. A = [S EXCEPT !.tmudata = Tail(@), !.udata = <<o>> \o @]
    BY <1>2, <1>3, <1>4, <1>10
  <2>2. T = LET s == makewhite(A, X)
            IN IF has(S, o, "__gc") THEN push([s EXCEPT !.called[o] = @ + 1], o)
               ELSE [s EXCEPT !.owed = @ \ {o}]
    BY <1>1, <1>11, <2>1 DEF GCTM
  <2>3. T = IF has(S, o, "__gc") THEN push([B EXCEPT !.called[o] = @ + 1], o) ELSE [B EXCEPT !.owed = @ \ {o}]
    BY <1>12, <2>2
  <2>4. T = IF has(S, o, "__gc") THEN push([B EXCEPT !.called = c], o) ELSE [B EXCEPT !.owed = w]
    BY <1>13, <1>14, <2>3
  <2> QED
    BY <1>15, <2>4
<1>17. Coloured(S) /\ DOMAIN S = StateFields
  BY DEF FinalizersKept, Coloured
<1>18. /\ DOMAIN A = StateFields /\ A.tmudata = t /\ A.udata = r /\ A.marked = S.marked /\ A.free = S.free
       /\ A.finalized = S.finalized /\ A.owed = S.owed /\ A.called = S.called /\ A.sweep = S.sweep
       /\ A.strings = S.strings
  BY <1>10, <1>17 DEF StateFields
<1>19. Coloured(A)
  BY <1>17, <1>18 DEF Coloured
<1>20. Calm(A, B)
  BY <1>12, <1>19, MakewhiteIsCalm
<1>21. /\ Coloured(B) /\ DOMAIN B = StateFields /\ B.tmudata = t /\ B.udata = r /\ B.free = S.free
       /\ B.finalized = S.finalized /\ B.owed = S.owed /\ B.called = S.called
  BY <1>18, <1>20, CalmFields
<1>22. \A u \in Userdata : isdead(B, u) => isdead(S, u)
  BY <1>18, <1>20 DEF Calm, isdead, Userdata, Of
<1>23. /\ DOMAIN C = StateFields /\ C.tmudata = t /\ C.udata = r /\ C.free = S.free /\ C.marked = B.marked
       /\ C.finalized = S.finalized /\ C.sweep = B.sweep /\ C.strings = B.strings
       /\ \/ C.called = c /\ C.owed = S.owed
          \/ C.called = S.called /\ C.owed = w
  BY <1>15, <1>21 DEF StateFields
<1>24. tofinalize(S) = {o} \cup tofinalize(C) /\ o \notin tofinalize(C) /\ tofinalize(C) = Range(t)
  BY <1>6, <1>7, <1>23 DEF tofinalize
<1>25. Coloured(C)
  BY <1>21, <1>23 DEF Coloured
<1>26. Lists(C)
  BY <1>6, <1>7, <1>9, <1>23, <1>24 DEF FinalizersKept, Lists
<1>27. o \in Obj /\ o \in S.owed /\ S.called[o] = 0 /\ S.called \in [Obj -> {0, 1}]
  BY <1>6, <1>24 DEF FinalizersKept, Calls, Userdata, Of
<1>28. Calls(C)
  <2>1. CASE C.called = c /\ C.owed = S.owed
    <3>1. c \in [Obj -> {0, 1}] /\ c[o] = 1 /\ \A p \in Obj \ {o} : c[p] = S.called[p]
      BY <1>13, <1>21, <1>27
    <3>2. ASSUME NEW u \in Userdata PROVE c[u] = 1 <=> u \in C.owed \ tofinalize(C)
      <4>1. u \in Obj
        BY DEF Userdata, Of
      <4>2. S.called[u] = 1 <=> u \in S.owed \ tofinalize(S)
        BY DEF FinalizersKept, Calls
      <4> QED
        BY <1>24, <1>27, <2>1, <3>1, <4>1, <4>2
    <3> QED
      BY <1>23, <1>24, <2>1, <3>1, <3>2 DEF FinalizersKept, Calls
  <2>2. CASE C.called = S.called /\ C.owed = w
    <3>1. w = S.owed \ {o}
      BY <1>14, <1>21
    <3>2. ASSUME NEW u \in Userdata PROVE S.called[u] = 1 <=> u \in C.owed \ tofinalize(C)
      <4>1. S.called[u] = 1 <=> u \in S.owed \ tofinalize(S)
        BY DEF FinalizersKept, Calls
      <4> QED
        BY <1>24, <1>27, <2>2, <3>1, <4>1
    <3> QED
      BY <1>23, <1>24, <2>2, <3>1, <3>2 DEF FinalizersKept, Calls
  <2> QED
    BY <1>23, <2>1, <2>2
<1>29. DeadAreDone(C)
  BY <1>22, <1>23, <1>24 DEF FinalizersKept, DeadAreDone, isdead
<1>30. Quiet(S, C)
  BY <1>23, <1>25, <1>26, <1>28, <1>29 DEF Quiet, FinalizersKept
<1>31. T = push(C, o) => Calm(C, T)
  BY <1>25, PushIsCalm
<1> QED
  BY <1>16, <1>30, <1>31, QuietThenCalm

\* A new userdata is one of those that may be found dead.
LEMMA NewUserdataIsQuiet ==
  ASSUME NEW S, FinalizersKept(S), NEW o \in Userdata, o \in S.free, NEW x, NEW A, A = luaC_link(S, o, x),
         NEW r, r = <<o>> \o S.udata, NEW T, T = [A EXCEPT !.udata = r]
  PROVE  Quiet(S, T)
<1>1. PICK q : q = <<o>>
  OBVIOUS
<1>2. S.udata \in Seq(Userdata) /\ IsInjective(S.udata) /\ Range(S.udata) \cap S.free = {}
  BY DEF FinalizersKept, Lists
<1>3. q \in Seq(Userdata) /\ IsInjective(q) /\ Range(q) = {o}
  BY <1>1, OneIsInjective
<1>4. r \in Seq(Userdata) /\ Range(r) = {o} \cup Range(S.udata) /\ IsInjective(r)
  <2>1. r = q \o S.udata
    BY <1>1
  <2>2. r \in Seq(Userdata) /\ Range(r) = Range(q) \cup Range(S.udata)
    BY <1>2, <1>3, <2>1, RangeOfConcat
  <2>3. IsInjective(r)
    <3>1. Range(q) \cap Range(S.udata) = {}
      BY <1>2, <1>3
    <3> QED
      BY <1>2, <1>3, <2>1, <3>1, ConcatIsInjective
  <2> QED
    BY <1>3, <2>2, <2>3
<1>5. PICK h : h = [S.heap EXCEPT ![o] = x]
  OBVIOUS
<1>6. PICK m : m = [S.marked EXCEPT ![o] = "white"]
  OBVIOUS
<1>7. A = [S EXCEPT !.free = S.free \ {o}, !.heap = h, !.marked = m]
  BY <1>5, <1>6 DEF luaC_link
<1>8. DOMAIN S = StateFields /\ S.marked \in [Obj -> Colours] /\ S.free \cup S.sweep \cup S.strings \subseteq Obj
  BY DEF FinalizersKept, Coloured
<1>9. /\ DOMAIN A = StateFields /\ A.free = S.free \ {o} /\ A.marked = m /\ A.udata = S.udata
      /\ A.tmudata = S.tmudata /\ A.finalized = S.finalized /\ A.owed = S.owed
      /\ A.called = S.called /\ A.sweep = S.sweep /\ A.strings = S.strings
  BY <1>7, <1>8 DEF StateFields
<1>10. /\ DOMAIN T = StateFields /\ T.free = S.free \ {o} /\ T.marked = m /\ T.udata = r
       /\ T.tmudata = S.tmudata /\ T.finalized = S.finalized /\ T.owed = S.owed
       /\ T.called = S.called /\ T.sweep = S.sweep /\ T.strings = S.strings
  BY <1>9 DEF StateFields
<1>11. m \in [Obj -> Colours] /\ \A p \in Obj : m[p] = "otherwhite" => S.marked[p] = "otherwhite"
  BY <1>6, <1>8 DEF Colours
<1>12. tofinalize(T) = tofinalize(S)
  BY <1>10 DEF tofinalize
<1>13. Lists(T)
  BY <1>4, <1>10, <1>12 DEF FinalizersKept, Lists
<1>14. Calls(T)
  BY <1>10, <1>12 DEF FinalizersKept, Calls
<1>15. Coloured(T)
  BY <1>8, <1>10, <1>11 DEF Coloured
<1>16. DeadAreDone(T)
  BY <1>10, <1>11, <1>12 DEF FinalizersKept, DeadAreDone, isdead, Userdata, Of
<1> QED
  BY <1>10, <1>13, <1>14, <1>15, <1>16 DEF Quiet, FinalizersKept

\* A collection begins.
LEMMA MarkrootIsCalm ==
  ASSUME NEW S, Coloured(S), NEW T, T = markroot(S)
  PROVE  Calm(S, T)
<1>1. PICK A : A = [S EXCEPT !.gray = {}, !.grayagain = {}, !.weak = {}, !.gcstate = "propagate"]
  OBVIOUS
<1>2. PICK X : X = {MainThread, Registry, S.heap[MainThread].env}
  OBVIOUS
<1>3. T = markobject(A, X)
  BY <1>1, <1>2 DEF markroot
<1>4. DOMAIN A = StateFields /\ Same(S, A, Others \ {"marked"})
  BY <1>1 DEF Same, StateFields, Others, Coloured
<1>5. Calm(S, A) /\ Coloured(A)
  BY <1>4, Uncoloured, CalmColours DEF Marks
<1> QED
  BY <1>3, <1>5, MarkobjectMarks, CalmTwice DEF Marks

\* The lists of what is to be swept change, and what says how far the collection is.
LEMMA SweepingIsCalm ==
  ASSUME NEW S, Coloured(S), NEW T, DOMAIN T = StateFields,
         Same(S, T, {"sweep", "strings", "gcstate", "full", "gray", "grayagain", "weak", "L", "callers"}),
         T.sweep \cup T.strings \subseteq Obj
  PROVE  Calm(S, T)
BY DEF Calm, Same, StateFields, Others, Coloured, isdead

\* The steps of the collector.
LEMMA SinglestepFrees ==
  ASSUME FinalizersKept(g), singlestep
  PROVE  FinalizersKept(g') /\ Frees(g, g')
<1>1. Coloured(g) /\ DOMAIN g = StateFields /\ g.free \cup g.sweep \cup g.strings \subseteq Obj
  BY DEF FinalizersKept, Coloured
<1>2. CASE Markroot
  BY <1>1, <1>2, MarkrootIsCalm, CalmIsQuiet, QuietFrees DEF Markroot
<1>3. CASE Propagate
  <2>1. PICK o : g' = propagatemark(g, o)
    BY <1>3 DEF Propagate
  <2>2. PICK X : X = {o}
    OBVIOUS
  <2>3. g' = traverse(g, X)
    BY <2>1, <2>2 DEF propagatemark
  <2> QED
    BY <1>1, <2>3, TraverseMarks, CalmIsQuiet, QuietFrees DEF Marks
<1>4. CASE Atomic
  BY <1>4, AtomicIsQuiet, QuietFrees DEF Atomic
<1>5. CASE Sweepstring
  <2>1. CASE g' = [g EXCEPT !.gcstate = "sweep"]
    <3>1. DOMAIN g' = StateFields /\ Same(g, g', {"gcstate"}) /\ g'.sweep = g.sweep /\ g'.strings = g.strings
      BY <1>1, <2>1 DEF Same, StateFields
    <3>2. Same(g, g', {"sweep", "strings", "gcstate", "full", "gray", "grayagain", "weak", "L", "callers"})
      BY <3>1 DEF Same, StateFields
    <3> QED
      BY <1>1, <3>1, <3>2, SweepingIsCalm, CalmIsQuiet, QuietFrees
  <2>2. ASSUME NEW s \in g.strings, g' = [sweeplist(g, {s}) EXCEPT !.strings = @ \ {s}]
        PROVE  FinalizersKept(g') /\ Frees(g, g')
    <3>1. PICK X : X = {s}
      OBVIOUS
    <3>2. PICK A : A = sweeplist(g, X)
      OBVIOUS
    <3>3. X \in SUBSET Obj
      BY <1>1, <3>1
    <3>4. FinalizersKept(A) /\ Frees(g, A)
      BY <3>2, <3>3, SweeplistFrees
    <3>5. g' = [A EXCEPT !.strings = @ \ {s}]
      BY <2>2, <3>1, <3>2
    <3>6. Coloured(A) /\ DOMAIN A = StateFields /\ A.free \cup A.sweep \cup A.strings \subseteq Obj
      BY <3>4 DEF FinalizersKept, Coloured
    <3>7. /\ DOMAIN g' = StateFields /\ g'.sweep \cup g'.strings \subseteq Obj /\ g'.free = A.free
          /\ Same(A, g', {"sweep", "strings", "gcstate", "full", "gray", "grayagain", "weak", "L", "callers"})
      BY <3>5, <3>6 DEF Same, StateFields
    <3>8. FinalizersKept(g')
      BY <3>4, <3>6, <3>7, SweepingIsCalm, CalmKeeps
    <3> QED
      BY <3>4, <3>7, <3>8 DEF Frees
  <2> QED
    BY <1>5, <2>1, <2>2 DEF Sweepstring
<1>6. CASE Sweep
  <2>1. PICK objs \in SUBSET g.sweep :
          LET s == [sweeplist(g, objs) EXCEPT !.sweep = @ \ objs]
          IN g' = IF objs = g.sweep THEN swept(s) ELSE s
    BY <1>6 DEF Sweep
  <2>2. PICK A : A = sweeplist(g, objs)
    OBVIOUS
  <2>3. objs \in SUBSET Obj
    BY <1>1
  <2>4. FinalizersKept(A) /\ Frees(g, A)
    BY <2>2, <2>3, SweeplistFrees
  <2>5. PICK B : B = [A EXCEPT !.sweep = @ \ objs]
    OBVIOUS
  <2>6. g' = B \/ g' = swept(B)
    BY <2>1, <2>2, <2>5
  <2>7. Coloured(A) /\ DOMAIN A = StateFields /\ A.free \cup A.sweep \cup A.strings \subseteq Obj
    BY <2>4 DEF FinalizersKept, Coloured
  <2>8. /\ DOMAIN B = StateFields /\ B.sweep \cup B.strings \subseteq Obj /\ B.free = A.free
        /\ Same(A, B, {"sweep", "strings", "gcstate", "full", "gray", "grayagain", "weak", "L", "callers"})
    BY <2>5, <2>7 DEF Same, StateFields
  <2>9. FinalizersKept(B) /\ Coloured(B)
    BY <2>4, <2>7, <2>8, SweepingIsCalm, CalmKeeps, CalmColours
  <2>10. CASE g' = B
    BY <2>4, <2>8, <2>9, <2>10 DEF Frees
  <2>11. CASE g' = swept(B)
    <3>1. PICK M : M = markroot(B)
      OBVIOUS
    <3>2. Calm(B, M) /\ Coloured(M)
      BY <2>9, <3>1, MarkrootIsCalm, CalmColours
    <3>3. g' = [M EXCEPT !.full = "mark"] \/ g' = [B EXCEPT !.gcstate = "finalize"]
      BY <2>11, <3>1 DEF swept
    <3>4. CASE g' = [M EXCEPT !.full = "mark"]
      <4>1. DOMAIN g' = StateFields /\ Same(M, g', Others \ {"marked"})
        BY <3>2, <3>4 DEF Same, StateFields, Others, Coloured
      <4> QED
        BY <2>4, <2>8, <2>9, <3>2, <4>1, Uncoloured, CalmTwice, CalmKeeps DEF Marks, Frees
    <3>5. CASE g' = [B EXCEPT !.gcstate = "finalize"]
      <4>1. DOMAIN g' = StateFields /\ Same(B, g', Others \ {"marked"})
        BY <2>9, <3>5 DEF Same, StateFields, Others, Coloured
      <4> QED
        BY <2>4, <2>8, <2>9, <4>1, Uncoloured, CalmKeeps DEF Marks, Frees
    <3> QED
      BY <3>3, <3>4, <3>5
  <2> QED
    BY <2>6, <2>10, <2>11
<1>7. CASE Finalize
  <2>1. CASE g.tmudata # <<>> /\ g' = GCTM(g)
    BY <2>1, GCTMIsQuiet, QuietFrees
  <2>2. CASE g' = [g EXCEPT !.gcstate = "pause", !.full = "no"]
    <3>1. /\ DOMAIN g' = StateFields /\ g'.sweep \cup g'.strings \subseteq Obj
          /\ Same(g, g', {"sweep", "strings", "gcstate", "full", "gray", "grayagain", "weak", "L", "callers"})
      BY <1>1, <2>2 DEF Same, StateFields
    <3> QED
      BY <1>1, <3>1, SweepingIsCalm, CalmIsQuiet, QuietFrees
  <2> QED
    BY <1>7, <2>1, <2>2 DEF Finalize
<1> QED
  BY <1>2, <1>3, <1>4, <1>5, <1>6, <1>7 DEF singlestep

\* The program makes objects.
LEMMA MakingIsQuiet ==
  ASSUME FinalizersKept(g), NewTable \/ NewUserdata \/ NewString \/ NewProto \/ NewThread
  PROVE  Quiet(g, g')
<1>1. Coloured(g) /\ DOMAIN g = StateFields
  BY DEF FinalizersKept, Coloured
<1>2. ASSUME NEW o \in Obj \ Userdata, NEW x, NEW A, A = luaC_link(g, o, x), g' = push(A, o)
      PROVE  Quiet(g, g')
  <2>1. Quiet(g, A) /\ Coloured(A)
    BY <1>2, LinkIsQuiet DEF Quiet, FinalizersKept
  <2> QED
    BY <1>2, <2>1, PushIsCalm, QuietThenCalm
<1>3. ASSUME NEW kind, kind # "userdata", NEW o \in malloc(kind) PROVE o \in Obj \ Userdata
  BY <1>3 DEF malloc, Of, Userdata
<1>4. CASE NewTable
  <2>1. PICK o \in malloc("table"), meta \in g.arena.metas :
          g' = push(luaC_link(g, o, [Blank EXCEPT !.meta = meta]), o)
    BY <1>4 DEF NewTable
  <2>2. PICK x : x = [Blank EXCEPT !.meta = meta]
    OBVIOUS
  <2>3. PICK A : A = luaC_link(g, o, x)
    OBVIOUS
  <2>4. o \in Obj \ Userdata /\ g' = push(A, o)
    BY <1>3, <2>1, <2>2, <2>3
  <2> QED
    BY <1>2, <2>3, <2>4
<1>5. CASE NewUserdata
  <2>1. PICK o \in malloc("userdata") :
          g' = push([luaC_link(g, o, [Blank EXCEPT !.env = Registry]) EXCEPT !.udata = <<o>> \o @], o)
    BY <1>5 DEF NewUserdata
  <2>2. PICK x : x = [Blank EXCEPT !.env = Registry]
    OBVIOUS
  <2>3. PICK A : A = luaC_link(g, o, x)
    OBVIOUS
  <2>4. PICK r : r = <<o>> \o g.udata
    OBVIOUS
  <2>5. PICK B : B = [A EXCEPT !.udata = r]
    OBVIOUS
  <2>6. A.udata = g.udata
    BY <1>1, <2>3 DEF luaC_link, StateFields
  <2>7. g' = push(B, o)
    BY <2>1, <2>2, <2>3, <2>4, <2>5, <2>6
  <2>8. o \in Userdata /\ o \in g.free
    BY DEF malloc, Userdata
  <2>9. Quiet(g, B) /\ Coloured(B)
    BY <2>3, <2>4, <2>5, <2>8, NewUserdataIsQuiet DEF Quiet, FinalizersKept
  <2> QED
    BY <2>7, <2>9, PushIsCalm, QuietThenCalm
<1>6. CASE NewString
  <2>1. PICK o \in (Of("string") \cap g.arena.objects) \ onstack(g) :
       g' = push(CASE o \in g.free -> luaC_link(g, o, Blank)
                   [] o \notin g.free /\ isdead(g, o) -> makewhite(g, {o})
                   [] OTHER -> g, o)
    BY <1>6 DEF NewString
  <2>2. o \in Obj \ Userdata
    BY DEF Of, Userdata
  <2>3. PICK X : X = {o}
    OBVIOUS
  <2>4. PICK A : A = CASE o \in g.free -> luaC_link(g, o, Blank)
                   [] o \notin g.free /\ isdead(g, o) -> makewhite(g, X)
                   [] OTHER -> g
    OBVIOUS
  <2>5. g' = push(A, o)
    BY <2>1, <2>3, <2>4
  <2>6. A = luaC_link(g, o, Blank) \/ A = makewhite(g, X) \/ A = g
    BY <2>4
  <2>7. Quiet(g, A)
    BY <1>1, <2>2, <2>6, LinkIsQuiet, MakewhiteIsCalm, SameIsCalm, CalmIsQuiet
  <2> QED
    BY <2>5, <2>7, PushIsCalm, QuietThenCalm DEF Quiet, FinalizersKept
<1>7. CASE NewProto
  <2>1. PICK o \in malloc("proto") : g' = push(luaC_link(g, o, Blank), o)
    BY <1>7 DEF NewProto
  <2> QED
    BY <1>2, <1>3, <2>1
<1>8. CASE NewThread
  <2>1. PICK o \in malloc("thread") : g' = push(luaC_link(g, o, [Blank EXCEPT !.env = Registry]), o)
    BY <1>8 DEF NewThread
  <2>2. PICK x : x = [Blank EXCEPT !.env = Registry]
    OBVIOUS
  <2>3. PICK A : A = luaC_link(g, o, x)
    OBVIOUS
  <2>4. o \in Obj \ Userdata /\ g' = push(A, o)
    BY <1>3, <2>1, <2>2, <2>3
  <2> QED
    BY <1>2, <2>3, <2>4
<1> QED
  BY <1>4, <1>5, <1>6, <1>7, <1>8

\* The program stores references.
LEMMA StoringIsQuiet ==
  ASSUME FinalizersKept(g), AddConstant \/ Settable \/ lua_setmetatable \/ lua_setfenv \/ Setupval
  PROVE  Quiet(g, g')
<1>1. Coloured(g)
  BY DEF FinalizersKept
<1>2. CASE AddConstant
  <2>1. PICK p, s : g' = luaC_barrier([g EXCEPT !.heap[p].refs = @ \cup {s}], p, s)
    BY <1>2 DEF AddConstant
  <2>2. PICK h : h = [g.heap EXCEPT ![p].refs = @ \cup {s}]
    OBVIOUS
  <2>3. PICK A : A = [g EXCEPT !.heap = h]
    OBVIOUS
  <2>4. g' = luaC_barrier(A, p, s)
    BY <2>1, <2>2, <2>3
  <2> QED
    BY <1>1, <2>3, <2>4, HeapIsCalm, CalmColours, BarrierIsCalm, CalmTwice, CalmIsQuiet
<1>3. CASE Settable
  <2>1. PICK t, v, k :
       LET node == g.heap[t].node
           rehashed == IF Cardinality(DOMAIN node) < MaxNodes THEN DOMAIN node ELSE keys(g, t)
           found == k \in DOMAIN node
           s == IF found THEN g ELSE luaC_barriert(g, t, k)
       IN g' = luaC_barriert([s EXCEPT !.heap[t].node =
                      [x \in (IF found THEN DOMAIN node ELSE rehashed \cup {k}) |-> IF x = k THEN v ELSE node[x]]],
                     t, v)
    BY Zenon, <1>3 DEF Settable
  <2>2. PICK s : s = IF k \in DOMAIN g.heap[t].node THEN g ELSE luaC_barriert(g, t, k)
    OBVIOUS
  <2>3. PICK rehashed : rehashed = IF Cardinality(DOMAIN g.heap[t].node) < MaxNodes
                                   THEN DOMAIN g.heap[t].node ELSE keys(g, t)
    OBVIOUS
  <2>4. PICK D : D = IF k \in DOMAIN g.heap[t].node THEN DOMAIN g.heap[t].node ELSE rehashed \cup {k}
    OBVIOUS
  <2>5. PICK n : n = [x \in D |-> IF x = k THEN v ELSE g.heap[t].node[x]]
    OBVIOUS
  <2>6. PICK h : h = [s.heap EXCEPT ![t].node = n]
    OBVIOUS
  <2>7. PICK A : A = [s EXCEPT !.heap = h]
    OBVIOUS
  <2>8. g' = luaC_barriert([s EXCEPT !.heap[t].node = [x \in D |-> IF x = k THEN v ELSE g.heap[t].node[x]]], t, v)
    BY <2>1, <2>2, <2>3, <2>4
  <2>9. g' = luaC_barriert(A, t, v)
    BY <2>5, <2>6, <2>7, <2>8
  <2>10. Calm(g, s) /\ Coloured(s)
    BY <1>1, <2>2, SameIsCalm, BarriertIsCalm, CalmColours
  <2> QED
    BY <2>7, <2>9, <2>10, HeapIsCalm, CalmColours, BarriertIsCalm, CalmTwice, CalmIsQuiet
<1>4. CASE lua_setmetatable
  <2>1. PICK o, mt :
        LET s == [g EXCEPT !.heap[o].mt = mt]
        IN g' = IF Kind[o] = "table" THEN luaC_barriert(s, o, mt) ELSE luaC_barrier(s, o, mt)
    BY <1>4 DEF lua_setmetatable
  <2>2. PICK h : h = [g.heap EXCEPT ![o].mt = mt]
    OBVIOUS
  <2>3. PICK A : A = [g EXCEPT !.heap = h]
    OBVIOUS
  <2>4. g' = luaC_barriert(A, o, mt) \/ g' = luaC_barrier(A, o, mt)
    BY <2>1, <2>2, <2>3
  <2> QED
    BY <1>1, <2>3, <2>4, HeapIsCalm, CalmColours, BarrierIsCalm, BarriertIsCalm, CalmTwice, CalmIsQuiet
<1>5. CASE lua_setfenv
  <2>1. PICK o, t : g' = luaC_barrier([g EXCEPT !.heap[o].env = t], o, t)
    BY <1>5 DEF lua_setfenv
  <2>2. PICK h : h = [g.heap EXCEPT ![o].env = t]
    OBVIOUS
  <2>3. PICK A : A = [g EXCEPT !.heap = h]
    OBVIOUS
  <2>4. g' = luaC_barrier(A, o, t)
    BY <2>1, <2>2, <2>3
  <2> QED
    BY <1>1, <2>3, <2>4, HeapIsCalm, CalmColours, BarrierIsCalm, CalmTwice, CalmIsQuiet
<1>6. CASE Setupval
  <2>1. PICK u :
       LET v == Last(stack(g))
           at == g.heap[u].at
       IN g' = luaC_barrier(IF isopen(g, u) THEN [g EXCEPT !.heap[at[1]].stack[at[2]] = v]
                            ELSE [g EXCEPT !.heap[u].v = v], u, v)
    BY Zenon, <1>6 DEF Setupval
  <2>2. PICK v : v = Last(stack(g))
    OBVIOUS
  <2>3. PICK th : th = g.heap[u].at[1]
    OBVIOUS
  <2>4. PICK n : n = g.heap[u].at[2]
    OBVIOUS
  <2>5. PICK h : h = IF isopen(g, u) THEN [g.heap EXCEPT ![th].stack[n] = v] ELSE [g.heap EXCEPT ![u].v = v]
    OBVIOUS
  <2>6. PICK A : A = [g EXCEPT !.heap = h]
    OBVIOUS
  <2>7. g' = luaC_barrier(IF isopen(g, u) THEN [g EXCEPT !.heap[th].stack[n] = v]
                          ELSE [g EXCEPT !.heap[u].v = v], u, v)
    BY <2>1, <2>2, <2>3, <2>4
  <2>8. g' = luaC_barrier(A, u, v)
    <3>1. CASE isopen(g, u)
      BY <2>5, <2>6, <2>7, <3>1
    <3>2. CASE ~ isopen(g, u)
      BY <2>5, <2>6, <2>7, <3>2
    <3> QED
      BY <3>1, <3>2
  <2> QED
    BY <1>1, <2>6, <2>8, HeapIsCalm, CalmColours, BarrierIsCalm, CalmTwice, CalmIsQuiet
<1> QED
  BY <1>2, <1>3, <1>4, <1>5, <1>6

\* A closure is made, with an upvalue that is there or a new one.
LEMMA ClosureIsQuiet ==
  ASSUME FinalizersKept(g), Closure
  PROVE  Quiet(g, g')
<1>1. PICK f \in malloc("function"), p \in Of("proto") :
       LET top == Len(stack(g))
           object(refs) == [Blank EXCEPT !.env = Registry, !.refs = refs]
           open(n) == captures(g, g.L, n)
       IN \/ g' = [luaC_link(g, f, object({p})) EXCEPT !.heap[g.L].stack[top] = f]
          \/ \E n \in 1..(top - 1) :
               \E u \in IF open(n) # {} THEN open(n) ELSE malloc("upval") :
                 g' = [luaC_link(luaF_findupval(g, u, n), f, object({p, u}))
                       EXCEPT !.heap[g.L].stack[top] = f]
  BY Zenon DEF Closure
<1>2. PICK top : top = Len(stack(g))
  OBVIOUS
<1>3. \/ g' = [luaC_link(g, f, [Blank EXCEPT !.env = Registry, !.refs = {p}]) EXCEPT !.heap[g.L].stack[top] = f]
      \/ \E n \in 1..(top - 1) : \E u \in IF captures(g, g.L, n) # {} THEN captures(g, g.L, n) ELSE malloc("upval") :
           g' = [luaC_link(luaF_findupval(g, u, n), f, [Blank EXCEPT !.env = Registry, !.refs = {p, u}])
                 EXCEPT !.heap[g.L].stack[top] = f]
  BY Zenon, <1>1, <1>2
<1>4. f \in Obj \ Userdata
  BY DEF malloc, Of, Userdata
<1>5. ASSUME NEW B, Quiet(g, B), NEW x, g' = [luaC_link(B, f, x) EXCEPT !.heap[g.L].stack[top] = f]
      PROVE  Quiet(g, g')
  <2>1. PICK A : A = luaC_link(B, f, x)
    OBVIOUS
  <2>2. Quiet(B, A)
    BY <1>4, <1>5, <2>1, LinkIsQuiet DEF Quiet
  <2>3. PICK h : h = [A.heap EXCEPT ![g.L].stack[top] = f]
    OBVIOUS
  <2>4. g' = [A EXCEPT !.heap = h]
    BY <1>5, <2>1, <2>3
  <2>5. Calm(A, g')
    BY <2>2, <2>4, HeapIsCalm DEF Quiet, FinalizersKept
  <2> QED
    BY <1>5, <2>2, <2>5, QuietThenCalm DEF Quiet
<1>6. Quiet(g, g)
  BY DEF Quiet
<1>7. CASE g' = [luaC_link(g, f, [Blank EXCEPT !.env = Registry, !.refs = {p}]) EXCEPT !.heap[g.L].stack[top] = f]
  <2>1. PICK x : x = [Blank EXCEPT !.env = Registry, !.refs = {p}]
    OBVIOUS
  <2>2. g' = [luaC_link(g, f, x) EXCEPT !.heap[g.L].stack[top] = f]
    BY <1>7, <2>1
  <2> QED
    BY <1>5, <1>6, <2>2
<1>8. ASSUME NEW n \in 1..(top - 1), NEW u \in IF captures(g, g.L, n) # {} THEN captures(g, g.L, n) ELSE malloc("upval"),
             g' = [luaC_link(luaF_findupval(g, u, n), f, [Blank EXCEPT !.env = Registry, !.refs = {p, u}])
                   EXCEPT !.heap[g.L].stack[top] = f]
      PROVE  Quiet(g, g')
  <2>1. u \in Obj \ Userdata
    BY DEF captures, openupvals, malloc, Of, Userdata
  <2>2. PICK B : B = luaF_findupval(g, u, n)
    OBVIOUS
  <2>3. PICK x : x = [Blank EXCEPT !.env = Registry, !.refs = {p, u}]
    OBVIOUS
  <2>4. g' = [luaC_link(B, f, x) EXCEPT !.heap[g.L].stack[top] = f]
    BY <1>8, <2>2, <2>3
  <2>5. PICK y : y = [Blank EXCEPT !.at = <<g.L, n>>]
    OBVIOUS
  <2>6. PICK X : X = {u}
    OBVIOUS
  <2>7. B = luaC_link(g, u, y) \/ B = makewhite(g, X) \/ B = g
    BY <2>2, <2>5, <2>6 DEF luaF_findupval
  <2>8. Coloured(g)
    BY DEF FinalizersKept
  <2>9. Quiet(g, B)
    BY <1>6, <2>1, <2>7, <2>8, LinkIsQuiet, MakewhiteIsCalm, CalmIsQuiet
  <2> QED
    BY <1>5, <2>4, <2>9
<1> QED
  BY Zenon, <1>3, <1>7, <1>8

\* The other steps of the program.
LEMMA OthersAreQuiet ==
  ASSUME FinalizersKept(g), Read \/ Pop \/ Resume \/ Yield \/ luaC_fullgc
  PROVE  Quiet(g, g')
<1>1. Coloured(g) /\ DOMAIN g = StateFields /\ g.free \cup g.sweep \cup g.strings \subseteq Obj
  BY DEF FinalizersKept, Coloured
<1>2. CASE Read
  <2>1. PICK v : g' = push(g, v)
    BY <1>2 DEF Read
  <2> QED
    BY <1>1, <2>1, PushIsCalm, CalmIsQuiet
<1>3. CASE Pop
  <2>1. PICK X : X = {g.L}
    OBVIOUS
  <2>2. PICK n : n = Len(stack(g))
    OBVIOUS
  <2>3. PICK A : A = luaF_close(g, X, n)
    OBVIOUS
  <2>4. g' = [A EXCEPT !.heap[g.L].stack = Front(@)]
    BY <1>3, <2>1, <2>2, <2>3 DEF Pop
  <2>5. PICK h : h = [A.heap EXCEPT ![g.L].stack = Front(@)]
    OBVIOUS
  <2>6. g' = [A EXCEPT !.heap = h]
    BY <2>4, <2>5
  <2>7. Quiet(g, A) /\ Coloured(A)
    BY <2>3, LuafCloseIsQuiet DEF Quiet, FinalizersKept
  <2> QED
    BY <2>6, <2>7, HeapIsCalm, QuietThenCalm
<1>4. ASSUME NEW c, NEW l, NEW A, A = [g EXCEPT !.callers = c, !.L = l] PROVE Calm(g, A) /\ Coloured(A)
  <2>1. DOMAIN A = StateFields /\ Same(g, A, Others \ {"marked"})
    BY <1>1, <1>4 DEF Same, StateFields, Others
  <2> QED
    BY <1>1, <2>1, Uncoloured, CalmColours DEF Marks
<1>5. ASSUME NEW A, Calm(g, A), Coloured(A), g' = A \/ \E v \in onstack(g) : g' = push(A, v)
      PROVE  Quiet(g, g')
  <2>1. ASSUME NEW v, g' = push(A, v) PROVE Calm(A, g')
    BY <1>5, <2>1, PushIsCalm
  <2>2. g' = A \/ Calm(A, g')
    BY <1>5, <2>1
  <2> QED
    BY <1>5, <2>2, CalmTwice, CalmIsQuiet
<1>6. CASE Resume
  <2>1. PICK c : c = Append(g.callers, g.L)
    OBVIOUS
  <2>2. PICK l : l = Last(stack(g))
    OBVIOUS
  <2>3. PICK A : A = [g EXCEPT !.callers = c, !.L = l]
    OBVIOUS
  <2>4. g' = A \/ \E v \in onstack(g) : g' = push(A, v)
    BY <1>6, <2>1, <2>2, <2>3 DEF Resume
  <2> QED
    BY <1>4, <1>5, <2>3, <2>4
<1>7. CASE Yield
  <2>1. PICK c : c = Front(g.callers)
    OBVIOUS
  <2>2. PICK l : l = Last(g.callers)
    OBVIOUS
  <2>3. PICK A : A = [g EXCEPT !.L = l, !.callers = c]
    OBVIOUS
  <2>4. g' = A \/ \E v \in onstack(g) : g' = push(A, v)
    BY <1>7, <2>1, <2>2, <2>3 DEF Yield
  <2>5. A = [g EXCEPT !.callers = c, !.L = l]
    BY <2>3
  <2> QED
    BY <1>4, <1>5, <2>4, <2>5
<1>8. CASE luaC_fullgc
  <2>1. PICK A : A = startsweep(g)
    OBVIOUS
  <2>2. PICK M : M = markroot(g)
    OBVIOUS
  <2>3. \/ g' = [A EXCEPT !.full = "sweep", !.gray = {}, !.grayagain = {}, !.weak = {}]
        \/ g' = [M EXCEPT !.full = "mark"]
        \/ g' = [g EXCEPT !.full = "sweep"]
    BY <1>8, <2>1, <2>2 DEF luaC_fullgc
  <2>4. CASE g' = [A EXCEPT !.full = "sweep", !.gray = {}, !.grayagain = {}, !.weak = {}]
    <3>1. /\ Same(g, A, {"gcstate", "strings", "sweep"})
          /\ A.strings = tosweep(g) \cap Of("string") /\ A.sweep = tosweep(g) \ Of("string")
      BY <1>1, <2>1, StartsweepStarts
    <3>2. tosweep(g) \subseteq Obj
      BY DEF tosweep
    <3>3. DOMAIN A = StateFields
      BY <1>1, <3>1 DEF Same
    <3>4. /\ DOMAIN g' = StateFields /\ g'.sweep = A.sweep /\ g'.strings = A.strings
          /\ Same(A, g', {"full", "gray", "grayagain", "weak"})
      BY <2>4, <3>3 DEF Same, StateFields
    <3>5. g'.sweep \cup g'.strings \subseteq Obj
      BY <3>1, <3>2, <3>4
    <3>6. Same(g, g', {"sweep", "strings", "gcstate", "full", "gray", "grayagain", "weak", "L", "callers"})
      BY <3>1, <3>4 DEF Same, StateFields
    <3> QED
      BY <1>1, <3>4, <3>5, <3>6, SweepingIsCalm, CalmIsQuiet
  <2>5. CASE g' = [M EXCEPT !.full = "mark"]
    <3>1. Calm(g, M) /\ Coloured(M)
      BY <1>1, <2>2, MarkrootIsCalm, CalmColours
    <3>2. DOMAIN g' = StateFields /\ Same(M, g', Others \ {"marked"})
      BY <2>5, <3>1 DEF Same, StateFields, Others, Coloured
    <3> QED
      BY <3>1, <3>2, Uncoloured, CalmTwice, CalmIsQuiet DEF Marks
  <2>6. CASE g' = [g EXCEPT !.full = "sweep"]
    <3>1. DOMAIN g' = StateFields /\ Same(g, g', Others \ {"marked"})
      BY <1>1, <2>6 DEF Same, StateFields, Others
    <3> QED
      BY <1>1, <3>1, Uncoloured, CalmIsQuiet DEF Marks
  <2> QED
    BY <2>3, <2>4, <2>5, <2>6
<1> QED
  BY <1>2, <1>3, <1>6, <1>7, <1>8

\* The state is closed: what is to be finalized is, then everything is freed.
LEMMA CloseFrees ==
  ASSUME FinalizersKept(g), lua_close
  PROVE  /\ FinalizersKept(g')
         /\ \A u \in Userdata : u \in g'.free \ g.free =>
              closing' = "closed" /\ (u \in g.owed => g.called[u] = 1)
<1>1. PICK X : X = {MainThread}
  OBVIOUS
<1>2. PICK A : A = luaF_close(g, X, 1)
  OBVIOUS
<1>3. FinalizersKept(A) /\ A.free \cap Userdata \subseteq g.free /\ A.tmudata = g.tmudata
  BY <1>2, LuafCloseIsQuiet DEF Quiet
<1>4. CASE Close
  <2>1. PICK B : B = luaC_separateudata(A, TRUE)
    OBVIOUS
  <2>2. g' = [B EXCEPT !.heap[MainThread].stack = <<>>]
    BY <1>1, <1>2, <1>4, <2>1 DEF Close
  <2>3. FinalizersKept(B) /\ B.free = A.free
    BY <1>3, <2>1, SeparateFinds
  <2>4. PICK h : h = [B.heap EXCEPT ![MainThread].stack = <<>>]
    OBVIOUS
  <2>5. g' = [B EXCEPT !.heap = h]
    BY <2>2, <2>4
  <2>6. FinalizersKept(g') /\ g'.free = B.free
    BY <2>3, <2>5, HeapIsCalm, CalmKeeps DEF FinalizersKept
  <2> QED
    BY <1>3, <2>3, <2>6
<1>5. CASE CallGCTM
  <2>1. CASE g.tmudata # <<>> /\ g' = GCTM(g)
    BY <2>1, GCTMIsQuiet DEF Quiet
  <2>2. CASE g.tmudata = <<>> /\ g' = luaC_freeall(luaF_close(g, {MainThread}, 1)) /\ closing' = "closed"
    <3>1. PICK B : B = [A EXCEPT !.gray = {}, !.grayagain = {}, !.weak = {}]
      OBVIOUS
    <3>2. PICK F : F = Obj \ {MainThread}
      OBVIOUS
    <3>3. g' = free(B, F)
      BY <1>1, <1>2, <2>2, <3>1, <3>2 DEF luaC_freeall
    <3>4. DOMAIN A = StateFields
      BY <1>3 DEF FinalizersKept, Coloured
    <3>5. DOMAIN B = StateFields /\ Same(A, B, Others \ {"marked"})
      BY <3>1, <3>4 DEF Same, StateFields, Others
    <3>6. Coloured(A)
      BY <1>3 DEF FinalizersKept
    <3>7. Calm(A, B)
      BY <3>5, <3>6, Uncoloured DEF Marks
    <3>8. FinalizersKept(B) /\ B.tmudata = <<>>
      BY <1>3, <2>2, <3>7, CalmKeeps, CalmFields
    <3>9. tofinalize(B) = {} /\ tofinalize(g) = {}
      BY <2>2, <3>8 DEF tofinalize, Range
    <3>10. F \in SUBSET Obj /\ F \cap tofinalize(B) = {}
      BY <3>2, <3>9
    <3>11. FinalizersKept(g')
      BY <3>3, <3>8, <3>10, FreeingKeeps
    <3>12. ASSUME NEW u \in Userdata, u \in g.owed PROVE g.called[u] = 1
      BY <3>9, <3>12 DEF FinalizersKept, Calls
    <3> QED
      BY <2>2, <3>11, <3>12
  <2> QED
    BY <1>5, <2>1, <2>2 DEF CallGCTM
<1> QED
  BY <1>4, <1>5 DEF lua_close

\* What a program begins with.
LEMMA FinalizersInit == Init => FinalizersKept(g)
<1> SUFFICES ASSUME NEW arena \in Arenas, g = lua_newstate(arena) PROVE FinalizersKept(g)
  BY DEF Init
<1>1. PICK S : S = lua_newstate(arena)
  OBVIOUS
<1>2. S.udata \in Seq(Userdata) /\ IsInjective(S.udata) /\ Range(S.udata) = Userdata \ S.free
  BY <1>1, ArenasAssumption DEF Userdata
<1>3. /\ DOMAIN S = StateFields /\ S.marked = [o \in Obj |-> "white"] /\ S.called = [o \in Obj |-> 0]
      /\ S.free = Obj \ (DOMAIN arena.made \cup {MainThread, Registry}) /\ S.tmudata = <<>>
      /\ S.finalized = {} /\ S.owed = {} /\ S.sweep = {} /\ S.strings = {}
  BY <1>1 DEF lua_newstate, StateFields
<1>4. tofinalize(S) = {} /\ Userdata \subseteq Obj
  BY <1>3 DEF tofinalize, Range, Userdata, Of
<1>5. Coloured(S)
  BY <1>3 DEF Coloured, Colours
<1>6. Lists(S)
  <2>1. <<>> \in Seq(Userdata) /\ IsInjective(<<>>)
    BY DEF IsInjective
  <2> QED
    BY <1>2, <1>3, <1>4, <2>1 DEF Lists
<1>7. Calls(S)
  BY <1>3, <1>4 DEF Calls
<1>8. DeadAreDone(S)
  BY <1>3, <1>4 DEF DeadAreDone, isdead
<1> QED
  BY <1>1, <1>5, <1>6, <1>7, <1>8 DEF FinalizersKept

\* Every step keeps the books of the finalizers, and frees userdata only as it may.
LEMMA FinalizersNext ==
  ASSUME FinalizersKept(g), [Next]_vars
  PROVE  /\ FinalizersKept(g')
         /\ \A u \in Userdata : u \in g'.free \ g.free =>
              (u \in g.finalized \/ closing' = "closed") /\ (u \in g.owed => g.called[u] = 1)
<1>1. CASE UNCHANGED vars
  BY <1>1 DEF vars
<1>2. CASE singlestep
  BY <1>2, SinglestepFrees DEF Frees
<1>3. CASE program
  <2>1. Quiet(g, g')
    BY <1>3, MakingIsQuiet, StoringIsQuiet, ClosureIsQuiet, OthersAreQuiet DEF program
  <2> QED
    BY <2>1 DEF Quiet
<1>4. CASE lua_close
  BY <1>4, CloseFrees
<1> QED
  BY <1>1, <1>2, <1>3, <1>4 DEF Next

\* A finalizer is called once, and before its userdata is freed (lgc.c luaC_separateudata, GCTM,
\* lstate.c lua_close): for every program, every heap, and lua_close at any time.
THEOREM FinalizersAreCalledOnce == Spec => FinalizersRunOnce
<1>1. Init => FinalizersKept(g)
  BY FinalizersInit
<1>2. FinalizersKept(g) /\ [Next]_vars => FinalizersKept(g)'
  BY FinalizersNext
<1>3. FinalizersKept(g) /\ [Next]_vars =>
        [\A u \in Of("userdata") :
           /\ g'.called[u] <= 1
           /\ u \in g'.free \ g.free => /\ u \in g.finalized \/ closing' = "closed"
                                        /\ u \in g.owed => g.called[u] = 1]_vars
  <2> SUFFICES ASSUME FinalizersKept(g), [Next]_vars, NEW u \in Of("userdata")
               PROVE  /\ g'.called[u] <= 1
                      /\ u \in g'.free \ g.free => /\ u \in g.finalized \/ closing' = "closed"
                                                   /\ u \in g.owed => g.called[u] = 1
    OBVIOUS
  <2>1. FinalizersKept(g') /\ u \in Userdata /\ u \in Obj
    BY FinalizersNext DEF Userdata, Of
  <2>2. g'.called[u] \in {0, 1}
    BY <2>1 DEF FinalizersKept, Calls
  <2> QED
    BY <2>1, <2>2, FinalizersNext
<1> QED
  BY <1>1, <1>2, <1>3, PTL DEF Spec, FinalizersRunOnce
=============================================================================
