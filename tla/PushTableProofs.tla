-------------------------- MODULE PushTableProofs --------------------------
(***************************************************************************)
(* What PushTable does for objects that nest no other and for trees, for   *)
(* every set of objects, tables and wrappers, and graphs of any depth.     *)
(***************************************************************************)
EXTENDS PushTable, LuaRegistryProofs

\* The graphs the copy is right for.
Plain == Flat \/ (Tree /\ HoldsNoHandle)

ActiveTables == {frames[i].table : i \in DOMAIN frames}

\* What a field of a Lua table holds.
LuaField == LuaValues \cup {Scalar}

\* Table t has the images of the first fields of its object.
ImageSoFar(t) ==
  /\ Len(heap[t].fields) <= Len(graph[heap[t].of])
  /\ \A k \in 1 .. Len(heap[t].fields) : IsImageOf(heap[t].fields[k], graph[heap[t].of][k])

\* The active call f has set the fields before f.next, and fills a table of its own.
CallFills(f) ==
  /\ f.table \in DOMAIN heap
  /\ heap[f.table].of = f.obj
  /\ Len(heap[f.table].fields) + 1 = f.next

\* A call waits for the one above it, which copies the object in its next field.
CallsNest ==
  \A i \in DOMAIN frames : i # Len(frames) =>
    /\ frames[i].next <= Len(graph[frames[i].obj])
    /\ graph[frames[i].obj][frames[i].next] = frames[i + 1].obj

Images ==
  /\ heap \in [DOMAIN heap -> [fields : Seq(LuaField), of : Objects]]
  /\ \A t \in DOMAIN heap : ImageSoFar(t)
  /\ \A i \in DOMAIN frames : CallFills(frames[i])
  /\ \A i, j \in DOMAIN frames : frames[i].table = frames[j].table => i = j
  /\ CallsNest
  /\ ~throwing => \A t \in DOMAIN heap \ ActiveTables : Len(heap[t].fields) = Len(graph[heap[t].of])
  /\ root # Nil => Idle /\ ~throwing

\* The place of an object in the one that nests it: a field that was set, or the
\* one the active call for it will set.
PlacedIn(t, u, k) ==
  /\ k \in DOMAIN graph[heap[u].of] /\ graph[heap[u].of][k] = heap[t].of
  /\ \/ k <= Len(heap[u].fields)
     \/ \E i \in DOMAIN frames : /\ i # Len(frames) /\ frames[i].table = u
                               /\ frames[i].next = k /\ frames[i + 1].table = t

\* Every table but that of the object pushed is the copy of a nested object, each
\* object has one table at most, and options.refs has no other objects.
VisitsOnce ==
  ~Idle /\ ~throwing =>
    /\ \A t \in DOMAIN heap \ {frames[1].table} :
         \E u \in DOMAIN heap : \E k \in DOMAIN graph[heap[u].of] : PlacedIn(t, u, k)
    /\ \A t, u \in DOMAIN heap : heap[t].of = heap[u].of => t = u
    /\ \A i \in DOMAIN refs : \E t \in DOMAIN heap : refs[i][1] = heap[t].of

HandleRefs == {handles[h].ref : h \in LiveHandles}

\* While a flat object is pushed its table has a slot that no wrapper has.
TableAnchored ==
  \E o \in Objects, t \in Tables, r \in Slots \ {0} :
    /\ Len(frames) = 1 /\ frames[1].obj = o /\ frames[1].table = t
    /\ DOMAIN heap = {t}
    /\ refs = <<<<o, r>>>>
    /\ registry[r] = t /\ r \notin HandleRefs
    /\ ValueSlots = HandleRefs \cup {r}

FlatRegistry ==
  /\ RegistryTypeOK
  /\ FreeListIsList
  /\ HandlesHold
  /\ HandleReadsItsValue
  /\ IF Idle THEN ValueSlots = HandleRefs ELSE TableAnchored

Call == [obj : Objects, table : Tables, next : Nat \ {0}]

CallsOK ==
  /\ graph \in Graphs
  /\ frames \in Seq(Call)
  /\ refs \in Seq(Objects \X Nat)
  /\ throwing \in BOOLEAN
  /\ DOMAIN heap \subseteq Tables

\* The inductive invariant: the calls fill the images of their objects; those of a
\* tree meet every object once; and for flat objects the registry is sound.
IInv ==
  /\ CallsOK
  /\ Plain => Images
  /\ Tree /\ HoldsNoHandle => VisitsOnce
  /\ Flat => FlatRegistry

-----------------------------------------------------------------------------
JsField == Objects \cup Handles \cup {Scalar, Bad}

\* The call on top.
LEMMA TopCall ==
  ASSUME CallsOK, ~Idle
  PROVE  /\ Len(frames) \in Nat \ {0}
         /\ DOMAIN frames = 1 .. Len(frames)
         /\ Len(frames) \in DOMAIN frames
         /\ Top = frames[Len(frames)]
         /\ Top \in Call
         /\ graph[Top.obj] \in Seq(JsField)
         /\ Len(graph[Top.obj]) \in Nat
<1>1. /\ Len(frames) \in Nat \ {0}
      /\ DOMAIN frames = 1 .. Len(frames)
      /\ Len(frames) \in 1 .. Len(frames)
  BY DEF CallsOK, Idle
<1>2. Top = frames[Len(frames)]
  BY DEF Top, Last
<1>3. Top \in Call
  BY <1>1, <1>2 DEF CallsOK
<1>4. graph \in [Objects -> Seq(JsField)]
  BY GraphsAssumption DEF CallsOK, JsField
<1>5. graph[Top.obj] \in Seq(JsField)
  BY <1>3, <1>4 DEF Call
<1> QED
  BY <1>1, <1>2, <1>3, <1>5

\* The field it is to push, when there is one.
LEMMA FieldOfTop ==
  ASSUME CallsOK, ~Idle, ~AllFieldsPushed
  PROVE  /\ Top.next \in 1 .. Len(graph[Top.obj])
         /\ Field \in JsField
         /\ Field = graph[Top.obj][Top.next]
<1>1. Top.next \in 1 .. Len(graph[Top.obj])
  BY TopCall DEF AllFieldsPushed, Call
<1> QED
  BY <1>1, TopCall DEF Field

\* An image stays one while tables are added and the wrappers do not change.
HeapGrows ==
  /\ DOMAIN heap \subseteq DOMAIN heap'
  /\ \A t \in DOMAIN heap : heap'[t].of = heap[t].of

IsImageNext(v, f) ==
  IF f \in Objects THEN v \in DOMAIN heap' /\ heap'[v].of = f
  ELSE v = IF f \in Handles THEN handles'[f].value ELSE f

LEMMA ImageStays ==
  ASSUME NEW v, NEW f, IsImageOf(v, f), HeapGrows, handles' = handles
  PROVE  IsImageNext(v, f)
BY DEF IsImageOf, IsImageNext, HeapGrows

\* ImageSoFar in the next state.
LEMMA ImageSoFarNext ==
  ASSUME NEW t, NEW fs, NEW o, heap'[t].fields = fs, heap'[t].of = o, graph' = graph,
         Len(fs) <= Len(graph[o]),
         \A k \in 1 .. Len(fs) : IsImageNext(fs[k], graph[o][k])
  PROVE  ImageSoFar(t)'
BY DEF ImageSoFar, IsImageOf, IsImageNext

\* Adding the image of its next field to a table that has those before it.
LEMMA NextImage ==
  ASSUME CallsOK, Images, HeapGrows, graph' = graph, handles' = handles,
         NEW t \in DOMAIN heap, NEW v \in LuaField,
         heap'[t].fields = Append(heap[t].fields, v),
         Len(heap[t].fields) < Len(graph[heap[t].of]),
         IsImageNext(v, graph[heap[t].of][Len(heap[t].fields) + 1])
  PROVE  ImageSoFar(t)' /\ Len(heap'[t].fields) = Len(heap[t].fields) + 1
<1> DEFINE old == heap[t].fields
           n == Len(old)
           fs == Append(old, v)
           o == heap[t].of
<1>1. old \in Seq(LuaField) /\ n \in Nat /\ o \in Objects /\ heap'[t].of = o
  BY DEF Images, HeapGrows
<1>2. /\ Len(fs) = n + 1
      /\ \A k \in 1 .. n : fs[k] = old[k]
      /\ fs[n + 1] = v
  BY <1>1
<1>3. \A k \in 1 .. n : IsImageNext(old[k], graph[o][k])
  BY ImageStays DEF Images, ImageSoFar
<1>4. Len(graph[o]) \in Nat
  BY <1>1, GraphsAssumption DEF CallsOK
<1>5. heap'[t].fields = fs /\ IsImageNext(v, graph[o][n + 1]) /\ n < Len(graph[o])
  OBVIOUS
<1> HIDE DEF n, fs, old, o
<1>6. \A k \in 1 .. n + 1 : k \in 1 .. n \/ k = n + 1
  BY <1>1
<1>7. \A k \in 1 .. Len(fs) : IsImageNext(fs[k], graph[o][k])
  BY <1>2, <1>3, <1>5, <1>6
<1>8. Len(fs) <= Len(graph[o])
  BY <1>1, <1>2, <1>4, <1>5
<1>9. ImageSoFar(t)'
  BY <1>1, <1>5, <1>7, <1>8, ImageSoFarNext
<1>10. Len(heap'[t].fields) = n + 1
  BY <1>2, <1>5
<1> QED
  BY <1>9, <1>10 DEF n, old

LEMMA OtherImage ==
  ASSUME CallsOK, Images, HeapGrows, graph' = graph, handles' = handles,
         NEW t \in DOMAIN heap, heap'[t].fields = heap[t].fields
  PROVE  ImageSoFar(t)'
<1>1. heap'[t].of = heap[t].of
  BY DEF HeapGrows
<1>2. /\ Len(heap[t].fields) <= Len(graph[heap[t].of])
      /\ \A k \in 1 .. Len(heap[t].fields) : IsImageNext(heap[t].fields[k], graph[heap[t].of][k])
  BY ImageStays DEF Images, ImageSoFar
<1> QED
  BY <1>1, <1>2, ImageSoFarNext

-----------------------------------------------------------------------------
\* A field is set, by SetField for the call on top or by Leave for the one below.
\* It belongs to call p; those above it have returned.
FieldSet(p, v) ==
  LET t == frames[p].table IN
  /\ DOMAIN heap' = DOMAIN heap
  /\ \A u \in DOMAIN heap : heap'[u].of = heap[u].of
  /\ \A u \in DOMAIN heap \ {t} : heap'[u] = heap[u]
  /\ heap'[t].fields = Append(heap[t].fields, v)
  /\ heap' \in [DOMAIN heap -> [fields : Seq(LuaField), of : Objects]]
  /\ frames' \in Seq(Call)
  /\ Len(frames') = p
  /\ \A i \in 1 .. p : /\ frames'[i].obj = frames[i].obj
                       /\ frames'[i].table = frames[i].table
                       /\ i # p => frames'[i] = frames[i]
  /\ frames'[p].next = frames[p].next + 1

LEMMA SetFieldEffect ==
  ASSUME CallsOK, Images, ~Idle, NEW v \in LuaField, SetField(v)
  PROVE  FieldSet(Len(frames), v)
<1> DEFINE n == Len(frames)
           t == Top.table
<1>1. /\ n \in Nat \ {0} /\ n \in DOMAIN frames /\ DOMAIN frames = 1 .. n
      /\ Top = frames[n] /\ Top \in Call
  BY TopCall
<1>2. t \in DOMAIN heap /\ heap[t] \in [fields : Seq(LuaField), of : Objects]
  BY <1>1 DEF Images, CallFills
<1>3. heap' = [heap EXCEPT ![t].fields = Append(@, v)]
  BY DEF SetField
<1>4. frames' = [frames EXCEPT ![n].next = @ + 1]
  BY DEF SetField
<1>5. Append(heap[t].fields, v) \in Seq(LuaField)
  BY <1>2
<1>6. /\ DOMAIN heap' = DOMAIN heap
      /\ heap'[t] = [heap[t] EXCEPT !.fields = Append(@, v)]
      /\ \A u \in DOMAIN heap : u # t => heap'[u] = heap[u]
  BY <1>2, <1>3 DEF Images
<1>7. /\ heap'[t].of = heap[t].of /\ heap'[t].fields = Append(heap[t].fields, v)
      /\ heap'[t] \in [fields : Seq(LuaField), of : Objects]
  BY <1>2, <1>5, <1>6
<1>8. heap' \in [DOMAIN heap -> [fields : Seq(LuaField), of : Objects]]
  BY <1>3, <1>6, <1>7 DEF Images
<1>9. /\ frames' \in Seq(Call) /\ Len(frames') = n
      /\ frames'[n] = [frames[n] EXCEPT !.next = @ + 1]
      /\ \A i \in 1 .. n : i # n => frames'[i] = frames[i]
  <2>1. [frames[n] EXCEPT !.next = @ + 1] \in Call
    BY <1>1 DEF Call
  <2>2. frames \in Seq(Call)
    BY DEF CallsOK
  <2> HIDE DEF n
  <2> QED
    BY <1>1, <1>4, <2>1, <2>2
<1>10. /\ frames'[n].obj = frames[n].obj /\ frames'[n].table = frames[n].table
       /\ frames'[n].next = frames[n].next + 1
  BY <1>1, <1>9 DEF Call
<1>11. frames[n].table = t
  BY <1>1
<1> QED
  BY <1>6, <1>7, <1>8, <1>9, <1>10, <1>11 DEF FieldSet

LEMMA LeaveEffect ==
  ASSUME CallsOK, Images, Leave, ~throwing, Len(frames) # 1
  PROVE  /\ Len(frames) - 1 \in DOMAIN frames
         /\ FieldSet(Len(frames) - 1, Top.table)
<1> DEFINE n == Len(frames)
           p == n - 1
           t == frames[p].table
           v == Top.table
<1>1. ~Idle /\ AllFieldsPushed
  BY DEF Leave
<1>2. /\ n \in Nat \ {0} /\ n \in DOMAIN frames /\ DOMAIN frames = 1 .. n
      /\ Top = frames[n] /\ Top \in Call
  BY <1>1, TopCall
<1>3. p \in Nat \ {0} /\ p \in DOMAIN frames /\ p + 1 = n
  BY <1>2
<1>4. frames[p] \in Call
  BY <1>3 DEF CallsOK
<1>5. v \in LuaField
  BY <1>2, TablesAssumption DEF Call, LuaField
<1>6. t \in DOMAIN heap /\ heap[t] \in [fields : Seq(LuaField), of : Objects]
  BY <1>3 DEF Images, CallFills
<1>7. heap' = [heap EXCEPT ![t].fields = Append(@, v)]
  BY DEF Leave
<1>8. frames' = [Front(frames) EXCEPT ![p].next = @ + 1]
  BY DEF Leave
<1>9. Append(heap[t].fields, v) \in Seq(LuaField)
  BY <1>5, <1>6
<1>10. /\ DOMAIN heap' = DOMAIN heap
       /\ heap'[t] = [heap[t] EXCEPT !.fields = Append(@, v)]
       /\ \A u \in DOMAIN heap : u # t => heap'[u] = heap[u]
  BY <1>6, <1>7 DEF Images
<1>11. /\ heap'[t].of = heap[t].of /\ heap'[t].fields = Append(heap[t].fields, v)
       /\ heap'[t] \in [fields : Seq(LuaField), of : Objects]
  BY <1>6, <1>9, <1>10
<1>12. heap' \in [DOMAIN heap -> [fields : Seq(LuaField), of : Objects]]
  BY <1>7, <1>10, <1>11 DEF Images
<1>13. /\ Front(frames) \in Seq(Call) /\ Len(Front(frames)) = p
       /\ \A i \in 1 .. p : Front(frames)[i] = frames[i]
  BY <1>2, <1>3 DEF Front, CallsOK
<1>14. /\ frames' \in Seq(Call) /\ Len(frames') = p
       /\ frames'[p] = [frames[p] EXCEPT !.next = @ + 1]
       /\ \A i \in 1 .. p : i # p => frames'[i] = frames[i]
  <2>1. [frames[p] EXCEPT !.next = @ + 1] \in Call
    BY <1>4 DEF Call
  <2>2. p \in 1 .. p
    BY <1>3
  <2> HIDE DEF p
  <2> QED
    BY <1>3, <1>8, <1>13, <2>1, <2>2
<1>15. /\ frames'[p].obj = frames[p].obj /\ frames'[p].table = frames[p].table
       /\ frames'[p].next = frames[p].next + 1
  BY <1>4, <1>14 DEF Call
<1> QED
  BY <1>3, <1>10, <1>11, <1>12, <1>14, <1>15 DEF FieldSet

-----------------------------------------------------------------------------
\* A field is set to the image of the field of the object.
LEMMA FieldSetKeepsImages ==
  ASSUME CallsOK, Images, ~Idle, ~throwing, throwing' = throwing, graph' = graph, handles' = handles, root' = root,
         NEW p \in DOMAIN frames, NEW v \in LuaField, FieldSet(p, v),
         frames[p].next <= Len(graph[frames[p].obj]),
         IsImageNext(v, graph[frames[p].obj][frames[p].next]),
         \A i \in DOMAIN frames : i > p => frames[i].next > Len(graph[frames[i].obj])
  PROVE  Images'
<1>0. PICK t : t = frames[p].table
  OBVIOUS
<1>1. /\ DOMAIN heap' = DOMAIN heap
      /\ \A u \in DOMAIN heap : heap'[u].of = heap[u].of
      /\ \A u \in DOMAIN heap \ {t} : heap'[u] = heap[u]
      /\ heap'[t].fields = Append(heap[t].fields, v)
  BY <1>0 DEF FieldSet
<1>1a. heap' \in [DOMAIN heap' -> [fields : Seq(LuaField), of : Objects]]
  BY DEF FieldSet
<1>2. /\ frames' \in Seq(Call) /\ Len(frames') = p
      /\ \A i \in 1 .. p : /\ frames'[i].obj = frames[i].obj
                           /\ frames'[i].table = frames[i].table
                           /\ i # p => frames'[i] = frames[i]
      /\ frames'[p].next = frames[p].next + 1
  BY DEF FieldSet
<1>3. /\ DOMAIN frames = 1 .. Len(frames) /\ Len(frames) \in Nat
      /\ p \in Nat \ {0} /\ p <= Len(frames)
      /\ DOMAIN frames' = 1 .. p
  BY <1>2, TopCall
<1>4. \A i \in 1 .. p : i \in DOMAIN frames
  BY <1>3
<1>5. \A i \in DOMAIN frames : CallFills(frames[i]) /\ frames[i] \in Call
  BY DEF Images, CallsOK
<1>6. HeapGrows
  BY <1>1 DEF HeapGrows
<1>7. /\ t \in DOMAIN heap /\ heap[t].of = frames[p].obj
      /\ Len(heap[t].fields) + 1 = frames[p].next
  BY <1>0, <1>5 DEF CallFills
<1>8. Len(heap[t].fields) \in Nat /\ frames[p].next \in Nat /\ Len(graph[frames[p].obj]) \in Nat
  BY <1>5, <1>7, GraphsAssumption DEF Images, Call, CallsOK
<1>9. ImageSoFar(t)' /\ Len(heap'[t].fields) = Len(heap[t].fields) + 1
  <2>1. Len(heap[t].fields) < Len(graph[heap[t].of])
    BY <1>7, <1>8
  <2>2. IsImageNext(v, graph[heap[t].of][Len(heap[t].fields) + 1])
    BY <1>7
  <2> QED
    BY <1>1, <1>6, <1>7, <2>1, <2>2, NextImage
<1>10. ASSUME NEW u \in DOMAIN heap' PROVE ImageSoFar(u)'
  BY <1>1, <1>6, <1>9, OtherImage
\* No two active calls fill the same table.
<1>11. \A i \in DOMAIN frames : i # p => frames[i].table # t
  BY <1>0 DEF Images
<1>12. ASSUME NEW i \in DOMAIN frames' PROVE CallFills(frames[i])'
  <2>1. i \in 1 .. p /\ i \in DOMAIN frames
    BY <1>3, <1>4
  <2>2. CASE i = p
    BY <1>0, <1>1, <1>2, <1>7, <1>9, <2>1, <2>2 DEF CallFills
  <2>3. CASE i # p
    <3>1. frames'[i] = frames[i] /\ frames[i].table # t /\ CallFills(frames[i])
      BY <1>2, <1>5, <1>11, <2>1, <2>3
    <3> QED
      BY <1>1, <3>1 DEF CallFills
  <2> QED
    BY <2>2, <2>3
<1>13. ASSUME NEW i \in DOMAIN frames', NEW j \in DOMAIN frames', frames'[i].table = frames'[j].table
       PROVE  i = j
  BY <1>2, <1>3, <1>4, <1>13 DEF Images
<1>14. CallsNest'
  <2> SUFFICES ASSUME NEW i \in DOMAIN frames', i # Len(frames')
               PROVE  /\ frames'[i].next <= Len(graph'[frames'[i].obj])
                      /\ graph'[frames'[i].obj][frames'[i].next] = frames'[i + 1].obj
    BY DEF CallsNest
  <2>1. i \in 1 .. p /\ i + 1 \in 1 .. p /\ i # p /\ i # Len(frames) /\ i \in DOMAIN frames
    BY <1>2, <1>3
  <2>2. frames'[i] = frames[i] /\ frames'[i + 1].obj = frames[i + 1].obj
    BY <1>2, <2>1
  <2> QED
    BY <2>1, <2>2 DEF Images, CallsNest
<1>15. ASSUME NEW u \in DOMAIN heap' \ ActiveTables'
       PROVE  Len(heap'[u].fields) = Len(graph'[heap'[u].of])
  <2>1. u # t
    <3>1. p \in DOMAIN frames' /\ frames'[p].table = t
      BY <1>0, <1>2, <1>3
    <3> QED
      BY <3>1 DEF ActiveTables
  <2>2. heap'[u] = heap[u] /\ u \in DOMAIN heap
    BY <1>1, <2>1
  <2>3. CASE u \notin ActiveTables
    BY <2>2, <2>3 DEF Images
  <2>4. CASE u \in ActiveTables
    <3>1. PICK i \in DOMAIN frames : frames[i].table = u
      BY <2>4 DEF ActiveTables
    <3>2. ~ i \in 1 .. p
      BY <1>2, <1>3, <3>1 DEF ActiveTables
    <3>3. frames[i].next > Len(graph[frames[i].obj])
      BY <1>3, <3>2
    <3>4. /\ Len(heap[u].fields) + 1 = frames[i].next /\ heap[u].of = frames[i].obj
          /\ Len(heap[u].fields) <= Len(graph[heap[u].of])
      BY <1>5, <2>2, <3>1 DEF CallFills, Images, ImageSoFar
    <3>5. Len(heap[u].fields) \in Nat /\ Len(graph[heap[u].of]) \in Nat
      BY <2>2, GraphsAssumption DEF Images, CallsOK
    <3> QED
      BY <2>2, <3>3, <3>4, <3>5
  <2> QED
    BY <2>3, <2>4
<1>16. root' = Nil
  BY DEF Images
<1> QED
  BY <1>1a, <1>10, <1>12, <1>13, <1>14, <1>15, <1>16 DEF Images

\* A new object is entered: a call for it, with a table of its own, is added to
\* the calls and to the heap.
Entered(o, tab) ==
  /\ tab \in Tables \ DOMAIN heap
  /\ heap' = WithTable(heap, tab, o)
  /\ frames' = Append(frames, [obj |-> o, table |-> tab, next |-> 1])

LEMMA EnteredKeepsImages ==
  ASSUME CallsOK, Images, ~throwing, throwing' = throwing, graph' = graph, handles' = handles, root' = root,
         ~Idle, ~AllFieldsPushed, Field \in Objects, NEW tab, Entered(Field, tab)
  PROVE  Images' /\ frames' \in Seq(Call)
<1> DEFINE n == Len(frames)
           new == [obj |-> Field, table |-> tab, next |-> 1]
<1>1. /\ n \in Nat \ {0} /\ n \in DOMAIN frames /\ DOMAIN frames = 1 .. n
      /\ Top = frames[n] /\ Top \in Call
  BY TopCall
<1>2. Top.next \in 1 .. Len(graph[Top.obj]) /\ Field = graph[Top.obj][Top.next]
  BY FieldOfTop
<1>3. /\ DOMAIN heap' = DOMAIN heap \cup {tab} /\ tab \notin DOMAIN heap
      /\ \A u \in DOMAIN heap : heap'[u] = heap[u]
      /\ heap'[tab] = [fields |-> <<>>, of |-> Field]
  BY DEF Entered, WithTable
<1>4. new \in Call
  BY DEF Call, Entered
<1>5. /\ frames' \in Seq(Call) /\ Len(frames') = n + 1
      /\ \A i \in 1 .. n : frames'[i] = frames[i]
      /\ frames'[n + 1] = new
  <2>1. frames \in Seq(Call) /\ frames' = Append(frames, new)
    BY DEF CallsOK, Entered
  <2> HIDE DEF new
  <2> QED
    BY <1>4, <2>1
<1>6. DOMAIN frames' = 1 .. n + 1 /\ \A i \in 1 .. n + 1 : i \in 1 .. n \/ i = n + 1
  BY <1>1, <1>5
<1>7. HeapGrows
  BY <1>3 DEF HeapGrows
<1>8. heap' \in [DOMAIN heap' -> [fields : Seq(LuaField), of : Objects]]
  <2>1. [fields |-> <<>>, of |-> Field] \in [fields : Seq(LuaField), of : Objects]
    OBVIOUS
  <2>2. \A u \in DOMAIN heap' : heap'[u] \in [fields : Seq(LuaField), of : Objects]
    BY <1>3, <2>1 DEF Images
  <2>3. heap' = [u \in DOMAIN heap' |-> heap'[u]]
    BY DEF Entered, WithTable
  <2> QED
    BY <2>2, <2>3
<1>9. ASSUME NEW u \in DOMAIN heap' PROVE ImageSoFar(u)'
  <2>1. CASE u = tab
    <3>1. Len(<<>>) = 0 /\ Len(graph[Field]) \in Nat
      BY GraphsAssumption DEF CallsOK
    <3>2. Len(<<>>) <= Len(graph[Field]) /\ 1 .. Len(<<>>) = {}
      BY <3>1
    <3>3. heap'[u].fields = <<>> /\ heap'[u].of = Field
      BY <1>3, <2>1
    <3> QED
      BY <3>2, <3>3, ImageSoFarNext
  <2>2. CASE u # tab
    BY <1>3, <1>7, <2>2, OtherImage
  <2> QED
    BY <2>1, <2>2
<1>10. ASSUME NEW i \in DOMAIN frames' PROVE CallFills(frames[i])'
  <2>1. CASE i \in 1 .. n
    BY <1>1, <1>3, <1>5, <2>1 DEF Images, CallFills
  <2>2. CASE i = n + 1
    <3>1. Len(<<>>) + 1 = 1
      OBVIOUS
    <3> QED
      BY <1>3, <1>5, <2>2, <3>1 DEF CallFills
  <2> QED
    BY <1>6, <2>1, <2>2
<1>11. \A i \in 1 .. n : frames[i].table # tab
  BY <1>1, <1>3 DEF Images, CallFills
<1>12. ASSUME NEW i \in DOMAIN frames', NEW j \in DOMAIN frames', frames'[i].table = frames'[j].table
       PROVE  i = j
  <2> HIDE DEF n
  <2>1. CASE i \in 1 .. n /\ j \in 1 .. n
    BY <1>1, <1>5, <1>12, <2>1 DEF Images
  <2>2. CASE i = n + 1 \/ j = n + 1
    BY <1>5, <1>6, <1>11, <1>12, <2>2
  <2> QED
    BY <1>6, <2>1, <2>2
<1>13. CallsNest'
  <2> SUFFICES ASSUME NEW i \in DOMAIN frames', i # Len(frames')
               PROVE  /\ frames'[i].next <= Len(graph'[frames'[i].obj])
                      /\ graph'[frames'[i].obj][frames'[i].next] = frames'[i + 1].obj
    BY DEF CallsNest
  <2>1. i \in 1 .. n
    BY <1>5, <1>6
  <2>2. CASE i = n
    <3>1. frames'[i] = Top /\ frames'[i + 1] = new
      BY <1>1, <1>5, <2>1, <2>2
    <3> QED
      BY <1>2, <3>1, TopCall DEF Call
  <2>3. CASE i # n
    <3>1. i + 1 \in 1 .. n
      BY <1>1, <2>1, <2>3
    <3>2. frames'[i] = frames[i] /\ frames'[i + 1] = frames[i + 1]
      BY <1>5, <2>1, <3>1
    <3> QED
      BY <1>1, <2>1, <2>3, <3>2 DEF Images, CallsNest
  <2> QED
    BY <2>2, <2>3
<1>14. ASSUME NEW u \in DOMAIN heap' \ ActiveTables'
       PROVE  Len(heap'[u].fields) = Len(graph'[heap'[u].of])
  <2>1. u # tab /\ u \notin ActiveTables
    <3>1. n + 1 \in DOMAIN frames' /\ \A i \in DOMAIN frames : i \in DOMAIN frames' /\ frames'[i] = frames[i]
      BY <1>1, <1>5, <1>6
    <3> QED
      BY <1>5, <3>1 DEF ActiveTables
  <2> QED
    BY <1>3, <2>1 DEF Images
<1>15. root' = Nil
  BY DEF Images
<1> QED
  BY <1>5, <1>8, <1>9, <1>10, <1>12, <1>13, <1>14, <1>15 DEF Images

-----------------------------------------------------------------------------
LEMMA NextFieldOfCall ==
  ASSUME NEW f \in Call
  PROVE  [f EXCEPT !.next = @ + 1] \in Call
BY DEF Call

\* Every step keeps what it can of the calls, whatever the graph.
LEMMA CallsStay == CallsOK /\ [Next]_vars => CallsOK'
<1> SUFFICES ASSUME CallsOK, [Next]_vars PROVE CallsOK'
  OBVIOUS
<1> USE DEF CallsOK
<1>1. ASSUME NEW v, ~Idle, SetField(v) PROVE frames' \in Seq(Call) /\ DOMAIN heap' = DOMAIN heap
  <2> DEFINE n == Len(frames)
  <2>1. n \in DOMAIN frames /\ frames[n] \in Call
    BY <1>1, TopCall
  <2>2. [frames[n] EXCEPT !.next = @ + 1] \in Call
    BY <2>1, NextFieldOfCall
  <2>3. frames' = [frames EXCEPT ![n].next = @ + 1]
    BY <1>1 DEF SetField
  <2>4. DOMAIN heap' = DOMAIN heap
    BY <1>1 DEF SetField
  <2> HIDE DEF n
  <2> QED
    BY <2>1, <2>2, <2>3, <2>4
<1>2. \A r \in RefChoices(registry) : r \in Nat
  BY SlotsAreNumbers DEF RefChoices, FreeHead
<1>3. ASSUME NEW o \in Objects, NEW tab \in Tables
      PROVE  [obj |-> o, table |-> tab, next |-> 1] \in Call
  BY DEF Call
<1>4. ASSUME NEW o \in Objects, StartPush(o) PROVE CallsOK'
  <2>1. PICK tab \in Tables, r \in RefChoices(registry) :
          /\ heap' = WithTable(<<>>, tab, o)
          /\ frames' = <<[obj |-> o, table |-> tab, next |-> 1]>>
          /\ refs' = <<<<o, r>>>>
    BY <1>4 DEF StartPush
  <2>2. graph' = graph /\ throwing' = FALSE
    BY <1>4 DEF StartPush
  <2>3. DOMAIN heap' \subseteq Tables
    BY <2>1 DEF WithTable
  <2>4. <<o, r>> \in Objects \X Nat
    BY <1>2
  <2>5. refs' \in Seq(Objects \X Nat)
    BY <2>1, <2>4
  <2>6. frames' \in Seq(Call)
    BY <1>3, <2>1
  <2> QED
    BY <2>2, <2>3, <2>5, <2>6
<1>5. CASE PushScalarField
  <2>1. ~Idle /\ SetField(Scalar) /\ UNCHANGED <<graph, refs, throwing>>
    BY <1>5 DEF PushScalarField, Running
  <2> QED
    BY <1>1, <2>1
<1>6. CASE PushHandleField
  <2>1. ~Idle /\ SetField(registry[handles[Field].ref]) /\ UNCHANGED <<graph, refs, throwing>>
    BY <1>6 DEF PushHandleField, Running
  <2> QED
    BY <1>1, <2>1
<1>7. CASE PushKnownObject
  <2>1. PICK r \in RefOf(Field) : SetField(registry[r])
    BY <1>7 DEF PushKnownObject
  <2>2. ~Idle /\ UNCHANGED <<graph, refs, throwing>>
    BY <1>7 DEF PushKnownObject, Running
  <2> QED
    BY <1>1, <2>1, <2>2
<1>8. CASE PushNewObject
  <2>1. Field \in Objects /\ UNCHANGED <<graph, throwing>>
    BY <1>8 DEF PushNewObject
  <2>2. PICK tab \in Tables \ DOMAIN heap, r \in RefChoices(registry) :
          /\ heap' = WithTable(heap, tab, Field)
          /\ frames' = Append(frames, [obj |-> Field, table |-> tab, next |-> 1])
          /\ refs' = Append(refs, <<Field, r>>)
    BY <1>8 DEF PushNewObject, Enter
  <2>3. DOMAIN heap' \subseteq Tables
    BY <2>2 DEF WithTable
  <2>4. <<Field, r>> \in Objects \X Nat
    BY <1>2, <2>1
  <2> QED
    BY <1>3, <2>1, <2>2, <2>3, <2>4
<1>9. CASE PushFieldThrows
  BY <1>9 DEF PushFieldThrows
<1>10. CASE Leave
  <2> DEFINE n == Len(frames)
             p == n - 1
  <2>1. ~Idle /\ UNCHANGED <<graph, refs, throwing>>
    BY <1>10 DEF Leave
  <2>0. n \in Nat \ {0} /\ p \in Nat /\ p + 1 = n /\ frames \in Seq(Call)
    BY <2>1, TopCall
  <2>2. /\ Front(frames) \in Seq(Call) /\ Len(Front(frames)) = p
    BY <2>0 DEF Front
  <2>3. DOMAIN heap' = DOMAIN heap
    BY <1>10 DEF Leave
  <2>4. CASE throwing \/ n = 1
    BY <1>10, <2>1, <2>2, <2>3, <2>4 DEF Leave
  <2>5. CASE ~ (throwing \/ n = 1)
    <3>1. frames' = [Front(frames) EXCEPT ![p].next = @ + 1]
      BY <1>10, <2>5 DEF Leave
    <3>2. p \in 1 .. p
      BY <2>0, <2>5
    <3>3. Front(frames)[p] \in Call
      BY <2>2, <3>2
    <3>4. [Front(frames)[p] EXCEPT !.next = @ + 1] \in Call
      BY <3>3, NextFieldOfCall
    <3> HIDE DEF p
    <3> QED
      BY <2>1, <2>2, <2>3, <3>1, <3>2, <3>4
  <2> QED
    BY <2>4, <2>5
<1>11. CASE WrapOrDestroy
  <2>1. heap' = <<>> /\ refs' = <<>> /\ throwing' = FALSE /\ graph' = graph /\ frames' = frames
    BY <1>11 DEF WrapOrDestroy
  <2>2. DOMAIN heap' = {} /\ refs' \in Seq(Objects \X Nat)
    BY <2>1
  <2>3. graph' = graph /\ frames' = frames /\ throwing' = FALSE
    BY <2>1
  <2> QED
    BY <2>2, <2>3
<1>12. CASE UNCHANGED vars
  <2>1. /\ graph' = graph /\ frames' = frames /\ refs' = refs
        /\ heap' = heap /\ throwing' = throwing
    BY <1>12 DEF vars, pushVars
  <2> QED
    BY <2>1 DEF Call
<1> QED
  BY <1>4, <1>5, <1>6, <1>7, <1>8, <1>9, <1>10, <1>11, <1>12 DEF Next, PushStep

-----------------------------------------------------------------------------
LEMMA FieldIsNested ==
  ASSUME CallsOK, ~Idle, ~AllFieldsPushed
  PROVE  /\ Top.obj \in Objects
         /\ Top.next \in DOMAIN graph[Top.obj] /\ graph[Top.obj][Top.next] = Field
         /\ Field \in ToSet(graph[Top.obj])
<1>1. Top.obj \in Objects /\ graph[Top.obj] \in Seq(JsField)
  BY TopCall DEF Call
<1>2. Top.next \in DOMAIN graph[Top.obj] /\ graph[Top.obj][Top.next] = Field
  BY <1>1, FieldOfTop
<1> QED
  BY <1>1, <1>2 DEF ToSet

\* The next field of a tree is an object that has no table yet.
LEMMA NotVisited ==
  ASSUME CallsOK, Images, VisitsOnce, Tree, Running, ~AllFieldsPushed,
         Field \in Objects, NEW t \in DOMAIN heap
  PROVE  heap[t].of # Field
<1> SUFFICES ASSUME heap[t].of = Field PROVE FALSE
  OBVIOUS
<1> DEFINE n == Len(frames)
           top == Top.table
<1>1. ~Idle /\ ~throwing
  BY DEF Running
<1>2. /\ n \in DOMAIN frames /\ Top = frames[n] /\ 1 \in DOMAIN frames
      /\ Top.obj \in Objects
      /\ Top.next \in DOMAIN graph[Top.obj] /\ graph[Top.obj][Top.next] = Field
      /\ Field \in ToSet(graph[Top.obj])
  BY <1>1, TopCall, FieldIsNested
<1>3. top \in DOMAIN heap /\ heap[top].of = Top.obj /\ Len(heap[top].fields) + 1 = Top.next
  BY <1>2 DEF Images, CallFills
<1>4. \A u \in DOMAIN heap : heap[u].of \in Objects /\ Len(heap[u].fields) \in Nat
  BY DEF Images
<1>5. CASE t # frames[1].table
  <2>0. PICK u \in DOMAIN heap : \E k \in DOMAIN graph[heap[u].of] : PlacedIn(t, u, k)
    BY <1>1, <1>5 DEF VisitsOnce
  <2>1. PICK k \in DOMAIN graph[heap[u].of] : PlacedIn(t, u, k)
    BY <2>0
  <2>2. graph[heap[u].of][k] = Field
    BY <2>1 DEF PlacedIn
  <2>3. heap[u].of = Top.obj /\ k = Top.next
    BY <1>2, <1>4, <2>2 DEF Tree
  <2>4. u = top
    BY <1>1, <1>3, <2>3 DEF VisitsOnce
  <2>5. ~ k <= Len(heap[u].fields)
    BY <1>3, <1>4, <2>3, <2>4
  <2>6. PICK i \in DOMAIN frames : i # n /\ frames[i].table = u
    BY <2>1, <2>5 DEF PlacedIn
  <2> QED
    BY <1>2, <2>4, <2>6 DEF Images
<1>6. CASE t = frames[1].table
  <2> DEFINE S == {heap[u].of : u \in DOMAIN heap}
  <2>1. S \subseteq Objects /\ S # {}
    BY <1>3, <1>4
  <2>2. PICK o \in S : \A p \in S : o \notin ToSet(graph[p])
    <3> HIDE DEF S
    <3> QED
      BY <2>1 DEF Tree
  <2>3. PICK x \in DOMAIN heap : heap[x].of = o
    OBVIOUS
  <2>4. CASE x = t
    BY <1>2, <1>3, <2>2, <2>3, <2>4
  <2>5. CASE x # t
    <3>0. PICK u \in DOMAIN heap : \E k \in DOMAIN graph[heap[u].of] : PlacedIn(x, u, k)
      BY <1>1, <1>6, <2>5 DEF VisitsOnce
    <3>1. PICK k \in DOMAIN graph[heap[u].of] : PlacedIn(x, u, k)
      BY <3>0
    <3>2. o \in ToSet(graph[heap[u].of])
      BY <2>3, <3>1 DEF PlacedIn, ToSet
    <3> QED
      BY <2>2, <3>2
  <2> QED
    BY <2>4, <2>5
<1> QED
  BY <1>5, <1>6

LEMMA KnownMeansVisited ==
  ASSUME CallsOK, Images, VisitsOnce, Tree, PushKnownObject
  PROVE  FALSE
<1>1. PICK q \in ToSet(refs) : q[1] = Field
  BY DEF PushKnownObject, RefOf
<1>2. PICK i \in DOMAIN refs : refs[i] = q
  BY DEF ToSet
<1>3. Running /\ ~AllFieldsPushed
  BY DEF PushKnownObject
<1>4. PICK t \in DOMAIN heap : heap[t].of = Field
  BY <1>1, <1>2, <1>3 DEF VisitsOnce, Running
<1>5. Field \in Objects
  BY <1>4 DEF Images
<1> QED
  BY <1>3, <1>4, <1>5, NotVisited

-----------------------------------------------------------------------------
\* What the registry gives back for a flat object.
LEMMA FlatField ==
  ASSUME CallsOK, Flat, FlatRegistry, Running, ~AllFieldsPushed, Field \in Objects
  PROVE  Field = Top.obj /\ RefOf(Field) # {}
<1>1. ~Idle
  BY DEF Running
<1>2. Field = Top.obj
  BY <1>1, FieldIsNested DEF Flat
<1>3. PICK o \in Objects, r \in Slots \ {0} : Len(frames) = 1 /\ frames[1].obj = o /\ refs = <<<<o, r>>>>
  BY <1>1 DEF FlatRegistry, TableAnchored
<1>4. Top.obj = o
  BY <1>1, <1>3, TopCall
<1>5. <<o, r>> \in ToSet(refs) /\ <<o, r>>[1] = o
  BY <1>3 DEF ToSet
<1> QED
  BY <1>2, <1>4, <1>5 DEF RefOf

LEMMA FlatLookup ==
  ASSUME CallsOK, Images, FlatRegistry, Running, NEW f, NEW r \in RefOf(f)
  PROVE  f \in Objects /\ registry[r] \in Tables /\ IsImageOf(registry[r], f)
<1>1. PICK o \in Objects, t \in Tables, s \in Slots \ {0} :
        /\ Len(frames) = 1 /\ frames[1].obj = o /\ frames[1].table = t
        /\ refs = <<<<o, s>>>> /\ registry[s] = t
  BY DEF FlatRegistry, TableAnchored, Running
<1>2. ToSet(refs) = {<<o, s>>}
  BY <1>1 DEF ToSet
<1>3. f = o /\ r = s
  BY <1>2 DEF RefOf
<1>4. 1 \in DOMAIN frames
  BY <1>1, TopCall DEF Running
<1>5. t \in DOMAIN heap /\ heap[t].of = o
  BY <1>1, <1>4 DEF Images, CallFills
<1> QED
  BY <1>1, <1>3, <1>5 DEF IsImageOf

\* The hypotheses under which a step is looked at.
StateOK ==
  /\ CallsOK
  /\ Images
  /\ Flat \/ (Tree /\ HoldsNoHandle)
  /\ Flat => FlatRegistry
  /\ Tree /\ HoldsNoHandle => VisitsOnce

LEMMA SetFieldKeepsImages ==
  ASSUME CallsOK, Images, Running, ~AllFieldsPushed, NEW v \in LuaField, SetField(v),
         IsImageOf(v, Field), UNCHANGED <<handles, graph, throwing, root>>
  PROVE  Images'
<1>1. ~Idle /\ ~throwing
  BY DEF Running
<1>2. FieldSet(Len(frames), v)
  BY <1>1, SetFieldEffect
<1>3. /\ Len(frames) \in DOMAIN frames /\ Top = frames[Len(frames)]
      /\ Top.next \in 1 .. Len(graph[Top.obj]) /\ Field = graph[Top.obj][Top.next]
      /\ Len(graph[Top.obj]) \in Nat
  BY <1>1, TopCall, FieldOfTop
<1>4. HeapGrows
  BY <1>2 DEF FieldSet, HeapGrows
<1>5. IsImageNext(v, Field)
  BY <1>4, ImageStays
<1>6. \A i \in DOMAIN frames : ~ i > Len(frames)
  BY <1>1, TopCall
<1>7. Top.next <= Len(graph[Top.obj])
  BY <1>3
<1> QED
  BY <1>1, <1>2, <1>3, <1>5, <1>6, <1>7, FieldSetKeepsImages

LEMMA NothingCopied ==
  ASSUME heap' = <<>>, frames' = <<>>, root' = Nil
  PROVE  Images'
<1>1. DOMAIN heap' = {} /\ DOMAIN frames' = {}
  OBVIOUS
<1>2. heap' \in [DOMAIN heap' -> [fields : Seq(LuaField), of : Objects]]
  BY <1>1
<1> QED
  BY <1>1, <1>2 DEF Images, CallsNest

\* A call that returns has a complete table.
LEMMA LeavingIsComplete ==
  ASSUME CallsOK, Images, Leave, ~throwing
  PROVE  /\ Top.table \in DOMAIN heap
         /\ heap[Top.table].of = Top.obj
         /\ Len(heap[Top.table].fields) = Len(graph[Top.obj])
         /\ Top.next > Len(graph[Top.obj])
<1>1. ~Idle /\ AllFieldsPushed
  BY DEF Leave
<1>2. /\ Len(frames) \in DOMAIN frames /\ Top = frames[Len(frames)] /\ Top \in Call
      /\ Len(graph[Top.obj]) \in Nat
  BY <1>1, TopCall
<1>3. /\ Top.table \in DOMAIN heap /\ heap[Top.table].of = Top.obj
      /\ Len(heap[Top.table].fields) + 1 = Top.next
  BY <1>2 DEF Images, CallFills
<1>4. Len(heap[Top.table].fields) <= Len(graph[Top.obj]) /\ Len(heap[Top.table].fields) \in Nat
  BY <1>3 DEF Images, ImageSoFar
<1>5. Top.next > Len(graph[Top.obj])
  BY <1>1 DEF AllFieldsPushed
<1> QED
  BY <1>2, <1>3, <1>4, <1>5

LEMMA FrontOfCalls ==
  ASSUME CallsOK, ~Idle
  PROVE  /\ DOMAIN Front(frames) = 1 .. Len(frames) - 1
         /\ Len(Front(frames)) = Len(frames) - 1
         /\ \A i \in 1 .. Len(frames) - 1 : Front(frames)[i] = frames[i] /\ i \in DOMAIN frames /\ i # Len(frames)
<1> DEFINE p == Len(frames) - 1
<1>1. Len(frames) \in Nat \ {0} /\ DOMAIN frames = 1 .. Len(frames)
  BY TopCall
<1>2. p \in Nat /\ p + 1 = Len(frames) /\ frames \in Seq(Call)
  BY <1>1 DEF CallsOK
<1>3. /\ Front(frames) \in Seq(Call) /\ Len(Front(frames)) = p
      /\ \A i \in 1 .. p : Front(frames)[i] = frames[i]
  BY <1>2 DEF Front
<1>4. DOMAIN Front(frames) = 1 .. p
  BY <1>3
<1>5. \A i \in 1 .. p : i \in DOMAIN frames /\ i # Len(frames)
  <2>1. \A m \in Nat : \A i \in 1 .. m : i \in 1 .. m + 1 /\ i # m + 1
    OBVIOUS
  <2> HIDE DEF p
  <2> QED
    BY <1>1, <1>2, <2>1
<1> QED
  BY <1>3, <1>4, <1>5

LEMMA LeaveKeepsImages ==
  ASSUME StateOK, Leave
  PROVE  Images'
<1> USE DEF StateOK
<1> DEFINE n == Len(frames)
<1>1. /\ ~Idle /\ graph' = graph /\ handles' = handles /\ throwing' = throwing
  BY DEF Leave
<1>2. /\ n \in Nat \ {0} /\ n \in DOMAIN frames /\ DOMAIN frames = 1 .. n
      /\ Top = frames[n] /\ Top \in Call
  BY <1>1, TopCall
<1>3. root = Nil
  BY <1>1 DEF Images
<1>4. CASE throwing \/ n = 1
  <2>1. frames' = Front(frames) /\ heap' = heap
    BY <1>4 DEF Leave
  <2>2. /\ DOMAIN frames' = 1 .. n - 1 /\ Len(frames') = n - 1
        /\ \A i \in 1 .. n - 1 : frames'[i] = frames[i] /\ i \in DOMAIN frames /\ i # n
    BY <1>1, <2>1, FrontOfCalls
  <2>3. ASSUME NEW t \in DOMAIN heap PROVE ImageSoFar(t)'
    BY <1>1, <2>1 DEF Images, ImageSoFar, IsImageOf
  <2>4. ASSUME NEW i \in DOMAIN frames' PROVE CallFills(frames[i])'
    BY <2>1, <2>2 DEF Images, CallFills
  <2>5. ASSUME NEW i \in DOMAIN frames', NEW j \in DOMAIN frames', frames'[i].table = frames'[j].table
        PROVE  i = j
    BY <2>2, <2>5 DEF Images
  <2>6. CallsNest'
    <3> SUFFICES ASSUME NEW i \in DOMAIN frames', i # Len(frames')
                 PROVE  /\ frames'[i].next <= Len(graph'[frames'[i].obj])
                        /\ graph'[frames'[i].obj][frames'[i].next] = frames'[i + 1].obj
      BY DEF CallsNest
    <3>1. i \in 1 .. n - 1 /\ i + 1 \in 1 .. n - 1
      BY <1>2, <2>2
    <3>2. frames'[i] = frames[i] /\ frames'[i + 1] = frames[i + 1] /\ i \in DOMAIN frames /\ i # Len(frames)
      BY <2>2, <3>1
    <3> QED
      BY <1>1, <3>2 DEF Images, CallsNest
  <2>7. CASE throwing
    <3>1. root' = Nil /\ throwing'
      BY <1>1, <1>3, <2>7 DEF Leave
    <3> QED
      BY <2>1, <2>3, <2>4, <2>5, <2>6, <3>1 DEF Images
  <2>8. CASE ~throwing
    <3>1. n = 1 /\ DOMAIN frames' = {}
      BY <1>4, <2>2, <2>8
    <3>2. frames' = <<>> /\ ActiveTables' = {}
      BY <1>2, <2>1, <3>1 DEF Front, CallsOK, ActiveTables
    <3>3. ActiveTables = {Top.table}
      BY <1>2, <3>1 DEF ActiveTables
    <3>4. \A t \in DOMAIN heap : Len(heap[t].fields) = Len(graph[heap[t].of])
      BY <2>8, <3>3, LeavingIsComplete DEF Images
    <3>5. Idle' /\ ~throwing'
      BY <1>1, <2>8, <3>2 DEF Idle
    <3> QED
      BY <1>1, <2>1, <2>3, <2>4, <2>5, <2>6, <3>2, <3>4, <3>5 DEF Images
  <2> QED
    BY <2>7, <2>8
<1>5. CASE ~throwing /\ n # 1
  <2> DEFINE p == n - 1
  <2>1. p \in DOMAIN frames /\ FieldSet(p, Top.table)
    BY <1>5, LeaveEffect
  <2>2. Top.table \in LuaField
    BY <1>2, TablesAssumption DEF LuaField, Call
  <2>3. p # n /\ p + 1 = n
    <3>1. \A m \in Nat : m - 1 # m /\ (m - 1) + 1 = m
      OBVIOUS
    <3>2. n \in Nat
      BY <1>2
    <3> HIDE DEF n
    <3> QED
      BY <3>1, <3>2
  <2>4. /\ frames[p].next <= Len(graph[frames[p].obj])
        /\ graph[frames[p].obj][frames[p].next] = Top.obj
    BY <1>2, <2>1, <2>3 DEF Images, CallsNest
  <2>5. HeapGrows
    BY <2>1 DEF FieldSet, HeapGrows
  <2>6. IsImageNext(Top.table, Top.obj)
    <3>1. IsImageOf(Top.table, Top.obj)
      BY <1>2, <1>5, LeavingIsComplete DEF IsImageOf, Call
    <3> QED
      BY <1>1, <2>5, <3>1, ImageStays
  <2>7. \A i \in DOMAIN frames : i > p => frames[i].next > Len(graph[frames[i].obj])
    <3>1. \A i \in DOMAIN frames : i > p => i = n
      BY <1>2
    <3> QED
      BY <1>2, <1>5, <3>1, LeavingIsComplete
  <2>8. root' = root
    BY <1>5 DEF Leave
  <2> HIDE DEF p
  <2> QED
    BY <1>1, <1>5, <2>1, <2>2, <2>4, <2>6, <2>7, <2>8, FieldSetKeepsImages
<1> QED
  BY <1>4, <1>5

LEMMA ImagesStay == StateOK /\ [Next]_vars => Images'
<1> SUFFICES ASSUME StateOK, [Next]_vars PROVE Images'
  OBVIOUS
<1> USE DEF StateOK
<1>1. ASSUME NEW o \in Objects, StartPush(o) PROVE Images'
  <2>1. PICK tab \in Tables :
          /\ heap' = WithTable(<<>>, tab, o)
          /\ frames' = <<[obj |-> o, table |-> tab, next |-> 1]>>
    BY <1>1 DEF StartPush
  <2>2. graph' = graph /\ throwing' = FALSE /\ root' = Nil
    BY <1>1 DEF StartPush
  <2>3. DOMAIN heap' = {tab} /\ heap'[tab] = [fields |-> <<>>, of |-> o]
    BY <2>1 DEF WithTable
  <2>4. heap' \in [DOMAIN heap' -> [fields : Seq(LuaField), of : Objects]]
    <3>1. [fields |-> <<>>, of |-> o] \in [fields : Seq(LuaField), of : Objects]
      OBVIOUS
    <3>2. heap' = [t \in DOMAIN heap' |-> heap'[t]]
      BY <2>1 DEF WithTable
    <3> QED
      BY <2>3, <3>1, <3>2
  <2>5. Len(frames') = 1 /\ DOMAIN frames' = {1} /\ frames'[1] = [obj |-> o, table |-> tab, next |-> 1]
    BY <2>1
  <2>6. ImageSoFar(tab)'
    <3>1. Len(<<>>) = 0 /\ Len(graph[o]) \in Nat
      BY GraphsAssumption DEF CallsOK
    <3>2. Len(<<>>) <= Len(graph[o]) /\ 1 .. Len(<<>>) = {}
      BY <3>1
    <3> QED
      BY <2>2, <2>3, <3>2, ImageSoFarNext
  <2>7. CallFills(frames[1])'
    BY <2>3, <2>5 DEF CallFills
  <2>8. ActiveTables' = {tab}
    BY <2>5 DEF ActiveTables
  <2> QED
    BY <2>2, <2>3, <2>4, <2>5, <2>6, <2>7, <2>8 DEF Images, CallsNest
<1>2. CASE PushScalarField
  <2>1. /\ Running /\ ~AllFieldsPushed /\ Field = Scalar /\ SetField(Scalar)
        /\ UNCHANGED <<handles, graph, throwing, root>>
    BY <1>2 DEF PushScalarField, registryVars
  <2>2. Scalar \in LuaField /\ IsImageOf(Scalar, Field)
    BY <2>1, FieldsAssumption DEF LuaField, IsImageOf
  <2> QED
    BY <2>1, <2>2, SetFieldKeepsImages
<1>3. CASE PushHandleField
  <2> DEFINE v == registry[handles[Field].ref]
  <2>1. /\ Running /\ ~AllFieldsPushed /\ Field \in LiveHandles /\ SetField(v)
        /\ UNCHANGED <<handles, graph, throwing, root>>
    BY <1>3 DEF PushHandleField, registryVars
  <2>2. Field \in Handles
    BY <2>1 DEF LiveHandles
  <2>3. Flat
    BY <2>1, <2>2, FieldIsNested DEF HoldsNoHandle, Running
  <2>4. v = handles[Field].value /\ v \in LuaValues
    BY <2>1, <2>3 DEF FlatRegistry, HandleReadsItsValue, HandlesHold
  <2>5. v \in LuaField /\ IsImageOf(v, Field)
    BY <2>2, <2>4, FieldsAssumption DEF LuaField, IsImageOf
  <2> HIDE DEF v
  <2> QED
    BY <2>1, <2>5, SetFieldKeepsImages
<1>4. CASE PushKnownObject
  <2>1. PICK r \in RefOf(Field) : SetField(registry[r])
    BY <1>4 DEF PushKnownObject
  <2>2. Running /\ ~AllFieldsPushed /\ UNCHANGED <<handles, graph, throwing, root>>
    BY <1>4 DEF PushKnownObject, registryVars
  <2>3. Flat
    BY <1>4, KnownMeansVisited
  <2>4. registry[r] \in Tables /\ IsImageOf(registry[r], Field)
    BY <2>2, <2>3, FlatLookup
  <2>5. registry[r] \in LuaField
    BY <2>4, TablesAssumption DEF LuaField
  <2> QED
    BY <2>1, <2>2, <2>4, <2>5, SetFieldKeepsImages
<1>5. CASE PushNewObject
  <2>1. /\ Running /\ ~AllFieldsPushed /\ Field \in Objects
        /\ UNCHANGED <<handles, graph, throwing, root>>
    BY <1>5 DEF PushNewObject, Enter
  <2>2. PICK tab : Entered(Field, tab)
    BY <1>5 DEF PushNewObject, Enter, Entered
  <2> QED
    BY <2>1, <2>2, EnteredKeepsImages DEF Running
<1>6. CASE PushFieldThrows
  <2>1. throwing' = TRUE /\ UNCHANGED <<handles, graph, frames, refs, heap, root>> /\ ~Idle
    BY <1>6 DEF PushFieldThrows, registryVars, Running
  <2>2. ASSUME NEW t \in DOMAIN heap PROVE ImageSoFar(t)'
    BY <2>1 DEF Images, ImageSoFar, IsImageOf
  <2>3. ASSUME NEW i \in DOMAIN frames PROVE CallFills(frames[i])'
    BY <2>1 DEF Images, CallFills
  <2>4. CallsNest'
    BY <2>1 DEF Images, CallsNest
  <2> QED
    BY <2>1, <2>2, <2>3, <2>4 DEF Images
<1>7. CASE UNCHANGED vars
  <2>1. UNCHANGED <<handles, graph, frames, heap, root, throwing>>
    BY <1>7 DEF vars, pushVars, registryVars
  <2>2. ASSUME NEW t \in DOMAIN heap PROVE ImageSoFar(t)'
    BY <2>1 DEF Images, ImageSoFar, IsImageOf
  <2>3. ASSUME NEW i \in DOMAIN frames PROVE CallFills(frames[i])'
    BY <2>1 DEF Images, CallFills
  <2>4. CallsNest' /\ ActiveTables' = ActiveTables /\ Idle' = Idle
    BY <2>1 DEF Images, CallsNest, ActiveTables, Idle
  <2> QED
    BY <2>1, <2>2, <2>3, <2>4 DEF Images
<1>8. CASE WrapOrDestroy
  BY <1>8, NothingCopied DEF WrapOrDestroy, Idle
<1>9. CASE Leave
  BY <1>9, LeaveKeepsImages
<1> QED
  BY <1>1, <1>2, <1>3, <1>4, <1>5, <1>6, <1>7, <1>8, <1>9 DEF Next, PushStep

-----------------------------------------------------------------------------
\* The places of the objects of a tree stay theirs when a field is set.
LEMMA FieldSetKeepsVisits ==
  ASSUME CallsOK, Images, VisitsOnce, ~Idle, ~throwing, graph' = graph, refs' = refs,
         NEW p \in DOMAIN frames, NEW v \in LuaField, FieldSet(p, v),
         p = Len(frames) \/ p + 1 = Len(frames)
  PROVE  VisitsOnce'
<1>0. PICK t : t = frames[p].table
  OBVIOUS
<1>1. /\ DOMAIN heap' = DOMAIN heap
      /\ \A u \in DOMAIN heap : heap'[u].of = heap[u].of
      /\ \A u \in DOMAIN heap \ {t} : heap'[u] = heap[u]
      /\ heap'[t].fields = Append(heap[t].fields, v)
  BY <1>0 DEF FieldSet
<1>2. /\ Len(frames') = p /\ frames' \in Seq(Call)
      /\ \A i \in 1 .. p : /\ frames'[i].table = frames[i].table
                           /\ i # p => frames'[i] = frames[i]
  BY DEF FieldSet
<1>3. /\ DOMAIN frames = 1 .. Len(frames) /\ Len(frames) \in Nat \ {0}
      /\ p \in 1 .. Len(frames) /\ 1 \in 1 .. p /\ DOMAIN frames' = 1 .. p
  BY <1>2, TopCall
<1>4. /\ t \in DOMAIN heap /\ Len(heap[t].fields) + 1 = frames[p].next
      /\ heap[t].fields \in Seq(LuaField)
  BY <1>0 DEF Images, CallFills
<1>5. Len(heap'[t].fields) = Len(heap[t].fields) + 1 /\ Len(heap[t].fields) \in Nat
  BY <1>1, <1>4
<1>6. ASSUME NEW x \in DOMAIN heap, NEW u \in DOMAIN heap, NEW k \in DOMAIN graph[heap[u].of],
             PlacedIn(x, u, k)
      PROVE  PlacedIn(x, u, k)'
  <2>1. graph'[heap'[u].of] = graph[heap[u].of] /\ heap'[x].of = heap[x].of
    BY <1>1
  <2>2. k \in Nat
    <3>1. graph[heap[u].of] \in Seq(JsField)
      BY GraphsAssumption DEF Images, CallsOK, JsField
    <3> QED
      BY <3>1
  <2>3. CASE k <= Len(heap[u].fields)
    <3>1. k <= Len(heap'[u].fields)
      BY <1>1, <1>5, <2>2, <2>3
    <3> QED
      BY <1>6, <2>1, <3>1 DEF PlacedIn
  <2>4. CASE \E i \in DOMAIN frames : /\ i # Len(frames) /\ frames[i].table = u
                                     /\ frames[i].next = k /\ frames[i + 1].table = x
    <3>1. PICK i \in DOMAIN frames : /\ i # Len(frames) /\ frames[i].table = u
                                     /\ frames[i].next = k /\ frames[i + 1].table = x
      BY <2>4
    <3>2. CASE i = p
      <4>1. k <= Len(heap'[u].fields)
        BY <1>0, <1>4, <1>5, <2>2, <3>1, <3>2
      <4> QED
        BY <1>6, <2>1, <4>1 DEF PlacedIn
    <3>3. CASE i # p
      <4>1. i \in 1 .. p /\ i + 1 \in 1 .. p
        BY <1>3, <3>1, <3>3
      <4>2. frames'[i] = frames[i] /\ frames'[i + 1].table = x /\ i \in DOMAIN frames' /\ i # Len(frames')
        BY <1>2, <1>3, <3>1, <3>3, <4>1
      <4> QED
        BY <1>6, <2>1, <3>1, <4>2 DEF PlacedIn
    <3> QED
      BY <3>2, <3>3
  <2> QED
    BY <1>6, <2>3, <2>4 DEF PlacedIn
<1>7. ASSUME NEW x \in DOMAIN heap' \ {frames'[1].table}
      PROVE  \E u \in DOMAIN heap' : \E k \in DOMAIN graph'[heap'[u].of] : PlacedIn(x, u, k)'
  <2>1. x \in DOMAIN heap \ {frames[1].table}
    BY <1>1, <1>2, <1>3
  <2>2. PICK u \in DOMAIN heap : \E k \in DOMAIN graph[heap[u].of] : PlacedIn(x, u, k)
    BY <2>1 DEF VisitsOnce
  <2>3. PICK k \in DOMAIN graph[heap[u].of] : PlacedIn(x, u, k)
    BY <2>2
  <2>4. k \in DOMAIN graph'[heap'[u].of] /\ PlacedIn(x, u, k)'
    BY <1>1, <1>6, <2>1, <2>3
  <2> QED
    BY <1>1, <2>4
<1>8. ASSUME NEW i \in DOMAIN refs PROVE \E x \in DOMAIN heap' : refs'[i][1] = heap'[x].of
  BY <1>1 DEF VisitsOnce
<1>9. ASSUME NEW x \in DOMAIN heap', NEW u \in DOMAIN heap', heap'[x].of = heap'[u].of
      PROVE  x = u
  BY <1>1, <1>9 DEF VisitsOnce
<1> QED
  BY <1>7, <1>8, <1>9 DEF VisitsOnce

LEMMA EnteredKeepsVisits ==
  ASSUME CallsOK, Images, VisitsOnce, Tree, Running, ~AllFieldsPushed, Field \in Objects,
         graph' = graph, NEW tab, Entered(Field, tab), NEW r \in Nat, refs' = Append(refs, <<Field, r>>)
  PROVE  VisitsOnce'
<1>0. PICK f : f = Field
  OBVIOUS
<1>1. ~Idle /\ ~throwing
  BY DEF Running
<1>2. PICK n : n = Len(frames)
  OBVIOUS
<1>3. /\ n \in Nat \ {0} /\ n \in DOMAIN frames /\ 1 \in DOMAIN frames /\ DOMAIN frames = 1 .. n /\ Top = frames[n]
      /\ Top.next \in DOMAIN graph[Top.obj] /\ graph[Top.obj][Top.next] = f
  BY <1>0, <1>1, <1>2, TopCall, FieldIsNested
<1>4. /\ DOMAIN heap' = DOMAIN heap \cup {tab} /\ tab \notin DOMAIN heap
      /\ \A u \in DOMAIN heap : heap'[u] = heap[u]
      /\ heap'[tab] = [fields |-> <<>>, of |-> f]
  BY <1>0 DEF Entered, WithTable
<1>5. /\ Len(frames') = n + 1 /\ \A i \in 1 .. n : frames'[i] = frames[i]
      /\ frames'[n + 1].table = tab /\ DOMAIN frames' = 1 .. n + 1
  <2>1. frames \in Seq(Call) /\ Len(frames) = n
    BY <1>2 DEF CallsOK
  <2>2. frames' = Append(frames, [obj |-> f, table |-> tab, next |-> 1])
    BY <1>0 DEF Entered
  <2> QED
    BY <2>1, <2>2
<1>6. /\ Top.table \in DOMAIN heap /\ heap[Top.table].of = Top.obj
  BY <1>3 DEF Images, CallFills
<1>7. \A i \in DOMAIN frames : i \in DOMAIN frames' /\ i # n + 1
  BY <1>3, <1>5
<1>8. ASSUME NEW x \in DOMAIN heap, NEW u \in DOMAIN heap, NEW k \in DOMAIN graph[heap[u].of],
             PlacedIn(x, u, k)
      PROVE  PlacedIn(x, u, k)'
  <2>1. heap'[u] = heap[u] /\ heap'[x] = heap[x]
    BY <1>4
  <2>2. CASE k <= Len(heap[u].fields)
    BY <1>8, <2>1, <2>2 DEF PlacedIn
  <2>3. CASE \E i \in DOMAIN frames : /\ i # Len(frames) /\ frames[i].table = u
                                     /\ frames[i].next = k /\ frames[i + 1].table = x
    <3>1. PICK i \in DOMAIN frames : /\ i # Len(frames) /\ frames[i].table = u
                                     /\ frames[i].next = k /\ frames[i + 1].table = x
      BY <2>3
    <3>2. i \in 1 .. n /\ i + 1 \in 1 .. n
      BY <1>2, <1>3, <3>1
    <3>3. frames'[i] = frames[i] /\ frames'[i + 1] = frames[i + 1] /\ i \in DOMAIN frames' /\ i # Len(frames')
      BY <1>5, <1>7, <3>1, <3>2
    <3> QED
      BY <1>8, <2>1, <3>1, <3>3 DEF PlacedIn
  <2> QED
    BY <1>8, <2>2, <2>3 DEF PlacedIn
<1>9. PICK u : u = Top.table
  OBVIOUS
<1>10. PICK k : k = Top.next
  OBVIOUS
<1>11. PlacedIn(tab, u, k)'
  <2>1. /\ heap'[u].of = Top.obj /\ heap'[tab].of = f /\ graph' = graph
    BY <1>4, <1>6, <1>9
  <2>2. k \in DOMAIN graph'[heap'[u].of] /\ graph'[heap'[u].of][k] = heap'[tab].of
    BY <1>3, <1>10, <2>1
  <2>3. /\ n \in DOMAIN frames' /\ n # Len(frames') /\ frames'[n].table = u
        /\ frames'[n].next = k /\ frames'[n + 1].table = tab
    BY <1>3, <1>5, <1>7, <1>9, <1>10
  <2> QED
    BY <2>2, <2>3 DEF PlacedIn
<1>12. ASSUME NEW x \in DOMAIN heap' \ {frames'[1].table}
       PROVE  \E w \in DOMAIN heap' : \E j \in DOMAIN graph'[heap'[w].of] : PlacedIn(x, w, j)'
  <2>1. CASE x = tab
    <3>1. u \in DOMAIN heap' /\ k \in DOMAIN graph'[heap'[u].of]
      BY <1>3, <1>4, <1>6, <1>9, <1>10
    <3> QED
      BY <1>11, <2>1, <3>1
  <2>2. CASE x # tab
    <3>1. x \in DOMAIN heap \ {frames[1].table}
      BY <1>3, <1>4, <1>5, <2>2
    <3>2. PICK w \in DOMAIN heap : \E j \in DOMAIN graph[heap[w].of] : PlacedIn(x, w, j)
      BY <1>1, <3>1 DEF VisitsOnce
    <3>3. PICK j \in DOMAIN graph[heap[w].of] : PlacedIn(x, w, j)
      BY <3>2
    <3>4. w \in DOMAIN heap' /\ j \in DOMAIN graph'[heap'[w].of] /\ PlacedIn(x, w, j)'
      BY <1>4, <1>8, <3>1, <3>3
    <3> QED
      BY <3>4
  <2> QED
    BY <2>1, <2>2
<1>13. ASSUME NEW i \in DOMAIN refs' PROVE \E x \in DOMAIN heap' : refs'[i][1] = heap'[x].of
  <2>1. /\ DOMAIN refs' = 1 .. Len(refs) + 1 /\ Len(refs) \in Nat /\ DOMAIN refs = 1 .. Len(refs)
        /\ \A j \in 1 .. Len(refs) : refs'[j] = refs[j]
        /\ refs'[Len(refs) + 1] = <<f, r>>
    BY <1>0 DEF CallsOK
  <2>2. CASE i \in 1 .. Len(refs)
    BY <1>1, <1>4, <2>1, <2>2 DEF VisitsOnce
  <2>3. CASE i = Len(refs) + 1
    BY <1>4, <2>1, <2>3
  <2> QED
    BY <2>1, <2>2, <2>3
\* Nothing had a copy of the object yet.
<1>14. \A x \in DOMAIN heap : heap[x].of # f
  BY <1>0, NotVisited
<1>15. ASSUME NEW x \in DOMAIN heap', NEW w \in DOMAIN heap', heap'[x].of = heap'[w].of
       PROVE  x = w
  BY <1>1, <1>4, <1>14, <1>15 DEF VisitsOnce
<1> QED
  BY <1>12, <1>13, <1>15 DEF VisitsOnce

\* Objects of a tree are met once, whatever the step.
LEMMA VisitsStay ==
  ASSUME StateOK, Tree, HoldsNoHandle, [Next]_vars
  PROVE  VisitsOnce'
<1> USE DEF StateOK
<1>1. ASSUME NEW o \in Objects, StartPush(o) PROVE VisitsOnce'
  <2>1. PICK tab \in Tables, r \in RefChoices(registry) :
          /\ heap' = WithTable(<<>>, tab, o)
          /\ frames' = <<[obj |-> o, table |-> tab, next |-> 1]>>
          /\ refs' = <<<<o, r>>>>
    BY <1>1 DEF StartPush
  <2>2. DOMAIN heap' = {tab} /\ heap'[tab] = [fields |-> <<>>, of |-> o]
    BY <2>1 DEF WithTable
  <2>3. frames'[1].table = tab /\ DOMAIN refs' = {1} /\ refs'[1] = <<o, r>>
    BY <2>1
  <2> QED
    BY <2>2, <2>3 DEF VisitsOnce
<1>2. ASSUME NEW v \in LuaField, Running, SetField(v), graph' = graph, refs' = refs
      PROVE  VisitsOnce'
  <2>1. ~Idle /\ ~throwing
    BY <1>2 DEF Running
  <2>2. FieldSet(Len(frames), v)
    BY <1>2, <2>1, SetFieldEffect
  <2> QED
    BY <1>2, <2>1, <2>2, TopCall, FieldSetKeepsVisits
<1>3. CASE PushScalarField
  <2>1. Scalar \in LuaField
    BY DEF LuaField
  <2> QED
    BY <1>2, <1>3, <2>1 DEF PushScalarField
<1>4. CASE PushHandleField
  <2>1. Field \in Handles /\ Field \in ToSet(graph[Top.obj]) /\ Top.obj \in Objects
    BY <1>4, FieldIsNested DEF PushHandleField, Running, LiveHandles
  <2> QED
    BY <2>1 DEF HoldsNoHandle
<1>5. CASE PushKnownObject
  BY <1>5, KnownMeansVisited
<1>6. CASE PushNewObject
  <2>1. Running /\ ~AllFieldsPushed /\ Field \in Objects /\ graph' = graph
    BY <1>6 DEF PushNewObject
  <2>2. PICK tab \in Tables \ DOMAIN heap, r \in RefChoices(registry) :
          /\ heap' = WithTable(heap, tab, Field)
          /\ frames' = Append(frames, [obj |-> Field, table |-> tab, next |-> 1])
          /\ refs' = Append(refs, <<Field, r>>)
    BY <1>6 DEF PushNewObject, Enter
  <2>3. r \in Nat
    BY SlotsAreNumbers DEF RefChoices, FreeHead
  <2>4. Entered(Field, tab)
    BY <2>2 DEF Entered
  <2> QED
    BY <2>1, <2>2, <2>3, <2>4, EnteredKeepsVisits
<1>7. CASE PushFieldThrows
  BY <1>7 DEF PushFieldThrows, VisitsOnce
<1>8. CASE Leave
  <2>1. /\ ~Idle /\ graph' = graph /\ refs' = refs /\ throwing' = throwing
    BY <1>8 DEF Leave
  <2>2. CASE throwing
    BY <2>1, <2>2 DEF VisitsOnce
  <2>3. CASE Len(frames) = 1
    <3>1. frames' = Front(frames) /\ Len(Front(frames)) = 0
      BY <1>8, <2>1, <2>3, FrontOfCalls DEF Leave
    <3>2. Front(frames) \in Seq(Call)
      BY <2>3 DEF CallsOK, Front
    <3>3. frames' = <<>>
      BY <3>1, <3>2
    <3> QED
      BY <3>3 DEF VisitsOnce, Idle
  <2>4. CASE ~throwing /\ Len(frames) # 1
    <3>1. PICK p : p = Len(frames) - 1
      OBVIOUS
    <3>2. p \in DOMAIN frames /\ FieldSet(p, Top.table)
      BY <1>8, <2>4, <3>1, LeaveEffect
    <3>3. Top.table \in LuaField
      BY <2>1, TopCall, TablesAssumption DEF LuaField, Call
    <3>4. p + 1 = Len(frames)
      BY <2>1, <3>1, TopCall
    <3> QED
      BY <2>1, <2>4, <3>2, <3>3, <3>4, FieldSetKeepsVisits
  <2> QED
    BY <2>2, <2>3, <2>4
<1>9. CASE WrapOrDestroy
  BY <1>9 DEF WrapOrDestroy, VisitsOnce, Idle
<1>10. CASE UNCHANGED vars
  <2>1. UNCHANGED <<graph, frames, heap, refs, throwing>>
    BY <1>10 DEF vars, pushVars
  <2> QED
    BY <2>1 DEF VisitsOnce, PlacedIn, Idle
<1> QED
  BY <1>1, <1>3, <1>4, <1>5, <1>6, <1>7, <1>8, <1>9, <1>10 DEF Next, PushStep

-----------------------------------------------------------------------------
\* The finally block of a push with one object in options.refs: the fold over
\* options.refs is one luaL_unref.
Released(f) ==
  [s \in SUBSET {1} |->
     IF s = {} THEN registry
     ELSE LuaLUnref(f[s \ {Max(s)}], refs[Max(s)][2])]

LEMMA ReleaseOne ==
  ASSUME NEW p, refs = <<p>>
  PROVE  ReleaseRefs = LuaLUnref(registry, p[2])
<1>1. DOMAIN refs = {1} /\ refs[1] = p
  OBVIOUS
<1>2. ReleaseRefs = (CHOOSE f : f = Released(f))[{1}]
  BY <1>1 DEF ReleaseRefs, FoldLeft, MapThenFoldSet, Released
<1>3. Max({1}) = 1
  <2>1. \A x \in {1} : x = 1
    OBVIOUS
  <2> QED
    BY <2>1 DEF Max
<1> DEFINE g == [s \in SUBSET {1} |-> IF s = {} THEN registry ELSE LuaLUnref(registry, refs[1][2])]
<1>4. \A s \in SUBSET {1} : s = {} \/ s = {1}
  OBVIOUS
<1>5. g = Released(g)
  <2>1. \A s \in SUBSET {1} : s # {} => s = {1}
    BY <1>4
  <2>3. {1} \ {1} = {}
    OBVIOUS
  <2>2. g[{}] = registry
    OBVIOUS
  <2>4. ASSUME NEW s \in SUBSET {1}
        PROVE  g[s] = IF s = {} THEN registry ELSE LuaLUnref(g[s \ {Max(s)}], refs[Max(s)][2])
    <3>1. CASE s = {}
      BY <3>1
    <3>2. CASE s = {1}
      <4>1. s \ {Max(s)} = {} /\ Max(s) = 1
        BY <1>3, <2>3, <3>2
      <4>2. g[s] = LuaLUnref(registry, refs[1][2])
        BY <3>2
      <4> HIDE DEF g
      <4> QED
        BY <2>2, <3>2, <4>1, <4>2
    <3> QED
      BY <2>1, <3>1, <3>2
  <2>5. g = [s \in SUBSET {1} |-> g[s]]
    OBVIOUS
  <2> HIDE DEF g
  <2> QED
    BY <2>4, <2>5 DEF Released
<1>6. (CHOOSE f : f = Released(f)) = Released(CHOOSE f : f = Released(f))
  BY <1>5
<1>7. PICK f : f = Released(f) /\ f = CHOOSE h : h = Released(h)
  BY <1>6
<1>8. f[{}] = registry
  BY <1>7 DEF Released
<1>9. f[{1}] = LuaLUnref(f[{1} \ {1}], refs[1][2])
  BY <1>3, <1>7 DEF Released
<1>10. {1} \ {1} = {}
  OBVIOUS
<1> QED
  BY <1>1, <1>2, <1>7, <1>8, <1>9, <1>10

\* The part of FlatRegistry that has to do with wrappers only.
WrappersOK ==
  /\ RegistryTypeOK
  /\ FreeListIsList
  /\ HandlesHold
  /\ HandleReadsItsValue

LEMMA RegistryUnchanged ==
  ASSUME WrappersOK, registry' = registry, handles' = handles
  PROVE  WrappersOK' /\ HandleRefs' = HandleRefs /\ ValueSlots' = ValueSlots
<1>1. LiveHandles' = LiveHandles /\ ValueSlots' = ValueSlots
  BY DEF LiveHandles, ValueSlots
<1>2. FreeListIsList'
  BY <1>1 DEF WrappersOK, FreeListIsList, FreeList
<1>3. RegistryTypeOK'
  BY DEF WrappersOK, RegistryTypeOK
<1>4. HandlesHold' /\ HandleReadsItsValue' /\ HandleRefs' = HandleRefs
  BY <1>1 DEF WrappersOK, HandlesHold, HandleReadsItsValue, HandleRefs
<1> QED
  BY <1>1, <1>2, <1>3, <1>4 DEF WrappersOK

\* luaL_ref for a value that no wrapper holds.
LEMMA RefBesideWrappers ==
  ASSUME WrappersOK, NEW v \in LuaValues, NEW r \in RefChoices(registry),
         registry' = LuaLRef(registry, v, r), handles' = handles
  PROVE  /\ WrappersOK' /\ HandleRefs' = HandleRefs
         /\ r \in Slots \ {0} /\ r \notin HandleRefs /\ registry'[r] = v
         /\ ValueSlots' = ValueSlots \cup {r}
<1> USE DEF WrappersOK
<1>1. /\ r \in Slots \ {0} /\ registry[r] \notin LuaValues
      /\ registry' \in [Slots -> Nat \cup LuaValues \cup {Nil}]
      /\ registry'[r] = v
      /\ \A s \in Slots \ {0, r} : registry'[s] = registry[s]
      /\ FreeListIsList'
  BY RefEffect
<1>2. LiveHandles' = LiveHandles /\ HandleRefs' = HandleRefs
  BY DEF LiveHandles, HandleRefs
<1>3. \A h \in LiveHandles : handles[h].ref \in Slots \ {0, r}
  BY <1>1 DEF HandleReadsItsValue, HandlesHold
<1>4. RegistryTypeOK' /\ HandlesHold'
  BY <1>1, <1>2 DEF RegistryTypeOK, HandlesHold, Slots
<1>5. HandleReadsItsValue'
  BY <1>1, <1>2, <1>3 DEF HandleReadsItsValue
<1>6. ValueSlots' = ValueSlots \cup {r}
  BY <1>1 DEF ValueSlots, Slots
<1> QED
  BY <1>1, <1>2, <1>3, <1>4, <1>5, <1>6 DEF HandleRefs

\* luaL_unref of a slot that no wrapper has.
LEMMA UnrefBesideWrappers ==
  ASSUME WrappersOK, NEW r \in Slots \ {0}, registry[r] \in LuaValues, r \notin HandleRefs,
         registry' = LuaLUnref(registry, r), handles' = handles
  PROVE  WrappersOK' /\ HandleRefs' = HandleRefs /\ ValueSlots' = ValueSlots \ {r}
<1> USE DEF WrappersOK
<1>1. /\ registry' \in [Slots -> Nat \cup LuaValues \cup {Nil}]
      /\ registry'[r] \notin LuaValues
      /\ \A s \in Slots \ {0, r} : registry'[s] = registry[s]
      /\ FreeListIsList'
  BY UnrefEffect
<1>2. LiveHandles' = LiveHandles /\ HandleRefs' = HandleRefs
  BY DEF LiveHandles, HandleRefs
<1>3. \A h \in LiveHandles : handles[h].ref \in Slots \ {0, r}
  BY DEF HandleRefs, HandlesHold
<1>4. RegistryTypeOK' /\ HandlesHold'
  BY <1>1, <1>2 DEF RegistryTypeOK, HandlesHold, Slots
<1>5. HandleReadsItsValue'
  BY <1>1, <1>2, <1>3 DEF HandleReadsItsValue
<1>6. ValueSlots' = ValueSlots \ {r}
  BY <1>1 DEF ValueSlots, Slots
<1> QED
  BY <1>1, <1>2, <1>4, <1>5, <1>6

LEMMA HoldKeepsWrappers ==
  ASSUME WrappersOK, ValueSlots = HandleRefs, NEW h \in Handles, NEW v \in LuaValues, Hold(h, v)
  PROVE  WrappersOK' /\ ValueSlots' = HandleRefs'
<1> USE DEF WrappersOK
<1>1. PICK r \in RefChoices(registry) :
        /\ registry' = LuaLRef(registry, v, r)
        /\ handles' = [handles EXCEPT ![h] = [ref |-> r, value |-> v]]
  BY DEF Hold
<1>2. /\ r \in Slots \ {0} /\ registry[r] \notin LuaValues
      /\ registry' \in [Slots -> Nat \cup LuaValues \cup {Nil}]
      /\ registry'[r] = v
      /\ \A s \in Slots \ {0, r} : registry'[s] = registry[s]
      /\ FreeListIsList'
  BY <1>1, RefEffect
<1>3. /\ handles[h] = NoHandle
      /\ handles' \in [Handles -> [ref : Slots, value : LuaValues \cup {Nil}]]
      /\ handles'[h] = [ref |-> r, value |-> v]
      /\ \A k \in Handles \ {h} : handles'[k] = handles[k]
  BY <1>1, <1>2 DEF Hold, RegistryTypeOK
<1>4. LiveHandles' = LiveHandles \cup {h} /\ h \notin LiveHandles
  BY <1>2, <1>3 DEF LiveHandles, NoHandle
<1>5. \A k \in LiveHandles : handles'[k] = handles[k]
  BY <1>3, <1>4 DEF LiveHandles
<1>6. \A k \in LiveHandles : handles[k].ref # r /\ handles[k].ref \in Slots \ {0}
  BY <1>2 DEF HandleReadsItsValue, HandlesHold
<1>7. RegistryTypeOK'
  BY <1>2, <1>3 DEF RegistryTypeOK, Slots
<1>8. HandlesHold'
  BY <1>2, <1>3, <1>4 DEF HandlesHold, Slots, LiveHandles
<1>9. HandleReadsItsValue'
  BY <1>2, <1>3, <1>4, <1>6 DEF HandleReadsItsValue, LiveHandles
<1>10. ValueSlots' = ValueSlots \cup {r}
  BY <1>2 DEF ValueSlots, Slots
<1>11. HandleRefs' = HandleRefs \cup {r}
  BY <1>3, <1>4, <1>5 DEF HandleRefs
<1> QED
  BY <1>2, <1>7, <1>8, <1>9, <1>10, <1>11

LEMMA DropKeepsWrappers ==
  ASSUME WrappersOK, ValueSlots = HandleRefs, NEW h \in Handles, Drop(h)
  PROVE  WrappersOK' /\ ValueSlots' = HandleRefs'
<1> USE DEF WrappersOK
<1>1. PICK r : r = handles[h].ref
  OBVIOUS
<1>2. /\ h \in LiveHandles
      /\ registry' = LuaLUnref(registry, r)
      /\ handles' = [handles EXCEPT ![h] = NoHandle]
  BY <1>1 DEF Drop, LiveHandles
<1>3. r \in Slots \ {0} /\ registry[r] \in LuaValues
  BY <1>1, <1>2 DEF HandlesHold, HandleReadsItsValue
<1>4. /\ registry' \in [Slots -> Nat \cup LuaValues \cup {Nil}]
      /\ registry'[r] \notin LuaValues
      /\ \A s \in Slots \ {0, r} : registry'[s] = registry[s]
      /\ FreeListIsList'
  BY <1>2, <1>3, UnrefEffect
<1>5. /\ handles' \in [Handles -> [ref : Slots, value : LuaValues \cup {Nil}]]
      /\ handles'[h] = NoHandle
      /\ \A k \in Handles \ {h} : handles'[k] = handles[k]
  BY <1>2, MaxRefAssumption DEF RegistryTypeOK, NoHandle, Slots
<1>6. LiveHandles' = LiveHandles \ {h}
  BY <1>5 DEF LiveHandles
<1>7. \A k \in LiveHandles \ {h} : handles[k].ref \in Slots \ {0, r} /\ handles'[k] = handles[k]
  BY <1>1, <1>2, <1>5 DEF HandleReadsItsValue, HandlesHold, LiveHandles
<1>8. RegistryTypeOK'
  BY <1>4, <1>5 DEF RegistryTypeOK, Slots
<1>9. HandlesHold'
  BY <1>5, <1>6 DEF HandlesHold, Slots, LiveHandles
<1>10. HandleReadsItsValue'
  BY <1>4, <1>5, <1>6, <1>7 DEF HandleReadsItsValue, LiveHandles
<1>11. ValueSlots' = ValueSlots \ {r}
  BY <1>4 DEF ValueSlots, Slots
<1>12. HandleRefs' = HandleRefs \ {r}
  BY <1>1, <1>2, <1>6, <1>7 DEF HandleRefs
<1> QED
  BY <1>4, <1>8, <1>9, <1>10, <1>11, <1>12

\* A step of a push between its luaL_ref and its luaL_unref.
LEMMA AnchorStays ==
  ASSUME CallsOK, FlatRegistry, ~Idle, registry' = registry, handles' = handles, refs' = refs,
         Len(frames') = Len(frames), ~Idle',
         DOMAIN heap' = DOMAIN heap,
         \A i \in DOMAIN frames : frames'[i].obj = frames[i].obj /\ frames'[i].table = frames[i].table
  PROVE  FlatRegistry'
<1>1. WrappersOK' /\ HandleRefs' = HandleRefs /\ ValueSlots' = ValueSlots
  BY RegistryUnchanged DEF FlatRegistry, WrappersOK
<1>2. PICK o \in Objects, t \in Tables, r \in Slots \ {0} :
        /\ Len(frames) = 1 /\ frames[1].obj = o /\ frames[1].table = t
        /\ DOMAIN heap = {t}
        /\ refs = <<<<o, r>>>>
        /\ registry[r] = t /\ r \notin HandleRefs
        /\ ValueSlots = HandleRefs \cup {r}
  BY DEF FlatRegistry, TableAnchored
<1>3. frames'[1].obj = o /\ frames'[1].table = t
  BY <1>2, TopCall
<1>4. Slots' = Slots
  BY DEF Slots
<1>5. TableAnchored'
  BY <1>1, <1>2, <1>3, <1>4 DEF TableAnchored
<1> QED
  BY <1>1, <1>5 DEF FlatRegistry, WrappersOK

\* A field is set while a flat object is pushed.
LEMMA SetFieldKeepsAnchor ==
  ASSUME CallsOK, FlatRegistry, Running, NEW v, SetField(v),
         registry' = registry, handles' = handles, refs' = refs
  PROVE  FlatRegistry'
<1>1. ~Idle
  BY DEF Running
<1>2. PICK n : n = Len(frames)
  OBVIOUS
<1>3. n \in Nat \ {0} /\ n \in DOMAIN frames /\ frames[n] \in Call /\ DOMAIN frames = 1 .. n
  BY <1>1, <1>2, TopCall
<1>4. frames' = [frames EXCEPT ![n].next = @ + 1] /\ DOMAIN heap' = DOMAIN heap
  BY <1>2 DEF SetField
<1>5. frames \in Seq(Call)
  BY DEF CallsOK
<1>6. frames'[n] = [frames[n] EXCEPT !.next = @ + 1] /\ \A i \in 1 .. n : i # n => frames'[i] = frames[i]
  BY <1>3, <1>4
<1>7. frames'[n].obj = frames[n].obj /\ frames'[n].table = frames[n].table
  BY <1>3, <1>6 DEF Call
<1>8. \A i \in DOMAIN frames : frames'[i].obj = frames[i].obj /\ frames'[i].table = frames[i].table
  BY <1>3, <1>6, <1>7
<1>9. Len(frames') = n /\ ~Idle'
  <2>1. [frames[n] EXCEPT !.next = @ + 1] \in Call
    BY <1>3, NextFieldOfCall
  <2>2. frames' \in Seq(Call) /\ Len(frames') = n
    BY <1>2, <1>3, <1>4, <1>5, <2>1
  <2> QED
    BY <1>3, <2>2 DEF Idle
<1> QED
  BY <1>1, <1>2, <1>4, <1>8, <1>9, AnchorStays

LEMMA FlatStays ==
  ASSUME StateOK, Flat, [Next]_vars
  PROVE  FlatRegistry'
<1> USE DEF StateOK
<1>0. WrappersOK
  BY DEF FlatRegistry, WrappersOK
<1>1. ASSUME NEW o \in Objects, StartPush(o) PROVE FlatRegistry'
  <2>1. PICK tab \in Tables, r \in RefChoices(registry) :
          /\ registry' = LuaLRef(registry, tab, r)
          /\ heap' = WithTable(<<>>, tab, o)
          /\ frames' = <<[obj |-> o, table |-> tab, next |-> 1]>>
          /\ refs' = <<<<o, r>>>>
    BY <1>1 DEF StartPush
  <2>2. handles' = handles /\ Idle /\ tab \in LuaValues
    BY <1>1, TablesAssumption DEF StartPush
  <2>3. /\ WrappersOK' /\ HandleRefs' = HandleRefs
        /\ r \in Slots \ {0} /\ r \notin HandleRefs /\ registry'[r] = tab
        /\ ValueSlots' = ValueSlots \cup {r}
    BY <1>0, <2>1, <2>2, RefBesideWrappers
  <2>4. ValueSlots = HandleRefs
    BY <2>2 DEF FlatRegistry
  <2>5. DOMAIN heap' = {tab} /\ Len(frames') = 1 /\ frames'[1].obj = o /\ frames'[1].table = tab /\ ~Idle'
    BY <2>1 DEF WithTable, Idle
  <2>6. Slots' = Slots
    BY DEF Slots
  <2>7. TableAnchored'
    BY <2>1, <2>3, <2>4, <2>5, <2>6 DEF TableAnchored
  <2> QED
    BY <2>3, <2>5, <2>7 DEF FlatRegistry, WrappersOK
<1>2. CASE PushScalarField
  BY <1>2, SetFieldKeepsAnchor DEF PushScalarField, registryVars
<1>3. CASE PushHandleField
  BY <1>3, SetFieldKeepsAnchor DEF PushHandleField, registryVars
<1>4. CASE PushKnownObject
  <2>1. PICK r \in RefOf(Field) : SetField(registry[r])
    BY <1>4 DEF PushKnownObject
  <2> QED
    BY <1>4, <2>1, SetFieldKeepsAnchor DEF PushKnownObject, registryVars
<1>5. CASE PushNewObject
  BY <1>5, FlatField DEF PushNewObject
<1>6. CASE PushFieldThrows
  <2>1. ~Idle /\ UNCHANGED <<registry, handles, frames, refs, heap>>
    BY <1>6 DEF PushFieldThrows, registryVars, Running
  <2> QED
    BY <2>1, AnchorStays DEF Idle
<1>7. CASE Leave
  <2>1. PICK o \in Objects, t \in Tables, r \in Slots \ {0} :
          /\ Len(frames) = 1
          /\ refs = <<<<o, r>>>>
          /\ registry[r] = t /\ r \notin HandleRefs
          /\ ValueSlots = HandleRefs \cup {r}
    BY <1>7 DEF Leave, FlatRegistry, TableAnchored
  <2>2. ~Idle /\ registry' = ReleaseRefs /\ handles' = handles /\ frames' = Front(frames)
    BY <1>7, <2>1 DEF Leave
  <2>3. registry' = LuaLUnref(registry, r)
    BY <2>1, <2>2, ReleaseOne
  <2>4. registry[r] \in LuaValues
    BY <2>1, TablesAssumption
  <2>5. WrappersOK' /\ HandleRefs' = HandleRefs /\ ValueSlots' = ValueSlots \ {r}
    BY <1>0, <2>1, <2>2, <2>3, <2>4, UnrefBesideWrappers
  <2>6. Idle'
    <3>1. Len(Front(frames)) = 0 /\ Front(frames) \in Seq(Call)
      BY <2>1 DEF CallsOK, Front
    <3> QED
      BY <2>2, <3>1 DEF Idle
  <2> QED
    BY <2>1, <2>5, <2>6 DEF FlatRegistry, WrappersOK
<1>8. CASE WrapOrDestroy
  <2>1. Idle /\ frames' = frames /\ Idle'
    BY <1>8 DEF WrapOrDestroy, Idle
  <2>2. ValueSlots = HandleRefs
    BY <2>1 DEF FlatRegistry
  <2>3. PICK h \in Handles : Drop(h) \/ \E v \in LuaValues \ Tables : Hold(h, v)
    BY <1>8 DEF WrapOrDestroy
  <2>4. WrappersOK' /\ ValueSlots' = HandleRefs'
    BY <1>0, <2>2, <2>3, HoldKeepsWrappers, DropKeepsWrappers
  <2> QED
    BY <2>1, <2>4 DEF FlatRegistry, WrappersOK
<1>9. CASE UNCHANGED vars
  <2>1. UNCHANGED <<registry, handles, frames, refs, heap>>
    BY <1>9 DEF vars, pushVars, registryVars
  <2>2. CASE Idle
    <3>1. Idle' /\ WrappersOK' /\ HandleRefs' = HandleRefs /\ ValueSlots' = ValueSlots
      BY <1>0, <2>1, <2>2, RegistryUnchanged DEF Idle
    <3> QED
      BY <2>2, <3>1 DEF FlatRegistry, WrappersOK
  <2>3. CASE ~Idle
    BY <2>1, <2>3, AnchorStays DEF Idle
  <2> QED
    BY <2>2, <2>3
<1> QED
  BY <1>1, <1>2, <1>3, <1>4, <1>5, <1>6, <1>7, <1>8, <1>9 DEF Next, PushStep

-----------------------------------------------------------------------------
LEMMA InitIInv == Init => IInv
<1> SUFFICES ASSUME Init PROVE IInv
  OBVIOUS
<1> USE DEF Init, RegistryInit
<1>1. DOMAIN heap = {} /\ DOMAIN frames = {} /\ Idle
  BY DEF Idle
<1>2. CallsOK
  <2>1. frames \in Seq(Call) /\ refs \in Seq(Objects \X Nat)
    OBVIOUS
  <2>2. DOMAIN heap \subseteq Tables /\ graph \in Graphs /\ throwing \in BOOLEAN
    BY <1>1
  <2> QED
    BY <2>1, <2>2 DEF CallsOK
<1>3. heap \in [DOMAIN heap -> [fields : Seq(LuaField), of : Objects]]
  BY <1>1
<1>4. Images
  BY <1>1, <1>3 DEF Images, CallsNest
<1>5. VisitsOnce
  BY <1>1 DEF VisitsOnce
<1>6. FreeListIsList
  BY FreshRegistry
<1>7. RegistryTypeOK
  BY MaxRefAssumption DEF RegistryTypeOK, NoHandle, Slots
<1>8. LiveHandles = {} /\ ValueSlots = {}
  BY NilAssumption DEF LiveHandles, ValueSlots
<1>9. FlatRegistry
  BY <1>1, <1>6, <1>7, <1>8 DEF FlatRegistry, HandlesHold, HandleReadsItsValue, HandleRefs
<1> QED
  BY <1>2, <1>4, <1>5, <1>9 DEF IInv

\* The graph of the objects is one a push leaves alone, and so its shape stays.
LEMMA ShapeStays ==
  ASSUME [Next]_vars
  PROVE  graph' = graph /\ Plain' = Plain /\ Flat' = Flat /\ (Tree /\ HoldsNoHandle)' = (Tree /\ HoldsNoHandle)
<1>1. graph' = graph
  BY DEF Next, PushStep, StartPush, PushScalarField, PushHandleField, PushKnownObject,
         PushNewObject, PushFieldThrows, Leave, WrapOrDestroy, vars, pushVars
<1> QED
  BY <1>1 DEF Plain, Flat, Tree, HoldsNoHandle

\* The inductive invariant of PushTable holds throughout.
THEOREM PushSafety == Spec => []IInv
<1>1. IInv /\ [Next]_vars => IInv'
  <2> SUFFICES ASSUME IInv, [Next]_vars PROVE IInv'
    OBVIOUS
  <2>1. CallsOK'
    BY CallsStay DEF IInv
  <2>2. Plain => StateOK
    BY DEF IInv, StateOK, Plain
  <2>3. Plain' => Images'
    BY <2>2, ImagesStay, ShapeStays
  <2>4. (Tree /\ HoldsNoHandle)' => VisitsOnce'
    BY <2>2, VisitsStay, ShapeStays DEF Plain
  <2>5. Flat' => FlatRegistry'
    BY <2>2, FlatStays, ShapeStays DEF Plain
  <2> QED
    BY <2>1, <2>3, <2>4, <2>5 DEF IInv
<1> QED
  BY InitIInv, <1>1, PTL DEF Spec

\* When the push of a flat object or of a tree without Lua values returns, the Lua
\* tables form the graph of the JS objects, for graphs of any size and depth and
\* whatever pushes and wrappers came before (thread.ts:158-209).
THEOREM ImagesAreIsomorphic == Spec => []PushedImageIsIsomorphic
<1>1. ASSUME IInv, root # Nil, Plain, NEW t \in DOMAIN heap
      PROVE  /\ DOMAIN heap[t].fields = DOMAIN graph[heap[t].of]
             /\ \A k \in DOMAIN graph[heap[t].of] : IsImageOf(heap[t].fields[k], graph[heap[t].of][k])
  <2> USE <1>1 DEF IInv
  <2>1. Idle /\ ~throwing /\ ActiveTables = {}
    BY DEF Images, Idle, ActiveTables
  <2>2. Len(heap[t].fields) = Len(graph[heap[t].of])
    BY <2>1 DEF Images
  <2>3. ImageSoFar(t)
    BY DEF Images
  <2>4. heap[t].fields \in Seq(LuaField) /\ graph[heap[t].of] \in Seq(JsField)
    BY GraphsAssumption DEF Images, CallsOK, JsField
  <2>5. /\ DOMAIN heap[t].fields = 1 .. Len(heap[t].fields)
        /\ DOMAIN graph[heap[t].of] = 1 .. Len(heap[t].fields)
    BY <2>2, <2>4
  <2> QED
    BY <2>3, <2>5 DEF ImageSoFar
<1>2. IInv => PushedImageIsIsomorphic
  BY <1>1 DEF PushedImageIsIsomorphic, Plain
<1> QED
  BY PushSafety, <1>2, PTL

\* Pushing flat objects disturbs no wrapper and gives back every reference it took,
\* returning or throwing, for any number of registry slots (thread.ts:186-191).
THEOREM PushesReleaseTheirRefs == Spec => []PushReleasesItsRefs
<1>1. IInv => PushReleasesItsRefs
  BY FreeListIsSound DEF IInv, FlatRegistry, PushReleasesItsRefs, HandleRefs
<1> QED
  BY PushSafety, <1>1, PTL
=============================================================================
