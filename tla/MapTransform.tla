---------------------------- MODULE MapTransform ----------------------------
(***************************************************************************)
(* mapTransform (src/src/utils/map-transform.ts): nested JS Maps become    *)
(* objects or arrays.  Maps and results are JS objects with an identity:   *)
(* positions in the sequences maps and results.                            *)
(*                                                                         *)
(* An assignment result[key] = v makes a property, except for two names:   *)
(* "__proto__" is a setter that every result inherits, and the "length" of *)
(* an array removes elements; both may throw.                              *)
(*                                                                         *)
(* The recursion is the sequence calls, one entry per active call.         *)
(***************************************************************************)
EXTENDS Naturals, Sequences, SequencesExt, FiniteSetsExt, TLC

CONSTANTS
  Numbers,   \* JS values with typeof "number"
  Strings,   \* JS values with typeof "string"
  Others,    \* JS values of any other type that are not Maps
  Name,      \* the property name String(v) makes of each of them
  MapName,   \* the one it makes of every Map, "[object Map]"
  ProtoName, \* "__proto__"
  LengthName,\* "length"
  Index,     \* property names that are array indices -> the index
  Objects,   \* the JS values of Others that are objects or functions
  AsLength,  \* the JS values ToNumber makes a length of -> the length
  Detected   \* dictType undefined

JsScalars == Numbers \cup Strings \cup Others

ASSUME NameAssumption == DOMAIN Name = JsScalars
ASSUME ScalarsAreNoRefs == JsScalars \cap ({"Map", "Result"} \X Nat) = {}
ASSUME SpecialNames == ProtoName # LengthName /\ {ProtoName, LengthName} \cap DOMAIN Index = {}
ASSUME IndexAssumption == Index \in [DOMAIN Index -> Nat]
ASSUME LengthAssumption == AsLength \in [DOMAIN AsLength -> Nat] /\ DOMAIN AsLength \subseteq JsScalars

VARIABLES
  maps,      \* the Maps: [entries, of], entries in insertion order; of is
             \* (history) what the Map was made from
  wanted,    \* options.dictType
  calls,     \* active calls: [map, result, next]
  copies,    \* options.refs: Map -> its result
  results,   \* the objects and arrays made: [of, array, props, proto], proto
             \* the result it inherits from, 0 when it inherits from none
  thrown     \* an assignment has thrown

transformVars == <<wanted, calls, copies, results, thrown>>

MapRef(i) == <<"Map", i>>
ResultRef(i) == <<"Result", i>>
MapRefs == {MapRef(i) : i \in DOMAIN maps}
ResultRefs == {ResultRef(j) : j \in DOMAIN results}

TransformInit ==
  /\ wanted = Detected
  /\ calls = <<>>
  /\ copies = <<>>
  /\ results = <<>>
  /\ thrown = FALSE

-----------------------------------------------------------------------------
KeysOf(i) == [k \in DOMAIN maps[i].entries |-> maps[i].entries[k][1]]

PropertyName(key) == IF key \in JsScalars THEN Name[key] ELSE MapName

\* Mutant of DetectDuplicateKeys: keys are compared without String.
DetectSameKeys(keys) == ~IsInjective(keys)

DetectDuplicateKeys(keys) == ~IsInjective([k \in DOMAIN keys |-> PropertyName(keys[k])])

DetectDictType(keys) ==
  IF ~(ToSet(keys) \subseteq Numbers \cup Strings) \/ DetectDuplicateKeys(keys) THEN "Map"
  ELSE IF ToSet(keys) \cap Numbers # {} THEN "Array" ELSE "Object"

DictType(i) == IF wanted = Detected THEN DetectDictType(KeysOf(i)) ELSE wanted

\* A Map or an object in which k is set to v.
Put(f, k, v) == [x \in DOMAIN f \cup {k} |-> IF x = k THEN v ELSE f[x]]

NewResult(i, type) == [of |-> i, array |-> type = "Array", props |-> <<>>, proto |-> 0]

-----------------------------------------------------------------------------
(***************************************************************************)
(* result[key] = v.  Of the objects a result may inherit from only the     *)
(* results are told apart: the accessors and the read-only properties of   *)
(* any other are left out.                                                 *)
(***************************************************************************)
\* A property named x is one of r's own.
IsOwn(r, x) == x # ProtoName /\ ~(r.array /\ x = LengthName)

\* Result i is j or inherits from it.
Inherits(i, j) ==
  \A S \in SUBSET DOMAIN results :
    (i \in S /\ \A k \in S : results[k].proto \in S \cup {0}) => j \in S

\* What result j inherits from once its "__proto__" is set to v: what is no
\* object is ignored.
Prototypes(j, v) ==
  IF v \in ResultRefs THEN {p \in {v[2]} : ~Inherits(p, j)}
  ELSE IF v \in Objects \cup MapRefs THEN {0} ELSE {results[j].proto}

\* The lengths v may be, as far as they tell indices apart: that of a result
\* depends on what its elements are converted to.
Lengths(v) ==
  IF v \in ResultRefs THEN {0} \cup {n + 1 : n \in Range(Index)}
  ELSE {AsLength[w] : w \in {v} \cap DOMAIN AsLength}

Truncated(props, n) ==
  Restrict(props, {x \in DOMAIN props : x \in DOMAIN Index => Index[x] < n})

\* What becomes of result j when its property x is set to v.
Assigned(j, x, v) ==
  LET r == results[j] IN
  IF IsOwn(r, x) THEN {[r EXCEPT !.props = Put(@, x, v)]}
  ELSE IF x = ProtoName THEN {[r EXCEPT !.proto = p] : p \in Prototypes(j, v)}
  ELSE {[r EXCEPT !.props = Truncated(@, n)] : n \in Lengths(v)}

\* "Cyclic __proto__ value" and "Invalid array length".
Throws(j, x, v) ==
  \/ x = ProtoName /\ v \in ResultRefs /\ Inherits(v[2], j)
  \/ x = LengthName /\ results[j].array /\ v \notin DOMAIN AsLength

\* result[key] = v on result j, after which the active calls are rest.
Assign(j, key, v, rest) ==
  LET x == PropertyName(key) IN
  \/ /\ \E r \in Assigned(j, x, v) : results' = [results EXCEPT ![j] = r]
     /\ calls' = rest
     /\ UNCHANGED thrown
  \/ Throws(j, x, v) /\ thrown' = TRUE /\ calls' = <<>> /\ UNCHANGED results

-----------------------------------------------------------------------------
Transforming == calls # <<>>

Call == Last(calls)

Entry == maps[Call.map].entries[Call.next]

AllKeysDone == Call.next > Len(maps[Call.map].entries)

\* result[key] = v, and on to the next key.
SetResult(v) ==
  Assign(Call.result, Entry[1], v, [calls EXCEPT ![Len(calls)].next = @ + 1])

\* Mutant of EnterMap: the result is remembered only when it is complete.
EnterMapUnseen(i, rest) ==
  /\ results' = Append(results, NewResult(i, DictType(i)))
  /\ calls' = Append(rest, [map |-> i, result |-> Len(results) + 1, next |-> 1])
  /\ UNCHANGED <<copies, thrown>>

\* A call that gets past its early returns, with rest the calls below it.
EnterMap(i, rest) ==
  /\ results' = Append(results, NewResult(i, DictType(i)))
  /\ copies' = Put(copies, i, Len(results) + 1)
  /\ calls' = Append(rest, [map |-> i, result |-> Len(results) + 1, next |-> 1])
  /\ UNCHANGED thrown

CopyValue ==
  /\ Transforming /\ ~AllKeysDone
  /\ Entry[2] \notin MapRefs
  /\ SetResult(Entry[2])
  /\ UNCHANGED <<wanted, copies>>

\* A nested call that returns early: the Map has a result, or stays a Map.
ReuseOrKeepMap ==
  /\ Transforming /\ ~AllKeysDone
  /\ Entry[2] \in MapRefs
  /\ LET i == Entry[2][2] IN
       \/ i \in DOMAIN copies /\ SetResult(ResultRef(copies[i]))
       \/ i \notin DOMAIN copies /\ DictType(i) = "Map" /\ SetResult(Entry[2])
  /\ UNCHANGED <<wanted, copies>>

TransformMap ==
  /\ Transforming /\ ~AllKeysDone
  /\ Entry[2] \in MapRefs
  /\ Entry[2][2] \notin DOMAIN copies
  /\ DictType(Entry[2][2]) # "Map"
  /\ EnterMap(Entry[2][2], calls)
  /\ UNCHANGED wanted

\* A call returns its result, which the caller stores.
ReturnResult ==
  /\ Transforming /\ AllKeysDone
  /\ IF Len(calls) = 1 THEN calls' = <<>> /\ UNCHANGED <<results, thrown>>
     ELSE LET caller == calls[Len(calls) - 1]
              key == maps[caller.map].entries[caller.next][1] IN
            Assign(caller.result, key, ResultRef(Call.result),
                   [Front(calls) EXCEPT ![Len(calls) - 1].next = @ + 1])
  /\ UNCHANGED <<wanted, copies>>

TransformStep ==
  \/ CopyValue
  \/ ReuseOrKeepMap
  \/ TransformMap
  \/ ReturnResult

\* The outermost call on Map i, with fresh options, when t is its dictType.
StartTransform(i, t) ==
  /\ wanted' = t
  /\ thrown' = FALSE
  /\ LET type == IF t = Detected THEN DetectDictType(KeysOf(i)) ELSE t IN
       IF type = "Map"
       THEN results' = <<>> /\ calls' = <<>> /\ copies' = <<>>
       ELSE /\ results' = <<NewResult(i, type)>>
            /\ calls' = <<[map |-> i, result |-> 1, next |-> 1]>>
            /\ copies' = Put(<<>>, i, 1)
=============================================================================
