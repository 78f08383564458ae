---------------------------- MODULE ObjectPins ----------------------------
(***************************************************************************)
(* What the reference table of LuaApi is for, without indices, counters or *)
(* free lists.  A userdata block holds at most one JS object; a value is   *)
(* pinned (strongly referenced, so that the JS collector cannot take it)   *)
(* exactly while some userdata holds it or a reference to it has leaked.   *)
(***************************************************************************)
CONSTANTS Objects, Primitives, Userdata, NoObject

VARIABLES
  holds,    \* block -> the object it holds, or NoObject
  pinned,   \* the values JavaScript keeps alive for Lua
  leaked,   \* the values with a reference that nobody will give back
  weak      \* the blocks whose death is not reported (no __gc)

pinsVars == <<holds, pinned, leaked, weak>>

HeldObjects(h) == {h[u] : u \in Userdata} \ {NoObject}

Init ==
  /\ holds = [u \in Userdata |-> NoObject]
  /\ pinned = {}
  /\ leaked = {}
  /\ weak = {}

Hold(u, o) ==
  /\ holds[u] = NoObject
  /\ holds' = [holds EXCEPT ![u] = o]
  /\ weak' \in {weak, weak \cup {u}}
  /\ UNCHANGED leaked

\* A push that failed after it had taken the reference.
Leak(v) ==
  /\ leaked' = leaked \cup {v}
  /\ UNCHANGED <<holds, weak>>

Drop(u) ==
  /\ holds[u] # NoObject
  /\ holds' = [holds EXCEPT ![u] = NoObject]
  /\ leaked' = IF u \in weak THEN leaked \cup {holds[u]} ELSE leaked
  /\ weak' = weak \ {u}

Step ==
  \/ \E u \in Userdata, o \in Objects : Hold(u, o)
  \/ \E v \in Objects \cup Primitives : Leak(v)
  \/ \E u \in Userdata : Drop(u)

\* Every step leaves pinned exactly the held and the leaked values.
Next == Step /\ pinned' = HeldObjects(holds') \cup leaked'

Spec == Init /\ [][Next]_pinsVars
=============================================================================
