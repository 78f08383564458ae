---------------------------- MODULE FuncBinding ----------------------------
(***************************************************************************)
(* JS functions in Lua (the 'js-function' type of src/src/lua.ts and       *)
(* src/src/func-manager.ts).  Each push makes a userdata that holds the    *)
(* reference and a C closure with that userdata as upvalue.  A function    *)
(* has no room for fields of its own, so two JS maps keyed by addresses    *)
(* stand in: pointerRedirect, from the userdata to its closure, and        *)
(* indexMap, from the closure to the JS function.  The entry of indexMap   *)
(* is deleted by the userdata's finalizer, which Lua runs in a later phase *)
(* of the collection than the one that frees the closure.                  *)
(***************************************************************************)
EXTENDS Naturals, FiniteSets, Functions

CONSTANTS
  Targets,      \* JS functions and objects that are pushed
  NoTarget,
  UdataAddrs,   \* addresses of userdata; the allocator reuses a freed one
  ClosureAddrs  \* addresses of closures, likewise

ASSUME NoTargetAssumption == NoTarget \notin Targets
ASSUME AddrsAssumption == UdataAddrs \cap ClosureAddrs = {}

Addrs == UdataAddrs \cup ClosureAddrs

VARIABLES
  block,           \* address -> [kind, target, up, state]: what is allocated
                   \* there; up is the userdata of a closure
  rooted,          \* the values Lua code can reach
  pointerRedirect, \* userdata address -> closure address
  indexMap,        \* closure address -> JS function
  gcstate          \* phase of the Lua collector

bindVars == <<block, rooted, pointerRedirect, indexMap, gcstate>>

FreeBlock == [kind |-> "free", target |-> NoTarget, up |-> NoTarget, state |-> "live"]

BindInit ==
  /\ block = [a \in Addrs |-> FreeBlock]
  /\ rooted = {}
  /\ pointerRedirect = <<>>
  /\ indexMap = <<>>
  /\ gcstate = "pause"

IsFree(a) == block[a].kind = "free"

Put(f, k, v) == [x \in DOMAIN f \cup {k} |-> IF x = k THEN v ELSE f[x]]

Deleted(f, k) == Restrict(f, DOMAIN f \ {k})

-----------------------------------------------------------------------------

\* pushValue of function t: userdata at u, closure at c.
PushFunction(t, u, c) ==
  /\ IsFree(u) /\ IsFree(c)
  /\ block' = [block EXCEPT
       ![u] = [kind |-> "userdata", target |-> t, up |-> NoTarget, state |-> "live"],
       ![c] = [kind |-> "closure", target |-> t, up |-> u, state |-> "live"]]
  /\ rooted' = rooted \cup {c}
  /\ pointerRedirect' = Put(pointerRedirect, u, c)
  /\ indexMap' = Put(indexMap, c, t)
  /\ UNCHANGED gcstate

\* pushValue of an object: a 'js-userdata', with the same finalizer.
PushObject(t, u) ==
  /\ IsFree(u)
  /\ block' = [block EXCEPT
       ![u] = [kind |-> "object", target |-> t, up |-> NoTarget, state |-> "live"]]
  /\ rooted' = rooted \cup {u}
  /\ UNCHANGED <<pointerRedirect, indexMap, gcstate>>

\* Lua code lets go of a value.
LetGo(a) ==
  /\ a \in rooted
  /\ rooted' = rooted \ {a}
  /\ UNCHANGED <<block, pointerRedirect, indexMap, gcstate>>

\* Reachable blocks: the rooted ones, and the userdata of rooted closures.
Reachable == rooted \cup {block[c].up : c \in {a \in rooted : block[a].kind = "closure"}}

Phase(a) ==
  IF IsFree(a) \/ a \in Reachable THEN block[a].state
  ELSE IF block[a].kind = "closure" \/ block[a].state = "finalized" THEN "condemned"
  ELSE "queued"

\* The end of the mark phase: unreachable blocks are white, and those with a
\* finalizer not run yet are moved to tmudata and kept for this cycle.
Atomic ==
  /\ gcstate = "pause"
  /\ block' = [a \in Addrs |-> [block[a] EXCEPT !.state = Phase(a)]]
  /\ gcstate' = "sweep"
  /\ UNCHANGED <<rooted, pointerRedirect, indexMap>>

Sweep(a) ==
  /\ gcstate = "sweep"
  /\ block[a].state = "condemned"
  /\ block' = [block EXCEPT ![a] = FreeBlock]
  /\ UNCHANGED <<rooted, pointerRedirect, indexMap, gcstate>>

SweepEnds ==
  /\ gcstate = "sweep"
  /\ \A a \in Addrs : block[a].state # "condemned"
  /\ gcstate' = "finalize"
  /\ UNCHANGED <<block, rooted, pointerRedirect, indexMap>>

\* Mutant of RemoveIndexRedirect: the entry stays.
KeepIndexRedirect(u) == indexMap

\* removeIndexRedirect(pointerRedirect.get(u)).
RemoveIndexRedirect(u) ==
  IF u \in DOMAIN pointerRedirect THEN Deleted(indexMap, pointerRedirect[u]) ELSE indexMap

\* GCTM calls the __gc function on the next userdata of tmudata.
Finalize(u) ==
  /\ gcstate = "finalize"
  /\ block[u].state = "queued"
  /\ indexMap' = RemoveIndexRedirect(u)
  /\ block' = [block EXCEPT ![u].state = "finalized"]
  /\ UNCHANGED <<rooted, pointerRedirect, gcstate>>

FinalizeEnds ==
  /\ gcstate = "finalize"
  /\ \A a \in Addrs : block[a].state # "queued"
  /\ gcstate' = "pause"
  /\ UNCHANGED <<block, rooted, pointerRedirect, indexMap>>

BindNext ==
  \/ \E t \in Targets, u \in UdataAddrs, c \in ClosureAddrs : PushFunction(t, u, c)
  \/ \E t \in Targets, u \in UdataAddrs : PushObject(t, u)
  \/ \E a \in Addrs : LetGo(a) \/ Sweep(a)
  \/ \E u \in UdataAddrs : Finalize(u)
  \/ Atomic
  \/ SweepEnds
  \/ FinalizeEnds

BindSpec == BindInit /\ [][BindNext]_bindVars

-----------------------------------------------------------------------------
(***************************************************************************)
(* Properties.                                                             *)
(***************************************************************************)
Kinds == {"free", "closure", "userdata", "object"}

\* Type invariant: both maps lead from the addresses of one kind of block to
\* what the code looks up there (func-manager.ts:36-39, lua.ts:182-184).
FuncTypeOK ==
  /\ block \in [Addrs -> [kind : Kinds, target : Targets \cup {NoTarget},
                          up : Addrs \cup {NoTarget},
                          state : {"live", "condemned", "queued", "finalized"}]]
  /\ rooted \subseteq {a \in Addrs : ~IsFree(a)}
  /\ pointerRedirect \in [DOMAIN pointerRedirect -> ClosureAddrs]
  /\ DOMAIN pointerRedirect \subseteq UdataAddrs
  /\ indexMap \in [DOMAIN indexMap -> Targets]
  /\ DOMAIN indexMap \subseteq ClosureAddrs
  /\ gcstate \in {"pause", "sweep", "finalize"}

\* The registered __index, __newindex and __tostring functions look in indexMap
\* first and only then at the userdata itself.
IndexTarget(a) ==
  IF a \in DOMAIN indexMap THEN indexMap[a]
  ELSE IF block[a].kind = "object" THEN block[a].target ELSE NoTarget

\* An entry of indexMap, which keeps a JS function alive, goes with its
\* userdata: every entry has a userdata whose finalizer will delete it.
RedirectsAreOwned ==
  \A c \in DOMAIN indexMap : \E u \in DOMAIN pointerRedirect :
    /\ pointerRedirect[u] = c
    /\ block[u].kind = "userdata"
    /\ block[u].state \in {"live", "queued"}

\* "Register an index mapping: an attempt to index or tostring the function is
\* traced back to the JS object its userdata stands for" (the comment at
\* lua.ts:185): every value Lua code can reach indexes into its own target.
IndexFindsItsTarget == \A a \in rooted : IndexTarget(a) = block[a].target
=============================================================================
