---------------------------- MODULE MCSyncCalls ----------------------------
(***************************************************************************)
(* Model values for SyncCalls: one execution is enough, two are allowed.   *)
(***************************************************************************)
EXTENDS SyncCalls

CONSTANTS t1, t2

MCTasks == {t1, t2}
=============================================================================
