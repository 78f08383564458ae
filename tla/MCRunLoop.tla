----------------------------- MODULE MCRunLoop -----------------------------
(***************************************************************************)
(* Model values for RunLoop: two executions, one of which can be nested in *)
(* the other or find what the other and a synchronous one have left on the *)
(* stack.                                                                  *)
(***************************************************************************)
EXTENDS RunLoop

CONSTANTS t1, t2

MCTasks == {t1, t2}
=============================================================================
