----------------------------- MODULE MCExecutor -----------------------------
(* Small instances of Executor for TLC.  l0 and l1 are local to processors 0 *)
(* and 1; g is a global task.                                              *)
EXTENDS Executor, TLC
CONSTANTS l0, l1, g
AllHomes == (l0 :> 0 @@ l1 :> 1 @@ g :> GlobalQ)
Homes == [t \in Tasks |-> AllHomes[t]]
=============================================================================
