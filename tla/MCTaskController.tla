-------------------------- MODULE MCTaskController --------------------------
(* Stages of two tasks, one task and one task.                               *)
EXTENDS TaskController, TLC

CONSTANTS t1, t2, t3, t4

MCStageOf == (t1 :> 1) @@ (t2 :> 1) @@ (t3 :> 2) @@ (t4 :> 3)

\* Callers that read all the time have a channel that is often full; the others
\* have room for one result per task and the finish signal.
MCCap == [c \in Calls |-> IF c \in {"command", "remove"} THEN 2 ELSE 5]
=============================================================================
