----------------------------- MODULE StagedRun -----------------------------
(***************************************************************************)
(* What run_all_tasks promises its callers, with the channel, the status   *)
(* rows, the places inside a task and the readers left out: stages run one *)
(* after the other, a stage starts once everything before it has an        *)
(* answer, and a caller that asked to break on errors gets an error exactly *)
(* when a task of the last stage that ran failed.                          *)
(***************************************************************************)
EXTENDS Naturals

CONSTANTS Tasks,    \* the task instances of the plan
          StageOf   \* the stage of every task

VARIABLES
    brk,     \* whether an error stops the run (err_brk)
    begun,   \* the tasks spawned so far
    ended,   \* the tasks that have an answer: a result, or a panic
    bad,     \* the tasks whose answer is an error
    result   \* what the run returned to its caller

vars == <<brk, begun, ended, bad, result>>

Init ==
    /\ brk \in BOOLEAN
    /\ begun = {} /\ ended = {} /\ bad = {}
    /\ result = "none"

\* A stage starts as a whole, once every task of every earlier stage ended.
BeginStage(k) ==
    /\ result = "none"
    /\ begun = {t \in Tasks : StageOf[t] < k}
    /\ ended = begun
    /\ brk => bad = {}
    /\ begun' = {t \in Tasks : StageOf[t] <= k}
    /\ UNCHANGED <<brk, ended, bad, result>>

EndTask(t) ==
    /\ result = "none"
    /\ t \in begun \ ended
    /\ ended' = ended \cup {t}
    /\ bad' \in {bad, bad \cup {t}}
    /\ UNCHANGED <<brk, begun, result>>

Succeed ==
    /\ result = "none"
    /\ ended = Tasks
    /\ brk => bad = {}
    /\ result' = "ok"
    /\ UNCHANGED <<brk, begun, ended, bad>>

Break ==
    /\ result = "none"
    /\ brk /\ bad # {}
    /\ ended = begun
    /\ result' = "error"
    /\ UNCHANGED <<brk, begun, ended, bad>>

Next ==
    \/ \E k \in {StageOf[t] : t \in Tasks} : BeginStage(k)
    \/ \E t \in Tasks : EndTask(t)
    \/ Succeed \/ Break

Spec == Init /\ [][Next]_vars
=============================================================================
