--------------------------- MODULE TaskController ---------------------------
(***************************************************************************)
(* TaskController::run_all_tasks and the callers that share its bounded    *)
(* result channel.  The stages of a plan run one after the other; the      *)
(* tasks of a stage are spawned on the runtime and run concurrently.  A    *)
(* task executes, stores its status in SQLite and sends its result.        *)
(* Callers differ in who reads the channel, and in whether an error stops  *)
(* the run:                                                                *)
(*   command  a receiver is spawned first; an error stops the run          *)
(*   remove   a receiver is spawned first; errors do not stop the run      *)
(*   observe  the caller drains the channel after the run; errors do not   *)
(*            stop the run                                                 *)
(*   step     a rolling-upgrade step, nobody reads; an error stops the run *)
(***************************************************************************)
EXTENDS Naturals, Sequences, FiniteSets

CONSTANTS Tasks,    \* the task instances of the plan
          Last,     \* the number of stages split_task made
          StageOf,  \* the stage of every task
          Cap,      \* the capacity of the result channel, for each caller (2000 in the code)
          Calls,    \* the callers considered
          MayPanic, \* whether a task may panic
          FINISH    \* the _FINISH_SIGNAL message

ASSUME ControllerAssumption ==
    /\ Last \in Nat
    /\ StageOf \in [Tasks -> 1..Last]
    /\ Cap \in [Calls -> Nat \ {0}]
    /\ Calls \subseteq {"command", "remove", "observe", "step"}
    /\ MayPanic \in BOOLEAN
    /\ FINISH \notin Tasks

VARIABLES
    call,     \* the caller of this run
    ctl,      \* where run_all_tasks is
    stage,    \* the stage it is at
    ts,       \* where each spawned task is
    outcome,  \* what execute returned
    status,   \* the task's row of t_task_status
    chan,     \* the result channel
    recv,     \* the reader of the channel
    got       \* the results the reader took

vars == <<call, ctl, stage, ts, outcome, status, chan, recv, got>>

ErrBrk == call \in {"command", "step"}

Stage(k) == {t \in Tasks : StageOf[t] = k}

\* join_all has an answer for the task: its result, or the panic.
Joined(t) == ts[t] \in {"sent", "panicked"}

\* The task's JoinHandle yields TaskResultEnum::Error.
Failed(t) == ts[t] = "sent" /\ outcome[t] = "err"

TypeOK ==
    /\ call \in Calls
    /\ ctl \in {"launch", "join", "returned", "ok", "bailed"}
    /\ stage \in 1..(Last + 1)
    /\ ts \in [Tasks -> {"new", "running", "saving", "sending", "sent", "panicked"}]
    /\ outcome \in [Tasks -> {"none", "ok", "err"}]
    /\ status \in [Tasks -> {"none", "ok", "err"}]
    /\ chan \in Seq(Tasks \cup {FINISH})
    /\ Len(chan) <= Cap[call]
    /\ recv \in {"off", "reading", "ended"}
    /\ got \in SUBSET Tasks

\* The receiver of a command is spawned before run_tasks is called.
Init ==
    /\ call \in Calls
    /\ ctl = "launch"
    /\ stage = 1
    /\ ts = [t \in Tasks |-> "new"]
    /\ outcome = [t \in Tasks |-> "none"]
    /\ status = [t \in Tasks |-> "none"]
    /\ chan = <<>>
    /\ recv = IF call \in {"command", "remove"} THEN "reading" ELSE "off"
    /\ got = {}

(***************************************************************************)
(* run_all_tasks                                                           *)
(***************************************************************************)

\* run_task_split spawns every task of the stage.
LaunchStage ==
    /\ ctl = "launch"
    /\ stage <= Last
    /\ ts' = [t \in Tasks |-> IF StageOf[t] = stage THEN "running" ELSE ts[t]]
    /\ ctl' = "join"
    /\ UNCHANGED <<call, stage, outcome, status, chan, recv, got>>

\* Fault: errors are never looked at.
JoinIgnoresErrors ==
    /\ ctl = "join"
    /\ \A t \in Stage(stage) : Joined(t)
    /\ stage' = stage + 1
    /\ ctl' = "launch"
    /\ UNCHANGED <<call, ts, outcome, status, chan, recv, got>>

\* Fault: the first finished task ends the wait.
JoinAny ==
    /\ ctl = "join"
    /\ \E t \in Stage(stage) : Joined(t)
    /\ IF ErrBrk /\ \E t \in Stage(stage) : Failed(t)
       THEN ctl' = "bailed" /\ UNCHANGED stage
       ELSE ctl' = "launch" /\ stage' = stage + 1
    /\ UNCHANGED <<call, ts, outcome, status, chan, recv, got>>

\* Fault: the first error ends the run while the rest of the stage is running.
JoinUntilError ==
    /\ ctl = "join"
    /\ IF ErrBrk /\ \E t \in Stage(stage) : Failed(t)
       THEN ctl' = "bailed" /\ UNCHANGED stage
       ELSE /\ \A t \in Stage(stage) : Joined(t)
            /\ ctl' = "launch" /\ stage' = stage + 1
    /\ UNCHANGED <<call, ts, outcome, status, chan, recv, got>>

\* join_all waits for the whole stage; panicked tasks are filtered out, and an
\* error among the others ends the run when err_brk is set.
JoinStage ==
    /\ ctl = "join"
    /\ \A t \in Stage(stage) : Joined(t)
    /\ IF ErrBrk /\ \E t \in Stage(stage) : Failed(t)
       THEN ctl' = "bailed" /\ UNCHANGED stage
       ELSE ctl' = "launch" /\ stage' = stage + 1
    /\ UNCHANGED <<call, ts, outcome, status, chan, recv, got>>

\* Fault: the finish signal is sent as soon as the last stage is running.
FinishEarly ==
    /\ \/ ctl = "launch" /\ stage > Last
       \/ ctl = "join" /\ stage = Last
    /\ Len(chan) < Cap[call]
    /\ chan' = Append(chan, FINISH)
    /\ ctl' = "returned"
    /\ UNCHANGED <<call, stage, ts, outcome, status, recv, got>>

\* Fault: the run returns without the finish signal.
ReturnWithoutFinish ==
    /\ ctl = "launch"
    /\ stage > Last
    /\ ctl' = "returned"
    /\ UNCHANGED <<call, stage, ts, outcome, status, chan, recv, got>>

\* After the last stage the finish signal is sent, blocking while the channel
\* is full, and the results are returned.
Finish ==
    /\ ctl = "launch"
    /\ stage > Last
    /\ Len(chan) < Cap[call]
    /\ chan' = Append(chan, FINISH)
    /\ ctl' = "returned"
    /\ UNCHANGED <<call, stage, ts, outcome, status, recv, got>>

(***************************************************************************)
(* One spawned task                                                        *)
(***************************************************************************)

\* TaskExecutor::execute returns.
Execute(t) ==
    /\ ts[t] = "running"
    /\ \E o \in {"ok", "err"} : outcome' = [outcome EXCEPT ![t] = o]
    /\ ts' = [ts EXCEPT ![t] = "saving"]
    /\ UNCHANGED <<call, ctl, stage, status, chan, recv, got>>

\* post_task_execute! stores the status row.
SaveStatus(t) ==
    /\ ts[t] = "saving"
    /\ status' = [status EXCEPT ![t] = outcome[t]]
    /\ ts' = [ts EXCEPT ![t] = "sending"]
    /\ UNCHANGED <<call, ctl, stage, outcome, chan, recv, got>>

\* The task panics inside execute, or on the assertion that its status was stored.
Panic(t) ==
    /\ MayPanic
    /\ ts[t] \in {"running", "saving"}
    /\ ts' = [ts EXCEPT ![t] = "panicked"]
    /\ UNCHANGED <<call, ctl, stage, outcome, status, chan, recv, got>>

\* The result goes into the channel; the send blocks while it is full.
Send(t) ==
    /\ ts[t] = "sending"
    /\ Len(chan) < Cap[call]
    /\ chan' = Append(chan, t)
    /\ ts' = [ts EXCEPT ![t] = "sent"]
    /\ UNCHANGED <<call, ctl, stage, outcome, status, recv, got>>

(***************************************************************************)
(* The callers                                                             *)
(***************************************************************************)

\* observe_cluster calls drain_task_results once the run has returned.
StartDrain ==
    /\ call = "observe"
    /\ ctl = "returned"
    /\ recv = "off"
    /\ recv' = "reading"
    /\ UNCHANGED <<call, ctl, stage, ts, outcome, status, chan, got>>

\* write_task_result and drain_task_results take one message; only the finish
\* signal ends them.
Receive ==
    /\ recv = "reading"
    /\ chan # <<>>
    /\ chan' = Tail(chan)
    /\ IF Head(chan) = FINISH
       THEN recv' = "ended" /\ UNCHANGED got
       ELSE recv' = recv /\ got' = got \cup {Head(chan)}
    /\ UNCHANGED <<call, ctl, stage, ts, outcome, status>>

\* The caller joins its receiver, or the drain is over; a step has no reader.
CallerEnds ==
    /\ ctl = "returned"
    /\ call = "step" \/ recv = "ended"
    /\ ctl' = "ok"
    /\ UNCHANGED <<call, stage, ts, outcome, status, chan, recv, got>>

Done == ctl \in {"ok", "bailed"}

TaskStep(t) == Execute(t) \/ SaveStatus(t) \/ Panic(t) \/ Send(t)

Next ==
    \/ LaunchStage \/ JoinStage \/ Finish
    \/ \E t \in Tasks : TaskStep(t)
    \/ StartDrain \/ Receive \/ CallerEnds

Spec == Init /\ [][Next]_vars

\* The runtime polls every runnable future and every remote command returns
\* (each has a timeout of its own).  A panic is never owed.
Fairness ==
    /\ WF_vars(LaunchStage) /\ WF_vars(JoinStage) /\ WF_vars(Finish)
    /\ \A t \in Tasks : WF_vars(Execute(t)) /\ WF_vars(SaveStatus(t)) /\ WF_vars(Send(t))
    /\ WF_vars(StartDrain) /\ WF_vars(Receive) /\ WF_vars(CallerEnds)

FairSpec == Spec /\ Fairness

(***************************************************************************)
(* Properties                                                              *)
(***************************************************************************)

\* The barrier: no task of a stage is spawned before every task of every
\* earlier stage has been joined, whoever the caller is (run_all_tasks).
BarrierRespected ==
    \A s, t \in Tasks :
        StageOf[s] < StageOf[t] /\ ts[t] # "new" => Joined(s)

\* err_brk: once a task has failed, no task of a later stage is ever spawned
\* for a caller that asked to stop on errors (run_all_tasks).
FailStops ==
    ErrBrk => \A s, t \in Tasks :
        StageOf[s] < StageOf[t] /\ Failed(s) => ts[t] = "new"

\* A reader that saw the finish signal has seen the result of every task that
\* produced one, and has left nothing behind for the next run that uses the
\* same channel (write_task_result, drain_task_results).
FinishIsLast ==
    recv = "ended" =>
        /\ chan = <<>>
        /\ got = {t \in Tasks : ts[t] = "sent"}
        /\ \A t \in Tasks : Joined(t)

\* A run that returned Ok to a caller that stops on errors executed every task
\* of the plan, and whatever did not succeed panicked (run_task_split).
OkUnlessPanic ==
    ErrBrk /\ ctl \in {"returned", "ok"} =>
        \A t \in Tasks : ts[t] = "panicked" \/ (ts[t] = "sent" /\ status[t] = "ok")

\* The progress of the run: what lies before the current stage is joined and,
\* for a caller that stops on errors, has no failure; what lies after it is
\* untouched.
StageInv ==
    /\ \A t \in Tasks : StageOf[t] < stage => Joined(t)
    /\ \A t \in Tasks : StageOf[t] > stage => ts[t] = "new"
    /\ ctl = "launch" => \A t \in Tasks : StageOf[t] = stage => ts[t] = "new"
    /\ ctl = "bailed" => \A t \in Tasks : StageOf[t] = stage => Joined(t)
    /\ ctl \in {"join", "bailed"} => stage <= Last
    /\ ctl \in {"returned", "ok"} => stage = Last + 1
    /\ ErrBrk => \A t \in Tasks : StageOf[t] < stage => ~Failed(t)

\* A task that has a result stored it before sending it.
ResultInv ==
    \A t \in Tasks :
        /\ ts[t] \in {"saving", "sending", "sent"} => outcome[t] # "none"
        /\ ts[t] \in {"sending", "sent"} => status[t] = outcome[t]

\* What went through the channel: a result is in the channel or was taken, and
\* the finish signal is the last message of a run that returned.
ChanInv ==
    /\ recv = "ended" => ctl \in {"returned", "ok"} /\ chan = <<>>
    /\ ctl \notin {"returned", "ok"} => \A i \in 1..Len(chan) : chan[i] # FINISH
    /\ ctl \in {"returned", "ok"} /\ recv # "ended" =>
        /\ Len(chan) > 0
        /\ chan[Len(chan)] = FINISH
        /\ \A i \in 1..(Len(chan) - 1) : chan[i] # FINISH
    /\ \A t \in Tasks :
        ts[t] = "sent" <=> (t \in got \/ \E i \in 1..Len(chan) : chan[i] = t)

\* The inductive invariant: the progress of the stages, of the results and of
\* the channel together (run_all_tasks with its reader).
ControllerInv == TypeOK /\ StageInv /\ ResultInv /\ ChanInv

\* Every run ends: nobody waits for a full channel, a missing finish signal or
\* a lost join forever.  A caller that reads while the run is on gets there with
\* any capacity, the others need room for every result and the finish signal
\* (run_all_tasks with its callers).
RunEnds ==
    call \in {"command", "remove"} \/ Cap[call] > Cardinality(Tasks) => <>Done

(***************************************************************************)
(* Refinement                                                              *)
(***************************************************************************)

Begun == {t \in Tasks : ts[t] # "new"}

Ended == {t \in Tasks : Joined(t)}

Bad == {t \in Tasks : Failed(t)}

Returned ==
    IF ctl = "bailed" THEN "error" ELSE IF ctl \in {"returned", "ok"} THEN "ok" ELSE "none"

Abs == INSTANCE StagedRun
         WITH brk <- ErrBrk, begun <- Begun, ended <- Ended, bad <- Bad, result <- Returned

\* The controller implements the staged run its callers rely on: whatever the
\* channel, the status rows and the readers do meanwhile, each step of
\* run_all_tasks is a step of StagedRun or leaves it alone.
ImplementsStagedRun == Abs!Spec
=============================================================================
