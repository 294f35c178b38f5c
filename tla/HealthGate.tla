----------------------------- MODULE HealthGate -----------------------------
(***************************************************************************)
(* ensure_critical_services_healthy, the gate in front of update,          *)
(* update-conf, scale, scalelog and backup start, and the running-tx test  *)
(* in front of install.  Both observe the cluster: one status task per     *)
(* tx, standby and voter node and one per log or dss host, all running     *)
(* concurrently.  Tx and standby tasks dial the node and send PING; voter, *)
(* log and dss tasks look for the process with ps.  Meanwhile the          *)
(* processes come and go.                                                  *)
(***************************************************************************)
EXTENDS Naturals, FiniteSets

CONSTANTS Procs,      \* the server processes
          Rows,       \* the status tasks, each giving a row of the observation
          Role,       \* the service of a row
          Member,     \* the processes a row stands for
          StatusWait, \* seconds a gated status probe may wait (30 in the code)
          ProbeWait,  \* seconds the second probe may wait (10 in the code)
          MayPanic    \* whether a status task may panic, leaving no row

Roles == {"tx", "standby", "voter", "log", "dss"}

\* Only the log task of a host stands for several processes; a host has such a
\* task because of the processes configured there, so every row has one.
ASSUME GateAssumption ==
    /\ Role \in [Rows -> Roles]
    /\ Member \in [Rows -> (SUBSET Procs) \ {{}}]
    /\ \A r \in Rows : Role[r] # "log" => \E p \in Procs : Member[r] = {p}
    /\ StatusWait \in Nat
    /\ ProbeWait \in Nat
    /\ MayPanic \in BOOLEAN

VARIABLES
    use,       \* "gate" or "install"
    cond,      \* what a dial or a ps meets at this moment
    phase,     \* where the caller is
    row,       \* the observed status of each row
    left,      \* the seconds the row's current probe may still wait
    probed,    \* the rows whose second probe returned
    answered,  \* history: the rows that answered a PING
    seen,      \* history: the processes a ps found running
    steady     \* history: every process was serving all the time, over a working ssh

vars == <<use, cond, phase, row, left, probed, answered, seen, steady>>

\* dead         no process
\* unreachable  the process runs, a connection is refused or times out
\* mute         the connection is accepted, PING is not answered with PONG
\* serving      PING is answered with PONG
Conds == {"dead", "unreachable", "mute", "serving"}

\* The rows whose status task dials the node, and those dialled by the gate itself.
Dialled(r) == Role[r] \in {"tx", "standby"}
Reprobed == {r \in Rows : Role[r] \in {"standby", "voter"}}

TheProc(r) == CHOOSE p \in Procs : Member[r] = {p}

Done == phase \in {"passed", "refused", "skipped", "bootstraps"}

TypeOK ==
    /\ use \in {"gate", "install"}
    /\ cond \in [Procs -> Conds]
    /\ phase \in {"status", "probe", "passed", "refused", "skipped", "bootstraps"}
    /\ row \in [Rows -> {"todo", "missing", "Ok", "Up", "Down", "Unknown", "Error"}]
    /\ left \in [Rows -> 0..(StatusWait + ProbeWait)]
    /\ probed \in SUBSET Reprobed
    /\ answered \in SUBSET Rows
    /\ seen \in SUBSET Procs
    /\ steady \in BOOLEAN

\* observe_cluster: the gate waits, the install test passes no wait, which
\* status_tasks turns into a probe that waits zero seconds.
Init ==
    /\ use \in {"gate", "install"}
    /\ cond \in [Procs -> Conds]
    /\ phase = "status"
    /\ row = [r \in Rows |-> "todo"]
    /\ left = [r \in Rows |-> IF use = "gate" THEN StatusWait ELSE 0]
    /\ probed = {}
    /\ answered = {}
    /\ seen = {}
    /\ steady = (\A p \in Procs : cond[p] = "serving")

(***************************************************************************)
(* RedisProbe::probe, one turn of its loop                                 *)
(***************************************************************************)

\* The connection failed or PING was not answered, and there is time to wait.
ProbeRetry(r) ==
    /\ cond[TheProc(r)] # "serving"
    /\ left[r] > 0
    /\ left' = [left EXCEPT ![r] = @ - 1]

\* The connection failed and there is no time left: Ok with CMD_STATUS -1.
\* A connection that is accepted but not answered has no such exit.
ProbeGivesUp(r) ==
    /\ cond[TheProc(r)] \in {"dead", "unreachable"}
    /\ left[r] = 0

\* PONG: Ok with CMD_STATUS 0.
ProbeAnswered(r) ==
    /\ cond[TheProc(r)] = "serving"
    /\ answered' = answered \cup {r}

(***************************************************************************)
(* The status tasks                                                        *)
(***************************************************************************)

\* Fault: the waiting time is not counted down.
DialForever(r) ==
    /\ phase = "status" /\ row[r] = "todo" /\ Dialled(r)
    /\ \/ cond[TheProc(r)] # "serving" /\ left[r] > 0 /\ UNCHANGED <<row, left, answered>>
       \/ ProbeGivesUp(r) /\ row' = [row EXCEPT ![r] = "Down"] /\ UNCHANGED <<left, answered>>
       \/ ProbeAnswered(r) /\ row' = [row EXCEPT ![r] = "Ok"] /\ UNCHANGED left
    /\ UNCHANGED <<use, cond, phase, probed, seen, steady>>

\* The status task of a tx or standby node probes it.  PONG gives the output
\* "OK", read as Ok; status -1 is reported as "service is down", read as Down.
Dial(r) ==
    /\ phase = "status" /\ row[r] = "todo" /\ Dialled(r)
    /\ \/ ProbeRetry(r) /\ UNCHANGED <<row, answered>>
       \/ ProbeGivesUp(r) /\ row' = [row EXCEPT ![r] = "Down"] /\ UNCHANGED <<left, answered>>
       \/ ProbeAnswered(r) /\ row' = [row EXCEPT ![r] = "Ok"] /\ UNCHANGED left
    /\ UNCHANGED <<use, cond, phase, probed, seen, steady>>

\* The status task of a voter, log or dss row looks for the processes.  The
\* outputs of a host's log processes are joined into one text, and a text that
\* contains "running" is Up before a "down" in it is looked for.
CheckProcess(r) ==
    /\ phase = "status" /\ row[r] = "todo" /\ ~Dialled(r)
    /\ LET up == {p \in Member[r] : cond[p] # "dead"}
       IN  /\ seen' = seen \cup up
           /\ row' = [row EXCEPT ![r] = IF up # {} THEN "Up" ELSE "Down"]
    /\ UNCHANGED <<use, cond, phase, left, probed, answered, steady>>

\* The ssh connection fails (the task's error), or ps does ("status unknown").
SshFails(r) ==
    /\ phase = "status" /\ row[r] = "todo"
    /\ \E s \in {"Error"} \cup (IF Dialled(r) THEN {} ELSE {"Unknown"}) :
           row' = [row EXCEPT ![r] = s]
    /\ steady' = FALSE
    /\ UNCHANGED <<use, cond, phase, left, probed, answered, seen>>

\* The task panics: run_task_split filters it out and no row is made.
RowLost(r) ==
    /\ MayPanic
    /\ phase = "status" /\ row[r] = "todo"
    /\ row' = [row EXCEPT ![r] = "missing"]
    /\ steady' = FALSE
    /\ UNCHANGED <<use, cond, phase, left, probed, answered, seen>>

(***************************************************************************)
(* The callers                                                             *)
(***************************************************************************)

Observed == phase = "status" /\ \A r \in Rows : row[r] # "todo"

\* has_errors or unavailable_services.
Unavailable == {r \in Rows : row[r] \in {"Down", "Unknown", "Error"}}

\* has_running_service("tx").
RunningTx == \E r \in Rows : Role[r] = "tx" /\ row[r] = "Up"

\* Fault: only errors refuse, rows that are Down or Unknown do not.
JudgeErrorsOnly ==
    /\ use = "gate" /\ Observed
    /\ IF \E r \in Rows : row[r] = "Error"
       THEN phase' = "refused" /\ UNCHANGED left
       ELSE phase' = "probe" /\ left' = [r \in Rows |-> ProbeWait]
    /\ UNCHANGED <<use, cond, row, probed, answered, seen, steady>>

\* Fault: the gate asks for rows that are Up.
JudgeWantsUp ==
    /\ use = "gate" /\ Observed
    /\ IF \E r \in Rows : row[r] \notin {"Up", "missing"}
       THEN phase' = "refused" /\ UNCHANGED left
       ELSE phase' = "probe" /\ left' = [r \in Rows |-> ProbeWait]
    /\ UNCHANGED <<use, cond, row, probed, answered, seen, steady>>

\* The gate refuses on the observation, or goes on to its own probes.
Judge ==
    /\ use = "gate" /\ Observed
    /\ IF Unavailable # {}
       THEN phase' = "refused" /\ UNCHANGED left
       ELSE phase' = "probe" /\ left' = [r \in Rows |-> ProbeWait]
    /\ UNCHANGED <<use, cond, row, probed, answered, seen, steady>>

\* The gate probes standbys and voters.  Only an Err of probe refuses, and a
\* probe that gives up returns Ok.
Reprobe(r) ==
    /\ phase = "probe" /\ r \in Reprobed \ probed
    /\ \/ ProbeRetry(r) /\ UNCHANGED <<probed, answered>>
       \/ ProbeGivesUp(r) /\ probed' = probed \cup {r} /\ UNCHANGED <<left, answered>>
       \/ ProbeAnswered(r) /\ probed' = probed \cup {r} /\ UNCHANGED left
    /\ UNCHANGED <<use, cond, phase, row, seen, steady>>

\* join_all over the probes.
Pass ==
    /\ phase = "probe" /\ probed = Reprobed
    /\ phase' = "passed"
    /\ UNCHANGED <<use, cond, row, left, probed, answered, seen, steady>>

\* install: a running tx service skips the bootstrap.
InstallDecides ==
    /\ use = "install" /\ Observed
    /\ phase' = IF RunningTx THEN "skipped" ELSE "bootstraps"
    /\ UNCHANGED <<use, cond, row, left, probed, answered, seen, steady>>

\* Environment: a process starts, dies, hangs or recovers.
Drift(p) ==
    /\ ~Done
    /\ \E c \in Conds \ {cond[p]} : cond' = [cond EXCEPT ![p] = c]
    /\ steady' = FALSE
    /\ UNCHANGED <<use, phase, row, left, probed, answered, seen>>

Ended == Done /\ UNCHANGED vars

RowStep(r) == Dial(r) \/ CheckProcess(r) \/ SshFails(r) \/ RowLost(r) \/ Reprobe(r)

Next ==
    \/ \E r \in Rows : RowStep(r)
    \/ Judge \/ Pass \/ InstallDecides
    \/ \E p \in Procs : Drift(p)
    \/ Ended

Spec == Init /\ [][Next]_vars

\* The runtime polls every task, and every dial and ps has a timeout of its own.
\* Nothing is owed by the processes, by ssh or by a panic.
Fairness ==
    /\ \A r \in Rows : WF_vars(Dial(r)) /\ WF_vars(CheckProcess(r)) /\ WF_vars(Reprobe(r))
    /\ WF_vars(Judge) /\ WF_vars(Pass) /\ WF_vars(InstallDecides)

FairSpec == Spec /\ Fairness

(***************************************************************************)
(* Properties                                                              *)
(***************************************************************************)

\* What a passed gate has established, each part at some moment of the gate and
\* not at its end: a tx or standby node answered a PING, a voter or dss process
\* and at least one log process of every log host ran; a status task that
\* panicked has established nothing (ensure_critical_services_healthy).
PassedMeansSeen ==
    phase = "passed" => \A r \in Rows :
        \/ row[r] = "missing"
        \/ Dialled(r) /\ r \in answered
        \/ ~Dialled(r) /\ Member[r] \cap seen # {}

\* The gate never refuses a cluster whose processes all serve throughout and
\* whose hosts are reachable (has_errors, unavailable_services and the texts
\* they read).
NoFalseRefusal == steady => phase # "refused"

\* The rows that are not refused have evidence behind them.
RowInv ==
    \A r \in Rows :
        /\ row[r] = "Ok" => Dialled(r) /\ r \in answered
        /\ row[r] = "Up" => ~Dialled(r) /\ Member[r] \cap seen # {}

\* After the judgement no row is unavailable.
JudgedInv == phase \in {"probe", "passed"} => \A r \in Rows : row[r] \in {"Ok", "Up", "missing"}

\* While every process has served all the time, no row is unavailable.
SteadyInv ==
    steady => /\ \A p \in Procs : cond[p] = "serving"
              /\ \A r \in Rows : row[r] \in {"todo", "Ok", "Up"}
              /\ phase # "refused"

\* The inductive invariant: evidence behind every row, and no unavailable row
\* past the judgement (observed_service_from_task_result with the gate).
GateInv == TypeOK /\ RowInv /\ JudgedInv

\* Gate and install test end, provided no node accepts connections without ever
\* answering them (RedisProbe::probe, join_all).
EndsUnlessMute ==
    (\A p \in Procs : <>[](cond[p] # "mute")) => <>Done
=============================================================================
