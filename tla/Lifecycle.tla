------------------------------ MODULE Lifecycle ------------------------------
(***************************************************************************)
(* deploy, launch, install, start, stop, restart, failover and remove of a *)
(* cluster: each is a sequence of stages that the task controller runs one *)
(* after the other, the tasks of a stage at the same time.  The mutation   *)
(* lock admits one command; processes die, leadership moves and commands   *)
(* crash at any moment.                                                    *)
(*                                                                         *)
(* The deployment is EloqKV on EloqStore in cloud mode, its data store     *)
(* service inside the tx processes ("local") or in processes of its own    *)
(* ("remote"), with a standalone log service.  Every node has its host;    *)
(* several dss processes may share one.  That a task panics, and is then   *)
(* missing from the results, is left to TaskController.                    *)
(***************************************************************************)
EXTENDS Naturals, Sequences, FiniteSets

CONSTANTS TxNodes, Standbys,
          DssPeers,      \* peer_host_ports of the data store service
          DssHost,       \* the host of a peer
          LastPeer,      \* of a host, the peer that is listed last
          Modes,         \* of "local", "remote"
          \* of a mode:
          MaxVersion,    \* versions a topology file may ask for
          MaxCommands,   \* bound on the commands other than a full start
          MaxFaults      \* bound on failed calls, crashes, deaths, lost hosts

ASSUME LifecycleAssumption ==
    /\ TxNodes # {} /\ TxNodes \cap Standbys = {}
    /\ {"log", "all"} \cap (TxNodes \cup Standbys) = {}
    /\ DssPeers # {}
    /\ DssPeers \cap (TxNodes \cup Standbys \cup {DssHost[p] : p \in DssPeers}) = {}
    /\ \A p \in DssPeers : LET q == LastPeer[DssHost[p]] IN q \in DssPeers /\ DssHost[q] = DssHost[p]
    /\ Modes \subseteq {"local", "remote"}
    /\ \A m \in Modes : {MaxVersion[m], MaxCommands[m], MaxFaults[m]} \subseteq Nat

Nodes == TxNodes \cup Standbys
DssHosts == {DssHost[p] : p \in DssPeers}
PeersAt(h) == {p \in DssPeers : DssHost[p] = h}
First == CHOOSE n \in TxNodes : TRUE
None == 0

VARIABLES
    mode,
    row,       \* the version in the cluster index, None without a row
    recorded,  \* hosts whose upload t_task_status has as a success of deploy
    inst,      \* per host, the version in the install directory
    up,        \* running tx and standby processes
    master,    \* the leader of the node group
    log,       \* "down", "up", "ready" (has leaders), "stopping"
    dss,       \* of a peer, "down", "up", "stopping"
    cached,    \* tx nodes and dss peers with EloqStore's local data
    booted,    \* the bootstrap has made the cluster's configuration durable
    cmd,       \* the command: [op, force, nodes]
    stages,    \* its stages still to run, the current one first
    pending,   \* tasks of the current stage that have not ended
    failed,    \* a task has returned an error
    topo,      \* the topology the stop tasks wait for: [masters, replicas]
    commands, faults,
    died,      \* history: processes that ended by themselves during the command
    outdated   \* history: recorded hosts changed by something else than deploy

vars == <<mode, row, recorded, inst, up, master, log, dss, cached, booted, cmd, stages, pending,
          failed, topo, commands, faults, died, outdated>>
stateVars == <<mode, row, recorded, outdated>>
hostVars == <<inst, booted, cached>>
procVars == <<up, master, log, dss>>
cmdVars == <<cmd, stages, topo, commands, died>>

Idle == [op |-> "idle", force |-> FALSE, nodes |-> {}]
NoTopology == [masters |-> {}, replicas |-> {}]

Init ==
    /\ mode \in Modes
    /\ row = None /\ recorded = {} /\ outdated = {}
    /\ inst = [n \in Nodes |-> None]
    /\ up = {} /\ master = First
    /\ log = "down" /\ dss = [p \in DssPeers |-> "down"] /\ cached = {} /\ booted = FALSE
    /\ cmd = Idle /\ stages = <<>> /\ pending = {} /\ failed = FALSE /\ topo = NoTopology
    /\ commands = 0 /\ faults = 0 /\ died = {}

Fault == faults < MaxFaults[mode] /\ faults' = faults + 1
NoFault == UNCHANGED faults

-----------------------------------------------------------------------------
(* The cluster: leadership moves, a process ends, a host is set up anew.   *)

Elect(n) ==
    /\ n \in up /\ n # master
    /\ master' = n
    /\ UNCHANGED <<stateVars, hostVars, up, log, dss, cmdVars, pending, failed, faults>>

NodeDies(n) ==
    /\ n \in up
    /\ Fault
    /\ up' = up \ {n}
    /\ died' = IF cmd = Idle THEN died ELSE died \cup {n}
    /\ UNCHANGED <<stateVars, hostVars, master, log, dss, cmd, stages, topo, commands, pending,
                   failed>>

HostReplaced(n) ==
    /\ inst[n] # None /\ n \notin up
    /\ Fault
    /\ inst' = [inst EXCEPT ![n] = None]
    /\ outdated' = outdated \cup {n}
    /\ UNCHANGED <<mode, row, recorded, booted, cached, procVars, cmdVars, pending, failed>>

LogElects ==
    /\ log = "up"
    /\ log' = "ready"
    /\ UNCHANGED <<stateVars, hostVars, up, master, dss, cmdVars, pending, failed, faults>>

\* A process that was sent its signal ends some time later.
LogExits ==
    /\ log = "stopping"
    /\ log' = "down"
    /\ died' = IF cmd = Idle THEN died ELSE died \cup {"log"}
    /\ UNCHANGED <<stateVars, hostVars, up, master, dss, cmd, stages, topo, commands, pending,
                   failed, faults>>

DssExits(p) ==
    /\ dss[p] = "stopping"
    /\ dss' = [dss EXCEPT ![p] = "down"]
    /\ UNCHANGED <<stateVars, hostVars, up, master, log, cmdVars, pending, failed, faults>>

DssDies(p) ==
    /\ dss[p] = "up"
    /\ Fault
    /\ dss' = [dss EXCEPT ![p] = "down"]
    /\ UNCHANGED <<stateVars, hostVars, up, master, log, cmdVars, pending, failed>>

-----------------------------------------------------------------------------
(* The task groups: which stages a command has.                            *)

If(b, s) == IF b THEN s ELSE <<>>

\* DeploymentTaskGroup: make the directories, get the archives, upload them,
\* upload the configuration.
DeployStages == <<"prepare", "fetch", "upload", "configure">>

\* Fault: the log service is started and not waited for.
LogStagesNoProbe == <<"logStart">>
LogStages == <<"logStart", "logProbe">>

\* DssCtlCmd::build_cmd: without peers that eloqctl manages there is no task.
DssManaged == mode = "remote"
DssStart == If(DssManaged, <<"dssStart">>)
DssStop == If(DssManaged, <<"dssStop">>)

\* InstallDBTaskGroup: a single node without standby is not bootstrapped.
SkipBootstrap == Cardinality(TxNodes) = 1 /\ Standbys = {}
InstallStages ==
    DssStart \o If(~SkipBootstrap, <<"bootstrap">> \o If(mode = "local", <<"bootClean">>))

\* The end of a start: the status tasks, then in cluster mode a RedisOpTask that
\* waits for a master, never fails and whose answer nobody reads.
StatusStages == <<"status">>

\* CtrlDBTaskGroup::start_tasks
StartStages(skipLog) ==
    <<"clean">> \o DssStart \o If(~skipLog, LogStages) \o <<"txStart">> \o StatusStages

\* The end of a launch: the monitor, then the topology is asked for, saved and
\* displayed; one stage here.
ReportStages == <<"report">>

\* LaunchTaskGroup: the checks, the groups above, the report.
LaunchStages ==
    DeployStages \o LogStages \o InstallStages \o StartStages(TRUE) \o ReportStages

\* CtrlDBTaskGroup::stop_tasks: the branch of remove and stop --force.
KillStages == If(Standbys # {}, <<"killStandby">>) \o <<"killTx">>

\* stop_with_hot_standby, which a plain stop of a cluster with standbys calls.
HotStandbyStages == <<"topology", "stopStandby", "stopTx">>

TxStopStages(force) == IF force \/ Standbys = {} THEN KillStages ELSE HotStandbyStages

\* Fault: the services below the tx processes go first.
StopStagesBottomUp(force, alsoLog) ==
    If(alsoLog, <<"logStop">>) \o DssStop \o TxStopStages(force)

StopStages(force, alsoLog) ==
    TxStopStages(force) \o If(alsoLog, <<"logStop">>) \o DssStop

\* What stop_tasks puts behind the tx stages, whatever they are.
ServiceStopStages(alsoLog) == If(alsoLog, <<"logStop">>) \o DssStop

\* RemoveTaskGroup, then finishing and delete_cluster; --force leaves out
\* everything remote.  The log data and the backups are not modelled here.
DeleteClusterRowFirst == <<"dropRow", "dropRecords">>
DeleteCluster == <<"dropRecords", "dropRow">>
RemoveStages(force) == If(~force, StopStages(TRUE, TRUE) \o <<"rmDir">>) \o DeleteCluster

\* An upload that deploy has recorded as a success is left out.
skip_success_task_execution(hosts) == hosts \ recorded

\* EloqTxCtlTask: one task per host and port of the server type.
TxStages == {"txStart", "killStandby", "stopStandby", "killTx", "stopTx", "startNodes", "killNodes"}
TxTasks(s) ==
    CASE s = "txStart"                        -> Nodes
      [] s \in {"killStandby", "stopStandby"} -> Standbys
      [] s \in {"killTx", "stopTx"}           -> TxNodes
      [] s \in {"startNodes", "killNodes"}    -> cmd'.nodes

\* EloqStoreDataCleanTask: one task per host of a process that has EloqStore's data.
CleanTasks == IF DssManaged THEN DssHosts ELSE TxNodes

TasksOf(s) ==
    CASE s = "upload"    -> skip_success_task_execution(Nodes)
      [] s = "rmDir"     -> Nodes
      [] s \in TxStages  -> TxTasks(s)
      [] s = "failover"  -> cmd'.nodes
      [] s = "clean"     -> CleanTasks
      [] s = "bootClean" -> {First}
      [] s \in {"dssStart", "dssStop"} -> DssHosts
      [] OTHER           -> {"all"}

Current == IF stages = <<>> THEN "none" ELSE Head(stages)
Enter(ss) == stages' = ss /\ pending' = IF ss = <<>> THEN {} ELSE TasksOf(Head(ss))

-----------------------------------------------------------------------------
(* A command starts: get_config, then its task group.                      *)

Begin(op, force, nodes, ss) ==
    /\ cmd = Idle
    /\ cmd' = [op |-> op, force |-> force, nodes |-> nodes]
    /\ Enter(ss)
    /\ failed' = FALSE /\ topo' = NoTopology /\ died' = {}
    /\ NoFault
    /\ UNCHANGED <<hostVars, procVars>>

Counted == commands < MaxCommands[mode] /\ commands' = commands + 1

\* The row is saved before the tasks are built, with the file's version.
DeployOrLaunch ==
    /\ Counted
    /\ \E v \in 1..MaxVersion[mode] :
         /\ row' = v
         /\ outdated' = IF v = row THEN outdated ELSE outdated \cup recorded
    /\ \/ Begin("deploy", FALSE, {}, DeployStages)
       \/ Begin("launch", FALSE, {}, LaunchStages)
    /\ UNCHANGED <<mode, recorded>>

\* install also goes on while tx processes serve: what it takes for a running tx
\* service is a status that no process which answers has (see HealthGate).
Install ==
    /\ Counted /\ row # None
    /\ Begin("install", FALSE, {}, InstallStages)
    /\ UNCHANGED stateVars

Start ==
    /\ row # None
    /\ Begin("start", FALSE, {}, StartStages(FALSE))
    /\ UNCHANGED <<stateVars, commands>>

StartNodes ==
    /\ Counted /\ row # None
    /\ \E N \in (SUBSET Nodes) \ {{}} : Begin("start", FALSE, N, <<"startNodes", "status">>)
    /\ UNCHANGED stateVars

Stop ==
    /\ Counted /\ row # None
    /\ \E force, alsoLog \in BOOLEAN : Begin("stop", force, {}, StopStages(force, alsoLog))
    /\ UNCHANGED stateVars

\* --tx false leaves the tx processes alone and stops the services below them;
\* --force, which is looked at for the tx stages only, makes no difference.
StopServices ==
    /\ Counted /\ row # None
    /\ \E alsoLog \in BOOLEAN : Begin("stopServices", FALSE, {}, ServiceStopStages(alsoLog))
    /\ UNCHANGED stateVars

\* --nodes names tx processes; the data store service is stopped all the same.
StopNodes ==
    /\ Counted /\ row # None
    /\ \E N \in (SUBSET Nodes) \ {{}}, force, alsoLog \in BOOLEAN :
           Begin("stop", force, N, <<"killNodes">> \o ServiceStopStages(alsoLog))
    /\ UNCHANGED stateVars

Restart ==
    /\ Counted /\ row # None
    /\ Begin("restart", FALSE, {}, StopStages(FALSE, TRUE) \o StartStages(FALSE))
    /\ UNCHANGED stateVars

\* The first stage asks for the topology, the last one only displays it.
Failover ==
    /\ Counted /\ row # None
    /\ \E old \in Nodes : Begin("failover", FALSE, {old}, <<"topology", "failover", "status">>)
    /\ UNCHANGED stateVars

Remove ==
    /\ Counted /\ row # None
    /\ \E force \in BOOLEAN : Begin("remove", force, {}, RemoveStages(force))
    /\ UNCHANGED stateVars

-----------------------------------------------------------------------------
(* The task controller: a stage is joined; an error ends every command but *)
(* remove.                                                                 *)

NextStage ==
    /\ stages # <<>> /\ pending = {}
    /\ UNCHANGED <<stateVars, hostVars, procVars, cmd, topo, commands, died, failed, faults>>
    /\ Enter(IF failed /\ cmd.op # "remove" THEN <<>> ELSE Tail(stages))

\* The command has run to its end and no task has failed.
EndsOk == cmd # Idle /\ stages = <<>> /\ ~failed

Quit == cmd' = Idle /\ stages' = <<>> /\ pending' = {} /\ failed' = FALSE
        /\ topo' = NoTopology /\ died' = {}

End ==
    /\ cmd # Idle /\ stages = <<>>
    /\ Quit
    /\ NoFault
    /\ UNCHANGED <<stateVars, hostVars, procVars, commands>>

Crash ==
    /\ cmd # Idle
    /\ Fault
    /\ Quit
    /\ UNCHANGED <<stateVars, hostVars, procVars, commands>>

-----------------------------------------------------------------------------
(* The tasks.                                                              *)

Runs(t, S) == Current \in S /\ t \in pending

Ok(t) == pending' = pending \ {t} /\ UNCHANGED failed
Err(t) == pending' = pending \ {t} /\ failed' = TRUE

\* What a control command does to a process of the log service or the data store
\* service: it is started when no pid is found, and sent its signal when one is.
check_pid(p) == p # "down"
Launched(p) == IF check_pid(p) THEN p ELSE "up"
Signalled(p) == IF check_pid(p) THEN "stopping" ELSE p

\* Tasks that change nothing here: checks, dependencies, directories, archives
\* (see Staging), configuration, monitor, status and topology tables.
Other ==
    /\ Runs("all", {"prepare", "fetch", "configure", "status", "report"})
    /\ \/ Ok("all") /\ NoFault
       \/ Err("all") /\ Fault
    /\ UNCHANGED <<stateVars, hostVars, procVars, cmdVars>>

\* Fault: the status is stored whatever the task returned.
UploadRecordedAnyway(h) ==
    /\ Runs(h, {"upload"})
    /\ recorded' = IF cmd.op = "deploy" THEN recorded \cup {h} ELSE recorded
    /\ outdated' = outdated \ {h}
    /\ \/ inst' = [inst EXCEPT ![h] = row] /\ Ok(h) /\ NoFault
       \/ inst' \in {inst, [inst EXCEPT ![h] = None]} /\ Err(h) /\ Fault
    /\ UNCHANGED <<mode, row, booted, cached, procVars, cmdVars>>

\* An upload; the success is stored under the command that ran it, and only
\* those of deploy are looked up again.
Upload(h) ==
    /\ Runs(h, {"upload"})
    /\ \/ /\ inst' = [inst EXCEPT ![h] = row]
          /\ recorded' = IF cmd.op = "deploy" THEN recorded \cup {h} ELSE recorded
          /\ outdated' = outdated \ {h}
          /\ Ok(h) /\ NoFault
       \/ /\ inst' \in {inst, [inst EXCEPT ![h] = None]}
          /\ Err(h) /\ Fault
          /\ UNCHANGED <<recorded, outdated>>
    /\ UNCHANGED <<mode, row, booted, cached, procVars, cmdVars>>

\* Fault: a log service that runs already is an error.
LogStartOnce ==
    /\ Runs("all", {"logStart"})
    /\ \/ log = "down" /\ log' = "up" /\ Ok("all") /\ NoFault
       \/ log # "down" /\ Err("all") /\ NoFault /\ UNCHANGED log
       \/ (Ok("all") \/ Err("all")) /\ Fault /\ UNCHANGED log
    /\ UNCHANGED <<stateVars, hostVars, up, master, dss, cmdVars>>

\* EloqLogCtlTask: a process that has a pid is not started; a command that
\* fails is dropped from the result.
LogStart ==
    /\ Runs("all", {"logStart"})
    /\ \/ log' = Launched(log) /\ Ok("all") /\ NoFault
       \/ (Ok("all") \/ Err("all")) /\ Fault /\ UNCHANGED log
    /\ UNCHANGED <<stateVars, hostVars, up, master, dss, cmdVars>>

\* EloqLogProbeTask: leaders in every group, or the time is over.
LogProbe ==
    /\ Runs("all", {"logProbe"})
    /\ \/ log \in {"ready", "stopping"} /\ Ok("all")
       \/ log # "ready" /\ Err("all")
    /\ NoFault
    /\ UNCHANGED <<stateVars, hostVars, procVars, cmdVars>>

\* A kill without waiting.
LogStop ==
    /\ Runs("all", {"logStop"})
    /\ \/ log' = Signalled(log) /\ Ok("all") /\ NoFault
       \/ (Ok("all") \/ Err("all")) /\ Fault /\ UNCHANGED log
    /\ UNCHANGED <<stateVars, hostVars, up, master, dss, cmdVars>>

\* EloqDssCtlTask: one task per host does its peers one after the other, and the
\* status of the last command is the task's.  A process without pid is started;
\* that it does not come up within 30 seconds is no error.
DssStarts(h) ==
    /\ Runs(h, {"dssStart"})
    /\ \E done \in SUBSET PeersAt(h) :
         /\ dss' = [p \in DssPeers |-> IF p \in done THEN Launched(dss[p]) ELSE dss[p]]
         /\ cached' = cached \cup {p \in done : ~check_pid(dss[p])}
         /\ \/ done = PeersAt(h) /\ Ok(h) /\ NoFault
            \/ (Ok(h) \/ Err(h)) /\ Fault
    /\ UNCHANGED <<stateVars, inst, booted, up, master, log, cmdVars>>

DssStops(h) ==
    /\ Runs(h, {"dssStop"})
    /\ \E done \in SUBSET PeersAt(h) :
         /\ dss' = [p \in DssPeers |-> IF p \in done THEN Signalled(dss[p]) ELSE dss[p]]
         /\ \/ done = PeersAt(h) /\ Ok(h) /\ NoFault
            \/ LastPeer[h] \in done /\ Ok(h) /\ Fault
            \/ Err(h) /\ Fault
    /\ UNCHANGED <<stateVars, hostVars, up, master, log, cmdVars>>

\* EloqInstall on the first tx host: the server runs with --bootstrap.
Bootstrap ==
    /\ Runs("all", {"bootstrap"})
    /\ \/ inst[First] # None /\ booted' = TRUE /\ Ok("all") /\ NoFault
       \/ inst[First] = None /\ Err("all") /\ NoFault /\ UNCHANGED booted
       \/ Err("all") /\ Fault /\ UNCHANGED booted
    /\ UNCHANGED <<stateVars, inst, cached, procVars, cmdVars>>

\* EloqStoreDataCleanTask: one dss_server is looked for on a host, that of the peer
\* listed last; the tx processes of local mode are not.
KeepsNothing(t) == FALSE
KeepsData(t) == DssManaged /\ check_pid(dss[LastPeer[t]])

\* All data paths are cleaned, those of every peer on the host.
DataAt(t) == IF DssManaged THEN PeersAt(t) ELSE {t}

Clean(t) ==
    /\ Runs(t, {"clean", "bootClean"})
    /\ \/ cached' = (IF KeepsData(t) THEN cached ELSE cached \ DataAt(t)) /\ Ok(t) /\ NoFault
       \/ Err(t) /\ Fault /\ UNCHANGED cached
    /\ UNCHANGED <<stateVars, inst, booted, procVars, cmdVars>>

\* wait_tcp_ports_state: the ports of a process that runs, or that its command
\* can launch, come to listen.
PortsListen(n) == n \in up \/ inst[n] # None

\* Fault: the wait for the ports gives up without an error.
TxStartGivesUp(n) ==
    /\ Runs(n, {"txStart", "startNodes"})
    /\ \/ /\ PortsListen(n)
          /\ up' = up \cup {n}
          /\ cached' = IF mode = "local" THEN cached \cup ({n} \ up) ELSE cached
          /\ Ok(n) /\ NoFault
       \/ ~PortsListen(n) /\ Ok(n) /\ NoFault /\ UNCHANGED <<up, cached>>
       \/ Ok(n) /\ Fault /\ UNCHANGED <<up, cached>>
    /\ UNCHANGED <<stateVars, inst, booted, master, log, dss, cmdVars>>

\* EloqTxCtlTask "start": a process without pid is launched; the ports must
\* then listen within two minutes.
TxStart(n) ==
    /\ Runs(n, {"txStart", "startNodes"})
    /\ \/ /\ PortsListen(n)
          /\ up' = up \cup {n}
          /\ cached' = IF mode = "local" THEN cached \cup ({n} \ up) ELSE cached
          /\ Ok(n) /\ NoFault
       \/ ~PortsListen(n) /\ Err(n) /\ NoFault /\ UNCHANGED <<up, cached>>
       \/ Err(n) /\ Fault /\ UNCHANGED <<up, cached>>
    /\ UNCHANGED <<stateVars, inst, booted, master, log, dss, cmdVars>>

\* query_ckpt_status_with_retry: a master that answers ends its checkpoint.
Checkpointed(n) == n \in up

\* RedisOpTask before a plain stop: the topology is sent once the masters have
\* written their checkpoints; whatever fails, the task returns Ok.
Topology ==
    /\ Runs("all", {"topology"})
    /\ Ok("all")
    /\ \/ /\ Checkpointed(master)
          /\ topo' = [masters |-> {master}, replicas |-> up \ {master}]
          /\ NoFault
       \/ ~Checkpointed(master) /\ UNCHANGED topo /\ NoFault
       \/ Fault /\ UNCHANGED topo
    /\ UNCHANGED <<stateVars, hostVars, procVars, cmd, stages, commands, died>>

\* FailoverOpTask: a node that is no master of the topology, also of one that
\* never came, needs no failover; else a replica takes over.
FailoverOp(old) ==
    /\ Runs(old, {"failover"})
    /\ \/ old \notin topo.masters /\ Ok(old) /\ NoFault /\ UNCHANGED master
       \/ /\ old \in topo.masters /\ old \in up /\ old = master
          /\ master' \in topo.replicas \cap up
          /\ Ok(old) /\ NoFault
       \/ /\ old \in topo.masters
          /\ old \notin up \/ old # master \/ topo.replicas \cap up = {}
          /\ Err(old) /\ NoFault /\ UNCHANGED master
       \/ Err(old) /\ Fault /\ UNCHANGED master
    /\ UNCHANGED <<stateVars, hostVars, up, log, dss, cmdVars>>

\* EloqTxCtlTask "stop": the signal, then the ports must be free.
Kill(n) ==
    \/ up' = up \ {n} /\ Ok(n) /\ NoFault
    \/ up' \in {up, up \ {n}} /\ Err(n) /\ Fault

\* With a topology only its ports on the task's host are stopped: masters for
\* a tx task, replicas for a standby task.  No port: the task succeeds.
Targets(n) == IF Current = "stopTx" THEN n \in topo.masters ELSE n \in topo.replicas

TxStop(n) ==
    /\ \/ Runs(n, {"killStandby", "killTx", "killNodes"}) /\ Kill(n)
       \/ /\ Runs(n, {"stopStandby", "stopTx"})
          /\ IF Targets(n) THEN Kill(n) ELSE Ok(n) /\ NoFault /\ UNCHANGED up
    /\ UNCHANGED <<stateVars, hostVars, master, log, dss, cmdVars>>

RmDir(h) ==
    /\ Runs(h, {"rmDir"})
    /\ \/ /\ inst' = [inst EXCEPT ![h] = None]
          /\ outdated' = outdated \cup {h}
          /\ Ok(h) /\ NoFault
       \/ Err(h) /\ Fault /\ UNCHANGED <<inst, outdated>>
    /\ UNCHANGED <<mode, row, recorded, booted, cached, procVars, cmdVars>>

\* delete_cluster, statement by statement.
DropRecords ==
    /\ Runs("all", {"dropRecords"})
    /\ recorded' = {} /\ outdated' = {}
    /\ Ok("all") /\ NoFault
    /\ UNCHANGED <<mode, row, hostVars, procVars, cmdVars>>

DropRow ==
    /\ Runs("all", {"dropRow"})
    /\ row' = None /\ booted' = FALSE
    /\ Ok("all") /\ NoFault
    /\ UNCHANGED <<mode, recorded, outdated, inst, cached, procVars, cmdVars>>

-----------------------------------------------------------------------------
Command ==
    \/ NextStage \/ End
    \/ Other \/ LogStart \/ LogProbe \/ LogStop \/ Bootstrap \/ Topology
    \/ DropRecords \/ DropRow
    \/ \E n \in Nodes : Upload(n) \/ TxStart(n) \/ TxStop(n) \/ RmDir(n) \/ FailoverOp(n)
    \/ \E h \in DssHosts : DssStarts(h) \/ DssStops(h)
    \/ \E t \in TxNodes \cup DssHosts : Clean(t)

Operator ==
    DeployOrLaunch \/ Install \/ Start \/ StartNodes \/ Stop \/ StopServices \/ StopNodes \/ Restart
    \/ Failover \/ Remove

Environment ==
    \/ \E n \in Nodes : Elect(n) \/ NodeDies(n) \/ HostReplaced(n)
    \/ \E p \in DssPeers : DssExits(p) \/ DssDies(p)
    \/ LogElects \/ LogExits \/ Crash

Next == Command \/ Operator \/ Environment

\* A command that runs goes on, log members elect leaders, signalled processes
\* end, and an operator whose commands have failed starts the cluster again.
Spec == Init /\ [][Next]_vars /\ WF_vars(Command) /\ WF_vars(Start)
             /\ WF_vars(LogElects) /\ WF_vars(LogExits)

-----------------------------------------------------------------------------
(* Properties                                                              *)

TypeOK ==
    /\ mode \in Modes /\ row \in Nat
    /\ recorded \subseteq Nodes /\ outdated \subseteq Nodes /\ up \subseteq Nodes
    /\ inst \in [Nodes -> Nat] /\ master \in Nodes
    /\ log \in {"down", "up", "ready", "stopping"}
    /\ dss \in [DssPeers -> {"down", "up", "stopping"}]
    /\ cached \subseteq Nodes \cup DssPeers /\ booted \in BOOLEAN
    /\ failed \in BOOLEAN /\ commands \in Nat /\ faults \in Nat

\* A start, launch or restart that ends without an error leaves every process
\* it was asked for running, unless it died meanwhile: also after an earlier
\* command that crashed or failed half-way.
StartServes ==
    EndsOk /\ cmd.op \in {"start", "launch", "restart"} =>
        (IF cmd.nodes = {} THEN Nodes ELSE cmd.nodes) \ up \subseteq died

\* A full start, launch or restart launches tx processes only on a log service
\* that has its leaders (or is still going down from an earlier stop), and
\* launch only once the cluster is bootstrapped.
TxOnLog ==
    [][\A n \in up' \ up : cmd.nodes = {} =>
         /\ log \in {"ready", "stopping"} \/ "log" \in died
         /\ cmd.op = "launch" => booted \/ SkipBootstrap]_vars

\* A stop --force of the whole cluster takes the log service and the data store
\* service away, and reports success, only when no tx process is left, whatever
\* died or failed meanwhile.  The exceptions are --nodes and --tx false, which
\* stop the services under tx processes that they were not asked to stop.
ForcedStopOrder ==
    cmd.op = "stop" /\ cmd.force /\ cmd.nodes = {}
        /\ (Current \in {"logStop", "dssStop"} \/ EndsOk) => up = {}

\* A running dss_server, also one that was signalled and has not ended, never
\* loses its data to the cleanup of a start, a launch or a restart, when it is
\* the peer listed last on its host; one of the others loses it when that is down.
DssKeepsData == \A h \in DssHosts : dss[LastPeer[h]] # "down" => LastPeer[h] \in cached

\* EloqStoreDataCleanTask::execute: "DSS server is running, skip data directory
\* cleanup" - whichever peer it is.
RunningDssKeepsData == \A p \in DssPeers : dss[p] # "down" => p \in cached

\* The help of stop: "With --nodes, stops only the specified existing EloqKV
\* node(s)", hence no process of the data store service.
StopsOnlyTheNodes ==
    [][\A p \in DssPeers : dss[p] = "up" /\ dss'[p] = "stopping" => cmd.nodes = {}]_vars

\* A cluster that is not in the index has no task records, wherever a remove
\* crashed: deploying one of the same name cannot skip an upload for them.
NoOrphanRecords == row = None => recorded = {}

\* deploy and launch report success only when every host has the version they
\* were asked for; excepted are recorded hosts that were replaced, cleaned by
\* a remove that did not finish, or deployed with another version.
DeployOkInstalled ==
    EndsOk /\ cmd.op \in {"deploy", "launch"} => \A h \in Nodes \ outdated : inst[h] = row

\* Once the cluster is installed, repeating start brings every process up,
\* whatever failed before.
Installed == row # None /\ \A n \in Nodes : inst[n] # None
StartConverges == Installed ~> (Nodes \subseteq up \/ ~Installed)

\* doc/backup_and_dump_tools.md: "Use `eloqctl stop ${cluster_name} --all` to
\* stop the cluster first": a plain stop that reports success has stopped it.
StopStops == EndsOk /\ cmd.op = "stop" /\ cmd.nodes = {} => up = {}
=============================================================================
