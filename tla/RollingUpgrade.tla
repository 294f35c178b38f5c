--------------------------- MODULE RollingUpgrade ---------------------------
(***************************************************************************)
(* `eloqctl update`: the steps of build_upgrade_steps, executed one after  *)
(* the other against a live cluster.  A cluster without standbys           *)
(*   upload, stoptx, stoplog, startlog, starttx, verify                    *)
(* is stopped as a whole and started again.  One with standbys:            *)
(*   upload    the new binaries are put on every node                      *)
(*   select    one connected replica per connected master                  *)
(*   selected  those replicas are restarted, one after the other           *)
(*   failover  a new look at the topology decides who must switch          *)
(*   topology, switch, master   FAILOVER per pair and the wait for it      *)
(*   stoplog, startlog          the log service is restarted               *)
(*   others    every other node is restarted, one after the other          *)
(*   verify    the version of the binary on disk                           *)
(* A restart is stop, start and a wait for the node.  Failing waits and a  *)
(* failing topology task are reported as success; every other failure, and *)
(* an interrupt of eloqctl, aborts.  A new run starts from the beginning,  *)
(* behind the health gate.                                                 *)
(***************************************************************************)
EXTENDS EloqCluster

CONSTANTS HasStandby, \* the kinds of deployment: with standbys, without
          SkipLog,    \* --skip-log-restart, or no log service
          MaxFaults,  \* bound on aborting failures and interrupts
          MayStall,   \* whether waits may time out on a slow cluster, and topology tasks fail
          MayRepair   \* whether the operator runs `eloqctl start` after an abort

ASSUME UpgradeAssumption ==
    /\ HasStandby \subseteq BOOLEAN
    /\ SkipLog \in BOOLEAN
    /\ MaxFaults \in Nat
    /\ MayStall \in BOOLEAN
    /\ MayRepair \in BOOLEAN

VARIABLES
    standby,  \* whether the deployment has standbys
    step,     \* the step of the run
    todo,     \* the nodes the step still has to handle
    cur,      \* the node being restarted
    act,      \* what happens to it next
    temp,     \* temporary_leader_nodes
    pairs,    \* the failover tasks still to run, as <<old leader, new leader>>
    snap,     \* the topology the failover tasks received
    err,      \* whether a failover task failed
    disk,     \* the nodes whose disk has the new binary
    new,      \* the nodes that run the new binary
    logUp,    \* whether the log service runs
    faults,   \* faults so far
    excused,  \* history: this run began on an unsettled cluster, met a soft failure, or
              \* leadership moved unasked
    killed    \* history: this run stopped a node that led its group

runVars == <<step, todo, cur, act, temp, pairs, snap, err, disk, new, logUp,
             standby, faults, excused, killed>>
vars == <<clusterVars, runVars>>

Idle == {"idle", "aborted", "done"}
Restarting == {"selected", "others"}
Steps == Idle \cup Restarting \cup
         {"upload", "select", "failover", "topology", "switch", "master",
          "stoptx", "stoplog", "startlog", "starttx", "verify"}

NoTopology == [masters |-> {}, replicas |-> {}]

TypeOK ==
    /\ ClusterTypeOK /\ LeadersRun
    /\ step \in Steps
    /\ todo \in SUBSET Nodes
    /\ cur \in Nodes \cup {None}
    /\ act \in {"stop", "start", "wait"}
    /\ temp \in SUBSET Nodes
    /\ pairs \in SUBSET (Nodes \X Nodes)
    /\ snap \in [masters : SUBSET Nodes, replicas : SUBSET Nodes]
    /\ err \in BOOLEAN
    /\ disk \in SUBSET Nodes
    /\ new \in SUBSET Nodes
    /\ logUp \in BOOLEAN
    /\ standby \in BOOLEAN
    /\ faults \in 0..MaxFaults
    /\ excused \in BOOLEAN
    /\ killed \in BOOLEAN

Init ==
    /\ ClusterInit
    /\ standby \in HasStandby
    /\ step = "idle"
    /\ todo = {} /\ cur = None /\ act = "stop"
    /\ temp = {} /\ pairs = {} /\ snap = NoTopology /\ err = FALSE
    /\ disk = {} /\ new = {} /\ logUp = TRUE
    /\ faults = 0 /\ excused = FALSE /\ killed = FALSE

\* The run stops where it is.
Abort ==
    /\ step' = "aborted"
    /\ todo' = {} /\ cur' = None /\ act' = "stop"
    /\ temp' = {} /\ pairs' = {} /\ snap' = NoTopology /\ err' = FALSE

Fault == faults < MaxFaults /\ faults' = faults + 1

\* The cluster has nothing left to do: a wait that is not satisfied now never is,
\* and gives up after its last retry.
Quiet ==
    /\ \A n \in Nodes : proc[n] # "joining"
    /\ \A g \in Groups : handover[g] = None
    /\ \A g \in Groups : leader[g] # None \/ \A n \in Members(g) : ~Connected(n)

(***************************************************************************)
(* The start of a run                                                      *)
(***************************************************************************)

\* Fault: a cluster that runs two versions is refused.
HealthyUniform == logUp /\ (\A n \in Nodes : proc[n] # "down") /\ new \in {{}, Nodes}

\* ensure_critical_services_healthy: every node answers PING, which it may do
\* before its peers count it as connected, and the log service runs.
Healthy == logUp /\ \A n \in Nodes : proc[n] # "down"

Begin ==
    /\ step \in {"idle", "aborted"}
    /\ Healthy
    /\ step' = "upload"
    /\ excused' = ((\E g \in Groups : handover[g] # None) \/ \E n \in Nodes : ~Connected(n))
    /\ killed' = FALSE
    /\ UNCHANGED <<clusterVars, todo, cur, act, temp, pairs, snap, err, disk, new, logUp, standby, faults>>

\* DownloadAndExtract and UploadToAllNodes.
Upload ==
    /\ step = "upload"
    /\ disk' = Nodes
    /\ step' = IF standby THEN "select" ELSE "stoptx"
    /\ todo' = IF standby THEN {} ELSE Nodes
    /\ UNCHANGED <<clusterVars, cur, act, temp, pairs, snap, err, new, logUp, standby, faults, excused, killed>>

\* Some hosts got the new binary before the upload failed.
UploadFails ==
    /\ step = "upload"
    /\ Fault
    /\ \E S \in SUBSET Nodes : disk' = disk \cup S
    /\ Abort
    /\ UNCHANGED <<clusterVars, new, logUp, standby, excused, killed>>

(***************************************************************************)
(* SelectStandbyForFailover                                                *)
(***************************************************************************)

\* select_connected_failover_targets: a replica of its own for every master.
Choices == {f \in [Masters -> Replicas] : \A m \in Masters : GroupOf[f[m]] = GroupOf[m]}

\* Fault: the temporary leaders are restarted again with the other nodes.
RestartAllNodes == Nodes

\* The nodes RestartNonLeaderNodes will restart: all but the temporary leaders.
RestartNodes == Nodes \ temp

\* A group whose master is not connected at this moment gets no temporary leader.
Select ==
    /\ step = "select"
    /\ Masters # {}
    /\ \E f \in Choices : temp' = {f[m] : m \in Masters}
    /\ todo' = temp'
    /\ step' = "selected"
    /\ excused' = (excused \/ \E g \in Groups : leader[g] = None)
    /\ UNCHANGED <<clusterVars, cur, act, pairs, snap, err, disk, new, logUp, standby, faults, killed>>

SelectFails ==
    /\ step = "select"
    /\ Masters = {} \/ Choices = {}
    /\ Abort
    /\ UNCHANGED <<clusterVars, disk, new, logUp, standby, faults, excused, killed>>

(***************************************************************************)
(* build_restart_nodes_sequence_ctx: stop, start and wait for each node    *)
(***************************************************************************)

StopNode ==
    /\ step \in Restarting /\ act = "stop"
    /\ \E n \in todo :
        /\ KillNode(n)
        /\ killed' = (killed \/ leader[GroupOf[n]] = n)
        /\ cur' = n
        /\ todo' = todo \ {n}
        /\ new' = new \ {n}
    /\ act' = "start"
    /\ UNCHANGED <<step, temp, pairs, snap, err, disk, logUp, standby, faults, excused>>

\* ssh fails, or the ports are not released in time.
StopFails ==
    /\ step \in Restarting /\ act = "stop"
    /\ Fault
    /\ \E n \in todo :
        \/ KillNode(n) /\ new' = new \ {n} /\ killed' = (killed \/ leader[GroupOf[n]] = n)
        \/ UNCHANGED <<clusterVars, new, killed>>
    /\ Abort
    /\ UNCHANGED <<disk, logUp, standby, excused>>

\* Fault: the binary is not replaced when the node is started.
StartOldBinary ==
    /\ step \in Restarting /\ act = "start"
    /\ LaunchNode(cur)
    /\ act' = "wait"
    /\ UNCHANGED <<step, todo, cur, temp, pairs, snap, err, disk, new, logUp, standby, faults, excused, killed>>

\* The process is launched from the binary on disk and its ports listen.
StartNode ==
    /\ step \in Restarting /\ act = "start"
    /\ LaunchNode(cur)
    /\ new' = IF cur \in disk THEN new \cup {cur} ELSE new
    /\ act' = "wait"
    /\ UNCHANGED <<step, todo, cur, temp, pairs, snap, err, disk, logUp, standby, faults, excused, killed>>

\* The process does not come up, or its ports do not listen in time.
StartFails ==
    /\ step \in Restarting /\ act = "start"
    /\ Fault
    /\ \/ LaunchNode(cur) /\ new' = IF cur \in disk THEN new \cup {cur} ELSE new
       \/ UNCHANGED <<clusterVars, new>>
    /\ Abort
    /\ UNCHANGED <<disk, logUp, standby, excused, killed>>

\* WaitNodeReadyTask: the node is connected and the cluster has a master.
NodeReady == Connected(cur) /\ Masters # {}

WaitNode ==
    /\ step \in Restarting /\ act = "wait"
    /\ NodeReady
    /\ act' = "stop" /\ cur' = None
    /\ UNCHANGED <<clusterVars, step, todo, temp, pairs, snap, err, disk, new, logUp, standby, faults, excused, killed>>

\* After the last retry the task reports CMD_STATUS 1 inside Ok: a success.
WaitNodeTimesOut ==
    /\ step \in Restarting /\ act = "wait"
    /\ MayStall \/ Quiet
    /\ ~NodeReady
    /\ act' = "stop" /\ cur' = None
    /\ excused' = TRUE
    /\ UNCHANGED <<clusterVars, step, todo, temp, pairs, snap, err, disk, new, logUp, standby, faults, killed>>

EndRestarts ==
    /\ step \in Restarting /\ act = "stop" /\ todo = {}
    /\ step' = IF step = "selected" THEN "failover" ELSE "verify"
    /\ UNCHANGED <<clusterVars, todo, cur, act, temp, pairs, snap, err, disk, new, logUp, standby, faults, excused, killed>>

(***************************************************************************)
(* FailoverToStandby                                                       *)
(***************************************************************************)

\* The temporary leaders that do not lead yet, and whether each can take over.
Followers == temp \ Masters
CanTakeOver(t) == t \in Replicas /\ leader[GroupOf[t]] \in Masters

\* The pairs are built from a fresh topology; when every temporary leader leads
\* already only the wait is left.
BuildFailover ==
    /\ step = "failover"
    /\ Masters # {}
    /\ \A t \in Followers : CanTakeOver(t)
    /\ pairs' = {<<leader[GroupOf[t]], t>> : t \in Followers}
    /\ todo' = IF Followers = {} THEN temp ELSE Followers
    /\ step' = IF Followers = {} THEN "master" ELSE "topology"
    /\ UNCHANGED <<clusterVars, cur, act, temp, snap, err, disk, new, logUp, standby, faults, excused, killed>>

BuildFailoverFails ==
    /\ step = "failover"
    /\ Masters = {} \/ \E t \in Followers : ~CanTakeOver(t)
    /\ Abort
    /\ UNCHANGED <<clusterVars, disk, new, logUp, standby, faults, excused, killed>>

\* The topology task of the step sends what it saw to the failover tasks.
ReadTopology ==
    /\ step = "topology"
    /\ Masters # {}
    /\ snap' = [masters |-> Masters, replicas |-> Replicas]
    /\ step' = "switch"
    /\ UNCHANGED <<clusterVars, todo, cur, act, temp, pairs, err, disk, new, logUp, standby, faults, excused, killed>>

\* A topology task that got no answer reports success and sends nothing.
ReadTopologyFails ==
    /\ step = "topology"
    /\ MayStall \/ Masters = {}
    /\ step' = "switch"
    /\ excused' = TRUE
    /\ UNCHANGED <<clusterVars, todo, cur, act, temp, pairs, snap, err, disk, new, logUp, standby, faults, killed>>

\* FailoverOpTask for one pair.  An old leader the snapshot does not call a
\* master needs no failover; a target that is not its replica is an error, and
\* so is a FAILOVER the old leader does not accept.
Switch(p) ==
    LET old == p[1]  target == p[2]  g == GroupOf[p[2]] IN
    /\ step = "switch"
    /\ pairs' = pairs \ {p}
    /\ \/ /\ old \notin snap.masters
          /\ UNCHANGED <<err, handover, faults>>
       \/ /\ old \in snap.masters
          /\ target \notin snap.replicas
          /\ err' = TRUE
          /\ UNCHANGED <<handover, faults>>
       \/ /\ old \in snap.masters /\ target \in snap.replicas
          /\ leader[g] = old /\ Connected(old)
          /\ handover' = [handover EXCEPT ![g] = target]
          /\ UNCHANGED <<err, faults>>
       \/ /\ old \in snap.masters /\ target \in snap.replicas
          /\ IF leader[g] = old /\ Connected(old) THEN Fault ELSE UNCHANGED faults
          /\ err' = TRUE
          /\ UNCHANGED handover
    /\ UNCHANGED <<proc, leader, step, todo, cur, act, temp, snap, disk, new, logUp, standby, excused, killed>>

SwitchesJoined ==
    /\ step = "switch" /\ pairs = {} /\ ~err
    /\ step' = "master"
    /\ UNCHANGED <<clusterVars, todo, cur, act, temp, pairs, snap, err, disk, new, logUp, standby, faults, excused, killed>>

SwitchesFailed ==
    /\ step = "switch" /\ pairs = {} /\ err
    /\ Abort
    /\ UNCHANGED <<clusterVars, disk, new, logUp, standby, faults, excused, killed>>

\* WaitNodeReadyTask with require_master.
WaitMaster(t) ==
    /\ step = "master" /\ t \in todo /\ t \in Masters
    /\ todo' = todo \ {t}
    /\ UNCHANGED <<clusterVars, step, cur, act, temp, pairs, snap, err, disk, new, logUp, standby, faults, excused, killed>>

\* Again a success for the step.
WaitMasterTimesOut(t) ==
    /\ step = "master" /\ t \in todo /\ t \notin Masters
    /\ MayStall \/ Quiet
    /\ todo' = todo \ {t}
    /\ excused' = TRUE
    /\ UNCHANGED <<clusterVars, step, cur, act, temp, pairs, snap, err, disk, new, logUp, standby, faults, killed>>

EndFailover ==
    /\ step = "master" /\ todo = {}
    /\ step' = IF SkipLog THEN "others" ELSE "stoplog"
    /\ todo' = IF SkipLog THEN RestartNodes ELSE {}
    /\ UNCHANGED <<clusterVars, cur, act, temp, pairs, snap, err, disk, new, logUp, standby, faults, excused, killed>>

(***************************************************************************)
(* StopTxNodes and StartTx of a deployment without standbys: the tasks of  *)
(* all nodes run at the same time, and nothing asks for the topology.      *)
(***************************************************************************)

\* A stop that fails has killed the process or not.
StopTx(n) ==
    /\ step = "stoptx" /\ n \in todo
    /\ todo' = todo \ {n}
    /\ \/ KillNode(n) /\ new' = new \ {n} /\ UNCHANGED <<err, faults>>
       \/ KillNode(n) /\ new' = new \ {n} /\ Fault /\ err' = TRUE
       \/ Fault /\ err' = TRUE /\ UNCHANGED <<clusterVars, new>>
    /\ UNCHANGED <<step, cur, act, temp, pairs, snap, disk, logUp, standby, excused, killed>>

StartTx(n) ==
    /\ step = "starttx" /\ n \in todo
    /\ todo' = todo \ {n}
    /\ \/ /\ LaunchNode(n)
          /\ new' = IF n \in disk THEN new \cup {n} ELSE new
          /\ UNCHANGED <<err, faults>>
       \/ Fault /\ err' = TRUE /\ UNCHANGED <<clusterVars, new>>
    /\ UNCHANGED <<step, cur, act, temp, pairs, snap, disk, logUp, standby, excused, killed>>

EndTx ==
    /\ step \in {"stoptx", "starttx"} /\ todo = {}
    /\ \/ err /\ Abort
       \/ /\ ~err
          /\ step' = IF step = "starttx" THEN "verify" ELSE IF SkipLog THEN "starttx" ELSE "stoplog"
          /\ todo' = IF step' = "starttx" THEN Nodes ELSE {}
          /\ UNCHANGED <<cur, act, temp, pairs, snap, err>>
    /\ UNCHANGED <<clusterVars, disk, new, logUp, standby, faults, excused, killed>>

(***************************************************************************)
(* StopLog, StartLogAndWait, VerifyVersion and the end                     *)
(***************************************************************************)

StopLog ==
    /\ step = "stoplog"
    /\ logUp' = FALSE
    /\ step' = "startlog"
    /\ UNCHANGED <<clusterVars, todo, cur, act, temp, pairs, snap, err, disk, new, standby, faults, excused, killed>>

StartLogAndWait ==
    /\ step = "startlog"
    /\ logUp' = TRUE
    /\ step' = IF standby THEN "others" ELSE "starttx"
    /\ todo' = IF standby THEN RestartNodes ELSE Nodes
    /\ UNCHANGED <<clusterVars, cur, act, temp, pairs, snap, err, disk, new, standby, faults, excused, killed>>

VerifyVersion ==
    /\ step = "verify"
    /\ step' = "done"
    /\ UNCHANGED <<clusterVars, todo, cur, act, temp, pairs, snap, err, disk, new, logUp, standby, faults, excused, killed>>

\* eloqctl is interrupted, or a task of the step fails before it changes anything.
Interrupt ==
    /\ step \notin Idle
    /\ Fault
    /\ Abort
    /\ UNCHANGED <<clusterVars, disk, new, logUp, standby, excused, killed>>

\* The operator runs `eloqctl start`: whatever does not run is started.
Repair ==
    /\ MayRepair /\ step = "aborted"
    /\ ~logUp \/ \E n \in Nodes : proc[n] = "down"
    /\ proc' = [n \in Nodes |-> IF proc[n] = "down" THEN "joining" ELSE proc[n]]
    /\ new' = new \cup {n \in disk : proc[n] = "down"}
    /\ logUp' = TRUE
    /\ UNCHANGED <<leader, handover, step, todo, cur, act, temp, pairs, snap, err, disk, standby, faults, excused, killed>>

(***************************************************************************)
(* The specification                                                       *)
(***************************************************************************)

\* A handover does what the run asked for; an election or a move does not.
NodeJoins(n) == Join(n) /\ UNCHANGED runVars
GroupHandsOver(g) == Handover(g) /\ UNCHANGED runVars

Unasked ==
    /\ excused' = TRUE
    /\ UNCHANGED <<step, todo, cur, act, temp, pairs, snap, err, disk, new, logUp, standby, faults, killed>>

GroupElects(g) == Elect(g) /\ Unasked
GroupMoves(g) == Move(g) /\ Unasked

ClusterStep ==
    \/ \E n \in Nodes : NodeJoins(n)
    \/ \E g \in Groups : GroupHandsOver(g) \/ GroupElects(g) \/ GroupMoves(g)

Ended == step \in {"done", "aborted"} /\ UNCHANGED vars

Advance ==
    \/ Upload \/ Select \/ SelectFails
    \/ StopNode \/ StartNode \/ WaitNode \/ WaitNodeTimesOut \/ EndRestarts
    \/ BuildFailover \/ BuildFailoverFails \/ ReadTopology \/ ReadTopologyFails
    \/ \E p \in pairs : Switch(p)
    \/ SwitchesJoined \/ SwitchesFailed
    \/ \E t \in Nodes : WaitMaster(t) \/ WaitMasterTimesOut(t)
    \/ \E n \in todo : StopTx(n) \/ StartTx(n)
    \/ EndTx
    \/ EndFailover \/ StopLog \/ StartLogAndWait \/ VerifyVersion

Next ==
    \/ Begin \/ Advance
    \/ UploadFails \/ StopFails \/ StartFails \/ Interrupt
    \/ Repair
    \/ ClusterStep
    \/ Ended

Spec == Init /\ [][Next]_vars

\* The runner goes on, every wait gives up in the end, the operator retries, and
\* the servers join, elect and hand over.  Faults and moves are never owed.
Fairness ==
    /\ WF_vars(Begin) /\ WF_vars(Advance) /\ WF_vars(Repair)
    /\ \A n \in Nodes : WF_vars(NodeJoins(n))
    /\ \A g \in Groups : WF_vars(GroupHandsOver(g)) /\ WF_vars(GroupElects(g))

FairSpec == Spec /\ Fairness

(***************************************************************************)
(* Properties                                                              *)
(***************************************************************************)

\* A run that completed left no process on the old binary, whatever timed out
\* on the way and wherever leadership went (temporary_leader_nodes and
\* restart_nodes cover the cluster between them).
DoneMeansUpgraded == step = "done" => new = Nodes

\* A node is stopped while it leads its group only in a run that began on an
\* unsettled cluster, met a soft failure or a leadership change it did not ask
\* for (FailoverToStandby before RestartNonLeaderNodes).
LeaderKilledOnlyIfExcused == standby /\ killed => excused

\* A group that was given a temporary leader always has a connected node, even
\* when waits time out: the first restarts spare the master the selection saw,
\* and the temporary leader is up for the second ones.  In a run that nothing
\* excuses nodes go down one at a time, across both restart steps and repeated
\* runs (build_restart_nodes_sequence_ctx).
GroupServed ==
    /\ \A g \in Groups :
        (temp \cap Members(g) # {}) /\ Cardinality(Members(g)) > 1
            => \E n \in Members(g) : Connected(n)
    /\ standby /\ ~excused /\ step \notin Idle
            => Cardinality({n \in Nodes : ~Connected(n)}) <= 1

\* A FAILOVER that an earlier run asked for takes effect in this one.
LateHandover(g) ==
    /\ Handover(g)
    /\ step \notin Idle
    /\ step \notin {"switch", "master"} \/ \E p \in pairs : GroupOf[p[2]] = g

\* A step by which the cluster lets a run down without having to: leadership
\* moves unasked or a run too late, or a wait or a topology task gives up on a
\* slow answer.
LetDown ==
    \/ \E g \in Groups : Move(g) \/ LateHandover(g)
    \/ ReadTopologyFails /\ Masters # {}
    \/ ~Quiet /\ (WaitNodeTimesOut \/ \E t \in Nodes : WaitMasterTimesOut(t))

\* "A retry must converge toward the requested state": once an update has been
\* aborted, an operator who starts what is down and retries completes it in the
\* end, wherever the run stopped, unless the cluster lets runs down for ever
\* (RollingUpgrade::execute behind ensure_critical_services_healthy).
RetryConverges ==
    []<><<LetDown>>_vars \/ (step = "aborted" ~> step = "done")
=============================================================================
