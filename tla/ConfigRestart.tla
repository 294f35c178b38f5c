--------------------------- MODULE ConfigRestart ---------------------------
(***************************************************************************)
(* `eloqctl update-conf --restart`: the steps of                           *)
(* build_config_restart_steps against a live cluster whose nodes have      *)
(* already got the new configuration file.                                 *)
(*   standby   every connected replica is stopped                          *)
(*   build     a new look at the topology picks the masters to stop        *)
(*   topology, switch, stop   FAILOVER for each of them, then stop         *)
(*   start     the stopped masters are started                             *)
(*   look, wait   the wait for them to be replicas of the new master       *)
(***************************************************************************)
EXTENDS EloqCluster

CONSTANTS MaxFaults,   \* bound on aborting failures
          MayStall     \* whether a wait or a topology task may fail softly

ASSUME RestartAssumption ==
    /\ MaxFaults \in Nat
    /\ MayStall \in BOOLEAN

VARIABLES
    standbys, \* whether the deployment has standby nodes
    step,     \* the step of the run
    first,    \* first_batch_nodes
    second,   \* second_batch_nodes
    todo,     \* the nodes whose task of this step has still to run
    snap,     \* the topology the failover tasks received
    err,      \* whether a task of this step failed
    conf,     \* the nodes that run with the new configuration
    faults,   \* faults so far
    spare     \* history: a replica was connected when the masters were picked

runVars == <<standbys, step, first, second, todo, snap, err, conf, faults, spare>>
restartVars == <<clusterVars, runVars>>

Over == {"done", "aborted"}
NoTopology == [masters |-> {}, replicas |-> {}]

RestartTypeOK ==
    /\ ClusterTypeOK
    /\ standbys \in BOOLEAN
    /\ step \in Over \cup {"standby", "stopping", "build", "topology", "switch", "stop",
                           "start", "look", "wait"}
    /\ first \in SUBSET Nodes
    /\ second \in SUBSET Nodes
    /\ todo \in SUBSET Nodes
    /\ snap \in [masters : SUBSET Nodes, replicas : SUBSET Nodes]
    /\ err \in BOOLEAN
    /\ conf \in SUBSET Nodes
    /\ faults \in 0..MaxFaults
    /\ spare \in BOOLEAN

\* The gate let the command through: every node answers, though its peers may
\* not count it as connected yet.
RestartInit ==
    /\ proc \in [Nodes -> {"joining", "connected"}]
    /\ leader \in [Groups -> Nodes \cup {None}]
    /\ LeadersRun
    /\ handover = [g \in Groups |-> None]
    /\ standbys \in BOOLEAN
    /\ step = "standby"
    /\ first = {} /\ second = {} /\ todo = {}
    /\ snap = NoTopology /\ err = FALSE
    /\ conf = {} /\ faults = 0 /\ spare = FALSE

Abort == step' = "aborted" /\ todo' = {}
Fault == faults < MaxFaults /\ faults' = faults + 1

\* StopStandbyOnly::build: every connected replica goes into the first batch.
PickStandbys ==
    /\ step = "standby" /\ standbys
    /\ IF Masters # {} /\ Replicas # {}
       THEN step' = "stopping" /\ first' = Replicas /\ todo' = Replicas
       ELSE Abort /\ UNCHANGED first
    /\ UNCHANGED <<standbys, clusterVars, second, snap, err, conf, faults, spare>>

\* Without standbys the step is empty and all tx nodes are stopped at once.
PickTxNodes ==
    /\ step = "standby" /\ ~standbys
    /\ step' = "stop" /\ todo' = Nodes
    /\ UNCHANGED <<standbys, clusterVars, first, second, snap, err, conf, faults, spare>>

\* One stop task; a failing one leaves the process running or not.
Stop(n) ==
    /\ step \in {"stopping", "stop"} /\ n \in todo
    /\ todo' = todo \ {n}
    /\ \/ KillNode(n) /\ conf' = conf \ {n} /\ UNCHANGED <<err, faults>>
       \/ Fault /\ err' = TRUE /\ UNCHANGED <<clusterVars, conf>>
    /\ UNCHANGED <<standbys, step, first, second, snap, spare>>

StopsJoined ==
    /\ step \in {"stopping", "stop"} /\ todo = {}
    /\ IF err
       THEN Abort
       ELSE /\ step' = IF step = "stopping" THEN "build" ELSE "start"
            /\ todo' = IF step = "stopping" THEN {} ELSE IF standbys THEN second ELSE Nodes
    /\ UNCHANGED <<standbys, clusterVars, first, second, snap, err, conf, faults, spare>>

\* Fault: the masters are picked whether or not a replica is connected.
PickMastersAlone ==
    /\ step = "build"
    /\ IF Masters # {}
       THEN /\ step' = "topology" /\ second' = Masters
            /\ spare' = (Replicas # {})
            /\ UNCHANGED todo
       ELSE Abort /\ UNCHANGED <<second, spare>>
    /\ UNCHANGED <<standbys, clusterVars, first, snap, err, conf, faults>>

\* FailoverAndStopOldMaster::build.
PickMasters ==
    /\ step = "build"
    /\ IF Masters # {} /\ Replicas # {}
       THEN /\ step' = "topology" /\ second' = Masters
            /\ spare' = TRUE
            /\ UNCHANGED todo
       ELSE Abort /\ UNCHANGED <<second, spare>>
    /\ UNCHANGED <<standbys, clusterVars, first, snap, err, conf, faults>>

\* The topology task; when it fails it reports success and sends nothing.
ReadTopology ==
    /\ step = "topology"
    /\ step' = "switch" /\ todo' = second
    /\ \/ Masters # {} /\ snap' = [masters |-> Masters, replicas |-> Replicas]
       \/ (MayStall \/ Masters = {}) /\ UNCHANGED snap
    /\ UNCHANGED <<standbys, clusterVars, first, second, err, conf, faults, spare>>

\* FailoverOpTask without a target: any connected replica of the snapshot, of
\* whatever group; the servers accept a member of the group only.
Switch(m) ==
    /\ step = "switch" /\ m \in todo
    /\ todo' = todo \ {m}
    /\ \/ /\ m \notin snap.masters
          /\ UNCHANGED <<err, handover, faults>>
       \/ /\ m \in snap.masters /\ snap.replicas = {}
          /\ err' = TRUE
          /\ UNCHANGED <<handover, faults>>
       \/ \E t \in snap.replicas :
          /\ m \in snap.masters
          /\ IF leader[GroupOf[m]] = m /\ GroupOf[t] = GroupOf[m]
             THEN \/ handover' = [handover EXCEPT ![GroupOf[m]] = t] /\ UNCHANGED <<err, faults>>
                  \/ Fault /\ err' = TRUE /\ UNCHANGED handover
             ELSE err' = TRUE /\ UNCHANGED <<handover, faults>>
    /\ UNCHANGED <<standbys, proc, leader, step, first, second, snap, conf, spare>>

\* There is no wait between FAILOVER and the stop of the old master.
SwitchesJoined ==
    /\ step = "switch" /\ todo = {}
    /\ IF err THEN Abort ELSE step' = "stop" /\ todo' = second
    /\ UNCHANGED <<standbys, clusterVars, first, second, snap, err, conf, faults, spare>>

\* StartTx: the second batch, or all tx nodes of a deployment without standbys.
Start(n) ==
    /\ step = "start" /\ n \in todo
    /\ todo' = todo \ {n}
    /\ \/ LaunchNode(n) /\ conf' = conf \cup {n} /\ UNCHANGED <<err, faults>>
       \/ Fault /\ err' = TRUE /\ UNCHANGED <<clusterVars, conf>>
    /\ UNCHANGED <<standbys, step, first, second, snap, spare>>

\* Fault: the step is left before its tasks have run.
LeaveStartEarly ==
    /\ step = "start"
    /\ IF err THEN Abort ELSE step' = (IF standbys THEN "look" ELSE "done") /\ todo' = {}
    /\ UNCHANGED <<standbys, clusterVars, first, second, snap, err, conf, faults, spare>>

StartsJoined ==
    /\ step = "start" /\ todo = {}
    /\ IF err THEN Abort ELSE step' = (IF standbys THEN "look" ELSE "done") /\ todo' = {}
    /\ UNCHANGED <<standbys, clusterVars, first, second, snap, err, conf, faults, spare>>

\* WaitTxReplicaReady::build needs a current master.
LookForMaster ==
    /\ step = "look"
    /\ IF Masters # {} THEN step' = "wait" /\ todo' = second ELSE Abort
    /\ UNCHANGED <<standbys, clusterVars, first, second, snap, err, conf, faults, spare>>

\* WaitReplicaReadyTask: satisfied, or out of retries, which is a success too.
WaitReplica(n) ==
    /\ step = "wait" /\ n \in todo
    /\ todo' = todo \ {n}
    /\ UNCHANGED <<standbys, clusterVars, step, first, second, snap, err, conf, faults, spare>>

Complete ==
    /\ step = "wait" /\ todo = {}
    /\ step' = "done"
    /\ UNCHANGED <<standbys, clusterVars, first, second, todo, snap, err, conf, faults, spare>>

Advance ==
    \/ PickStandbys \/ PickTxNodes \/ StopsJoined \/ PickMasters \/ ReadTopology
    \/ SwitchesJoined \/ StartsJoined \/ LookForMaster \/ Complete
    \/ \E n \in Nodes : Stop(n) \/ Switch(n) \/ Start(n) \/ WaitReplica(n)

ClusterStep ==
    /\ \/ \E n \in Nodes : Join(n)
       \/ \E g \in Groups : Elect(g) \/ Handover(g) \/ Move(g)
    /\ UNCHANGED runVars

RestartEnded == step \in Over /\ UNCHANGED restartVars

RestartNext == Advance \/ ClusterStep \/ RestartEnded

RestartSpec == RestartInit /\ [][RestartNext]_restartVars

(***************************************************************************)
(* Properties                                                              *)
(***************************************************************************)

\* With standbys, a node of the second batch is taken down only in a run that
\* found a replica connected after it had stopped the first batch
\* (FailoverAndStopOldMaster refuses otherwise, and the masters go on serving).
MasterKeptWithoutReplica ==
    standbys /\ ~spare => \A n \in Nodes : proc[n] = "down" => n \in first

\* A completed run has restarted the nodes it failed over from, each with the
\* new configuration, and there was at least one (StartTx after build_round).
DoneMeansMastersRestarted ==
    step = "done" =>
        /\ (IF standbys THEN second ELSE Nodes) \subseteq conf
        /\ standbys => second # {}

\* "Strategy: restart standby first with new config, then failover, then restart
\* old master": a run in which nothing failed leaves every standby it stopped
\* running again.
StandbysRestarted ==
    step \in Over /\ faults = 0 => \A n \in first : proc[n] # "down"
=============================================================================
