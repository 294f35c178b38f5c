------------------------- MODULE GatedRestartProofs -------------------------
(* `update-conf --restart`: the gate in front of it, which other commands    *)
(* have too, and the restart behind it, for every set of processes and rows, *)
(* every waiting time and every cluster.  The two specifications share       *)
(* nothing but this module.                                                  *)
EXTENDS HealthGate, ConfigRestart, TLAPS

(***************************************************************************)
(* The gate (HealthGate)                                                   *)
(***************************************************************************)

\* A cluster that was observed has evidence in every row from the start.
LEMMA GateInit == Init => GateInv
<1> SUFFICES ASSUME Init PROVE GateInv
    OBVIOUS
<1> USE GateAssumption
<1>1. TypeOK
    BY DEF Init, TypeOK
<1>2. RowInv
    BY DEF Init, RowInv
<1>3. JudgedInv
    BY DEF Init, JudgedInv
<1> QED
    BY <1>1, <1>2, <1>3 DEF GateInv

\* The steps of one status task keep the invariant.
LEMMA RowStepKeeps ==
    ASSUME NEW r \in Rows, GateInv, RowStep(r)
    PROVE  GateInv'
<1> USE GateAssumption
<1> USE DEF GateInv
<1>1. CASE Dial(r)
  <2>1. row' \in [Rows -> {"todo", "missing", "Ok", "Up", "Down", "Unknown", "Error"}]
      BY <1>1 DEF Dial, TypeOK
  <2>2. left' \in [Rows -> 0..(StatusWait + ProbeWait)]
      BY <1>1 DEF Dial, TypeOK, ProbeRetry
  <2>3. answered \subseteq answered' /\ answered' \in SUBSET Rows
      BY <1>1 DEF Dial, TypeOK, ProbeAnswered
  <2>4. TypeOK'
      BY <1>1, <2>1, <2>2, <2>3 DEF Dial, TypeOK
  <2>5. RowInv'
      BY <1>1, <2>3 DEF Dial, TypeOK, RowInv, ProbeAnswered
  <2>6. JudgedInv'
      BY <1>1 DEF Dial, JudgedInv
  <2> QED
      BY <2>4, <2>5, <2>6
<1>2. CASE CheckProcess(r)
  <2> DEFINE up == {p \in Member[r] : cond[p] # "dead"}
  <2>1. up \in SUBSET Procs /\ up \subseteq Member[r]
      OBVIOUS
  <2>2. /\ seen' = seen \cup up
        /\ row' = [row EXCEPT ![r] = IF up # {} THEN "Up" ELSE "Down"]
        /\ UNCHANGED <<use, cond, phase, left, probed, answered, steady>>
        /\ phase = "status" /\ ~Dialled(r)
      BY <1>2 DEF CheckProcess
  <2> HIDE DEF up
  <2>3. TypeOK'
      BY <2>1, <2>2 DEF TypeOK
  <2>4. RowInv'
      BY <2>1, <2>2 DEF TypeOK, RowInv, Dialled
  <2>5. JudgedInv'
      BY <2>2 DEF JudgedInv
  <2> QED
      BY <2>3, <2>4, <2>5
<1>3. CASE SshFails(r)
  <2>1. PICK s \in {"Error", "Unknown"} : row' = [row EXCEPT ![r] = s]
      BY <1>3 DEF SshFails
  <2> QED
      BY <1>3, <2>1 DEF SshFails, TypeOK, RowInv, JudgedInv, Dialled
<1>4. CASE RowLost(r)
    BY <1>4 DEF RowLost, TypeOK, RowInv, JudgedInv, Dialled
<1>5. CASE Reprobe(r)
  <2>1. left' \in [Rows -> 0..(StatusWait + ProbeWait)]
      BY <1>5 DEF Reprobe, TypeOK, ProbeRetry
  <2>2. answered \subseteq answered' /\ answered' \in SUBSET Rows
      BY <1>5 DEF Reprobe, TypeOK, ProbeAnswered
  <2>3. probed' \in SUBSET Reprobed
      BY <1>5 DEF Reprobe, TypeOK
  <2>4. TypeOK'
      BY <1>5, <2>1, <2>2, <2>3 DEF Reprobe, TypeOK
  <2>5. RowInv'
      BY <1>5, <2>2 DEF Reprobe, RowInv, Dialled
  <2>6. JudgedInv'
      BY <1>5 DEF Reprobe, JudgedInv
  <2> QED
      BY <2>4, <2>5, <2>6
<1> QED
    BY <1>1, <1>2, <1>3, <1>4, <1>5 DEF RowStep

\* Every step keeps the invariant: the judgement is where unavailable rows stop.
LEMMA GateStep == GateInv /\ [Next]_vars => GateInv'
<1> SUFFICES ASSUME GateInv, [Next]_vars PROVE GateInv'
    OBVIOUS
<1> USE GateAssumption
<1>1. ASSUME NEW r \in Rows, RowStep(r) PROVE GateInv'
    BY <1>1, RowStepKeeps
<1>2. CASE Judge
  <2>1. left' \in [Rows -> 0..(StatusWait + ProbeWait)]
      BY <1>2 DEF Judge, GateInv, TypeOK
  <2>2. TypeOK'
      BY <1>2, <2>1 DEF Judge, GateInv, TypeOK
  <2>3. RowInv'
      BY <1>2 DEF Judge, GateInv, RowInv, Dialled
  <2>4. JudgedInv'
      BY <1>2 DEF Judge, GateInv, TypeOK, JudgedInv, Observed, Unavailable
  <2> QED
      BY <2>2, <2>3, <2>4 DEF GateInv
<1>3. CASE Pass
    BY <1>3 DEF Pass, GateInv, TypeOK, RowInv, JudgedInv, Dialled
<1>4. CASE InstallDecides
    BY <1>4 DEF InstallDecides, GateInv, TypeOK, RowInv, JudgedInv, Dialled
<1>5. ASSUME NEW p \in Procs, Drift(p) PROVE GateInv'
  <2>1. TypeOK'
    <3>1. PICK c \in Conds : cond' = [cond EXCEPT ![p] = c]
        BY <1>5 DEF Drift
    <3>2. cond' \in [Procs -> Conds]
        BY <3>1 DEF GateInv, TypeOK
    <3>3. steady' = FALSE /\ UNCHANGED <<use, phase, row, left, probed, answered, seen>>
        BY <1>5 DEF Drift
    <3> QED
        BY <3>2, <3>3 DEF GateInv, TypeOK
  <2>2. UNCHANGED <<use, phase, row, left, probed, answered, seen>>
      BY <1>5 DEF Drift
  <2>3. RowInv' /\ JudgedInv'
      BY <2>2 DEF GateInv, RowInv, JudgedInv, Dialled
  <2> QED
      BY <2>1, <2>3 DEF GateInv
<1>6. CASE Ended
    BY <1>6 DEF Ended, vars, GateInv, TypeOK, RowInv, JudgedInv, Dialled
<1>7. CASE UNCHANGED vars
    BY <1>7 DEF vars, GateInv, TypeOK, RowInv, JudgedInv, Dialled
<1> QED
    BY <1>1, <1>2, <1>3, <1>4, <1>5, <1>6, <1>7 DEF Next

\* The inductive invariant of the gate holds in every reachable state.
THEOREM GateInvariant == Spec => []GateInv
<1> QED
    BY GateInit, GateStep, PTL DEF Spec

\* Type correctness of the gate.
THEOREM GateTyping == Spec => []TypeOK
<1>1. GateInv => TypeOK
    BY DEF GateInv
<1> QED
    BY <1>1, GateInvariant, PTL

\* A passed gate has seen every critical service, whatever the processes did
\* meanwhile (ensure_critical_services_healthy).
THEOREM PassedIsSeen == Spec => []PassedMeansSeen
<1>1. GateInv => PassedMeansSeen
    BY DEF GateInv, RowInv, JudgedInv, PassedMeansSeen
<1> QED
    BY <1>1, GateInvariant, PTL

\* No step of a status task makes a row unavailable while every process serves
\* and ssh works: what such a task finds then is read as Ok or Up.
LEMMA SteadyRow ==
    ASSUME NEW r \in Rows, TypeOK, SteadyInv, RowStep(r)
    PROVE  SteadyInv'
<1> USE GateAssumption
<1>1. ASSUME steady PROVE cond[TheProc(r)] = "serving" \/ Role[r] = "log"
  <2>1. Role[r] # "log" => TheProc(r) \in Procs
      BY DEF TheProc
  <2> QED
      BY <1>1, <2>1 DEF SteadyInv
<1>2. CASE Dial(r)
  <2>1. ASSUME steady PROVE row' \in {row, [row EXCEPT ![r] = "Ok"]}
      BY <1>1, <1>2, <2>1 DEF Dial, Dialled, ProbeGivesUp
  <2> QED
      BY <1>2, <2>1 DEF Dial, SteadyInv, TypeOK
<1>3. CASE CheckProcess(r)
  <2>1. ASSUME steady PROVE {p \in Member[r] : cond[p] # "dead"} # {}
    <3>1. PICK p \in Member[r] : TRUE
        OBVIOUS
    <3>2. cond[p] = "serving"
        BY <2>1, <3>1 DEF SteadyInv
    <3> QED
        BY <3>1, <3>2
  <2>2. ASSUME steady PROVE row' = [row EXCEPT ![r] = "Up"]
      BY <1>3, <2>1, <2>2 DEF CheckProcess
  <2> QED
      BY <1>3, <2>2 DEF CheckProcess, SteadyInv, TypeOK
<1>4. CASE SshFails(r)
    BY <1>4 DEF SshFails, SteadyInv
<1>5. CASE RowLost(r)
    BY <1>5 DEF RowLost, SteadyInv
<1>6. CASE Reprobe(r)
    BY <1>6 DEF Reprobe, SteadyInv
<1> QED
    BY <1>2, <1>3, <1>4, <1>5, <1>6 DEF RowStep

\* The gate never refuses a cluster whose processes all serve throughout and
\* whose hosts are reachable (has_errors, unavailable_services).
THEOREM NeverRefusedInVain == Spec => []NoFalseRefusal
<1> USE GateAssumption
<1>1. Init => SteadyInv
    BY DEF Init, SteadyInv
<1>2. TypeOK /\ SteadyInv /\ [Next]_vars => SteadyInv'
  <2> SUFFICES ASSUME TypeOK, SteadyInv, [Next]_vars PROVE SteadyInv'
      OBVIOUS
  <2>1. ASSUME NEW r \in Rows, RowStep(r) PROVE SteadyInv'
      BY <2>1, SteadyRow
  <2>2. CASE Judge
      BY <2>2 DEF Judge, Unavailable, SteadyInv
  <2>3. CASE Pass
      BY <2>3 DEF Pass, SteadyInv
  <2>4. CASE InstallDecides
      BY <2>4 DEF InstallDecides, SteadyInv
  <2>5. ASSUME NEW p \in Procs, Drift(p) PROVE SteadyInv'
      BY <2>5 DEF Drift, SteadyInv
  <2>6. CASE UNCHANGED vars
      BY <2>6 DEF vars, SteadyInv
  <2> QED
      BY <2>1, <2>2, <2>3, <2>4, <2>5, <2>6 DEF Next, Ended
<1>3. SteadyInv => NoFalseRefusal
    BY DEF SteadyInv, NoFalseRefusal
<1> QED
    BY <1>1, <1>2, <1>3, GateTyping, PTL DEF Spec

(***************************************************************************)
(* The restart behind the gate (ConfigRestart)                             *)
(***************************************************************************)

\* The nodes a completed run has to have restarted.
Due == IF standbys THEN second ELSE Nodes

\* The steps behind the second look at the topology.
Picked == {"topology", "switch", "stop", "start", "look", "wait", "done"}

\* With standbys the first batch is stopped first; behind it there is a second
\* batch, picked while a replica was connected.
BatchInv ==
    /\ step \in {"stopping", "build", "topology", "switch", "look", "wait"} => standbys
    /\ step = "standby" => first = {}
    /\ step = "stopping" => todo \subseteq first
    /\ standbys /\ step \in Picked => spare /\ second # {}

\* A node that was to be started and has no task left was started, unless a
\* task failed.
ConfInv ==
    /\ step = "start" => err \/ Due \ todo \subseteq conf
    /\ step \in {"look", "wait", "done"} => Due \subseteq conf

RestartInv == RestartTypeOK /\ BatchInv /\ ConfInv /\ MasterKeptWithoutReplica

\* Before a run nothing is stopped and no batch is picked.
LEMMA RestartBegins == RestartInit => RestartInv
  <1> SUFFICES ASSUME RestartInit PROVE RestartInv
    OBVIOUS
  <1>1. RestartTypeOK
    <2>1. ClusterTypeOK
      <3>1. proc \in [Nodes -> {"down", "joining", "connected"}]
        BY DEF RestartInit
      <3>2. handover \in [Groups -> Nodes \cup {None}]
        BY DEF RestartInit
      <3> QED BY <3>1, <3>2 DEF RestartInit, ClusterTypeOK
    <2>2. faults \in 0..MaxFaults
      BY RestartAssumption DEF RestartInit
    <2>3. snap \in [masters : SUBSET Nodes, replicas : SUBSET Nodes]
      BY DEF RestartInit, NoTopology
    <2> QED BY <2>1, <2>2, <2>3 DEF RestartInit, RestartTypeOK
  <1>2. BatchInv /\ ConfInv
    BY DEF RestartInit, BatchInv, ConfInv, Picked
  <1>3. MasterKeptWithoutReplica
    BY DEF RestartInit, MasterKeptWithoutReplica
  <1> QED BY <1>1, <1>2, <1>3 DEF RestartInv

\* The steps that only look, pick, join or wait.
LEMMA RestartPicks ==
    ASSUME RestartInv,
           \/ PickStandbys \/ PickTxNodes \/ StopsJoined \/ PickMasters
           \/ ReadTopology \/ SwitchesJoined \/ StartsJoined
           \/ LookForMaster \/ Complete \/ (\E n \in Nodes : WaitReplica(n))
           \/ RestartEnded
    PROVE  RestartInv'
  <1> USE DEF RestartInv
  <1>1. /\ UNCHANGED <<proc, leader, handover, standbys, err, conf, faults>>
        /\ Masters \subseteq Nodes /\ Replicas \subseteq Nodes
    BY DEF PickStandbys, PickTxNodes, StopsJoined, PickMasters,
      ReadTopology, SwitchesJoined, StartsJoined, LookForMaster,
      Complete, WaitReplica, RestartEnded, clusterVars, restartVars, runVars,
      Masters, Replicas
  <1>2. ClusterTypeOK'
    BY <1>1 DEF RestartTypeOK, ClusterTypeOK
  <1>3. RestartTypeOK'
    <2>1. /\ step' \in Over \cup {"standby", "stopping", "build", "topology", "switch", "stop",
                                         "start", "look", "wait"}
          /\ spare' \in BOOLEAN
      BY DEF RestartTypeOK, Over, Abort,
        PickStandbys, PickTxNodes, StopsJoined, PickMasters,
        ReadTopology, SwitchesJoined, StartsJoined, LookForMaster,
        Complete, WaitReplica, RestartEnded, restartVars, runVars
    <2>2. first' \subseteq Nodes /\ second' \subseteq Nodes /\ todo' \subseteq Nodes
      BY <1>1 DEF RestartTypeOK, Abort,
        PickStandbys, PickTxNodes, StopsJoined, PickMasters,
        ReadTopology, SwitchesJoined, StartsJoined, LookForMaster,
        Complete, WaitReplica, RestartEnded, restartVars, runVars
    <2>3. snap' \in {snap, [masters |-> Masters, replicas |-> Replicas]}
      BY DEF PickStandbys, PickTxNodes, StopsJoined, PickMasters,
        ReadTopology, SwitchesJoined, StartsJoined, LookForMaster,
        Complete, WaitReplica, RestartEnded, restartVars, runVars
    <2> QED BY <1>1, <1>2, <2>1, <2>2, <2>3 DEF RestartTypeOK
  <1>4. BatchInv'
    BY <1>1 DEF BatchInv, Picked, RestartTypeOK, Abort,
      PickStandbys, PickTxNodes, StopsJoined, PickMasters,
      ReadTopology, SwitchesJoined, StartsJoined, LookForMaster,
      Complete, WaitReplica, RestartEnded, restartVars, runVars
  <1>5. ConfInv'
    BY <1>1 DEF ConfInv, BatchInv, Due, RestartTypeOK, Abort,
      PickStandbys, PickTxNodes, StopsJoined, PickMasters,
      ReadTopology, SwitchesJoined, StartsJoined, LookForMaster,
      Complete, WaitReplica, RestartEnded, restartVars, runVars
  <1>6. MasterKeptWithoutReplica'
    BY <1>1 DEF MasterKeptWithoutReplica, BatchInv,
      PickStandbys, PickTxNodes, StopsJoined, PickMasters,
      ReadTopology, SwitchesJoined, StartsJoined, LookForMaster,
      Complete, WaitReplica, RestartEnded, restartVars, runVars
  <1> QED BY <1>3, <1>4, <1>5, <1>6

\* The faults stay within their bound.
LEMMA RestartFault ==
    ASSUME RestartTypeOK, Fault \/ UNCHANGED faults
    PROVE  faults' \in 0..MaxFaults
  BY RestartAssumption DEF RestartTypeOK, Fault

\* The tasks that change a process or the leadership.
LEMMA RestartStops ==
    ASSUME RestartInv, NEW n \in Nodes, Stop(n)
    PROVE  RestartInv'
  <1> USE DEF RestartInv
  <1>1. /\ step \in {"stopping", "stop"} /\ n \in todo /\ todo' = todo \ {n}
        /\ \/ /\ proc' = [proc EXCEPT ![n] = "down"] /\ UNCHANGED <<handover, err, faults>>
              /\ leader' = [leader EXCEPT ![GroupOf[n]] = IF @ = n THEN None ELSE @]
              /\ conf' = conf \ {n}
           \/ Fault /\ err' = TRUE /\ UNCHANGED <<proc, leader, handover, conf>>
        /\ UNCHANGED <<standbys, step, first, second, snap, spare>>
    BY DEF Stop, KillNode, clusterVars
  <1>2. RestartTypeOK'
    <2>1. proc' \in [Nodes -> {"down", "joining", "connected"}]
      BY <1>1 DEF RestartTypeOK, ClusterTypeOK
    <2>2. leader' \in [Groups -> Nodes \cup {None}]
      BY <1>1, ClusterAssumption DEF RestartTypeOK, ClusterTypeOK
    <2>3. faults' \in 0..MaxFaults /\ err' \in BOOLEAN
      BY <1>1, RestartFault DEF RestartTypeOK
    <2> QED BY <1>1, <2>1, <2>2, <2>3 DEF RestartTypeOK, ClusterTypeOK
  <1>3. BatchInv' /\ ConfInv'
    BY <1>1 DEF BatchInv, ConfInv, Picked
  <1>4. MasterKeptWithoutReplica'
    <2>1. \A k \in Nodes : proc'[k] = "down" => k = n \/ proc[k] = "down"
      BY <1>1 DEF RestartTypeOK, ClusterTypeOK
    <2> QED BY <1>1, <2>1 DEF MasterKeptWithoutReplica, BatchInv, Picked
  <1> QED BY <1>2, <1>3, <1>4

\* Start tasks start the nodes of the second batch.
LEMMA RestartStarts ==
    ASSUME RestartInv, NEW n \in Nodes, Start(n)
    PROVE  RestartInv'
  <1> USE DEF RestartInv
  <1>1. /\ step = "start" /\ n \in todo /\ todo' = todo \ {n} /\ UNCHANGED <<leader, handover>>
        /\ \/ /\ proc' = [proc EXCEPT ![n] = IF @ = "down" THEN "joining" ELSE @]
              /\ UNCHANGED <<err, faults>> /\ conf' = conf \cup {n}
           \/ Fault /\ err' = TRUE /\ UNCHANGED <<proc, conf>>
        /\ UNCHANGED <<standbys, step, first, second, snap, spare>>
    BY DEF Start, LaunchNode, clusterVars
  <1>2. RestartTypeOK'
    <2>1. proc' \in [Nodes -> {"down", "joining", "connected"}]
      BY <1>1 DEF RestartTypeOK, ClusterTypeOK
    <2>2. faults' \in 0..MaxFaults /\ err' \in BOOLEAN
      BY <1>1, RestartFault DEF RestartTypeOK
    <2> QED BY <1>1, <2>1, <2>2 DEF RestartTypeOK, ClusterTypeOK
  <1>3. BatchInv' /\ ConfInv'
    BY <1>1 DEF BatchInv, ConfInv, Picked, Due
  <1>4. MasterKeptWithoutReplica'
    <2>1. \A k \in Nodes : proc'[k] = "down" => proc[k] = "down"
      BY <1>1 DEF RestartTypeOK, ClusterTypeOK
    <2> QED BY <1>1, <2>1 DEF MasterKeptWithoutReplica
  <1> QED BY <1>2, <1>3, <1>4

\* Failovers before the second batch is stopped.
LEMMA RestartSwitches ==
    ASSUME RestartInv, NEW m \in Nodes, Switch(m)
    PROVE  RestartInv'
  <1> USE DEF RestartInv
  <1>1. /\ step = "switch" /\ todo' = todo \ {m} /\ err' \in {err, TRUE}
        /\ handover' = handover \/ \E t \in snap.replicas : handover' = [handover EXCEPT ![GroupOf[m]] = t]
        /\ (Fault \/ UNCHANGED faults)
        /\ UNCHANGED <<standbys, proc, leader, step, first, second, snap, conf, spare>>
    BY DEF Switch
  <1>2. RestartTypeOK'
    <2>1. handover' \in [Groups -> Nodes \cup {None}]
      BY <1>1 DEF RestartTypeOK, ClusterTypeOK
    <2>2. faults' \in 0..MaxFaults /\ err' \in BOOLEAN
      BY <1>1, RestartFault DEF RestartTypeOK
    <2> QED BY <1>1, <2>1, <2>2 DEF RestartTypeOK, ClusterTypeOK
  <1>3. BatchInv' /\ ConfInv' /\ MasterKeptWithoutReplica'
    BY <1>1 DEF BatchInv, ConfInv, Picked, MasterKeptWithoutReplica
  <1> QED BY <1>2, <1>3

\* What the cluster does by itself takes no process down.
LEMMA RestartCluster ==
    ASSUME RestartInv, ClusterStep
    PROVE  RestartInv'
  <1> USE DEF RestartInv
  <1>1. /\ UNCHANGED <<standbys, step, first, second, todo, snap, err, conf, faults, spare>>
        /\ proc' = proc \/ \E n \in Nodes : proc' = [proc EXCEPT ![n] = "connected"]
        /\ leader' = leader \/ \E g \in Groups, n \in Nodes : leader' = [leader EXCEPT ![g] = n]
        /\ handover' = handover \/ \E g \in Groups : handover' = [handover EXCEPT ![g] = None]
    BY DEF ClusterStep, runVars, Join, Elect, Handover, Move,
      Members, RestartTypeOK, ClusterTypeOK
  <1>2. RestartTypeOK'
    <2>1. /\ proc' \in [Nodes -> {"down", "joining", "connected"}]
          /\ leader' \in [Groups -> Nodes \cup {None}]
          /\ handover' \in [Groups -> Nodes \cup {None}]
      BY <1>1 DEF RestartTypeOK, ClusterTypeOK
    <2> QED BY <1>1, <2>1 DEF RestartTypeOK, ClusterTypeOK
  <1>3. BatchInv' /\ ConfInv'
    BY <1>1 DEF BatchInv, ConfInv, Picked, Due
  <1>4. MasterKeptWithoutReplica'
    <2>1. \A k \in Nodes : proc'[k] = "down" => proc[k] = "down"
      BY <1>1 DEF RestartTypeOK, ClusterTypeOK
    <2> QED BY <1>1, <2>1 DEF MasterKeptWithoutReplica
  <1> QED BY <1>2, <1>3, <1>4

\* Every step keeps the invariant.
LEMMA RestartStep == RestartInv /\ [RestartNext]_restartVars => RestartInv'
  <1> SUFFICES ASSUME RestartInv, [RestartNext]_restartVars PROVE RestartInv'
    OBVIOUS
  <1>1. CASE UNCHANGED restartVars
    <2> USE <1>1 DEF RestartInv, restartVars, clusterVars, runVars
    <2>1. RestartTypeOK'
      BY DEF RestartTypeOK, ClusterTypeOK
    <2>2. BatchInv' /\ ConfInv' /\ MasterKeptWithoutReplica'
      BY DEF BatchInv, ConfInv, Due, MasterKeptWithoutReplica
    <2> QED BY <2>1, <2>2
  <1>2. CASE RestartNext
    BY <1>2, RestartPicks, RestartStops, RestartStarts, RestartSwitches, RestartCluster
       DEF RestartNext, Advance
  <1> QED BY <1>1, <1>2

\* update-conf --restart keeps its batches apart and starts what it stopped of
\* the second, whatever fails and however leadership moves.
THEOREM RestartInvariant == RestartSpec => []RestartInv
  BY RestartBegins, RestartStep, PTL DEF RestartSpec

\* Masters go on serving when no replica is connected after the first batch was
\* stopped: FailoverAndStopOldMaster::build refuses.
THEOREM MastersAreKept == RestartSpec => []MasterKeptWithoutReplica
  <1>1. RestartInv => MasterKeptWithoutReplica
    BY DEF RestartInv
  <1> QED BY <1>1, RestartInvariant, PTL

\* A config restart that completes has restarted the masters it failed over
\* from, or all tx nodes, with the new configuration (StartTx).
THEOREM MastersAreRestarted == RestartSpec => []DoneMeansMastersRestarted
  <1>1. RestartInv => DoneMeansMastersRestarted
    BY DEF RestartInv, BatchInv, ConfInv, Due, Picked, DoneMeansMastersRestarted
  <1> QED BY <1>1, RestartInvariant, PTL
=============================================================================
