------------------------ MODULE RollingUpgradeProofs ------------------------
(* What `eloqctl update` promises, for every cluster: any number of groups   *)
(* and nodes, of failures and of repeated runs.                              *)
EXTENDS RollingUpgrade, FiniteSetTheorems, TLAPS

(***************************************************************************)
(* The inductive invariant                                                 *)
(***************************************************************************)

\* Before a run has temporary leaders, and while it restarts the other nodes.
Untouched == {"idle", "aborted", "upload", "select", "stoptx", "starttx"}
Switching == {"failover", "topology", "switch", "master"}
LogSteps == {"stoplog", "startlog"}

\* The run: which node is being restarted, and who the temporary leaders are.
RunInv ==
    /\ act # "stop" => step \in Restarting /\ cur \in Nodes
    /\ step \in Restarting \cup Switching \cup {"select"} => standby
    /\ step \in {"stoptx", "starttx"} => ~standby
    /\ step \in Untouched \/ ~standby => temp = {}
    /\ \A t, u \in temp : GroupOf[t] = GroupOf[u] => t = u
    /\ step = "selected" => todo \subseteq temp /\ (act # "stop" => cur \in temp)
    /\ step = "others" => todo \cap temp = {} /\ (act # "stop" => cur \notin temp)
    /\ step \in {"topology", "switch"} => \A p \in pairs : p[2] \in temp
    /\ \A g \in Groups : handover[g] # None => GroupOf[handover[g]] = g

\* The node that was stopped and not started again.
Stopped == IF act = "start" THEN {cur} ELSE {}

\* Every node is restarted, in one of the two restart steps, after the upload.
BinaryInv ==
    /\ step \notin {"idle", "aborted", "upload"} => disk = Nodes
    /\ step = "selected" => temp \ new \subseteq todo \cup Stopped
    /\ step \in Switching \cup LogSteps => temp \subseteq new
    /\ step = "others" => Nodes \ new \subseteq todo \cup Stopped
    /\ step = "starttx" => err \/ Nodes \ new \subseteq todo
    /\ step \in {"verify", "done"} => new = Nodes

\* The master that the selection saw serves during the first restarts, the
\* temporary leader, whom the failover has seen connected, during the others.
ServedInv ==
    /\ step \in {"selected", "failover"} =>
          \A t \in temp : \E m \in Members(GroupOf[t]) \ temp : Connected(m)
    /\ step \notin {"selected", "failover"} => \A t \in temp : Connected(t)

\* A run with standbys that nothing excuses.
Calm == standby /\ ~excused /\ step \notin Idle

\* In such a run one node at a time is down, and leadership goes where the run
\* sends it: to the temporary leaders, before the other nodes are restarted.
CalmInv ==
    Calm =>
        /\ \A n \in Nodes : ~Connected(n) => n = cur /\ act # "stop"
        /\ step \in {"upload", "select", "selected", "failover", "topology"} =>
              \A g \in Groups : handover[g] = None
        /\ step \notin {"upload", "select"} =>
              /\ \A g \in Groups : \E t \in temp : GroupOf[t] = g
              /\ \A g \in Groups : handover[g] \in temp \cup {None}
        /\ step = "selected" => \A t \in temp : leader[GroupOf[t]] # t
        /\ step \in {"topology", "switch", "master"} => \A t \in temp \ todo : leader[GroupOf[t]] = t
        /\ step \in LogSteps \cup {"others"} => \A t \in temp : leader[GroupOf[t]] = t

UpgradeInv ==
    TypeOK /\ RunInv /\ BinaryInv /\ ServedInv /\ CalmInv /\ LeaderKilledOnlyIfExcused

(***************************************************************************)
(* The steps of the cluster                                                *)
(***************************************************************************)

LEMMA KillKeeps ==
    ASSUME TypeOK, NEW n \in Nodes, KillNode(n)
    PROVE  /\ ClusterTypeOK' /\ LeadersRun' /\ UNCHANGED handover
           /\ \A m \in Nodes \ {n} : Connected(m)' <=> Connected(m)
           /\ \A g \in Groups : leader'[g] = IF leader[g] = n THEN None ELSE leader[g]
  <1> USE ClusterAssumption
  <1>1. /\ proc' = [proc EXCEPT ![n] = "down"]
        /\ leader' = [leader EXCEPT ![GroupOf[n]] = IF @ = n THEN None ELSE @]
        /\ UNCHANGED handover
        /\ ClusterTypeOK /\ LeadersRun
    BY DEF KillNode, TypeOK
  <1>2. ClusterTypeOK'
    BY <1>1 DEF ClusterTypeOK
  <1>3. \A g \in Groups : leader'[g] = IF leader[g] = n THEN None ELSE leader[g]
    BY <1>1 DEF ClusterTypeOK, LeadersRun
  <1>4. \A m \in Nodes \ {n} : Connected(m)' <=> Connected(m)
    BY <1>1 DEF ClusterTypeOK, Connected
  <1>5. LeadersRun'
    BY <1>1, <1>3, <1>4 DEF LeadersRun, ClusterTypeOK
  <1> QED BY <1>1, <1>2, <1>3, <1>4, <1>5

LEMMA LaunchKeeps ==
    ASSUME TypeOK, NEW n \in Nodes, LaunchNode(n)
    PROVE  /\ ClusterTypeOK' /\ LeadersRun' /\ UNCHANGED <<leader, handover>>
           /\ \A m \in Nodes : Connected(m)' <=> Connected(m)
  <1>1. /\ proc' = [proc EXCEPT ![n] = IF @ = "down" THEN "joining" ELSE @]
        /\ UNCHANGED <<leader, handover>> /\ ClusterTypeOK /\ LeadersRun
    BY DEF LaunchNode, TypeOK
  <1>2. ClusterTypeOK'
    BY <1>1 DEF ClusterTypeOK
  <1>3. \A m \in Nodes : Connected(m)' <=> Connected(m)
    BY <1>1 DEF ClusterTypeOK, Connected
  <1>4. LeadersRun'
    BY <1>1, <1>3 DEF LeadersRun, ClusterTypeOK
  <1> QED BY <1>1, <1>2, <1>3, <1>4

LEMMA FaultType ==
    ASSUME TypeOK, Fault \/ UNCHANGED faults
    PROVE  faults' \in 0..MaxFaults
  BY UpgradeAssumption DEF TypeOK, Fault

(***************************************************************************)
(* The invariant                                                           *)
(***************************************************************************)

LEMMA UpgradeInit == Init => UpgradeInv
  <1> SUFFICES ASSUME Init PROVE UpgradeInv
    OBVIOUS
  <1> USE ClusterAssumption, UpgradeAssumption
  <1>1. ClusterTypeOK /\ LeadersRun
    BY DEF Init, ClusterInit, ClusterTypeOK, LeadersRun, Connected
  <1>2. TypeOK
    <2>1. step \in Steps /\ snap \in [masters : SUBSET Nodes, replicas : SUBSET Nodes]
          /\ faults \in 0..MaxFaults /\ standby \in BOOLEAN
      BY DEF Init, Steps, Idle, NoTopology
    <2> QED BY <1>1, <2>1 DEF Init, TypeOK
  <1>3. RunInv
    BY DEF Init, ClusterInit, RunInv, Restarting, Switching, Untouched
  <1>4. BinaryInv /\ ServedInv /\ CalmInv /\ LeaderKilledOnlyIfExcused
    BY DEF Init, BinaryInv, ServedInv, CalmInv, Calm, Idle, LeaderKilledOnlyIfExcused, Switching,
           LogSteps
  <1> QED BY <1>2, <1>3, <1>4 DEF UpgradeInv

\* A run that stops where it is has no temporary leaders any more.
LEMMA AbortStep ==
    ASSUME UpgradeInv, Abort, ClusterTypeOK', LeadersRun', UNCHANGED <<handover, standby>>,
           disk' \subseteq Nodes, new' \subseteq Nodes, logUp' \in BOOLEAN, faults' \in 0..MaxFaults,
           excused' \in BOOLEAN, killed' \in BOOLEAN, LeaderKilledOnlyIfExcused'
    PROVE  UpgradeInv'
  <1> USE DEF UpgradeInv, Abort
  <1>1. TypeOK'
    BY ClusterAssumption DEF TypeOK, Steps, Idle, NoTopology
  <1>2. RunInv'
    BY DEF RunInv, Restarting, Switching, Untouched
  <1>3. BinaryInv' /\ ServedInv' /\ CalmInv'
    BY DEF BinaryInv, ServedInv, CalmInv, Calm, Idle, Switching, LogSteps
  <1> QED BY <1>1, <1>2, <1>3

\* A run that nothing excuses never finds a leader among the nodes to restart.
LEMMA CalmSpares ==
    ASSUME UpgradeInv, Calm, step \in Restarting, NEW n \in todo
    PROVE  leader[GroupOf[n]] # n
  <1> USE DEF UpgradeInv
  <1>1. CASE step = "selected"
    BY <1>1 DEF CalmInv, RunInv
  <1>2. CASE step = "others"
    <2>1. n \in Nodes /\ n \notin temp /\ GroupOf[n] \in Groups
      BY <1>2, ClusterAssumption DEF RunInv, TypeOK
    <2>2. PICK t \in temp : GroupOf[t] = GroupOf[n]
      BY <1>2, <2>1 DEF CalmInv
    <2>3. leader[GroupOf[t]] = t
      BY <1>2, <2>2 DEF CalmInv
    <2> QED BY <2>1, <2>2, <2>3
  <1> QED BY <1>1, <1>2 DEF Restarting

LEMMA FailureStep ==
    ASSUME UpgradeInv,
           \/ UploadFails \/ SelectFails \/ StopFails \/ StartFails \/ BuildFailoverFails
           \/ SwitchesFailed \/ Interrupt
    PROVE  UpgradeInv'
  <1> USE DEF UpgradeInv, clusterVars
  <1>1. CASE UploadFails \/ SelectFails \/ BuildFailoverFails \/ SwitchesFailed \/ Interrupt
    <2>1. /\ Abort /\ UNCHANGED <<clusterVars, standby, new, logUp, excused, killed>>
          /\ disk' \subseteq Nodes /\ (Fault \/ UNCHANGED faults)
      BY <1>1 DEF UploadFails, SelectFails, BuildFailoverFails, SwitchesFailed, Interrupt, TypeOK
    <2>2. ClusterTypeOK' /\ LeadersRun' /\ LeaderKilledOnlyIfExcused'
      BY <2>1 DEF TypeOK, ClusterTypeOK, LeadersRun, Connected, LeaderKilledOnlyIfExcused
    <2> QED BY <2>1, <2>2, FaultType, AbortStep DEF TypeOK
  <1>2. CASE StopFails
    <2>1. /\ Abort /\ UNCHANGED <<standby, disk, logUp, excused>> /\ Fault
          /\ step \in Restarting
      BY <1>2 DEF StopFails
    <2>2. PICK n \in todo :
             \/ KillNode(n) /\ new' = new \ {n} /\ killed' = (killed \/ leader[GroupOf[n]] = n)
             \/ UNCHANGED <<clusterVars, new, killed>>
      BY <1>2 DEF StopFails
    <2>3. n \in Nodes
      BY DEF TypeOK
    <2>4. ClusterTypeOK' /\ LeadersRun' /\ UNCHANGED handover /\ new' \subseteq Nodes
      <3>1. CASE KillNode(n) /\ new' = new \ {n}
        BY <2>3, <3>1, KillKeeps DEF TypeOK
      <3>2. CASE UNCHANGED <<clusterVars, new, killed>>
        BY <3>2 DEF TypeOK, ClusterTypeOK, LeadersRun, Connected
      <3> QED BY <2>2, <3>1, <3>2
    <2>5. LeaderKilledOnlyIfExcused' /\ killed' \in BOOLEAN
      <3>1. ~Calm \/ leader[GroupOf[n]] # n
        BY <2>1, CalmSpares
      <3>2. step \notin Idle
        BY <2>1 DEF Restarting, Idle
      <3>3. CASE killed' = (killed \/ leader[GroupOf[n]] = n)
        BY <2>1, <3>1, <3>2, <3>3 DEF LeaderKilledOnlyIfExcused, Calm
      <3>4. CASE UNCHANGED killed
        BY <2>1, <3>4 DEF LeaderKilledOnlyIfExcused, TypeOK
      <3> QED BY <2>2, <3>3, <3>4
    <2> QED BY <2>1, <2>4, <2>5, FaultType, AbortStep DEF TypeOK
  <1>3. CASE StartFails
    <2>1. /\ Abort /\ UNCHANGED <<standby, disk, logUp, excused, killed>> /\ Fault
          /\ cur \in Nodes
      BY <1>3 DEF StartFails, RunInv
    <2>2. ClusterTypeOK' /\ LeadersRun' /\ UNCHANGED handover /\ new' \subseteq Nodes
      <3>1. CASE LaunchNode(cur) /\ new' = IF cur \in disk THEN new \cup {cur} ELSE new
        BY <2>1, <3>1, LaunchKeeps DEF TypeOK
      <3>2. CASE UNCHANGED <<clusterVars, new>>
        BY <3>2 DEF TypeOK, ClusterTypeOK, LeadersRun, Connected
      <3> QED BY <1>3, <3>1, <3>2 DEF StartFails
    <2> QED BY <2>1, <2>2, FaultType, AbortStep DEF TypeOK, LeaderKilledOnlyIfExcused
  <1> QED BY <1>1, <1>2, <1>3

\* Steps of the run that touch no process.
LEMMA ControlStep ==
    ASSUME UpgradeInv,
           \/ Begin \/ Upload \/ Select \/ WaitNode \/ WaitNodeTimesOut \/ EndRestarts
           \/ BuildFailover \/ ReadTopology \/ ReadTopologyFails \/ SwitchesJoined
           \/ \E t \in Nodes : WaitMaster(t) \/ WaitMasterTimesOut(t)
           \/ EndTx \/ EndFailover \/ StopLog \/ StartLogAndWait \/ VerifyVersion
    PROVE  UpgradeInv'
  <1> USE DEF UpgradeInv, clusterVars
  <1>0. ClusterTypeOK' /\ LeadersRun' /\ UNCHANGED clusterVars
    <2>1. UNCHANGED clusterVars
      BY DEF Begin, Upload, Select, WaitNode, WaitNodeTimesOut, EndRestarts, BuildFailover,
             ReadTopology, ReadTopologyFails, SwitchesJoined, WaitMaster, WaitMasterTimesOut, EndTx,
             EndFailover, StopLog, StartLogAndWait, VerifyVersion
    <2> QED BY <2>1 DEF TypeOK, ClusterTypeOK, LeadersRun, Connected
  <1>1. ASSUME Begin PROVE UpgradeInv'
    <2>1. TypeOK'
      BY <1>0, <1>1 DEF Begin, TypeOK, Steps, Idle, Restarting
    <2>2. RunInv' /\ BinaryInv' /\ LeaderKilledOnlyIfExcused'
      BY <1>0, <1>1 DEF Begin, TypeOK, RunInv, BinaryInv, Stopped, LeaderKilledOnlyIfExcused,
            Untouched, Switching, LogSteps, Restarting
    <2>3. ServedInv' /\ CalmInv'
      BY <1>0, <1>1 DEF Begin, TypeOK, RunInv, ServedInv, CalmInv, Calm, Connected, Members,
            Idle, LogSteps, Restarting
    <2> QED BY <2>1, <2>2, <2>3
  <1>2. ASSUME Upload PROVE UpgradeInv'
    <2>1. TypeOK'
      BY <1>0, <1>2 DEF Upload, TypeOK, Steps, Idle, Restarting
    <2>2. RunInv' /\ BinaryInv' /\ LeaderKilledOnlyIfExcused'
      BY <1>0, <1>2 DEF Upload, TypeOK, RunInv, BinaryInv, Stopped, LeaderKilledOnlyIfExcused,
            Untouched, Switching, LogSteps, Restarting
    <2>3. ServedInv' /\ CalmInv'
      BY <1>0, <1>2 DEF Upload, TypeOK, RunInv, ServedInv, CalmInv, Calm, Connected, Members,
            Idle, LogSteps, Restarting
    <2> QED BY <2>1, <2>2, <2>3
  <1>3. ASSUME WaitNode PROVE UpgradeInv'
    <2>1. TypeOK'
      BY <1>0, <1>3 DEF WaitNode, TypeOK, Steps, Idle, Restarting
    <2>2. RunInv' /\ BinaryInv' /\ LeaderKilledOnlyIfExcused'
      BY <1>0, <1>3 DEF WaitNode, TypeOK, RunInv, BinaryInv, Stopped, LeaderKilledOnlyIfExcused,
            Untouched, Switching, LogSteps, Restarting, NodeReady
    <2>3. ServedInv' /\ CalmInv'
      BY <1>0, <1>3 DEF WaitNode, TypeOK, RunInv, ServedInv, CalmInv, Calm, Connected, Members,
            Idle, LogSteps, Restarting, NodeReady
    <2> QED BY <2>1, <2>2, <2>3
  <1>4. ASSUME WaitNodeTimesOut PROVE UpgradeInv'
    <2>1. TypeOK'
      BY <1>0, <1>4 DEF WaitNodeTimesOut, TypeOK, Steps, Idle, Restarting
    <2>2. RunInv' /\ BinaryInv' /\ LeaderKilledOnlyIfExcused'
      BY <1>0, <1>4 DEF WaitNodeTimesOut, TypeOK, RunInv, BinaryInv, Stopped, LeaderKilledOnlyIfExcused,
            Untouched, Switching, LogSteps, Restarting
    <2>3. ServedInv' /\ CalmInv'
      BY <1>0, <1>4 DEF WaitNodeTimesOut, TypeOK, RunInv, ServedInv, CalmInv, Calm, Connected, Members,
            Idle, LogSteps, Restarting
    <2> QED BY <2>1, <2>2, <2>3
  <1>5. ASSUME EndRestarts PROVE UpgradeInv'
    <2>1. TypeOK'
      BY <1>0, <1>5 DEF EndRestarts, TypeOK, Steps, Idle, Restarting
    <2>2. RunInv' /\ BinaryInv' /\ LeaderKilledOnlyIfExcused'
      BY <1>0, <1>5 DEF EndRestarts, TypeOK, RunInv, BinaryInv, Stopped, LeaderKilledOnlyIfExcused,
            Untouched, Switching, LogSteps, Restarting
    <2>3. ServedInv' /\ CalmInv'
      BY <1>0, <1>5 DEF EndRestarts, TypeOK, RunInv, ServedInv, CalmInv, Calm, Connected, Members,
            Idle, LogSteps, Restarting
    <2> QED BY <2>1, <2>2, <2>3
  <1>6. ASSUME ReadTopology PROVE UpgradeInv'
    <2>1. TypeOK'
      BY <1>0, <1>6 DEF ReadTopology, TypeOK, Steps, Idle, Restarting, Masters, Replicas
    <2>2. RunInv' /\ BinaryInv' /\ LeaderKilledOnlyIfExcused'
      BY <1>0, <1>6 DEF ReadTopology, TypeOK, RunInv, BinaryInv, Stopped, LeaderKilledOnlyIfExcused,
            Untouched, Switching, LogSteps, Restarting
    <2>3. ServedInv' /\ CalmInv'
      BY <1>0, <1>6 DEF ReadTopology, TypeOK, RunInv, ServedInv, CalmInv, Calm, Connected, Members,
            Idle, LogSteps, Restarting
    <2> QED BY <2>1, <2>2, <2>3
  <1>7. ASSUME ReadTopologyFails PROVE UpgradeInv'
    <2>1. TypeOK'
      BY <1>0, <1>7 DEF ReadTopologyFails, TypeOK, Steps, Idle, Restarting
    <2>2. RunInv' /\ BinaryInv' /\ LeaderKilledOnlyIfExcused'
      BY <1>0, <1>7 DEF ReadTopologyFails, TypeOK, RunInv, BinaryInv, Stopped, LeaderKilledOnlyIfExcused,
            Untouched, Switching, LogSteps, Restarting
    <2>3. ServedInv' /\ CalmInv'
      BY <1>0, <1>7 DEF ReadTopologyFails, TypeOK, RunInv, ServedInv, CalmInv, Calm, Connected, Members,
            Idle, LogSteps, Restarting
    <2> QED BY <2>1, <2>2, <2>3
  <1>8. ASSUME SwitchesJoined PROVE UpgradeInv'
    <2>1. TypeOK'
      BY <1>0, <1>8 DEF SwitchesJoined, TypeOK, Steps, Idle, Restarting
    <2>2. RunInv' /\ BinaryInv' /\ LeaderKilledOnlyIfExcused'
      BY <1>0, <1>8 DEF SwitchesJoined, TypeOK, RunInv, BinaryInv, Stopped, LeaderKilledOnlyIfExcused,
            Untouched, Switching, LogSteps, Restarting
    <2>3. ServedInv' /\ CalmInv'
      BY <1>0, <1>8 DEF SwitchesJoined, TypeOK, RunInv, ServedInv, CalmInv, Calm, Connected, Members,
            Idle, LogSteps, Restarting
    <2> QED BY <2>1, <2>2, <2>3
  <1>9. ASSUME NEW t \in Nodes, WaitMaster(t) PROVE UpgradeInv'
    <2>1. TypeOK'
      BY <1>0, <1>9 DEF WaitMaster, TypeOK, Steps, Idle, Restarting
    <2>2. RunInv' /\ BinaryInv' /\ LeaderKilledOnlyIfExcused'
      BY <1>0, <1>9 DEF WaitMaster, TypeOK, RunInv, BinaryInv, Stopped, LeaderKilledOnlyIfExcused,
            Untouched, Switching, LogSteps, Restarting, Masters
    <2>3. ServedInv' /\ CalmInv'
      BY <1>0, <1>9 DEF WaitMaster, TypeOK, RunInv, ServedInv, CalmInv, Calm, Connected, Members,
            Idle, LogSteps, Restarting, Masters
    <2> QED BY <2>1, <2>2, <2>3
  <1>10. ASSUME NEW t \in Nodes, WaitMasterTimesOut(t) PROVE UpgradeInv'
    <2>1. TypeOK'
      BY <1>0, <1>10 DEF WaitMasterTimesOut, TypeOK, Steps, Idle, Restarting
    <2>2. RunInv' /\ BinaryInv' /\ LeaderKilledOnlyIfExcused'
      BY <1>0, <1>10 DEF WaitMasterTimesOut, TypeOK, RunInv, BinaryInv, Stopped, LeaderKilledOnlyIfExcused,
            Untouched, Switching, LogSteps, Restarting
    <2>3. ServedInv' /\ CalmInv'
      BY <1>0, <1>10 DEF WaitMasterTimesOut, TypeOK, RunInv, ServedInv, CalmInv, Calm, Connected, Members,
            Idle, LogSteps, Restarting
    <2> QED BY <2>1, <2>2, <2>3
  <1>11. ASSUME EndFailover PROVE UpgradeInv'
    <2>1. TypeOK'
      BY <1>0, <1>11 DEF EndFailover, TypeOK, Steps, Idle, Restarting, RestartNodes
    <2>2. RunInv' /\ BinaryInv' /\ LeaderKilledOnlyIfExcused'
      BY <1>0, <1>11 DEF EndFailover, TypeOK, RunInv, BinaryInv, Stopped, LeaderKilledOnlyIfExcused,
            Untouched, Switching, LogSteps, Restarting, RestartNodes
    <2>3. ServedInv' /\ CalmInv'
      BY <1>0, <1>11 DEF EndFailover, TypeOK, RunInv, ServedInv, CalmInv, Calm, Connected, Members,
            Idle, LogSteps, Restarting, RestartNodes
    <2> QED BY <2>1, <2>2, <2>3
  <1>12. ASSUME StopLog PROVE UpgradeInv'
    <2>1. TypeOK'
      BY <1>0, <1>12 DEF StopLog, TypeOK, Steps, Idle, Restarting
    <2>2. RunInv' /\ BinaryInv' /\ LeaderKilledOnlyIfExcused'
      BY <1>0, <1>12 DEF StopLog, TypeOK, RunInv, BinaryInv, Stopped, LeaderKilledOnlyIfExcused,
            Untouched, Switching, LogSteps, Restarting
    <2>3. ServedInv' /\ CalmInv'
      BY <1>0, <1>12 DEF StopLog, TypeOK, RunInv, ServedInv, CalmInv, Calm, Connected, Members,
            Idle, LogSteps, Restarting
    <2> QED BY <2>1, <2>2, <2>3
  <1>13. ASSUME StartLogAndWait PROVE UpgradeInv'
    <2>1. TypeOK'
      BY <1>0, <1>13 DEF StartLogAndWait, TypeOK, Steps, Idle, Restarting, RestartNodes
    <2>2. RunInv' /\ BinaryInv' /\ LeaderKilledOnlyIfExcused'
      BY <1>0, <1>13 DEF StartLogAndWait, TypeOK, RunInv, BinaryInv, Stopped, LeaderKilledOnlyIfExcused,
            Untouched, Switching, LogSteps, Restarting, RestartNodes
    <2>3. ServedInv' /\ CalmInv'
      BY <1>0, <1>13 DEF StartLogAndWait, TypeOK, RunInv, ServedInv, CalmInv, Calm, Connected, Members,
            Idle, LogSteps, Restarting, RestartNodes
    <2> QED BY <2>1, <2>2, <2>3
  <1>14. ASSUME VerifyVersion PROVE UpgradeInv'
    <2>1. TypeOK'
      BY <1>0, <1>14 DEF VerifyVersion, TypeOK, Steps, Idle, Restarting
    <2>2. RunInv' /\ BinaryInv' /\ LeaderKilledOnlyIfExcused'
      BY <1>0, <1>14 DEF VerifyVersion, TypeOK, RunInv, BinaryInv, Stopped, LeaderKilledOnlyIfExcused,
            Untouched, Switching, LogSteps, Restarting
    <2>3. ServedInv' /\ CalmInv'
      BY <1>0, <1>14 DEF VerifyVersion, TypeOK, RunInv, ServedInv, CalmInv, Calm, Connected, Members,
            Idle, LogSteps, Restarting
    <2> QED BY <2>1, <2>2, <2>3
  <1>15. ASSUME EndTx PROVE UpgradeInv'
    <2>1. CASE Abort
      BY <1>0, <1>15, <2>1, AbortStep DEF EndTx, TypeOK, LeaderKilledOnlyIfExcused
    <2>2. CASE ~Abort
      <3>1. /\ ~err /\ todo = {} /\ step \in {"stoptx", "starttx"}
            /\ step' = IF step = "starttx" THEN "verify" ELSE IF SkipLog THEN "starttx" ELSE "stoplog"
            /\ todo' = IF step' = "starttx" THEN Nodes ELSE {}
            /\ UNCHANGED <<cur, act, temp, pairs, snap, err, disk, new, logUp, standby, faults, excused,
                           killed>>
        BY <1>15, <2>2 DEF EndTx
      <3>2. TypeOK'
        BY <1>0, <3>1 DEF TypeOK, Steps
      <3>3. RunInv' /\ BinaryInv' /\ LeaderKilledOnlyIfExcused'
        BY <1>0, <3>1 DEF TypeOK, RunInv, BinaryInv, LeaderKilledOnlyIfExcused,
              Untouched, Switching, LogSteps, Restarting
      <3>4. ServedInv' /\ CalmInv'
        BY <1>0, <3>1 DEF RunInv, ServedInv, CalmInv, Calm
      <3> QED BY <3>2, <3>3, <3>4
    <2> QED BY <2>1, <2>2
  <1>16. ASSUME Select PROVE UpgradeInv'
    <2>1. PICK f \in Choices : temp' = {f[m] : m \in Masters}
      BY <1>16 DEF Select
    <2>2. /\ step = "select" /\ step' = "selected" /\ todo' = temp'
          /\ excused' = (excused \/ \E g \in Groups : leader[g] = None)
          /\ UNCHANGED <<cur, act, pairs, snap, err, disk, new, logUp, standby, faults, killed>>
      BY <1>16 DEF Select
    <2>3. /\ \A m \in Masters : f[m] \in Replicas /\ GroupOf[f[m]] = GroupOf[m]
          /\ temp' \subseteq Replicas
      BY <2>1 DEF Choices
    <2>4. /\ Masters \subseteq Nodes /\ Replicas \subseteq Nodes /\ Masters \cap Replicas = {}
          /\ \A m \in Masters : leader[GroupOf[m]] = m /\ Connected(m)
      BY DEF Masters, Replicas
    <2>5. TypeOK'
      <3>1. temp' \subseteq Nodes /\ todo' \subseteq Nodes
        BY <2>2, <2>3, <2>4
      <3> QED BY <1>0, <2>2, <3>1 DEF TypeOK, Steps, Restarting
    <2>6. RunInv'
      <3>1. \A t, u \in temp' : GroupOf[t] = GroupOf[u] => t = u
        BY <2>1, <2>3, <2>4
      <3> QED BY <1>0, <2>2, <3>1 DEF RunInv, Restarting, Switching, Untouched
    <2>7. BinaryInv' /\ LeaderKilledOnlyIfExcused'
      BY <2>2 DEF BinaryInv, LeaderKilledOnlyIfExcused, Switching, LogSteps
    <2>8. ServedInv'
      <3>1. ASSUME NEW t \in temp' PROVE \E m \in Members(GroupOf[t]) \ temp' : Connected(m)
        <4>1. PICK m \in Masters : t = f[m]
          BY <2>1
        <4> QED BY <2>3, <2>4, <4>1 DEF Members
      <3>2. \A m : Connected(m)' <=> Connected(m)
        BY <1>0 DEF Connected
      <3> QED BY <2>2, <3>1, <3>2 DEF ServedInv, Members
    <2>9. CalmInv'
      <3> SUFFICES ASSUME Calm' PROVE CalmInv'
        BY DEF CalmInv
      <3>1. Calm /\ \A g \in Groups : leader[g] # None
        BY <2>2 DEF Calm, Idle
      <3>2. \A g \in Groups : \E t \in temp' : GroupOf[t] = g
        <4>1. ASSUME NEW g \in Groups PROVE leader[g] \in Masters /\ GroupOf[leader[g]] = g
          BY <3>1 DEF TypeOK, ClusterTypeOK, LeadersRun, Masters
        <4> QED BY <2>1, <2>3, <4>1
      <3>3. \A t \in temp' : leader[GroupOf[t]] # t
        BY <2>1, <2>3, <2>4
      <3> QED BY <1>0, <2>2, <3>1, <3>2, <3>3 DEF CalmInv, Connected, LogSteps
    <2> QED BY <2>5, <2>6, <2>7, <2>8, <2>9
  <1>17. ASSUME BuildFailover PROVE UpgradeInv'
    <2>1. /\ step = "failover" /\ step' = IF Followers = {} THEN "master" ELSE "topology"
          /\ todo' = IF Followers = {} THEN temp ELSE Followers
          /\ pairs' = {<<leader[GroupOf[t]], t>> : t \in Followers}
          /\ \A t \in Followers : CanTakeOver(t)
          /\ UNCHANGED <<cur, act, temp, snap, err, disk, new, logUp, standby, faults, excused, killed>>
      BY <1>17 DEF BuildFailover
    <2>2. /\ Followers = temp \ Masters /\ temp \subseteq Nodes /\ Masters \subseteq Nodes
          /\ \A m \in Masters : leader[GroupOf[m]] = m /\ Connected(m)
          /\ \A m \in Replicas : Connected(m)
      BY DEF Followers, Masters, Replicas, TypeOK
    <2>3. TypeOK'
      <3>1. pairs' \subseteq Nodes \X Nodes
        BY <2>1, <2>2 DEF CanTakeOver
      <3> QED BY <1>0, <2>1, <2>2, <3>1 DEF TypeOK, Steps
    <2>4. RunInv'
      <3>1. \A p \in pairs' : p[2] \in temp
        BY <2>1, <2>2
      <3> QED BY <1>0, <2>1, <3>1 DEF RunInv, Restarting, Switching, Untouched
    <2>5. BinaryInv' /\ LeaderKilledOnlyIfExcused'
      BY <2>1 DEF BinaryInv, LeaderKilledOnlyIfExcused, Switching, LogSteps
    <2>6. ServedInv' /\ CalmInv'
      <3>1. \A t \in temp : Connected(t)
        BY <2>1, <2>2 DEF CanTakeOver
      <3>2. \A m : Connected(m)' <=> Connected(m)
        BY <1>0 DEF Connected
      <3>3. \A t \in temp \ todo' : leader[GroupOf[t]] = t
        BY <2>1, <2>2
      <3>4. ServedInv'
        BY <2>1, <3>1, <3>2 DEF ServedInv
      <3>5. CalmInv'
        BY <1>0, <2>1, <3>2, <3>3 DEF CalmInv, Calm, Idle, LogSteps
      <3> QED BY <3>4, <3>5
    <2> QED BY <2>3, <2>4, <2>5, <2>6
  <1> QED BY <1>1, <1>2, <1>3, <1>4, <1>5, <1>6, <1>7, <1>8, <1>9, <1>10, <1>11, <1>12, <1>13, <1>14, <1>15, <1>16, <1>17

\* Steps of the run that stop or start a process, or ask for a failover.
LEMMA ProcessStep ==
    ASSUME UpgradeInv,
           \/ StopNode \/ StartNode \/ Repair
           \/ \E p \in pairs : Switch(p)
           \/ \E n \in todo : StopTx(n) \/ StartTx(n)
    PROVE  UpgradeInv'
  <1> USE DEF UpgradeInv
  <1>1. ASSUME StopNode PROVE UpgradeInv'
    <2>1. PICK n \in todo :
             /\ KillNode(n) /\ killed' = (killed \/ leader[GroupOf[n]] = n)
             /\ cur' = n /\ todo' = todo \ {n} /\ new' = new \ {n}
      BY <1>1 DEF StopNode
    <2>2. /\ step \in Restarting /\ act = "stop" /\ act' = "start" /\ n \in Nodes
          /\ UNCHANGED <<step, temp, pairs, snap, err, disk, logUp, standby, faults, excused>>
      BY <1>1 DEF StopNode, TypeOK
    <2>3. /\ ClusterTypeOK' /\ LeadersRun' /\ UNCHANGED handover
          /\ \A m \in Nodes \ {n} : Connected(m)' <=> Connected(m)
          /\ \A g \in Groups : leader'[g] = IF leader[g] = n THEN None ELSE leader[g]
      BY <2>1, <2>2, KillKeeps
    <2>4. Calm => leader[GroupOf[n]] # n
      BY <2>2, CalmSpares
    <2>5. TypeOK'
      BY <2>1, <2>2, <2>3 DEF TypeOK
    <2>6. RunInv' /\ BinaryInv'
      BY <2>1, <2>2, <2>3 DEF RunInv, BinaryInv, Stopped, Restarting, Switching, Untouched, LogSteps,
                              TypeOK
    <2>7. LeaderKilledOnlyIfExcused'
      BY <2>1, <2>2, <2>4 DEF LeaderKilledOnlyIfExcused, Calm, Restarting, Idle
    <2>8. ServedInv'
      <3>1. CASE step = "selected"
        <4>1. n \in temp
          BY <3>1 DEF RunInv
        <4>2. ASSUME NEW t \in temp PROVE (\E m \in Members(GroupOf[t]) \ temp : Connected(m))'
          <5>1. PICK m \in Members(GroupOf[t]) \ temp : Connected(m)
            BY <3>1 DEF ServedInv
          <5> QED BY <2>2, <2>3, <4>1, <5>1 DEF Members
        <4> QED BY <2>2, <3>1, <4>2 DEF ServedInv
      <3>2. CASE step = "others"
        BY <2>2, <2>3, <3>2 DEF ServedInv, RunInv, TypeOK
      <3> QED BY <2>2, <3>1, <3>2 DEF Restarting
    <2>9. CalmInv'
      <3> SUFFICES ASSUME Calm' PROVE CalmInv'
        BY DEF CalmInv
      <3>1. Calm
        BY <2>2 DEF Calm
      <3>2. \A g \in Groups : leader'[g] = leader[g]
        BY <2>3, <2>4, <3>1, ClusterAssumption DEF TypeOK, LeadersRun
      <3>3. \A t \in temp : GroupOf[t] \in Groups
        BY ClusterAssumption DEF TypeOK
      <3> QED BY <2>1, <2>2, <2>3, <3>1, <3>2, <3>3 DEF CalmInv, Restarting, LogSteps
    <2> QED BY <2>5, <2>6, <2>7, <2>8, <2>9
  <1>2. ASSUME StartNode PROVE UpgradeInv'
    <2>1. /\ step \in Restarting /\ act = "start" /\ act' = "wait" /\ cur \in Nodes /\ LaunchNode(cur)
          /\ new' = IF cur \in disk THEN new \cup {cur} ELSE new
          /\ UNCHANGED <<step, todo, cur, temp, pairs, snap, err, disk, logUp, standby, faults, excused,
                         killed>>
      BY <1>2 DEF StartNode, RunInv
    <2>2. /\ ClusterTypeOK' /\ LeadersRun' /\ UNCHANGED <<leader, handover>>
          /\ \A m \in Nodes : Connected(m)' <=> Connected(m)
      BY <2>1, LaunchKeeps
    <2>3. TypeOK'
      BY <2>1, <2>2 DEF TypeOK
    <2>4. RunInv' /\ BinaryInv' /\ LeaderKilledOnlyIfExcused'
      BY <2>1, <2>2 DEF RunInv, BinaryInv, LeaderKilledOnlyIfExcused, Stopped, Restarting, Switching,
                        Untouched, LogSteps
    <2>5. ServedInv' /\ CalmInv'
      BY <2>1, <2>2 DEF ServedInv, CalmInv, Calm, Members, TypeOK, Restarting
    <2> QED BY <2>3, <2>4, <2>5
  <1>3. ASSUME Repair PROVE UpgradeInv'
    <2>1. /\ step = "aborted" /\ new' = new \cup {n \in disk : proc[n] = "down"} /\ logUp' = TRUE
          /\ proc' = [n \in Nodes |-> IF proc[n] = "down" THEN "joining" ELSE proc[n]]
          /\ UNCHANGED <<leader, handover, step, todo, cur, act, temp, pairs, snap, err, disk, standby,
                         faults, excused, killed>>
      BY <1>3 DEF Repair
    <2>2. ClusterTypeOK' /\ LeadersRun'
      BY <2>1 DEF TypeOK, ClusterTypeOK, LeadersRun, Connected
    <2>3. TypeOK'
      BY <2>1, <2>2 DEF TypeOK
    <2> QED BY <2>1, <2>3 DEF RunInv, BinaryInv, LeaderKilledOnlyIfExcused, ServedInv, CalmInv, Calm,
                              Stopped, Untouched, Switching, LogSteps, Idle, Restarting
  <1>4. ASSUME NEW p \in pairs, Switch(p) PROVE UpgradeInv'
    <2>1. /\ step = "switch" /\ pairs' = pairs \ {p}
          /\ handover' = handover \/ handover' = [handover EXCEPT ![GroupOf[p[2]]] = p[2]]
          /\ (Fault \/ UNCHANGED faults)
          /\ err' \in BOOLEAN
          /\ UNCHANGED <<proc, leader, step, todo, cur, act, temp, snap, disk, new, logUp, standby, excused,
                         killed>>
      BY <1>4 DEF Switch, TypeOK
    <2>2. p[2] \in temp /\ p[2] \in Nodes /\ GroupOf[p[2]] \in Groups
      BY <2>1, ClusterAssumption DEF RunInv, TypeOK
    <2>3. \A g \in Groups : \/ handover'[g] = handover[g]
                            \/ g = GroupOf[p[2]] /\ handover'[g] = p[2]
      BY <2>1, <2>2 DEF TypeOK, ClusterTypeOK
    <2>4. ClusterTypeOK' /\ LeadersRun'
      BY <2>1, <2>2 DEF TypeOK, ClusterTypeOK, LeadersRun, Connected
    <2>5. TypeOK'
      BY <2>1, <2>4, FaultType DEF TypeOK
    <2>6. RunInv' /\ BinaryInv' /\ LeaderKilledOnlyIfExcused'
      BY <2>1, <2>2, <2>3 DEF RunInv, BinaryInv, LeaderKilledOnlyIfExcused, Stopped, Restarting,
                              Switching, Untouched, LogSteps
    <2>7. ServedInv' /\ CalmInv'
      BY <2>1, <2>2, <2>3 DEF ServedInv, CalmInv, Calm, Members, Connected, LogSteps
    <2> QED BY <2>5, <2>6, <2>7
  <1>5. ASSUME NEW n \in todo, StopTx(n) \/ StartTx(n) PROVE UpgradeInv'
    <2>1. /\ step \in {"stoptx", "starttx"} /\ n \in Nodes /\ todo' = todo \ {n}
          /\ (Fault \/ UNCHANGED faults)
          /\ UNCHANGED <<step, cur, act, temp, pairs, snap, disk, logUp, standby, excused, killed>>
      BY <1>5 DEF StopTx, StartTx, TypeOK
    <2>2. ClusterTypeOK' /\ LeadersRun' /\ UNCHANGED handover
      <3>1. CASE KillNode(n)
        BY <2>1, <3>1, KillKeeps
      <3>2. CASE LaunchNode(n)
        BY <2>1, <3>2, LaunchKeeps
      <3>3. CASE UNCHANGED clusterVars
        BY <3>3 DEF TypeOK, ClusterTypeOK, LeadersRun, Connected, clusterVars
      <3> QED BY <1>5, <3>1, <3>2, <3>3 DEF StopTx, StartTx
    <2>3. /\ new' \subseteq Nodes /\ err' \in BOOLEAN
          /\ step = "starttx" => err' \/ Nodes \ new' \subseteq todo'
      BY <1>5, <2>1 DEF StopTx, StartTx, TypeOK, BinaryInv
    <2>4. TypeOK'
      BY <2>1, <2>2, <2>3, FaultType DEF TypeOK
    <2>5. ~standby /\ temp = {}
      BY <2>1 DEF RunInv
    <2>6. RunInv' /\ BinaryInv' /\ LeaderKilledOnlyIfExcused'
      BY <2>1, <2>2, <2>3, <2>5 DEF RunInv, BinaryInv, LeaderKilledOnlyIfExcused, Stopped, Restarting,
                              Switching, Untouched, LogSteps
    <2> QED BY <2>1, <2>4, <2>5, <2>6 DEF ServedInv, CalmInv, Calm
  <1> QED BY <1>1, <1>2, <1>3, <1>4, <1>5

\* A process joins, a handover takes effect, leadership moves.
LEMMA ClusterStepKeeps ==
    ASSUME UpgradeInv, ClusterStep
    PROVE  UpgradeInv'
  <1> USE DEF UpgradeInv
  <1>1. ASSUME NEW n \in Nodes, NodeJoins(n) PROVE UpgradeInv'
    <2>1. /\ proc' = [proc EXCEPT ![n] = "connected"]
          /\ UNCHANGED <<leader, handover, runVars>>
      BY <1>1 DEF NodeJoins, Join
    <2>2. \A m \in Nodes : Connected(m) => Connected(m)'
      BY <2>1 DEF Connected, TypeOK, ClusterTypeOK
    <2>3. ClusterTypeOK' /\ LeadersRun'
      BY <2>1, <2>2 DEF TypeOK, ClusterTypeOK, LeadersRun
    <2>4. TypeOK' /\ RunInv' /\ BinaryInv' /\ LeaderKilledOnlyIfExcused'
      BY <2>1, <2>3 DEF TypeOK, RunInv, BinaryInv, Stopped, LeaderKilledOnlyIfExcused, runVars
    <2> QED BY <2>1, <2>2, <2>4 DEF ServedInv, CalmInv, Calm, Members, TypeOK, runVars
  <1>2. ASSUME NEW g \in Groups, GroupHandsOver(g) PROVE UpgradeInv'
    <2>1. /\ handover[g] # None /\ handover' = [handover EXCEPT ![g] = None]
          /\ leader' = IF Connected(handover[g]) THEN [leader EXCEPT ![g] = handover[g]] ELSE leader
          /\ UNCHANGED <<proc, runVars>>
      BY <1>2 DEF GroupHandsOver, Handover
    <2>2. handover[g] \in Nodes /\ GroupOf[handover[g]] = g
      BY <2>1 DEF TypeOK, ClusterTypeOK, RunInv
    <2>3. /\ \A h \in Groups \ {g} : leader'[h] = leader[h] /\ handover'[h] = handover[h]
          /\ handover'[g] = None /\ leader'[g] \in {leader[g], handover[g]}
      BY <2>1, <2>2 DEF TypeOK, ClusterTypeOK
    <2>4. ClusterTypeOK' /\ LeadersRun'
      <3>1. ClusterTypeOK'
        BY <2>1, <2>2, ClusterAssumption DEF TypeOK, ClusterTypeOK
      <3>2. \A m : Connected(m)' <=> Connected(m)
        BY <2>1 DEF Connected
      <3>3. leader'[g] = leader[g] \/ (leader'[g] = handover[g] /\ Connected(handover[g]))
        <4>1. CASE Connected(handover[g])
          BY <2>1, <4>1 DEF TypeOK, ClusterTypeOK
        <4>2. CASE ~Connected(handover[g])
          BY <2>1, <4>2 DEF Connected
        <4> QED BY <4>1, <4>2
      <3> QED BY <2>2, <2>3, <3>1, <3>2, <3>3 DEF TypeOK, LeadersRun
    <2>5. TypeOK' /\ RunInv' /\ BinaryInv' /\ LeaderKilledOnlyIfExcused'
      BY <2>1, <2>3, <2>4 DEF TypeOK, RunInv, BinaryInv, Stopped, LeaderKilledOnlyIfExcused, runVars
    <2>6. ServedInv'
      BY <2>1 DEF ServedInv, Members, Connected, runVars
    <2>7. CalmInv'
      <3> SUFFICES ASSUME Calm PROVE CalmInv'
        BY <2>1 DEF CalmInv, Calm, runVars
      <3>1. /\ step \notin {"upload", "select", "selected", "failover", "topology"}
            /\ handover[g] \in temp
        BY <2>1 DEF CalmInv
      <3>2. ASSUME NEW t \in temp, leader[GroupOf[t]] = t PROVE leader'[GroupOf[t]] = t
        <4>1. GroupOf[t] = g => t = handover[g]
          BY <2>2, <3>1 DEF RunInv
        <4>2. GroupOf[t] \in Groups
          BY ClusterAssumption DEF TypeOK
        <4> QED BY <2>3, <3>2, <4>1, <4>2
      <3>3. \A m : Connected(m)' <=> Connected(m)
        BY <2>1 DEF Connected
      <3> QED BY <2>1, <2>3, <3>1, <3>2, <3>3 DEF CalmInv, runVars, LogSteps
    <2> QED BY <2>5, <2>6, <2>7
  <1>3. ASSUME NEW g \in Groups, GroupElects(g) \/ GroupMoves(g) PROVE UpgradeInv'
    <2>1. PICK n \in Members(g) : Connected(n) /\ leader' = [leader EXCEPT ![g] = n]
      BY <1>3 DEF GroupElects, GroupMoves, Elect, Move
    <2>2. /\ UNCHANGED <<proc, handover, step, todo, cur, act, temp, pairs, snap, err, disk, new, logUp,
                         standby, faults, killed>>
          /\ excused' = TRUE
      BY <1>3 DEF GroupElects, GroupMoves, Elect, Move, Unasked
    <2>3. ClusterTypeOK' /\ LeadersRun'
      BY <2>1, <2>2 DEF TypeOK, ClusterTypeOK, LeadersRun, Connected, Members
    <2>4. TypeOK' /\ RunInv' /\ BinaryInv'
      BY <2>2, <2>3 DEF TypeOK, RunInv, BinaryInv, Stopped
    <2> QED BY <2>2, <2>4 DEF ServedInv, CalmInv, Calm, Members, Connected, LeaderKilledOnlyIfExcused
  <1> QED BY <1>1, <1>2, <1>3 DEF ClusterStep

LEMMA UpgradeStep == UpgradeInv /\ [Next]_vars => UpgradeInv'
  <1> SUFFICES ASSUME UpgradeInv, [Next]_vars PROVE UpgradeInv'
    OBVIOUS
  <1>1. CASE UNCHANGED vars
    <2> USE <1>1 DEF UpgradeInv, vars, clusterVars, runVars
    <2>1. TypeOK'
      BY DEF TypeOK, ClusterTypeOK, LeadersRun, Connected
    <2>2. RunInv' /\ BinaryInv' /\ LeaderKilledOnlyIfExcused'
      BY DEF RunInv, BinaryInv, Stopped, LeaderKilledOnlyIfExcused
    <2>3. ServedInv' /\ CalmInv'
      BY DEF ServedInv, CalmInv, Calm, Members, Connected
    <2> QED BY <2>1, <2>2, <2>3
  <1>2. CASE Next
    BY <1>1, <1>2, ControlStep, ProcessStep, FailureStep, ClusterStepKeeps DEF Next, Advance, Ended
  <1> QED BY <1>1, <1>2

(***************************************************************************)
(* The theorems                                                            *)
(***************************************************************************)

\* Every run, and every run after an aborted one, keeps the invariant.
THEOREM UpgradeInvariant == Spec => []UpgradeInv
  BY UpgradeInit, UpgradeStep, PTL DEF Spec

\* A run that completed left no process on the old binary: the temporary
\* leaders and the other nodes are all of them, and each is started after the
\* upload, whatever timed out.
THEOREM CompletedUpgrades == Spec => []DoneMeansUpgraded
  <1>1. UpgradeInv => DoneMeansUpgraded
    BY DEF UpgradeInv, BinaryInv, DoneMeansUpgraded
  <1> QED BY <1>1, UpgradeInvariant, PTL

\* A run that nothing excuses stops no leader: SelectStandbyForFailover takes
\* replicas, and FailoverToStandby waits until they lead before the others are
\* restarted.
THEOREM LeadersAreSpared == Spec => []LeaderKilledOnlyIfExcused
  <1>1. UpgradeInv => LeaderKilledOnlyIfExcused
    BY DEF UpgradeInv
  <1> QED BY <1>1, UpgradeInvariant, PTL

\* A group with a temporary leader has a connected node throughout, and without
\* an excuse at most one node of the cluster is down.
THEOREM GroupsAreServed == Spec => []GroupServed
  <1>1. UpgradeInv => GroupServed
    <2> SUFFICES ASSUME UpgradeInv PROVE GroupServed
      OBVIOUS
    <2>1. ASSUME NEW g \in Groups, temp \cap Members(g) # {} PROVE \E n \in Members(g) : Connected(n)
      <3>1. PICK t \in temp : t \in Members(g)
        BY <2>1
      <3>2. GroupOf[t] = g
        BY <3>1 DEF Members
      <3> QED BY <3>1, <3>2 DEF UpgradeInv, ServedInv
    <2>2. ASSUME standby, ~excused, step \notin Idle
          PROVE  Cardinality({n \in Nodes : ~Connected(n)}) <= 1
      <3> DEFINE D == {n \in Nodes : ~Connected(n)}
      <3>1. D \subseteq {cur}
        BY <2>2 DEF UpgradeInv, CalmInv, Calm
      <3>2. D = {} \/ D = {cur}
        BY <3>1
      <3> HIDE DEF D
      <3>3. Cardinality(D) \in {0, 1}
        BY <3>2, FS_EmptySet, FS_Singleton
      <3>4. Cardinality(D) <= 1
        BY <3>3
      <3> QED BY <3>4 DEF D
    <2> QED BY <2>1, <2>2 DEF GroupServed
  <1> QED BY <1>1, UpgradeInvariant, PTL
=============================================================================
