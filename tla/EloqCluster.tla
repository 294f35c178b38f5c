---------------------------- MODULE EloqCluster ----------------------------
(***************************************************************************)
(* The EloqKV cluster as eloqctl sees it: the tx and standby processes of  *)
(* each node group, who leads the group, and what CLUSTER NODES reports.   *)
(* The servers are not part of this repository; they are modelled from the *)
(* answers RedisOpTask, FailoverOpTask and the wait tasks act on.          *)
(***************************************************************************)
EXTENDS Naturals, FiniteSets

CONSTANTS Nodes,    \* the managed tx and standby nodes
          Groups,   \* the node groups
          GroupOf,  \* the group of every node
          MayMove,  \* whether leadership may move without being asked to
          None

ASSUME ClusterAssumption ==
    /\ GroupOf \in [Nodes -> Groups]
    /\ \A g \in Groups : \E n \in Nodes : GroupOf[n] = g
    /\ MayMove \in BOOLEAN
    /\ None \notin Nodes

VARIABLES
    proc,      \* down, joining (the process runs) or connected
    leader,    \* the leader of each group
    handover   \* the target of an accepted FAILOVER that has not happened yet

clusterVars == <<proc, leader, handover>>

Members(g) == {n \in Nodes : GroupOf[n] = g}

ClusterTypeOK ==
    /\ proc \in [Nodes -> {"down", "joining", "connected"}]
    /\ leader \in [Groups -> Nodes \cup {None}]
    /\ handover \in [Groups -> Nodes \cup {None}]

\* A healthy cluster: every group has a leader, every process is connected.
ClusterInit ==
    /\ proc = [n \in Nodes |-> "connected"]
    /\ leader \in {l \in [Groups -> Nodes] : \A g \in Groups : GroupOf[l[g]] = g}
    /\ handover = [g \in Groups |-> None]

Connected(n) == proc[n] = "connected"

\* The connected masters and replicas of a CLUSTER NODES answer.
Masters == {n \in Nodes : Connected(n) /\ leader[GroupOf[n]] = n}
Replicas == {n \in Nodes : Connected(n)} \ Masters

\* A leader only ever is a member of its group that runs.
LeadersRun ==
    \A g \in Groups : leader[g] # None => GroupOf[leader[g]] = g /\ Connected(leader[g])

(***************************************************************************)
(* What eloqctl does to a process                                          *)
(***************************************************************************)

\* kill -9; the group of a killed leader has no leader until it elects one.
KillNode(n) ==
    /\ proc' = [proc EXCEPT ![n] = "down"]
    /\ leader' = [leader EXCEPT ![GroupOf[n]] = IF @ = n THEN None ELSE @]
    /\ UNCHANGED handover

\* The process is started when ps does not find it.
LaunchNode(n) ==
    /\ proc' = [proc EXCEPT ![n] = IF @ = "down" THEN "joining" ELSE @]
    /\ UNCHANGED <<leader, handover>>

(***************************************************************************)
(* What the cluster does by itself                                         *)
(***************************************************************************)

\* A started process joins its group.
Join(n) ==
    /\ proc[n] = "joining"
    /\ proc' = [proc EXCEPT ![n] = "connected"]
    /\ UNCHANGED <<leader, handover>>

\* A group without a leader elects a connected member.
Elect(g) ==
    /\ leader[g] = None
    /\ \E n \in Members(g) : Connected(n) /\ leader' = [leader EXCEPT ![g] = n]
    /\ UNCHANGED <<proc, handover>>

\* An accepted FAILOVER takes effect, or is dropped when its target is gone.
Handover(g) ==
    /\ handover[g] # None
    /\ handover' = [handover EXCEPT ![g] = None]
    /\ leader' = IF Connected(handover[g]) THEN [leader EXCEPT ![g] = handover[g]] ELSE leader
    /\ UNCHANGED proc

\* Leadership moves to another member, as the preferred-leader logic does.
Move(g) ==
    /\ MayMove
    /\ leader[g] # None
    /\ \E n \in Members(g) \ {leader[g]} : Connected(n) /\ leader' = [leader EXCEPT ![g] = n]
    /\ UNCHANGED <<proc, handover>>
=============================================================================
