------------------------------- MODULE Scale -------------------------------
(***************************************************************************)
(* eloqctl scale: tx nodes are added to or removed from a running cluster. *)
(* A run asks the servers for the change over gRPC, rewrites the ini files *)
(* of the upload directory from the configuration the servers answer with, *)
(* uploads them, starts or stops processes, waits for the change to end,   *)
(* and only then saves the topology (the index and the topology table).    *)
(* Any task may fail, which ends the run with everything before it done.   *)
(*                                                                         *)
(* Ports, the separators of the node lists and the roles in the topology   *)
(* table are left out; a list is the set of its nodes, and a request also  *)
(* has the nodes it lists again (a third mention is left out).  Of the     *)
(* order of a group's candidates only who comes first is kept: that one is *)
(* written down as the master.                                             *)
(***************************************************************************)
EXTENDS Naturals, FiniteSets

CONSTANTS Nodes,        \* host:port pairs
          HostOf,       \* the host of a node
          Groups,       \* node groups
          InitConfig,   \* the deployed cluster
          MaxRuns,      \* how many scale commands are given
          MaxFaults,    \* how many tasks or servers fail
          MaxRepeats,   \* how many nodes a request lists twice
          None          \* no value

VARIABLES
    live,     \* the configuration the servers run with
    target,   \* the change they have accepted and not finished, or None
    event,    \* what they know of this run's event id
    running,  \* nodes whose process runs
    data,     \* nodes whose directories exist on their host
    remote,   \* the ini file of a node on its host
    index,    \* the saved topology: tx_host_ports, standby_, voter_host_ports
    rows,     \* nodes with a row in t_topology_tx
    file,     \* SCALED_CLUSTER_CONFIG in the upload directory, or None
    ini,      \* the ini file of a node in the upload directory
    step,     \* the task the run is at
    op,       \* the filtered request
    before,   \* all_nodes_before_scale
    seen,     \* whether the last topology task delivered a master
    reply,    \* the configuration ScaleOpTask forwarded, or None
    todo,     \* what is left of the uploads, starts, stops or clean-ups
    blind,    \* the status check passed without seeing FINISHED
    unsaved,  \* a write of the topology table failed, which is only reported
    runs, faults

server == <<live, target, event>>
hosts  == <<running, data, remote>>
local  == <<index, rows, file, ini>>
vars   == <<live, target, event, running, data, remote, index, rows, file, ini,
            step, op, before, seen, reply, todo, blind, unsaved, runs, faults>>

(***************************************************************************)
(* Configurations and node lists                                           *)
(***************************************************************************)

Idle == {"idle", "done", "failed"}

\* A group has its candidates, the first of them, and its voters.
Group == [first : Nodes, cands : SUBSET Nodes, voters : SUBSET Nodes]
Configs == [Groups -> Group]

Candidates(c) == UNION {c[g].cands : g \in Groups}
Voters(c)     == UNION {c[g].voters : g \in Groups}
Members(c)    == Candidates(c) \cup Voters(c)
Masters(c)    == {c[g].first : g \in {h \in Groups : c[h].cands # {}}}

\* format_node_lists: the first candidate of a group is its master.
FormatNodeLists(c) == [m |-> Masters(c), r |-> Candidates(c) \ Masters(c), v |-> Voters(c)]

\* Node lists as the index and the ini files hold them; the last two are optional.
Lists == [m : SUBSET Nodes, r : {None} \cup SUBSET Nodes, v : {None} \cup SUBSET Nodes]

\* An optional list, and one that is written only when it is not empty.
Opt(l) == IF l = None THEN {} ELSE l
Filled(l, old) == IF l # {} THEN l ELSE old

\* The nodes of the saved topology.  A list that is given but empty is refused
\* whenever the topology is loaded again.
Indexed == index.m \cup Opt(index.r) \cup Opt(index.v)
Loadable == index.r # {} /\ index.v # {}
IndexCandidates == index.m \cup Opt(index.r)

\* A deployed cluster has groups, and every group a first candidate.
ASSUME ScaleAssumption ==
    /\ MaxRuns \in Nat /\ MaxFaults \in Nat /\ MaxRepeats \in Nat
    /\ IsFiniteSet(Nodes) /\ DOMAIN HostOf = Nodes
    /\ Groups # {} /\ InitConfig \in Configs
    /\ \A g \in Groups : InitConfig[g].first \in InitConfig[g].cands
    /\ None \notin Configs \cup Lists /\ \A S \in SUBSET Nodes : S # None

HostsOf(ns) == {HostOf[n] : n \in ns}
At(ns, h) == {n \in ns : HostOf[n] = h}

(***************************************************************************)
(* The servers, as the scale tasks use them                                *)
(***************************************************************************)

\* What add_peers and remove_node make of a group; a node that is a member already
\* stays as it is.  Behind a removed first candidate any other may be the next.
After(g) ==
    LET new == IF op.kind = "add" /\ g = op.group THEN op.nodes \ Members(live) ELSE {}
        gone == IF op.kind = "remove" THEN op.nodes ELSE {}
        cands == (live[g].cands \ gone) \cup (IF op.cand THEN new ELSE {})
        voters == (live[g].voters \ gone) \cup (IF op.cand THEN {} ELSE new)
    IN {[first |-> n, cands |-> cands, voters |-> voters] :
            n \in IF live[g].first \in cands THEN {live[g].first} ELSE cands}

Wanted == {c \in [Groups -> UNION {After(g) : g \in Groups}] : \A g \in Groups : c[g] \in After(g)}

\* One change at a time, and no group is left without a candidate.
Acceptable == target = None /\ Wanted # {}

Fault == faults < MaxFaults /\ faults' = faults + 1

\* An accepted change ends once the nodes it adds are up.
ServerFinishes ==
    /\ target # None
    /\ Members(target) \ Members(live) \subseteq running
    /\ live' = target /\ target' = None
    /\ event' = IF event = "open" THEN "finished" ELSE event
    /\ UNCHANGED <<hosts, local, step, op, before, seen, reply, todo, blind, unsaved, runs, faults>>

\* The event id is not found: the change was lost with a log leader.
ServerForgets ==
    /\ target # None /\ Fault
    /\ target' = None /\ event' = "unknown"
    /\ UNCHANGED <<live, hosts, local, step, op, before, seen, reply, todo, blind, unsaved, runs>>

(***************************************************************************)
(* The plan of a run                                                       *)
(***************************************************************************)

NoOp == [kind |-> "add", nodes |-> {}, again |-> {}, cand |-> FALSE, group |-> CHOOSE g \in Groups : TRUE]

\* Hosts whose ini files are uploaded: all of the saved topology, but for a
\* removal none that loses a node.
UploadHosts(o) ==
    HostsOf(Indexed) \ (IF o.kind = "remove" THEN HostsOf(o.nodes) ELSE {})

\* Such a host without a file has its files generated while the plan is built.
NeedyHosts(o) == {h \in UploadHosts(o) : \A n \in At(Nodes, h) : ini[n] = None}

\* Fault: only the files that exist already are uploaded.
UploadListNoNew(o) ==
    {n \in Nodes : HostOf[n] \in UploadHosts(o) /\ ini[n] # None}
        \cup (UNION {At(Indexed, h) : h \in NeedyHosts(o)})

\* The files a run uploads are listed when the plan is built; those of added
\* nodes do not exist yet.
UploadList(o) ==
    {n \in Nodes : HostOf[n] \in UploadHosts(o) /\ ini[n] # None}
        \cup (UNION {At(Indexed, h) : h \in NeedyHosts(o)})
        \cup (IF o.kind = "add" THEN o.nodes ELSE {})

\* Nodes that exist already are not added, absent ones not removed; a request
\* with nothing left is a no-op.  A node that stays is listed as often as before.
Effective(o) ==
    LET keep(ns) == IF o.kind = "add" THEN ns \ Indexed ELSE ns \cap Indexed
    IN [o EXCEPT !.nodes = keep(@), !.again = keep(@)]
idempotent_noop_message(o) == Effective(o).nodes = {}

\* The saved topology is loaded, the request filtered against it and the plan
\* built.
Begin(o) ==
    /\ step \in Idle /\ runs < MaxRuns
    /\ Loadable
    /\ ~idempotent_noop_message(o)
    /\ op' = Effective(o) /\ before' = Indexed
    /\ step' = "topology" /\ todo' = UploadList(op')
    /\ ini' = IF NeedyHosts(op') = {} THEN ini
              ELSE [n \in Nodes |-> IF n \in Indexed THEN index ELSE ini[n]]
    /\ event' = "unknown" /\ seen' = FALSE /\ reply' = None
    /\ blind' = FALSE /\ unsaved' = FALSE
    /\ runs' = runs + 1
    /\ UNCHANGED <<live, target, hosts, index, rows, file, faults>>

\* A task of the run returns an error, or eloqctl is interrupted.
Fails ==
    /\ step \notin Idle
    /\ Fault
    /\ step' = "failed"
    /\ UNCHANGED <<server, hosts, local, op, before, seen, reply, todo, blind, unsaved, runs>>

(***************************************************************************)
(* Up to the gRPC                                                          *)
(***************************************************************************)

CandidatesAfter ==
    IF op.kind = "remove" THEN IndexCandidates \ op.nodes
    ELSE IndexCandidates \cup (IF op.cand THEN op.nodes ELSE {})

\* RedisOpTask: no answer is a success that sends nothing.
ReadTopology ==
    /\ \/ /\ step = "topology"
          /\ step' = IF op.kind = "add" THEN "prepare" ELSE "rpc"
          /\ seen' = (IndexCandidates \cap running # {})
       \/ /\ step = "post"
          /\ step' = "check"
          /\ seen' = (CandidatesAfter \cap running # {})
    /\ UNCHANGED <<server, hosts, local, op, before, reply, todo, blind, unsaved, runs, faults>>

ReadTopologyFails ==
    /\ step \in {"topology", "post"}
    /\ Fault
    /\ step' = IF step = "post" THEN "check" ELSE IF op.kind = "add" THEN "prepare" ELSE "rpc"
    /\ seen' = FALSE
    /\ UNCHANGED <<server, hosts, local, op, before, reply, todo, blind, unsaved, runs>>

\* A new host has no recorded node; the sync of its binaries deletes whatever it
\* does not bring, the directories just made included.
NewHosts == HostsOf(op.nodes) \ HostsOf(before)
Sync(hs) ==
    /\ data' = {n \in data \cup op.nodes : HostOf[n] \notin hs}
    /\ remote' = [n \in Nodes |-> IF HostOf[n] \in hs THEN None ELSE remote[n]]

\* Directories of the added nodes, one task after the other, then the new hosts.
Prepare ==
    /\ step = "prepare"
    /\ Sync(NewHosts)
    /\ step' = "rpc"
    /\ UNCHANGED <<server, running, local, op, before, seen, reply, todo, blind, unsaved, runs, faults>>

\* Some directories are made, or all and some hosts synced, when a task fails.
PrepareFails ==
    /\ step = "prepare" /\ Fault
    /\ \/ \E made \in SUBSET op.nodes : data' = data \cup made /\ UNCHANGED remote
       \/ \E hs \in SUBSET NewHosts : Sync(hs)
    /\ step' = "failed"
    /\ UNCHANGED <<server, running, local, op, before, seen, reply, todo, blind, unsaved, runs>>

\* ScaleOpTask with the answer SUCCESS; the configuration may be missing from it.
ScaleOp ==
    /\ step = "rpc" /\ seen /\ Acceptable
    /\ target' \in Wanted /\ event' = "open"
    /\ \/ reply' = target' /\ UNCHANGED faults
       \/ reply' = None /\ Fault
    /\ step' = "conf"
    /\ UNCHANGED <<live, hosts, local, op, before, seen, todo, blind, unsaved, runs>>

\* No master to ask, or a refusal.
ScaleOpRefused ==
    /\ step = "rpc" /\ ~(seen /\ Acceptable)
    /\ step' = "failed"
    /\ UNCHANGED <<server, hosts, local, op, before, seen, reply, todo, blind, unsaved, runs, faults>>

\* The change is accepted and its answer lost.
ScaleOpLost ==
    /\ step = "rpc" /\ seen /\ Acceptable
    /\ Fault
    /\ target' \in Wanted /\ event' = "open"
    /\ step' = "failed"
    /\ UNCHANGED <<live, hosts, local, op, before, seen, reply, todo, blind, unsaved, runs>>

(***************************************************************************)
(* Configuration files                                                     *)
(***************************************************************************)

\* The [cluster] section of a file: an empty list does not replace a value.
UpdateIni(old, l) == [m |-> l.m, r |-> Filled(l.r, old.r), v |-> Filled(l.v, old.v)]

\* update_configs: every file of the upload directory is rewritten, those of
\* removed nodes are deleted and those of added ones generated.
UpdateConfigs(l) ==
    [n \in Nodes |->
        CASE op.kind = "remove" /\ n \in op.nodes -> None
          [] op.kind = "add" /\ n \in op.nodes    -> UpdateIni(index, l)
          [] n \notin op.nodes /\ ini[n] # None   -> UpdateIni(ini[n], l)
          [] OTHER -> None]

\* Fault: a missing configuration is replaced by the file of an earlier run.
TxConfUpdateLenient ==
    /\ step = "conf" /\ {reply, file} # {None}
    /\ file' = IF reply # None THEN reply ELSE file
    /\ ini' = UpdateConfigs(FormatNodeLists(file'))
    /\ step' = "upload"
    /\ UNCHANGED <<server, hosts, index, rows, op, before, seen, reply, todo, blind, unsaved, runs, faults>>

\* TxConfUpdateTask: the configuration is kept in the upload directory.
TxConfUpdate ==
    /\ step = "conf" /\ reply # None
    /\ file' = reply
    /\ ini' = UpdateConfigs(FormatNodeLists(reply))
    /\ step' = "upload"
    /\ UNCHANGED <<server, hosts, index, rows, op, before, seen, reply, todo, blind, unsaved, runs, faults>>

TxConfUpdateFails ==
    /\ step = "conf" /\ reply = None
    /\ step' = "failed"
    /\ UNCHANGED <<server, hosts, local, op, before, seen, reply, todo, blind, unsaved, runs, faults>>

UploadConfig(n) ==
    /\ step = "upload" /\ n \in todo
    /\ remote' = [remote EXCEPT ![n] = ini[n]]
    /\ todo' = todo \ {n}
    /\ UNCHANGED <<server, running, data, local, step, op, before, seen, reply, blind, unsaved, runs, faults>>

EndUploads ==
    /\ step = "upload" /\ todo = {}
    /\ step' = IF op.kind = "add" THEN "start" ELSE "check"
    /\ todo' = IF op.kind = "add" THEN op.nodes ELSE {}
    /\ UNCHANGED <<server, hosts, local, op, before, seen, reply, blind, unsaved, runs, faults>>

(***************************************************************************)
(* Processes and the end of the change                                     *)
(***************************************************************************)

\* A started server makes the directories it misses.
StartNode(n) ==
    /\ step = "start" /\ n \in todo
    /\ running' = running \cup {n}
    /\ data' = data \cup {n}
    /\ todo' = todo \ {n}
    /\ UNCHANGED <<server, remote, local, step, op, before, seen, reply, blind, unsaved, runs, faults>>

EndStarts ==
    /\ step = "start" /\ todo = {}
    /\ step' = "post"
    /\ UNCHANGED <<server, hosts, local, op, before, seen, reply, todo, blind, unsaved, runs, faults>>

\* get_endpoint finds nobody to ask and panics; a task that panics is dropped
\* from the results of its batch.
NobodyToAsk == IF op.kind = "add" THEN ~seen ELSE CandidatesAfter = {}

\* The tasks that stop the removed nodes are planned with the rest: making them
\* cannot fail (from_config_with_channel has no error), whatever its caller warns of.
AfterCheck ==
    /\ step' = IF op.kind = "add" THEN "save" ELSE "stop"
    /\ todo' = IF op.kind = "add" THEN {} ELSE op.nodes
    /\ UNCHANGED <<server, hosts, local, op, before, seen, reply, unsaved, runs, faults>>

\* Fault: the status is asked once and IN_PROGRESS will do.
CheckScaleStatusOnce ==
    /\ step = "check"
    /\ blind' = (NobodyToAsk \/ event = "unknown")
    /\ AfterCheck

\* CheckTxClusterScaleStatusTask: FINISHED ends the polling, and so does
\* NOT_STARTED, which is an event id the servers do not know.
CheckScaleStatus ==
    /\ step = "check"
    /\ NobodyToAsk \/ event # "open"
    /\ NobodyToAsk \/ op.kind = "add" \/ CandidatesAfter \cap running # {}
    /\ blind' = (NobodyToAsk \/ event = "unknown")
    /\ AfterCheck

\* Ten minutes in progress; or the one node a removal asks does not answer.
CheckTimesOut ==
    /\ step = "check" /\ ~NobodyToAsk
    /\ event = "open" \/ (op.kind = "remove" /\ ~(CandidatesAfter \subseteq running))
    /\ step' = "failed"
    /\ UNCHANGED <<server, hosts, local, op, before, seen, reply, todo, blind, unsaved, runs, faults>>

StopNode(n) ==
    /\ step = "stop" /\ n \in todo
    /\ running' = running \ {n}
    /\ todo' = todo \ {n}
    /\ UNCHANGED <<server, data, remote, local, step, op, before, seen, reply, blind, unsaved, runs, faults>>

EndStops ==
    /\ step = "stop" /\ todo = {}
    /\ step' = "save"
    /\ UNCHANGED <<server, hosts, local, op, before, seen, reply, todo, blind, unsaved, runs, faults>>

(***************************************************************************)
(* Saving the topology and cleaning up                                     *)
(***************************************************************************)

\* DbDeploymentUpdateTask: a file in the upload directory wins over what was
\* received, whichever run wrote it.
ConfigToSave == IF file # None THEN file ELSE reply

\* A removal that leaves a list empty saves the empty list.
DbDeploymentUpdate ==
    /\ step = "save"
    /\ LET l == FormatNodeLists(ConfigToSave)
           none(old) == IF op.kind = "remove" THEN {} ELSE old
       IN index' = [m |-> Filled(l.m, index.m),
                    r |-> Filled(l.r, none(index.r)),
                    v |-> Filled(l.v, none(index.v))]
    /\ step' = "table"
    /\ UNCHANGED <<server, hosts, rows, file, ini, op, before, seen, reply, todo, blind, unsaved, runs, faults>>

\* get_topology_from_cluster_config_file: the nodes of that file, too.
FileTopology == Members(file)

\* The plan names the nodes whose rows are to go.
RemovedNodes == IF op.kind = "remove" THEN op.nodes ELSE {}

\* The topology is displayed; a removal goes on to clean up.
AfterTable ==
    /\ step' = IF op.kind = "add" THEN "done" ELSE "clean"
    /\ todo' = IF op.kind = "add" THEN {} ELSE op.nodes
    /\ UNCHANGED <<server, hosts, index, file, ini, op, before, seen, reply, blind, runs>>

\* Fault: the rows of removed nodes stay.
TopologyUpdateKeeps ==
    /\ step = "table"
    /\ rows' = rows \cup FileTopology
    /\ AfterTable /\ UNCHANGED <<unsaved, faults>>

\* TopologyUpdateTask: rows of removed nodes are deleted, those of the file put.
TopologyUpdate ==
    /\ step = "table"
    /\ rows' = (rows \ RemovedNodes) \cup FileTopology
    /\ AfterTable /\ UNCHANGED <<unsaved, faults>>

\* Deletes and puts that fail are counted: the task is still Ok, and the run goes on.
TopologyUpdateFalters ==
    /\ step = "table" /\ Fault
    /\ \E kept \in SUBSET RemovedNodes, put \in SUBSET FileTopology :
           rows' = (rows \ (RemovedNodes \ kept)) \cup put
    /\ unsaved' = TRUE
    /\ AfterTable

\* How often the request names nodes of a host: a repeated one counts twice.
Mentions(h) == Cardinality(At(op.nodes, h)) + Cardinality(At(op.again, h))

\* Fault: one node may remain on a host that is wiped.
IsLastNodeOffByOne(h) == Cardinality(At(before, h)) <= Mentions(h) + 1

IsLastNode(h) == Cardinality(At(before, h)) <= Mentions(h)

\* The installation of a host that is left without a recorded node is removed
\* as a whole; elsewhere the removed nodes' directories are (not the ini files,
\* which are not where the command looks for them).
CleanHost(h) ==
    /\ step = "clean" /\ At(todo, h) # {}
    /\ IF IsLastNode(h)
       THEN /\ data' = data \ At(Nodes, h)
            /\ remote' = [n \in Nodes |-> IF HostOf[n] = h THEN None ELSE remote[n]]
       ELSE data' = data \ At(op.nodes, h) /\ UNCHANGED remote
    /\ todo' = todo \ At(todo, h)
    /\ UNCHANGED <<server, running, local, step, op, before, seen, reply, blind, unsaved, runs, faults>>

EndClean ==
    /\ step = "clean" /\ todo = {}
    /\ step' = "done"
    /\ UNCHANGED <<server, hosts, local, op, before, seen, reply, todo, blind, unsaved, runs, faults>>

(***************************************************************************)
(* The specification                                                       *)
(***************************************************************************)

\* A list that is not configured is None.
Given(l) == IF l = {} THEN None ELSE l

InitIndex ==
    LET l == FormatNodeLists(InitConfig) IN [m |-> l.m, r |-> Given(l.r), v |-> Given(l.v)]

\* A deployed cluster that was never scaled.
Init ==
    /\ live = InitConfig /\ target = None /\ event = "unknown"
    /\ running = Members(InitConfig) /\ data = running /\ rows = running
    /\ index = InitIndex /\ file = None
    /\ ini = [n \in Nodes |-> IF n \in running THEN index ELSE None]
    /\ remote = ini
    /\ step = "idle" /\ op = NoOp /\ before = {} /\ seen = FALSE
    /\ reply = None /\ todo = {} /\ blind = FALSE /\ unsaved = FALSE
    /\ runs = 0 /\ faults = 0

\* Nodes listed twice only make a difference to a removal.
Requests ==
    [kind : {"add"}, nodes : SUBSET Nodes, again : {{}}, cand : BOOLEAN, group : Groups]
        \cup {o \in [kind : {"remove"}, nodes : SUBSET Nodes, again : SUBSET Nodes,
                     cand : {FALSE}, group : {NoOp.group}] :
                 o.again \subseteq o.nodes /\ Cardinality(o.again) <= MaxRepeats}

\* The steps a run takes when nothing fails.
Advance ==
    \/ ReadTopology \/ Prepare \/ ScaleOp \/ ScaleOpRefused
    \/ TxConfUpdate \/ TxConfUpdateFails
    \/ EndUploads \/ EndStarts \/ CheckScaleStatus \/ CheckTimesOut \/ EndStops
    \/ DbDeploymentUpdate \/ TopologyUpdate \/ EndClean
    \/ \E n \in Nodes : UploadConfig(n) \/ StartNode(n) \/ StopNode(n)
    \/ \E h \in HostsOf(Nodes) : CleanHost(h)

Next ==
    \/ Advance
    \/ \E o \in Requests : Begin(o)
    \/ Fails \/ ReadTopologyFails \/ PrepareFails \/ ScaleOpLost \/ TopologyUpdateFalters
    \/ ServerFinishes \/ ServerForgets

Spec == Init /\ [][Next]_vars

(***************************************************************************)
(* Properties                                                              *)
(***************************************************************************)

\* The types of the variables; index and ini files hold formatted node lists.
TypeOK ==
    /\ live \in Configs /\ {target, file, reply} \subseteq Configs \cup {None}
    /\ event \in {"unknown", "open", "finished"}
    /\ running \subseteq Nodes /\ data \subseteq Nodes /\ rows \subseteq Nodes
    /\ before \subseteq Nodes /\ todo \subseteq Nodes
    /\ index \in Lists
    /\ ini \in [Nodes -> Lists \cup {None}] /\ remote \in [Nodes -> Lists \cup {None}]
    /\ step \in Idle \cup {"topology", "prepare", "rpc", "conf", "upload", "start", "post",
                           "check", "stop", "save", "table", "clean"}
    /\ op \in Requests /\ {seen, blind, unsaved} \subseteq BOOLEAN
    /\ runs \in 0 .. MaxRuns /\ faults \in 0 .. MaxFaults

\* A scale that succeeds after seeing FINISHED leaves servers, index and hosts in
\* agreement about the nodes it was asked for and no member unrecorded, whatever
\* earlier runs left behind; and so is the topology table, unless one of its writes
\* failed, which TopologyUpdateTask only reports.
DoneMeansRecorded ==
    step = "done" /\ ~blind =>
        /\ Members(live) \subseteq Indexed
        /\ op.kind = "add" => op.nodes \subseteq Members(live) \cap Indexed \cap running
        /\ op.kind = "remove" => op.nodes \cap (Members(live) \cup Indexed \cup running \cup data) = {}
        /\ ~unsaved => /\ Members(live) \subseteq rows
                       /\ op.kind = "remove" => op.nodes \cap rows = {}

\* DbDeploymentUpdateTask reads the topology from a file that outlives runs:
\* what it saves is still what the servers run with, never an earlier run's.
SavedMatchesServer ==
    [][index' # index /\ ~blind => index'.m = Masters(live) /\ Members(live) \subseteq Indexed']_vars

\* A recorded node on the host of n is listed twice in the request.
Repeated(n) == At(op.again, HostOf[n]) # {}

\* Neither the sync of a new host nor a clean-up takes the directories of a node
\* that was recorded when the run began, but for the stopped ones it was to remove.
\* The exception is a host of which --remove-nodes lists a node twice.
WipesNoRecordedNode ==
    [][\A n \in data \ data' :
          n \in before => op.kind = "remove" /\ (n \in op.nodes \ running \/ Repeated(n))]_vars

\* The comment at is_last_node: the whole installation goes when the last node of a
\* host is removed.  Lengths of lists are compared, so a repeated node will do.
WipesOnlyAfterTheLast ==
    [][\A n \in data \ data' : n \in before => n \in op.nodes]_vars

\* A process is stopped only once the servers have dropped the node, unless the
\* status check passed without an answer.
StopsAfterRemoval ==
    [][\A n \in running \ running' : n \in Members(live) => blind]_vars

\* An added node is started with a file of this run on its host: the masters the
\* servers answered with, and the node itself in one of the lists.
StartsWithCurrentConfig ==
    [][\A n \in running' \ running :
           /\ remote[n] # None /\ reply # None /\ remote[n].m = Masters(reply)
           /\ n \in remote[n].m \cup Opt(remote[n].r) \cup Opt(remote[n].v)]_vars
=============================================================================
