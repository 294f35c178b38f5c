# A TLA+ verification of eloqctl

`eloqctl` (crate `src/cluster_mgr`) deploys, upgrades, reconfigures, scales and
backs up EloqKV clusters over ssh and the Redis protocol. It has no server of its
own: each command is a process on a control host that reads the desired state from
SQLite and YAML, builds a plan of tasks, runs the tasks concurrently against the
hosts, and exits. What makes it hard is what happens between the tasks: other
`eloqctl` processes, servers that die, elect and recover on their own, tasks that
fail in one of several ways (an `Err`, a status code inside an `Ok`, a panic), a
kill of the command at any point, and a second run of the same command afterwards.

## 1. Inventory

| component | state | operations | talks to |
|---|---|---|---|
| mutation lock (`cli/cmd_base.rs`) | the file `<cluster>.lock` with a pid | acquire, is_stale, reclaim, Drop | other eloqctl processes, `/proc` |
| task plans (`task_base.rs`, groups) | an IndexMap of tasks, a list of stage lengths | merge_execution, split_task, the builders of each group | the task controller |
| task controller (`task_controller.rs`, `task_base.rs`) | stage, spawned tasks, bounded result channel, rows of `t_task_status` | run_all_tasks, run_task_split, readers of the channel | SQLite, every task |
| observation and health gate (`cmd_base.rs`, `reconcile.rs`, the status tasks) | observed rows, waiting times | status tasks, RedisProbe, judging, second probes | servers |
| EloqKV cluster (not in this repository) | processes, group leaders, accepted failovers | join, elect, hand over | rolling tasks |
| rolling upgrade (`rolling_upgrade/`, `failover_op_task.rs`, `wait_replica_ready_task.rs`, `redis_op_task.rs`) | chosen nodes, binaries on disk and in processes, log service | the steps of build_upgrade_steps | cluster, task controller, gate |
| rolling config restart (same files) | first and second batch | the steps of build_config_restart_steps | cluster |
| plan and apply (`cmd_base.rs`, `topology_update_task.rs`, upload builders) | desired topology, index, local files, remote files, processes | build_reconcile_plan, apply_topology | index, hosts, config restart, monitor |
| scale (`scale_group.rs`, `scale_op_task.rs`, `tx_conf_update_task.rs`, `check_tx_cluster_scale_status_task.rs`, `db_update_task.rs`, `topology_update_task.rs`) | the servers' configuration, saved topology, topology table, node files here and on the hosts, processes, directories | gRPC scale call, file edits and uploads, start or stop, polling, saving, clean-up | servers, SQLite, hosts |
| scalelog | log replicas | gRPC and file updates for the log service | servers, SQLite |
| state store (`state/`) | SQLite tables of clusters, tasks, topology, snapshots | upserts, deletes, queries | every command |
| deploy, launch, install, start, stop, restart, failover, remove (`task/group/`, the control tasks) | installed versions, recorded task success, index, processes of tx, log and data store service, local data | the stages of each task group | SQLite, hosts, servers |
| download, unpack and upload (`download_task.rs`, `local_extract_task.rs`, `upload/`) | `<name>.partial`, `<name>` and the extracted tree in the user's cache | resumed download, extraction, rsync | HTTP server, hosts, other eloqctl processes |
| backup and restore (`backup_group.rs`, `backup_task.rs`, the S3 tasks) | snapshot rows, snapshot objects or directories, the database's manifests | start, remove, restore, list, dump | servers, S3, hosts |
| monitor | Prometheus, Grafana, exporters | start, stop, update | hosts |
| configuration, ssh, command line | YAML and INI | parse and render; sessions; argument parsing | hosts |

What is hard in it:

- **concurrency**: commands race for the lock file; tasks of a stage race for the
  channel; observation is not a snapshot; leadership moves during an upgrade.
- **failure**: a task may fail with an `Err`, with `CMD_STATUS` 1 inside an `Ok`,
  or by a panic, and the three are treated differently by different callers.
- **crash and retry**: nothing is transactional; a retried command starts from the
  beginning against whatever the last run left, behind the health gate.
- **ordering**: the order of index, files, restart and failover decides what a
  crash can leave behind and whether a group stays served.
- **timeouts**: waits that give up count as success; a probe may never give up.

What makes each component correct, in the terms of the properties below: the lock
excludes and is reclaimed; stages run in order, stop on errors and end; a plan cut
into stages is the plan that was merged; a passed gate has seen what it claims and
a healthy cluster passes; an upgrade that completes upgraded every process, keeps
every group served and converges under retries; a configuration reaches every
place in one order and an apply that reports success applied it; a scale that ends
well leaves servers, saved topology, table and hosts in agreement, and no scale
takes the data of a node it was not told to remove; an archive that is staged is
the one that was published, whatever an interrupted download left; a restore that
reports success has put back the snapshot, and a record outlives the files it
names; a start that reports success serves, on a log service that has its leaders,
and repeating it gets there; and records of a removed cluster do not outlive it.

## 2. Modules

Every module is written from the Rust source; `PROJECT.json` maps each definition
to its lines. Definitions with a comment that begins with `Fault:` are variations
of the definition after them, a plausible slip in the same code; no specification
uses them. They show that each property depends on the code it is about.

**MutationLock** models `ClusterMutationLock`. One action is one system call:
`OpenCreates`/`OpenExists` (create_new), `WriteContent`, `ReadLock` and `CheckProc`
(is_stale), `RemoveStale` (remove_file and the recursive call), `Release` (Drop),
`Exit`. `Crash` kills a process at any point, `OtherProcess` lets the kernel reuse
pids. A file is identified by the process that created it, its inode; `stolen`
records that a reclaimer unlinked another file than the one it had judged.

**TaskController** models `run_all_tasks` with `run_task_split`, the status row
(`post_task_execute!`), the bounded channel and its four kinds of callers: commands
and `remove` (a reader is spawned first), `observe_cluster` (drains after the run)
and the steps of a rolling upgrade (nobody reads). The capacity is given per
caller so that one instance has both a channel that is often full and one with
room; in the code it is 2000 for all of them.

**StagedRun** is what the stage engine promises, without its channel, rows, readers
and spawned tasks: a run is in one stage, the tasks of a stage begin and end in any
order, the next stage begins when all have ended and, for a caller that stops on
errors, when none has failed. `ImplementsStagedRun` in TaskController is the
refinement (the mapping is at the end of that module).

**TaskPlan** models `merge_execution`, `split_task` and `build_config_update`: an
IndexMap as an injective sequence, the list of lengths and, as history, the stages
that were asked for (together the record `plan`), and the cut.

**HealthGate** models `ensure_critical_services_healthy` and the running-tx test of
`install`: status tasks that dial (tx, standby) or look at `ps` (voter, log, dss),
the loop of `RedisProbe::probe` with its countdown, the words the outputs are read
as, the judgement and the second probes, while `Drift` changes the processes.

**EloqCluster** is the external cluster as the rolling tasks see it: processes,
group leaders, accepted failovers, and `Join`, `Elect`, `Handover`, `Move`. It is
extended by both rolling modules. A killed leader leaves its group without one.

**RollingUpgrade** models `eloqctl update` of a cluster with or without standbys (the
variable `standby`): the steps of
`build_upgrade_steps` (see the module's head for the list), the soft failures of
waits and topology tasks, hard failures and interrupts that abort, and repeated
runs behind the gate. `excused` records that the current run began on an unsettled
cluster, met a soft failure, or saw leadership move unasked.

**ConfigRestart** models `update-conf --restart`: `build_config_restart_steps`, for
deployments with and without standbys.

**Apply** models `build_reconcile_plan` and `apply_topology`. The topology is
abstracted to one field of each kind the code treats differently (TLS, tx
settings, monitor settings, storage service, everything else); an optional field
may be left out. A value moves from the topology file to the index, the rows of the
topology table (`table`), the files of the control host, the files of the nodes and
the processes; the edit writes a row's whole configuration into a node's file. The execution of
`update-conf` is one action per place it changes; how the restart itself goes is
ConfigRestart's subject.

**Scale** models `eloqctl scale --add-nodes` and `--remove-nodes`: `Begin` filters
the request against the saved topology and lists the uploads (`ScaleTaskGroup::tasks`,
`build_with_nodes`); one action per task follows, in the order of the barriers. A
configuration has per group the set of candidates, the first of them and the set of
voters, as the servers answer it: the files and the index tell nothing else of the
order, and behind a removed first candidate any other may be the next (`After`).
`FormatNodeLists` turns it into the three lists the index and
the ini files hold, with the rules for empty lists kept. `ServerFinishes` and
`ServerForgets` are the servers; `blind` records that the status check passed
without FINISHED. A request is a list, in which a node may stand twice: `again`
has the nodes it lists a second time, and `IsLastNode` counts both mentions, as the
lengths the code compares do. Rows of the topology
table that could not be deleted or put are reported as `CMD_STATUS` 1 inside an `Ok`,
and the run goes on (`unsaved`). `Fails` is any task's error or a kill of the command,
`PrepareFails` one of the several tasks that `Prepare` stands for, and later
commands start from what is left. Assumed of the servers: one change at a time, no
group without a candidate, a change ends once the nodes it adds are up, and a
started server creates the directories it misses.

**Staging** models how a release archive reaches a host: `DownloadTask` (HEAD, cache
lookup, resumption with `Range`, attempts, the checks before the rename),
`LocalExtractTask` (wipe, unpack) and the upload. The cache belongs to the user and
the mutation lock to a cluster, so two invocations may be at it at once, through
file handles that follow a rename. Contents are sequences of bytes `<<version,
index>>`, so that a file pieced together from two publications is told from a whole
one. The asset may be republished under its URL; only URLs with the eight path
segments `expected_digest` wants have a digest. The server may or may not serve
ranges: without them a resumed request is answered 200 and the partial file stays
(`NotPartial`). HEAD may tell the asset's length, 0, nothing, or the length of another
page, since its status is not looked at; a response may come without a length and end
early without an error; a 206 may have another range than the one asked for. `misled`
records which of the last three has happened, where the code cannot notice.

**Backup** models `backup start`, `remove` and `restore` for RocksDB Cloud (a manifest
per node group), EloqStore cloud (a manifest per partition) and local directories:
the row of `t_snapshot_info`, the objects, and the database's manifests by epoch or
term. The files a finished row names are those the cluster reported, all of them or
none (`NamedFiles`). The delete tasks of a remove run at the same time. A triggered backup goes on
in the cluster whatever becomes of the command (`Take`), the cluster is stopped,
started and written to between commands, and partitions appear after a backup.

**Lifecycle** models deploy, launch, install, start, stop, restart, failover and
remove. A command is a sequence of stages taken from its task group
(`DeployStages`, `StartStages`, ...), and the tasks of the current stage run in any
order: the stage engine of TaskController at the level of StagedRun. The state is
what the commands leave behind: installed versions, the index row, recorded uploads,
processes, local data, the bootstrap. The data store service is inside the tx processes
or has peers of its own, several of which may share a host; the cleanup looks for the
peer listed last on a host (`LastPeer`) and cleans the paths of all. `stop --nodes`
with or without `--force` is `StopNodes`, `stop --tx false` is `StopServices`. Panicking
tasks are left to TaskController. `Elect`, `NodeDies`, `HostReplaced` and the
delayed exits of signalled processes are the environment; `Crash` kills the command.

`MC*` modules give the constants values; `*Proofs` modules hold theorems.

## 3. Runs

| run | instance | distinct states | what it shows |
|---|---|---|---|
| MutationLock | 3 commands, 3 pids, kills | 44 488 | one owner at most unless a reclaimer unlinked a file it had not judged (`ExclusiveUnlessStolen`); the file names the holder (`FileNamesHolder`); acquire ends (`AcquireEnds`) |
| TaskController | stages of 2, 1 and 1 tasks, all callers, panics | 20 316 | `BarrierRespected`, `FailStops`, `FinishIsLast`, `OkUnlessPanic`, `RunEnds`, and the refinement `ImplementsStagedRun` |
| TaskPlan | 4 ids, up to 4 merged stages, config updates with and without TLS | 8 769 | `StagesAsMeant`: the cut gives back the merged stages; `PanicMeansMisfit`: the only two ways to make it panic |
| HealthGate | a tx node, a voter and a log host with two processes, 1 s waits, panicking status tasks | 295 188 | `PassedMeansSeen`, `NoFalseRefusal`, `EndsUnlessMute` |
| RollingUpgrade | one group of 3, with and without standbys, two aborting faults, unlimited soft failures and moves | 95 771 | `DoneMeansUpgraded`, `LeaderKilledOnlyIfExcused`, `GroupServed` (with one node down at a time), `RetryConverges` |
| ConfigRestart | two groups of 2, with and without standbys | 15 518 | `MasterKeptWithoutReplica`, `DoneMeansMastersRestarted` |
| ConfigRestartStandby | one group of 2, nothing fails | violation | `StandbysRestarted` fails: only the second batch is started again |
| Apply | every field may change, two faults | 202 528 | `OkMeansApplied`, `IndexFirst` |
| Scale | a master, a standby and a voter on three hosts, a spare node on a used host and one on a new host; two commands, two faults, a request with one node twice | 473 738 | `DoneMeansRecorded`, `SavedMatchesServer`, `WipesNoRecordedNode`, `StopsAfterRemoval`, `StartsWithCurrentConfig` |
| Staging | two invocations, two publications of 2 and 3 bytes, two attempts, URLs with and without a digest, servers with and without ranges, other pages of 1 and 4 bytes; three faults, or one overlap and one fault where there is a digest | 4 415 614 | `DoneMeansGenuine`, `CacheNeverTorn`, `RetriesEndWell` |
| Backup | three backends, two units of which one may come later, two snapshots, two restores, one fault | 2 907 278 | `RestoreOkIsSnapshot`, `RecordOutlivesSweep`, `RemoveConverges` |
| Lifecycle | a tx node and its standby; besides starts, three commands, two versions and one fault with a local data store service, two commands and two faults with two remote peers on one host | 1 979 277 | `StartServes`, `TxOnLog`, `ForcedStopOrder`, `DssKeepsData`, `NoOrphanRecords`, `DeployOkInstalled`, `StartConverges` |

More configurations are kept beside the modules for the questions of section 5:
`MutationLockRace`, `ApplyRetry`, `ScaleRepeat`, `StagingDigest`, `StagingResume`,
`BackupRestore`, `LifecycleDss`, `LifecycleStop` and `LifecycleStopNodes` end in the
counterexample described there, and
`RollingUpgradeGroups` (two groups of two, 237 663 states) checks `GroupServed` and
`RetryConverges` where one failover of two may fail.

Bounds and why they are enough. Three commands are the owner of a stale file and
two reclaimers, the smallest set that shows the race; a third pid lets an
unrelated process take a dead command's pid. Three stages have a first, a middle
and a last one, and a stage of two tasks has tasks that end in either order; a
capacity of 2 makes senders wait. A wait of one second has a turn that waits and
one that does not. A group of three has a leader, a temporary leader and a node
that is neither. Two faults in Apply interrupt a run and the retry of it. In Scale
two commands are a run and what comes after it, and two spare nodes tell a host
that is in use from a new one. In Staging two bytes can be cut in the middle, the longer second
publication has a rest that a resumed download can append to the first, and three
faults break a download and its resumption and leave one for HEAD. Other pages are
shorter or longer than both publications. Overlapping invocations are explored where
there is a digest, since nothing is claimed of the others; there one fault besides the
overlap suffices to leave any kind of file behind. With two of them, on a server with
ranges that tells the truth, `DoneMeansGenuine` was checked too (4.9 million states).
In Backup two snapshots let a remove
take one and keep the other, two restores let one start from what another left, and
one fault is a crash or a failed call of any task. In Lifecycle three commands are
enough for deploy, a stop or remove that goes wrong, and what follows, with starts
in between without number; a tx node and a standby let leadership be where the
configuration has a standby. Two faults with remote peers let one peer die and the
stop or start of the other fail; three commands with one fault were checked there too
(2.5 million states). Versions matter to deploy only, which has the same stages in
both modes. All fault bounds are guards of the failing actions
(`Fault`), never of the rest.

`CHECK_DEADLOCK FALSE` is used where everybody simply ends (MutationLock,
TaskController, Scale) or, in Lifecycle, where a removed cluster takes no further
command.

Fairness. Weak fairness of an `eloqctl` step says that the process keeps running
unless killed: the runtime polls every future, and ssh, gRPC and Redis calls have
timeouts of their own. Panics, failures, interrupts, kills and unasked leadership
moves are never owed. In RollingUpgrade the servers owe joining, electing and the
handover they accepted, and the operator owes retries and `eloqctl start`; in
HealthGate the servers owe nothing, so termination is stated under the assumption
it needs. `RetryConverges` has a premise (`LetDown` does not go on
for ever): an accepted FAILOVER of an aborted run may take effect arbitrarily late,
in the middle of a later run, and nothing in this repository bounds
that delay. In Staging a failed invocation is run again; in Backup the operator
repeats `remove`; in Lifecycle the operator repeats `start`, log members elect
leaders and signalled processes end. Those retries are what the three convergence
properties are about: `doc/idempotency.md` asks that they get there.

## 4. Proofs

Every module that models a component has theorems that hold for every value of the
constants, from the named assumptions of their modules only (`LockAssumption`,
`PlanAssumption`, `ControllerAssumption`, `StagingAssumption`, `GateAssumption`,
`ClusterAssumption`, `RestartAssumption`, `UpgradeAssumption`, `ApplyAssumption`,
`ScaleAssumption`, `BackupAssumption`, `LifecycleAssumption`), which TLC evaluates in
the runs. Together they state every invariant and every action property that a
passing run checks. Every inductive invariant below was checked by TLC on the
instance of its run before it was proved (with the list of cuts computed, where
`PlanInv` says that there is one). The bounds on faults, runs and commands are
constants too, so the theorems hold for any number of them. Where one proof module
serves two components it extends both, and one of the two has names with a prefix
(`PlanSpec`, `StagingSpec`, `RestartSpec`); the specifications share nothing else.

- **CommandProofs**, the lock: `LockInvariant` proves `LockInv`; `Exclusion` and
  `HolderNamed` follow, for any number of commands, pids and kills. Exclusion alone
  is not inductive: that a reclaimer's unlink hits no live owner needs to know that
  a file with a pid in it was written by a process past the end of `acquire`, that
  what a reclaimer read is the owner's pid as long as the owner holds, and that a
  reclaimer which found the pid dead judged the file of a process that has ended.
- **CommandProofs**, the plan: `StagesComeBack` and `PanicsOnlyOnMisfit`, for any
  number of steps and stages of any length. `PlanInv` says that the recorded lengths
  have a list of cuts (`Cuts`), and how far split_task is in it. A plan without a
  misfit stands between its cuts, stage by stage, with nothing else in the map
  (`Fits`); a plan with one records more tasks than its map has, whatever follows, so
  its cut cannot reach the end and the program never runs wrong stages. `AddKeeps`
  proves both for one more stage, from `ExtendFacts`: an extension of the IndexMap
  appends the tasks, or grows the map by less if one is present. That the new tasks
  keep their order rests on `NthFacts`, an induction over data that goes by the least
  counterexample (`LeastNumber`, from the well-foundedness of the numbers).
- **TaskProofs**, the stages: `ControllerInvariant` proves the conjunction of typing,
  stage progress (`StageInv`), results (`ResultInv`) and channel contents
  (`ChanInv`); `Barrier`, `StopsOnError`, `ReaderSawAll` and `OkMeansDone` follow,
  for any plan, number of stages, capacity and caller. `ChanInv` is needed because
  "the reader has everything" depends on the order of messages behind it.
  `Refinement` proves that the engine implements StagedRun: the initial states map
  to initial states, and `StagedStep` shows that under the inductive invariant every
  step maps to a step of StagedRun or leaves its variables unchanged (sending,
  storing and reading results are stutters).
- **TaskProofs**, the archives: `ArchiveIsWhole` and `StagedIsGenuine`, for any number
  of invocations, publications, bytes, attempts and faults. `StagingInv` has two
  parts. While no two invocations have overlapped, nothing was republished and no
  answer has misled the download (`misled = {}`), the cached file is the whole publication and the partial file a prefix of it
  (`CacheInv`), and the invocation is where that prefix ends: what it asks to resume
  from, the byte it writes next, the handle it writes through (`ProgressOf`).
  Whatever happened before, an invocation that was alone all the time and has a
  digest has that very archive in the cache from its check on, then in the tree and
  on the host (`WantOf`); `AloneInv` is why no other invocation is between.
  `WrittenPrefix` proves that appending and writing in place make a longer prefix.
- **GatedRestartProofs**, the gate: `GateInvariant` proves that every row that does not refuse
  has evidence behind it and that no unavailable row survives the judgement;
  `PassedIsSeen` follows, for any deployment and waiting times. `NeverRefusedInVain`
  is the converse: while every process has served all the time, every row is `Ok` or
  `Up` whatever the order of tasks and probes (`SteadyInv`). It needs that every row
  stands for at least one process (`GateAssumption`).
- **GatedRestartProofs**, the config restart: `MastersAreKept` and
  `MastersAreRestarted`. With standbys nothing is stopped behind the first batch
  unless a replica was connected when the second was picked (`BatchInv`), and a node
  whose start task is gone was started (`ConfInv`).
- **ApplyProofs**: `AppliedWhenOk` and `IndexIsFirst`. `ApplyInv` says per phase how
  far a setting has come: the plan is the one index and topology call for until it
  is saved (`PlanInv`), the index is the merged configuration afterwards
  (`StoredInv`), a value that is not in the index is in none of the places behind it
  (`BehindInv`), and in a run without failures the places before the current phase
  agree (`TxInv`, `TlsInv`, `ActsInv`). `BehindInv` carries `IndexFirst` through
  killed runs, where the phases say nothing.
- **LifecycleProofs**: `StartsServe`, `ForcedStopIsOrdered`, `DssDataIsKept`,
  `RecordsHaveARow`, `DeployInstalls` and the action property `TxNeedsLog`. The idea
  of `LifecycleInv` is that what is not done yet has a stage left that does it: a
  process that is to be killed or started, a host that is to be uploaded to, records
  that are to be deleted before the row, a probe or a bootstrap that is still to
  come. `ForcedStopIsOrdered` is of a forced stop of the whole cluster, and
  `DssDataIsKept` of the peer listed last on each host, for any number of peers and
  hosts (`LastPeers`). The invariant needs the order of the stages in every command's list (`Fits`,
  `NotAfter`), proved once for the lists the commands are composed of (`WholeLists`,
  from lemmas on concatenated blocks) and kept by every stage that ends
  (`TailHas`, `TailOrdered`).
- **RollingUpgradeProofs**: `CompletedUpgrades`, `LeadersAreSpared` and
  `GroupsAreServed`, for any number of groups and nodes. `UpgradeInv` keeps who is
  being restarted and who the temporary leaders are (`RunInv`), that a node without
  the new binary is still to be restarted (`BinaryInv`), that the master the
  selection saw, and later the temporary leader, is connected (`ServedInv`), and
  where leadership is in a run that nothing excuses (`CalmInv`: at most one node is
  down, a pending handover goes to a temporary leader, and the temporary leaders
  lead before the other nodes are restarted). `LeadersAreSpared` is not inductive
  without the last.
- **ScaleProofs**: `DoneRecordsTheChange`, with the table excepted where its rows could
  not be written (`unsaved`), and the action properties
  `SavesWhatTheServersRun`, `RecordedNodesKeepData`, `StopsOnlyTheRemoved` and
  `StartsConfigured`. The core of `ScaleInv` is `EventInv`: the answer, the change the
  servers are at and, once the event is finished, the configuration they run with are
  one and have the nodes that were asked for, although earlier runs may have left a
  change in progress and a file behind. `HostInv`, `FileInv` and `SavedInv` follow the
  processes, directories, ini files, index and table through the steps.
  `WantedChange` proves that the servers' change is the requested one,
  `FilledLists` and `UpdatedIni` what the three lists hold in spite of the rules for
  empty ones, and `LastNodes` that comparing two counts of a host's nodes is enough
  to know that all recorded ones are to go, in a request without repetitions
  (`EffectiveRequest`); `WipesNoRecordedNode` says so.
- **BackupProofs**: `RestoresTheSnapshot` and the action property `RowsGoLast`.
  `BackupInv` says that only a remove changes what a snapshot has got (`ObjectInv`),
  that a finished row which names files names all of a backup that is complete
  (`FinishedInv`), which
  units a restore is through with while the database is down (`RestoreInv`), and
  that a task about to delete a finished row has left nothing of the backup
  (`SweepInv`); the last would be false without `FinishedInv`, since a backup that
  is still running in the cluster fills the directory again. `NewManifest` proves that
  both ways of restoring make the restored manifest the one a database starts from.

Each step lemma has one case per action; theorems combine them with `PTL`. Only
model-checked are the liveness properties, since fairness is outside the prover's
reach: `AcquireEnds`, `RunEnds`, `EndsUnlessMute`, RollingUpgrade's `RetryConverges`, `RetriesEndWell`,
`RemoveConverges` and `StartConverges`.

## 5. What the models say about the code

That the config restart never starts the standbys again has a run of its own
(`ConfigRestartStandby`, listed under `findings`). Nine more disagreements with the
documentation, the help, a comment or a message have a configuration that shows them:

- `MutationLockRace` refutes `MutualExclusion`: two reclaimers judge the same stale
  file, and the second unlinks the lock the first has just created.
- `ApplyRetry` refutes `ApplyRetryConverges`: the index is saved first, so after a
  failure the next apply compares the topology with the index, plans nothing and
  reports success, although `doc/idempotency.md:3` says "A retry must converge toward
  the requested state".
- `ScaleRepeat` refutes `WipesOnlyAfterTheLast`: `is_last_node` compares the lengths of
  two lists (`scale_group.rs:817`), and the ports to remove are not de-duplicated, so
  `--remove-nodes` that names one of a host's two nodes twice removes the installation
  of both, under a comment that says "If this is the last node on the host, remove the
  entire installation directory" (`scale_group.rs:820`).
- `StagingDigest` refutes `RepublishedRefreshed`: `expected_digest` wants eight path
  segments (`download_task.rs:159`) where a release URL has six, so no archive is
  ever checked by its digest and a republished one of the same length is not
  fetched again, contrary to `doc/upgrade.md:71`.
- `StagingResume` refutes Staging's `RetryConverges`: a server without ranges answers a
  resumed request with 200, the task keeps the partial file and ends in an error after
  its attempts (`download_task.rs` 481-502), and so does every later download of that
  archive, although `doc/idempotency.md:3` asks that retries converge.
- `BackupRestore` refutes `EmptiedIsNew`: after a remove that deleted the manifests of
  some partitions and kept the row, a restore takes those partitions for new ones
  and deletes their current manifests.
- `LifecycleDss` refutes `RunningDssKeepsData`: the pid check of the cleanup is kept per
  host, so that the peer listed last replaces the others
  (`eloq_store_data_clean_task.rs` 157-177); while that one is down and another runs, a
  start cleans the data directories of both, although the task says "DSS server is
  running, skip data directory cleanup" (line 276).
- `LifecycleStopNodes` refutes `StopsOnlyTheNodes`: `stop` sets `store` for a managed data
  store service whatever `--nodes` names (`db_cluster_ctrl_group.rs:130`), and
  `stop_tasks` stops it under the tx processes that go on, with `--force` too, although
  the help says "With --nodes, stops only the specified existing EloqKV node(s)."
  (`cli/mod.rs:225`). `stop --tx false` does the same under all of them;
  `ForcedStopOrder` is therefore about a stop of the whole cluster.
- `LifecycleStop` refutes `StopStops`: when the topology cannot be read, or changes
  after it was, the tasks of a plain `stop` find no port to stop and succeed
  (`eloq_tx_ctl_task.rs:773`). The log service and the data store service are
  stopped all the same, and `restart` then restarts nothing, although
  `doc/backup_and_dump_tools.md:89` relies on `stop --all` before a restore.

Others are visible in the exact wording of properties that hold, or in the model:

- A task that panics has a `JoinError`, which `run_task_split` filters out, so a
  step with a panicked task succeeds (`OkUnlessPanic` has to except it), although
  `rolling_upgrade/mod.rs:42` says "Returns an error if any task fails."
- `build_config_update` records the size of the whole map as the length of the
  edit stage, so a config update with fields on a TLS cluster panics in
  `split_task` (`PanicMeansMisfit`).
- A probe that gives up returns `Ok`, so the gate's second probe never refuses, and
  a voter that runs without answering passes; log processes of a host are one row,
  in which "running" wins (both are why `PassedMeansSeen` says no more than it
  does, although `cmd_base.rs:434` says "actually serving Redis, not just running").
- A node that accepts connections and never answers PING keeps a probe turning
  forever, whatever `--wait` says (the premise of `EndsUnlessMute`).
- A wait that times out is a success, so an upgrade may kill a master that still
  leads (`LeaderKilledOnlyIfExcused` names the excuse).
- After a failure between stop and start the gate refuses every retry of `update`
  until an operator runs `eloqctl start` (`RetryConverges` needs `Repair`).
- `apply` plans and restarts for a `storage_service` change but does not merge it,
  and disabling TLS never reaches the nodes: without other edits the regenerated
  files are not uploaded, and with edits the row of the topology table, which still
  has `enable_tls`, is written back into them (neither is in `OkMeansApplied`).
- `install` bootstraps a running cluster: a tx node that answers PING is reported
  as `Ok` and `has_running_service` looks for `Up` (`InstallDecides`), although
  `doc/idempotency.md:10` says "If a tx service is already running, `install`
  skips bootstrap."
- A removal that leaves no standby or no voter, also in a cluster that never had
  voters, saves `standby_host_ports: []` or `voter_host_ports: []`
  (`db_update_task.rs:88`, `:96`), which `validate_topology` refuses whenever the
  topology is loaded again: `Begin` needs `Loadable`, and nothing restores it.
- An add that fails after the gRPC leaves a member that is not recorded. Its removal
  is a no-op; removing the last recorded node of its host runs `rm -rf` on the whole
  installation (`scale_group.rs:817` counts recorded nodes, while the comment above
  says "Check if this is the last node on this host"); and a retry of the add
  on a new host syncs the binaries with `--delete` over the directory that holds its
  data. `WipesNoRecordedNode` can therefore speak of recorded nodes only. The same
  sync undoes the `mkdir` of the tasks before it.
- NOT_STARTED passes the status check, under a comment that says "mark the scale as
  failed", and an empty answer of the topology task before it panics, which is
  dropped: processes are then stopped and the topology saved although the servers
  have not changed. `DoneMeansRecorded` and `StopsAfterRemoval` except these runs
  (`blind`).
- A row of the topology table that cannot be deleted, put or read back is counted in
  `CMD_STATUS` 1 inside an `Ok` (`topology_update_task.rs` 1098-1104, 1164-1168,
  1187-1193, 1311-1314), so a scale ends well with rows that are stale or missing
  (`unsaved` in `DoneMeansRecorded`). Stop tasks that cannot be created are a warning
  (`scale_group.rs` 604-608), but `from_config_with_channel` always returns `Ok`.
- A removal uploads no file to a host that loses a node, and no list is ever set to
  empty in an ini file, so nodes that stay keep lists with removed nodes in them; an
  add keeps the saved standby or voter list when the servers have none.
- A removal that fails between saving and the topology table leaves rows and
  directories that no later command removes.
- A download whose length neither HEAD nor GET has told and that ends early without an
  error is renamed as it is (`download_task.rs:586`, `:632`); HEAD's status is not
  checked, so an error page's length may be taken for the asset's; a 206 with another
  Content-Range is only warned of (449-468). Without a digest, which is the case of
  every release URL, `DoneMeansGenuine` and `CacheNeverTorn` have to except these
  (`misled`).
- RocksDB Cloud has a delete task per manifest, and each one that succeeds deletes
  the row of the whole snapshot (`s3_delete_task.rs:98`), so a remove that fails
  for one manifest leaves it without a record, although
  `doc/backup_and_dump_tools.md` says "If deletion fails, the record remains in the
  database"; and one killed between an object and its row fails on every retry
  without `--force`, since a missing object is an error there. `RecordOutlivesSweep`
  and `RemoveConverges` leave this backend out.
- A cloud row without a path gets no delete task (`backup_group.rs` 384-391) and is never
  removed, with `--force` either: one of a failed or interrupted backup, or a finished
  one for which the cluster reported no files (`backup_task.rs` 93-117, 380-396). What
  `RemoveConverges` promises is of rows that name files. `--force` also keeps a row when the
  bucket cannot be listed or the host not be reached.
- A remove deletes `rocksdb_cloud/CLOUDMANIFEST-...` (`backup_group.rs` 322-325) where a
  restore reads `rocksdb_cloud/ds_0/...` (`s3_restore_task.rs:16`); Backup has one object
  for both, and no property of a removed RocksDB Cloud snapshot.
- A backup that times out goes on in the cluster; its files may appear after its
  row was removed. `backup start` that fails exits with 0, because `CMD_STATUS` 1 is
  returned in an `Ok`. `is_cluster_stopped` looks at the tx hosts only.
- `deploy` skips an upload it has recorded, also after a version change, on a replaced
  host, or after an interrupted remove (`outdated` in `DeployOkInstalled`), although
  `doc/idempotency.md:13` says "Live observed state is the final authority."
- `start` in local mode empties the data directories of tx nodes that run; a stop of
  the log and data store services only sends the signal, so a following start may take the
  dying process for a running one (`TxOnLog` has to allow it).
- `remove` goes on after any failure and deletes the cluster's rows, under a message
  that says to retry `eloqctl remove`. `launch` bootstraps without the test for
  running tx services that `install` makes. A `failover` that could not read the
  topology reports that the node is no master and succeeds.

## 6. Not modelled, and the order of further work

1. `scalelog`, with the log topology table: the questions of Scale for log replicas.
2. Configuration algorithms as functions with reference definitions: node groups,
   ports, unique hosts, field updates of an INI file.
3. The control of the monitor's components, and the AOF and RDB dumps.

Left out for good: the text of messages, progress bars and tables; YAML and INI
syntax; SQL and the schema upgrade of the state store, whose rows are variables of
the modules that use them; ssh sessions, whose failures appear as failing
tasks in every module; and the servers themselves beyond EloqCluster. In
RollingUpgrade the uploads are two actions, and the version check has no effect on
the state. In Apply, fields set only by `update-conf` and lost by a regeneration
are not tracked. In Scale, ports, roles and group ids of table rows, TLS files, the
monitor files and the copy of the cluster configuration on the hosts are left out.
In Lifecycle, voters, the data of the log service, backups deleted by a remove, an
external data store service and several node groups are left out; in Staging, the
names inside an archive and the remote unpack task; in Backup, `list`, which only
reads, and the health gate in front, which is HealthGate's subject.
