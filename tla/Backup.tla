-------------------------------- MODULE Backup --------------------------------
(***************************************************************************)
(* eloqctl backup start, remove and restore: rows of t_snapshot_info on    *)
(* this side, snapshot objects in S3 or in a directory on the other.  The  *)
(* mutation lock admits one command at a time; inside a remove the delete  *)
(* tasks run concurrently, and a triggered backup goes on in the cluster   *)
(* whatever becomes of the command.                                        *)
(*                                                                         *)
(* A unit is what one snapshot object covers: a node group of RocksDB      *)
(* Cloud, a table partition of EloqStore, a master's files on local disk.  *)
(* Snapshots are numbered in the order of their snapshot_ts.               *)
(***************************************************************************)
EXTENDS Naturals, Sequences, FiniteSets

CONSTANTS Backends,     \* of "rocksdb" (S3), "eloqstore" (cloud), "local"
          Units,
          LateUnits,    \* EloqStore partitions created later
          MaxSnapshots, \* bound on backups started
          MaxData,      \* bound on writes, per unit
          MaxRestores,  \* bound on restores started
          MaxFaults     \* bound on failed calls and crashes

ASSUME BackupAssumption ==
    /\ Backends \subseteq {"rocksdb", "eloqstore", "local"}
    /\ LateUnits \subseteq Units
    /\ {MaxSnapshots, MaxRestores, MaxFaults} \subseteq Nat /\ MaxData \in Nat \ {0}

Snapshots == 1..MaxSnapshots
None == 0

VARIABLES
    backend,
    up,         \* the tx processes run
    main,       \* per unit, the database's manifests by epoch or term
    obj,        \* per snapshot and unit, the object's contents or None
    taking,     \* per snapshot, the cluster's backup: "no", "running", "done"
    taken,      \* history: what the database held when it was taken
    row,        \* per snapshot, its row
    cmd,        \* the command: [op, snap, force]
    todo,       \* remove's delete tasks, or the units restore has still to do
    drop,       \* delete tasks about to delete their row
    errors,     \* the running task has collected an error
    restores, faults,
    touched     \* history: snapshots some remove has worked on

vars == <<backend, up, main, obj, taking, taken, row, cmd, todo, drop, errors, restores,
          faults, touched>>
dbVars == <<up, main, taking, taken>>

NoRow == [status |-> "none", files |-> {}]
Idle == [op |-> "idle", snap |-> None, force |-> FALSE]
Cloud == backend \in {"rocksdb", "eloqstore"}

\* The manifest a starting database picks: the newest one.
Current(u) == IF main[u] = <<>> THEN None ELSE main[u][Len(main[u])]

Init ==
    /\ backend \in Backends
    /\ up = TRUE
    /\ main = [u \in Units |-> IF backend = "eloqstore" /\ u \in LateUnits THEN <<>> ELSE <<1>>]
    /\ obj = [s \in Snapshots |-> [u \in Units |-> None]]
    /\ taking = [s \in Snapshots |-> "no"]
    /\ taken = obj
    /\ row = [s \in Snapshots |-> NoRow]
    /\ cmd = Idle
    /\ todo = {} /\ drop = {} /\ errors = FALSE
    /\ restores = 0 /\ faults = 0
    /\ touched = {}

Fault == faults < MaxFaults /\ faults' = faults + 1
NoFault == UNCHANGED faults

-----------------------------------------------------------------------------
(* The cluster.                                                            *)

\* It is started and stopped between commands and written to while it runs.
StartStop ==
    /\ cmd = Idle
    /\ up' = ~up
    /\ taking' = [s \in Snapshots |-> IF taking[s] = "running" THEN "no" ELSE taking[s]]
    /\ UNCHANGED <<backend, main, obj, taken, row, cmd, todo, drop, errors, restores, faults, touched>>

Write(u) ==
    /\ up
    /\ Current(u) < MaxData
    /\ main' = [main EXCEPT ![u] = IF @ = <<>> THEN <<1>> ELSE [@ EXCEPT ![Len(@)] = Current(u) + 1]]
    /\ UNCHANGED <<backend, up, obj, taking, taken, row, cmd, todo, drop, errors, restores, faults,
                   touched>>

\* A triggered backup completes on its own, all units at one point in time.
Take(s) ==
    /\ up /\ taking[s] = "running"
    /\ taking' = [taking EXCEPT ![s] = "done"]
    /\ obj' = [obj EXCEPT ![s] = [u \in Units |-> Current(u)]]
    /\ taken' = [taken EXCEPT ![s] = [u \in Units |-> Current(u)]]
    /\ UNCHANGED <<backend, up, main, row, cmd, todo, drop, errors, restores, faults, touched>>

-----------------------------------------------------------------------------
(* The command ends, or dies with its tasks.                               *)

End == cmd' = Idle /\ todo' = {} /\ drop' = {} /\ errors' = FALSE

Crash ==
    /\ cmd # Idle
    /\ Fault
    /\ End
    /\ UNCHANGED <<backend, dbVars, obj, row, restores, touched>>

-----------------------------------------------------------------------------
(* backup start: BackupTask::execute                                       *)

\* The path of a local backup is known at once, a cloud backup's objects are
\* known from the cluster's response only.
InitialPath == IF Cloud THEN {} ELSE {"dir"}

\* The row's files: a manifest per node group, a timestamp, a directory.
Files ==
    CASE backend = "rocksdb"   -> Units
      [] backend = "eloqstore" -> {"ts"}
      [] OTHER                 -> {"dir"}

save_snapshot_info(s, status, files) ==
    row' = [row EXCEPT ![s] = [status |-> status, files |-> files]]

\* A cluster that does not answer ends the task before there is a row.
Connected == up

\* The health gate passes and the cluster answers; snapshot_ts is now.
BackupStart(s) ==
    /\ cmd = Idle /\ Connected
    /\ row[s] = NoRow /\ taking[s] = "no" /\ s \notin touched
    /\ \A o \in Snapshots : o > s => row[o] = NoRow /\ taking[o] = "no"
    /\ cmd' = [Idle EXCEPT !.op = "trigger", !.snap = s]
    /\ save_snapshot_info(s, "running", InitialPath)
    /\ UNCHANGED <<backend, dbVars, obj, todo, drop, errors, restores, faults, touched>>

SaveFailed == save_snapshot_info(cmd.snap, "failed", InitialPath)

\* The masters are asked in turn until one takes the request; one whose
\* answer is lost may have taken it too.  A master that answers "finished" at
\* once is one whose first poll would.
Trigger ==
    /\ cmd.op = "trigger"
    /\ taking' \in {taking, [taking EXCEPT ![cmd.snap] = "running"]}
    /\ \/ /\ taking'[cmd.snap] = "running"
          /\ cmd' = [cmd EXCEPT !.op = "poll"]
          /\ NoFault
          /\ UNCHANGED <<row, todo, drop, errors>>
       \/ /\ Fault
          /\ SaveFailed
          /\ End
    /\ UNCHANGED <<backend, up, main, taken, obj, restores, touched>>

\* What the path is taken from: a local backup's is known, a cloud backup's
\* is what the response says, which may have no manifest and no timestamp; an
\* EloqStore backup whose cluster cannot be loaded is looked through for
\* manifests and has none.
NamedFiles == IF Cloud THEN {Files, {}} ELSE {Files}

\* A response says "finished": the row is saved with the files it names.
PollFinished ==
    /\ cmd.op = "poll" /\ taking[cmd.snap] = "done"
    /\ NoFault
    /\ \E files \in NamedFiles : save_snapshot_info(cmd.snap, "finished", files)
    /\ End
    /\ UNCHANGED <<backend, dbVars, obj, restores, touched>>

\* The query fails, or half an hour is over: the backup itself may go on.
PollFails ==
    /\ cmd.op = "poll"
    /\ NoFault
    /\ SaveFailed
    /\ End
    /\ UNCHANGED <<backend, dbVars, obj, restores, touched>>

-----------------------------------------------------------------------------
(* backup remove: the snapshots older than the cutoff, all tasks at once.  *)

\* A task per manifest, or per EloqStore backup; a row without files gets none.
CloudTasks(S) == {t \in S \X (Units \cup {"ts"}) : t[2] \in row[t[1]].files}

\* A task per backup directory.
LocalTasks(S) == {t \in S \X {"dir"} : t[2] \in row[t[1]].files}
DeleteTasks(S) == CloudTasks(S) \cup LocalTasks(S)

RemoveStart ==
    /\ cmd = Idle
    /\ \E cutoff \in 1..(MaxSnapshots + 1), f \in BOOLEAN :
         LET S == {s \in Snapshots : row[s] # NoRow /\ s < cutoff}
         IN  /\ DeleteTasks(S) # {}
             /\ cmd' = [op |-> "remove", snap |-> None, force |-> f]
             /\ todo' = DeleteTasks(S)
             /\ touched' = touched \cup S
    /\ UNCHANGED <<backend, dbVars, obj, row, drop, errors, restores, faults>>

\* The task deletes its row if its files are gone or --force is given.
SettleAnyway(t, ok) ==
    /\ todo' = todo \ {t}
    /\ drop' = drop \cup {t}

Settle(t, ok) ==
    /\ todo' = todo \ {t}
    /\ drop' = IF ok \/ cmd.force THEN drop \cup {t} ELSE drop

\* An object that is not there is an error.  The deletion and the restore build
\* the key of a manifest differently (rocksdb_cloud/ against rocksdb_cloud/ds_0/);
\* the model gives the object both keys.
HeadObject(t) == obj[t[1]][t[2]] # None
delete_s3_object(t) == HeadObject(t) /\ obj' = [obj EXCEPT ![t[1]][t[2]] = None]

S3Delete(t) ==
    /\ cmd.op = "remove" /\ t \in todo /\ backend = "rocksdb"
    /\ \/ /\ delete_s3_object(t)
          /\ Settle(t, TRUE)
          /\ NoFault
       \/ /\ ~HeadObject(t)
          /\ Settle(t, FALSE)
          /\ NoFault /\ UNCHANGED obj
       \/ /\ Fault
          /\ Settle(t, FALSE)
          /\ UNCHANGED obj
    /\ UNCHANGED <<backend, dbVars, row, cmd, errors, restores, touched>>

\* A partition that has no manifest of the backup counts as deleted.
SweptStrictly(s, left) == left = {} /\ \A u \in Units : obj[s][u] # None
Swept(s, left) == left = {}

\* Every object but those of left is deleted; an object is left by a failure.
Sweep(t, left) ==
    /\ obj' = [obj EXCEPT ![t[1]] = [u \in Units |-> IF u \in left THEN @[u] ELSE None]]
    /\ IF left = {} THEN NoFault ELSE Fault
    /\ Settle(t, Swept(t[1], left))

\* EloqStoreCloudDeleteTask walks the partitions and collects their errors.
CloudDelete(t) ==
    /\ cmd.op = "remove" /\ t \in todo /\ backend = "eloqstore"
    /\ \E left \in SUBSET {u \in Units : obj[t[1]][u] # None} : Sweep(t, left)
    /\ UNCHANGED <<backend, dbVars, row, cmd, errors, restores, touched>>

\* LocalBackupDeleteTask runs rm -rf, which may stop half way.
LocalDelete(t) ==
    /\ cmd.op = "remove" /\ t \in todo /\ backend = "local"
    /\ \E left \in SUBSET {u \in Units : obj[t[1]][u] # None} : Sweep(t, left)
    /\ UNCHANGED <<backend, dbVars, row, cmd, errors, restores, touched>>

\* The partitions cannot be listed or the host not be reached: the task ends
\* before it comes to its row, with or without --force.
SweepUnreachable(t) ==
    /\ cmd.op = "remove" /\ t \in todo /\ backend # "rocksdb"
    /\ Fault
    /\ todo' = todo \ {t}
    /\ UNCHANGED <<backend, dbVars, obj, row, cmd, drop, errors, restores, touched>>

\* The row is deleted by cluster and snapshot_ts; an error is only logged.
DropRow(t) ==
    /\ t \in drop
    /\ drop' = drop \ {t}
    /\ \/ row' = [row EXCEPT ![t[1]] = NoRow] /\ NoFault
       \/ Fault /\ UNCHANGED row
    /\ UNCHANGED <<backend, dbVars, obj, cmd, todo, errors, restores, touched>>

RemoveEnd ==
    /\ cmd.op = "remove" /\ todo = {} /\ drop = {}
    /\ End
    /\ UNCHANGED <<backend, dbVars, obj, row, restores, faults, touched>>

-----------------------------------------------------------------------------
(* backup restore                                                          *)

\* The tx processes of the configuration have no pid; nothing else is asked.
is_cluster_stopped == ~up

RestoreAllowed(s) ==
    Cloud /\ is_cluster_stopped /\ row[s].status = "finished" /\ row[s].files # {}

\* The directories that are in the bucket now, not those of the backup.
list_table_partition_dirs == Units

\* RocksDB restores the units of the row's manifests, EloqStore every
\* partition directory of the bucket.
RestoreStart(s) ==
    /\ cmd = Idle /\ restores < MaxRestores
    /\ RestoreAllowed(s)
    /\ restores' = restores + 1
    /\ cmd' = [Idle EXCEPT !.op = "restore", !.snap = s]
    /\ todo' = IF backend = "rocksdb" THEN row[s].files ELSE list_table_partition_dirs
    /\ UNCHANGED <<backend, dbVars, obj, row, drop, errors, faults, touched>>

\* A RocksDB manifest is copied to a new epoch (find_max_epoch_for_ng), an
\* EloqStore one over the newest term.
NextEpoch(u, d) == Append(main[u], d)
NewestTerm(u, d) == IF main[u] = <<>> THEN <<d>> ELSE [main[u] EXCEPT ![Len(main[u])] = d]

\* A failed listing or copy: the error is collected and the next unit tried.
CopyFails == Fault /\ errors' = TRUE /\ UNCHANGED main

\* S3RestoreTask: a manifest that is not in the bucket is an error.
S3Restore(u) ==
    /\ cmd.op = "restore" /\ u \in todo /\ backend = "rocksdb"
    /\ todo' = todo \ {u}
    /\ \/ /\ obj[cmd.snap][u] # None
          /\ main' = [main EXCEPT ![u] = NextEpoch(u, obj[cmd.snap][u])]
          /\ NoFault /\ UNCHANGED errors
       \/ /\ obj[cmd.snap][u] = None
          /\ errors' = TRUE
          /\ NoFault /\ UNCHANGED main
       \/ CopyFails
    /\ UNCHANGED <<backend, up, taking, taken, obj, row, cmd, drop, restores, touched>>

\* A partition without a manifest of the backup is taken for one made after
\* it: its manifests are deleted.
WithoutBackupKept(u) == main[u]
WithoutBackup(u) == <<>>

\* process_partition_restore
PartitionRestore(u) ==
    /\ cmd.op = "restore" /\ u \in todo /\ backend = "eloqstore"
    /\ todo' = todo \ {u}
    /\ \/ /\ obj[cmd.snap][u] # None
          /\ main' = [main EXCEPT ![u] = NewestTerm(u, obj[cmd.snap][u])]
          /\ NoFault /\ UNCHANGED errors
       \/ /\ obj[cmd.snap][u] = None
          /\ main' = [main EXCEPT ![u] = WithoutBackup(u)]
          /\ NoFault /\ UNCHANGED errors
       \/ CopyFails
    /\ UNCHANGED <<backend, up, taking, taken, obj, row, cmd, drop, restores, touched>>

RestoreOk == cmd.op = "restore" /\ todo = {} /\ ~errors

RestoreEnd ==
    /\ cmd.op = "restore" /\ todo = {}
    /\ End
    /\ UNCHANGED <<backend, dbVars, obj, row, restores, faults, touched>>

-----------------------------------------------------------------------------
Command ==
    \/ Trigger \/ PollFinished \/ PollFails
    \/ \E t \in todo : S3Delete(t) \/ CloudDelete(t) \/ LocalDelete(t) \/ SweepUnreachable(t)
    \/ \E t \in drop : DropRow(t)
    \/ RemoveEnd
    \/ \E u \in Units : S3Restore(u) \/ PartitionRestore(u)
    \/ RestoreEnd

Next ==
    \/ StartStop \/ Crash \/ Command \/ RemoveStart
    \/ \E u \in Units : Write(u)
    \/ \E s \in Snapshots : Take(s) \/ BackupStart(s) \/ RestoreStart(s)

\* A running command goes on, and an operator repeats a remove of everything
\* without --force.
RemoveAll == RemoveStart /\ ~cmd'.force /\ \A s \in Snapshots : row[s] # NoRow => s \in touched'

Spec == Init /\ [][Next]_vars /\ WF_vars(Command) /\ WF_vars(RemoveAll)

-----------------------------------------------------------------------------
(* Properties                                                              *)

TypeOK ==
    /\ backend \in Backends /\ up \in BOOLEAN
    /\ main \in [Units -> Seq(1..MaxData)]
    /\ obj \in [Snapshots -> [Units -> 0..MaxData]] /\ taken \in [Snapshots -> [Units -> 0..MaxData]]
    /\ taking \in [Snapshots -> {"no", "running", "done"}]
    /\ row \in [Snapshots -> [status : {"none", "running", "failed", "finished"},
                              files : SUBSET (Units \cup {"ts", "dir"})]]
    /\ cmd \in [op : {"idle", "trigger", "poll", "remove", "restore"}, snap : Snapshots \cup {None},
                force : BOOLEAN]
    /\ errors \in BOOLEAN /\ touched \subseteq Snapshots
    /\ faults \in 0..MaxFaults /\ restores \in 0..MaxRestores

\* A restore that reports success has put every unit back to what it held at
\* the snapshot: units written since, partitions created since and units an
\* earlier restore left half done, unless a remove of the snapshot has run.
RestoreOkIsSnapshot ==
    RestoreOk /\ cmd.snap \notin touched => \A u \in Units : Current(u) = taken[cmd.snap][u]

\* The row of a finished backup is deleted once nothing of the backup is left
\* or by --force, whatever failed or crashed before; the tasks per manifest
\* of RocksDB Cloud do not promise this.
Deleted(s) == row[s].status = "finished" /\ row'[s] = NoRow
RecordOutlivesSweep ==
    [][backend # "rocksdb" /\ ~cmd.force =>
         \A s \in Snapshots : Deleted(s) => \A u \in Units : obj[s][u] = None]_vars

\* A remove that is repeated gets rid of the row of every finished backup that
\* names its files once the failures end: none of the files a failed or
\* crashed remove has already deleted is missed by the next one.  A finished
\* row without files gets no delete task and stays, with or without --force.
RemoveConverges ==
    backend # "rocksdb" =>
        \A s \in Snapshots : row[s].status = "finished" /\ row[s].files # {} ~> row[s] = NoRow

\* eloqstore_cloud_restore_task.rs: a partition without a manifest of the
\* backup "was created after backup"; only such a one is emptied.
EmptiedIsNew ==
    [][\A u \in Units : main[u] # <<>> /\ main'[u] = <<>> => taken[cmd.snap][u] = None]_vars
=============================================================================
