---------------------------- MODULE BackupProofs ----------------------------
(* What a restore that reports success and the row of a backup are worth, for *)
(* any number of backups, removals and restores, failed calls and kills.      *)
EXTENDS Backup, SequenceTheorems, TLAPS

(***************************************************************************)
(* The inductive invariant                                                 *)
(***************************************************************************)

\* The command and what its tasks have still to do.
CommandInv ==
    /\ cmd.op \in {"trigger", "poll", "restore"} => cmd.snap \in Snapshots
    /\ cmd.op = "remove" => \A t \in todo \cup drop : t[1] \in touched
    /\ cmd.op # "remove" => drop = {}
    /\ cmd.op = "trigger" => row[cmd.snap].status = "running"

\* A finished backup is complete, and its row names all of it, or nothing.
FinishedInv ==
    \A s \in Snapshots : row[s].status = "finished" =>
        taking[s] = "done" /\ (row[s].files # {} => row[s].files = Files)

\* Only a remove changes what a snapshot has got.
ObjectInv == \A s \in Snapshots \ touched : obj[s] = taken[s]

\* The units a restore is through with, as long as it has met no error; the
\* database is down all the while.
RestoreInv ==
    cmd.op = "restore" =>
        /\ ~up
        /\ cmd.snap \notin touched /\ ~errors =>
              \A u \in Units \ todo : Current(u) = taken[cmd.snap][u]

\* A delete task that is about to delete the row of a finished backup has
\* nothing of it left behind.
SweepInv ==
    backend # "rocksdb" /\ ~cmd.force =>
        \A t \in drop : row[t[1]].status = "finished" => \A u \in Units : obj[t[1]][u] = None

BackupInv == TypeOK /\ CommandInv /\ FinishedInv /\ ObjectInv /\ RestoreInv /\ SweepInv

(***************************************************************************)
(* Manifests                                                               *)
(***************************************************************************)

\* What a starting database reads of a unit's manifests (Current).
Newest(q) == IF q = <<>> THEN None ELSE q[Len(q)]

LEMMA NewestType ==
    ASSUME NEW q \in Seq(1..MaxData)
    PROVE  Newest(q) \in 0..MaxData
  <1>1. CASE q = <<>>
    BY <1>1, BackupAssumption DEF Newest, None
  <1>2. CASE q # <<>>
    <2>1. Len(q) \in 1..Len(q)
      BY <1>2
    <2>2. q[Len(q)] \in 1..MaxData
      BY <2>1, ElementOfSeq
    <2>3. Newest(q) \in 1..MaxData
      BY <1>2, <2>2 DEF Newest
    <2> QED BY <2>3
  <1> QED BY <1>1, <1>2

\* An appended manifest, and one that replaces the newest, is the newest.
LEMMA NewManifest ==
    ASSUME NEW q \in Seq(1..MaxData), NEW d \in 1..MaxData
    PROVE  /\ Append(q, d) \in Seq(1..MaxData) /\ Newest(Append(q, d)) = d
           /\ <<d>> \in Seq(1..MaxData) /\ Newest(<<d>>) = d
           /\ q # <<>> => /\ [q EXCEPT ![Len(q)] = d] \in Seq(1..MaxData)
                          /\ Newest([q EXCEPT ![Len(q)] = d]) = d
  <1>1. Append(q, d) \in Seq(1..MaxData) /\ Newest(Append(q, d)) = d
    <2>1. Append(q, d) \in Seq(1..MaxData) /\ Len(Append(q, d)) = Len(q) + 1 /\ Append(q, d)[Len(q) + 1] = d
      OBVIOUS
    <2>2. Append(q, d) # <<>>
      BY <2>1
    <2> QED BY <2>1, <2>2 DEF Newest
  <1>2. <<d>> \in Seq(1..MaxData) /\ Newest(<<d>>) = d
    BY DEF Newest
  <1>3. ASSUME q # <<>>
        PROVE  [q EXCEPT ![Len(q)] = d] \in Seq(1..MaxData) /\ Newest([q EXCEPT ![Len(q)] = d]) = d
    <2> DEFINE p == [q EXCEPT ![Len(q)] = d]
    <2>1. Len(q) \in 1..Len(q)
      BY <1>3
    <2>2. p \in Seq(1..MaxData) /\ Len(p) = Len(q)
      BY <2>1, ExceptSeq
    <2>3. p[Len(q)] = d
      BY <2>1
    <2>4. p # <<>>
      BY <2>1, <2>2
    <2> HIDE DEF p
    <2>5. Newest(p) = d
      BY <2>2, <2>3, <2>4 DEF Newest
    <2> QED BY <2>2, <2>5 DEF p
  <1> QED BY <1>1, <1>2, <1>3

(***************************************************************************)
(* The steps                                                               *)
(***************************************************************************)

LEMMA FaultType == ASSUME TypeOK, Fault \/ NoFault PROVE faults' \in 0..MaxFaults
  BY BackupAssumption DEF TypeOK, Fault, NoFault

LEMMA BackupInit == Init => BackupInv
  <1> SUFFICES ASSUME Init PROVE BackupInv
    OBVIOUS
  <1>1. TypeOK
    <2>1. <<>> \in Seq(1..MaxData) /\ <<1>> \in Seq(1..MaxData)
      BY BackupAssumption
    <2>2. main \in [Units -> Seq(1..MaxData)]
      BY <2>1 DEF Init
    <2>3. obj \in [Snapshots -> [Units -> 0..MaxData]] /\ taken = obj
      BY BackupAssumption DEF Init, None
    <2>4. 0 \in 0..MaxFaults /\ 0 \in 0..MaxRestores
      BY BackupAssumption
    <2>5. /\ taking \in [Snapshots -> {"no", "running", "done"}]
          /\ row \in [Snapshots -> [status : {"none", "running", "failed", "finished"},
                                    files : SUBSET (Units \cup {"ts", "dir"})]]
      BY DEF Init, NoRow
    <2> QED BY <2>2, <2>3, <2>4, <2>5 DEF Init, TypeOK, Idle
  <1>2. CommandInv /\ RestoreInv /\ SweepInv
    BY DEF Init, Idle, CommandInv, RestoreInv, SweepInv
  <1>3. FinishedInv /\ ObjectInv
    BY DEF Init, NoRow, FinishedInv, ObjectInv
  <1> QED BY <1>1, <1>2, <1>3 DEF BackupInv

\* The cluster: it is started and stopped, written to, and completes a backup.
LEMMA ClusterStep ==
    ASSUME BackupInv, \/ StartStop \/ (\E u \in Units : Write(u)) \/ (\E s \in Snapshots : Take(s))
    PROVE  BackupInv'
  <1> USE DEF BackupInv
  <1>1. CASE StartStop
    <2>1. /\ cmd = Idle /\ up' = ~up
          /\ taking' = [s \in Snapshots |-> IF taking[s] = "running" THEN "no" ELSE taking[s]]
          /\ UNCHANGED <<backend, main, obj, taken, row, cmd, todo, drop, errors, restores, faults, touched>>
      BY <1>1 DEF StartStop
    <2>2. TypeOK'
      BY <2>1 DEF TypeOK
    <2>3. CommandInv' /\ ObjectInv' /\ SweepInv'
      BY <2>1 DEF CommandInv, ObjectInv, SweepInv
    <2>4. RestoreInv'
      BY <2>1 DEF RestoreInv, Idle
    <2>5. FinishedInv'
      BY <2>1 DEF FinishedInv, Files
    <2> QED BY <2>2, <2>3, <2>4, <2>5
  <1>2. ASSUME NEW u \in Units, Write(u) PROVE BackupInv'
    <2>1. /\ up /\ Current(u) < MaxData
          /\ main' = [main EXCEPT ![u] = IF @ = <<>> THEN <<1>> ELSE [@ EXCEPT ![Len(@)] = Current(u) + 1]]
          /\ UNCHANGED <<backend, up, obj, taking, taken, row, cmd, todo, drop, errors, restores, faults,
                         touched>>
      BY <1>2 DEF Write
    <2>2. main' \in [Units -> Seq(1..MaxData)]
      <3> DEFINE q == main[u]
      <3>1. main \in [Units -> Seq(1..MaxData)] /\ q \in Seq(1..MaxData)
        BY DEF TypeOK
      <3>2. Current(u) = Newest(q)
        BY DEF Current, Newest
      <3>3. Current(u) + 1 \in 1..MaxData /\ 1 \in 1..MaxData
        BY <2>1, <3>1, <3>2, NewestType, BackupAssumption
      <3> DEFINE d == Current(u) + 1
                 r == IF q = <<>> THEN <<1>> ELSE [q EXCEPT ![Len(q)] = d]
      <3>4. r \in Seq(1..MaxData)
        <4> HIDE DEF d, q
        <4> QED BY <3>1, <3>3, NewManifest DEF d
      <3>5. main' = [main EXCEPT ![u] = r]
        BY <2>1
      <3> HIDE DEF r
      <3> QED BY <3>1, <3>4, <3>5
    <2>3. TypeOK'
      BY <2>1, <2>2 DEF TypeOK
    <2>4. CommandInv' /\ ObjectInv' /\ SweepInv' /\ RestoreInv' /\ FinishedInv'
      BY <2>1 DEF CommandInv, ObjectInv, SweepInv, RestoreInv, FinishedInv, Files
    <2> QED BY <2>3, <2>4
  <1>3. ASSUME NEW s \in Snapshots, Take(s) PROVE BackupInv'
    <2> DEFINE now == [u \in Units |-> Current(u)]
    <2>1. /\ up /\ taking[s] = "running" /\ taking' = [taking EXCEPT ![s] = "done"]
          /\ obj' = [obj EXCEPT ![s] = now] /\ taken' = [taken EXCEPT ![s] = now]
          /\ UNCHANGED <<backend, up, main, row, cmd, todo, drop, errors, restores, faults, touched>>
      BY <1>3 DEF Take
    <2>2. now \in [Units -> 0..MaxData]
      <3>1. \A u \in Units : Current(u) = Newest(main[u]) /\ main[u] \in Seq(1..MaxData)
        BY DEF TypeOK, Current, Newest
      <3>2. \A u \in Units : Current(u) \in 0..MaxData
        BY <3>1, NewestType
      <3> QED BY <3>2
    <2> HIDE DEF now
    <2>3. TypeOK'
      BY <2>1, <2>2 DEF TypeOK
    <2>4. CommandInv' /\ RestoreInv'
      BY <2>1 DEF CommandInv, RestoreInv
    <2>5. ObjectInv' /\ FinishedInv'
      BY <2>1 DEF ObjectInv, FinishedInv, TypeOK, Files
    <2>6. SweepInv'
      <3>1. row[s].status # "finished"
        BY <2>1 DEF FinishedInv
      <3>2. \A k \in Snapshots : k # s => obj'[k] = obj[k]
        BY <2>1 DEF TypeOK
      <3>3. drop # {} => \A t \in drop : t[1] \in Snapshots
        BY DEF CommandInv, TypeOK
      <3> QED BY <2>1, <3>1, <3>2, <3>3 DEF SweepInv
    <2> QED BY <2>3, <2>4, <2>5, <2>6
  <1> QED BY <1>1, <1>2, <1>3

\* backup start.
LEMMA StartStep ==
    ASSUME BackupInv, \/ (\E s \in Snapshots : BackupStart(s)) \/ Trigger \/ PollFinished \/ PollFails
    PROVE  BackupInv'
  <1> USE DEF BackupInv
  <1> DEFINE Row == [status : {"none", "running", "failed", "finished"},
                     files : SUBSET (Units \cup {"ts", "dir"})]
  <1>1. InitialPath \subseteq {"dir"} /\ Files \subseteq Units \cup {"ts", "dir"}
    BY DEF InitialPath, Files
  <1>2. /\ [status |-> "running", files |-> InitialPath] \in Row
        /\ [status |-> "failed", files |-> InitialPath] \in Row
        /\ \A fs \in NamedFiles : [status |-> "finished", files |-> fs] \in Row
    BY <1>1 DEF NamedFiles
  <1>3. ASSUME NEW s \in Snapshots, BackupStart(s) PROVE BackupInv'
    <2>1. /\ cmd = Idle /\ row[s] = NoRow /\ s \notin touched
          /\ cmd' = [Idle EXCEPT !.op = "trigger", !.snap = s]
          /\ row' = [row EXCEPT ![s] = [status |-> "running", files |-> InitialPath]]
          /\ UNCHANGED <<backend, up, main, taking, taken, obj, todo, drop, errors, restores, faults, touched>>
      BY <1>3 DEF BackupStart, save_snapshot_info, dbVars
    <2>2. cmd'.op = "trigger" /\ cmd'.snap = s /\ cmd'.force = FALSE
      BY <2>1 DEF Idle
    <2>3. TypeOK'
      <3>1. row' \in [Snapshots -> Row]
        BY <1>2, <2>1 DEF TypeOK
      <3> QED BY <2>1, <3>1 DEF TypeOK, Idle
    <2>4. drop = {}
      BY <2>1 DEF CommandInv, Idle
    <2>5. CommandInv' /\ RestoreInv' /\ SweepInv' /\ ObjectInv'
      BY <2>1, <2>2, <2>4 DEF CommandInv, RestoreInv, SweepInv, ObjectInv, TypeOK
    <2>6. FinishedInv'
      BY <2>1 DEF FinishedInv, TypeOK, Files
    <2> QED BY <2>3, <2>5, <2>6
  <1>4. ASSUME Trigger PROVE BackupInv'
    <2> DEFINE s == cmd.snap
    <2>1. /\ cmd.op = "trigger"
          /\ taking' \in {taking, [taking EXCEPT ![s] = "running"]}
          /\ \/ cmd' = [cmd EXCEPT !.op = "poll"] /\ NoFault /\ UNCHANGED <<row, todo, drop, errors>>
             \/ /\ Fault /\ cmd' = Idle /\ todo' = {} /\ drop' = {} /\ errors' = FALSE
                /\ row' = [row EXCEPT ![s] = [status |-> "failed", files |-> InitialPath]]
          /\ UNCHANGED <<backend, up, main, taken, obj, restores, touched>>
      BY <1>4 DEF Trigger, SaveFailed, save_snapshot_info, End
    <2>2. s \in Snapshots /\ row[s].status = "running" /\ drop = {} /\ drop' = {}
      BY <2>1 DEF CommandInv
    <2>3. TypeOK'
      <3>1. row' \in [Snapshots -> Row]
        BY <1>2, <2>1 DEF TypeOK
      <3>2. cmd' \in [op : {"idle", "trigger", "poll", "remove", "restore"}, snap : Snapshots \cup {None},
                      force : BOOLEAN]
        <4>1. CASE cmd' = Idle
          BY <4>1 DEF Idle
        <4>2. CASE cmd' = [cmd EXCEPT !.op = "poll"]
          BY <4>2 DEF TypeOK
        <4> QED BY <2>1, <4>1, <4>2
      <3>3. errors' \in BOOLEAN
        BY <2>1 DEF TypeOK
      <3>4. taking' \in [Snapshots -> {"no", "running", "done"}]
        BY <2>1 DEF TypeOK
      <3>5. faults' \in 0..MaxFaults
        BY <2>1, FaultType
      <3> QED BY <2>1, <3>1, <3>2, <3>3, <3>4, <3>5 DEF TypeOK
    <2>4. cmd'.op \in {"poll", "idle"} /\ (cmd'.op = "poll" => cmd'.snap = s)
      BY <2>1 DEF TypeOK, Idle
    <2>5. CommandInv' /\ RestoreInv' /\ SweepInv' /\ ObjectInv'
      BY <2>1, <2>2, <2>4 DEF CommandInv, RestoreInv, SweepInv, ObjectInv
    <2>6. FinishedInv'
      <3>1. \A k \in Snapshots : k # s => row'[k] = row[k] /\ taking'[k] = taking[k]
        BY <2>1 DEF TypeOK
      <3>2. row'[s].status # "finished"
        BY <2>1, <2>2 DEF TypeOK
      <3> QED BY <2>1, <3>1, <3>2 DEF FinishedInv, Files
    <2> QED BY <2>3, <2>5, <2>6
  <1>5. ASSUME PollFinished \/ PollFails PROVE BackupInv'
    <2> DEFINE s == cmd.snap
    <2>1. /\ cmd.op = "poll" /\ NoFault
          /\ cmd' = Idle /\ todo' = {} /\ drop' = {} /\ errors' = FALSE
          /\ \/ /\ \E fs \in NamedFiles : row' = [row EXCEPT ![s] = [status |-> "finished", files |-> fs]]
                /\ taking[s] = "done"
             \/ row' = [row EXCEPT ![s] = [status |-> "failed", files |-> InitialPath]]
          /\ UNCHANGED <<backend, up, main, taking, taken, obj, restores, touched>>
      BY <1>5 DEF PollFinished, PollFails, SaveFailed, save_snapshot_info, End, dbVars
    <2>2. s \in Snapshots
      BY <2>1 DEF CommandInv
    <2>3. TypeOK'
      <3>1. row' \in [Snapshots -> Row]
        <4>1. \A r \in Row : [row EXCEPT ![s] = r] \in [Snapshots -> Row]
          BY DEF TypeOK
        <4> HIDE DEF Row
        <4> QED BY <1>2, <2>1, <4>1
      <3> QED BY <2>1, <3>1, FaultType DEF TypeOK, Idle
    <2>4. cmd'.op = "idle"
      BY <2>1 DEF Idle
    <2>5. CommandInv' /\ RestoreInv' /\ SweepInv' /\ ObjectInv'
      BY <2>1, <2>4 DEF CommandInv, RestoreInv, SweepInv, ObjectInv
    <2>6. FinishedInv'
      <3>1. \A k \in Snapshots : k # s => row'[k] = row[k]
        BY <2>1 DEF TypeOK
      <3>2. row'[s].status = "finished" => taking[s] = "done" /\ row'[s].files \in {Files, {}}
        BY <2>1, <2>2 DEF TypeOK, NamedFiles
      <3> QED BY <2>1, <3>1, <3>2 DEF FinishedInv, Files
    <2> QED BY <2>3, <2>5, <2>6
  <1> QED BY <1>3, <1>4, <1>5

\* A command ends, or is killed.
LEMMA EndStep ==
    ASSUME BackupInv, Crash \/ RemoveEnd \/ RestoreEnd
    PROVE  BackupInv'
  <1> USE DEF BackupInv
  <1>1. /\ cmd' = Idle /\ todo' = {} /\ drop' = {} /\ errors' = FALSE /\ (Fault \/ NoFault)
        /\ UNCHANGED <<backend, up, main, taking, taken, obj, row, restores, touched>>
    BY DEF Crash, RemoveEnd, RestoreEnd, End, dbVars, NoFault
  <1>2. TypeOK'
    BY <1>1, FaultType DEF TypeOK, Idle
  <1>3. cmd'.op = "idle"
    BY <1>1 DEF Idle
  <1>4. CommandInv' /\ RestoreInv' /\ SweepInv' /\ ObjectInv' /\ FinishedInv'
    BY <1>1, <1>3 DEF CommandInv, RestoreInv, SweepInv, ObjectInv, FinishedInv, Files
  <1> QED BY <1>2, <1>4

\* backup remove: the tasks are listed, and run in any order.
LEMMA RemoveBegins ==
    ASSUME BackupInv, RemoveStart
    PROVE  BackupInv'
  <1> USE DEF BackupInv
  <1>1. PICK S \in SUBSET Snapshots, f \in BOOLEAN :
             /\ cmd = Idle /\ cmd' = [op |-> "remove", snap |-> None, force |-> f]
             /\ todo' = DeleteTasks(S) /\ touched' = touched \cup S
             /\ UNCHANGED <<backend, up, main, taking, taken, obj, row, drop, errors, restores, faults>>
    <2>1. PICK cutoff \in 1..(MaxSnapshots + 1), f \in BOOLEAN :
             LET S == {s \in Snapshots : row[s] # NoRow /\ s < cutoff}
             IN  /\ DeleteTasks(S) # {}
                 /\ cmd' = [op |-> "remove", snap |-> None, force |-> f]
                 /\ todo' = DeleteTasks(S)
                 /\ touched' = touched \cup S
      BY DEF RemoveStart
    <2> DEFINE S == {s \in Snapshots : row[s] # NoRow /\ s < cutoff}
    <2>2. S \in SUBSET Snapshots
      OBVIOUS
    <2> HIDE DEF S
    <2>3. /\ cmd' = [op |-> "remove", snap |-> None, force |-> f]
          /\ todo' = DeleteTasks(S) /\ touched' = touched \cup S
      BY <2>1 DEF S
    <2> QED BY <2>2, <2>3 DEF RemoveStart, dbVars
  <1>2. drop = {} /\ cmd'.op = "remove"
    BY <1>1 DEF CommandInv, Idle
  <1>3. \A t \in todo' : t[1] \in S
    BY <1>1 DEF DeleteTasks, CloudTasks, LocalTasks
  <1>4. TypeOK'
    BY <1>1 DEF TypeOK
  <1>5. CommandInv' /\ RestoreInv' /\ SweepInv' /\ ObjectInv' /\ FinishedInv'
    BY <1>1, <1>2, <1>3 DEF CommandInv, RestoreInv, SweepInv, ObjectInv, FinishedInv, Files
  <1> QED BY <1>4, <1>5

\* A delete task takes nothing of a snapshot that no remove has worked on, and
\* comes to its row with nothing left, or by --force.
LEMMA DeleteStep ==
    ASSUME BackupInv, NEW t \in todo,
           \/ S3Delete(t) \/ CloudDelete(t) \/ LocalDelete(t) \/ SweepUnreachable(t)
    PROVE  BackupInv'
  <1> USE DEF BackupInv
  <1>1. /\ cmd.op = "remove" /\ todo' = todo \ {t} /\ drop' \in {drop, drop \cup {t}} /\ (Fault \/ NoFault)
        /\ UNCHANGED <<backend, up, main, taking, taken, row, cmd, errors, restores, touched>>
    BY DEF S3Delete, CloudDelete, LocalDelete, SweepUnreachable, Sweep, Settle, dbVars
  <1>2. t[1] \in touched /\ t[1] \in Snapshots
    BY <1>1 DEF CommandInv, TypeOK
  <1> DEFINE O == [Units -> 0..MaxData]
             swept(left) == [u \in Units |-> IF u \in left THEN obj[t[1]][u] ELSE None]
  <1>3. \/ obj' = obj /\ (backend = "rocksdb" \/ drop' = drop)
        \/ obj' = [obj EXCEPT ![t[1]][t[2]] = None] /\ backend = "rocksdb"
        \/ \E left : obj' = [obj EXCEPT ![t[1]] = swept(left)] /\ (drop' # drop /\ ~cmd.force => left = {})
    <2>1. CASE S3Delete(t)
      BY <2>1 DEF S3Delete, delete_s3_object
    <2>2. CASE CloudDelete(t) \/ LocalDelete(t)
      <3>1. PICK left : Sweep(t, left)
        BY <2>2 DEF CloudDelete, LocalDelete
      <3>2. obj' = [obj EXCEPT ![t[1]] = swept(left)]
        BY <3>1 DEF Sweep
      <3>3. drop' # drop /\ ~cmd.force => left = {}
        BY <3>1 DEF Sweep, Settle, Swept
      <3> QED BY <3>2, <3>3
    <2>3. CASE SweepUnreachable(t)
      BY <2>3 DEF SweepUnreachable
    <2> QED BY <2>1, <2>2, <2>3
  <1>4. /\ obj \in [Snapshots -> O] /\ None \in 0..MaxData
        /\ \A left : swept(left) \in O /\ \A u \in Units : swept(left)[u] \in {None, obj[t[1]][u]}
    BY <1>2, BackupAssumption DEF TypeOK, None
  <1>5. \A left : left = {} => \A u \in Units : swept(left)[u] = None
    OBVIOUS
  <1> HIDE DEF swept
  <1>6. obj' \in [Snapshots -> O] /\ \A s \in Snapshots \ {t[1]} : obj'[s] = obj[s]
    <2>1. CASE obj' = obj
      BY <1>4, <2>1
    <2>2. CASE obj' = [obj EXCEPT ![t[1]][t[2]] = None]
      BY <1>4, <2>2
    <2>3. ASSUME NEW left, obj' = [obj EXCEPT ![t[1]] = swept(left)]
          PROVE  obj' \in [Snapshots -> O] /\ \A s \in Snapshots \ {t[1]} : obj'[s] = obj[s]
      <3> HIDE DEF O
      <3> QED BY <1>4, <2>3
    <2> QED BY <1>3, <2>1, <2>2, <2>3
  <1>7. TypeOK'
    BY <1>1, <1>6, FaultType DEF TypeOK
  <1>8. CommandInv' /\ RestoreInv' /\ FinishedInv'
    BY <1>1, <1>2 DEF CommandInv, RestoreInv, FinishedInv, Files
  <1>9. ObjectInv'
    BY <1>1, <1>2, <1>6 DEF ObjectInv
  <1>10. SweepInv'
    <2> SUFFICES ASSUME backend # "rocksdb", ~cmd.force, NEW d \in drop', row[d[1]].status = "finished"
                 PROVE  \A u \in Units : obj'[d[1]][u] = None
      BY <1>1 DEF SweepInv
    <2>1. d[1] \in Snapshots
      BY <1>1, <1>2 DEF CommandInv, TypeOK
    <2>2. d \in drop => \A u \in Units : obj[d[1]][u] = None
      BY DEF SweepInv
    <2>3. CASE d[1] # t[1]
      BY <1>1, <1>6, <2>1, <2>2, <2>3
    <2>4. CASE d[1] = t[1] /\ obj' = obj /\ drop' = drop
      BY <2>2, <2>4
    <2>5. ASSUME d[1] = t[1], NEW left, obj' = [obj EXCEPT ![t[1]] = swept(left)],
                 drop' # drop => left = {}
          PROVE  \A u \in Units : obj'[d[1]][u] = None
      <3>1. obj'[d[1]] = swept(left)
        BY <1>2, <1>4, <2>5
      <3>2. CASE left = {}
        BY <1>5, <3>1, <3>2
      <3>3. CASE left # {}
        <4>1. d \in drop
          BY <2>5, <3>3
        <4> QED BY <1>4, <2>2, <2>5, <3>1, <4>1
      <3> QED BY <3>2, <3>3
    <2> QED BY <1>3, <2>3, <2>4, <2>5
  <1> QED BY <1>7, <1>8, <1>9, <1>10

LEMMA DropStep ==
    ASSUME BackupInv, NEW t \in drop, DropRow(t)
    PROVE  BackupInv'
  <1> USE DEF BackupInv
  <1>1. /\ drop' = drop \ {t} /\ row' \in {row, [row EXCEPT ![t[1]] = NoRow]} /\ (Fault \/ NoFault)
        /\ UNCHANGED <<backend, up, main, taking, taken, obj, cmd, todo, errors, restores, touched>>
    BY DEF DropRow, dbVars, NoFault
  <1>2. cmd.op = "remove" /\ t[1] \in Snapshots
    BY DEF CommandInv, TypeOK
  <1>3. TypeOK'
    <2>1. NoRow \in [status : {"none", "running", "failed", "finished"},
                     files : SUBSET (Units \cup {"ts", "dir"})]
      BY DEF NoRow
    <2>2. row' \in [Snapshots -> [status : {"none", "running", "failed", "finished"},
                                  files : SUBSET (Units \cup {"ts", "dir"})]]
      BY <1>1, <2>1 DEF TypeOK
    <2> QED BY <1>1, <2>2, FaultType DEF TypeOK
  <1>4. \A s \in Snapshots : row'[s] = row[s] \/ row'[s].status = "none"
    BY <1>1 DEF TypeOK, NoRow
  <1>5. CommandInv' /\ RestoreInv' /\ ObjectInv'
    BY <1>1, <1>2 DEF CommandInv, RestoreInv, ObjectInv
  <1>6. FinishedInv'
    BY <1>1, <1>4 DEF FinishedInv, Files
  <1>7. SweepInv'
    <2>1. \A d \in drop' : d \in drop /\ d[1] \in Snapshots
      BY <1>1, <1>2 DEF CommandInv, TypeOK
    <2> QED BY <1>1, <1>4, <2>1 DEF SweepInv
  <1> QED BY <1>3, <1>5, <1>6, <1>7

\* backup restore: every unit gets what the snapshot has of it, or the command
\* will report an error.
LEMMA RestoreBegins ==
    ASSUME BackupInv, NEW s \in Snapshots, RestoreStart(s)
    PROVE  BackupInv'
  <1> USE DEF BackupInv
  <1>1. /\ cmd = Idle /\ restores < MaxRestores /\ restores' = restores + 1
        /\ cmd' = [op |-> "restore", snap |-> s, force |-> FALSE] /\ ~up
        /\ row[s].status = "finished" /\ row[s].files # {} /\ backend \in {"rocksdb", "eloqstore"}
        /\ todo' = IF backend = "rocksdb" THEN row[s].files ELSE Units
        /\ UNCHANGED <<backend, up, main, taking, taken, obj, row, drop, errors, faults, touched>>
    BY DEF RestoreStart, RestoreAllowed, Idle, Cloud, is_cluster_stopped, list_table_partition_dirs, dbVars
  <1>2. todo' = Units
    BY <1>1 DEF FinishedInv, Files
  <1>3. drop = {}
    BY <1>1 DEF CommandInv, Idle
  <1>4. TypeOK'
    <2>1. restores' \in 0..MaxRestores
      BY <1>1, BackupAssumption DEF TypeOK
    <2> QED BY <1>1, <2>1 DEF TypeOK
  <1>5. CommandInv' /\ RestoreInv' /\ SweepInv' /\ ObjectInv' /\ FinishedInv'
    BY <1>1, <1>2, <1>3 DEF CommandInv, RestoreInv, SweepInv, ObjectInv, FinishedInv, Files
  <1> QED BY <1>4, <1>5

LEMMA RestoreStep ==
    ASSUME BackupInv, NEW u \in Units, S3Restore(u) \/ PartitionRestore(u)
    PROVE  BackupInv'
  <1> USE DEF BackupInv
  <1> DEFINE q == main[u]
             d == obj[cmd.snap][u]
  <1>1. /\ cmd.op = "restore" /\ todo' = todo \ {u} /\ (Fault \/ NoFault)
        /\ UNCHANGED <<backend, up, taking, taken, obj, row, cmd, drop, restores, touched>>
    BY DEF S3Restore, PartitionRestore, CopyFails
  <1>2. cmd.snap \in Snapshots /\ drop = {} /\ q \in Seq(1..MaxData) /\ d \in 0..MaxData
    BY <1>1 DEF CommandInv, TypeOK
  <1>3. \/ errors' = TRUE /\ main' = main
        \/ /\ errors' = errors
           /\ \E p \in Seq(1..MaxData) : main' = [main EXCEPT ![u] = p] /\ Newest(p) = d
    <2>1. CASE d # None
      <3>1. d \in 1..MaxData
        BY <1>2, <2>1 DEF None
      <3>2. /\ NextEpoch(u, d) \in Seq(1..MaxData) /\ Newest(NextEpoch(u, d)) = d
            /\ NewestTerm(u, d) \in Seq(1..MaxData) /\ Newest(NewestTerm(u, d)) = d
        <4> HIDE DEF d
        <4> QED BY <1>2, <3>1, NewManifest DEF NextEpoch, NewestTerm
      <3> QED BY <2>1, <3>2 DEF S3Restore, PartitionRestore, CopyFails
    <2>2. CASE d = None
      <3>1. <<>> \in Seq(1..MaxData) /\ Newest(<<>>) = d
        BY <2>2 DEF Newest
      <3> QED BY <2>2, <3>1 DEF S3Restore, PartitionRestore, CopyFails, WithoutBackup
    <2> QED BY <2>1, <2>2
  <1>4. /\ main' \in [Units -> Seq(1..MaxData)] /\ errors' \in BOOLEAN
        /\ \A k \in Units \ {u} : main'[k] = main[k]
        /\ ~errors' => ~errors /\ Newest(main'[u]) = d
    <2> HIDE DEF d
    <2>1. main \in [Units -> Seq(1..MaxData)] /\ errors \in BOOLEAN
      BY DEF TypeOK
    <2>2. CASE errors' = TRUE /\ main' = main
      BY <2>1, <2>2
    <2>3. ASSUME errors' = errors, NEW p \in Seq(1..MaxData), main' = [main EXCEPT ![u] = p], Newest(p) = d
          PROVE  /\ main' \in [Units -> Seq(1..MaxData)] /\ errors' \in BOOLEAN
                 /\ \A k \in Units \ {u} : main'[k] = main[k]
                 /\ ~errors' => ~errors /\ Newest(main'[u]) = d
      <3>1. main'[u] = p /\ \A k \in Units \ {u} : main'[k] = main[k]
        BY <2>1, <2>3
      <3>2. main' \in [Units -> Seq(1..MaxData)]
        BY <2>1, <2>3
      <3> QED BY <2>1, <2>3, <3>1, <3>2
    <2> QED BY <1>3, <2>2, <2>3
  <1>5. TypeOK'
    BY <1>1, <1>4, FaultType DEF TypeOK
  <1>6. CommandInv' /\ SweepInv' /\ ObjectInv' /\ FinishedInv'
    BY <1>1, <1>2 DEF CommandInv, SweepInv, ObjectInv, FinishedInv, Files
  <1>7. RestoreInv'
    <2> SUFFICES ASSUME cmd.snap \notin touched, ~errors', NEW k \in Units \ todo'
                 PROVE  Newest(main'[k]) = taken[cmd.snap][k]
      BY <1>1 DEF RestoreInv, Current, Newest
    <2>1. CASE k = u
      <3>1. obj[cmd.snap] = taken[cmd.snap]
        BY <1>2 DEF ObjectInv
      <3> QED BY <1>4, <2>1, <3>1
    <2>2. CASE k # u
      <3>1. Current(k) = taken[cmd.snap][k]
        BY <1>1, <1>4, <2>2 DEF RestoreInv
      <3> QED BY <1>4, <2>2, <3>1 DEF Current, Newest
    <2> QED BY <2>1, <2>2
  <1> QED BY <1>5, <1>6, <1>7

LEMMA StutterStep == BackupInv /\ UNCHANGED vars => BackupInv'
  <1> SUFFICES ASSUME BackupInv, UNCHANGED vars PROVE BackupInv'
    OBVIOUS
  <1> USE DEF BackupInv, vars
  <1>1. TypeOK' /\ CommandInv' /\ ObjectInv' /\ SweepInv'
    BY DEF TypeOK, CommandInv, ObjectInv, SweepInv
  <1>2. FinishedInv' /\ RestoreInv'
    BY DEF FinishedInv, RestoreInv, Files, Current
  <1> QED BY <1>1, <1>2

LEMMA BackupStep == BackupInv /\ [Next]_vars => BackupInv'
  <1> SUFFICES ASSUME BackupInv, [Next]_vars PROVE BackupInv'
    OBVIOUS
  <1>1. CASE UNCHANGED vars
    BY <1>1, StutterStep
  <1>2. CASE Next
    <2>1. CASE Command
      BY <2>1, StartStep, DeleteStep, DropStep, EndStep, RestoreStep DEF Command
    <2>2. CASE ~Command
      BY <1>2, <2>2, ClusterStep, StartStep, EndStep, RemoveBegins, RestoreBegins DEF Next
    <2> QED BY <2>1, <2>2
  <1> QED BY <1>1, <1>2

(***************************************************************************)
(* The theorems                                                            *)
(***************************************************************************)

\* Through any number of backups, removals and restores with failed calls and
\* kills: a finished row stands for a complete backup and names all of it or
\* nothing, only a remove takes from it, and a delete task comes to the row last.
THEOREM BackupInvariant == Spec => []BackupInv
  <1> QED BY BackupInit, BackupStep, PTL DEF Spec

\* A restore that reports success (S3RestoreTask, process_partition_restore) has
\* put every unit back to what it held when the snapshot was taken, unless a
\* remove of that snapshot has run.
THEOREM RestoresTheSnapshot == Spec => []RestoreOkIsSnapshot
  <1>1. BackupInv => RestoreOkIsSnapshot
    BY DEF BackupInv, RestoreInv, RestoreOkIsSnapshot, RestoreOk
  <1> QED BY <1>1, BackupInvariant, PTL

\* The row of a finished backup goes only once nothing of the backup is left or
\* by --force (EloqStoreCloudDeleteTask, LocalBackupDeleteTask).
THEOREM RowsGoLast == Spec => RecordOutlivesSweep
  <1> DEFINE A == backend # "rocksdb" /\ ~cmd.force =>
                     \A s \in Snapshots : Deleted(s) => \A u \in Units : obj[s][u] = None
  <1>1. BackupInv /\ [Next]_vars => [A]_vars
    <2> SUFFICES ASSUME BackupInv, Next, backend # "rocksdb", ~cmd.force, NEW s \in Snapshots, Deleted(s)
                 PROVE  \A u \in Units : obj[s][u] = None
      OBVIOUS
    <2>1. /\ row[s].status = "finished" /\ row'[s].status = "none" /\ row'[s] # row[s] /\ row' # row
          /\ DOMAIN row = Snapshots
      BY DEF Deleted, NoRow, BackupInv, TypeOK
    <2>2. PICK t \in drop : DropRow(t)
      <3>0. ASSUME NEW k, NEW st \in {"running", "failed", "finished"}, NEW fs, save_snapshot_info(k, st, fs)
            PROVE  FALSE
        <4> DEFINE r == [status |-> st, files |-> fs]
        <4>1. row' = [row EXCEPT ![k] = r] /\ r.status # "none"
          BY <3>0 DEF save_snapshot_info
        <4> HIDE DEF r
        <4> QED BY <2>1, <4>1
      <3>1. ASSUME (\E fs : save_snapshot_info(cmd.snap, "finished", fs)) \/ SaveFailed PROVE FALSE
        BY <3>0, <3>1 DEF SaveFailed
      <3>2. ASSUME NEW k \in Snapshots, BackupStart(k) PROVE FALSE
        BY <3>0, <3>2 DEF BackupStart
      <3>3. CASE Command
        BY <2>1, <3>1, <3>3 DEF Command, Trigger, PollFinished, PollFails, S3Delete, CloudDelete, LocalDelete,
          SweepUnreachable, RemoveEnd, S3Restore, PartitionRestore, RestoreEnd
      <3>4. CASE ~Command
        BY <2>1, <3>2, <3>4 DEF Next, StartStop, Crash, RemoveStart, Write, Take, RestoreStart
      <3> QED BY <3>3, <3>4
    <2>3. t[1] = s
      <3>1. row' = row \/ row' = [row EXCEPT ![t[1]] = NoRow]
        BY <2>2 DEF DropRow
      <3> QED BY <2>1, <3>1
    <2> QED BY <2>1, <2>2, <2>3 DEF BackupInv, SweepInv
  <1> QED BY <1>1, BackupInvariant, PTL DEF Spec, RecordOutlivesSweep
=============================================================================
