---------------------------- MODULE MutationLock ----------------------------
(***************************************************************************)
(* The per-cluster lock file of eloqctl: ClusterMutationLock in            *)
(* cli/cmd_base.rs.  Every invocation of a mutating command is a process   *)
(* that walks through `acquire`, holds the lock while the command runs and *)
(* drops it.  Each action is one system call, the unit at which processes  *)
(* of one control host interleave.  A process may be killed at any point.  *)
(***************************************************************************)
EXTENDS Naturals, FiniteSets

CONSTANTS Procs,    \* eloqctl invocations that want the same cluster
          Pids,     \* process identifiers the kernel hands out
          None,     \* no pid: an unwritten lock file, or a process not started
          MayCrash  \* whether invocations may be killed

ASSUME LockAssumption ==
    /\ None \notin Pids
    /\ None \notin Procs
    /\ MayCrash \in BOOLEAN

VARIABLES
    pc,        \* where each invocation is
    pid,       \* the pid of each running invocation, None otherwise
    others,    \* pids in use by unrelated processes of the host
    file,      \* the directory entry <cluster>.lock: NoFile, or its creator and content
    seen,      \* the pid each invocation read from the lock file in is_stale
    judged,    \* history: the creator of the file each invocation read in is_stale
    stolen     \* history: a reclaimer unlinked a file other than the one it judged

vars == <<pc, pid, others, file, seen, judged, stolen>>

\* A lock file is identified by the invocation that created it (its inode);
\* no invocation creates two.
File == [creator : Procs \cup {None}, content : Pids \cup {None}]

\* There is no entry of that name.
NoFile == [creator |-> None, content |-> None]

PC == {"idle", "open", "write", "read", "check", "remove", "held", "exiting", "gone"}

\* The pids that have an entry under /proc.
Live == ({pid[p] : p \in Procs} \ {None}) \cup others

TypeOK ==
    /\ pc \in [Procs -> PC]
    /\ pid \in [Procs -> Pids \cup {None}]
    /\ others \in SUBSET Pids
    /\ file \in File
    /\ seen \in [Procs -> Pids \cup {None}]
    /\ judged \in [Procs -> Procs \cup {None}]
    /\ stolen \in BOOLEAN

Init ==
    /\ pc = [p \in Procs |-> "idle"]
    /\ pid = [p \in Procs |-> None]
    /\ others = {}
    /\ file = NoFile
    /\ seen = [p \in Procs |-> None]
    /\ judged = [p \in Procs |-> None]
    /\ stolen = FALSE

Goto(p, l) == pc' = [pc EXCEPT ![p] = l]

(***************************************************************************)
(* acquire                                                                 *)
(***************************************************************************)

\* The operator starts a mutating command; the kernel picks a free pid.
Begin(p) ==
    /\ pc[p] = "idle"
    /\ \E i \in Pids \ Live : pid' = [pid EXCEPT ![p] = i]
    /\ Goto(p, "open")
    /\ UNCHANGED <<others, file, seen, judged, stolen>>

\* Fault: plain create, which opens an existing entry as well.
OpenCreatesAnyway(p) ==
    /\ pc[p] = "open"
    /\ file' = [creator |-> p, content |-> None]
    /\ Goto(p, "write")
    /\ UNCHANGED <<pid, others, seen, judged, stolen>>

\* OpenOptions::create_new: the entry is created, still empty.
OpenCreates(p) ==
    /\ pc[p] = "open"
    /\ file = NoFile
    /\ file' = [creator |-> p, content |-> None]
    /\ Goto(p, "write")
    /\ UNCHANGED <<pid, others, seen, judged, stolen>>

\* create_new fails with AlreadyExists: is_stale is asked about the entry.
OpenExists(p) ==
    /\ pc[p] = "open"
    /\ file # NoFile
    /\ Goto(p, "read")
    /\ UNCHANGED <<pid, others, file, seen, judged, stolen>>

\* Fault: the content is never written.
WriteNothing(p) ==
    /\ pc[p] = "write"
    /\ Goto(p, "held")
    /\ UNCHANGED <<pid, others, file, seen, judged, stolen>>

\* write_all goes to the opened file, which may have been unlinked meanwhile.
WriteContent(p) ==
    /\ pc[p] = "write"
    /\ file' = IF file.creator = p
               THEN [file EXCEPT !.content = pid[p]]
               ELSE file
    /\ Goto(p, "held")
    /\ UNCHANGED <<pid, others, seen, judged, stolen>>

\* is_stale reads the file.  No file or no pid in it: not stale, acquire bails.
ReadLock(p) ==
    /\ pc[p] = "read"
    /\ IF file.content # None
       THEN /\ seen' = [seen EXCEPT ![p] = file.content]
            /\ judged' = [judged EXCEPT ![p] = file.creator]
            /\ Goto(p, "check")
       ELSE /\ Goto(p, "exiting")
            /\ UNCHANGED <<seen, judged>>
    /\ UNCHANGED <<pid, others, file, stolen>>

\* process_exists looks the pid up in /proc: alive means bail, dead means stale.
CheckProc(p) ==
    /\ pc[p] = "check"
    /\ Goto(p, IF seen[p] \in Live THEN "exiting" ELSE "remove")
    /\ UNCHANGED <<pid, others, file, seen, judged, stolen>>

\* Fault: `acquire` calls itself again without unlinking the stale file.
RetryWithoutRemove(p) ==
    /\ pc[p] = "remove"
    /\ Goto(p, "open")
    /\ UNCHANGED <<pid, others, file, seen, judged, stolen>>

\* remove_file unlinks whatever now has the name; a missing entry is an error.
RemoveStale(p) ==
    /\ pc[p] = "remove"
    /\ file' = NoFile
    /\ Goto(p, IF file = NoFile THEN "exiting" ELSE "open")
    /\ stolen' = (stolen \/ (file # NoFile /\ file.creator # judged[p]))
    /\ UNCHANGED <<pid, others, seen, judged>>

(***************************************************************************)
(* Release, exit and crash                                                 *)
(***************************************************************************)

\* Drop at the end of the command: the entry is unlinked, whoever created it.
Release(p) ==
    /\ pc[p] = "held"
    /\ file' = NoFile
    /\ Goto(p, "exiting")
    /\ UNCHANGED <<pid, others, seen, judged, stolen>>

\* The process ends; its pid leaves /proc.
Exit(p) ==
    /\ pc[p] = "exiting"
    /\ pid' = [pid EXCEPT ![p] = None]
    /\ Goto(p, "gone")
    /\ UNCHANGED <<others, file, seen, judged, stolen>>

\* The process is killed: no destructor runs, so the lock file stays behind.
Crash(p) ==
    /\ MayCrash
    /\ pc[p] \notin {"idle", "gone"}
    /\ pid' = [pid EXCEPT ![p] = None]
    /\ Goto(p, "gone")
    /\ UNCHANGED <<others, file, seen, judged, stolen>>

\* The kernel gives a free pid to an unrelated process, or such a process ends.
OtherProcess ==
    /\ \/ \E i \in Pids \ Live : others' = others \cup {i}
       \/ \E i \in others : others' = others \ {i}
    /\ UNCHANGED <<pc, pid, file, seen, judged, stolen>>

Step(p) ==
    \/ Begin(p)       \/ OpenCreates(p) \/ OpenExists(p) \/ WriteContent(p)
    \/ ReadLock(p)    \/ CheckProc(p)   \/ RemoveStale(p)
    \/ Release(p)     \/ Exit(p)

Next ==
    \/ \E p \in Procs : Step(p) \/ Crash(p)
    \/ OtherProcess

Spec == Init /\ [][Next]_vars

\* A started invocation keeps executing until it ends or is killed.
FairSpec == Spec /\ \A p \in Procs : WF_vars(Step(p) /\ pc[p] # "idle")

-----------------------------------------------------------------------------
(***************************************************************************)
(* Properties                                                              *)
(***************************************************************************)

\* The invocations between create_new and the end of Drop.
Owners == {p \in Procs : pc[p] \in {"write", "held"}}

\* What the lock is documented to give: two commands never modify the cluster
\* at the same time.  The check-then-unlink of `acquire` does not give it.
MutualExclusion ==
    \A p, q \in Procs : pc[p] = "held" /\ pc[q] = "held" => p = q

\* The only way to lose exclusion is the race of `acquire` between is_stale and
\* remove_file: unless some reclaimer unlinked a file it had not judged, there
\* is one owner at most, also across crashes, reclaims and reused pids.
ExclusiveUnlessStolen ==
    ~stolen => \A p, q \in Owners : p = q

\* Without that race the lock file always names the command that is running,
\* so `is_stale` and the bail message of `acquire` speak about the right process.
FileNamesHolder ==
    ~stolen =>
      \A p \in Procs : pc[p] = "held" =>
          file = [creator |-> p, content |-> pid[p]]

\* The parts of the strengthening that makes the two invariants above inductive.
\* A process between its start and its end has a pid;
StartedHasPid ==
    \A p \in Procs : pc[p] \in PC \ {"idle", "gone"} => pid[p] \in Pids

\* a file with a pid in it was written by a process that reached the end of
\* `acquire`;
WrittenByHolder ==
    file.content # None =>
        /\ file.creator \in Procs
        /\ pc[file.creator] \in {"held", "exiting", "gone"}
        /\ pc[file.creator] = "held" => file.content = pid[file.creator]

\* what a reclaimer read from it stays the pid of the writer for as long as the
\* writer holds the lock;
ReadStaysTrue ==
    \A p \in Procs : pc[p] = "check" =>
        /\ judged[p] \in Procs
        /\ pc[judged[p]] \in {"held", "exiting", "gone"}
        /\ pc[judged[p]] = "held" => seen[p] = pid[judged[p]]

\* a reclaimer that found that pid dead knows that the writer has ended;
JudgedEnded ==
    \A p \in Procs : pc[p] = "remove" =>
        judged[p] \in Procs /\ pc[judged[p]] \in {"exiting", "gone"}

\* and the entry is the owner's, unless a reclaimer has lost the race.
EntryIsOwners ==
    ~stolen =>
        /\ \A p \in Owners : file.creator = p
        /\ \A p \in Procs : pc[p] = "held" => file.content = pid[p]

\* The inductive invariant of the lock file.
LockInv ==
    /\ StartedHasPid
    /\ WrittenByHolder
    /\ ReadStaysTrue
    /\ JudgedEnded
    /\ EntryIsOwners

\* `acquire` retries itself after unlinking a stale lock; the retries end, and
\* the command gets the lock or fails fast.
AcquireEnds ==
    \A p \in Procs : pc[p] = "open" ~> pc[p] \in {"held", "exiting", "gone"}

=============================================================================
