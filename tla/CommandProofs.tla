--------------------------- MODULE CommandProofs ----------------------------
(***************************************************************************)
(* What a mutating command does before its tasks run: it takes the lock of *)
(* the cluster (MutationLock), then it puts its plan together and cuts it  *)
(* into stages (TaskPlan).  The lock file of ClusterMutationLock gives     *)
(* mutual exclusion for every number of invocations and pids, except for   *)
(* the one race `stolen` names; the stages of a plan come back from the    *)
(* cut as they were asked for, for any number of steps and any task ids.   *)
(***************************************************************************)
EXTENDS MutationLock, TaskPlan, SequenceTheorems, FiniteSetTheorems, WellFoundedInduction, TLAPS

(***************************************************************************)
(* The lock of the cluster                                                 *)
(***************************************************************************)

\* The state of the lock file and of its users stays well formed.
THEOREM LockTyping == Spec => []TypeOK
<1>1. Init => TypeOK
  <2>1. NoFile \in File
    BY DEF NoFile, File
  <2>2. Init => pc \in [Procs -> PC]
    BY DEF Init, PC
  <2> QED BY <2>1, <2>2 DEF Init, TypeOK
<1> USE LockAssumption DEF TypeOK, PC, File, NoFile, Goto
<1>2. TypeOK /\ [Next]_vars => TypeOK'
  <2> SUFFICES ASSUME TypeOK, [Next]_vars PROVE TypeOK'
    OBVIOUS
  <2>1. ASSUME NEW p \in Procs, Step(p) PROVE TypeOK'
    <3>1. CASE Begin(p)         BY <3>1 DEF Begin
    <3>2. CASE OpenCreates(p)   BY <3>2 DEF OpenCreates
    <3>3. CASE OpenExists(p)    BY <3>3 DEF OpenExists
    <3>4. CASE WriteContent(p)  BY <3>4 DEF WriteContent
    <3>5. CASE ReadLock(p)      BY <3>5 DEF ReadLock
    <3>6. CASE CheckProc(p)     BY <3>6 DEF CheckProc
    <3>7. CASE RemoveStale(p)   BY <3>7 DEF RemoveStale
    <3>8. CASE Release(p)       BY <3>8 DEF Release
    <3>9. CASE Exit(p)          BY <3>9 DEF Exit
    <3> QED BY <2>1, <3>1, <3>2, <3>3, <3>4, <3>5, <3>6, <3>7, <3>8, <3>9 DEF Step
  <2>2. ASSUME NEW p \in Procs, Crash(p) PROVE TypeOK'
    BY <2>2 DEF Crash
  <2>3. CASE OtherProcess
    BY <2>3 DEF OtherProcess, Live
  <2>4. CASE UNCHANGED vars
    BY <2>4 DEF vars
  <2> QED BY <2>1, <2>2, <2>3, <2>4 DEF Next
<1> QED BY <1>1, <1>2, PTL DEF Spec

\* LockInv holds initially and every system call of every invocation keeps it.
THEOREM LockInvariant == Spec => []LockInv
<1> USE LockAssumption DEF PC
<1>1. Init => LockInv
  BY DEF Init, NoFile, LockInv, StartedHasPid, WrittenByHolder, ReadStaysTrue, JudgedEnded,
         EntryIsOwners, Owners
<1>2. TypeOK /\ TypeOK' /\ LockInv /\ [Next]_vars => LockInv'
  <2> SUFFICES ASSUME TypeOK, TypeOK', LockInv, [Next]_vars PROVE LockInv'
    OBVIOUS
  <2> USE DEF TypeOK, File, NoFile, Goto
  <2>a. StartedHasPid /\ WrittenByHolder /\ ReadStaysTrue /\ JudgedEnded /\ EntryIsOwners
    BY DEF LockInv
  <2>1. ASSUME NEW p \in Procs, Step(p) PROVE LockInv'
    <3>1. CASE Begin(p)
      <4>1. StartedHasPid' BY <3>1, <2>a DEF Begin, StartedHasPid
      <4>2. WrittenByHolder' BY <3>1, <2>a DEF Begin, WrittenByHolder
      <4>3. ReadStaysTrue' BY <3>1, <2>a DEF Begin, ReadStaysTrue
      <4>4. JudgedEnded' BY <3>1, <2>a DEF Begin, JudgedEnded
      <4>5. EntryIsOwners' BY <3>1, <2>a DEF Begin, EntryIsOwners, Owners
      <4> QED BY <4>1, <4>2, <4>3, <4>4, <4>5 DEF LockInv
    <3>2. CASE OpenCreates(p)
      <4>1. StartedHasPid' BY <3>2, <2>a DEF OpenCreates, StartedHasPid
      <4>2. WrittenByHolder' BY <3>2, <2>a DEF OpenCreates, WrittenByHolder
      <4>3. ReadStaysTrue' BY <3>2, <2>a DEF OpenCreates, ReadStaysTrue
      <4>4. JudgedEnded' BY <3>2, <2>a DEF OpenCreates, JudgedEnded
      <4>5. EntryIsOwners' BY <3>2, <2>a DEF OpenCreates, EntryIsOwners, Owners
      <4> QED BY <4>1, <4>2, <4>3, <4>4, <4>5 DEF LockInv
    <3>3. CASE OpenExists(p)
      <4>1. StartedHasPid' BY <3>3, <2>a DEF OpenExists, StartedHasPid
      <4>2. WrittenByHolder' BY <3>3, <2>a DEF OpenExists, WrittenByHolder
      <4>3. ReadStaysTrue' BY <3>3, <2>a DEF OpenExists, ReadStaysTrue
      <4>4. JudgedEnded' BY <3>3, <2>a DEF OpenExists, JudgedEnded
      <4>5. EntryIsOwners' BY <3>3, <2>a DEF OpenExists, EntryIsOwners, Owners
      <4> QED BY <4>1, <4>2, <4>3, <4>4, <4>5 DEF LockInv
    <3>4. CASE WriteContent(p)
      <4>1. StartedHasPid' BY <3>4, <2>a DEF WriteContent, StartedHasPid
      <4>2. WrittenByHolder' BY <3>4, <2>a DEF WriteContent, WrittenByHolder, StartedHasPid
      <4>3. ReadStaysTrue' BY <3>4, <2>a DEF WriteContent, ReadStaysTrue, StartedHasPid
      <4>4. JudgedEnded' BY <3>4, <2>a DEF WriteContent, JudgedEnded
      <4>5. EntryIsOwners' BY <3>4, <2>a DEF WriteContent, EntryIsOwners, Owners
      <4> QED BY <4>1, <4>2, <4>3, <4>4, <4>5 DEF LockInv
    <3>5. CASE ReadLock(p)
      <4>1. StartedHasPid' BY <3>5, <2>a DEF ReadLock, StartedHasPid
      <4>2. WrittenByHolder' BY <3>5, <2>a DEF ReadLock, WrittenByHolder
      <4>3. ReadStaysTrue' BY <3>5, <2>a DEF ReadLock, ReadStaysTrue, WrittenByHolder
      <4>4. JudgedEnded' BY <3>5, <2>a DEF ReadLock, JudgedEnded
      <4>5. EntryIsOwners' BY <3>5, <2>a DEF ReadLock, EntryIsOwners, Owners
      <4> QED BY <4>1, <4>2, <4>3, <4>4, <4>5 DEF LockInv
    <3>6. CASE CheckProc(p)
      <4>1. StartedHasPid' BY <3>6, <2>a DEF CheckProc, StartedHasPid
      <4>2. WrittenByHolder' BY <3>6, <2>a DEF CheckProc, WrittenByHolder
      <4>3. ReadStaysTrue' BY <3>6, <2>a DEF CheckProc, ReadStaysTrue
      <4>4. JudgedEnded' BY <3>6, <2>a DEF CheckProc, JudgedEnded, ReadStaysTrue, StartedHasPid, Live
      <4>5. EntryIsOwners' BY <3>6, <2>a DEF CheckProc, EntryIsOwners, Owners
      <4> QED BY <4>1, <4>2, <4>3, <4>4, <4>5 DEF LockInv
    <3>7. CASE RemoveStale(p)
      <4>1. StartedHasPid' BY <3>7, <2>a DEF RemoveStale, StartedHasPid
      <4>2. WrittenByHolder' BY <3>7, <2>a DEF RemoveStale, WrittenByHolder
      <4>3. ReadStaysTrue' BY <3>7, <2>a DEF RemoveStale, ReadStaysTrue
      <4>4. JudgedEnded' BY <3>7, <2>a DEF RemoveStale, JudgedEnded
      <4>5. ASSUME ~stolen', NEW q \in Procs, pc'[q] \in {"write", "held"} PROVE FALSE
        <5>1. q # p /\ pc[q] \in {"write", "held"}
          BY <3>7, <4>5 DEF RemoveStale
        <5>2. ~stolen /\ (file = NoFile \/ file.creator = judged[p])
          BY <3>7, <4>5 DEF RemoveStale
        <5>3. file.creator = q
          BY <5>1, <5>2, <2>a DEF EntryIsOwners, Owners
        <5>4. q = judged[p]
          BY <5>2, <5>3
        <5>5. pc[judged[p]] \in {"exiting", "gone"}
          BY <3>7, <2>a DEF RemoveStale, JudgedEnded
        <5> QED BY <5>1, <5>4, <5>5
      <4>6. EntryIsOwners' BY <4>5 DEF EntryIsOwners, Owners
      <4> QED BY <4>1, <4>2, <4>3, <4>4, <4>6 DEF LockInv
    <3>8. CASE Release(p)
      <4>1. StartedHasPid' BY <3>8, <2>a DEF Release, StartedHasPid
      <4>2. WrittenByHolder' BY <3>8, <2>a DEF Release, WrittenByHolder
      <4>3. ReadStaysTrue' BY <3>8, <2>a DEF Release, ReadStaysTrue
      <4>4. JudgedEnded' BY <3>8, <2>a DEF Release, JudgedEnded
      <4>5. EntryIsOwners' BY <3>8, <2>a DEF Release, EntryIsOwners, Owners
      <4> QED BY <4>1, <4>2, <4>3, <4>4, <4>5 DEF LockInv
    <3>9. CASE Exit(p)
      <4>1. StartedHasPid' BY <3>9, <2>a DEF Exit, StartedHasPid
      <4>2. WrittenByHolder' BY <3>9, <2>a DEF Exit, WrittenByHolder
      <4>3. ReadStaysTrue' BY <3>9, <2>a DEF Exit, ReadStaysTrue
      <4>4. JudgedEnded' BY <3>9, <2>a DEF Exit, JudgedEnded
      <4>5. EntryIsOwners' BY <3>9, <2>a DEF Exit, EntryIsOwners, Owners
      <4> QED BY <4>1, <4>2, <4>3, <4>4, <4>5 DEF LockInv
    <3> QED BY <2>1, <3>1, <3>2, <3>3, <3>4, <3>5, <3>6, <3>7, <3>8, <3>9 DEF Step
  <2>2. ASSUME NEW p \in Procs, Crash(p) PROVE LockInv'
    <3>1. StartedHasPid' BY <2>2, <2>a DEF Crash, StartedHasPid
    <3>2. WrittenByHolder' BY <2>2, <2>a DEF Crash, WrittenByHolder
    <3>3. ReadStaysTrue' BY <2>2, <2>a DEF Crash, ReadStaysTrue
    <3>4. JudgedEnded' BY <2>2, <2>a DEF Crash, JudgedEnded
    <3>5. EntryIsOwners' BY <2>2, <2>a DEF Crash, EntryIsOwners, Owners
    <3> QED BY <3>1, <3>2, <3>3, <3>4, <3>5 DEF LockInv
  <2>3. CASE OtherProcess
    BY <2>3, <2>a DEF OtherProcess, LockInv, StartedHasPid, WrittenByHolder, ReadStaysTrue,
       JudgedEnded, EntryIsOwners, Owners
  <2>4. CASE UNCHANGED vars
    BY <2>4, <2>a DEF vars, LockInv, StartedHasPid, WrittenByHolder, ReadStaysTrue,
       JudgedEnded, EntryIsOwners, Owners
  <2> QED BY <2>1, <2>2, <2>3, <2>4 DEF Next
<1> QED BY <1>1, <1>2, LockTyping, PTL DEF Spec

\* However many commands start, crash and reclaim, two of them own the lock at
\* once only after a reclaimer unlinked a file that it had not judged stale.
THEOREM Exclusion == Spec => []ExclusiveUnlessStolen
<1>1. LockInv => ExclusiveUnlessStolen
  BY DEF LockInv, EntryIsOwners, ExclusiveUnlessStolen, Owners
<1> QED BY <1>1, LockInvariant, PTL

\* Under the same proviso the lock file is the running command's own.
THEOREM HolderNamed == Spec => []FileNamesHolder
<1>1. TypeOK /\ LockInv => FileNamesHolder
  BY DEF TypeOK, File, LockInv, EntryIsOwners, FileNamesHolder, Owners
<1> QED BY <1>1, LockTyping, LockInvariant, PTL

(***************************************************************************)
(* The plan and its stages                                                 *)
(* An induction over data goes by the least counterexample: the numbers    *)
(* are well founded, so that a set of them has a least element.            *)
(***************************************************************************)

\* A set of numbers that is not empty has a least one.
LEMMA LeastNumber ==
    ASSUME NEW T \in SUBSET Nat, T # {}
    PROVE  \E n \in T : \A m \in T : n <= m
  <1>1. PICK n \in T : \A m \in T : ~(<<m, n>> \in OpToRel(<, Nat))
    BY NatLessThanWellFounded, WFMin, Zenon
  <1>2. ASSUME NEW m \in T, m < n PROVE FALSE
    <2>1. <<m, n>> \in {ss \in Nat \X Nat : ss[1] < ss[2]}
      BY <1>2
    <2>2. <<m, n>> \in OpToRel(<, Nat)
      BY <2>1, Zenon DEF OpToRel
    <2> QED BY <1>1, <2>2, Zenon
  <1> QED BY <1>2

\* The i-th element is one, and that of a whole interval is i.
LEMMA NthFacts ==
    ASSUME NEW n \in Nat, NEW S \in SUBSET (1..n), NEW i \in 1..Cardinality(S)
    PROVE  Nth(S, i) \in S /\ (S = 1..n => Nth(S, i) = i)
  <1> DEFINE upto(m) == {x \in S : x <= m}
             T == {m \in 0..n : Cardinality(upto(m)) >= i}
  <1>1. IsFiniteSet(S) /\ Cardinality(S) \in Nat /\ i \in Nat /\ i >= 1 /\ i <= Cardinality(S)
    <2>1. IsFiniteSet(1..n)
      BY FS_Interval
    <2>2. IsFiniteSet(S)
      BY <2>1, FS_Subset
    <2>3. Cardinality(S) \in Nat
      BY <2>2, FS_CardinalityType
    <2> QED BY <2>2, <2>3
  <1>2. \A m \in Nat : IsFiniteSet(upto(m)) /\ Cardinality(upto(m)) \in Nat
    <2> SUFFICES ASSUME NEW m \in Nat PROVE IsFiniteSet(upto(m)) /\ Cardinality(upto(m)) \in Nat
      OBVIOUS
    <2>1. upto(m) \in SUBSET S
      OBVIOUS
    <2> HIDE DEF upto
    <2>2. IsFiniteSet(upto(m))
      BY <1>1, <2>1, FS_Subset
    <2> QED BY <2>2, FS_CardinalityType
  <1>3. n \in T
    <2>1. upto(n) = S
      <3>1. \A x \in S : x <= n
        OBVIOUS
      <3> QED BY <3>1
    <2>2. n \in 0..n
      OBVIOUS
    <2>3. Cardinality(upto(n)) >= i
      <3> HIDE DEF upto
      <3> QED BY <1>1, <2>1
    <2> QED BY <2>2, <2>3
  <1>4. PICK m \in T : \A x \in T : m <= x
    <2>1. T \subseteq Nat
      <3> HIDE DEF upto
      <3>1. T \subseteq 0..n
        OBVIOUS
      <3> HIDE DEF T
      <3> QED BY <3>1
    <2> HIDE DEF T
    <2> QED BY <1>3, <2>1, LeastNumber
  <1>a. m \in 0..n /\ m \in Nat /\ Cardinality(upto(m)) >= i
    BY <1>4
  <1>5. m # 0
    <2>1. upto(0) = {}
      <3>1. \A x \in S : ~(x <= 0)
        OBVIOUS
      <3> QED BY <3>1
    <2> HIDE DEF upto
    <2> QED BY <1>1, <1>a, <2>1, FS_EmptySet
  <1>6. m - 1 \in Nat /\ Cardinality(upto(m - 1)) < i
    <2>1. m - 1 \in Nat /\ m - 1 \in 0..n /\ ~(m <= m - 1)
      BY <1>a, <1>5
    <2>2. m - 1 \notin T
      <3> HIDE DEF T
      <3> QED BY <1>4, <2>1
    <2>3. ~(Cardinality(upto(m - 1)) >= i)
      BY <2>1, <2>2
    <2> HIDE DEF upto
    <2> QED BY <1>1, <1>2, <2>1, <2>3
  <1>7. m \in S /\ Cardinality(upto(m)) = i
    <2>1. CASE m \notin S
      <3>1. \A x \in S : x <= m <=> x <= m - 1
        BY <1>a, <1>6, <2>1
      <3>2. upto(m) = upto(m - 1)
        BY <3>1
      <3> HIDE DEF upto
      <3> QED BY <1>1, <1>2, <1>a, <1>6, <3>2
    <2>2. CASE m \in S
      <3>1. \A x \in S : x <= m <=> (x <= m - 1 \/ x = m)
        BY <1>a, <1>6
      <3>2. ~(m <= m - 1)
        BY <1>a
      <3>3. upto(m) = upto(m - 1) \cup {m} /\ m \notin upto(m - 1)
        BY <2>2, <3>1, <3>2
      <3> HIDE DEF upto
      <3>4. Cardinality(upto(m)) = Cardinality(upto(m - 1)) + 1
        BY <1>2, <1>6, <3>3, FS_AddElement
      <3> QED BY <1>1, <1>2, <1>a, <1>6, <2>2, <3>4
    <2> QED BY <2>1, <2>2
  <1>8. Nth(S, i) \in S /\ Cardinality(upto(Nth(S, i))) = i
    BY <1>7 DEF Nth
  <1>9. ASSUME S = 1..n PROVE Nth(S, i) = i
    <2> DEFINE k == Nth(S, i)
    <2>1. k \in 1..n
      BY <1>8, <1>9
    <2> HIDE DEF k
    <2>2. \A x \in Nat : (x \in 1..n /\ x <= k) <=> x \in 1..k
      BY <2>1
    <2>3. upto(k) = 1..k
      BY <1>9, <2>2
    <2>4. Cardinality(1..k) = k
      BY <2>1, FS_Interval
    <2>5. Cardinality(upto(k)) = i
      BY <1>8 DEF k
    <2> HIDE DEF upto
    <2>6. k = i
      BY <2>3, <2>4, <2>5
    <2> QED BY <2>6 DEF k
  <1> QED BY <1>8, <1>9

\* A task of the stage is in the map already.
Collides(map, tasks) == \E k \in DOMAIN map, i \in DOMAIN tasks : map[k] = tasks[i]

\* An extension appends the tasks, unless one of them is present: then the map
\* grows by less than the number of tasks.
LEMMA ExtendFacts ==
    ASSUME NEW map \in Seq(Ids), NEW tasks \in Seq(Ids)
    PROVE  /\ Extend(map, tasks) \in Seq(Ids)
           /\ Len(Extend(map, tasks)) <= Len(map) + Len(tasks)
           /\ Collides(map, tasks) => Len(Extend(map, tasks)) < Len(map) + Len(tasks)
           /\ ~Collides(map, tasks) => Extend(map, tasks) = map \o tasks
  <1> DEFINE new == {i \in DOMAIN tasks : \A k \in DOMAIN map : map[k] # tasks[i]}
             tail == [i \in 1..Cardinality(new) |-> tasks[Nth(new, i)]]
  <1>1. DOMAIN tasks = 1..Len(tasks) /\ Len(tasks) \in Nat /\ new \in SUBSET (1..Len(tasks))
    OBVIOUS
  <1>2. IsFiniteSet(1..Len(tasks)) /\ Cardinality(1..Len(tasks)) = Len(tasks)
    <2> DEFINE n == Len(tasks)
    <2>1. n \in Nat
      OBVIOUS
    <2> HIDE DEF n
    <2>2. IsFiniteSet(1..n) /\ Cardinality(1..n) = n
      BY <2>1, FS_Interval
    <2> QED BY <2>2 DEF n
  <1>3. /\ IsFiniteSet(new) /\ Cardinality(new) \in Nat /\ Cardinality(new) <= Len(tasks)
        /\ Cardinality(new) = Len(tasks) => new = 1..Len(tasks)
    <2> HIDE DEF new
    <2>1. IsFiniteSet(new)
      BY <1>1, <1>2, FS_Subset
    <2>2. Cardinality(new) \in Nat
      BY <2>1, FS_CardinalityType
    <2> QED BY <1>1, <1>2, <2>1, <2>2, FS_Subset
  <1>4. \A i \in 1..Cardinality(new) :
            Nth(new, i) \in 1..Len(tasks) /\ (new = 1..Len(tasks) => Nth(new, i) = i)
    <2> HIDE DEF new
    <2> QED BY <1>1, NthFacts
  <1>5. tail \in Seq(Ids) /\ Len(tail) = Cardinality(new)
    <2> HIDE DEF new
    <2>1. \A i \in 1..Cardinality(new) : tasks[Nth(new, i)] \in Ids
      BY <1>1, <1>4, ElementOfSeq
    <2>2. tail \in [1..Cardinality(new) -> Ids]
      BY <2>1
    <2> HIDE DEF tail
    <2> QED BY <1>3, <2>2
  <1>6. Extend(map, tasks) = map \o tail
    BY DEF Extend
  <1>7. map \o tail \in Seq(Ids) /\ Len(map \o tail) = Len(map) + Cardinality(new)
    <2> HIDE DEF tail, new
    <2> QED BY <1>5
  <1>8. ASSUME Collides(map, tasks) PROVE Cardinality(new) < Len(tasks)
    <2>1. new # 1..Len(tasks)
      BY <1>1, <1>8 DEF Collides
    <2> HIDE DEF new
    <2> QED BY <1>1, <1>3, <2>1
  <1>9. ASSUME ~Collides(map, tasks) PROVE tail = tasks
    <2>1. new = 1..Len(tasks)
      BY <1>1, <1>9 DEF Collides
    <2> HIDE DEF new
    <2>2. Cardinality(new) = Len(tasks)
      BY <1>2, <2>1
    <2>3. \A i \in 1..Len(tasks) : tail[i] = tasks[i]
      BY <1>4, <2>1, <2>2
    <2> HIDE DEF tail
    <2> QED BY <1>1, <1>5, <2>2, <2>3
  <1> HIDE DEF new, tail
  <1>10. Len(map) \in Nat
    OBVIOUS
  <1> QED BY <1>1, <1>3, <1>6, <1>7, <1>8, <1>9, <1>10

-----------------------------------------------------------------------------

Plans == [meant : Seq(Seq(Ids)), barrier : Seq(Nat), executable : Seq(Ids)]

\* The places where the recorded lengths cut the tasks.
Cuts(off, b) ==
    /\ off \in [1..Len(b) + 1 -> Nat]
    /\ off[1] = 0
    /\ \A k \in 1..Len(b) : off[k + 1] = off[k] + b[k]
    /\ \A k \in 1..Len(b) + 1 : off[k] <= off[Len(b) + 1]

\* Every stage stands between its cuts, and there is nothing else.
Fits(off, pl) ==
    /\ off[Len(pl.barrier) + 1] = Len(pl.executable)
    /\ \A k \in 1..Len(pl.meant) :
           /\ pl.barrier[k] = Len(pl.meant[k])
           /\ \A j \in 1..Len(pl.meant[k]) : pl.executable[off[k] + j] = pl.meant[k][j]
    /\ \A i \in 1..Len(pl.executable) :
           \E k \in 1..Len(pl.meant) : \E j \in 1..Len(pl.meant[k]) : pl.executable[i] = pl.meant[k][j]

\* A plan without a misfit is cut where it was joined; one with a misfit asks
\* for more tasks than it has.
Cut(off, pl, clean) ==
    /\ Cuts(off, pl.barrier)
    /\ IF clean THEN Fits(off, pl) ELSE off[Len(pl.barrier) + 1] > Len(pl.executable)

PlanOK(pl, clean) ==
    /\ pl \in Plans
    /\ Len(pl.barrier) = Len(pl.meant)
    /\ \E off : Cut(off, pl, clean)

Apart(meant, s) ==
    \A k \in DOMAIN meant : \A i \in DOMAIN meant[k], j \in DOMAIN s : meant[k][i] # s[j]

Clean == ~misfit /\ ~Shared(plan.meant)

\* What is cut so far.
Progress(off) ==
    /\ idx \in 1..Len(plan.barrier) + 1
    /\ end = off[idx] /\ end <= Len(plan.executable)
    /\ stages \in Seq(Seq(Ids)) /\ Len(stages) = idx - 1
    /\ Clean => \A k \in 1..(idx - 1) : stages[k] = plan.meant[k]

PlanTypes ==
    /\ source \in Sources /\ misfit \in BOOLEAN
    /\ phase \in {"merge", "split", "run", "panicked"}
    /\ plan \in Plans /\ Len(plan.barrier) = Len(plan.meant)

PhaseFacts ==
    /\ phase = "merge" => idx = 1 /\ end = 0 /\ stages = <<>>
    /\ phase = "run" => idx > Len(plan.barrier)
    /\ phase = "panicked" => ~Clean

PlanInv ==
    /\ PlanTypes
    /\ \E off : Cut(off, plan, Clean) /\ Progress(off)
    /\ PhaseFacts

\* The stages share nothing after one more exactly if they shared nothing
\* before and the new one is apart from them.
LEMMA SharedAppend ==
    ASSUME NEW meant \in Seq(Seq(Ids)), NEW s \in Seq(Ids)
    PROVE  ~Shared(Append(meant, s)) <=> ~Shared(meant) /\ Apart(meant, s)
  <1> DEFINE more == Append(meant, s)
             n == Len(meant)
  <1>1. /\ n \in Nat /\ DOMAIN meant = 1..n /\ DOMAIN more = 1..(n + 1)
        /\ more[n + 1] = s /\ \A k \in 1..n : more[k] = meant[k]
    OBVIOUS
  <1> HIDE DEF more, n
  <1>2. ASSUME ~Shared(more) PROVE ~Shared(meant) /\ Apart(meant, s)
    <2>1. ~Shared(meant)
      <3> SUFFICES ASSUME NEW k \in 1..n, NEW l \in 1..n, k # l,
                          NEW i \in DOMAIN meant[k], NEW j \in DOMAIN meant[l],
                          meant[k][i] = meant[l][j]
                   PROVE  FALSE
        BY <1>1 DEF Shared
      <3>1. k \in DOMAIN more /\ l \in DOMAIN more /\ more[k] = meant[k] /\ more[l] = meant[l]
        BY <1>1
      <3>2. Shared(more)
        BY <3>1, Zenon DEF Shared
      <3> QED BY <1>2, <3>2
    <2>2. ASSUME NEW k \in 1..n, NEW i \in DOMAIN meant[k], NEW j \in DOMAIN s
          PROVE  meant[k][i] # s[j]
      <3> DEFINE l == n + 1
      <3>1. k \in DOMAIN more /\ l \in DOMAIN more /\ k # l /\ more[k] = meant[k] /\ more[l] = s
        BY <1>1
      <3> HIDE DEF l
      <3>2. meant[k][i] = s[j] => Shared(more)
        BY <3>1, Zenon DEF Shared
      <3> QED BY <1>2, <3>2
    <2> QED BY <1>1, <2>1, <2>2 DEF Apart
  <1>3. ASSUME ~Shared(meant), Apart(meant, s) PROVE ~Shared(more)
    <2> SUFFICES ASSUME NEW k \in 1..(n + 1), NEW l \in 1..(n + 1), k # l,
                        NEW i \in DOMAIN more[k], NEW j \in DOMAIN more[l],
                        more[k][i] = more[l][j]
                 PROVE  FALSE
      BY <1>1 DEF Shared
    <2>1. CASE k \in 1..n /\ l \in 1..n
      <3>1. k \in DOMAIN meant /\ l \in DOMAIN meant /\ more[k] = meant[k] /\ more[l] = meant[l]
        BY <1>1, <2>1
      <3>2. Shared(meant)
        BY <3>1, Zenon DEF Shared
      <3> QED BY <1>3, <3>2
    <2>2. CASE k = n + 1 /\ l \in 1..n
      BY <1>1, <1>3, <2>2 DEF Apart
    <2>3. CASE k \in 1..n /\ l = n + 1
      BY <1>1, <1>3, <2>3 DEF Apart
    <2> QED BY <1>1, <2>1, <2>2, <2>3
  <1> QED BY <1>2, <1>3 DEF more

\* The empty plan is cut nowhere.
LEMMA NoPlanOK == PlanOK(NoPlan, TRUE)
  <1> DEFINE off == [k \in 1..1 |-> 0]
  <1>1. NoPlan \in Plans /\ Len(NoPlan.barrier) = 0 /\ Len(NoPlan.meant) = 0 /\ Len(NoPlan.executable) = 0
    BY DEF NoPlan, Plans
  <1>2. off \in [1..0 + 1 -> Nat] /\ off[1] = 0
    OBVIOUS
  <1> HIDE DEF off
  <1>3. Cuts(off, NoPlan.barrier)
    BY <1>1, <1>2 DEF Cuts
  <1>4. Fits(off, NoPlan)
    BY <1>1, <1>2 DEF Fits
  <1> QED BY <1>1, <1>3, <1>4 DEF PlanOK, Cut

\* A stage whose length is recorded as it is and that is apart from the stages
\* before it keeps the plan clean; any other one, recorded with at least its
\* length, makes or leaves it a misfit.
LEMMA AddKeeps ==
    ASSUME NEW pl, NEW clean \in BOOLEAN, PlanOK(pl, clean),
           NEW s \in Seq(Ids), NEW n \in Nat, n >= Len(s)
    PROVE  PlanOK(Add(pl, s, n), clean /\ n = Len(s) /\ Apart(pl.meant, s))
  <1> DEFINE more == Add(pl, s, n)
             b == Len(pl.barrier)
             e == Len(pl.executable)
             x == Extend(pl.executable, s)
             still == clean /\ n = Len(s) /\ Apart(pl.meant, s)
  <1>1. PICK off : Cut(off, pl, clean)
    BY DEF PlanOK
  <1> DEFINE off2 == [k \in 1..(b + 1) + 1 |-> IF k = b + 2 THEN off[b + 1] + n ELSE off[k]]
  <1>2. /\ pl.meant \in Seq(Seq(Ids)) /\ pl.barrier \in Seq(Nat) /\ pl.executable \in Seq(Ids)
        /\ Len(pl.meant) = b /\ b \in Nat /\ e \in Nat /\ Len(s) \in Nat
    BY DEF PlanOK, Plans
  <1>a. /\ DOMAIN pl.meant = 1..b /\ DOMAIN pl.executable = 1..e /\ DOMAIN s = 1..Len(s)
        /\ \A k \in 1..b : /\ pl.meant[k] \in Seq(Ids) /\ Len(pl.meant[k]) \in Nat /\ pl.barrier[k] \in Nat
                           /\ DOMAIN pl.meant[k] = 1..Len(pl.meant[k])
    <2>1. \A k \in 1..b : pl.meant[k] \in Seq(Ids) /\ pl.barrier[k] \in Nat
      BY <1>2, ElementOfSeq
    <2> QED BY <1>2, <2>1
  <1>3. more.meant = Append(pl.meant, s) /\ more.barrier = Append(pl.barrier, n) /\ more.executable = x
    BY DEF Add
  <1>4. x \in Seq(Ids) /\ Len(x) \in Nat /\ Len(x) <= e + Len(s)
    BY <1>2, ExtendFacts
  <1>5. more \in Plans /\ Len(more.barrier) = b + 1 /\ Len(more.meant) = b + 1
    <2> HIDE DEF x
    <2>1. Append(pl.meant, s) \in Seq(Seq(Ids)) /\ Append(pl.barrier, n) \in Seq(Nat)
      BY <1>2
    <2>2. Len(Append(pl.meant, s)) = b + 1 /\ Len(Append(pl.barrier, n)) = b + 1
      BY <1>2
    <2>3. more \in Plans
      BY <1>4, <2>1 DEF Add, Plans, x
    <2> QED BY <1>3, <2>2, <2>3
  <1>6. /\ off \in [1..b + 1 -> Nat] /\ off[1] = 0
        /\ \A k \in 1..b : off[k + 1] = off[k] + pl.barrier[k]
        /\ \A k \in 1..b + 1 : off[k] <= off[b + 1]
    BY <1>1 DEF Cut, Cuts
  <1>b. ASSUME clean
        PROVE  /\ off[b + 1] = e
               /\ \A k \in 1..b : /\ pl.barrier[k] = Len(pl.meant[k])
                                  /\ off[k] \in Nat /\ off[k] + pl.barrier[k] <= e
                                  /\ \A j \in 1..Len(pl.meant[k]) : pl.executable[off[k] + j] = pl.meant[k][j]
               /\ \A i \in 1..e :
                      \E k \in 1..b : \E j \in 1..Len(pl.meant[k]) : pl.executable[i] = pl.meant[k][j]
    <2>1. Fits(off, pl)
      BY <1>1, <1>b DEF Cut
    <2>2. off[b + 1] = e
      BY <2>1 DEF Fits
    <2>3. \A k \in 1..b : /\ pl.barrier[k] = Len(pl.meant[k])
                          /\ \A j \in 1..Len(pl.meant[k]) : pl.executable[off[k] + j] = pl.meant[k][j]
      BY <1>2, <2>1 DEF Fits
    <2>4. \A i \in 1..e :
              \E k \in 1..b : \E j \in 1..Len(pl.meant[k]) : pl.executable[i] = pl.meant[k][j]
      BY <1>2, <2>1 DEF Fits
    <2> HIDE DEF b, e
    <2>5. ASSUME NEW k \in 1..b PROVE off[k] \in Nat /\ off[k] + pl.barrier[k] <= e
      <3>1. k \in 1..b + 1 /\ k + 1 \in 1..b + 1
        BY <1>2
      <3> QED BY <1>6, <2>2, <3>1
    <2> QED BY <2>2, <2>3, <2>4, <2>5
  <1>7. /\ \A k \in 1..b : more.barrier[k] = pl.barrier[k] /\ more.meant[k] = pl.meant[k]
        /\ more.barrier[b + 1] = n /\ more.meant[b + 1] = s
    BY <1>2, <1>3
  <1>8. /\ off2 \in [1..(b + 1) + 1 -> Nat] /\ off2[1] = 0 /\ off2[(b + 1) + 1] = off[b + 1] + n
        /\ \A k \in 1..b + 1 : off2[k] = off[k] /\ off[k] \in Nat
    <2> HIDE DEF b
    <2>1. \A k \in 1..(b + 1) + 1 : k # b + 2 => k \in 1..b + 1
      BY <1>2
    <2>2. b + 1 \in 1..b + 1 /\ (b + 1) + 1 = b + 2 /\ b + 2 \in 1..(b + 1) + 1 /\ 1 # b + 2
      BY <1>2
    <2> QED BY <1>2, <1>6, <2>1, <2>2
  <1> HIDE DEF off2, more, b, e
  <1>9. Cuts(off2, more.barrier)
    <2> HIDE DEF b
    <2>1. \A k \in 1..b + 1 : off2[k + 1] = off2[k] + more.barrier[k]
      <3> TAKE k \in 1..b + 1
      <3>1. CASE k = b + 1
        BY <1>2, <1>7, <1>8, <3>1
      <3>2. CASE k \in 1..b
        <4>1. k \in 1..b + 1 /\ k + 1 \in 1..b + 1
          BY <1>2, <3>2
        <4> QED BY <1>6, <1>7, <1>8, <3>2, <4>1
      <3> QED BY <1>2, <3>1, <3>2
    <2>2. \A k \in 1..(b + 1) + 1 : off2[k] <= off2[(b + 1) + 1]
      <3> TAKE k \in 1..(b + 1) + 1
      <3>1. CASE k = (b + 1) + 1
        BY <1>8, <3>1
      <3>2. CASE k \in 1..b + 1
        <4>1. off[k] \in Nat /\ off[b + 1] \in Nat /\ off[k] <= off[b + 1]
          BY <1>2, <1>6, <3>2
        <4> QED BY <1>8, <3>2, <4>1
      <3> QED BY <1>2, <3>1, <3>2
    <2> QED BY <1>5, <1>8, <2>1, <2>2 DEF Cuts
  <1>10. ASSUME still PROVE Fits(off2, more)
    <2>1. ~Collides(pl.executable, s)
      <3> SUFFICES ASSUME NEW i \in 1..e, NEW j \in DOMAIN s, pl.executable[i] = s[j]
                   PROVE  FALSE
        BY <1>a DEF Collides
      <3>1. PICK k \in 1..b : \E h \in 1..Len(pl.meant[k]) : pl.executable[i] = pl.meant[k][h]
        BY <1>10, <1>b
      <3>2. PICK h \in 1..Len(pl.meant[k]) : pl.executable[i] = pl.meant[k][h]
        BY <3>1
      <3>3. k \in DOMAIN pl.meant /\ h \in DOMAIN pl.meant[k]
        BY <1>a
      <3> QED BY <1>10, <3>2, <3>3 DEF Apart
    <2>2. x = pl.executable \o s
      BY <1>2, <2>1, ExtendFacts
    <2>3. /\ Len(x) = e + n
          /\ \A i \in 1..e : x[i] = pl.executable[i]
          /\ \A j \in 1..n : x[e + j] = s[j]
      BY <1>2, <1>10, <2>2 DEF e
    <2> HIDE DEF x
    <2>4. off2[Len(more.barrier) + 1] = Len(more.executable)
      BY <1>3, <1>5, <1>8, <1>10, <1>b, <2>3
    <2>5. ASSUME NEW k \in 1..b + 1
          PROVE  /\ more.barrier[k] = Len(more.meant[k])
                 /\ \A j \in 1..Len(more.meant[k]) : more.executable[off2[k] + j] = more.meant[k][j]
      <3>1. CASE k = b + 1
        <4>1. off2[k] = e /\ more.meant[k] = s /\ more.barrier[k] = n
          BY <1>2, <1>7, <1>8, <1>10, <1>b, <3>1
        <4> QED BY <1>3, <1>10, <2>3, <4>1
      <3>2. CASE k \in 1..b
        <4> DEFINE l == Len(pl.meant[k])
        <4>a. /\ l \in Nat /\ off[k] \in Nat /\ off[k] + l <= e /\ pl.barrier[k] = l
              /\ \A j \in 1..l : pl.executable[off[k] + j] = pl.meant[k][j]
          BY <1>10, <1>a, <1>b, <3>2
        <4> HIDE DEF l
        <4>1. ASSUME NEW j \in 1..l PROVE off[k] + j \in 1..e
          <5> DEFINE o == off[k]
          <5>1. o \in Nat /\ l \in Nat /\ e \in Nat /\ o + l <= e
            BY <1>2, <4>a
          <5> HIDE DEF o
          <5>2. o + j \in 1..e
            BY <5>1
          <5> QED BY <5>2 DEF o
        <4>2. off2[k] = off[k] /\ more.meant[k] = pl.meant[k] /\ more.barrier[k] = pl.barrier[k]
          BY <1>7, <1>8, <3>2
        <4>3. ASSUME NEW j \in 1..l PROVE more.executable[off2[k] + j] = more.meant[k][j]
          <5>1. x[off[k] + j] = pl.executable[off[k] + j]
            BY <2>3, <4>1
          <5> QED BY <1>3, <4>a, <4>2, <5>1
        <4> QED BY <4>a, <4>2, <4>3 DEF l
      <3> QED BY <1>2, <3>1, <3>2
    <2>6. ASSUME NEW i \in 1..Len(x)
          PROVE  \E k \in 1..b + 1 : \E j \in 1..Len(more.meant[k]) : more.executable[i] = more.meant[k][j]
      <3>1. CASE i \in 1..e
        <4>1. PICK k \in 1..b : \E j \in 1..Len(pl.meant[k]) : pl.executable[i] = pl.meant[k][j]
          BY <1>10, <1>b, <3>1
        <4>2. k \in 1..b + 1
          BY <1>2
        <4>3. more.meant[k] = pl.meant[k]
          BY <1>7
        <4>4. more.executable[i] = pl.executable[i]
          BY <1>3, <2>3, <3>1
        <4> QED BY <4>1, <4>2, <4>3, <4>4
      <3>2. CASE i \notin 1..e
        <4>1. i - e \in 1..n /\ e + (i - e) = i
          BY <1>2, <2>3, <3>2
        <4>2. x[i] = s[i - e]
          BY <2>3, <4>1
        <4>3. b + 1 \in 1..b + 1 /\ i - e \in 1..Len(more.meant[b + 1])
          BY <1>2, <1>7, <1>10, <4>1
        <4> QED BY <1>3, <1>7, <4>2, <4>3
      <3> QED BY <3>1, <3>2
    <2>7. Len(more.meant) = b + 1 /\ Len(more.executable) = Len(x)
      BY <1>3, <1>5
    <2>8. \A i \in 1..Len(x) : \E k \in 1..b + 1 :
              \E j \in 1..Len(more.meant[k]) : more.executable[i] = more.meant[k][j]
      BY <2>6
    <2>9. \A k \in 1..b + 1 :
              /\ more.barrier[k] = Len(more.meant[k])
              /\ \A j \in 1..Len(more.meant[k]) : more.executable[off2[k] + j] = more.meant[k][j]
      BY <2>5
    <2> QED BY <2>4, <2>7, <2>8, <2>9 DEF Fits
  <1>11. ASSUME ~still PROVE off2[Len(more.barrier) + 1] > Len(more.executable)
    <2>1. off2[Len(more.barrier) + 1] = off[b + 1] + n /\ off[b + 1] \in Nat
      <3>1. b + 1 \in 1..b + 1
        BY <1>2
      <3> QED BY <1>5, <1>6, <1>8, <3>1
    <2>2. CASE ~clean
      <3>1. off[b + 1] > e
        BY <1>1, <2>2 DEF Cut, b, e
      <3> HIDE DEF x
      <3> QED BY <1>2, <1>3, <1>4, <2>1, <3>1
    <2>3. CASE clean
      <3>1. CASE n # Len(s)
        <4> HIDE DEF x
        <4> QED BY <1>2, <1>3, <1>4, <1>b, <2>1, <2>3, <3>1
      <3>2. CASE ~Apart(pl.meant, s)
        <4>1. PICK k \in DOMAIN pl.meant : \E i \in DOMAIN pl.meant[k], j \in DOMAIN s : pl.meant[k][i] = s[j]
          BY <3>2 DEF Apart
        <4>2. PICK i \in DOMAIN pl.meant[k], j \in DOMAIN s : pl.meant[k][i] = s[j]
          BY <4>1
        <4>3. k \in 1..b /\ i \in 1..Len(pl.meant[k])
          BY <1>a
        <4> DEFINE l == Len(pl.meant[k])
        <4>a. /\ l \in Nat /\ off[k] \in Nat /\ off[k] + l <= e /\ i \in 1..l
              /\ pl.executable[off[k] + i] = pl.meant[k][i]
          BY <1>a, <1>b, <2>3, <4>3
        <4> HIDE DEF l
        <4>4. off[k] + i \in DOMAIN pl.executable /\ pl.executable[off[k] + i] = pl.meant[k][i]
          BY <1>2, <1>a, <4>a
        <4>5. Collides(pl.executable, s)
          BY <4>2, <4>4 DEF Collides
        <4>6. Len(x) < e + Len(s)
          BY <1>2, <4>5, ExtendFacts DEF e
        <4> HIDE DEF x
        <4> QED BY <1>2, <1>3, <1>4, <1>b, <2>1, <2>3, <4>6
      <3> QED BY <1>11, <2>3, <3>1, <3>2
    <2> QED BY <2>2, <2>3
  <1>12. Cut(off2, more, still)
    <2> HIDE DEF still
    <2> QED BY <1>9, <1>10, <1>11 DEF Cut
  <1>13. PlanOK(more, still)
    <2> HIDE DEF still
    <2> QED BY <1>5, <1>12 DEF PlanOK
  <1> QED BY <1>13 DEF more

\* The same in terms of the ids that the stages share.
LEMMA AddShared ==
    ASSUME NEW pl, NEW clean \in BOOLEAN, PlanOK(pl, clean),
           NEW s \in Seq(Ids), NEW n \in Nat, n >= Len(s)
    PROVE  /\ Add(pl, s, n).meant = Append(pl.meant, s)
           /\ ~Shared(Add(pl, s, n).meant) <=> ~Shared(pl.meant) /\ Apart(pl.meant, s)
           /\ ~Shared(Add(pl, s, n).meant) /\ n = Len(s) => PlanOK(Add(pl, s, n), clean)
           /\ ~Shared(Add(pl, s, n).meant) /\ n # Len(s) => PlanOK(Add(pl, s, n), FALSE)
  <1>1. Add(pl, s, n).meant = Append(pl.meant, s)
    BY DEF Add
  <1>2. pl.meant \in Seq(Seq(Ids))
    BY DEF PlanOK, Plans
  <1>3. ~Shared(Add(pl, s, n).meant) <=> ~Shared(pl.meant) /\ Apart(pl.meant, s)
    BY <1>1, <1>2, SharedAppend
  <1>4. PlanOK(Add(pl, s, n), clean /\ n = Len(s) /\ Apart(pl.meant, s))
    BY AddKeeps
  <1>5. ASSUME ~Shared(Add(pl, s, n).meant), n = Len(s) PROVE PlanOK(Add(pl, s, n), clean)
    <2>1. (clean /\ n = Len(s) /\ Apart(pl.meant, s)) = clean
      BY <1>3, <1>5, Zenon
    <2> QED BY <1>4, <2>1, Zenon
  <1>6. ASSUME ~Shared(Add(pl, s, n).meant), n # Len(s) PROVE PlanOK(Add(pl, s, n), FALSE)
    <2>1. (clean /\ n = Len(s) /\ Apart(pl.meant, s)) = FALSE
      BY <1>6, Zenon
    <2> QED BY <1>4, <2>1, Zenon
  <1> QED BY <1>1, <1>3, <1>5, <1>6

\* A stage that a step brings, recorded with its own length.
LEMMA MergeKeeps ==
    ASSUME NEW pl, NEW fault \in BOOLEAN, PlanOK(pl, ~fault /\ ~Shared(pl.meant)),
           NEW s \in Seq(Ids)
    PROVE  PlanOK(Add(pl, s, Len(s)), ~fault /\ ~Shared(Add(pl, s, Len(s)).meant))
  <1> DEFINE clean == ~fault /\ ~Shared(pl.meant)
             more == Add(pl, s, Len(s))
  <1>1. Len(s) \in Nat /\ Len(s) >= Len(s)
    OBVIOUS
  <1>2. clean \in BOOLEAN /\ PlanOK(pl, clean)
    BY Zenon
  <1>3. ~Shared(more.meant) <=> ~Shared(pl.meant) /\ Apart(pl.meant, s)
    BY <1>1, <1>2, AddShared
  <1>4. PlanOK(more, clean /\ Len(s) = Len(s) /\ Apart(pl.meant, s))
    <2> HIDE DEF clean
    <2> QED BY <1>1, <1>2, AddKeeps
  <1>5. (clean /\ Len(s) = Len(s) /\ Apart(pl.meant, s)) = (~fault /\ ~Shared(more.meant))
    BY <1>3, Zenon
  <1> QED BY <1>4, <1>5, Zenon

\* What the code merges is made of sequences of ids.
LEMMA StagesAreSeqs ==
    /\ \A s \in Stages : s \in Seq(Ids)
    /\ \A st \in Steps : st[1] \in Seq(Ids) /\ (Len(st) # 1 => st[2] \in Seq(Ids))
  <1>1. \A s \in Stages : s \in Seq(Ids)
    <2> TAKE s \in Stages
    <2>1. PICK n \in 0..MaxStage : s \in [1..n -> Ids]
      BY DEF Stages
    <2>2. n \in Nat
      BY PlanAssumption
    <2> QED BY <2>1, <2>2
  <1>2. \A st \in Steps : st[1] \in Seq(Ids) /\ (Len(st) # 1 => st[2] \in Seq(Ids))
    <2> TAKE st \in Steps
    <2>1. CASE \E s \in Stages : st = <<s>>
      BY <1>1, <2>1
    <2>2. CASE st \in Stages \X Stages
      BY <1>1, <2>2
    <2> QED BY <2>1, <2>2 DEF Steps
  <1> QED BY <1>1, <1>2

\* A new plan during the merge, when nothing is cut yet.
LEMMA MergeStep ==
    ASSUME PlanInv, phase = "merge", PlanOK(plan, Clean)', misfit' \in BOOLEAN,
           UNCHANGED <<source, phase, idx, end, stages>>
    PROVE  PlanInv'
  <1>1. PICK off : Cut(off, plan', Clean')
    BY DEF PlanOK
  <1>2. plan' \in Plans /\ Len(plan'.barrier) = Len(plan'.meant) /\ Len(plan'.executable) \in Nat
        /\ Len(plan'.barrier) \in Nat
    BY DEF PlanOK, Plans
  <1>3. PlanTypes'
    BY <1>2 DEF PlanInv, PlanTypes
  <1>4. idx' = 1 /\ end' = 0 /\ stages' = <<>> /\ phase' = "merge"
    BY DEF PlanInv, PhaseFacts
  <1>5. off[1] = 0
    BY <1>1 DEF Cut, Cuts
  <1>6. Progress(off)'
    BY <1>2, <1>4, <1>5 DEF Progress
  <1>7. PhaseFacts'
    BY <1>4 DEF PhaseFacts
  <1> QED BY <1>1, <1>3, <1>6, <1>7 DEF PlanInv

\* An empty plan has nothing to cut.
LEMMA InitKeeps == PlanInit => PlanInv
  <1> SUFFICES ASSUME PlanInit PROVE PlanInv
    OBVIOUS
  <1>1. PICK off : Cut(off, NoPlan, TRUE)
    BY NoPlanOK DEF PlanOK
  <1>2. plan = NoPlan /\ plan.meant = <<>> /\ plan.barrier = <<>> /\ plan.executable = <<>> /\ plan \in Plans
    BY NoPlanOK DEF PlanInit, NoPlan, PlanOK
  <1>3. Clean = TRUE
    <2>1. ~Shared(<<>>)
      BY DEF Shared
    <2> QED BY <1>2, <2>1, Zenon DEF Clean, PlanInit
  <1>4. Cut(off, plan, Clean)
    BY <1>1, <1>2, <1>3
  <1>5. off[1] = 0
    BY <1>1 DEF Cut, Cuts
  <1>6. Progress(off)
    BY <1>2, <1>5 DEF Progress, PlanInit
  <1>7. PlanTypes /\ PhaseFacts
    BY <1>2 DEF PlanTypes, PhaseFacts, PlanInit
  <1> QED BY <1>4, <1>6, <1>7 DEF PlanInv

\* A merged step adds its stages and their own lengths (merge_execution).
LEMMA MergePreserves ==
    ASSUME PlanInv, NEW step \in Steps, Merge(step)
    PROVE  PlanInv'
  <1> DEFINE added == Add(plan, step[1], Len(step[1]))
  <1>1. PlanOK(plan, ~misfit /\ ~Shared(plan.meant))
    BY DEF PlanInv, PlanTypes, PlanOK, Clean
  <1>2. step[1] \in Seq(Ids) /\ (Len(step) # 1 => step[2] \in Seq(Ids))
    BY StagesAreSeqs
  <1>3. misfit \in BOOLEAN /\ misfit' = misfit
    BY DEF PlanInv, PlanTypes, Merge
  <1>4. PlanOK(added, ~misfit /\ ~Shared(added.meant))
    BY <1>1, <1>2, <1>3, MergeKeeps
  <1>5. PlanOK(plan', ~misfit /\ ~Shared(plan'.meant))
    <2>1. CASE Len(step) = 1
      <3>1. plan' = added
        BY <2>1 DEF Merge
      <3> QED BY <1>4, <3>1
    <2>2. CASE Len(step) # 1
      <3>1. plan' = Add(added, step[2], Len(step[2]))
        BY <2>2 DEF Merge
      <3> HIDE DEF added
      <3> QED BY <1>2, <1>3, <1>4, <2>2, <3>1, MergeKeeps
    <2> QED BY <2>1, <2>2
  <1>6. PlanOK(plan, Clean)'
    BY <1>3, <1>5 DEF Clean
  <1>7. phase = "merge" /\ UNCHANGED <<source, phase, idx, end, stages>>
    BY DEF Merge
  <1> QED BY <1>3, <1>6, <1>7, MergeStep

\* Of the stages of a config update only the edit for all nodes may be recorded
\* with another length than its own (build_config_update).
LEMMA ConfigPreserves ==
    ASSUME PlanInv, NEW mkdir \in Stages, NEW upload \in Stages, NEW topo \in Ids, NEW edit \in Ids,
           NEW fields \in BOOLEAN, NEW targeted \in BOOLEAN, NEW tls \in BOOLEAN,
           BuildConfigUpdate(mkdir, topo, edit, upload, fields, targeted, tls)
    PROVE  PlanInv'
  <1> DEFINE dirs   == IF tls THEN Add(NoPlan, mkdir, Len(mkdir)) ELSE NoPlan
             asked  == IF targeted THEN Add(dirs, <<topo>>, 1) ELSE dirs
             length == IF targeted THEN 1 ELSE Len(Extend(asked.executable, <<edit>>))
             edited == IF fields THEN Add(asked, <<edit>>, length) ELSE asked
             wrong  == tls /\ fields /\ ~targeted /\ mkdir # <<>>
  <1>1. /\ phase = "merge" /\ plan' = Add(edited, upload, Len(upload)) /\ ~Shared(plan'.meant)
        /\ misfit' = wrong /\ UNCHANGED <<source, phase, idx, end, stages>>
    BY DEF BuildConfigUpdate
  <1>2. /\ mkdir \in Seq(Ids) /\ upload \in Seq(Ids) /\ <<topo>> \in Seq(Ids) /\ <<edit>> \in Seq(Ids)
        /\ Len(mkdir) \in Nat /\ Len(upload) \in Nat /\ Len(<<topo>>) = 1 /\ Len(<<edit>>) = 1
        /\ Len(mkdir) = 0 <=> mkdir = <<>>
    <2>1. mkdir \in Seq(Ids) /\ upload \in Seq(Ids)
      BY StagesAreSeqs
    <2> QED BY <2>1
  \* The stages asked for, from the last to the first: none of the plans shares an id.
  <1>3. /\ NoPlan.meant = <<>> /\ NoPlan.executable = <<>>
        /\ dirs.meant = IF tls THEN <<mkdir>> ELSE <<>>
        /\ asked.meant = IF targeted THEN Append(dirs.meant, <<topo>>) ELSE dirs.meant
        /\ edited.meant = IF fields THEN Append(asked.meant, <<edit>>) ELSE asked.meant
        /\ plan'.meant = Append(edited.meant, upload)
    <2>1. NoPlan.meant = <<>> /\ NoPlan.executable = <<>>
      BY DEF NoPlan
    <2>2. dirs.meant = IF tls THEN <<mkdir>> ELSE <<>>
      BY <2>1 DEF Add
    <2> HIDE DEF dirs
    <2>3. asked.meant = IF targeted THEN Append(dirs.meant, <<topo>>) ELSE dirs.meant
      BY DEF Add
    <2> HIDE DEF asked
    <2>4. edited.meant = IF fields THEN Append(asked.meant, <<edit>>) ELSE asked.meant
      BY DEF Add
    <2> HIDE DEF edited
    <2>5. plan'.meant = Append(edited.meant, upload)
      BY <1>1 DEF Add
    <2> QED BY <2>1, <2>2, <2>3, <2>4, <2>5
  <1>4. /\ dirs.meant \in Seq(Seq(Ids)) /\ asked.meant \in Seq(Seq(Ids)) /\ edited.meant \in Seq(Seq(Ids))
    <2> HIDE DEF dirs, asked, edited
    <2>1. dirs.meant \in Seq(Seq(Ids))
      BY <1>2, <1>3
    <2>2. asked.meant \in Seq(Seq(Ids))
      BY <1>2, <1>3, <2>1
    <2>3. edited.meant \in Seq(Seq(Ids))
      BY <1>2, <1>3, <2>2
    <2> QED BY <2>1, <2>2, <2>3
  <1>5. /\ ~Shared(edited.meant)
        /\ ~Shared(asked.meant) /\ (fields => Apart(asked.meant, <<edit>>))
        /\ ~Shared(dirs.meant)
    <2> HIDE DEF dirs, asked, edited
    <2>1. ~Shared(edited.meant)
      <3>1. ~Shared(Append(edited.meant, upload)) => ~Shared(edited.meant)
        BY <1>2, <1>4, SharedAppend
      <3> QED BY <1>1, <1>3, <3>1, Zenon
    <2>2. ~Shared(asked.meant) /\ (fields => Apart(asked.meant, <<edit>>))
      BY <1>2, <1>3, <1>4, <2>1, SharedAppend
    <2>3. ~Shared(dirs.meant)
      <3>1. ~Shared(Append(dirs.meant, <<topo>>)) => ~Shared(dirs.meant)
        BY <1>2, <1>4, SharedAppend
      <3> QED BY <1>3, <2>2, <3>1, Zenon
    <2> QED BY <2>1, <2>2, <2>3
  <1>6. PlanOK(dirs, TRUE) /\ dirs.executable = IF tls THEN mkdir ELSE <<>>
    <2>1. CASE ~tls
      BY <2>1, NoPlanOK DEF NoPlan
    <2>2. CASE tls
      <3>1. dirs = Add(NoPlan, mkdir, Len(mkdir)) /\ Len(mkdir) >= Len(mkdir)
        BY <1>2, <2>2
      <3> HIDE DEF dirs
      <3>2. PlanOK(dirs, TRUE)
        BY <1>2, <1>5, <3>1, NoPlanOK, AddShared
      <3>3. ~Collides(<<>>, mkdir) /\ <<>> \in Seq(Ids)
        BY DEF Collides
      <3>4. dirs.executable = Extend(<<>>, mkdir)
        BY <1>3, <3>1 DEF Add
      <3>5. dirs.executable = <<>> \o mkdir
        BY <1>2, <3>3, <3>4, ExtendFacts
      <3>6. dirs.executable = mkdir
        BY <1>2, <3>5, ConcatEmptySeq
      <3> QED BY <2>2, <3>2, <3>6
    <2> QED BY <2>1, <2>2
  <1>7. PlanOK(asked, TRUE) /\ (~targeted => asked = dirs)
    <2> HIDE DEF dirs
    <2>1. CASE ~targeted
      BY <1>6, <2>1
    <2>2. CASE targeted
      <3>1. asked = Add(dirs, <<topo>>, 1)
        BY <2>2
      <3> HIDE DEF asked
      <3>2. 1 \in Nat /\ 1 >= Len(<<topo>>) /\ TRUE \in BOOLEAN
        BY <1>2
      <3>3. PlanOK(asked, TRUE)
        BY <1>2, <1>5, <1>6, <3>1, <3>2, AddShared
      <3> QED BY <2>2, <3>3
    <2> QED BY <2>1, <2>2
  <1>8. ASSUME fields PROVE length \in Nat /\ length >= 1 /\ (length = 1 <=> ~wrong)
    <2> HIDE DEF dirs, asked
    <2>1. CASE targeted
      BY <2>1
    <2>2. CASE ~targeted
      <3> DEFINE map == asked.executable
      <3>1. map = IF tls THEN mkdir ELSE <<>>
        BY <1>6, <1>7, <2>2
      <3>2. asked.meant = IF tls THEN <<mkdir>> ELSE <<>>
        BY <1>3, <2>2
      <3>3. map \in Seq(Ids)
        BY <1>2, <3>1
      <3>4. ~Collides(map, <<edit>>)
        <4>1. CASE tls
          <5>1. 1 \in DOMAIN asked.meant /\ asked.meant[1] = mkdir
            BY <3>2, <4>1
          <5> QED BY <1>5, <1>8, <3>1, <4>1, <5>1 DEF Apart, Collides
        <4>2. CASE ~tls
          BY <3>1, <4>2 DEF Collides
        <4> QED BY <4>1, <4>2
      <3> HIDE DEF map
      <3>5. Extend(map, <<edit>>) = map \o <<edit>>
        BY <1>2, <3>3, <3>4, ExtendFacts
      <3>6. length = Len(map) + 1
        BY <1>2, <2>2, <3>3, <3>5 DEF map
      <3>7. Len(map) \in Nat /\ (Len(map) = 0 <=> ~tls \/ mkdir = <<>>)
        BY <1>2, <3>1
      <3> HIDE DEF length
      <3> QED BY <1>8, <2>2, <3>6, <3>7
    <2> QED BY <2>1, <2>2
  <1> HIDE DEF length
  <1>9. PlanOK(edited, ~wrong)
    <2>1. CASE ~fields
      <3>1. edited = asked /\ (~wrong) = TRUE
        BY <2>1, Zenon
      <3> QED BY <1>7, <3>1
    <2>2. CASE fields
      <3>1. edited = Add(asked, <<edit>>, length)
        BY <2>2
      <3> HIDE DEF edited, asked
      <3>2. CASE length = 1
        <4>1. PlanOK(edited, TRUE)
          BY <1>2, <1>5, <1>7, <1>8, <2>2, <3>1, <3>2, AddShared
        <4>2. (~wrong) = TRUE
          BY <1>8, <2>2, <3>2, Zenon
        <4> QED BY <4>1, <4>2, Zenon
      <3>3. CASE length # 1
        <4>1. PlanOK(edited, FALSE)
          BY <1>2, <1>5, <1>7, <1>8, <2>2, <3>1, <3>3, AddShared
        <4>2. (~wrong) = FALSE
          BY <1>8, <2>2, <3>3, Zenon
        <4> QED BY <4>1, <4>2, Zenon
      <3> QED BY <3>2, <3>3
    <2> QED BY <2>1, <2>2
  <1> HIDE DEF edited
  <1>10. PlanOK(plan', ~wrong)
    <2> DEFINE c == ~wrong
    <2>1. c \in BOOLEAN /\ PlanOK(edited, c) /\ Len(upload) >= Len(upload)
      BY <1>2, <1>9
    <2> HIDE DEF c
    <2>2. PlanOK(plan', c)
      BY <1>1, <1>2, <2>1, AddShared
    <2> QED BY <2>2 DEF c
  <1>11. Clean' = ~wrong /\ misfit' \in BOOLEAN
    BY <1>1, Zenon DEF Clean
  <1>12. PlanOK(plan, Clean)'
    BY <1>10, <1>11
  <1> QED BY <1>1, <1>11, <1>12, MergeStep

\* A cut of a clean plan is the next stage and never past the end (split_task).
LEMMA SlicePreserves ==
    ASSUME PlanInv, Slice
    PROVE  PlanInv'
  <1> DEFINE b == Len(plan.barrier)
             e == Len(plan.executable)
             n == plan.barrier[idx]
  <1>1. PICK off : Cut(off, plan, Clean) /\ Progress(off)
    BY DEF PlanInv
  <1>2. /\ phase = "split" /\ idx <= b /\ UNCHANGED <<source, misfit, plan>>
    BY DEF Slice
  <1>3. plan \in Plans /\ Len(plan.meant) = b /\ b \in Nat /\ e \in Nat
    BY DEF PlanInv, PlanTypes, Plans
  <1>4. /\ idx \in 1..b /\ idx \in Nat /\ idx + 1 \in 1..b + 1 /\ idx \in 1..b + 1
        /\ end = off[idx] /\ end <= e
        /\ stages \in Seq(Seq(Ids)) /\ Len(stages) = idx - 1
        /\ Clean => \A k \in 1..(idx - 1) : stages[k] = plan.meant[k]
    BY <1>1, <1>2, <1>3 DEF Progress
  <1>5. off[idx] \in Nat /\ n \in Nat /\ off[idx + 1] = off[idx] + n /\ off[idx + 1] <= off[b + 1]
    <2>1. n \in Nat
      BY <1>3, <1>4, ElementOfSeq DEF Plans
    <2> QED BY <1>1, <1>4, <2>1 DEF Cut, Cuts
  <1>6. Clean' = Clean /\ Cut(off, plan, Clean)'
    <2>1. Clean' = Clean
      BY <1>2 DEF Clean
    <2> QED BY <1>1, <1>2, <2>1
  <1>7. ASSUME Clean
        PROVE  /\ end + n <= e /\ n = Len(plan.meant[idx]) /\ plan.meant[idx] \in Seq(Ids)
               /\ \A j \in 1..n : plan.executable[end + j] = plan.meant[idx][j]
    <2>1. Fits(off, plan)
      BY <1>1, <1>7 DEF Cut
    <2>2. off[b + 1] = e
      BY <2>1 DEF Fits
    <2>3. n = Len(plan.meant[idx]) /\ \A j \in 1..n : plan.executable[end + j] = plan.meant[idx][j]
      BY <1>3, <1>4, <2>1 DEF Fits
    <2>4. plan.meant[idx] \in Seq(Ids)
      BY <1>3, <1>4, ElementOfSeq DEF Plans
    <2> HIDE DEF b, e, n
    <2> QED BY <1>3, <1>4, <1>5, <2>2, <2>3, <2>4
  <1>8. CASE end + n > e
    <2>1. phase' = "panicked" /\ UNCHANGED <<idx, end, stages>>
      BY <1>8 DEF Slice
    <2>2. ~Clean
      BY <1>3, <1>4, <1>5, <1>7, <1>8
    <2>3. PlanTypes'
      BY <1>2, <2>1 DEF PlanInv, PlanTypes
    <2>4. Progress(off)'
      BY <1>1, <1>2, <1>6, <2>1 DEF Progress
    <2>5. PhaseFacts'
      BY <1>6, <2>1, <2>2 DEF PhaseFacts
    <2> QED BY <1>6, <2>3, <2>4, <2>5 DEF PlanInv
  <1>9. CASE ~(end + n > e)
    <2> DEFINE slice == SubSeq(plan.executable, end + 1, end + n)
    <2>1. stages' = Append(stages, slice) /\ end' = end + n /\ idx' = idx + 1 /\ UNCHANGED phase
      BY <1>9 DEF Slice
    <2>2. /\ slice \in Seq(Ids) /\ Len(slice) = n
          /\ \A j \in 1..n : slice[j] = plan.executable[end + j]
      <3>1. plan.executable \in Seq(Ids) /\ end \in Nat /\ end + n <= e
        BY <1>3, <1>4, <1>5, <1>9 DEF Plans
      <3> HIDE DEF n
      <3> QED BY <1>3, <1>5, <3>1
    <2>3. ASSUME Clean PROVE slice = plan.meant[idx]
      <3> HIDE DEF slice, n
      <3> QED BY <1>7, <2>2, <2>3
    <2> HIDE DEF slice
    <2>4. /\ stages' \in Seq(Seq(Ids)) /\ Len(stages') = idx' - 1
          /\ stages'[idx] = slice /\ \A k \in 1..(idx - 1) : stages'[k] = stages[k]
      <3>1. idx = Len(stages) + 1
        BY <1>4
      <3> QED BY <1>4, <2>1, <2>2, <3>1
    <2>5. ASSUME Clean PROVE \A k \in 1..(idx' - 1) : stages'[k] = plan'.meant[k]
      <3> TAKE k \in 1..(idx' - 1)
      <3>1. k \in 1..(idx - 1) \/ k = idx
        BY <1>4, <2>1
      <3> QED BY <1>2, <1>4, <2>3, <2>4, <2>5, <3>1
    <2>6. Progress(off)'
      <3>1. end' = off[idx'] /\ end' <= e /\ idx' \in 1..b + 1
        BY <1>3, <1>4, <1>5, <1>9, <2>1
      <3> QED BY <1>2, <1>6, <2>4, <2>5, <3>1 DEF Progress
    <2>7. PlanTypes'
      BY <1>2, <2>1 DEF PlanInv, PlanTypes
    <2>8. PhaseFacts'
      BY <1>2, <2>1 DEF PhaseFacts
    <2> QED BY <1>6, <2>6, <2>7, <2>8 DEF PlanInv
  <1> QED BY <1>8, <1>9

\* The recorded lengths, the map and the stages asked for stay in step: a plan
\* without a misfit is cut exactly where it was joined, and a plan with one
\* records more tasks than its map has, whatever is merged after it
\* (merge_execution, build_config_update, split_task).
THEOREM PlanInvariant == PlanSpec => []PlanInv
  <1>1. PlanInit => PlanInv
    BY InitKeeps
  <1>2. PlanInv /\ [PlanNext]_planVars => PlanInv'
    <2> SUFFICES ASSUME PlanInv, [PlanNext]_planVars PROVE PlanInv'
      OBVIOUS
    <2>1. CASE \E step \in Steps : Merge(step)
      BY <2>1, MergePreserves
    <2>2. CASE \E mkdir, upload \in Stages, topo, edit \in Ids, fields, targeted, tls \in BOOLEAN :
                   BuildConfigUpdate(mkdir, topo, edit, upload, fields, targeted, tls)
      BY <2>2, ConfigPreserves
    <2>3. CASE StartSplit
      BY <2>3 DEF StartSplit, PlanInv, PlanTypes, PhaseFacts, Progress, Clean
    <2>4. CASE Slice
      BY <2>4, SlicePreserves
    <2>5. CASE Run
      BY <2>5 DEF Run, PlanInv, PlanTypes, PhaseFacts, Progress, Clean
    <2>6. CASE UNCHANGED planVars
      BY <2>6 DEF planVars, PlanInv, PlanTypes, PhaseFacts, Progress, Clean
    <2> QED BY <2>1, <2>2, <2>3, <2>4, <2>5, <2>6 DEF PlanNext, PlanEnded
  <1> QED BY <1>1, <1>2, PTL DEF PlanSpec

\* A plan that reaches run_all_tasks has the stages its steps asked for, for any
\* number of steps and any ids.
THEOREM StagesComeBack == PlanSpec => []StagesAsMeant
  <1>1. PlanInv => StagesAsMeant
    <2> SUFFICES ASSUME PlanInv, phase = "run" PROVE stages = plan.meant
      BY DEF StagesAsMeant
    <2> DEFINE b == Len(plan.barrier)
    <2>1. PICK off : Cut(off, plan, Clean) /\ Progress(off)
      BY DEF PlanInv
    <2>2. plan \in Plans /\ Len(plan.meant) = b /\ b \in Nat /\ Len(plan.executable) \in Nat
      BY DEF PlanInv, PlanTypes, Plans
    <2>3. idx = b + 1 /\ end = off[b + 1] /\ end <= Len(plan.executable) /\ off[b + 1] \in Nat
      <3>1. idx = b + 1
        BY <2>1, <2>2 DEF PlanInv, PhaseFacts, Progress
      <3> QED BY <2>1, <2>2, <3>1 DEF Progress, Cut, Cuts
    <2>4. Clean
      BY <2>1, <2>2, <2>3 DEF Cut
    <2>5. /\ stages \in Seq(Seq(Ids)) /\ Len(stages) = b
          /\ \A k \in 1..b : stages[k] = plan.meant[k]
      BY <2>1, <2>2, <2>3, <2>4 DEF Progress
    <2>6. plan.meant \in Seq(Seq(Ids))
      BY <2>2 DEF Plans
    <2> HIDE DEF b
    <2> QED BY <2>2, <2>5, <2>6, SeqEqual
  <1> QED BY <1>1, PlanInvariant, PTL

\* Cutting the tasks at the recorded lengths goes past their end only after a
\* repeated task id or the length build_config_update records for a TLS cluster.
THEOREM PanicsOnlyOnMisfit == PlanSpec => []PanicMeansMisfit
  <1>1. PlanInv => PanicMeansMisfit
    BY DEF PlanInv, PhaseFacts, Clean, PanicMeansMisfit
  <1> QED BY <1>1, PlanInvariant, PTL
=============================================================================
