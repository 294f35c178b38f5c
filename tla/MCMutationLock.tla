--------------------------- MODULE MCMutationLock ---------------------------
(* Instances of MutationLock for TLC: three commands for one cluster.       *)
EXTENDS MutationLock, TLC

\* Commands are interchangeable, and so are pids.
Interchangeable == Permutations(Procs) \cup Permutations(Pids)
=============================================================================
