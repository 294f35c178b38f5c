----------------------------- MODULE MCTaskPlan -----------------------------
(* Instances of TaskPlan: a few task ids, and steps of one or two stages.    *)
EXTENDS TaskPlan, TLC

CONSTANTS t1, t2, t3, t4

Symmetry == Permutations(Ids)
=============================================================================
