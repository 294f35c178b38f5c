---------------------------- MODULE MCHealthGate ----------------------------
(* Instances of HealthGate: a node of each kind, and a log host with two     *)
(* processes.                                                                *)
EXTENDS HealthGate

CONSTANTS t, s, v, l1, l2

\* A row is named after its first process.
MCRole == [r \in Rows |-> CASE r = t -> "tx" [] r = s -> "standby" [] r = v -> "voter" [] r = l1 -> "log"]
MCMember == [r \in Rows |-> IF r = l1 THEN {l1, l2} \cap Procs ELSE {r}]
=============================================================================
