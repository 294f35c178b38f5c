------------------------------ MODULE MCApply ------------------------------
(* Instances of Apply: which fields the topology may change.                 *)
EXTENDS Apply
=============================================================================
