-------------------------- MODULE MCRollingUpgrade --------------------------
(* Instances of RollingUpgrade: one group of three nodes, or two of two.     *)
EXTENDS RollingUpgrade

CONSTANTS g1, g2, a, b, c, d

MCGroupOf == [n \in Nodes |-> IF g2 \in Groups /\ n \in {c, d} THEN g2 ELSE g1]
=============================================================================
