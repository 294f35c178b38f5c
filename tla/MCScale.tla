------------------------------ MODULE MCScale ------------------------------
(* Hosts A to D; a group of a1 (master), b1 and the voter c1; b2 and d1   *)
(* are spare, b2 on a host that is in use.                                   *)
EXTENDS Scale

CONSTANTS a1, b1, b2, c1, d1, g

MCNodes == {a1, b1, b2, c1, d1}
MCHostOf == [n \in MCNodes |-> CASE n = a1 -> "A" [] n \in {b1, b2} -> "B" [] n = c1 -> "C" [] n = d1 -> "D"]
MCGroups == {g}
MCInitConfig == [x \in MCGroups |-> [first |-> a1, cands |-> {a1, b1}, voters |-> {c1}]]
=============================================================================
