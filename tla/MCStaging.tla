------------------------------ MODULE MCStaging ------------------------------
EXTENDS Staging

\* Two publications; the second is longer, so that the first is a prefix of
\* its length when a download is resumed.
MCLenOf == <<2, 3>>

\* Invocations overlap where there is a digest: of others nothing is said then.
\* Three failures without an overlap, one before or after it.
MCMaxOverlaps == [s \in {6, 8} |-> IF s = 8 THEN 1 ELSE 0]
MCMaxFaults == [o \in 0..1 |-> IF o = 0 THEN 3 ELSE 1]
=============================================================================
