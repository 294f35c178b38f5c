----------------------------- MODULE MCLifecycle -----------------------------
EXTENDS Lifecycle

\* One node group: a tx node and its standby, each on a host of its own, so
\* that leadership can be where the configuration has a standby.
MCTxNodes == {"n1"}
MCStandbys == {"n2"}

\* Two dss peers on one host.
MCDssPeers == {"d1", "d2"}
MCDssHost == [p \in MCDssPeers |-> "h"]
MCLastPeer == [x \in {"h"} |-> "d2"]

\* A version that changes is the matter of deploy, which is the same in both
\* modes; more commands where there are more versions, more failures where there
\* are more processes.
Local(a, b) == [m \in {"local", "remote"} |-> IF m = "local" THEN a ELSE b]
MCMaxVersion == Local(2, 1)
MCMaxCommands == Local(3, 2)
MCMaxFaults == Local(1, 2)
=============================================================================
