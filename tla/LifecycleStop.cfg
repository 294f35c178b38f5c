\* A plain stop that leaves a tx process running.
CONSTANTS
    TxNodes <- MCTxNodes
    Standbys <- MCStandbys
    DssPeers <- MCDssPeers
    DssHost <- MCDssHost
    LastPeer <- MCLastPeer
    Modes = {"remote"}
    MaxVersion <- MCMaxVersion
    MaxCommands <- MCMaxCommands
    MaxFaults <- MCMaxFaults
SPECIFICATION Spec
INVARIANT StopStops
CHECK_DEADLOCK FALSE
