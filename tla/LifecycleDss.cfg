\* A peer that dies beside another one on its host.
CONSTANTS
    TxNodes <- MCTxNodes
    Standbys <- MCStandbys
    DssPeers <- MCDssPeers
    DssHost <- MCDssHost
    LastPeer <- MCLastPeer
    Modes = {"remote"}
    MaxVersion <- MCMaxVersion
    MaxCommands <- MCMaxCommands
    MaxFaults <- MCMaxFaults
SPECIFICATION Spec
INVARIANT RunningDssKeepsData
CHECK_DEADLOCK FALSE
