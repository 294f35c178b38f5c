CONSTANTS
    TxNodes <- MCTxNodes
    Standbys <- MCStandbys
    DssPeers <- MCDssPeers
    DssHost <- MCDssHost
    LastPeer <- MCLastPeer
    Modes = {"remote"}
    MaxVersion <- MCMaxVersion
    MaxCommands <- MCMaxCommands
    MaxFaults <- MCMaxFaults
SPECIFICATION Spec
PROPERTY StopsOnlyTheNodes
CHECK_DEADLOCK FALSE
