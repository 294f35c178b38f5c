\* The data store service inside the tx processes, and in two processes on one host.
CONSTANTS
    TxNodes <- MCTxNodes
    Standbys <- MCStandbys
    DssPeers <- MCDssPeers
    DssHost <- MCDssHost
    LastPeer <- MCLastPeer
    Modes = {"local", "remote"}
    MaxVersion <- MCMaxVersion
    MaxCommands <- MCMaxCommands
    MaxFaults <- MCMaxFaults
SPECIFICATION Spec
INVARIANTS StartServes NoOrphanRecords DeployOkInstalled ForcedStopOrder DssKeepsData
PROPERTIES TxOnLog StartConverges
\* A removed cluster takes no command once MaxCommands is reached.
CHECK_DEADLOCK FALSE
