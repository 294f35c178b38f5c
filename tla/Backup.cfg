CONSTANTS
    Backends = {"rocksdb", "eloqstore", "local"}
    Units <- MCUnits
    LateUnits <- MCLateUnits
    MaxSnapshots = 2
    MaxData = 2
    MaxRestores = 2
    MaxFaults = 1
SPECIFICATION Spec
INVARIANT RestoreOkIsSnapshot
PROPERTIES RecordOutlivesSweep RemoveConverges
