CONSTANTS
    Backends = {"eloqstore"}
    Units <- MCUnits
    LateUnits <- MCLateUnits
    MaxSnapshots = 1
    MaxData = 2
    MaxRestores = 1
    MaxFaults = 1
SPECIFICATION Spec
PROPERTY EmptiedIsNew
