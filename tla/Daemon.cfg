SPECIFICATION FairDaemon
CHECK_DEADLOCK FALSE
CONSTANTS
    Root = {a}
    Path = {x}
    MaxPaths = 1
    Whole = Whole
    Idle = Idle
    Nobody = Nobody
    Volatile = {a}
    MaxMoves = 2
    MaxFaults = 2
INVARIANTS
    DaemonTypeOK
    NoSilentLoss
PROPERTY EventuallyFresh
