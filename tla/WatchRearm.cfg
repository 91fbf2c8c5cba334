SPECIFICATION WatchSpec
CONSTANTS
    Root = {a, b}
    Path = {x}
    MaxPaths = 1
    Whole = Whole
    Idle = Idle
    Nobody = Nobody
    Volatile = {}
INVARIANT WatchSetCurrent
