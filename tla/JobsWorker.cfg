SPECIFICATION Spec
CONSTANTS
    Root = {a, b}
    Path = {x, y}
    MaxPaths = 1
    Whole = Whole
    Idle = Idle
INVARIANT WorkerOutlivesItsPasses
