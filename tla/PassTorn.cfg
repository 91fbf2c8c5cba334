SPECIFICATION Spec
CONSTANTS
    Path = {x}
    MaxPaths = 1
    Whole = Whole
    Writer = {worker}
    Worker = worker
    Content = {c1, c2}
    Listed = {x}
    None = None
    Unread = Unread
    Dated = Dated
    NoPass = NoPass
INVARIANT ScanHealsTheGraph
