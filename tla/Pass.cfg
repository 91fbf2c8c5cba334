SPECIFICATION Spec
CONSTANTS
    Path = {x, y}
    MaxPaths = 2
    Whole = Whole
    Writer = {worker}
    Worker = worker
    Content = {c1, c2}
    Listed = {x}
    None = None
    Unread = Unread
    Dated = Dated
    NoPass = NoPass
INVARIANTS
    TypeOK
    Vouched
    StampIsAWitness
    RowsAndNodesTogether
PROPERTIES
    RowsLeaveForAReason
    WholeScanClearsIgnored
