SPECIFICATION Spec
CONSTANTS
    r = r
    m = m
    Project = {r, m}
    Link <- OneMember
    Volatile = {m}
    Under = {}
    Nobody = Nobody
    MaxMoves = 3
PROPERTY AwayKeepsItsRow
