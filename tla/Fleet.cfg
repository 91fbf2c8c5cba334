SPECIFICATION Spec
CONSTANTS
    r = r
    m = m
    Project = {r, m}
    Link <- OneMember
    Volatile = {r, m}
    Under = {m}
    Nobody = Nobody
    MaxMoves = 3
INVARIANTS
    TypeOK
    EveryRowIsClaimed
    NoDeletionIsDropped
    PruneSparesTheEnrolled
PROPERTY KeepsClaims
