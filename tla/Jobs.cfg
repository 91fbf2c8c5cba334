SPECIFICATION FairSpec
CONSTANTS
    Root = {a, b}
    Path = {x, y, z}
    MaxPaths = 2
    Whole = Whole
    Idle = Idle
INVARIANTS
    TypeOK
    OneEntryPerRoot
    NoAskLost
    HintBounded
    RunningIsInHand
PROPERTIES
    EveryAskIsTaken
    KeepsPromise
