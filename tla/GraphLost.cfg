SPECIFICATION Spec
CONSTANTS
    Lower <- MCLower
    Hosts = {"host.org"}
    Top = Top
    Floor = 100
    Path <- Files
    Version = {1, 2}
    Gone = Gone
    Text <- MCText
    Document <- MCDocument
    KindOf <- NoKinds
    Marked <- MCMarked
    Skipped = {"vendor", "node_modules", "testdata"}
    Before <- MCBefore
    Languages = {"typescript"}
    Tool = "scip-typescript"
    FileShare = 60
    DefShare = 40
    NoPass = NoPass
    MaxEdits = 1
    SomeFiles <- MCFiles
    SomeHits <- MCHits
    SomeBodies <- MCBodies
    Stuck = 20
    NoReply = NoReply
CHECK_DEADLOCK FALSE
INVARIANTS
    NoCallIsLost
