CONSTANTS
    app = app
    lib = lib
    tool = tool
    p1 = p1
    p2 = p2
    p3 = p3
    Process <- Three
    Package <- MCPackage
    Manifests <- Steady
    Commands <- OnePackage
    NoFile = NoFile
    Empty = Empty
    NoName = NoName
    NoSum = NoSum
    BadSum = BadSum
    Shorter <- MCShorter
    MaxNodes = 3
    Serial = FALSE
    MaxFaults = 0
    MaxCrashes = 0
    MaxPublish = 0
SPECIFICATION FairSpec
INVARIANTS
    ListAgrees
