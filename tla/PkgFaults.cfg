CONSTANTS
    app = app
    lib = lib
    tool = tool
    p1 = p1
    p2 = p2
    p3 = p3
    Process <- Two
    Package <- MCPackage
    Manifests <- Moving
    Commands <- AllCommands
    NoFile = NoFile
    Empty = Empty
    NoName = NoName
    NoSum = NoSum
    BadSum = BadSum
    Shorter <- MCShorter
    MaxNodes = 2
    Serial = TRUE
    MaxFaults = 1
    MaxCrashes = 1
    MaxPublish = 1
SPECIFICATION FairSpec
INVARIANTS
    FilesInv
    ListAgrees
    ChecksumKept
PROPERTIES
    RemoveSafe
    InstallUndisturbed
    EveryCommandEnds
