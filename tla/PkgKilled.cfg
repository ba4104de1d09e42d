CONSTANTS
    app = app
    lib = lib
    tool = tool
    p1 = p1
    p2 = p2
    p3 = p3
    Process <- Three
    Package <- MCPackage
    Manifests <- Steady
    Commands <- InstallsRemoves
    NoFile = NoFile
    Empty = Empty
    NoName = NoName
    NoSum = NoSum
    BadSum = BadSum
    Shorter <- MCShorter
    MaxNodes = 3
    Serial = TRUE
    MaxFaults = 0
    MaxCrashes = 2
    MaxPublish = 0
SPECIFICATION FairSpec
PROPERTY PackageDBSpec
