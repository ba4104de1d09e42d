CONSTANTS
    Package = {a, b, c, d}
    Root = a
    MaxDeps = 2
    DepLists <- MCDepLists
    MaxNodes = 3
SPECIFICATION FairSpec
INVARIANTS
    IInv
    InstallOrder
    NothingDropped
PROPERTIES
    PlanSpec
    Terminates
