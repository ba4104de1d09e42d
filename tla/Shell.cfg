CONSTANTS
    Wanted <- MCWanted
    Lasts <- MCLasts
    Mentions <- MCMentions
    MaxIter = 3
    Bytes <- MCBytes
    MaxBlock = 25
    Char = {"a", "f", "d"}
    Opener = "f"
    Closer = "d"
    Names <- MCNames
    Blank = "_"
    NL = "/"
    MaxInput = 4
    MaxText = 5
    MaxHistory = 2
    Interrupts = TRUE
    MaxPresses = 7
    Character <- MCCharacter
    Meant <- MCMeant
    RawLines <- MCRaw
    Value <- MCValue
    NameChar = {"a", "b", "v", "h"}
    Home <- MCHome
    MaxPipes = 2
    Shells = {"s", "t"}
    Saves <- MCSaves
    Yields = {10, 29}
    Cooldown = 1
    MaxCommands = 3
    MaxClock = 2
    MagicNames = {"a", "b", "long1", "long2"}
    Cut <- MCCut
    Handlers = {"h", "g"}
    MaxMagic = 2
    PyNames = {"b"}
    MaxCalls = 4
SPECIFICATION Spec
INVARIANTS
    InterpInv
    ReplInv
    ParserInv
    HeroInv
    BridgeInv
PROPERTIES
    ShellEnds
CHECK_DEADLOCK FALSE
