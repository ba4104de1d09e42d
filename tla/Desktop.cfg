CONSTANTS
    Client = {a, b, c}
    NoClient = NoClient
    Palette = Palette
    Desktop = Desktop
    PointerRoot = PointerRoot
    MaxWindows = 2
    MaxRows = 1
    MaxQueue = 2
    Frame = {1, 2}
    Default = 1
    Ink = {black, red}
    Background = black
    Null = null
    Absent = absent
    Garbage = garbage
    NoPixels = nopixels
SYMMETRY Perms
SPECIFICATION Spec
INVARIANTS
    WMInv
    InputOwned
    PaintInv
CHECK_DEADLOCK FALSE
