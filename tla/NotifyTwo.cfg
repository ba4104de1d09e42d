CONSTANTS
    a = a
    b = b
    c = c
    d = d
    plain = plain
    secure = secure
    typeurl = typeurl
    Sender = {a, b, c, d}
    Barred = {d}
    Screenshot = shot
    TitleLen <- MCTitleLen
    BodyLen <- MCBodyLen
    MaxLen = 5
    ToastLen = 3
    PipeSize = 8
    Duration = 2
    Wrap = 7
    MaxGap = 2
    Url = {plain, secure, typeurl}
    TlsUrl = {secure}
    NoHost = nohost
    TypeUrl = typeurl
    NoUrl = nourl
    Addresses = 2
    MaxRedirects = 1
    InitialBuf = 2
    MaxResponse = 6
    Chunk = 3
    HeaderLen = 2
    Bodies = {0, 2}
    Endless = 7
    Event = {a, b, c}
    NoEvent = noevent
    Capacity = 3
    MaxBlocks = 3
    Clients = {c, d}
    NoOne = noone
    Value = {0, 1}
    Width = 4
    Height = 3
    Coord <- MCCoord
    Extent = {0, 1, 2, 3, 4}
    Level = {0, 1, 127, 128, 254, 255}
    Columns = 3
    Lines = 3
    Colour = {a, b}
    Picture <- MCPicture
    InitialCap = 2
    Char <- MCChar
    Release <- MCRelease
    NameRoom = 4
    VersionRoom = 4
    DepRoom = 4
    MaxDeps = 2
    JsonBase = 25
    JsonPerDep = 6
    Number = number
SPECIFICATION Spec
INVARIANT OneReadOneMessage
CHECK_DEADLOCK FALSE
