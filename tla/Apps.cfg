CONSTANTS
    Screen = 3
    QueueSize = 2
    MaxPending = 2
    MaxResizes = 2
    MaxInputs = 2
    Letter = {"a", "b"}
    Blank = "b"
    MaxLines = 3
    LineMax = 4
    TabWidth = 2
    MinVisible <- MCMinVisible
    MaxVisible = 2
    Files <- MCFiles
    MaxEdits = 2
    Rows = 2
    Cols = 2
    TabStop = 2
    Scrollback = 1
    PtySize = 1
    MaxBytes = 4
    MaxKeys = 2
SPECIFICATION Spec
INVARIANTS
    ToolkitInv
    EditorInv
    TermInv
PROPERTIES
    EditIsLocal
    AppsServe
CHECK_DEADLOCK FALSE
