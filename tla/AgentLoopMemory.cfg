CONSTANTS
    Tools = {"fs_grep"}
    UnknownTool = "no_such_tool"
    InitiallyLoaded = {"fs_grep"}
    Goals = {"fix"}
    Strip <- StripSpace
    Ceiling = 5
    MaxBatch = 2
    Calls <- MemoryCalls
    ReusesIds = FALSE
    Sizes = {8, 400}
    AckSize = 40
    SummarySize = 56
    Threshold = 60
    TaskChars = 40
    GoalChars = 12

SPECIFICATION Spec

INVARIANTS
    CallsAnsweredInOrder
    WireMirrorsMemory
    LatestResultRaw
    FootprintControlled

PROPERTY ImplementsBoundedRun
