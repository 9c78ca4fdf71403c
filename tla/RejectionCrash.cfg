CONSTANTS
    Tools = {"fs_grep"}
    UnknownTool = "no_such_tool"
    InitiallyLoaded = {}
    Goals = {"fix"}
    Strip <- StripSpace
    Ceiling = 2
    MaxBatch = 2
    Calls <- AllCalls
    ReusesIds = FALSE
    Sizes = {8, 400}
    AckSize = 40
    SummarySize = 56
    Threshold = 60
    TaskChars = 40
    GoalChars = 12

SPECIFICATION Spec

INVARIANT RejectionNeverCrashes
