CONSTANTS
    Tools = {"fs_grep"}
    UnknownTool = "no_such_tool"
    InitiallyLoaded = {}
    Goals = {"fix", " fix"}
    Strip <- StripSpace
    Ceiling = 3
    MaxBatch = 2
    Calls <- AllCalls
    ReusesIds = TRUE
    Sizes = {400}
    AckSize = 40
    SummarySize = 56
    Threshold = 60
    TaskChars = 40
    GoalChars = 12

SPECIFICATION Spec

INVARIANTS
    FinishIsFirstAccepted
    LoadedBeforeUse
    PlanIsSumOfVerbs
