CONSTANTS
    CachedThreads = {"old", "new"}
    Existing = {"old"}
    MaxMoves = 3
    Ids = {"a", "b"}
    TodayStart = 3
    SevenDaysAgo = 2
    ThirtyDaysAgo = 1
    Now = 3
    Tabs = {"x", "y"}
    Spaces = {"az", "gh"}
    AzureSpaces = {"az"}
    AllowNonAzure = FALSE
    DefaultRepo = TRUE
    MaxRuns = 1
    ViewedThreads = {"t1", "t2"}
    First = "t1"
    Messages = {1, 2, 3}
    ThreadOf <- MCThreadOf
    Text <- MCText
    NoText = "none"
    MaxCalls = 2
    MaxClicks = 3
SPECIFICATION Spec
INVARIANT DirectedNeverVanishes
CHECK_DEADLOCK FALSE
