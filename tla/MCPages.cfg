CONSTANTS
    Null = Null
    NoPath <- MCNoPath
    TreePaths <- MCTreePaths
    PullThreads = {"t1", "t2"}
    Edits <- MCEdits
    PrFiles <- MCPrFiles
    MinWidth = 2
    MaxWidth = 5
    DefaultWidth = 3
    MaxDrag = 5
    TeamRoles = {"agent", "reviewer"}
    Providers = {"datadog", "langsmith"}
    MaxRepos = 5
    PageSize = 2
    Projects <- MCProjects
    Periods = {"7d", "bogus"}
    MaxMoves = 3
    PromptRepos = {"a", "b"}
    NoRepo = "none"
    Prompts = {1}
    Ids = {1, 2}
    Presets = {"hourly", "daily"}
    Daily = "daily"
    Others = {"x"}
    Repos = {"r"}
    Supported <- MCSupported
    Retired <- MCRetired
    First <- MCFirst
    Queued <- MCQueued
    MaxDrafts = 1
    MaxImages = 1
    Sessions = {"s1", "s2"}
    ProjectOf <- MCProjectOf
    NoFolder = "none"
    Commands = 2
    FileCount <- MCFiles
    MaxRequests = 2
    Tools = {"task", "grep", "no_op"}
    Outcomes = {"diff"}
    MaxMessages = 3
    MaxCalls = 2
    MaxClicks = 4
    MaxLoginClicks = 5
    MaxBarClicks = 3
SPECIFICATION Spec
INVARIANTS
    TypeOK FilesShown LayoutKept ProfileKept PickersShowSettings  UrlNamesProject
    SignedOutStaysOut PromptsOfRepo SavedAsShown BarIsOfSession DraftSentOnce StopDiscards TranscriptComplete
CHECK_DEADLOCK FALSE
