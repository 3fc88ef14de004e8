CONSTANTS
    h1 = h1  h2 = h2
    Handlers = {h1, h2}
    MaxIds = 2
    MaxActive = 2
    MaxRuns = 1
    MaxLooks = 1
    Serial = FALSE
    MayDrop = {FALSE}
SPECIFICATION Spec
INVARIANT NoFollowUpLost
CHECK_DEADLOCK FALSE
