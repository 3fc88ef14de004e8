CONSTANTS
    h1 = h1  h2 = h2
    Handlers = {h1}
    MaxIds = 4
    MaxActive = 2
    MaxRuns = 1
    MaxLooks = 2
    Serial = TRUE
    MayDrop = {FALSE, TRUE}
SPECIFICATION Spec
INVARIANTS TypeOK ExactlyOnce AtMostOnce
PROPERTY ImplementsFollowUps
CHECK_DEADLOCK FALSE
