CONSTANTS
    h1 = h1  h2 = h2
    Handlers = {h1, h2}
    MaxRuns = 2
SPECIFICATION FairSpec
INVARIANTS TypeOK ViewedHasEnded
PROPERTY DeadEndsEnd
CHECK_DEADLOCK FALSE
