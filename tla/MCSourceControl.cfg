CONSTANTS
    Paths = {"p", "q"}
    Files = {"f"}
    MaxCalls = 2
    MaxMoves = 2
SPECIFICATION FairSpec
INVARIANTS TypeOK FlagsHonest ToastLasts
PROPERTY EntriesConverge
CHECK_DEADLOCK FALSE
