CONSTANTS
    q1 = q1  q2 = q2
    Requests = {q1, q2}
    Timetables = {"daily", "hourly"}
    MaxCrons = 6
    Overlap = FALSE
    Drops = TRUE
SPECIFICATION Spec
INVARIANTS TypeOK CronMatches StaysAsTold
CHECK_DEADLOCK FALSE
