CONSTANTS
    q1 = q1  q2 = q2
    Requests = {q1, q2}
    Timetables = {"daily"}
    MaxCrons = 2
    Overlap = TRUE
    Drops = FALSE
SPECIFICATION Spec
INVARIANT StaysAsTold
CHECK_DEADLOCK FALSE
