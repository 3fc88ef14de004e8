CONSTANTS
    p1 = p1  p2 = p2
    c1 = c1  c2 = c2  c3 = c3
    s1 = s1  s2 = s2  s3 = s3
    Procs = {p1, p2}
    Calls = {c1, c2, c3}
    ProcOf <- MCThreeSlots
    Sandboxes = {s1, s2, s3}
    None = None
    Creating = Creating
    Timeout = 1
    Faults = {"crash"}
SPECIFICATION FairSpec
PROPERTIES PersistsSandboxId CallSettles
CHECK_DEADLOCK FALSE
