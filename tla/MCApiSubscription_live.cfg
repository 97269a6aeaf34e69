CONSTANTS
    c1 = c1
    c2 = c2
    v1 = v1
    v2 = v2
    None = None
    Paths = {c1, c2}
    CdbPaths = {c1, c2}
    Vals = {v1}
    External = FALSE
    Faults = TRUE
    MaxPolls = 0
    MaxChanges = 2
SPECIFICATION FairSpec
PROPERTIES WorkerReleased CommitAcknowledged
CHECK_DEADLOCK FALSE
