CONSTANTS
    c1 = c1
    e1 = e1
    v1 = v1
    v2 = v2
    None = None
    Paths = {c1, e1}
    CdbPaths = {c1}
    Vals = {v1, v2}
    External = TRUE
    Faults = TRUE
    MaxPolls = 1
    MaxChanges = 2
SYMMETRY Symmetric
SPECIFICATION Spec
INVARIANTS TypeOK NoLostWakeup ClientCatchesUp
CHECK_DEADLOCK FALSE
