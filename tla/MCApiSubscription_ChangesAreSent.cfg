CONSTANTS
    c1 = c1
    c2 = c2
    e1 = e1
    v1 = v1
    v2 = v2
    None = None
    Paths = {c1, c2, e1}
    CdbPaths = {c1, c2}
    Vals = {v1, v2}
    External = TRUE
    Faults = FALSE
    MaxPolls = 0
    MaxChanges = 2
SPECIFICATION Spec
CHECK_DEADLOCK FALSE
INVARIANT ChangesAreSent
