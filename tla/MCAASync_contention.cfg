CONSTANTS
    None = None
    Nodes = {0, 1, 2}
    NumLockRetries = 2
    Faults = {}
    MaxTx = 3
SPECIFICATION Spec
INVARIANT Agreement
CHECK_DEADLOCK FALSE
