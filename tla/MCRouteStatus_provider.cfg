CONSTANTS
    r1 = r1
    r2 = r2
    Ids <- MCIds
    Vals = {1, 2}
    None = None
    MaxChanges = 2
    Faults = TRUE
SPECIFICATION Spec
INVARIANTS
    TypeOK
    Told
    WalksInOrder
    ClosedAtTheEnd
PROPERTIES
    Stops
CHECK_DEADLOCK FALSE
