CONSTANTS
    t1 = t1
    v1 = v1
    v2 = v2
    None = None
    Paths = {t1}
    TypePaths = {t1}
    Vals = {v1, v2}
    MaxPolls = 0
    MaxChanges = 2
    MaxEvents = 2
    MaxSets = 1
SPECIFICATION FairSpec
INVARIANTS TypeOK NoLostWakeup ClientCatchesUp
PROPERTIES WorkerReleased ChangesCollected
CHECK_DEADLOCK FALSE
