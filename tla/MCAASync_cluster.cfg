CONSTANTS
    None = None
    Nodes = {0, 1, 2}
    NumLockRetries = 2
    Faults = {"connect", "validate", "prepare", "commit"}
    MaxTx = 3
SPECIFICATION FairSpec
INVARIANTS TypeOK OneReplicator NoEcho AbortedNowhere OneOrder ReplicasAgree
PROPERTIES TransactionEnds NodesFreed
CHECK_DEADLOCK FALSE
