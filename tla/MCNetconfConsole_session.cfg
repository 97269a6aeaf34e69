CONSTANTS
    Hello <- MCHello
    Replies <- MCReplies
    MaxSize = 9
    Refusal <- MCRefusal
    BufSiz = 3
    ReqSize = 4
    DataSize = 12
    Commands = 2
    Iter = 2
    Pauses = "between"
    Faults = TRUE
SPECIFICATION FairSpec
INVARIANTS TypeOK Shown FailsWithCause
PROPERTIES Delivers Ends
CHECK_DEADLOCK FALSE
