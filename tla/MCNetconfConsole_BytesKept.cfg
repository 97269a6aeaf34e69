CONSTANTS
    Hello <- MCHello
    Replies <- MCReplies
    MaxSize = 9
    Refusal <- MCRefusal
    BufSiz = 3
    ReqSize = 4
    DataSize = 12
    Commands = 2
    Iter = 2
    Pauses = "anywhere"
    Faults = FALSE
SPECIFICATION Spec
INVARIANT BytesKept
CHECK_DEADLOCK FALSE
