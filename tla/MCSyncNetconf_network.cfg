CONSTANTS
    s1 = s1
    s2 = s2
    None = None
    Servers = {s1, s2}
    Prio <- MCPrio
    Edits <- MCEdits
    ListPrio = 2
    ListChanges = TRUE
    Refusals = TRUE
    Timeouts = TRUE
    MaxTx = 2
SPECIFICATION FairSpec
INVARIANTS TypeOK NothingAhead TakenByAll ListFollowed EditsReadable
PROPERTY Answered
CHECK_DEADLOCK FALSE
