CONSTANTS
    s1 = s1
    s2 = s2
    None = None
    Servers = {s1, s2}
    Prio <- MCPrio
    Edits <- MCPlainEdits
    ListPrio = 2
    ListChanges = FALSE
    Refusals = FALSE
    Timeouts = FALSE
    MaxTx = 3
SPECIFICATION Spec
CHECK_DEADLOCK FALSE
INVARIANT NetworkWide
