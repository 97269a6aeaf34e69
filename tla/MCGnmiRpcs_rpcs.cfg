CONSTANTS
    Workers = {w1, w2}
    Requests <- MCRequests
    Leaves <- MCLeaves
    StateLeaves <- MCStateLeaves
    Containers <- MCContainers
    Module <- MCModule
    Paths <- MCPaths
    Initially <- MCInitially
    Json <- MCJson
    Vals = {v1, v2}
    v1 = v1
    v2 = v2
    None = None
    Faults = TRUE
    MaxTx = 1
SPECIFICATION Spec
INVARIANTS
    TypeOK
    SetHalves
    SetAsAsked
    GetCurrent
    StringsReadBack
CHECK_DEADLOCK FALSE
