CONSTANTS
    p1 = p1
    p2 = p2
    v1 = v1
    v2 = v2
    Ports = {p1, p2}
    VlanNames = {v1, v2}
    VidOf <- MCVidOf
    TagValues = {1, 2}
    PortRowChoices <- MCPortRowChoices
    MaxGen = 1
    MaxChanges = 3
    CommitMayFail = TRUE
    RecreateBeforePoll = FALSE
    NONE = NONE
    NULL = NULL

SPECIFICATION Spec
CHECK_DEADLOCK FALSE
INVARIANT
    StoreReflectsDerivedState
