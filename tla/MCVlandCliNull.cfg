CONSTANTS
    p1 = p1
    p2 = p2
    v1 = v1
    v2 = v2
    s1 = s1
    s2 = s2
    Ports = {p1, p2}
    VlanNames = {v1, v2}
    Sessions = {s1, s2}
    VidOf <- MCCliVidOf
    PortKind <- MCPortKind
    DefaultVlanName = v1
    TagValues = {1, 2}
    PortRowChoices <- MCCliPortRowChoices
    MaxGen = 1
    MaxChanges = 3
    CommitMayFail = FALSE
    RecreateBeforePoll = TRUE
    SplitCommit = FALSE
    NONE = NONE
    NULL = NULL

SPECIFICATION CliSpec
CHECK_DEADLOCK FALSE
SYMMETRY SessionSymmetry
INVARIANT
    NoVtyshNullDereference
