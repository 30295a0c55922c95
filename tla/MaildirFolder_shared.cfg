SPECIFICATION Spec
CONSTANTS
    NMsgs = 2
    MaxOps = 3
    MaxOther = 4
INVARIANTS TypeOK UidsUnique RefreshAgrees
PROPERTIES RemovesAsked
CHECK_DEADLOCK FALSE
