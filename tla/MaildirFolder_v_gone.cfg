SPECIFICATION Spec
CONSTANTS
    NMsgs = 2
    MaxOps = 3
    MaxOther = 5
INVARIANT CheckAgrees
CHECK_DEADLOCK FALSE
