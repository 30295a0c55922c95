SPECIFICATION Spec
CONSTANTS
    Bodies = {m1, m2, m3}
    MaxUid = 3
    MaxQueue = 1
    MaxCrashes = 0
    MultiLocks = FALSE
    DiskFills = TRUE
    MaxCopies = 0
SYMMETRY BodySymmetry
INVARIANT NoMailLost
