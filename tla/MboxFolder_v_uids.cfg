SPECIFICATION Spec
CONSTANTS
    Bodies = {m1, m2}
    MaxUid = 2
    MaxQueue = 1
    MaxCrashes = 0
    MultiLocks = FALSE
    DiskFills = FALSE
    MaxCopies = 1
SYMMETRY BodySymmetry
INVARIANT UidsUnique
