SPECIFICATION Spec
CONSTANTS
    Bodies = {m1, m2}
    MaxUid = 2
    MaxQueue = 1
    MaxCrashes = 0
    MultiLocks = TRUE
    DiskFills = TRUE
    MaxCopies = 1
SYMMETRY BodySymmetry
INVARIANT ListsUnique
