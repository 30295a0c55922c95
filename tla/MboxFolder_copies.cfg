SPECIFICATION Spec
CONSTANTS
    Bodies = {m1, m2}
    MaxUid = 3
    MaxQueue = 1
    MaxCrashes = 0
    MultiLocks = FALSE
    DiskFills = FALSE
    MaxCopies = 1
SYMMETRY BodySymmetry
INVARIANTS ListsUnique TagTellsBody Aligned
PROPERTY ExpungeSyncs
