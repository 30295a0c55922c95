SPECIFICATION Spec
CONSTANTS
    Bodies = {m1, m2}
    MaxUid = 3
    MaxQueue = 2
    MaxCrashes = 0
    MultiLocks = FALSE
    DiskFills = FALSE
    MaxCopies = 0
SYMMETRY BodySymmetry
PROPERTY TagsKept
