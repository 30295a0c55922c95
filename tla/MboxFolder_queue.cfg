SPECIFICATION Spec
CONSTANTS
    Bodies = {m1, m2, m3}
    MaxUid = 2
    MaxQueue = 2
    MaxCrashes = 1
    MultiLocks = FALSE
    DiskFills = FALSE
    MaxCopies = 0
SYMMETRY BodySymmetry
INVARIANTS NoMailLost NoDuplicates TypeOK TagTellsBody Aligned
PROPERTY ExpungeSyncs
