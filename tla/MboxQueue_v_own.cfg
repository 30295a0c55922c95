SPECIFICATION Spec
CONSTANTS
    Reqs = {r1, r2, r3}
    MaxReads = 2
    Timeout = 1
    MaxClock = 0
SYMMETRY ReqSymmetry
PROPERTY OwnLockReused
