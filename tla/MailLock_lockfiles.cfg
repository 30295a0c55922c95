SPECIFICATION Spec
CONSTANTS
    a1 = a1  a2 = a2  a3 = a3  b1 = b1
    Procs = {a1, a2, b1}
    Writers = {a1, a2, b1}
    Persistent = {}
    OneShot = {a2, b1}
    Host <- MCHost
    Inodes = {i1, i2, i3, i4}
    DirWriters = {a1, a2, b1}
    DiskFills = TRUE
    Rereads = {a1, a2, b1}
    None = None
SYMMETRY InodeSymmetry
INVARIANTS TypeOK LockFilesKept WritersKeptApart
