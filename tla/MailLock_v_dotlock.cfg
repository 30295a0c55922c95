SPECIFICATION Spec
CONSTANTS
    a1 = a1  a2 = a2  a3 = a3  b1 = b1
    Procs = {a1, a2, a3}
    Writers = {a1, a2}
    Persistent = {}
    OneShot = {a1, a2, a3}
    Host <- MCHost
    Inodes = {i1, i2, i3, i4}
    DirWriters = {a1, a2, a3}
    DiskFills = FALSE
    Rereads = {}
    None = None
SYMMETRY InodeSymmetry
PROPERTY LiveDotlockKept
