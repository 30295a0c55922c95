SPECIFICATION FairSpec
CONSTANTS
    a1 = a1  a2 = a2  a3 = a3  b1 = b1
    Procs = {a1, a2, b1}
    Writers = {a1, b1}
    Persistent = {a1}
    OneShot = {a2, b1}
    Host <- MCHost
    Inodes = {i1, i2}
    DirWriters = {a1, a2, b1}
    DiskFills = FALSE
    Rereads = {}
    None = None
PROPERTY MutexSpec
PROPERTY SurvivorLocks
