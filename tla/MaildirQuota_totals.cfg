SPECIFICATION Spec
CONSTANTS
    Deliverers = {d1, d2}
    Purgers = {u1}
    Keepers = {u1}
    Msgs = {m1, m2}
    Quotas = {1}
    OldQuota = 2
    NewQuota <- QuotaArguments
    MaxTries = 2
    MaxLines = 3
    Quarter = 1
    MaxClock = 2
    MaxEvents = 1
SYMMETRY QuotaSymmetry
INVARIANTS TypeOK TotalRight
PROPERTY DoorShut
CHECK_DEADLOCK FALSE
