SPECIFICATION Spec
CONSTANTS
    Reqs = {r1}
    MaxReads = 2
    Timeout = 1
    MaxClock = 2
PROPERTY BusyIsRetried
