SPECIFICATION FairSpec
CONSTANTS
    Reqs = {r1, r2, r3}
    MaxReads = 2
    Timeout = 1
    MaxClock = 1
INVARIANTS TypeOK AnsweredOnce NothingLost LockReleased
PROPERTY Answered
