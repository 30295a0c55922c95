SPECIFICATION FairSpec
CONSTANTS
    d1 = d1
    d2 = d2
    d3 = d3
    stop1 = stop1
    restart1 = restart1
    alice = alice
    bob = bob
    Nobody = nobody
    Starts <- AllStarts
    Stops = {stop1}
    Restarts = {restart1}
    UserOf <- Users
INVARIANTS TypeOK PidTellsDaemon StopStops
PROPERTIES HupHarmless StopEnds
CHECK_DEADLOCK FALSE
