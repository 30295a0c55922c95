SPECIFICATION TcpdFairSpec
CONSTANTS
    c1 = c1
    c2 = c2
    c3 = c3
    c4 = c4
    None = none
    Conns <- AllConns
    NProcs = 3
    AddrOf <- Addresses
    BlockOf <- Networks
    MaxPerIp <- Limits
    MaxPerC = 2
INVARIANTS TableIsChildren PerAddress PerNetwork
PROPERTIES Accepted
CHECK_DEADLOCK FALSE
