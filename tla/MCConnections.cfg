\* Two LAN drivers, and clients that time out inside NET_SendToAll.
CONSTANTS
    NumLanDrivers = 2
    NumSockets = 4
    MaxClients = 3
    Addrs <- MCAddrs
    NULL = NULL
SPECIFICATION Spec
INVARIANTS
    TypeOK
    PoolConserved
    CountMatches
    NoFatalError
    NoOrphan
    OneConnectionPerHost
    SharedOnlyIfExposed
    ClosedIsDropped
