\* The same instance against what net.h says of the reuse of a connection.
CONSTANTS
    NumLanDrivers = 2
    NumSockets = 4
    MaxClients = 3
    Addrs <- MCAddrs
    NULL = NULL
SPECIFICATION Spec
INVARIANT
    NoSharedConnection
