\* Two workers send three events, one of them too long, to a cluster of two
\* processes, with one fault.
SPECIFICATION Spec
CONSTANTS
    d1 = d1
    d2 = d2
    Senders = {s1, s2}
    Processes <- MCProcesses
    Events = {e1, e2, e3}
    HugeEvents = {e3}
    MaxConns = 2
    FD_SETSIZE = 1
    MaxFaults = 1
    NULL = NULL
INVARIANTS TypeOK SocketHeldOnce PoolQuiet
PROPERTIES ImplementsAtMostOnce SendEnds
CHECK_DEADLOCK FALSE
