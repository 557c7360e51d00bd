SPECIFICATION Spec
CONSTANTS
    t1 = t1  t2 = t2  t3 = t3  e1 = e1  e2 = e2  e3 = e3
    NULL = NULL
    Threads <- ThreeThreads
    Elements <- E123
    Ops <- TryOps
    InitialCapacity = 1
    Capacities <- Raise
PROPERTIES ImplementsQueue TryHonest
CHECK_DEADLOCK FALSE
