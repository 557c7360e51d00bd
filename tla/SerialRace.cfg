SPECIFICATION Spec
CONSTANTS
    w1 = w1  w2 = w2  i1 = i1  i2 = i2  i3 = i3  i4 = i4
    e1 = e1  e2 = e2  e3 = e3  e4 = e4  A = A  B = B
    NULL = NULL  NoStage = NoStage  NoEvent = NoEvent
    Main = Main  EventThread = EventThread
    Stages <- StagesAB
    Serial <- SerialA
    Inst <- Inst4
    HandlerEvents <- E34
    PendingEvents <- E12
    MainEvents <- None
    RemoteEvents <- None
    BadEvents <- None
    Workers <- TwoWorkers
    DefaultMaxpar <- MinusOne
    PoolMaxpar = 1
    MaxparValues <- None
    ReadyCapacities <- None
    EventCapacities <- None
    Calls <- None
INVARIANTS SerialExclusive
CHECK_DEADLOCK FALSE
