SPECIFICATION Spec
CONSTANTS
    w1 = w1  w2 = w2  i1 = i1  i2 = i2  i3 = i3  i4 = i4
    e1 = e1  e2 = e2  e3 = e3  e4 = e4  A = A  B = B
    NULL = NULL  NoStage = NoStage  NoEvent = NoEvent
    Main = Main  EventThread = EventThread
    Stages <- StagesAB
    Serial <- SerialA
    Inst <- Inst3
    HandlerEvents <- E2
    PendingEvents <- None
    MainEvents <- E3
    RemoteEvents <- E4
    BadEvents <- None
    Workers <- OneWorker
    DefaultMaxpar <- MinusOne
    PoolMaxpar = 1
    MaxparValues <- Caps0
    ReadyCapacities <- Caps1
    EventCapacities <- Caps0
    Calls <- SenderCalls
SYMMETRY SymInst3
INVARIANTS OneOwner EventOnce
PROPERTIES ImplementsService
CHECK_DEADLOCK FALSE
