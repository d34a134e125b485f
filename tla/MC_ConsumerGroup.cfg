CONSTANTS
    c1 = c1
    c2 = c2
    Calls <- MCCalls
    PreSessionErrors = {"OutOfBrokers"}
    MaxIterations = 1
    MaxMessages = 1
    OrderlyUse = TRUE
    CallsClose = TRUE
SPECIFICATION Spec
CHECK_DEADLOCK FALSE
INVARIANTS
    TypeOK
    ReadyClosedOnce
PROPERTIES
    CancelEndsConsumer
    ConsumersEndAfterClose
