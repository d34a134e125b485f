\* Two Consume calls and broker errors before the first session; the
\* program never calls Close, so only the goroutine can release a caller.
CONSTANTS
    c1 = c1
    c2 = c2
    Calls <- MCCalls
    PreSessionErrors = {"OutOfBrokers"}
    MaxIterations = 1
    MaxMessages = 1
    OrderlyUse = TRUE
    CallsClose = FALSE
SPECIFICATION Spec
CHECK_DEADLOCK FALSE
PROPERTY
    ConsumeReturns
