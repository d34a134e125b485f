CONSTANTS
    NoErr = noErr
    noErr = noErr
    Modes = {"debug", "release"}
    Ops = {"payload", "file", "abort", "abortNil", "ginAbort", "write", "panic", "return"}
    ErrCodes = {0, 400, 404}
    GinCodes = {204}
    MaxHandlers = 3

SPECIFICATION Spec
CHECK_DEADLOCK FALSE

INVARIANTS
    PanicAnswered500
