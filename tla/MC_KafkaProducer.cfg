CONSTANTS
    s1 = s1
    s2 = s2
    Senders <- MCSenders
    MaxBatch = 2
    MaxForwarders = 2
    PipeCap = 1
    ErrBuf = 1

SPECIFICATION Spec
CHECK_DEADLOCK FALSE

PROPERTIES
    
    Refinement
