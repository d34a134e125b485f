CONSTANTS
    r1 = r1
    r2 = r2
    Subs <- MCSubs
    MaxPublishes = 2
    MaxCloses = 2
    LeakCap = 2

SPECIFICATION Spec

\* Every goroutine may end and the callers make no more calls.
CHECK_DEADLOCK FALSE

PROPERTIES
    LoopEndsAfterClose
