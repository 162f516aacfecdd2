SPECIFICATION Spec
CONSTANTS
    Socket = {k1, k2}
    NoSocket = NoSocket
CHECK_DEADLOCK FALSE
INVARIANTS
    StopWakesSleepers
