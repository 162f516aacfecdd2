SPECIFICATION FairSpec
CONSTANTS
    Socket = {k1, k2}
    NoSocket = NoSocket
CHECK_DEADLOCK FALSE
PROPERTIES
    Exits
