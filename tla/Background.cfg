SPECIFICATION BackgroundSpec
CONSTANTS
    Capacity = 2
    MaxPush = 4
    SameExecutor = TRUE
    Closers = {"producer", "owner"}
    KeyLife = 6
    Interval = 3
    MaxReconnects = 2
    OnExecutor = FALSE
INVARIANT BufferSafe
PROPERTY ForwarderExits
PROPERTY ImplementsFifo
INVARIANT KeySafe
PROPERTY ExpiryReported
PROPERTY StopEnds
CHECK_DEADLOCK FALSE
