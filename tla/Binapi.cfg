SPECIFICATION Spec
CONSTANTS
    MaxRequests = 3
    Object = {a, b}
    Socket = {s, t}
    MaxMessages = 2
INVARIANT QueueInOrder
INVARIANT SetIsLive
INVARIANT FallsSilent
INVARIANT SignedAsSent
INVARIANT TablesReadBack
PROPERTY StopEnds
CHECK_DEADLOCK FALSE
