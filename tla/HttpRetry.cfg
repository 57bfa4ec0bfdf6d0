SPECIFICATION Spec
CONSTANTS
    MaxRequests = 3
    MaxLinks = 4
INVARIANT RetrySafe
CHECK_DEADLOCK FALSE
