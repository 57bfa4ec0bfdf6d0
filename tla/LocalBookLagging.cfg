SPECIFICATION Spec
CONSTANTS
    Price = {1, 2}
    Qty = {1}
    MaxLag = 2
    DepthLimit = 1
    MaxVersion = 5
    CanLose = FALSE
INVARIANT NoPhantomLevel
INVARIANT CaughtUp
