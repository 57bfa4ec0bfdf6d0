SPECIFICATION BackoffSpec
CONSTANTS
    Price = {1}
    Qty = {1}
    MaxLag = 0
    DepthLimit = 2
    MaxVersion = 6
    CanLose = FALSE
INVARIANT WaitDoubles
