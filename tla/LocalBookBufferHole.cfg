SPECIFICATION Spec
CONSTANTS
    Price = {1}
    Qty = {1}
    MaxLag = 2
    DepthLimit = 2
    MaxVersion = 6
    CanLose = TRUE
INVARIANT BookExact
