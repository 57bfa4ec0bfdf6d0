SPECIFICATION Spec
CONSTANTS
    Price = {1, 2}
    Qty = {1}
    MaxLag = 0
    DepthLimit = 2
    MaxVersion = 5
    CanLose = TRUE
INVARIANT BufferSound
INVARIANT BookExact
PROPERTY NeverGoesBack
PROPERTY ImplementsReplica
