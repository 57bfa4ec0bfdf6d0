SPECIFICATION Spec
CONSTANTS
    Price = {1}
    Qty = {1}
    MaxLag = 2
    DepthLimit = 2
    MaxVersion = 5
    BufferSize = 1
INVARIANT BookExact
PROPERTY NeverGoesBack
PROPERTY ImplementsReplica
CHECK_DEADLOCK FALSE
