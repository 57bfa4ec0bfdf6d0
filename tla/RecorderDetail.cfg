SPECIFICATION RecorderSpec
CONSTANTS
    Symbol = {a, b}
    Mandatory = {a}
    Score = {0, 1, 2}
    AddScore = 2
    RemoveScore = 1
    MinHold = 1
    Cooloff = 1
    MinActive = 1
    MaxActive = 2
    Capacity = 1
    FullDepth = TRUE
    Buckets = 2
    BucketSeconds = 2
    Slots = 2
    MaxSamples = 5
    Inputs <- ScreenerInputs
INVARIANT SubscriptionsAgree
INVARIANT AggregatesExact
PROPERTY EvictionEarned
PROPERTY MandatoryKept
PROPERTY RecordsActive
CHECK_DEADLOCK FALSE
