SPECIFICATION FairSpec
CONSTANTS
    Timeout = TRUE
    MaxConns = 3
    MaxFrames = 4
    MaxReconnects = 2
INVARIANT TypeOK
INVARIANT LossOnlyByReconnect
PROPERTY GivesUp
CHECK_DEADLOCK FALSE
