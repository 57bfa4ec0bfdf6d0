SPECIFICATION FilesFairSpec
CONSTANTS
    Feed = {x, y}
    Size = {1, 3}
    MaxSize = 2
    BufferCapacity = 1
    MaxFrames = 2
INVARIANT Conservation
INVARIANT SegmentsSound
PROPERTY EndsComplete
CHECK_DEADLOCK FALSE
