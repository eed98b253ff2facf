SPECIFICATION FairSpec
CONSTANTS
    QueueSize = 1
    Policy = "DROP_OLDEST"
    MaxStarts = 3
    MaxLive = 2
    MaxStops = 1
    MaxFrames = 2
INVARIANTS
    QueueAccounted
PROPERTIES
    FramesInOrder
    StopIsClean
    FramesAreTaken
CHECK_DEADLOCK FALSE
