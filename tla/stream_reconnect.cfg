SPECIFICATION FairSpec
CONSTANTS
    QueueSize = 1
    Policy = "DROP_OLDEST"
    MaxStarts = 1
    MaxLive = 1
    MaxStops = 0
    MaxFrames = 2
PROPERTIES
    ReconnectEnds
CHECK_DEADLOCK FALSE
