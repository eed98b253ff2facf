SPECIFICATION IntelligenceSpec
CONSTANTS
    Gates = {g1, g2}
    Venue = venue
    Widths = {1, 2}
    RateWidth = 2
    Capacity = 2
    MaxSeen = 2
    Dropped = 1
    Crowd <- MCCrowd
    Congestion <- MCCongestion
    SustainedFrames = 2
    MinShared = 2
    Late = 1
    Ahead = 1
    MaxNow = 1
    MaxEvents = 3
    MaxCrossings = 1
    MaxSessions = 1
SYMMETRY Symmetry
INVARIANT RatesAgree
PROPERTY SpikeIsReported
CHECK_DEADLOCK FALSE
