SPECIFICATION Spec
CONSTANTS
    Gates = {g1, g2}
    Venue = venue
    Widths = {2}
    RateWidth = 2
    Capacity = 3
    MaxSeen = 3
    Dropped = 1
    Crowd <- MCCrowd
    Congestion <- MCCongestion
    SustainedFrames = 2
    MinShared = 2
    Late = 0
    Ahead = 0
    MaxNow = 2
    MaxEvents = 1
    MaxCrossings = 0
    MaxSessions = 2
    Scopes = {venue, g1, g2}
    Whole = venue
    VenueCapacity = 2
    Safe <- MCSafe
    EscalationFrames = 2
    RecoveryFrames = 2
    MinTrend = 2
    TrendWindow = 3
    MinForecast = 3
    Horizons = {1, 2}
    Steep = 30
    MaxHistory = 3
    MaxAge = 2
    MaxPolls = 3
    MaxRequests = 2
SYMMETRY Symmetry
INVARIANT StoredOnce
CHECK_DEADLOCK FALSE
