SPECIFICATION FairSpec
CONSTANTS
    c1 = c1
    a1 = a1
    x1 = x1
    g1 = g1
    g2 = g2
    Gates = {g1, g2}
    Clients = {h1, h2}
    Consumers = {cam}
    ApiEvents = {a1, x1}
    CameraEvents = {c1}
    Entries = {c1, a1}
    GateOf <- TheGates
    NoEvent = NoEvent
    SeenLimit = 2
    Forget = 1
    MaxSubmits = 2
    MaxFaults = 1
INVARIANTS
    GateSumCoversVenue
    HeadCountWithinTotals
    FlowCountsDistinctEvents
    TrackerNeverBehindFlow
    AnalyticsFollowTracker
    PeakCoversOccupancy
    SerialIngestIsConsistent
PROPERTIES
    AnalysedIsStored
CHECK_DEADLOCK FALSE
