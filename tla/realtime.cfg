SPECIFICATION FairSpec
CONSTANTS
    Venues = {v1, v2}
    FirstVenue = v1
    Redis = TRUE
    Handlers = {h1}
    MaxSockets = 2
    MaxSwitches = 1
    MaxChanges = 2
    MaxFaults = 1
INVARIANTS
    PoolsAreLive
    
PROPERTIES
    Settles
CHECK_DEADLOCK FALSE
