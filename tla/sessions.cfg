SPECIFICATION FairSpec
CONSTANTS
    Sessions = {s1, s2}
    Requests = {r1, r2}
    NoSession = NoSession
    MaxHandled = 5
    MaxFaults = 1
INVARIANTS
    TrackedIsRunning
    SoleSessionTracked
    SerialAgreement
PROPERTIES
    OrphansAreLeftAlone
    ImplementsLifecycle
    StopIsStored
CHECK_DEADLOCK FALSE
