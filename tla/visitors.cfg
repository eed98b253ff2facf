SPECIFICATION Spec
CONSTANTS
    ann = ann
    bob = bob
    Visitors = {ann, bob}
    Feed <- OneDayAndAnother
    Horizon = 5
    Gates = {1, 2}
    Calls = {k1, k2}
    MaxCalls = 3
    MaxFaults = 1
    Cutoffs = {4}
    DayLength = 4
    Ranges <- SomeRanges
SYMMETRY Interchangeable
INVARIANTS
    ProfileAgrees
    
PROPERTIES
    ImplementsPresence
    NoVisitMissed
CHECK_DEADLOCK FALSE
