SPECIFICATION Spec
CONSTANTS
    t1 = t1
    t2 = t2
    t3 = t3
    g1 = g1
    g2 = g2
    p1 = p1
    Gates = {g1, g2}
    Tracks = {t1, t2, t3}
    GateOf <- TheGateOf
    Persons = {p1}
    PersonOf <- OnePerson
    Unknown = Unknown
    Normal = {g2}
    Accepted <- BothWays
    Window = 2
    MaxLost = 2
    Dedup = 1
    MaxFrames = 4
    MaxTicks = 1
SYMMETRY SameGate
INVARIANTS
    StateRemembersLastEvent
    JourneysAreCounted
PROPERTIES
    OncePerWindow
    RepeatsDieOut
CHECK_DEADLOCK FALSE
