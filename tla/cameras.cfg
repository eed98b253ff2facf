SPECIFICATION Spec
CONSTANTS
    Cameras = {c1}
    Venues = {v1, v2}
    Clients = {k1, k2}
    NoVenue = NoVenue
    WiredAtStart = {TRUE, FALSE}
    MaxFaults = 1
SYMMETRY Symmetry
INVARIANTS
    SerialAgreement
PROPERTIES
    ImplementsCatalog
    OnlyItsOwner
