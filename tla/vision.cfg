CONSTANTS
    MaxLost = 1
    MaxMissing = 1
    MaxPersons = 2
    MaxTracks = 2
    MaxFrames = 4
    Confirm = 2
    Unknown = Unknown
    anna = anna
    ben = ben
    Identities <- Enrolled
SYMMETRY Symmetry
SPECIFICATION VisionSpec
INVARIANT FoundIsRemembered
INVARIANT StableIsEarned
 
CHECK_DEADLOCK FALSE
