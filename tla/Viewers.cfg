SPECIFICATION FairSpec
CONSTANTS
    MaxPages = 3
    MaxQueued = 3
    MaxBlank = 3
INVARIANTS
    TypeOK
    Seated
    DeltasPass
PROPERTIES
    SeatTaken
CHECK_DEADLOCK FALSE
