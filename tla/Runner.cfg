SPECIFICATION FairSpec
CONSTANT MaxSessions = 2
INVARIANTS
    TypeOK
    OneHub
    IdleOfCurrent
    SignalStops
PROPERTIES
    HubListens
    SignalEnds
