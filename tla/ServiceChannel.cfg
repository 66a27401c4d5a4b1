SPECIFICATION FairSpec
CONSTANTS
    MaxStarts = 2
    MaxOut = 3
INVARIANTS
    TypeOK
    Listening
    AcksMatch
PROPERTIES
    PhoneAnswered
