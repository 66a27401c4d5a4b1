SPECIFICATION Spec
CONSTANTS
    Size = 3
    MaxFrame = 4
    Capacity = 4
    MaxMessages = 3
    MaxCuts = 2
INVARIANTS
    TypeOK
    Reassembled
    Resynchronises
    AudioByChunk
