SPECIFICATION Spec
CONSTANT MaxSessions = 2
INVARIANTS
    StrandsOutlive
