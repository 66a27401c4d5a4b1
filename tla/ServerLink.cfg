SPECIFICATION FairSpec
CONSTANTS
    Conns = {c1, c2, c3, c4}
    NoConn = NoConn
    MaxErrors = 3
    MaxOthers = 1
INVARIANTS
    TypeOK
    RetryChains
PROPERTIES
    ComesBack
    BridgeSettles
