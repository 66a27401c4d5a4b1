SPECIFICATION FairSpec
CONSTANTS
    bridge = bridge
    video = video
    Sockets = {bridge}
    Bridge = bridge
    NoSocket = NoSocket
    NoConn = NoConn
    Counters = {"dropped_video"}
    MaxQueue <- SmallQueues
    CounterOf <- OneCounter
    StopOrder <- BridgeOnly
    Fds = {1, 2}
    Conns = {c1, c2}
    MaxPackets = 3
INVARIANTS
    TypeOK
    NoLostWakeup
    NewestKept
    InOrder
    Accounted
PROPERTIES
    Drained
    StopTerminates
    Implements
