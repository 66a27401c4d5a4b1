SPECIFICATION Spec
CONSTANTS
    bridge = bridge
    video = video
    Sockets = {bridge, video}
    Bridge = bridge
    NoSocket = NoSocket
    NoConn = NoConn
    Counters = {"dropped_video"}
    MaxQueue <- SmallQueues
    CounterOf <- OneCounter
    StopOrder <- BridgeThenVideo
    Fds = {1, 2, 3, 4}
    Conns = {c1, c2, c3}
    MaxPackets = 1
SYMMETRY ConnSymmetry
INVARIANTS
    OwnTraffic
