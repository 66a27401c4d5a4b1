SPECIFICATION Spec
CONSTANTS
    bridge = bridge
    video = video
    Sockets = {bridge}
    Bridge = bridge
    NoSocket = NoSocket
    NoConn = NoConn
    Counters = {"dropped_video"}
    MaxQueue <- SmallQueues
    CounterOf <- OneCounter
    StopOrder <- BridgeOnly
    Fds = {1, 2}
    Conns = {c1, c2, c3}
    MaxPackets = 3
SYMMETRY ConnSymmetry
INVARIANTS
    SurvivesReplacement
