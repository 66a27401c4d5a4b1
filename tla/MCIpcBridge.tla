---------------------------- MODULE MCIpcBridge ----------------------------
(***************************************************************************)
(* Instances of IpcBridge for TLC.  Sockets and connections are model      *)
(* values; the cfg chooses how many.  The packet bound MaxPackets and the  *)
(* sets Fds and Conns are the bounds of the state space: NoFdLeak shows    *)
(* that two descriptors per socket always suffice.                         *)
(***************************************************************************)
EXTENDS IpcBridge, TLC

CONSTANTS bridge, video

(* Queue bounds far below 5, 32 and 256, so that few packets fill them.    *)
SmallQueues == [s \in Sockets |-> 2]
OneCounter == [s \in Sockets |-> "dropped_video"]
BridgeOnly == <<bridge>>
BridgeThenVideo == <<bridge, video>>

ConnSymmetry == Permutations(Conns)
=============================================================================
