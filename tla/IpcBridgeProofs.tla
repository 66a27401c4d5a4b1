-------------------------- MODULE IpcBridgeProofs --------------------------
(***************************************************************************)
(* Proofs about IpcBridge, for every number of sockets, descriptors,       *)
(* connections and packets, and every queue bound.                         *)
(***************************************************************************)
EXTENDS IpcBridge, SequenceTheorems, FiniteSetTheorems, TLAPS

-----------------------------------------------------------------------------
(* Which steps write which variables.                                      *)

(* The state of the kernel.                                                *)
LEMMA KernelWriters ==
  ASSUME [Next]_vars
  PROVE  \/ UNCHANGED <<kernVars, alive, wire>>
         \/ \E s \in Sockets, c \in Conns : Connect(s, c)
         \/ \E c \in Conns : PeerClose(c)
         \/ \E s \in Sockets, f \in Fds : AcceptReturn(s, f)
         \/ \E s \in Sockets : AcceptInstall(s)
         \/ \E s \in Sockets : WriteDone(s)
         \/ \E s \in Sockets, head \in BOOLEAN : WriteBlock(s, head)
         \/ \E s \in Sockets : WriteResume(s)
         \/ \E s \in Sockets : WritePipe(s)
         \/ \E s \in Sockets : SenderFailed(s)
         \/ StopListener
         \/ StopClient
<1> USE DEF kernVars
<1>1. CASE UNCHANGED vars \/ Peer
  BY <1>1 DEF vars, Peer
<1>2. CASE \E s \in Sockets : Enqueue(s)
  BY <1>2 DEF Enqueue
<1>3. CASE \E s \in Sockets : AcceptThread(s)
  BY <1>3 DEF AcceptThread, AcceptError
<1>4. CASE \E s \in Sockets : SendThread(s) \/ SenderWake(s)
  BY <1>4 DEF SendThread, SenderExit, SenderPark, SenderWake, SenderTake,
     WriteShort, WriteBadFd
<1>5. CASE ReadThread \/ ReadData \/ ReaderWake
  BY <1>5 DEF ReadThread, readRest, ReaderExit, ReaderPark, ReaderWake,
     ReaderTake, ReaderCheck, ReadEnd, ReadBlock, ReadData
<1>6. CASE StopBegin \/ StopRest
  BY <1>6 DEF StopRest, StopBegin, StopJoinAccept, StopJoinSend, StopJoinReader
<1> QED
  BY <1>1, <1>2, <1>3, <1>4, <1>5, <1>6 DEF Next, Threads, Ended

(* Client, queue and counters.                                             *)
LEMMA SocketWriters ==
  ASSUME [Next]_vars
  PROVE  \/ UNCHANGED sockVars
         \/ \E s \in Sockets : Enqueue(s)
         \/ \E s \in Sockets : AcceptInstall(s)
         \/ \E s \in Sockets : SenderTake(s)
         \/ \E s \in Sockets : SenderFailed(s)
         \/ StopClient
<1> USE DEF sockVars
<1>1. CASE UNCHANGED vars \/ Peer
  BY <1>1 DEF vars, Peer, Connect, PeerClose
<1>2. CASE \E s \in Sockets : Enqueue(s)
  BY <1>2
<1>3. CASE \E s \in Sockets : AcceptThread(s)
  BY <1>3 DEF AcceptThread, AcceptReturn, AcceptError
<1>4. CASE \E s \in Sockets : SendThread(s) \/ SenderWake(s)
  BY <1>4, ZenonT(40)
  DEF SendThread, SenderExit, SenderPark, SenderWake, WriteDone, WriteBlock,
      WriteResume, WriteShort, WritePipe, WriteBadFd
<1>5. CASE ReadThread \/ ReadData \/ ReaderWake
  BY <1>5 DEF ReadThread, readRest, ReaderExit, ReaderPark, ReaderWake,
     ReaderTake, ReaderCheck, ReadEnd, ReadBlock, ReadData
<1>6. CASE StopBegin \/ StopRest
  BY <1>6 DEF StopRest, StopBegin, StopListener, StopJoinAccept, StopJoinSend,
     StopJoinReader
<1> QED
  BY <1>1, <1>2, <1>3, <1>4, <1>5, <1>6 DEF Next, Threads, Ended

(* The accept threads.                                                     *)
LEMMA AcceptWriters ==
  ASSUME [Next]_vars
  PROVE  \/ UNCHANGED accVars
         \/ \E s \in Sockets, f \in Fds : AcceptReturn(s, f)
         \/ \E s \in Sockets : AcceptError(s)
         \/ \E s \in Sockets : AcceptInstall(s)
<1> USE DEF accVars
<1>1. CASE UNCHANGED vars \/ Peer
  BY <1>1 DEF vars, Peer, Connect, PeerClose
<1>2. CASE \E s \in Sockets : Enqueue(s)
  BY <1>2 DEF Enqueue
<1>3. CASE \E s \in Sockets : AcceptThread(s)
  BY <1>3 DEF AcceptThread
<1>4. CASE \E s \in Sockets : SendThread(s) \/ SenderWake(s)
  BY <1>4 DEF SendThread, SenderExit, SenderPark, SenderWake, SenderTake,
     WriteDone, WriteBlock, WriteResume, WriteShort, WritePipe,
     WriteBadFd, SenderFailed
<1>5. CASE ReadThread \/ ReadData \/ ReaderWake
  BY <1>5 DEF ReadThread, readRest, ReaderExit, ReaderPark, ReaderWake,
     ReaderTake, ReaderCheck, ReadEnd, ReadBlock, ReadData
<1>6. CASE StopBegin \/ StopRest
  BY <1>6 DEF StopRest, StopBegin, StopListener, StopClient, StopJoinAccept,
     StopJoinSend, StopJoinReader
<1> QED
  BY <1>1, <1>2, <1>3, <1>4, <1>5, <1>6 DEF Next, Threads, Ended

(* The send threads, which the notifying steps wake.                       *)
LEMMA SenderWriters ==
  ASSUME [Next]_vars
  PROVE  \/ UNCHANGED <<spc, snd>>
         \/ \E s \in Sockets : Enqueue(s)
         \/ \E s \in Sockets : AcceptInstall(s)
         \/ \E s \in Sockets : SenderExit(s)
         \/ \E s \in Sockets : SenderPark(s)
         \/ \E s \in Sockets : SenderWake(s)
         \/ \E s \in Sockets : SenderTake(s)
         \/ \E s \in Sockets : WriteDone(s)
         \/ \E s \in Sockets, head \in BOOLEAN : WriteBlock(s, head)
         \/ \E s \in Sockets : WriteResume(s)
         \/ \E s \in Sockets : WriteShort(s)
         \/ \E s \in Sockets : WritePipe(s)
         \/ \E s \in Sockets : WriteBadFd(s)
         \/ \E s \in Sockets : SenderFailed(s)
         \/ StopClient
<1>1. CASE UNCHANGED vars \/ Peer
  BY <1>1 DEF vars, Peer, Connect, PeerClose
<1>2. CASE \E s \in Sockets : Enqueue(s)
  BY <1>2
<1>3. CASE \E s \in Sockets : AcceptThread(s)
  BY <1>3 DEF AcceptThread, AcceptReturn, AcceptError
<1>4. CASE \E s \in Sockets : SendThread(s) \/ SenderWake(s)
  BY <1>4 DEF SendThread
<1>5. CASE ReadThread \/ ReadData \/ ReaderWake
  BY <1>5 DEF ReadThread, readRest, ReaderExit, ReaderPark, ReaderWake,
     ReaderTake, ReaderCheck, ReadEnd, ReadBlock, ReadData
<1>6. CASE StopBegin \/ StopRest
  BY <1>6 DEF StopRest, StopBegin, StopListener, StopJoinAccept, StopJoinSend,
     StopJoinReader
<1> QED
  BY <1>1, <1>2, <1>3, <1>4, <1>5, <1>6 DEF Next, Threads, Ended

(* The reader thread.                                                      *)
LEMMA ReaderWriters ==
  ASSUME [Next]_vars
  PROVE  \/ UNCHANGED <<rpc, rdr>>
         \/ \E s \in Sockets : Enqueue(s)
         \/ \E s \in Sockets : AcceptInstall(s)
         \/ ReaderExit
         \/ ReaderPark
         \/ ReaderWake
         \/ ReaderTake
         \/ ReaderCheck
         \/ ReadEnd
         \/ ReadBlock
         \/ ReadData
         \/ StopClient
<1>1. CASE UNCHANGED vars \/ Peer
  BY <1>1 DEF vars, Peer, Connect, PeerClose
<1>2. CASE \E s \in Sockets : Enqueue(s)
  BY <1>2
<1>3. CASE \E s \in Sockets : AcceptThread(s)
  BY <1>3 DEF AcceptThread, AcceptReturn, AcceptError
<1>4. CASE \E s \in Sockets : SendThread(s) \/ SenderWake(s)
  BY <1>4 DEF SendThread, SenderExit, SenderPark, SenderWake, SenderTake,
     WriteDone, WriteBlock, WriteResume, WriteShort, WritePipe,
     WriteBadFd, SenderFailed
<1>5. CASE ReadThread \/ ReadData \/ ReaderWake
  BY <1>5 DEF ReadThread
<1>6. CASE StopBegin \/ StopRest
  BY <1>6 DEF StopRest, StopBegin, StopListener, StopJoinAccept, StopJoinSend,
     StopJoinReader
<1> QED
  BY <1>1, <1>2, <1>3, <1>4, <1>5, <1>6 DEF Next, Threads, Ended

(* The thread in stop().                                                   *)
LEMMA StopWriters ==
  ASSUME [Next]_vars
  PROVE  \/ UNCHANGED stopVars
         \/ StopBegin
         \/ StopListener
         \/ StopClient
         \/ StopJoinAccept
         \/ StopJoinSend
         \/ StopJoinReader
<1> USE DEF stopVars
<1>1. CASE UNCHANGED vars \/ Peer
  BY <1>1 DEF vars, Peer, Connect, PeerClose
<1>2. CASE \E s \in Sockets : Enqueue(s)
  BY <1>2 DEF Enqueue
<1>3. CASE \E s \in Sockets : AcceptThread(s)
  BY <1>3 DEF AcceptThread, AcceptReturn, AcceptError, AcceptInstall
<1>4. CASE \E s \in Sockets : SendThread(s) \/ SenderWake(s)
  BY <1>4, ZenonT(40)
  DEF SendThread, SenderExit, SenderPark, SenderWake, SenderTake,
     WriteDone, WriteBlock, WriteResume, WriteShort, WritePipe,
     WriteBadFd, SenderFailed
<1>5. CASE ReadThread \/ ReadData \/ ReaderWake
  BY <1>5 DEF ReadThread, readRest, ReaderExit, ReaderPark, ReaderWake,
     ReaderTake, ReaderCheck, ReadEnd, ReadBlock, ReadData
<1>6. CASE StopBegin \/ StopRest
  BY <1>6 DEF StopRest
<1> QED
  BY <1>1, <1>2, <1>3, <1>4, <1>5, <1>6 DEF Next, Threads, Ended

-----------------------------------------------------------------------------
(* Type correctness and ownership of connections are one inductive         *)
(* invariant: that shutdown() is only ever applied to a connection is a    *)
(* matter of types, and holds because a registered client is open.         *)

(* What closing the client of a socket does.                               *)
LEMMA Closing ==
  ASSUME TypeOK, ConnsOwned, NEW s \in Sockets
  PROVE  /\ ClosedTab(s) \in [Fds -> Conns \cup {NoConn}]
         /\ ShutConns(s) \subseteq Conns
         /\ \A f \in Fds : f # client[s] => ClosedTab(s)[f] = fdtab[f]
         /\ \A f \in Fds : f = client[s] => ClosedTab(s)[f] = NoConn
<1> USE DEF ClosedTab, ShutConns, TypeOK, KernelTypeOK, SocketTypeOK
<1>1. CASE client[s] = NoFd
  BY <1>1, FdsAssumption DEF NoFd
<1>2. CASE client[s] # NoFd
  <2>1. client[s] \in Fds /\ fdtab[client[s]] \in Conns
    BY <1>2 DEF ConnsOwned, Free
  <2> QED
    BY <1>2, <2>1
<1> QED
  BY <1>1, <1>2

(* A thread in write() writes on a number that is a descriptor, to a       *)
(* connection that exists.                                                 *)
LEMMA Writing ==
  ASSUME TypeOK, NEW s \in Sockets, NEW c, Healthy(c),
         c \in Conns \cup {NoConn},
         NEW p \in {"whole", "head", "rest"}, Sent(s, c, p)
  PROVE  wire' \in [Conns -> Seq(Chunk)]
<1>1. [from |-> s, part |-> p, packet |-> snd[s].packet] \in Chunk
  BY DEF TypeOK, SenderTypeOK, Write, Chunk
<1> QED
  BY <1>1 DEF Sent, Healthy, TypeOK, KernelTypeOK

(* Every step keeps the types of the kernel's state.                       *)
LEMMA KernelTyped ==
  ASSUME TypeOK, ConnsOwned, [Next]_vars
  PROVE  KernelTypeOK'
<1> USE DEF TypeOK, KernelTypeOK, kernVars
<1>1. CASE UNCHANGED <<kernVars, alive, wire>>
  BY <1>1
<1>2. ASSUME NEW s \in Sockets, NEW c \in Conns, Connect(s, c)
      PROVE  KernelTypeOK'
  BY <1>2 DEF Connect
<1>3. ASSUME NEW c \in Conns, PeerClose(c) PROVE KernelTypeOK'
  BY <1>3 DEF PeerClose
<1>4. ASSUME NEW s \in Sockets, NEW f \in Fds, AcceptReturn(s, f)
      PROVE  KernelTypeOK'
  <2>1. Head(backlog[s]) \in Conns /\ Tail(backlog[s]) \in Seq(Conns)
    BY <1>4 DEF AcceptReturn
  <2> QED
    BY <1>4, <2>1 DEF AcceptReturn
<1>5. ASSUME NEW s \in Sockets, AcceptInstall(s) \/ SenderFailed(s)
      PROVE  KernelTypeOK'
  BY <1>5, Closing DEF AcceptInstall, SenderFailed
<1>6. CASE StopClient
  <2>1. Current \in Sockets
    BY SocketsAssumption DEF Current, StopTypeOK
  <2> QED
    BY <1>6, <2>1, Closing DEF StopClient
<1>7. CASE StopListener
  <2>1. Current \in Sockets
    BY SocketsAssumption DEF Current, StopTypeOK
  <2>2. {backlog[Current][i] : i \in DOMAIN backlog[Current]} \subseteq Conns
    BY <2>1
  <2> QED
    BY <1>7, <2>1, <2>2 DEF StopListener
<1>8. ASSUME NEW s \in Sockets, WriteDone(s) PROVE KernelTypeOK'
  <2>1. fdtab[snd[s].fd] \in Conns \cup {NoConn}
    BY <1>8 DEF WriteDone, SenderTypeOK, Write
  <2>2. snd[s].part \in {"whole", "head", "rest"}
    BY DEF SenderTypeOK, Write
  <2> QED
    BY <1>8, <2>1, <2>2, Writing DEF WriteDone
<1>9. ASSUME NEW s \in Sockets, WriteResume(s) PROVE KernelTypeOK'
  <2>1. /\ snd[s].conn \in Conns \cup {NoConn}
        /\ snd[s].part \in {"whole", "head", "rest"}
    BY DEF SenderTypeOK, Write
  <2> QED
    BY <1>9, <2>1, Writing DEF WriteResume
<1>10. ASSUME NEW s \in Sockets, NEW head \in BOOLEAN, WriteBlock(s, head)
       PROVE  KernelTypeOK'
  <2>1. fdtab[snd[s].fd] \in Conns \cup {NoConn}
    BY <1>10 DEF WriteBlock, SenderTypeOK, Write
  <2>2. wire' \in [Conns -> Seq(Chunk)]
    BY <1>10, <2>1, Writing DEF WriteBlock
  <2> QED
    BY <1>10, <2>2 DEF WriteBlock
<1>11. ASSUME NEW s \in Sockets, WritePipe(s) PROVE KernelTypeOK'
  BY <1>11 DEF WritePipe
<1> QED
  BY <1>1, <1>2, <1>3, <1>4, <1>5, <1>6, <1>7, <1>8, <1>9, <1>10, <1>11,
     KernelWriters

(* Trim leaves a sequence of packets, shorter than the bound.              *)
LEMMA TrimFacts ==
  ASSUME NEW q \in Seq(Nat), NEW max \in Nat \ {0}, Len(q) <= max
  PROVE  /\ Trim(q, max) \in Seq(Nat)
         /\ Len(Trim(q, max)) = IF Len(q) < max THEN Len(q) ELSE max - 1
         /\ \A i \in 1..Len(Trim(q, max)) :
              Trim(q, max)[i] = q[i + Len(q) - Len(Trim(q, max))]
<1>1. CASE Len(q) < max
  BY <1>1 DEF Trim
<1>2. CASE Len(q) = max
  <2>1. Trim(q, max) = SubSeq(q, 2, Len(q))
    BY <1>2 DEF Trim
  <2> QED
    BY <1>2, <2>1
<1> QED
  BY <1>1, <1>2

(* Every step keeps the types of clients, queues and counters.             *)
LEMMA SocketTyped ==
  ASSUME TypeOK, NewestKept, [Next]_vars
  PROVE  SocketTypeOK'
<1> USE DEF TypeOK, SocketTypeOK, sockVars
<1>1. CASE UNCHANGED sockVars
  BY <1>1
<1>2. ASSUME NEW s \in Sockets, Enqueue(s) PROVE SocketTypeOK'
  <2> DEFINE kept == Trim(queue[s], MaxQueue[s])
  <2>1. kept \in Seq(Nat) /\ Len(kept) <= Len(queue[s])
    BY TrimFacts, QueueAssumption DEF NewestKept
  <2>2. CounterOf[s] \in Counters
    BY QueueAssumption
  <2> QED
    BY <1>2, <2>1, <2>2 DEF Enqueue, Push, Popped
<1>3. ASSUME NEW s \in Sockets, AcceptInstall(s) PROVE SocketTypeOK'
  BY <1>3 DEF AcceptInstall, AcceptTypeOK
<1>4. ASSUME NEW s \in Sockets, SenderTake(s) PROVE SocketTypeOK'
  BY <1>4 DEF SenderTake
<1>5. ASSUME NEW s \in Sockets, SenderFailed(s) PROVE SocketTypeOK'
  BY <1>5 DEF SenderFailed, Unregistered
<1>6. CASE StopClient
  BY <1>6 DEF StopClient, Unregistered
<1> QED
  BY <1>1, <1>2, <1>3, <1>4, <1>5, <1>6, SocketWriters

(* Every step keeps the types of the accept threads.                       *)
LEMMA AcceptTyped ==
  ASSUME TypeOK, [Next]_vars
  PROVE  AcceptTypeOK'
<1> USE DEF TypeOK, AcceptTypeOK, accVars
<1>1. CASE UNCHANGED accVars
  BY <1>1
<1>2. ASSUME NEW s \in Sockets, NEW f \in Fds, AcceptReturn(s, f)
      PROVE  AcceptTypeOK'
  BY <1>2, FdsAssumption DEF AcceptReturn, NoFd
<1>3. ASSUME NEW s \in Sockets, AcceptError(s) PROVE AcceptTypeOK'
  BY <1>3 DEF AcceptError
<1>4. ASSUME NEW s \in Sockets, AcceptInstall(s) PROVE AcceptTypeOK'
  BY <1>4 DEF AcceptInstall
<1> QED
  BY <1>1, <1>2, <1>3, <1>4, AcceptWriters

(* Waking threads keeps the program counters in their sets.                *)
LEMMA WakeTyped ==
  ASSUME TypeOK, NEW s \in Sockets, NEW W, Wake(s, W)
  PROVE  /\ spc' \in [Sockets ->
              {"loop", "parked", "write", "blocked", "failed", "exited"}]
         /\ \A t \in Sockets : spc'[t] # "loop" => spc'[t] = spc[t]
         /\ rpc' = "loop" \/ rpc' = rpc
  BY DEF Wake, TypeOK, SenderTypeOK

(* Both notify calls keep the program counters in their sets.              *)
LEMMA NotifyTyped ==
  ASSUME TypeOK, NEW s \in Sockets, NotifyOne(s) \/ NotifyAll(s)
  PROVE  /\ spc' \in [Sockets ->
              {"loop", "parked", "write", "blocked", "failed", "exited"}]
         /\ \A t \in Sockets : spc'[t] # "loop" => spc'[t] = spc[t]
         /\ rpc' = "loop" \/ rpc' = rpc
  BY WakeTyped DEF NotifyOne, NotifyAll

(* The socket that stop() is shutting down is one of the sockets.          *)
LEMMA CurrentSocket ==
  ASSUME TypeOK
  PROVE  Current \in Sockets
  BY SocketsAssumption DEF Current, TypeOK, StopTypeOK

(* Every step keeps the types of the send threads.                         *)
LEMMA SenderTyped ==
  ASSUME TypeOK, [Next]_vars
  PROVE  SenderTypeOK'
<1> USE DEF TypeOK, SenderTypeOK, Write
<1>1. CASE UNCHANGED <<spc, snd>>
  BY <1>1
<1>2. ASSUME NEW s \in Sockets, Enqueue(s) PROVE SenderTypeOK'
  BY <1>2, NotifyTyped DEF Enqueue
<1>3. ASSUME NEW s \in Sockets, AcceptInstall(s) PROVE SenderTypeOK'
  BY <1>3, NotifyTyped DEF AcceptInstall
<1>4. CASE StopClient
  BY <1>4, NotifyTyped, CurrentSocket DEF StopClient
<1>5. ASSUME NEW s \in Sockets,
             \/ SenderExit(s) \/ SenderPark(s) \/ SenderWake(s)
             \/ WriteBadFd(s) \/ WritePipe(s)
      PROVE  SenderTypeOK'
  BY <1>5 DEF SenderExit, SenderPark, SenderWake, WriteBadFd, WritePipe
<1>6. ASSUME NEW s \in Sockets, SenderTake(s) PROVE SenderTypeOK'
  <2>1. Head(queue[s]) \in Nat /\ client[s] \in Fds
    BY <1>6 DEF SenderTake, SocketTypeOK
  <2>2. snd'[s] \in Write /\ snd'[s].fd # NoFd
    BY <1>6, <2>1 DEF SenderTake, NoWrite
  <2> QED
    BY <1>6, <2>2 DEF SenderTake
<1>7. ASSUME NEW s \in Sockets,
             WriteDone(s) \/ WriteResume(s) \/ SenderFailed(s)
      PROVE  SenderTypeOK'
  <2>1. NoWrite \in Write
    BY DEF NoWrite
  <2> QED
    BY <1>7, <2>1 DEF WriteDone, WriteResume, SenderFailed
<1>8. ASSUME NEW s \in Sockets, NEW head \in BOOLEAN, WriteBlock(s, head)
      PROVE  SenderTypeOK'
  <2>1. fdtab[snd[s].fd] \in Conns
    BY <1>8 DEF WriteBlock, Healthy, KernelTypeOK
  <2>2. snd'[s] \in Write
    BY <1>8, <2>1 DEF WriteBlock
  <2> QED
    BY <1>8, <2>2 DEF WriteBlock
<1>9. ASSUME NEW s \in Sockets, WriteShort(s) PROVE SenderTypeOK'
  BY <1>9 DEF WriteShort
<1> QED
  BY <1>1, <1>2, <1>3, <1>4, <1>5, <1>6, <1>7, <1>8, <1>9, SenderWriters

(* Every step keeps the types of the reader thread.                        *)
LEMMA ReaderTyped ==
  ASSUME TypeOK, [Next]_vars
  PROVE  ReaderTypeOK'
<1> USE DEF TypeOK, ReaderTypeOK
<1>1. CASE UNCHANGED <<rpc, rdr>>
  BY <1>1
<1>2. ASSUME NEW s \in Sockets, Enqueue(s) PROVE ReaderTypeOK'
  BY <1>2, NotifyTyped DEF Enqueue
<1>3. ASSUME NEW s \in Sockets, AcceptInstall(s) PROVE ReaderTypeOK'
  BY <1>3, NotifyTyped DEF AcceptInstall
<1>4. CASE StopClient
  BY <1>4, NotifyTyped, CurrentSocket DEF StopClient
<1>5. CASE ReaderExit \/ ReaderPark \/ ReaderWake \/ ReaderCheck \/ ReadEnd
  BY <1>5 DEF ReaderExit, ReaderPark, ReaderWake, ReaderCheck, ReadEnd, NoRead
<1>6. CASE ReaderTake
  BY <1>6, SocketsAssumption DEF ReaderTake, NoRead, SocketTypeOK
<1>7. CASE ReadBlock
  BY <1>7 DEF ReadBlock, Healthy, KernelTypeOK
<1>8. CASE ReadData
  BY <1>8 DEF ReadData
<1> QED
  BY <1>1, <1>2, <1>3, <1>4, <1>5, <1>6, <1>7, <1>8, ReaderWriters

(* Every step keeps the types of the thread in stop().                     *)
LEMMA StopTyped ==
  ASSUME TypeOK, [Next]_vars
  PROVE  StopTypeOK'
<1> USE DEF TypeOK, StopTypeOK, stopVars
<1>1. CASE UNCHANGED stopVars
  BY <1>1
<1>2. CASE StopBegin \/ StopListener \/ StopJoinAccept \/ StopJoinReader
  BY <1>2 DEF StopBegin, StopListener, StopJoinAccept, StopJoinReader
<1>3. CASE StopClient
  BY <1>3, CurrentSocket DEF StopClient
<1>4. CASE StopJoinSend
  <2>1. Len(StopOrder) \in Nat
    BY SocketsAssumption
  <2>2. stopAt' \in 1..Len(StopOrder)
    BY <1>4, <2>1 DEF StopJoinSend, LastOne
  <2> QED
    BY <1>4, <2>2 DEF StopJoinSend
<1> QED
  BY <1>1, <1>2, <1>3, <1>4, StopWriters

-----------------------------------------------------------------------------
(* Packets and connections.                                                *)

(* A queue that holds the newest packets up to number a.                   *)
Newest(q, a) == \A i \in 1..Len(q) : q[i] = a - Len(q) + i

(* Popping the oldest packets leaves the newest, in order.                 *)
LEMMA TrimKeepsNewest ==
  ASSUME NEW q \in Seq(Nat), NEW max \in Nat \ {0}, NEW a \in Nat,
         Len(q) <= max, Newest(q, a)
  PROVE  Newest(Trim(q, max), a)
<1> DEFINE kept == Trim(q, max)
<1>1. /\ kept \in Seq(Nat) /\ Len(kept) \in Nat /\ Len(kept) <= Len(q)
      /\ \A i \in 1..Len(kept) : kept[i] = q[i + Len(q) - Len(kept)]
  BY TrimFacts
<1> SUFFICES ASSUME NEW i \in 1..Len(kept)
             PROVE  kept[i] = a - Len(kept) + i
  BY DEF Newest
<1>2. Len(q) \in Nat /\ i + Len(q) - Len(kept) \in 1..Len(q)
  BY <1>1
<1>3. kept[i] = a - Len(q) + (i + Len(q) - Len(kept))
  BY <1>1, <1>2 DEF Newest
<1> HIDE DEF kept
<1> QED
  BY <1>1, <1>2, <1>3

(* The packet pushed is the newest one accepted, after the trimmed queue.  *)
LEMMA PushKeepsNewest ==
  ASSUME NEW q \in Seq(Nat), NEW a \in Nat, Newest(q, a)
  PROVE  Len(Push(q, a + 1)) = Len(q) + 1 /\ Newest(Push(q, a + 1), a + 1)
<1> DEFINE r == Append(q, a + 1)
<1>1. /\ Len(r) = Len(q) + 1 /\ r[Len(q) + 1] = a + 1
      /\ \A i \in 1..Len(q) : r[i] = q[i]
  BY AppendProperties
<1> HIDE DEF r
<1>2. ASSUME NEW i \in 1..Len(r) PROVE r[i] = (a + 1) - Len(r) + i
  <2>1. CASE i \in 1..Len(q)
    BY <1>1, <2>1 DEF Newest
  <2>2. CASE i = Len(q) + 1
    BY <1>1, <2>2
  <2> QED
    BY <1>1, <2>1, <2>2
<1> QED
  BY <1>1, <1>2 DEF Newest, Push, r

(* What taking the oldest packet leaves.                                   *)
LEMMA TailKeepsNewest ==
  ASSUME NEW q \in Seq(Nat), NEW a \in Nat, q # <<>>,
         Newest(q, a)
  PROVE  Len(Tail(q)) < Len(q) /\ Newest(Tail(q), a)
<1>1. /\ Len(q) \in Nat \ {0} /\ Len(Tail(q)) = Len(q) - 1
      /\ \A i \in 1..Len(Tail(q)) : Tail(q)[i] = q[i + 1]
  OBVIOUS
<1> QED
  BY <1>1 DEF Newest

(* Every step keeps the queues full of the newest packets only.            *)
LEMMA NewestKeptStep ==
  ASSUME TypeOK, NewestKept, [Next]_vars
  PROVE  NewestKept'
<1> DEFINE Good(s) == /\ Len(queue[s]) <= MaxQueue[s]
                      /\ Newest(queue[s], accepted[s])
<1> SUFFICES ASSUME NEW t \in Sockets PROVE Good(t)'
  BY DEF NewestKept, Newest
<1>1. /\ Good(t) /\ MaxQueue[t] \in Nat \ {0}
      /\ queue[t] \in Seq(Nat) /\ accepted[t] \in Nat
  BY QueueAssumption DEF NewestKept, Newest, TypeOK, SocketTypeOK
<1>2. CASE queue'[t] = queue[t] /\ accepted'[t] = accepted[t]
  BY <1>1, <1>2 DEF Newest
<1>3. ASSUME NEW s \in Sockets, Enqueue(s) PROVE Good(t)'
  <2>1. CASE t # s
    BY <1>2, <1>3, <2>1 DEF Enqueue, TypeOK, SocketTypeOK
  <2>2. CASE t = s
    <3>1. /\ queue'[t] = Push(Trim(queue[t], MaxQueue[t]), accepted[t] + 1)
          /\ accepted'[t] = accepted[t] + 1
      BY <1>3, <2>2 DEF Enqueue, TypeOK, SocketTypeOK
    <3> DEFINE kept == Trim(queue[t], MaxQueue[t])
    <3>2. kept \in Seq(Nat) /\ Len(kept) < MaxQueue[t]
      BY <1>1, TrimFacts
    <3>3. Newest(kept, accepted[t])
      BY <1>1, TrimKeepsNewest
    <3> HIDE DEF kept
    <3>4. /\ Len(queue'[t]) = Len(kept) + 1
          /\ Newest(queue'[t], accepted'[t])
      BY <1>1, <3>1, <3>2, <3>3, PushKeepsNewest DEF kept
    <3> QED
      BY <1>1, <3>2, <3>4 DEF Newest
  <2> QED
    BY <2>1, <2>2
<1>4. ASSUME NEW s \in Sockets, SenderTake(s) PROVE Good(t)'
  <2>1. CASE t # s
    BY <1>2, <1>4, <2>1 DEF SenderTake, TypeOK, SocketTypeOK
  <2>2. CASE t = s
    <3>1. /\ queue'[t] = Tail(queue[t]) /\ queue[t] # <<>>
          /\ accepted'[t] = accepted[t]
      BY <1>4, <2>2 DEF SenderTake, TypeOK, SocketTypeOK
    <3>2. /\ Len(Tail(queue[t])) < Len(queue[t])
          /\ Newest(Tail(queue[t]), accepted[t])
      BY <1>1, <3>1, TailKeepsNewest
    <3>3. Len(Tail(queue[t])) <= MaxQueue[t]
      BY <1>1, <3>1, <3>2
    <3> QED
      BY <3>1, <3>2, <3>3 DEF Newest
  <2> QED
    BY <2>1, <2>2
<1>5. ASSUME NEW s \in Sockets, AcceptInstall(s) \/ SenderFailed(s)
      PROVE  Good(t)'
  BY <1>2, <1>5 DEF AcceptInstall, SenderFailed
<1>6. CASE StopClient \/ UNCHANGED sockVars
  BY <1>2, <1>6 DEF StopClient, sockVars
<1> QED
  BY <1>3, <1>4, <1>5, <1>6, SocketWriters

-----------------------------------------------------------------------------
(* Wakeups.                                                                *)

(* Producers run only before stop(), and clients are shut only after it    *)
(* began.                                                                  *)
StopSequence == (running <=> stopPc = "idle") /\ (running => shut = {})

(* running is cleared by the first step of stop(), and no client is shut   *)
(* before.                                                                 *)
LEMMA StopSequenceStep ==
  ASSUME TypeOK, StopSequence, [Next]_vars
  PROVE  StopSequence'
<1> USE DEF StopSequence, TypeOK, StopTypeOK, stopVars
<1>1. CASE UNCHANGED stopVars
  BY <1>1
<1>2. CASE StopBegin \/ StopListener \/ StopClient
  BY <1>2 DEF StopBegin, StopListener, StopClient
<1>3. CASE StopJoinAccept \/ StopJoinSend \/ StopJoinReader
  BY <1>3 DEF StopJoinAccept, StopJoinSend, StopJoinReader
<1> QED
  BY <1>1, <1>2, <1>3, StopWriters

(* After notify_all() nobody sleeps on the condition variable of s, and no *)
(* other thread is touched.                                                *)
LEMMA NotifyAllWakes ==
  ASSUME TypeOK, NEW s \in Sockets, NotifyAll(s)
  PROVE  /\ spc'[s] # "parked"
         /\ s = Bridge => rpc' # "parked"
         /\ \A t \in Sockets : spc'[t] = "parked" => spc[t] = "parked"
         /\ rpc' = "parked" => rpc = "parked"
  BY DEF NotifyAll, Waiters, Wake, TypeOK, SenderTypeOK

(* The bridge's two threads share a condition variable, but when enqueue() *)
(* gets to notify_one() the reader cannot be asleep: the one thread to     *)
(* wake is the sender.                                                     *)
LEMMA NotifyOneWakesSender ==
  ASSUME TypeOK, NoLostWakeup, running, NEW s \in Sockets,
         client[s] # NoFd, NotifyOne(s)
  PROVE  /\ spc'[s] # "parked"
         /\ \A t \in Sockets : spc'[t] = "parked" => spc[t] = "parked"
         /\ rpc' = rpc
<1>1. Waiters(s) = IF spc[s] = "parked" THEN {"sender"} ELSE {}
  BY DEF Waiters, NoLostWakeup
<1> QED
  BY <1>1 DEF NotifyOne, Wake, TypeOK, SenderTypeOK

(* Every step keeps a sleeping thread's predicate false, or a notify       *)
(* ahead.                                                                  *)
LEMMA NoLostWakeupStep ==
  ASSUME TypeOK, StopSequence, NoLostWakeup, [Next]_vars
  PROVE  NoLostWakeup'
<1> USE DEF TypeOK
<1>1. CASE UNCHANGED vars \/ Peer
  BY <1>1 DEF NoLostWakeup, vars, Peer, Connect, PeerClose, sockVars,
     stopVars
<1>2. ASSUME NEW s \in Sockets, Enqueue(s) PROVE NoLostWakeup'
  <2>1. running /\ client[s] # NoFd
    BY <1>2 DEF Enqueue, StopSequence
  <2>2. /\ spc'[s] # "parked"
        /\ \A t \in Sockets : spc'[t] = "parked" => spc[t] = "parked"
        /\ rpc' = rpc
    BY <1>2, <2>1, NotifyOneWakesSender DEF Enqueue
  <2>3. /\ UNCHANGED <<running, shut, client>>
        /\ \A t \in Sockets \ {s} : queue'[t] = queue[t]
    BY <1>2 DEF Enqueue, stopVars, SocketTypeOK
  <2> QED
    BY <2>2, <2>3 DEF NoLostWakeup
<1>3. ASSUME NEW s \in Sockets, AcceptInstall(s) PROVE NoLostWakeup'
  <2>1. /\ UNCHANGED <<running, shut, queue>>
        /\ \A t \in Sockets \ {s} : client'[t] = client[t]
    BY <1>3 DEF AcceptInstall, stopVars, SocketTypeOK
  <2> QED
    BY <1>3, <2>1, NotifyAllWakes, SocketsAssumption
       DEF NoLostWakeup, AcceptInstall
<1>4. ASSUME NEW s \in Sockets, AcceptThread(s) PROVE NoLostWakeup'
  BY <1>3, <1>4 DEF AcceptThread, AcceptReturn, AcceptError, NoLostWakeup,
     sockVars, stopVars
<1>5. ASSUME NEW s \in Sockets, SenderPark(s) PROVE NoLostWakeup'
  BY <1>5 DEF SenderPark, NoLostWakeup, StopSequence, SenderTypeOK,
     sockVars, stopVars
<1>6. ASSUME NEW s \in Sockets, SenderTake(s) PROVE NoLostWakeup'
  <2>1. /\ UNCHANGED <<running, shut, client, rpc>>
        /\ \A t \in Sockets \ {s} : queue'[t] = queue[t] /\ spc'[t] = spc[t]
        /\ spc'[s] = "write"
    BY <1>6 DEF SenderTake, stopVars, SocketTypeOK, SenderTypeOK
  <2> QED
    BY <2>1 DEF NoLostWakeup
<1>7. ASSUME NEW s \in Sockets, SenderFailed(s) PROVE NoLostWakeup'
  <2>1. /\ UNCHANGED <<running, shut, queue, rpc>>
        /\ \A t \in Sockets : client'[t] = client[t] \/ client'[t] = NoFd
        /\ \A t \in Sockets : spc'[t] = "parked" => spc[t] = "parked"
    BY <1>7 DEF SenderFailed, Unregistered, stopVars, SocketTypeOK,
       SenderTypeOK
  <2> QED
    BY <2>1, SocketsAssumption DEF NoLostWakeup
<1>8. ASSUME NEW s \in Sockets,
             \/ SenderExit(s) \/ SenderWake(s) \/ WriteDone(s)
             \/ WriteResume(s) \/ WriteShort(s) \/ WritePipe(s)
             \/ WriteBadFd(s) \/ \E head \in BOOLEAN : WriteBlock(s, head)
      PROVE  NoLostWakeup'
  <2>1. /\ UNCHANGED <<running, shut, client, queue, rpc>>
        /\ \A t \in Sockets : spc'[t] = "parked" => spc[t] = "parked"
    BY <1>8 DEF SenderExit, SenderWake, WriteDone, WriteResume, WriteShort,
       WritePipe, WriteBadFd, WriteBlock, stopVars, sockVars, SenderTypeOK
  <2> QED
    BY <2>1 DEF NoLostWakeup
<1>9. CASE ReadThread \/ ReadData \/ ReaderWake
  BY <1>9 DEF ReadThread, readRest, ReaderExit, ReaderPark, ReaderWake,
     ReaderTake, ReaderCheck, ReadEnd, ReadBlock, ReadData, NoLostWakeup,
     StopSequence, sockVars, stopVars
<1>10. CASE StopClient
  <2>1. /\ UNCHANGED <<running, queue>> /\ shut' = shut \cup {Current}
        /\ ~running
    BY <1>10 DEF StopClient, StopSequence
  <2> QED
    BY <1>10, <2>1, NotifyAllWakes, CurrentSocket DEF NoLostWakeup, StopClient
<1>11. CASE StopBegin \/ StopRest
  BY <1>10, <1>11 DEF StopRest, StopBegin, StopListener, StopJoinAccept,
     StopJoinSend, StopJoinReader, NoLostWakeup, sockVars
<1> QED
  BY <1>1, <1>2, <1>4, <1>5, <1>6, <1>7, <1>8, <1>9, <1>11
     DEF Next, Threads, Ended, SendThread

-----------------------------------------------------------------------------
(* Descriptors.                                                            *)

(* Two sockets never have the same open descriptor.                        *)
LEMMA OwnersDiffer ==
  ASSUME TypeOK, ConnsOwned, NEW s \in Sockets, NEW t \in Sockets, s # t
  PROVE  /\ client[s] # NoFd => client[s] # client[t]
         /\ client[s] # NoFd /\ apc[t] = "install" => client[s] # afd[t]
         /\ apc[s] = "install" /\ apc[t] = "install" => afd[s] # afd[t]
  BY DEF ConnsOwned

(* Closing the client of s leaves every other client, and every descriptor *)
(* still to be installed, as it was.                                       *)
LEMMA ClosingOwned ==
  ASSUME TypeOK, ConnsOwned, NEW s \in Sockets
  PROVE  /\ \A t \in Sockets \ {s} : client[t] # NoFd =>
              ClosedTab(s)[client[t]] = fdtab[client[t]]
         /\ \A t \in Sockets : apc[t] = "install" =>
              ClosedTab(s)[afd[t]] = fdtab[afd[t]]
<1>1. ASSUME NEW t \in Sockets \ {s}, client[t] # NoFd
      PROVE  ClosedTab(s)[client[t]] = fdtab[client[t]]
  BY <1>1, OwnersDiffer DEF ClosedTab, TypeOK, SocketTypeOK, KernelTypeOK
<1>2. ASSUME NEW t \in Sockets, apc[t] = "install"
      PROVE  ClosedTab(s)[afd[t]] = fdtab[afd[t]]
  <2>1. client[s] # NoFd => client[s] # afd[t]
    BY <1>2, OwnersDiffer DEF ConnsOwned
  <2> QED
    BY <2>1 DEF ClosedTab, TypeOK, SocketTypeOK, KernelTypeOK
<1> QED
  BY <1>1, <1>2

(* Every step keeps clients on connections of their own socket.            *)
LEMMA ConnsOwnedStep ==
  ASSUME TypeOK, ConnsOwned, [Next]_vars
  PROVE  ConnsOwned'
<1> USE DEF TypeOK, Free
<1>1. CASE UNCHANGED <<client, fdtab, owner, backlog, apc, afd>>
  BY <1>1 DEF ConnsOwned
<1>2. ASSUME NEW s \in Sockets, NEW c \in Conns, Connect(s, c)
      PROVE  ConnsOwned'
  <2>1. /\ \A d \in Conns : owner[d] \in Sockets => owner'[d] = owner[d]
        /\ owner'[c] = s
        /\ UNCHANGED <<client, fdtab, apc, afd>>
    BY <1>2, SocketsAssumption DEF Connect, KernelTypeOK, sockVars, accVars
  <2>2. ASSUME NEW t \in Sockets, client[t] # NoFd
        PROVE  owner'[fdtab[client[t]]] = t
    BY <2>1, <2>2 DEF ConnsOwned, KernelTypeOK, SocketTypeOK
  <2>3. ASSUME NEW t \in Sockets, apc[t] = "install"
        PROVE  owner'[fdtab[afd[t]]] = t
    BY <2>1, <2>3 DEF ConnsOwned, KernelTypeOK, AcceptTypeOK
  <2>4. ASSUME NEW t \in Sockets, NEW i \in DOMAIN backlog'[t]
        PROVE  owner'[backlog'[t][i]] = t
    <3>1. CASE t # s
      BY <1>2, <2>1, <3>1, <2>4 DEF Connect, ConnsOwned, KernelTypeOK
    <3>2. CASE t = s
      <4>1. backlog'[t] = Append(backlog[t], c) /\ backlog[t] \in Seq(Conns)
        BY <1>2, <3>2 DEF Connect, KernelTypeOK
      <4>2. CASE i \in DOMAIN backlog[t]
        BY <2>1, <4>1, <4>2, AppendProperties DEF ConnsOwned
      <4>3. CASE i = Len(backlog[t]) + 1
        BY <2>1, <3>2, <4>1, <4>3, AppendProperties
      <4> QED
        BY <4>1, <4>2, <4>3, <2>4, AppendProperties
    <3> QED
      BY <3>1, <3>2
  <2> QED
    BY <2>1, <2>2, <2>3, <2>4 DEF ConnsOwned
<1>3. ASSUME NEW s \in Sockets, NEW f \in Fds, AcceptReturn(s, f)
      PROVE  ConnsOwned'
  <2> DEFINE c == Head(backlog[s])
  <2>1. /\ c \in Conns /\ owner[c] = s
        /\ \A i \in DOMAIN Tail(backlog[s]) : owner[Tail(backlog[s])[i]] = s
    BY <1>3 DEF AcceptReturn, ConnsOwned, KernelTypeOK
  <2>2. /\ fdtab' = [fdtab EXCEPT ![f] = c] /\ fdtab[f] = NoConn
        /\ apc[s] = "accept" /\ apc' = [apc EXCEPT ![s] = "install"]
        /\ afd' = [afd EXCEPT ![s] = f]
        /\ backlog' = [backlog EXCEPT ![s] = Tail(backlog[s])]
        /\ UNCHANGED <<owner, client>>
    BY <1>3 DEF AcceptReturn, LowestFree, sockVars
  <2> HIDE DEF c
  <2>3. ASSUME NEW t \in Sockets, client[t] # NoFd
        PROVE  client[t] # f /\ fdtab'[client[t]] = fdtab[client[t]]
    BY <2>2, <2>3 DEF ConnsOwned, KernelTypeOK, SocketTypeOK
  <2>4. ASSUME NEW t \in Sockets, t # s, apc[t] = "install"
        PROVE  fdtab'[afd[t]] = fdtab[afd[t]]
    BY <2>2, <2>4 DEF ConnsOwned, KernelTypeOK, AcceptTypeOK
  <2>5. c # NoConn /\ f # NoFd
    BY <2>1, ConnsAssumption, FdsAssumption DEF NoFd
  <2>6. ASSUME NEW t \in Sockets, client'[t] # NoFd
        PROVE  fdtab'[client'[t]] # NoConn /\ owner'[fdtab'[client'[t]]] = t
    BY <2>2, <2>3, <2>6 DEF ConnsOwned
  <2>7. ASSUME NEW t \in Sockets, apc'[t] = "install"
        PROVE  /\ fdtab'[afd'[t]] # NoConn /\ owner'[fdtab'[afd'[t]]] = t
               /\ client'[t] # afd'[t]
    <3>1. CASE t = s
      BY <2>1, <2>2, <2>3, <2>5, <3>1 DEF KernelTypeOK, AcceptTypeOK
    <3>2. CASE t # s
      BY <2>2, <2>4, <2>7, <3>2 DEF ConnsOwned, AcceptTypeOK
    <3> QED
      BY <3>1, <3>2
  <2>8. ASSUME NEW t \in Sockets, NEW i \in DOMAIN backlog'[t]
        PROVE  owner'[backlog'[t][i]] = t
    BY <2>1, <2>2, <2>8 DEF ConnsOwned, KernelTypeOK
  <2> QED
    BY <2>6, <2>7, <2>8 DEF ConnsOwned
<1>4. ASSUME NEW s \in Sockets, AcceptError(s) PROVE ConnsOwned'
  BY <1>4 DEF AcceptError, ConnsOwned, kernVars, sockVars, AcceptTypeOK
<1>5. ASSUME NEW s \in Sockets, AcceptInstall(s) PROVE ConnsOwned'
  <2>1. /\ fdtab' = ClosedTab(s) /\ client' = [client EXCEPT ![s] = afd[s]]
        /\ apc[s] = "install" /\ UNCHANGED <<owner, backlog>>
        /\ afd' = [afd EXCEPT ![s] = NoFd] /\ apc'[s] # "install"
        /\ \A t \in Sockets \ {s} : apc'[t] = apc[t]
    BY <1>5 DEF AcceptInstall, AcceptTypeOK
  <2>2. /\ \A t \in Sockets \ {s} : client'[t] = client[t] /\ afd'[t] = afd[t]
        /\ client'[s] = afd[s]
    BY <2>1 DEF SocketTypeOK, AcceptTypeOK
  <2>3. ASSUME NEW t \in Sockets, client'[t] # NoFd
        PROVE  fdtab'[client'[t]] # NoConn /\ owner'[fdtab'[client'[t]]] = t
    <3>1. CASE t = s
      BY <2>1, <2>2, <3>1, ClosingOwned DEF ConnsOwned
    <3>2. CASE t # s
      BY <2>1, <2>2, <2>3, <3>2, ClosingOwned DEF ConnsOwned
    <3> QED
      BY <3>1, <3>2
  <2>4. ASSUME NEW t \in Sockets, apc'[t] = "install"
        PROVE  /\ fdtab'[afd'[t]] # NoConn /\ owner'[fdtab'[afd'[t]]] = t
               /\ client'[t] # afd'[t]
    <3>1. t # s /\ apc[t] = "install"
      BY <2>1, <2>4
    <3> QED
      BY <2>1, <2>2, <3>1, ClosingOwned DEF ConnsOwned
  <2> QED
    BY <2>1, <2>3, <2>4 DEF ConnsOwned
<1>6. ASSUME NEW s \in Sockets, fdtab' = ClosedTab(s),
             client' = Unregistered(s), UNCHANGED <<owner, apc, afd>>,
             \A t \in Sockets : backlog'[t] \in {backlog[t], <<>>}
      PROVE  ConnsOwned'
  <2>1. /\ client'[s] = NoFd
        /\ \A t \in Sockets \ {s} : client'[t] = client[t]
    BY <1>6 DEF Unregistered, SocketTypeOK
  <2>2. ASSUME NEW t \in Sockets, client'[t] # NoFd
        PROVE  fdtab'[client'[t]] # NoConn /\ owner'[fdtab'[client'[t]]] = t
    BY <1>6, <2>1, <2>2, ClosingOwned DEF ConnsOwned
  <2>3. ASSUME NEW t \in Sockets, apc'[t] = "install"
        PROVE  /\ fdtab'[afd'[t]] # NoConn /\ owner'[fdtab'[afd'[t]]] = t
               /\ client'[t] # afd'[t]
    <3>1. afd[t] # NoFd
      BY <1>6, <2>3 DEF AcceptTypeOK
    <3> QED
      BY <1>6, <2>1, <2>3, <3>1, ClosingOwned DEF ConnsOwned
  <2> QED
    BY <1>6, <2>2, <2>3 DEF ConnsOwned
<1>7. ASSUME NEW s \in Sockets, SenderFailed(s) PROVE ConnsOwned'
  BY <1>1, <1>6, <1>7 DEF SenderFailed, accVars
<1>8. CASE StopClient
  BY <1>6, <1>8, CurrentSocket DEF StopClient, accVars
<1>9. CASE StopListener
  BY <1>9, CurrentSocket DEF StopListener, ConnsOwned, sockVars, accVars,
     KernelTypeOK
<1>10. ASSUME NEW c \in Conns, PeerClose(c) PROVE ConnsOwned'
  BY <1>1, <1>10 DEF PeerClose, sockVars, accVars
<1>11. ASSUME NEW s \in Sockets,
              \/ WriteDone(s) \/ WriteResume(s) \/ WritePipe(s)
              \/ \E head \in BOOLEAN : WriteBlock(s, head)
       PROVE  ConnsOwned'
  BY <1>1, <1>11 DEF WriteDone, WriteResume, WritePipe, WriteBlock, kernVars,
     sockVars, accVars
<1>12. ASSUME NEW s \in Sockets, Enqueue(s) \/ SenderTake(s)
       PROVE  ConnsOwned'
  BY <1>1, <1>12 DEF Enqueue, SenderTake, kernVars, accVars
<1>13. CASE UNCHANGED <<kernVars, alive, wire>> /\ UNCHANGED sockVars
            /\ UNCHANGED accVars
  BY <1>1, <1>13 DEF kernVars, sockVars, accVars
<1> QED
  BY <1>2, <1>3, <1>4, <1>5, <1>7, <1>8, <1>9, <1>10, <1>11, <1>12, <1>13,
     KernelWriters, SocketWriters, AcceptWriters

(* No descriptor leaks: what is open is registered or about to be.         *)
LEMMA NoFdLeakStep ==
  ASSUME TypeOK, ConnsOwned, NoFdLeak, [Next]_vars
  PROVE  NoFdLeak'
<1> USE DEF TypeOK, Free
<1> SUFFICES ASSUME NEW f \in Fds, fdtab'[f] # NoConn
             PROVE  \E t \in Sockets : \/ client'[t] = f
                                       \/ apc'[t] = "install" /\ afd'[t] = f
  BY DEF NoFdLeak
<1> DEFINE Goal == \E t \in Sockets : \/ client'[t] = f
                                      \/ apc'[t] = "install" /\ afd'[t] = f
<1>1. CASE UNCHANGED <<client, fdtab, apc, afd>>
  BY <1>1 DEF NoFdLeak
<1>2. ASSUME NEW s \in Sockets, NEW g \in Fds, AcceptReturn(s, g) PROVE Goal
  <2>1. /\ apc' = [apc EXCEPT ![s] = "install"] /\ apc[s] = "accept"
        /\ afd' = [afd EXCEPT ![s] = g] /\ UNCHANGED client
        /\ f # g => fdtab[f] # NoConn
    BY <1>2 DEF AcceptReturn, sockVars, KernelTypeOK
  <2>2. CASE f = g
    BY <2>1, <2>2 DEF AcceptTypeOK
  <2>3. CASE f # g
    <3>9. fdtab[f] # NoConn
      BY <2>1, <2>3
    <3>1. PICK t \in Sockets :
            client[t] = f \/ (apc[t] = "install" /\ afd[t] = f)
      BY <3>9 DEF NoFdLeak
    <3> QED
      BY <2>1, <3>1 DEF AcceptTypeOK
  <2> QED
    BY <2>2, <2>3
<1>3. ASSUME NEW s \in Sockets, AcceptError(s) PROVE Goal
  BY <1>3 DEF AcceptError, NoFdLeak, kernVars, sockVars, AcceptTypeOK
<1>4. ASSUME NEW s \in Sockets, fdtab' = ClosedTab(s)
      PROVE  \E t \in Sockets : \/ t # s /\ client[t] = f
                                \/ apc[t] = "install" /\ afd[t] = f
  <2>1. fdtab[f] # NoConn /\ f # client[s]
    BY <1>4, Closing
  <2> QED
    BY <2>1 DEF NoFdLeak
<1>5. ASSUME NEW s \in Sockets, AcceptInstall(s) PROVE Goal
  BY <1>4, <1>5 DEF AcceptInstall, SocketTypeOK, AcceptTypeOK
<1>6. ASSUME NEW s \in Sockets, fdtab' = ClosedTab(s),
             client' = Unregistered(s), UNCHANGED <<apc, afd>>
      PROVE  Goal
  BY <1>4, <1>6 DEF Unregistered, SocketTypeOK
<1>7. ASSUME NEW s \in Sockets, SenderFailed(s) PROVE Goal
  BY <1>1, <1>6, <1>7 DEF SenderFailed, accVars
<1>8. CASE StopClient
  BY <1>6, <1>8, CurrentSocket DEF StopClient, accVars
<1>9. CASE StopListener \/ Peer
  BY <1>1, <1>9 DEF StopListener, Peer, Connect, PeerClose, sockVars, accVars
<1>10. ASSUME NEW s \in Sockets,
              \/ WriteDone(s) \/ WriteResume(s) \/ WritePipe(s)
              \/ \E head \in BOOLEAN : WriteBlock(s, head)
              \/ Enqueue(s) \/ SenderTake(s)
       PROVE  Goal
  BY <1>1, <1>10 DEF WriteDone, WriteResume, WritePipe, WriteBlock, Enqueue,
     SenderTake, kernVars, sockVars, accVars
<1>11. CASE UNCHANGED <<kernVars, alive, wire>> /\ UNCHANGED sockVars
            /\ UNCHANGED accVars
  BY <1>1, <1>11 DEF kernVars, sockVars, accVars
<1> QED
  BY <1>2, <1>3, <1>5, <1>7, <1>8, <1>9, <1>10, <1>11, KernelWriters,
     SocketWriters, AcceptWriters DEF Peer

-----------------------------------------------------------------------------
(* The order of packets on a connection.                                   *)

(* A write appends one chunk to one connection; the others stay.           *)
LEMMA SentAppends ==
  ASSUME TypeOK, NEW s \in Sockets, NEW c, Healthy(c),
         c \in Conns \cup {NoConn}, NEW p, Sent(s, c, p), NEW d \in Conns
  PROVE  /\ Len(wire[d]) \in Nat
         /\ \A i \in DOMAIN wire'[d] :
              \/ i \in DOMAIN wire[d] /\ wire'[d][i] = wire[d][i]
              \/ /\ i = Len(wire[d]) + 1
                 /\ wire'[d][i] = [from |-> s, part |-> p,
                                   packet |-> snd[s].packet]
<1> DEFINE u == [from |-> s, part |-> p, packet |-> snd[s].packet]
<1>1. wire[d] \in Seq(Chunk \cup {u}) /\ Len(wire[d]) \in Nat
  <2>1. wire[d] \in Seq(Chunk)
    BY DEF TypeOK, KernelTypeOK
  <2> QED
    BY <2>1
<1>2. wire'[d] = IF d = c THEN Append(wire[d], u) ELSE wire[d]
  BY DEF Sent, TypeOK, KernelTypeOK
<1> HIDE DEF u
<1>3. CASE d = c
  BY <1>1, <1>2, <1>3, AppendProperties DEF u
<1>4. CASE d # c
  BY <1>1, <1>2, <1>4
<1> QED
  BY <1>3, <1>4

(* A send thread in the middle of writing a packet.                        *)
Busy(s) == spc[s] \in {"write", "blocked"}

(* What a busy sender writes comes after everything its socket wrote       *)
(* before.                                                                 *)
LEMMA SentInOrder ==
  ASSUME TypeOK, WireBehindQueue, InOrder, NEW s \in Sockets, Busy(s),
         NEW c, Healthy(c), c \in Conns \cup {NoConn},
         NEW p, Sent(s, c, p), p = "head" => snd[s].part = "whole",
         p # "head" => p = snd[s].part
  PROVE  InOrder'
<1> SUFFICES ASSUME NEW d \in Conns, NEW i \in DOMAIN wire'[d],
                    NEW j \in DOMAIN wire'[d], i < j,
                    wire'[d][i].from = wire'[d][j].from
             PROVE  \/ wire'[d][i].packet < wire'[d][j].packet
                    \/ /\ wire'[d][i].packet = wire'[d][j].packet
                       /\ wire'[d][i].part = "head"
                       /\ wire'[d][j].part = "rest"
  BY DEF InOrder
<1>1. CASE j \in DOMAIN wire[d] /\ wire'[d][j] = wire[d][j]
  <2>1. i # Len(wire[d]) + 1
    <3>1. DOMAIN wire[d] = 1..Len(wire[d]) /\ Len(wire[d]) \in Nat
      BY DEF TypeOK, KernelTypeOK
    <3>2. j \in Int /\ j <= Len(wire[d])
      BY <1>1, <3>1
    <3> QED
      BY <3>1, <3>2
  <2>2. i \in DOMAIN wire[d] /\ wire'[d][i] = wire[d][i]
    BY <2>1, SentAppends
  <2> QED
    BY <1>1, <2>2 DEF InOrder
<1>2. CASE /\ j = Len(wire[d]) + 1
           /\ wire'[d][j] = [from |-> s, part |-> p, packet |-> snd[s].packet]
  <2>1. i \in DOMAIN wire[d] /\ wire'[d][i] = wire[d][i]
    BY <1>2, SentAppends DEF TypeOK, KernelTypeOK
  <2>2. \/ wire[d][i].packet < snd[s].packet
        \/ /\ wire[d][i].packet = snd[s].packet
           /\ wire[d][i].part = "head" /\ snd[s].part = "rest"
    BY <1>2, <2>1 DEF WireBehindQueue, Busy
  <2> QED
    BY <1>2, <2>1, <2>2
<1> QED
  BY <1>1, <1>2, SentAppends

(* Every step keeps the packets of a socket in order on a connection.      *)
LEMMA InOrderStep ==
  ASSUME TypeOK, WireBehindQueue, InOrder, [Next]_vars
  PROVE  InOrder'
<1>1. CASE UNCHANGED wire
  BY <1>1 DEF InOrder
<1>2. ASSUME NEW s \in Sockets, WriteDone(s) PROVE InOrder'
  <2>1. fdtab[snd[s].fd] \in Conns \cup {NoConn}
    BY <1>2 DEF WriteDone, TypeOK, KernelTypeOK, SenderTypeOK, Write
  <2>2. snd[s].part # "head"
    BY DEF TypeOK, SenderTypeOK, Write
  <2> QED
    BY <1>2, <2>1, <2>2, SentInOrder DEF WriteDone, Busy
<1>3. ASSUME NEW s \in Sockets, WriteResume(s) PROVE InOrder'
  <2>1. snd[s].conn \in Conns \cup {NoConn} /\ snd[s].part # "head"
    BY DEF TypeOK, SenderTypeOK, Write
  <2> QED
    BY <1>3, <2>1, SentInOrder DEF WriteResume, Busy
<1>4. ASSUME NEW s \in Sockets, NEW head \in BOOLEAN, WriteBlock(s, head)
      PROVE  InOrder'
  <2>1. fdtab[snd[s].fd] \in Conns \cup {NoConn}
    BY <1>4 DEF WriteBlock, TypeOK, KernelTypeOK, SenderTypeOK, Write
  <2> QED
    BY <1>1, <1>4, <2>1, SentInOrder DEF WriteBlock, Busy
<1>5. CASE \/ \E s \in Sockets, c \in Conns : Connect(s, c)
           \/ \E c \in Conns : PeerClose(c)
           \/ \E s \in Sockets, f \in Fds : AcceptReturn(s, f)
           \/ \E s \in Sockets : AcceptInstall(s) \/ SenderFailed(s)
                                 \/ WritePipe(s)
           \/ StopListener \/ StopClient
  BY <1>1, <1>5 DEF Connect, PeerClose, AcceptReturn, AcceptInstall,
     SenderFailed, WritePipe, StopListener, StopClient
<1> QED
  BY <1>1, <1>2, <1>3, <1>4, <1>5, KernelWriters

(* How far the packets of a socket have left its queue never goes back.    *)
Left(s) == accepted[s] - Len(queue[s])

(* The number of packets that left a queue never decreases, and the packet *)
(* that the sender takes is the next one.                                  *)
LEMMA LeftFacts ==
  ASSUME TypeOK, NewestKept, [Next]_vars, NEW t \in Sockets
  PROVE  /\ Left(t) \in Int /\ Left(t)' \in Int /\ Left(t) <= Left(t)'
         /\ SenderTake(t) =>
              Head(queue[t]) = Left(t) + 1 /\ Left(t)' = Left(t) + 1
<1>1. /\ accepted[t] \in Nat /\ queue[t] \in Seq(Nat) /\ Len(queue[t]) \in Nat
      /\ Len(queue[t]) <= MaxQueue[t] /\ MaxQueue[t] \in Nat \ {0}
  BY QueueAssumption DEF TypeOK, SocketTypeOK, NewestKept
<1>2. ASSUME queue'[t] = queue[t] /\ accepted'[t] = accepted[t]
      PROVE  Left(t) \in Int /\ Left(t)' \in Int /\ Left(t) <= Left(t)'
  BY <1>1, <1>2 DEF Left
<1>3. ASSUME SenderTake(t)
      PROVE  /\ Head(queue[t]) = Left(t) + 1 /\ Left(t)' = Left(t) + 1
             /\ Left(t) \in Int
  <2>1. /\ queue'[t] = Tail(queue[t]) /\ queue[t] # <<>>
        /\ accepted'[t] = accepted[t]
    BY <1>3 DEF SenderTake, TypeOK, SocketTypeOK
  <2>2. Len(queue[t]) > 0 /\ Len(Tail(queue[t])) = Len(queue[t]) - 1
    BY <1>1, <2>1
  <2>3. Head(queue[t]) = accepted[t] - Len(queue[t]) + 1
    BY <1>1, <2>1, <2>2 DEF NewestKept
  <2> QED
    BY <1>1, <2>1, <2>2, <2>3 DEF Left
<1>4. ASSUME Enqueue(t)
      PROVE  Left(t) \in Int /\ Left(t)' \in Int /\ Left(t) <= Left(t)'
  <2> DEFINE kept == Trim(queue[t], MaxQueue[t])
  <2>1. kept \in Seq(Nat) /\ Len(kept) \in Nat /\ Len(kept) <= Len(queue[t])
    BY <1>1, TrimFacts
  <2> HIDE DEF kept
  <2>2. queue'[t] = Append(kept, accepted[t] + 1)
        /\ accepted'[t] = accepted[t] + 1
    BY <1>4 DEF Enqueue, Push, kept, TypeOK, SocketTypeOK
  <2>3. Len(queue'[t]) = Len(kept) + 1
    BY <1>1, <2>1, <2>2
  <2> QED
    BY <1>1, <2>1, <2>2, <2>3 DEF Left
<1>5. ASSUME NEW s \in Sockets, s # t, Enqueue(s) \/ SenderTake(s)
      PROVE  queue'[t] = queue[t] /\ accepted'[t] = accepted[t]
  BY <1>5 DEF Enqueue, SenderTake, TypeOK, SocketTypeOK
<1>6. ASSUME NEW s \in Sockets, AcceptInstall(s) \/ SenderFailed(s)
      PROVE  queue'[t] = queue[t] /\ accepted'[t] = accepted[t]
  BY <1>6 DEF AcceptInstall, SenderFailed
<1>7. ASSUME StopClient \/ UNCHANGED sockVars
      PROVE  queue'[t] = queue[t] /\ accepted'[t] = accepted[t]
  BY <1>7 DEF StopClient, sockVars
<1>8. Left(t) \in Int /\ Left(t)' \in Int /\ Left(t) <= Left(t)'
  BY <1>2, <1>3, <1>4, <1>5, <1>6, <1>7, SocketWriters
<1> QED
  BY <1>3, <1>8

(* Every step keeps what is on the wire behind what left the queue.        *)
LEMMA WireBehindQueueStep ==
  ASSUME TypeOK, NewestKept, WireBehindQueue, [Next]_vars
  PROVE  WireBehindQueue'
<1> DEFINE Behind(t) ==
      /\ Busy(t) => snd[t].packet <= Left(t)
      /\ \A c \in Conns : \A i \in DOMAIN wire[c] : wire[c][i].from = t =>
           /\ wire[c][i].packet <= Left(t)
           /\ Busy(t) => \/ wire[c][i].packet < snd[t].packet
                         \/ /\ wire[c][i].packet = snd[t].packet
                            /\ wire[c][i].part = "head"
                            /\ snd[t].part = "rest"
<1> SUFFICES ASSUME NEW t \in Sockets PROVE Behind(t)'
  BY DEF WireBehindQueue, Busy, Left
<1>1. /\ Behind(t) /\ Left(t) \in Int /\ Left(t)' \in Int
      /\ Left(t) <= Left(t)' /\ snd[t].packet \in Nat
      /\ \A c \in Conns : \A i \in DOMAIN wire[c] : wire[c][i].packet \in Nat
  <2>1. Behind(t)
    BY DEF WireBehindQueue, Busy, Left
  <2>2. ASSUME NEW c \in Conns, NEW i \in DOMAIN wire[c]
        PROVE  wire[c][i].packet \in Nat
    <3>1. wire[c] \in Seq(Chunk)
      BY DEF TypeOK, KernelTypeOK
    <3>2. wire[c][i] \in Chunk
      BY <3>1
    <3> QED
      BY <3>2 DEF Chunk
  <2>3. snd[t].packet \in Nat
    BY DEF TypeOK, SenderTypeOK, Write
  <2> QED
    BY <2>1, <2>2, <2>3, LeftFacts
(* Steps that write nothing and in which t does not start a packet.        *)
<1>2. ASSUME UNCHANGED wire, Busy(t)' => Busy(t) /\ snd'[t] = snd[t]
      PROVE  Behind(t)'
  <2>1. Busy(t)' => snd'[t].packet <= Left(t)'
    BY <1>1, <1>2
  <2>2. ASSUME NEW c \in Conns, NEW i \in DOMAIN wire[c], wire[c][i].from = t
        PROVE  wire[c][i].packet <= Left(t)'
    BY <1>1, <2>2
  <2> QED
    BY <1>1, <1>2, <2>1, <2>2
<1>3. ASSUME NEW s \in Sockets, SenderTake(s) PROVE Behind(t)'
  <2>1. CASE s # t
    BY <1>2, <1>3, <2>1 DEF SenderTake, Busy, TypeOK, SenderTypeOK
  <2>2. CASE s = t
    <3>1. /\ Left(t)' = Left(t) + 1 /\ UNCHANGED wire
          /\ snd'[t].packet = Left(t) + 1
      BY <1>3, <2>2, LeftFacts DEF SenderTake, NoWrite, TypeOK, SenderTypeOK
    <3> HIDE DEF Left
    <3>2. ASSUME NEW c \in Conns, NEW i \in DOMAIN wire[c],
                 wire[c][i].from = t
          PROVE  /\ wire[c][i].packet <= Left(t)'
                 /\ wire[c][i].packet < snd'[t].packet
      BY <1>1, <3>1, <3>2
    <3> QED
      BY <1>1, <3>1, <3>2
  <2> QED
    BY <2>1, <2>2
(* A chunk written by s: nothing is left to write, or it was the head.     *)
<1>4. ASSUME NEW s \in Sockets, Busy(s), NEW d, Healthy(d),
             d \in Conns \cup {NoConn}, NEW p, Sent(s, d, p),
             s # t => Busy(t)' = Busy(t) /\ snd'[t] = snd[t],
             s = t => \/ ~Busy(t)'
                      \/ /\ snd'[t].packet = snd[t].packet
                         /\ snd'[t].part = "rest"
                         /\ snd[t].part = "whole" /\ p = "head"
      PROVE  Behind(t)'
  <2>1. Busy(t)' => snd'[t].packet <= Left(t)'
    <3>1. Busy(t)' => Busy(t) /\ snd'[t].packet = snd[t].packet
      BY <1>4
    <3> HIDE DEF Left
    <3> QED
      BY <1>1, <3>1
  <2>2. ASSUME NEW c \in Conns, NEW i \in DOMAIN wire'[c],
               wire'[c][i].from = t
        PROVE  /\ wire'[c][i].packet <= Left(t)'
               /\ Busy(t)' => \/ wire'[c][i].packet < snd'[t].packet
                              \/ /\ wire'[c][i].packet = snd'[t].packet
                                 /\ wire'[c][i].part = "head"
                                 /\ snd'[t].part = "rest"
    <3>1. CASE i \in DOMAIN wire[c] /\ wire'[c][i] = wire[c][i]
      <4>1. /\ wire[c][i].packet <= Left(t)
            /\ Busy(t) => \/ wire[c][i].packet < snd[t].packet
                          \/ /\ wire[c][i].packet = snd[t].packet
                             /\ wire[c][i].part = "head"
                             /\ snd[t].part = "rest"
        BY <1>1, <2>2, <3>1
      <4>2. wire[c][i].packet \in Nat
        BY <1>1, <3>1
      <4> QED
        BY <1>1, <1>4, <3>1, <4>1, <4>2
    <3>2. CASE wire'[c][i] = [from |-> s, part |-> p,
                              packet |-> snd[s].packet]
      <4>1. s = t
        BY <2>2, <3>2
      <4> QED
        BY <1>1, <1>4, <3>2, <4>1
    <3> QED
      BY <1>4, <3>1, <3>2, SentAppends
  <2> QED
    BY <2>1, <2>2
<1>5. ASSUME NEW s \in Sockets, WriteDone(s) PROVE Behind(t)'
  <2>1. fdtab[snd[s].fd] \in Conns \cup {NoConn}
    BY <1>5 DEF WriteDone, TypeOK, KernelTypeOK, SenderTypeOK, Write
  <2>2. /\ Busy(s) /\ (s = t => ~Busy(t)')
        /\ s # t => Busy(t)' = Busy(t) /\ snd'[t] = snd[t]
    BY <1>5 DEF WriteDone, Busy, TypeOK, SenderTypeOK
  <2> QED
    BY <1>4, <1>5, <2>1, <2>2 DEF WriteDone
<1>6. ASSUME NEW s \in Sockets, WriteResume(s) PROVE Behind(t)'
  <2>1. snd[s].conn \in Conns \cup {NoConn}
    BY DEF TypeOK, SenderTypeOK, Write
  <2>2. /\ Busy(s) /\ (s = t => ~Busy(t)')
        /\ s # t => Busy(t)' = Busy(t) /\ snd'[t] = snd[t]
    BY <1>6 DEF WriteResume, Busy, TypeOK, SenderTypeOK
  <2> QED
    BY <1>4, <1>6, <2>1, <2>2 DEF WriteResume
<1>7. ASSUME NEW s \in Sockets, NEW head \in BOOLEAN, WriteBlock(s, head)
      PROVE  Behind(t)'
  <2>1. fdtab[snd[s].fd] \in Conns \cup {NoConn}
    BY <1>7 DEF WriteBlock, TypeOK, KernelTypeOK, SenderTypeOK, Write
  <2>2. /\ Busy(s) /\ Busy(s)'
        /\ s # t => Busy(t)' = Busy(t) /\ snd'[t] = snd[t]
        /\ snd'[s].packet = snd[s].packet
        /\ snd'[s].part = IF head THEN "rest" ELSE snd[s].part
        /\ head => snd[s].part = "whole"
    BY <1>7 DEF WriteBlock, Busy, TypeOK, SenderTypeOK, Write
  <2>3. CASE head
    BY <1>4, <1>7, <2>1, <2>2, <2>3 DEF WriteBlock
  <2>4. CASE ~head
    <3>1. UNCHANGED wire
      BY <1>7, <2>4 DEF WriteBlock
    <3>2. CASE s # t
      BY <1>2, <2>2, <3>1, <3>2
    <3>3. CASE s = t
      <4>1. /\ Busy(t) /\ snd'[t].packet = snd[t].packet
            /\ snd'[t].part = snd[t].part
        BY <2>2, <2>4, <3>3
      <4>2. snd'[t].packet <= Left(t)'
        BY <1>1, <4>1
      <4>3. ASSUME NEW c \in Conns, NEW i \in DOMAIN wire[c],
                   wire[c][i].from = t
            PROVE  wire[c][i].packet <= Left(t)'
        BY <1>1, <4>3
      <4> QED
        BY <1>1, <3>1, <4>1, <4>2, <4>3
    <3> QED
      BY <3>2, <3>3
  <2> QED
    BY <2>3, <2>4
<1>8. ASSUME NEW s \in Sockets,
             \/ SenderExit(s) \/ SenderPark(s) \/ SenderWake(s)
             \/ WriteShort(s) \/ WritePipe(s) \/ WriteBadFd(s)
             \/ SenderFailed(s)
      PROVE  Behind(t)'
  BY <1>2, <1>8 DEF SenderExit, SenderPark, SenderWake, WriteShort,
     WritePipe, WriteBadFd, SenderFailed, Busy, TypeOK, SenderTypeOK
<1>9. ASSUME NEW s \in Sockets, Enqueue(s) \/ AcceptInstall(s)
      PROVE  Behind(t)'
  BY <1>2, <1>9, NotifyTyped DEF Enqueue, AcceptInstall, Busy
<1>10. CASE StopClient
  BY <1>2, <1>10, NotifyTyped, CurrentSocket DEF StopClient, Busy
<1>11. CASE UNCHANGED <<spc, snd>> /\ UNCHANGED wire
  BY <1>2, <1>11 DEF Busy
<1>12. CASE \/ \E s \in Sockets, c \in Conns : Connect(s, c)
            \/ \E c \in Conns : PeerClose(c)
            \/ \E s \in Sockets, f \in Fds : AcceptReturn(s, f)
            \/ StopListener
  BY <1>11, <1>12 DEF Connect, PeerClose, AcceptReturn, StopListener
<1> QED
  BY <1>3, <1>5, <1>6, <1>7, <1>8, <1>9, <1>10, <1>11, <1>12,
     KernelWriters, SenderWriters

-----------------------------------------------------------------------------
(* The theorems.                                                           *)

(* The inductive invariant: types and ownership need each other, types     *)
(* need the bound of NewestKept, wakeups the order of stop(), the order on *)
(* a connection that of the queue.                                         *)
IInv == /\ TypeOK /\ ConnsOwned /\ NewestKept /\ StopSequence /\ NoLostWakeup
        /\ NoFdLeak /\ WireBehindQueue /\ InOrder

(* The invariant holds initially.                                          *)
LEMMA Initially == Init => IInv
<1> SUFFICES ASSUME Init PROVE IInv
  OBVIOUS
<1> USE DEF Init
<1>1. TypeOK
  <2>1. KernelTypeOK /\ SocketTypeOK /\ AcceptTypeOK
    BY DEF KernelTypeOK, SocketTypeOK, AcceptTypeOK, NoFd
  <2>2. SenderTypeOK /\ ReaderTypeOK
    BY DEF SenderTypeOK, ReaderTypeOK, Write, NoWrite, NoRead
  <2>3. StopTypeOK
    BY SocketsAssumption DEF StopTypeOK
  <2> QED
    BY <2>1, <2>2, <2>3 DEF TypeOK
<1>2. ConnsOwned
  BY DEF ConnsOwned
<1>3. NewestKept
  BY QueueAssumption DEF NewestKept
<1>4. StopSequence /\ NoLostWakeup
  BY DEF StopSequence, NoLostWakeup
<1>5. NoFdLeak
  BY DEF NoFdLeak, Free
<1>6. WireBehindQueue /\ InOrder
  BY DEF WireBehindQueue, InOrder
<1> QED
  BY <1>1, <1>2, <1>3, <1>4, <1>5, <1>6 DEF IInv

(* Every step keeps the invariant.                                         *)
LEMMA Preserved == IInv /\ [Next]_vars => IInv'
<1> SUFFICES ASSUME IInv, [Next]_vars PROVE IInv'
  OBVIOUS
<1>1. /\ TypeOK /\ ConnsOwned /\ NewestKept /\ StopSequence /\ NoLostWakeup
      /\ NoFdLeak /\ WireBehindQueue /\ InOrder
  BY DEF IInv
<1>2. TypeOK'
  BY <1>1, KernelTyped, SocketTyped, AcceptTyped, SenderTyped, ReaderTyped,
     StopTyped DEF TypeOK
<1>3. ConnsOwned' /\ NewestKept' /\ StopSequence' /\ NoLostWakeup'
  BY <1>1, ConnsOwnedStep, NewestKeptStep, StopSequenceStep,
     NoLostWakeupStep
<1>4. NoFdLeak' /\ WireBehindQueue' /\ InOrder'
  BY <1>1, NoFdLeakStep, WireBehindQueueStep, InOrderStep
<1> QED
  BY <1>2, <1>3, <1>4 DEF IInv

(* The invariant holds in every state of every behaviour.                  *)
THEOREM Invariance == Spec => []IInv
  BY Initially, Preserved, PTL DEF Spec

(* Every variable has its type.                                            *)
THEOREM TypeCorrect == Spec => []TypeOK
<1>1. IInv => TypeOK
  BY DEF IInv
<1> QED
  BY <1>1, Invariance, PTL

(* No thread of the bridge sleeps through the event it waits for, although *)
(* two threads share a condition variable and enqueue() wakes only one.    *)
THEOREM WakeupsNotLost == Spec => []NoLostWakeup
<1>1. IInv => NoLostWakeup
  BY DEF IInv
<1> QED
  BY <1>1, Invariance, PTL

(* A transmit queue holds the newest packets, in order, without a hole,    *)
(* within its bound.                                                       *)
THEOREM QueueKeepsNewest == Spec => []NewestKept
<1>1. IInv => NewestKept
  BY DEF IInv
<1> QED
  BY <1>1, Invariance, PTL

(* The registered client of a socket is always an open descriptor of a     *)
(* connection made to that socket.                                         *)
THEOREM ClientsOwned == Spec => []ConnsOwned
<1>1. IInv => ConnsOwned
  BY DEF IInv
<1> QED
  BY <1>1, Invariance, PTL

(* No client descriptor leaks.                                             *)
THEOREM DescriptorsClosed == Spec => []NoFdLeak
<1>1. IInv => NoFdLeak
  BY DEF IInv
<1> QED
  BY <1>1, Invariance, PTL

-----------------------------------------------------------------------------
(* The counters of dropped packets.                                        *)

Counted == Accounted /\ \A k \in Counters : IsFiniteSet(LostOf(k))

(* What is in LostOf, before and after a step.                             *)
LEMMA LostIs ==
  ASSUME NEW k
  PROVE  \A p : p \in LostOf(k) <=>
           \E s \in Sockets : \E n \in 1..Lost(s) :
             CounterOf[s] = k /\ p = <<s, n>>
  BY DEF LostOf

(* The same after a step.                                                  *)
LEMMA LostAfter ==
  ASSUME NEW k
  PROVE  \A p : p \in LostOf(k)' <=>
           \E s \in Sockets : \E n \in 1..Lost(s)' :
             CounterOf[s] = k /\ p = <<s, n>>
  BY DEF LostOf

(* Where no number changes the counters stay right.                        *)
LEMMA NothingLost ==
  ASSUME Counted, dropped' = dropped, \A s \in Sockets : Lost(s)' = Lost(s)
  PROVE  Counted'
<1>1. ASSUME NEW k PROVE LostOf(k)' = LostOf(k)
  <2>1. ASSUME NEW p PROVE p \in LostOf(k)' <=> p \in LostOf(k)
    BY LostIs, LostAfter
  <2> QED
    BY <2>1
<1> QED
  BY <1>1 DEF Counted, Accounted

(* enqueue() counts what it pops, which is one packet or none.             *)
LEMMA EnqueueCounted ==
  ASSUME TypeOK, NewestKept, Counted, NEW s \in Sockets, Enqueue(s)
  PROVE  Counted'
<1> DEFINE q == queue[s]
           kept == Trim(q, MaxQueue[s])
           k == CounterOf[s]
<1>1. /\ q \in Seq(Nat) /\ MaxQueue[s] \in Nat \ {0} /\ Len(q) <= MaxQueue[s]
      /\ k \in Counters /\ dropped \in [Counters -> Nat]
      /\ accepted \in [Sockets -> Nat] /\ taken \in [Sockets -> Nat]
      /\ queue \in [Sockets -> Seq(Nat)]
  BY QueueAssumption DEF TypeOK, SocketTypeOK, NewestKept
<1>2. kept \in Seq(Nat) /\ Len(q) - Len(kept) \in {0, 1}
  BY <1>1, TrimFacts
<1>3. /\ accepted' = [accepted EXCEPT ![s] = @ + 1] /\ taken' = taken
      /\ queue' = [queue EXCEPT ![s] = Append(kept, accepted[s] + 1)]
      /\ dropped' = [dropped EXCEPT ![k] = @ + (Len(q) - Len(kept))]
  BY DEF Enqueue, Push, Popped
<1> HIDE DEF kept
<1>4. /\ Lost(s) \in Nat
      /\ Lost(s)' = Lost(s) + (Len(q) - Len(kept))
  <2>1. /\ Len(queue'[s]) = Len(kept) + 1 /\ accepted'[s] = accepted[s] + 1
        /\ taken'[s] = taken[s]
    BY <1>1, <1>2, <1>3
  <2>2. Len(kept) \in Nat /\ Len(q) \in Nat /\ Lost(s) >= 0
    BY <1>1, <1>2 DEF Counted, Accounted
  <2> QED
    BY <1>1, <2>1, <2>2 DEF Lost
<1>5. \A t \in Sockets : t # s => Lost(t)' = Lost(t)
  BY <1>1, <1>3 DEF Lost
<1>6. CASE Len(q) - Len(kept) = 0
  <2>1. dropped' = dropped
    BY <1>1, <1>3, <1>6
  <2>2. \A t \in Sockets : Lost(t)' = Lost(t)
    BY <1>4, <1>5, <1>6
  <2> QED
    BY <2>1, <2>2, NothingLost
<1>7. CASE Len(q) - Len(kept) = 1
  <2>1. Lost(s)' = Lost(s) + 1
    BY <1>4, <1>7
  <2>2. LostOf(k)' = LostOf(k) \cup {<<s, Lost(s) + 1>>}
    <3>1. 1..(Lost(s) + 1) = (1..Lost(s)) \cup {Lost(s) + 1}
      BY <1>4
    <3> QED
      BY <1>5, <2>1, <3>1, LostIs, LostAfter
  <2>3. <<s, Lost(s) + 1>> \notin LostOf(k)
    <3>1. Lost(s) + 1 \notin 1..Lost(s)
      BY <1>4
    <3> QED
      BY <3>1, LostIs
  <2>4. ASSUME NEW c, c # k PROVE LostOf(c)' = LostOf(c)
    BY <1>5, <2>4, LostIs, LostAfter
  <2>5. /\ IsFiniteSet(LostOf(k)')
        /\ Cardinality(LostOf(k)') = Cardinality(LostOf(k)) + 1
    <3>1. IsFiniteSet(LostOf(k))
      BY <1>1 DEF Counted
    <3>2. LET more == LostOf(k) \cup {<<s, Lost(s) + 1>>}
          IN IsFiniteSet(more) /\ Cardinality(more) = Cardinality(LostOf(k)) + 1
      BY <2>3, <3>1, FS_AddElement
    <3> QED
      BY <2>2, <3>2
  <2>6. /\ dropped'[k] = dropped[k] + 1
        /\ \A c \in Counters : c # k => dropped'[c] = dropped[c]
    BY <1>1, <1>3, <1>7
  <2>7. \A t \in Sockets : Lost(t)' >= 0
    BY <1>4, <1>5, <2>1 DEF Counted, Accounted
  <2> QED
    BY <1>1, <2>4, <2>5, <2>6, <2>7 DEF Counted, Accounted
<1> QED
  BY <1>2, <1>6, <1>7

(* A packet that its sender takes is not lost.                             *)
LEMMA TakeCounted ==
  ASSUME TypeOK, Counted, NEW s \in Sockets, SenderTake(s)
  PROVE  Counted'
<1>1. /\ queue \in [Sockets -> Seq(Nat)] /\ taken \in [Sockets -> Nat]
      /\ accepted \in [Sockets -> Nat]
  BY DEF TypeOK, SocketTypeOK
<1>2. /\ queue[s] # <<>> /\ queue' = [queue EXCEPT ![s] = Tail(@)]
      /\ taken' = [taken EXCEPT ![s] = @ + 1]
      /\ accepted' = accepted /\ dropped' = dropped
  BY DEF SenderTake
<1>3. ASSUME NEW t \in Sockets PROVE Lost(t)' = Lost(t)
  <2>1. CASE t = s
    <3>1. /\ Len(queue'[s]) = Len(queue[s]) - 1 /\ taken'[s] = taken[s] + 1
          /\ Len(queue[s]) \in Nat
      BY <1>1, <1>2
    <3> QED
      BY <1>1, <1>2, <2>1, <3>1 DEF Lost
  <2>2. CASE t # s
    BY <1>1, <1>2, <2>2 DEF Lost
  <2> QED
    BY <2>1, <2>2
<1> QED
  BY <1>2, <1>3, NothingLost

(* Every step keeps the counters right.                                    *)
LEMMA CountedStep == TypeOK /\ NewestKept /\ Counted /\ [Next]_vars => Counted'
<1> SUFFICES ASSUME TypeOK, NewestKept, Counted, [Next]_vars PROVE Counted'
  OBVIOUS
<1>1. CASE \E s \in Sockets : Enqueue(s)
  BY <1>1, EnqueueCounted
<1>2. CASE \E s \in Sockets : SenderTake(s)
  BY <1>2, TakeCounted
<1>3. CASE UNCHANGED <<queue, dropped, accepted, taken>>
  BY <1>3, NothingLost DEF Lost
<1>4. \/ \E s \in Sockets : Enqueue(s) \/ SenderTake(s)
      \/ UNCHANGED <<queue, dropped, accepted, taken>>
  BY SocketWriters DEF sockVars, AcceptInstall, SenderFailed, StopClient
<1> QED
  BY <1>1, <1>2, <1>3, <1>4

(* dropped_video and dropped_audio count every packet that was accepted    *)
(* and neither queued nor handed to a sender, and none else, although      *)
(* sockets share them.                                                     *)
THEOREM DropsCounted == Spec => []Accounted
<1>1. Init => Counted
  <2> SUFFICES ASSUME Init PROVE Counted
    OBVIOUS
  <2>1. \A s \in Sockets : Lost(s) = 0
    BY DEF Init, Lost
  <2>2. ASSUME NEW k PROVE LostOf(k) = {}
    BY <2>1, LostIs
  <2>3. \A k \in Counters : dropped[k] = Cardinality(LostOf(k))
    BY <2>2, FS_EmptySet DEF Init
  <2>4. \A k \in Counters : IsFiniteSet(LostOf(k))
    BY <2>2, FS_EmptySet
  <2> QED
    BY <2>1, <2>3, <2>4 DEF Counted, Accounted
<1>2. IInv => TypeOK /\ NewestKept
  BY DEF IInv
<1>3. Counted => Accounted
  BY DEF Counted
<1> QED
  BY <1>1, <1>2, <1>3, CountedStep, Invariance, PTL DEF Spec

(* Packets of a socket reach any one connection in the order in which they *)
(* were queued, across replaced clients and reused descriptors.            *)
THEOREM PacketsInOrder == Spec => []InOrder
<1>1. IInv => InOrder
  BY DEF IInv
<1> QED
  BY <1>1, Invariance, PTL

-----------------------------------------------------------------------------
(* Every socket of IpcBridge implements DropOldest: the initial states map *)
(* to its initial state, and every step to one of its steps or to none.    *)

Held(s) == InHand(s) \cup InQueue(s)

(* The rest of a packet is written only after its head.                    *)
HeadBegun ==
    \A s \in Sockets :
      Busy(s) /\ snd[s].part = "rest" => snd[s].packet \in Begun(s)

-----------------------------------------------------------------------------
(* What each part of the mapping depends on.                               *)

(* A sequence of consecutive numbers that ends in n holds an interval.     *)
LEMMA Consecutive ==
  ASSUME NEW q \in Seq(Nat), NEW n \in Nat,
         \A i \in 1..Len(q) : q[i] = n - Len(q) + i
  PROVE  {q[i] : i \in DOMAIN q} = (n - Len(q) + 1) .. n
<1>1. Len(q) \in Nat /\ DOMAIN q = 1..Len(q)
  OBVIOUS
<1>2. ASSUME NEW p \in (n - Len(q) + 1) .. n
      PROVE  \E i \in DOMAIN q : q[i] = p
  <2>1. p - (n - Len(q)) \in 1..Len(q)
    BY <1>1
  <2>2. q[p - (n - Len(q))] = p
    BY <1>1, <2>1
  <2> QED
    BY <1>1, <2>1, <2>2
<1>3. ASSUME NEW i \in DOMAIN q
      PROVE  q[i] \in (n - Len(q) + 1) .. n
  BY <1>1
<1> QED
  BY <1>2, <1>3

(* A queue holds an interval of packet numbers.                            *)
LEMMA QueueInterval ==
  ASSUME TypeOK, NewestKept, NEW t \in Sockets
  PROVE  /\ Left(t) \in Int /\ accepted[t] \in Nat /\ Left(t) <= accepted[t]
         /\ InQueue(t) = (Left(t) + 1) .. accepted[t]
<1>1. /\ queue[t] \in Seq(Nat) /\ accepted[t] \in Nat /\ Len(queue[t]) \in Nat
      /\ \A i \in 1..Len(queue[t]) :
           queue[t][i] = accepted[t] - Len(queue[t]) + i
  BY DEF TypeOK, SocketTypeOK, NewestKept
<1>2. InQueue(t) = (accepted[t] - Len(queue[t]) + 1) .. accepted[t]
  BY <1>1, Consecutive DEF InQueue
<1> QED
  BY <1>1, <1>2 DEF Left

(* So does a queue after a step.                                           *)
LEMMA QueueIntervalAfter ==
  ASSUME TypeOK', NewestKept', NEW t \in Sockets
  PROVE  /\ Left(t)' \in Int /\ accepted'[t] \in Nat
         /\ InQueue(t)' = (Left(t)' + 1) .. accepted'[t]
<1>1. /\ queue'[t] \in Seq(Nat) /\ accepted'[t] \in Nat
      /\ Len(queue'[t]) \in Nat
      /\ \A i \in 1..Len(queue'[t]) :
           queue'[t][i] = accepted'[t] - Len(queue'[t]) + i
  BY DEF TypeOK, SocketTypeOK, NewestKept
<1>2. InQueue(t)' = (accepted'[t] - Len(queue'[t]) + 1) .. accepted'[t]
  BY <1>1, Consecutive DEF InQueue
<1> QED
  BY <1>1, <1>2 DEF Left

(* A packet has been begun when a chunk of it was written.                 *)
LEMMA BegunMeans ==
  ASSUME NEW t, NEW p
  PROVE  p \in Begun(t) <=> \E c \in Conns : \E i \in DOMAIN wire[c] :
                              wire[c][i].from = t /\ wire[c][i].packet = p
  BY DEF Begun

(* A write begins the packet of its sender, and no other.                  *)
LEMMA SentBegins ==
  ASSUME TypeOK, NEW s \in Sockets, NEW c, Healthy(c),
         c \in Conns \cup {NoConn}, NEW p, Sent(s, c, p), NEW t \in Sockets
  PROVE  Begun(t)' = IF s = t THEN Begun(t) \cup {snd[s].packet} ELSE Begun(t)
<1> DEFINE u == [from |-> s, part |-> p, packet |-> snd[s].packet]
<1>1. \A d \in Conns : wire[d] \in Seq(Chunk \cup {u})
  BY DEF TypeOK, KernelTypeOK
<1>2. /\ c \in Conns /\ wire'[c] = Append(wire[c], u)
      /\ \A d \in Conns : d # c => wire'[d] = wire[d]
  BY DEF Healthy, Sent, TypeOK, KernelTypeOK
<1>3. \A d \in Conns : /\ DOMAIN wire[d] \subseteq DOMAIN wire'[d]
                       /\ \A i \in DOMAIN wire[d] : wire'[d][i] = wire[d][i]
  <2> TAKE d \in Conns
  <2> QED
    BY <1>1, <1>2, AppendProperties
<1>4. Len(wire[c]) + 1 \in DOMAIN wire'[c] /\ wire'[c][Len(wire[c]) + 1] = u
  <2> HIDE DEF u
  <2> QED
    BY <1>1, <1>2, AppendProperties
<1>5. ASSUME NEW q, q \in Begun(t)
      PROVE  q \in Begun(t)'
  BY <1>3, <1>5 DEF Begun
<1>6. s = t => snd[s].packet \in Begun(t)'
  BY <1>2, <1>4 DEF Begun
<1>7. ASSUME NEW q, q \in Begun(t)'
      PROVE  q \in Begun(t) \/ (s = t /\ q = snd[s].packet)
  <2>1. PICK d \in Conns : \E i \in DOMAIN wire'[d] :
               wire'[d][i].from = t /\ wire'[d][i].packet = q
    BY <1>7 DEF Begun
  <2>2. PICK i \in DOMAIN wire'[d] :
               wire'[d][i].from = t /\ wire'[d][i].packet = q
    BY <2>1
  <2>3. \/ i \in DOMAIN wire[d] /\ wire'[d][i] = wire[d][i]
        \/ wire'[d][i] = u
    BY SentAppends
  <2> QED
    BY <2>2, <2>3 DEF Begun
<1> QED
  BY <1>5, <1>6, <1>7

(* A notify call wakes sleeping threads only: no sender in the middle of a *)
(* packet is disturbed.                                                    *)
LEMMA NotifyKeepsBusy ==
  ASSUME TypeOK, NEW s \in Sockets, NotifyOne(s) \/ NotifyAll(s),
         NEW t \in Sockets
  PROVE  spc'[t] = spc[t] \/ (~Busy(t) /\ ~Busy(t)')
<1>1. PICK W \in SUBSET Waiters(s) : Wake(s, W)
  BY DEF NotifyOne, NotifyAll
<1>2. spc' = IF "sender" \in W THEN [spc EXCEPT ![s] = "loop"] ELSE spc
  BY <1>1 DEF Wake
<1>3. "sender" \in W => spc[s] = "parked"
  BY <1>1 DEF Waiters
<1> QED
  BY <1>2, <1>3 DEF Busy, TypeOK, SenderTypeOK

-----------------------------------------------------------------------------
(* The steps of a sender, seen from the channel.                           *)

(* Which steps change what the channel of socket t sees.                   *)
LEMMA ChannelWriters ==
  ASSUME TypeOK, [Next]_vars, NEW t \in Sockets
  PROVE  \/ /\ UNCHANGED <<accepted[t], InQueue(t), InHand(t), Begun(t)>>
            /\ Busy(t)' => /\ Busy(t) /\ snd'[t].part = snd[t].part
                           /\ snd'[t].packet = snd[t].packet
         \/ Enqueue(t) \/ SenderTake(t) \/ WriteDone(t) \/ WriteResume(t)
         \/ WriteBlock(t, TRUE) \/ WriteBadFd(t)
<1> DEFINE Same == /\ UNCHANGED <<accepted[t], InQueue(t), InHand(t), Begun(t)>>
                   /\ Busy(t)' => /\ Busy(t) /\ snd'[t].part = snd[t].part
                                  /\ snd'[t].packet = snd[t].packet
<1>1. ASSUME /\ accepted'[t] = accepted[t] /\ queue'[t] = queue[t]
             /\ UNCHANGED wire
             /\ snd'[t].part = snd[t].part /\ snd'[t].packet = snd[t].packet
             /\ Busy(t)' <=> Busy(t)
      PROVE  Same
  BY <1>1 DEF InQueue, InHand, Begun, Busy
<1>2. ASSUME UNCHANGED <<spc, snd, wire, queue, accepted>> PROVE Same
  BY <1>1, <1>2 DEF Busy
<1>3. ASSUME NEW s \in Sockets,
             SenderExit(s) \/ SenderPark(s) \/ SenderWake(s) \/ WritePipe(s)
             \/ WriteShort(s)
      PROVE  Same
  BY <1>1, <1>3 DEF SenderExit, SenderPark, SenderWake, WriteShort, WritePipe,
     Busy, TypeOK, SenderTypeOK, sockVars
<1>4. ASSUME NEW s \in Sockets, SenderFailed(s) PROVE Same
  <2>1. /\ ~Busy(s) /\ ~Busy(s)' /\ UNCHANGED <<accepted, queue, wire>>
        /\ s # t => spc'[t] = spc[t] /\ snd'[t] = snd[t]
    BY <1>4 DEF SenderFailed, Busy, TypeOK, SenderTypeOK
  <2> QED
    BY <2>1 DEF InQueue, InHand, Begun, Busy
<1>5. ASSUME NEW s \in Sockets, AcceptInstall(s) PROVE Same
  <2>1. spc'[t] = spc[t] \/ (~Busy(t) /\ ~Busy(t)')
    BY <1>5, NotifyKeepsBusy DEF AcceptInstall
  <2> QED
    BY <1>1, <1>5, <2>1 DEF AcceptInstall, Busy
<1>6. ASSUME StopClient PROVE Same
  <2>1. spc'[t] = spc[t] \/ (~Busy(t) /\ ~Busy(t)')
    BY <1>6, NotifyKeepsBusy, CurrentSocket DEF StopClient
  <2> QED
    BY <1>1, <1>6, <2>1 DEF StopClient, Busy
<1>7. ASSUME NEW s \in Sockets, s # t, Enqueue(s) PROVE Same
  <2>1. spc'[t] = spc[t] \/ (~Busy(t) /\ ~Busy(t)')
    BY <1>7, NotifyKeepsBusy DEF Enqueue
  <2> QED
    BY <1>1, <1>7, <2>1 DEF Enqueue, Busy, TypeOK, SocketTypeOK
<1>8. ASSUME NEW s \in Sockets, s # t, SenderTake(s) \/ WriteBadFd(s)
      PROVE  Same
  BY <1>1, <1>8 DEF SenderTake, WriteBadFd, Busy, TypeOK, SenderTypeOK,
     SocketTypeOK, sockVars
<1>9. ASSUME NEW s \in Sockets, NEW head \in BOOLEAN,
             \/ s # t /\ (WriteDone(s) \/ WriteResume(s))
             \/ (s # t \/ ~head) /\ WriteBlock(s, head)
      PROVE  Same
  <2>1. /\ UNCHANGED <<accepted, queue>> /\ (Busy(t)' <=> Busy(t))
        /\ snd'[t].part = snd[t].part /\ snd'[t].packet = snd[t].packet
    BY <1>9 DEF WriteDone, WriteResume, WriteBlock, Busy, TypeOK, SenderTypeOK,
       Write, sockVars
  <2>2. Begun(t)' = Begun(t)
    <3>1. CASE UNCHANGED wire
      BY <3>1 DEF Begun
    <3>2. CASE s # t
      <4>1. /\ fdtab[snd[s].fd] \in Conns \cup {NoConn} \/ spc[s] = "blocked"
            /\ snd[s].conn \in Conns \cup {NoConn}
        BY <1>9 DEF WriteDone, WriteBlock, WriteResume, TypeOK, KernelTypeOK,
           SenderTypeOK, Write
      <4> QED
        BY <1>9, <3>1, <3>2, <4>1, SentBegins DEF WriteDone, WriteBlock, WriteResume
    <3> QED
      BY <1>9, <3>1, <3>2 DEF WriteBlock
  <2> QED
    BY <2>1, <2>2 DEF InQueue, InHand, Busy
<1>10. UNCHANGED <<wire, queue, accepted>>
       \/ (\E s \in Sockets : Enqueue(s) \/ SenderTake(s) \/ WriteDone(s)
            \/ WriteResume(s) \/ \E head \in BOOLEAN : WriteBlock(s, head))
  BY KernelWriters, SocketWriters DEF Connect, PeerClose, AcceptReturn,
     AcceptInstall, WritePipe, SenderFailed, StopListener, StopClient, sockVars
<1> HIDE DEF Same
<1>11. \/ Same \/ Enqueue(t) \/ SenderTake(t) \/ WriteDone(t)
       \/ WriteResume(t) \/ WriteBlock(t, TRUE) \/ WriteBadFd(t)
  <2>1. CASE UNCHANGED <<spc, snd>>
    <3>1. CASE UNCHANGED <<wire, queue, accepted>>
      BY <1>2, <2>1, <3>1
    <3> QED
      BY <1>7, <1>8, <1>9, <1>10, <3>1
  <2>2. CASE \E s \in Sockets : \/ Enqueue(s) \/ SenderTake(s) \/ WriteBadFd(s)
                                \/ WriteDone(s) \/ WriteResume(s)
    BY <1>7, <1>8, <1>9, <2>2
  <2>3. CASE \E s \in Sockets, head \in BOOLEAN : WriteBlock(s, head)
    BY <1>9, <2>3
  <2>4. CASE \E s \in Sockets : \/ SenderExit(s) \/ SenderPark(s)
                                \/ SenderWake(s) \/ WritePipe(s) \/ WriteShort(s)
    BY <1>3, <2>4
  <2>5. CASE StopClient \/ \E s \in Sockets : SenderFailed(s) \/ AcceptInstall(s)
    BY <1>4, <1>5, <1>6, <2>5
  <2> QED
    BY <2>1, <2>2, <2>3, <2>4, <2>5, SenderWriters
<1> QED
  BY <1>11 DEF Same

(* A packet whose rest is still to be written has begun.                   *)
LEMMA HeadBegunStep ==
  ASSUME TypeOK, HeadBegun, [Next]_vars
  PROVE  HeadBegun'
<1> SUFFICES ASSUME NEW t \in Sockets, Busy(t)', snd'[t].part = "rest"
             PROVE  snd'[t].packet \in Begun(t)'
  BY DEF HeadBegun
<1>1. CASE /\ UNCHANGED Begun(t)
           /\ Busy(t) /\ snd'[t].part = snd[t].part
           /\ snd'[t].packet = snd[t].packet
  BY <1>1 DEF HeadBegun
<1>2. CASE Enqueue(t)
  <2>1. Busy(t) /\ UNCHANGED <<snd, wire>>
    BY <1>2, NotifyKeepsBusy DEF Enqueue, Busy
  <2> QED
    BY <2>1, <1>1 DEF Begun
<1>3. CASE SenderTake(t)
  BY <1>3 DEF SenderTake, NoWrite, TypeOK, SenderTypeOK
<1>4. CASE WriteDone(t) \/ WriteResume(t) \/ WriteBadFd(t)
  BY <1>4 DEF WriteDone, WriteResume, WriteBadFd, Busy, TypeOK, SenderTypeOK
<1>5. CASE WriteBlock(t, TRUE)
  <2>1. fdtab[snd[t].fd] \in Conns \cup {NoConn}
    BY <1>5 DEF WriteBlock, TypeOK, KernelTypeOK, SenderTypeOK, Write
  <2>2. Begun(t)' = Begun(t) \cup {snd[t].packet}
    BY <1>5, <2>1, SentBegins DEF WriteBlock
  <2>3. snd'[t].packet = snd[t].packet
    BY <1>5 DEF WriteBlock, TypeOK, SenderTypeOK, Write
  <2> QED
    BY <2>2, <2>3
<1> QED
  BY <1>1, <1>2, <1>3, <1>4, <1>5, ChannelWriters

(* What the channel of a socket holds: the queue and, before it, the       *)
(* packet in the hands of the sender.                                      *)
LEMMA HandBeforeQueue ==
  ASSUME TypeOK, NewestKept, WireBehindQueue, NEW t \in Sockets, Busy(t)
  PROVE  /\ snd[t].packet \in Nat /\ snd[t].packet <= Left(t)
         /\ snd[t].packet \notin InQueue(t)
         /\ \A q \in InQueue(t) : q \in Int /\ snd[t].packet <= q
<1>1. snd[t].packet \in Nat /\ snd[t].packet <= Left(t)
  BY DEF TypeOK, SenderTypeOK, Write, WireBehindQueue, Left, Busy
<1> QED
  BY <1>1, QueueInterval

(* A packet that is queued is an offer.                                    *)
LEMMA EnqueueOffers ==
  ASSUME TypeOK, TypeOK', NewestKept, NewestKept', NEW t \in Sockets,
         Enqueue(t)
  PROVE  Channel(t)!Offer
<1> DEFINE kept == InHand(t) \cup ((Left(t)' + 1) .. accepted[t])
<1>1. /\ Left(t) \in Int /\ accepted[t] \in Nat
      /\ InQueue(t) = (Left(t) + 1) .. accepted[t]
  BY QueueInterval
<1>2. /\ Left(t)' \in Int
      /\ InQueue(t)' = (Left(t)' + 1) .. accepted'[t]
  BY QueueIntervalAfter
<1>3. accepted'[t] = accepted[t] + 1
  BY DEF Enqueue, TypeOK, SocketTypeOK
<1>4. /\ Left(t) <= Left(t)' /\ Left(t)' <= accepted[t]
      /\ Left(t)' = Left(t) \/ Left(t)' <= accepted[t] - MaxQueue[t] + 1
      /\ MaxQueue[t] \in Nat
  <2>1. /\ queue[t] \in Seq(Nat) /\ Len(queue[t]) \in Nat
        /\ Len(queue[t]) <= MaxQueue[t] /\ MaxQueue[t] \in Nat \ {0}
    BY QueueAssumption DEF TypeOK, SocketTypeOK, NewestKept
  <2>2. queue'[t] = Push(Trim(queue[t], MaxQueue[t]), accepted[t] + 1)
    BY DEF Enqueue, TypeOK, SocketTypeOK
  <2> DEFINE room == Trim(queue[t], MaxQueue[t])
  <2>3. /\ room \in Seq(Nat)
        /\ Len(room) = IF Len(queue[t]) < MaxQueue[t] THEN Len(queue[t])
                       ELSE MaxQueue[t] - 1
    BY <2>1, TrimFacts
  <2> HIDE DEF room
  <2>4. Len(queue'[t]) = Len(room) + 1
    BY <2>2, <2>3 DEF Push, room
  <2>5. /\ Left(t) = accepted[t] - Len(queue[t])
        /\ Left(t)' = accepted'[t] - Len(queue'[t])
    BY DEF Left
  <2>6. Len(room) \in Nat
    BY <2>3
  <2>7. Len(queue[t]) < MaxQueue[t] \/ Len(queue[t]) = MaxQueue[t]
    BY <2>1
  <2> QED
    <3>1. Left(t)' = accepted[t] - Len(room)
      BY <1>1, <1>3, <2>4, <2>5, <2>6
    <3>2. CASE Len(queue[t]) < MaxQueue[t]
      BY <1>1, <2>1, <2>3, <2>5, <3>1, <3>2
    <3>3. CASE Len(queue[t]) = MaxQueue[t]
      BY <1>1, <2>1, <2>3, <2>5, <3>1, <3>3
    <3> QED
      BY <2>7, <3>2, <3>3
<1>5. InHand(t)' = InHand(t) /\ Begun(t)' = Begun(t)
  <2>1. spc'[t] = spc[t] \/ (~Busy(t) /\ ~Busy(t)')
    BY NotifyKeepsBusy DEF Enqueue
  <2> QED
    BY <2>1 DEF Enqueue, InHand, Begun, Busy
<1>6. kept \in SUBSET Held(t) /\ Held(t)' = kept \cup {accepted[t] + 1}
  BY <1>1, <1>2, <1>3, <1>4, <1>5 DEF Held
<1>7. Held(t) \cap ((accepted[t] - MaxQueue[t] + 2) .. accepted[t])
        \subseteq kept
  <2>1. ASSUME NEW p \in InQueue(t), p >= accepted[t] - MaxQueue[t] + 2
        PROVE  p \in (Left(t)' + 1) .. accepted[t]
    BY <1>1, <1>2, <1>4, <2>1
  <2> QED
    BY <1>1, <1>4, <2>1 DEF Held
<1> HIDE DEF kept
<1> QED
  BY <1>3, <1>5, <1>6, <1>7 DEF Channel!Offer, Channel!Recent, Held

(* Taking a packet from the queue moves it from one part of what is held   *)
(* to the other.                                                           *)
LEMMA TakeStutters ==
  ASSUME TypeOK, TypeOK', NewestKept, NewestKept', NEW t \in Sockets,
         [Next]_vars, SenderTake(t)
  PROVE  UNCHANGED Channel(t)!vars
<1>1. /\ Left(t) \in Int /\ accepted[t] \in Nat
      /\ InQueue(t) = (Left(t) + 1) .. accepted[t]
      /\ InQueue(t)' = (Left(t)' + 1) .. accepted'[t]
  BY QueueInterval, QueueIntervalAfter
<1>2. Head(queue[t]) = Left(t) + 1 /\ Left(t)' = Left(t) + 1
  BY LeftFacts
<1>3. Left(t) + 1 <= accepted[t]
  BY <1>1 DEF SenderTake, Left, TypeOK, SocketTypeOK
<1>4. InHand(t) = {} /\ InHand(t)' = {Left(t) + 1}
  BY <1>2 DEF SenderTake, InHand, NoWrite, TypeOK, SenderTypeOK
<1>5. UNCHANGED <<accepted[t], Begun(t)>>
  BY DEF SenderTake, Begun
<1>6. Held(t)' = Held(t)
  BY <1>1, <1>2, <1>3, <1>4, <1>5 DEF Held
<1> QED
  BY <1>5, <1>6 DEF Channel!vars, Held

(* A write that succeeds, or puts the head of a packet on the wire,        *)
(* delivers a whole packet, and adds nothing to one that has begun.        *)
LEMMA WriteDelivers ==
  ASSUME TypeOK, NewestKept, WireBehindQueue, HeadBegun, NEW t \in Sockets,
         WriteDone(t) \/ WriteResume(t) \/ WriteBlock(t, TRUE)
  PROVE  [Channel(t)!Next]_(Channel(t)!vars)
<1> DEFINE p == snd[t].packet
<1>1. Busy(t) /\ InHand(t)' = {} /\ UNCHANGED <<accepted[t], InQueue(t)>>
  BY DEF WriteDone, WriteResume, WriteBlock, Busy, InHand, InQueue, sockVars,
     TypeOK, SenderTypeOK, Write
<1>2. Begun(t)' = Begun(t) \cup {p}
  <2>1. /\ fdtab[snd[t].fd] \in Conns \cup {NoConn} \/ spc[t] = "blocked"
        /\ snd[t].conn \in Conns \cup {NoConn}
    BY DEF WriteDone, WriteResume, WriteBlock, TypeOK, KernelTypeOK,
       SenderTypeOK, Write
  <2> QED
    BY <2>1, SentBegins DEF WriteDone, WriteResume, WriteBlock
<1>3. /\ p \in Nat /\ p \notin InQueue(t)
      /\ \A q \in InQueue(t) : q \in Int /\ p <= q
  BY <1>1, HandBeforeQueue
<1>4. snd[t].part \in {"whole", "rest"}
  BY DEF TypeOK, SenderTypeOK, Write
<1>5. CASE snd[t].part = "whole"
  <2>1. InHand(t) = {p}
    BY <1>1, <1>5 DEF InHand, Busy
  <2>2. Channel(t)!Deliver(p)
    BY <1>1, <1>2, <1>3, <2>1 DEF Channel!Deliver, Channel!Oldest
  <2>3. p \in Held(t)
    BY <2>1 DEF Held
  <2> QED
    BY <2>2, <2>3 DEF Channel!Next, Held
<1>6. CASE snd[t].part = "rest"
  <2>1. p \in Begun(t) /\ InHand(t) = {}
    BY <1>1, <1>6 DEF HeadBegun, InHand
  <2> QED
    BY <1>1, <1>2, <2>1 DEF Channel!vars
<1> QED
  BY <1>4, <1>5, <1>6

(* A write that fails loses a whole packet.                                *)
LEMMA BadFdLoses ==
  ASSUME TypeOK, NewestKept, WireBehindQueue, NEW t \in Sockets,
         WriteBadFd(t)
  PROVE  [Channel(t)!Next]_(Channel(t)!vars)
<1> DEFINE p == snd[t].packet
<1>1. /\ Busy(t) /\ InHand(t)' = {}
      /\ UNCHANGED <<accepted[t], InQueue(t), Begun(t)>>
  BY DEF WriteBadFd, Busy, InHand, InQueue, Begun, sockVars, TypeOK,
     SenderTypeOK
<1>2. /\ p \in Nat /\ p \notin InQueue(t)
      /\ \A q \in InQueue(t) : q \in Int /\ p <= q
  BY <1>1, HandBeforeQueue
<1>3. CASE snd[t].part = "whole"
  <2>1. InHand(t) = {p}
    BY <1>1, <1>3 DEF InHand, Busy
  <2>2. Channel(t)!Lose(p)
    BY <1>1, <1>2, <2>1 DEF Channel!Lose, Channel!Oldest
  <2>3. p \in Held(t)
    BY <2>1 DEF Held
  <2> QED
    BY <2>2, <2>3 DEF Channel!Next, Held
<1>4. CASE snd[t].part # "whole"
  <2>1. InHand(t) = {}
    BY <1>4 DEF InHand
  <2> QED
    BY <1>1, <2>1 DEF Channel!vars
<1> QED
  BY <1>3, <1>4

-----------------------------------------------------------------------------
(* The refinement.                                                         *)

(* The channel of every socket starts empty.                               *)
LEMMA ChannelInit ==
  ASSUME Init, NEW t \in Sockets
  PROVE  Channel(t)!Init
<1>1. InHand(t) = {} /\ InQueue(t) = {} /\ Begun(t) = {}
  BY DEF Init, InHand, InQueue, Begun
<1> QED
  BY <1>1 DEF Channel!Init, Init

(* A step of the bridge is a step of the channel of a socket, or none.     *)
LEMMA ChannelStep ==
  ASSUME IInv, IInv', HeadBegun, [Next]_vars, NEW t \in Sockets
  PROVE  [Channel(t)!Next]_(Channel(t)!vars)
<1>1. TypeOK /\ NewestKept /\ WireBehindQueue /\ TypeOK' /\ NewestKept'
  BY DEF IInv
<1>2. CASE UNCHANGED <<accepted[t], InQueue(t), InHand(t), Begun(t)>>
  BY <1>2 DEF Channel!vars
<1>3. CASE Enqueue(t)
  BY <1>1, <1>3, EnqueueOffers DEF Channel!Next
<1>4. CASE SenderTake(t)
  BY <1>1, <1>4, TakeStutters
<1>5. CASE WriteDone(t) \/ WriteResume(t) \/ WriteBlock(t, TRUE)
  BY <1>1, <1>5, WriteDelivers
<1>6. CASE WriteBadFd(t)
  BY <1>1, <1>6, BadFdLoses
<1> QED
  BY <1>1, <1>2, <1>3, <1>4, <1>5, <1>6, ChannelWriters

(* Through replaced clients, blocked and failed writes and wakeups, each   *)
(* socket of the bridge is a drop-oldest channel, for every number of      *)
(* sockets, clients and descriptors and all queue bounds.                  *)
THEOREM BridgeImplementsChannel == Spec => Implements
<1>1. Init => HeadBegun /\ \A s \in Sockets : Channel(s)!Init
  BY ChannelInit DEF Init, HeadBegun, Busy
<1>2. TypeOK /\ HeadBegun /\ [Next]_vars => HeadBegun'
  BY HeadBegunStep
<1>3. IInv => TypeOK
  BY DEF IInv
<1>4. IInv /\ IInv' /\ HeadBegun /\ [Next]_vars =>
        [\A s \in Sockets : [Channel(s)!Next]_(Channel(s)!vars)]_vars
  BY ChannelStep
<1> QED
  BY <1>1, <1>2, <1>3, <1>4, Invariance, PTL DEF Spec, Implements
=============================================================================
