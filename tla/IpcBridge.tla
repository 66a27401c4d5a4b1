----------------------------- MODULE IpcBridge -----------------------------
(***************************************************************************)
(* The IPC bridge of aa-handler (aa-handler/src/ipc_bridge.{hpp,cpp}): a   *)
(* set of Unix listening sockets, each with at most one client, a bounded  *)
(* drop-oldest transmit queue, an accept thread and a send thread.  One    *)
(* socket, Bridge, also has a reader thread, which waits on the condition  *)
(* variable its send thread waits on.                                      *)
(*                                                                         *)
(* An action is what a thread does between two points where another thread *)
(* can interfere: one critical section of Socket::mu, or one system call   *)
(* made outside it.  File descriptors are numbers that the kernel hands    *)
(* out lowest first and reuses once closed; the code keeps the number, the *)
(* kernel the connection.  The model starts where start() returns.         *)
(***************************************************************************)
EXTENDS Integers, Sequences, FiniteSets

CONSTANTS
    Sockets,     \* the listening sockets
    Bridge,      \* the one with a reader thread, bridge_sock_
    NoSocket,
    MaxQueue,    \* MaxQueue[s]: the bound given to enqueue for socket s
    Counters,    \* the dropped_* counters
    CounterOf,   \* CounterOf[s]: the counter given to enqueue for socket s
    StopOrder,   \* the order in which stop() shuts the sockets down
    Fds,         \* descriptor numbers that connections can get (bound)
    Conns,       \* connections ever made by the peer (bound)
    NoConn,
    MaxPackets   \* packets ever queued on one socket (bound)

NoFd == -1

ASSUME SocketsAssumption == /\ Bridge \in Sockets
                            /\ NoSocket \notin Sockets
                            /\ StopOrder \in Seq(Sockets)
                            /\ \A s \in Sockets :
                                 \E i \in 1..Len(StopOrder) : StopOrder[i] = s
                            /\ StopOrder # <<>>
ASSUME QueueAssumption == /\ MaxQueue \in [Sockets -> Nat \ {0}]
                          /\ CounterOf \in [Sockets -> Counters]
ASSUME FdsAssumption == Fds \subseteq Nat
ASSUME ConnsAssumption == NoConn \notin Conns

VARIABLES
    running,   \* running_
    alive,     \* the process has not been killed by SIGPIPE
    listening, \* listening[s]: s.listen_fd is open
    backlog,   \* backlog[s]: connections the kernel holds for accept()
    owner,     \* owner[c]: the socket connection c was made to, or NoSocket
    dead,      \* connections that the peer closed or that were shut down here
    fdtab,     \* fdtab[f]: the connection open under number f, or NoConn
    client,    \* client[s]: s.client_fd
    queue,     \* queue[s]: s.tx_queue, packets numbered in order of arrival
    dropped,   \* dropped[k]: dropped_video, dropped_audio
    apc, afd,  \* accept threads: program counter; result of accept()
    spc, snd,  \* send threads: program counter; the packet being written
    rpc, rdr,  \* reader thread: program counter; descriptor and connection
    stopPc, stopAt, \* the thread in stop(): step, and position in StopOrder
    accepted,  \* history: accepted[s] counts the packets pushed on queue[s]
    taken,     \* history: taken[s] counts the packets moved out by the sender
    shut,      \* history: sockets whose client stop() has closed
    wire       \* history: wire[c] is what was written to connection c

sockVars == <<client, queue, dropped, accepted, taken>>
kernVars == <<listening, backlog, owner, dead, fdtab>>
stopVars == <<running, stopPc, stopAt, shut>>
accVars  == <<apc, afd>>
vars == <<running, alive, listening, backlog, owner, dead, fdtab, client,
          queue, dropped, apc, afd, spc, snd, rpc, rdr, stopPc, stopAt,
          accepted, taken, shut, wire>>

(* A write in progress.  part: what is left of the packet, all of it or    *)
(* what follows a head already written.  conn: the connection a blocked    *)
(* write() waits on.  moved: that call has already transferred the head.   *)
Write == [fd : Fds \cup {NoFd}, packet : Nat, part : {"whole", "rest"},
          conn : Conns \cup {NoConn}, moved : BOOLEAN]
NoWrite == [fd |-> NoFd, packet |-> 0, part |-> "whole", conn |-> NoConn,
            moved |-> FALSE]
NoRead == [fd |-> NoFd, conn |-> NoConn]
Chunk == [from : Sockets, packet : Nat, part : {"whole", "head", "rest"}]

Init ==
    /\ running = TRUE /\ alive = TRUE
    /\ listening = [s \in Sockets |-> TRUE]
    /\ backlog = [s \in Sockets |-> <<>>]
    /\ owner = [c \in Conns |-> NoSocket]
    /\ dead = {}
    /\ fdtab = [f \in Fds |-> NoConn]
    /\ client = [s \in Sockets |-> NoFd]
    /\ queue = [s \in Sockets |-> <<>>]
    /\ dropped = [k \in Counters |-> 0]
    /\ apc = [s \in Sockets |-> "accept"]
    /\ afd = [s \in Sockets |-> NoFd]
    /\ spc = [s \in Sockets |-> "loop"]
    /\ snd = [s \in Sockets |-> NoWrite]
    /\ rpc = "loop"
    /\ rdr = NoRead
    /\ stopPc = "idle" /\ stopAt = 1
    /\ accepted = [s \in Sockets |-> 0]
    /\ taken = [s \in Sockets |-> 0]
    /\ shut = {}
    /\ wire = [c \in Conns |-> <<>>]

-----------------------------------------------------------------------------
(* Condition variable and descriptors.                                     *)

(* The threads asleep in s.cv.wait(), and waking some of them: a woken     *)
(* thread goes back to test its predicate.                                 *)
Waiters(s) == {t \in {"sender", "reader"} :
                 \/ t = "sender" /\ spc[s] = "parked"
                 \/ t = "reader" /\ s = Bridge /\ rpc = "parked"}
Wake(s, W) ==
    /\ spc' = IF "sender" \in W THEN [spc EXCEPT ![s] = "loop"] ELSE spc
    /\ rpc' = IF "reader" \in W THEN "loop" ELSE rpc

NotifyNone(s) == UNCHANGED <<spc, rpc>>  \* mutant
(* s.cv.notify_one(), s.cv.notify_all()                                    *)
NotifyOne(s) == IF Waiters(s) = {} THEN Wake(s, {})
                ELSE \E t \in Waiters(s) : Wake(s, {t})
NotifyAll(s) == Wake(s, Waiters(s))

(* shutdown(client_fd); close(client_fd), when there is a client.  The two *)
(* calls are one step here.                                                *)
KeptOpen(s) == fdtab  \* mutant
ClosedTab(s) ==
    IF client[s] = NoFd THEN fdtab ELSE [fdtab EXCEPT ![client[s]] = NoConn]
ShutConns(s) ==
    IF client[s] = NoFd THEN dead ELSE dead \cup {fdtab[client[s]]}

StillRegistered(s) == client  \* mutant
Unregistered(s) == [client EXCEPT ![s] = NoFd]  \* s.client_fd = -1

Free(f) == fdtab[f] = NoConn
LowestFree(f) == Free(f) /\ \A g \in Fds : Free(g) => f <= g
Healthy(c) == c # NoConn /\ c \notin dead

-----------------------------------------------------------------------------
(* The peer (the Node server), seen through the kernel.                    *)

Connect(s, c) ==
    /\ alive /\ listening[s] /\ owner[c] = NoSocket
    /\ owner' = [owner EXCEPT ![c] = s]
    /\ backlog' = [backlog EXCEPT ![s] = Append(@, c)]
    /\ UNCHANGED <<running, alive, listening, dead, fdtab, sockVars, accVars,
                   spc, snd, rpc, rdr, stopPc, stopAt, shut, wire>>

PeerClose(c) ==
    /\ alive /\ owner[c] # NoSocket /\ c \notin dead
    /\ dead' = dead \cup {c}
    /\ UNCHANGED <<stopVars, alive, listening, backlog, owner, fdtab, sockVars,
                   accVars, spc, snd, rpc, rdr, wire>>

-----------------------------------------------------------------------------
(* The producers: emit_control, queue_video, queue_audio.  They run on the *)
(* thread that later calls stop().                                         *)

(* The loop that pops the oldest packets until one more fits.              *)
TrimNewest(q, max) ==  \* mutant
    IF Len(q) < max THEN q ELSE SubSeq(q, 1, max - 1)
Trim(q, max) == IF Len(q) < max THEN q ELSE SubSeq(q, Len(q) - max + 2, Len(q))

OnePerCall(q, kept) == 1  \* mutant
Popped(q, kept) == Len(q) - Len(kept)

PushFront(q, p) == <<p>> \o q  \* mutant
Push(q, p) == Append(q, p)

(* enqueue() returns at once when there is no client: that call changes    *)
(* nothing, so only the other case is a step.                              *)
Enqueue(s) ==
    /\ alive /\ stopPc = "idle" /\ client[s] # NoFd /\ accepted[s] < MaxPackets
    /\ accepted' = [accepted EXCEPT ![s] = @ + 1]
    /\ LET kept == Trim(queue[s], MaxQueue[s])
       IN /\ queue' = [queue EXCEPT ![s] = Push(kept, accepted[s] + 1)]
          /\ dropped' = [dropped EXCEPT ![CounterOf[s]] =
                           @ + Popped(queue[s], kept)]
    /\ NotifyOne(s)
    /\ UNCHANGED <<stopVars, alive, kernVars, client, accVars, snd, rdr, taken,
                   wire>>

-----------------------------------------------------------------------------
(* accept_loop: accept() outside the lock, then the critical section.      *)

AcceptReturn(s, f) ==
    /\ alive /\ apc[s] = "accept" /\ listening[s] /\ backlog[s] # <<>>
    /\ LowestFree(f)
    /\ fdtab' = [fdtab EXCEPT ![f] = Head(backlog[s])]
    /\ backlog' = [backlog EXCEPT ![s] = Tail(@)]
    /\ afd' = [afd EXCEPT ![s] = f]
    /\ apc' = [apc EXCEPT ![s] = "install"]
    /\ UNCHANGED <<stopVars, alive, listening, owner, dead, sockVars, spc, snd,
                   rpc, rdr, wire>>

(* accept() on a listener that stop() has shut: the thread returns. stop() *)
(* writes listen_fd without a lock: whether accept_loop reads the number   *)
(* that was closed or -1, accept() fails and running_ is false.            *)
AcceptError(s) ==
    /\ alive /\ apc[s] = "accept" /\ ~listening[s] /\ ~running
    /\ apc' = [apc EXCEPT ![s] = "exited"]
    /\ UNCHANGED <<stopVars, alive, kernVars, sockVars, afd, spc, snd, rpc,
                   rdr, wire>>

AcceptInstall(s) ==
    /\ alive /\ apc[s] = "install"
    /\ fdtab' = ClosedTab(s)
    /\ dead' = ShutConns(s)
    /\ client' = [client EXCEPT ![s] = afd[s]]
    /\ afd' = [afd EXCEPT ![s] = NoFd]
    /\ NotifyAll(s)
    /\ apc' = [apc EXCEPT ![s] = IF running THEN "accept" ELSE "exited"]
    /\ UNCHANGED <<stopVars, alive, listening, backlog, owner, queue, dropped,
                   snd, rdr, accepted, taken, wire>>

AcceptThread(s) ==
    \/ \E f \in Fds : AcceptReturn(s, f)
    \/ AcceptError(s)
    \/ AcceptInstall(s)

-----------------------------------------------------------------------------
(* send_loop: the critical section takes a packet and copies client_fd;    *)
(* write_all() then runs outside the lock on that number.                  *)

SenderExit(s) ==
    /\ alive /\ spc[s] = "loop" /\ ~running
    /\ spc' = [spc EXCEPT ![s] = "exited"]
    /\ UNCHANGED <<stopVars, alive, kernVars, sockVars, accVars, snd, rpc, rdr,
                   wire>>

SenderPark(s) ==
    /\ alive /\ spc[s] = "loop" /\ running
    /\ client[s] = NoFd \/ queue[s] = <<>>
    /\ spc' = [spc EXCEPT ![s] = "parked"]
    /\ UNCHANGED <<stopVars, alive, kernVars, sockVars, accVars, snd, rpc, rdr,
                   wire>>

SenderWake(s) ==  \* a spurious wakeup
    /\ alive /\ spc[s] = "parked"
    /\ spc' = [spc EXCEPT ![s] = "loop"]
    /\ UNCHANGED <<stopVars, alive, kernVars, sockVars, accVars, snd, rpc, rdr,
                   wire>>

SenderTake(s) ==
    /\ alive /\ spc[s] = "loop" /\ running
    /\ client[s] # NoFd /\ queue[s] # <<>>
    /\ queue' = [queue EXCEPT ![s] = Tail(@)]
    /\ taken' = [taken EXCEPT ![s] = @ + 1]
    /\ snd' = [snd EXCEPT ![s] = [NoWrite EXCEPT !.fd = client[s],
                                                 !.packet = Head(queue[s])]]
    /\ spc' = [spc EXCEPT ![s] = "write"]
    /\ UNCHANGED <<stopVars, alive, kernVars, client, dropped, accVars, rpc,
                   rdr, accepted, wire>>

Sent(s, c, p) ==
    wire' = [wire EXCEPT ![c] = Append(@, [from |-> s, part |-> p,
                                           packet |-> snd[s].packet])]

(* write() takes everything that is left.                                  *)
WriteDone(s) ==
    /\ alive /\ spc[s] = "write" /\ Healthy(fdtab[snd[s].fd])
    /\ Sent(s, fdtab[snd[s].fd], snd[s].part)
    /\ spc' = [spc EXCEPT ![s] = "loop"]
    /\ snd' = [snd EXCEPT ![s] = NoWrite]
    /\ UNCHANGED <<stopVars, alive, kernVars, sockVars, accVars, rpc, rdr>>

(* write() finds the buffer full, at once or after the head of the packet: *)
(* the thread sleeps in the call.                                          *)
WriteBlock(s, head) ==
    /\ alive /\ spc[s] = "write" /\ Healthy(fdtab[snd[s].fd])
    /\ head => snd[s].part = "whole"
    /\ snd' = [snd EXCEPT ![s].conn = fdtab[snd[s].fd],
                          ![s].moved = head,
                          ![s].part = IF head THEN "rest" ELSE @]
    /\ spc' = [spc EXCEPT ![s] = "blocked"]
    /\ IF head THEN Sent(s, fdtab[snd[s].fd], "head") ELSE UNCHANGED wire
    /\ UNCHANGED <<stopVars, alive, kernVars, sockVars, accVars, rpc, rdr>>

(* The peer reads, and the sleeping call completes.                        *)
WriteResume(s) ==
    /\ alive /\ spc[s] = "blocked" /\ Healthy(snd[s].conn)
    /\ Sent(s, snd[s].conn, snd[s].part)
    /\ spc' = [spc EXCEPT ![s] = "loop"]
    /\ snd' = [snd EXCEPT ![s] = NoWrite]
    /\ UNCHANGED <<stopVars, alive, kernVars, sockVars, accVars, rpc, rdr>>

(* The connection dies under a call that has moved the head: it returns a  *)
(* short count and write_all calls write() again, on the same number.      *)
WriteShort(s) ==
    /\ alive /\ spc[s] = "blocked" /\ ~Healthy(snd[s].conn) /\ snd[s].moved
    /\ spc' = [spc EXCEPT ![s] = "write"]
    /\ UNCHANGED <<stopVars, alive, kernVars, sockVars, accVars, snd, rpc, rdr,
                   wire>>

(* EPIPE: nothing ignores SIGPIPE, so the process is killed.               *)
WritePipe(s) ==
    /\ alive
    /\ \/ /\ spc[s] = "write" /\ ~Free(snd[s].fd)
          /\ fdtab[snd[s].fd] \in dead
       \/ spc[s] = "blocked" /\ ~Healthy(snd[s].conn) /\ ~snd[s].moved
    /\ alive' = FALSE
    /\ UNCHANGED <<stopVars, kernVars, sockVars, accVars, spc, snd, rpc, rdr,
                   wire>>

(* EBADF: the number has been closed and not been handed out again.        *)
WriteBadFd(s) ==
    /\ alive /\ spc[s] = "write" /\ Free(snd[s].fd)
    /\ spc' = [spc EXCEPT ![s] = "failed"]
    /\ UNCHANGED <<stopVars, alive, kernVars, sockVars, accVars, snd, rpc, rdr,
                   wire>>

(* After a failed write_all: close the client if it has the same number.   *)
SenderFailed(s) ==
    /\ alive /\ spc[s] = "failed"
    /\ IF client[s] = snd[s].fd
       THEN /\ fdtab' = ClosedTab(s)
            /\ dead' = ShutConns(s)
            /\ client' = Unregistered(s)
       ELSE UNCHANGED <<fdtab, dead, client>>
    /\ spc' = [spc EXCEPT ![s] = "loop"]
    /\ snd' = [snd EXCEPT ![s] = NoWrite]
    /\ UNCHANGED <<stopVars, alive, listening, backlog, owner, queue, dropped,
                   accVars, rpc, rdr, accepted, taken, wire>>

SendThread(s) ==
    \/ SenderExit(s) \/ SenderPark(s) \/ SenderTake(s)
    \/ WriteDone(s) \/ \E head \in BOOLEAN : WriteBlock(s, head)
    \/ WriteResume(s) \/ WriteShort(s) \/ WritePipe(s) \/ WriteBadFd(s)
    \/ SenderFailed(s)

-----------------------------------------------------------------------------
(* bridge_read_loop: copies client_fd under the lock, reads without it.    *)
(* What the lines say is not part of this module.                          *)

readRest == <<stopVars, alive, kernVars, sockVars, accVars, spc, snd, wire>>

ReaderExit ==
    /\ alive /\ rpc \in {"loop", "check"} /\ ~running
    /\ rpc' = "exited"
    /\ rdr' = NoRead
    /\ UNCHANGED readRest

ReaderPark ==
    /\ alive /\ rpc = "loop" /\ running /\ client[Bridge] = NoFd
    /\ rpc' = "parked"
    /\ UNCHANGED <<rdr, readRest>>

ReaderWake ==  \* a spurious wakeup
    /\ alive /\ rpc = "parked"
    /\ rpc' = "loop"
    /\ UNCHANGED <<rdr, readRest>>

ReaderTake ==
    /\ alive /\ rpc = "loop" /\ running /\ client[Bridge] # NoFd
    /\ rpc' = "check"
    /\ rdr' = [NoRead EXCEPT !.fd = client[Bridge]]
    /\ UNCHANGED readRest

ReaderCheck ==
    /\ alive /\ rpc = "check" /\ running
    /\ rpc' = "read"
    /\ UNCHANGED <<rdr, readRest>>

(* read() on a closed number or at end of file ends the inner loop.        *)
ReadEnd ==
    /\ alive
    /\ \/ rpc = "read" /\ ~Healthy(fdtab[rdr.fd])
       \/ rpc = "blocked" /\ ~Healthy(rdr.conn)
    /\ rpc' = "loop"
    /\ rdr' = NoRead
    /\ UNCHANGED readRest

(* read() finds nothing yet and sleeps on the connection.                  *)
ReadBlock ==
    /\ alive /\ rpc = "read" /\ Healthy(fdtab[rdr.fd])
    /\ rpc' = "blocked"
    /\ rdr' = [rdr EXCEPT !.conn = fdtab[rdr.fd]]
    /\ UNCHANGED readRest

ReadData ==
    /\ alive
    /\ \/ rpc = "read" /\ Healthy(fdtab[rdr.fd])
       \/ rpc = "blocked" /\ Healthy(rdr.conn)
    /\ rpc' = "check"
    /\ rdr' = [rdr EXCEPT !.conn = NoConn]
    /\ UNCHANGED readRest

ReadThread ==
    ReaderExit \/ ReaderPark \/ ReaderTake \/ ReaderCheck
    \/ ReadEnd \/ ReadBlock

-----------------------------------------------------------------------------
(* stop(): per socket, close the listener, close the client and notify,    *)
(* join the two threads; then join the reader.                             *)

Current == StopOrder[stopAt]
OnePast == stopAt > Len(StopOrder)  \* mutant
LastOne == stopAt = Len(StopOrder)

StopBegin ==
    /\ alive /\ stopPc = "idle"
    /\ running' = FALSE
    /\ stopPc' = "listener"
    /\ UNCHANGED <<alive, kernVars, sockVars, accVars, spc, snd, rpc, rdr,
                   stopAt, shut, wire>>

(* Connections still in the backlog are reset.                             *)
StopListener ==
    /\ alive /\ stopPc = "listener"
    /\ listening' = [listening EXCEPT ![Current] = FALSE]
    /\ dead' = dead \cup {backlog[Current][i] : i \in DOMAIN backlog[Current]}
    /\ backlog' = [backlog EXCEPT ![Current] = <<>>]
    /\ stopPc' = "client"
    /\ UNCHANGED <<running, alive, owner, fdtab, sockVars, accVars, spc, snd,
                   rpc, rdr, stopAt, shut, wire>>

StopClient ==
    /\ alive /\ stopPc = "client"
    /\ fdtab' = ClosedTab(Current)
    /\ dead' = ShutConns(Current)
    /\ client' = Unregistered(Current)
    /\ NotifyAll(Current)
    /\ shut' = shut \cup {Current}
    /\ stopPc' = "joinAccept"
    /\ UNCHANGED <<running, alive, listening, backlog, owner, queue, dropped,
                   accVars, snd, rdr, stopAt, accepted, taken, wire>>

StopJoinAccept ==
    /\ alive /\ stopPc = "joinAccept" /\ apc[Current] = "exited"
    /\ stopPc' = "joinSend"
    /\ UNCHANGED <<running, alive, kernVars, sockVars, accVars, spc, snd, rpc,
                   rdr, stopAt, shut, wire>>

StopJoinSend ==
    /\ alive /\ stopPc = "joinSend" /\ spc[Current] = "exited"
    /\ IF LastOne
       THEN stopPc' = "joinReader" /\ UNCHANGED stopAt
       ELSE stopPc' = "listener" /\ stopAt' = stopAt + 1
    /\ UNCHANGED <<running, alive, kernVars, sockVars, accVars, spc, snd, rpc,
                   rdr, shut, wire>>

StopJoinReader ==
    /\ alive /\ stopPc = "joinReader" /\ rpc = "exited"
    /\ stopPc' = "done"
    /\ UNCHANGED <<running, alive, kernVars, sockVars, accVars, spc, snd, rpc,
                   rdr, stopAt, shut, wire>>

StopRest ==
    StopListener \/ StopClient \/ StopJoinAccept \/ StopJoinSend
    \/ StopJoinReader

-----------------------------------------------------------------------------
(* The peer, the threads of a live process, and the end of the process.    *)
(* A peer that writes (ReadData) and spurious wakeups are never required.  *)

Peer == \/ \E s \in Sockets, c \in Conns : Connect(s, c)
        \/ \E c \in Conns : PeerClose(c)

Threads ==
    \/ \E s \in Sockets : Enqueue(s) \/ AcceptThread(s) \/ SendThread(s)
                          \/ SenderWake(s)
    \/ ReadThread \/ ReadData \/ ReaderWake
    \/ StopBegin \/ StopRest

Ended == (~alive \/ stopPc = "done") /\ UNCHANGED vars

Next == Peer \/ Threads \/ Ended

Spec == Init /\ [][Next]_vars

(* Every thread keeps running, a reading peer empties a full buffer (the   *)
(* WriteResume disjunct of SendThread), and once the handler stops the     *)
(* peer goes away too: entrypoint.sh kills the server when it is told to   *)
(* stop and when either child exits.                                       *)
Fairness ==
    /\ \A s \in Sockets : /\ WF_vars(AcceptThread(s))
                          /\ WF_vars(SendThread(s))
    /\ WF_vars(ReadThread)
    /\ WF_vars(StopRest)
    /\ \A c \in Conns : WF_vars(~running /\ PeerClose(c))

FairSpec == Spec /\ Fairness

-----------------------------------------------------------------------------
(* Properties.                                                             *)

KernelTypeOK ==
    /\ alive \in BOOLEAN
    /\ listening \in [Sockets -> BOOLEAN]
    /\ backlog \in [Sockets -> Seq(Conns)]
    /\ owner \in [Conns -> Sockets \cup {NoSocket}]
    /\ dead \subseteq Conns
    /\ fdtab \in [Fds -> Conns \cup {NoConn}]
    /\ wire \in [Conns -> Seq(Chunk)]
SocketTypeOK ==
    /\ client \in [Sockets -> Fds \cup {NoFd}]
    /\ queue \in [Sockets -> Seq(Nat)]
    /\ dropped \in [Counters -> Nat]
    /\ accepted \in [Sockets -> Nat]
    /\ taken \in [Sockets -> Nat]
AcceptTypeOK ==
    /\ apc \in [Sockets -> {"accept", "install", "exited"}]
    /\ afd \in [Sockets -> Fds \cup {NoFd}]
    /\ \A s \in Sockets : apc[s] = "install" => afd[s] # NoFd
SenderTypeOK ==
    /\ spc \in [Sockets ->
         {"loop", "parked", "write", "blocked", "failed", "exited"}]
    /\ snd \in [Sockets -> Write]
    /\ \A s \in Sockets :
         spc[s] \in {"write", "blocked", "failed"} => snd[s].fd # NoFd
ReaderTypeOK ==
    /\ rpc \in {"loop", "parked", "check", "read", "blocked", "exited"}
    /\ rdr \in [fd : Fds \cup {NoFd}, conn : Conns \cup {NoConn}]
    /\ rpc \in {"check", "read", "blocked"} => rdr.fd # NoFd
StopTypeOK ==
    /\ running \in BOOLEAN
    /\ stopPc \in {"idle", "listener", "client", "joinAccept", "joinSend",
                   "joinReader", "done"}
    /\ stopAt \in 1..Len(StopOrder)
    /\ shut \subseteq Sockets

(* Every variable has its type, and a thread about to use a descriptor     *)
(* number has one.                                                         *)
TypeOK == /\ KernelTypeOK /\ SocketTypeOK /\ AcceptTypeOK
          /\ SenderTypeOK /\ ReaderTypeOK /\ StopTypeOK

(* The send thread of the bridge and the reader share a condition variable *)
(* and enqueue() notifies only one waiter, yet no wakeup is lost: a thread *)
(* sleeps only while its predicate is false, or while stop() has still to  *)
(* notify its socket.                                                      *)
NoLostWakeup ==
    /\ \A s \in Sockets : spc[s] = "parked" =>
         /\ s \notin shut
         /\ running => client[s] = NoFd \/ queue[s] = <<>>
    /\ rpc = "parked" =>
         /\ Bridge \notin shut
         /\ running => client[Bridge] = NoFd

(* Backpressure drops the oldest packets and only those: a queue always    *)
(* holds, in order and without a hole, the newest packets accepted, and at *)
(* most MaxQueue[s] of them.                                               *)
NewestKept ==
    \A s \in Sockets :
      /\ Len(queue[s]) <= MaxQueue[s]
      /\ \A i \in 1..Len(queue[s]) :
           queue[s][i] = accepted[s] - Len(queue[s]) + i

(* dropped_video and dropped_audio, which several sockets share, account   *)
(* for every packet accepted and neither queued nor handed to a sender:    *)
(* one is counted for each that each of these sockets has lost.            *)
Lost(s) == accepted[s] - taken[s] - Len(queue[s])
LostOf(k) == UNION {{s} \X (1..Lost(s)) :
                      s \in {t \in Sockets : CounterOf[t] = k}}
Accounted == /\ \A s \in Sockets : Lost(s) >= 0
             /\ \A k \in Counters : dropped[k] = Cardinality(LostOf(k))

(* A registered client is an open descriptor of a connection made to that  *)
(* very socket; so is a descriptor that accept() returned and that is not  *)
(* installed yet.  No descriptor is registered twice: nothing closes the   *)
(* client of another socket.                                               *)
ConnsOwned ==
    /\ \A s \in Sockets : client[s] # NoFd =>
         ~Free(client[s]) /\ owner[fdtab[client[s]]] = s
    /\ \A s \in Sockets : apc[s] = "install" =>
         /\ ~Free(afd[s]) /\ owner[fdtab[afd[s]]] = s
         /\ client[s] # afd[s]
    /\ \A s \in Sockets : \A i \in DOMAIN backlog[s] :
         owner[backlog[s][i]] = s

(* "When a new client connects on a socket the previous connection is      *)
(* closed" (ipc_bridge.hpp:29-30): no descriptor leaks.  Every open one is *)
(* the client of its socket or about to become it.                         *)
NoFdLeak ==
    \A f \in Fds : ~Free(f) =>
      \E s \in Sockets : client[s] = f \/ (apc[s] = "install" /\ afd[s] = f)

(* On any connection the packets of one socket appear in the order they    *)
(* were queued, whatever was dropped in between; a packet appears twice    *)
(* only as a head and the rest that follows it.                            *)
InOrder ==
    \A c \in Conns : \A i, j \in DOMAIN wire[c] :
      LET a == wire[c][i]
          b == wire[c][j]
      IN i < j /\ a.from = b.from =>
           \/ a.packet < b.packet
           \/ a.packet = b.packet /\ a.part = "head" /\ b.part = "rest"

(* What makes InOrder inductive: nothing on a connection is newer than the *)
(* packet its socket's sender is writing, and that one not newer than the  *)
(* last packet that left the queue.                                        *)
WireBehindQueue ==
    \A s \in Sockets :
      LET left == accepted[s] - Len(queue[s])
          busy == spc[s] \in {"write", "blocked"}
      IN /\ busy => snd[s].packet <= left
         /\ \A c \in Conns : \A i \in DOMAIN wire[c] :
              LET a == wire[c][i]
              IN a.from = s =>
                   /\ a.packet <= left
                   /\ busy => \/ a.packet < snd[s].packet
                              \/ /\ a.packet = snd[s].packet
                                 /\ a.part = "head" /\ snd[s].part = "rest"

(* The state of the channel that a socket implements: what it holds is in  *)
(* its queue, or in the hands of its sender and not yet begun.             *)
InHand(s) == IF spc[s] \in {"write", "blocked"} /\ snd[s].part = "whole"
             THEN {snd[s].packet} ELSE {}
InQueue(s) == {queue[s][i] : i \in DOMAIN queue[s]}
Begun(s) == UNION {{wire[c][i].packet : i \in {j \in DOMAIN wire[c] :
                                               wire[c][j].from = s}}
                   : c \in Conns}

Channel(s) == INSTANCE DropOldest WITH
                Bound <- MaxQueue[s], accepted <- accepted[s],
                held <- InHand(s) \cup InQueue(s), left <- Begun(s)

(* "Outbound to server (non-blocking, drops on backpressure)"              *)
(* (ipc_bridge.hpp:44): through replaced clients, blocked and failed       *)
(* writes and wakeups, each socket is a drop-oldest channel: packets leave *)
(* in order and once, and only old ones are given up for new ones.         *)
Implements ==
    /\ \A s \in Sockets : Channel(s)!Init
    /\ [][\A s \in Sockets : [Channel(s)!Next]_(Channel(s)!vars)]_vars

(* ipc_bridge.hpp:16-29 gives each socket its own traffic in length-       *)
(* prefixed packets: a connection carries only what was queued on the      *)
(* socket it was made to, and never the end of a packet whose beginning it *)
(* did not carry.                                                          *)
OwnTraffic ==
    \A c \in Conns : \A j \in DOMAIN wire[c] :
      /\ wire[c][j].from = owner[c]
      /\ wire[c][j].part = "rest" =>
           \E i \in 1..(j - 1) : /\ wire[c][i].part = "head"
                                 /\ wire[c][i].packet = wire[c][j].packet

(* "Single-client policy per socket. When a new client connects on a       *)
(* socket the previous connection is closed." (ipc_bridge.hpp:29-30): the  *)
(* previous connection only.  The client that took its place, connected    *)
(* and installed, does not lose the handler to a write that was still      *)
(* under way on the connection it replaced.                                *)
SurvivesReplacement ==
    \A s \in Sockets :
      client[s] # NoFd /\ Healthy(fdtab[client[s]]) => alive

(* A packet queued for a client is eventually taken by the sender, unless  *)
(* the client goes away or the bridge stops.                               *)
Drained ==
    \A s \in Sockets : \A n \in 0..MaxPackets :
      (queue[s] # <<>> /\ taken[s] = n)
        ~> (taken[s] # n \/ client[s] = NoFd \/ ~running \/ ~alive)

(* stop() joins every thread and returns, whatever the threads were doing. *)
StopTerminates == ~running ~> (stopPc = "done" \/ ~alive)
=============================================================================
