---------------------------- MODULE ServerLink -----------------------------
(***************************************************************************)
(* The connection that the Node server keeps to one socket of the handler: *)
(* connectUnixSocket (server/src/unix-socket.ts) for video and audio,      *)
(* BridgeClient (server/src/bridge-client.ts) for the bridge.  Both retry  *)
(* for ever; they differ in what the 'error' event does.                   *)
(*                                                                         *)
(* Node runs one callback at a time, so a callback is one step.  A refused *)
(* attempt gives an 'error' event and later a 'close' event; a connection  *)
(* that the handler closes, or a socket that is destroyed (a refused one   *)
(* too, when its refusal was not delivered yet), gives a 'close' only.     *)
(* The other end is open_listener and accept_loop of the handler's         *)
(* ipc_bridge.cpp, where a new client replaces the previous one.           *)
(***************************************************************************)
EXTENDS Integers, Sequences, FiniteSets, SequencesExt

CONSTANTS
    Conns,       \* identities of connections, reused when closed (bound)
    NoConn,
    MaxErrors,   \* 'error' events (bound)
    MaxOthers    \* connections of other programs (bound)

ASSUME ConnsAssumption == NoConn \notin Conns /\ IsFiniteSet(Conns)
ASSUME BoundsAssumption == {MaxErrors, MaxOthers} \subseteq Nat

VARIABLES
    kind,    \* whose connection it is: "connectUnixSocket" or "BridgeClient"
    path,    \* the socket file: absent, left over, bound, or listening
    conn,    \* conn[c]: state of the connection, as Node sees it
    current, \* the variable socket
    timers,  \* setTimeout(connect) calls that have not run yet
    errors,  \* history: 'error' events so far
    backlog, \* connections that the handler has not accepted yet
    client,  \* the handler's client_fd, when it is a connection of the server
    others   \* connections of other programs so far

nodeVars == <<conn, current, timers, errors>>
handlerVars == <<path, backlog, client, others>>
vars == <<kind, nodeVars, handlerVars>>

(* A socket file may be left from an earlier run of the container.         *)
Init ==
    /\ kind \in {"connectUnixSocket", "BridgeClient"}
    /\ path \in {"absent", "stale"}
    /\ conn = [c \in Conns |-> "none"]
    /\ current = NoConn
    /\ timers = 1
    /\ errors = 0
    /\ backlog = <<>>
    /\ client = NoConn
    /\ others = 0

-----------------------------------------------------------------------------
(* connect(), called once by start() and then by timers.                   *)

InState(S) == Cardinality({c \in Conns : conn[c] \in S})

Unused(c) == conn[c] = "none" /\ c # client /\ ~Contains(backlog, c)

(* The file does not exist: look again later.                              *)
Forget == 0  \* mutant
Rescheduled == timers

ConnectAbsent ==
    /\ timers > 0 /\ path = "absent"
    /\ timers' = Rescheduled
    /\ UNCHANGED <<conn, current, errors, handlerVars, kind>>

ConnectRefused(c) ==
    /\ timers > 0 /\ path \in {"stale", "bound"}
    /\ Unused(c) /\ errors + InState({"refused"}) < MaxErrors
    /\ timers' = timers - 1
    /\ conn' = [conn EXCEPT ![c] = "refused"]
    /\ current' = c
    /\ UNCHANGED <<errors, handlerVars, kind>>

Connect(c) ==
    /\ timers > 0 /\ path = "listening" /\ Unused(c)
    /\ timers' = timers - 1
    /\ conn' = [conn EXCEPT ![c] = "open"]
    /\ backlog' = Append(backlog, c)
    /\ current' = c
    /\ UNCHANGED <<errors, path, client, others, kind>>

(* socket?.destroy(): the current socket may be that of another attempt,   *)
(* and its refusal, if it was refused, is not reported any more.           *)
Destroyed(tab) ==
    IF current # NoConn /\ tab[current] \in {"refused", "open", "replaced"}
    THEN [tab EXCEPT ![current] = "closing"] ELSE tab

(* The 'error' callback.  A refused connection is itself being destroyed.  *)
AlsoRetries == TRUE  \* mutant
RetriesOnError == kind = "connectUnixSocket"

OnError(c) ==
    /\ conn[c] = "refused"
    /\ conn' = Destroyed([conn EXCEPT ![c] = "closing"])
    /\ current' = IF RetriesOnError THEN NoConn ELSE current
    /\ timers' = IF RetriesOnError THEN timers + 1 ELSE timers
    /\ errors' = errors + 1
    /\ UNCHANGED <<handlerVars, kind>>

(* The 'close' callback.                                                   *)
OnClose(c) ==
    /\ conn[c] \in {"closing", "replaced"}
    /\ conn' = [conn EXCEPT ![c] = "none"]
    /\ current' = NoConn
    /\ timers' = timers + 1
    /\ UNCHANGED <<errors, handlerVars, kind>>

Node ==
    \/ ConnectAbsent
    \/ \E c \in Conns : ConnectRefused(c) \/ Connect(c)
    \/ \E c \in Conns : OnError(c) \/ OnClose(c)

-----------------------------------------------------------------------------
(* The handler: unlink, bind and listen in open_listener; accept_loop.     *)

Step(from, to) ==
    /\ path = from
    /\ path' = to
    /\ UNCHANGED <<nodeVars, backlog, client, others, kind>>

OpenListener ==
    Step("stale", "absent") \/ Step("absent", "bound")
    \/ Step("bound", "listening")

(* The previous client is closed: Node will see the end of that stream.    *)
Replaced == IF client # NoConn /\ conn[client] = "open"
            THEN [conn EXCEPT ![client] = "replaced"] ELSE conn

Accept ==
    /\ backlog # <<>>
    /\ client' = Head(backlog)
    /\ backlog' = Tail(backlog)
    /\ conn' = Replaced
    /\ UNCHANGED <<path, current, timers, errors, others, kind>>

(* Another program connects, such as the nc of docs/HARDWARE_TEST.md:36.   *)
AcceptOther ==
    /\ path = "listening" /\ others < MaxOthers
    /\ others' = others + 1
    /\ client' = NoConn
    /\ conn' = Replaced
    /\ UNCHANGED <<path, current, timers, errors, backlog, kind>>

-----------------------------------------------------------------------------

(* Connected, and nothing is scheduled.                                    *)
Quiet == timers = 0 /\ client # NoConn /\ UNCHANGED vars

Next == Node \/ OpenListener \/ Accept \/ AcceptOther \/ Quiet

Spec == Init /\ [][Next]_vars

(* Node's event loop runs due timers and callbacks; the handler starts and *)
(* its accept thread runs.                                                 *)
Fairness ==
    /\ WF_vars(ConnectAbsent \/ \E c \in Conns : ConnectRefused(c) \/ Connect(c))
    /\ \A c \in Conns : WF_vars(OnError(c) \/ OnClose(c))
    /\ WF_vars(OpenListener) /\ WF_vars(Accept)

FairSpec == Spec /\ Fairness

-----------------------------------------------------------------------------
(* Properties.                                                             *)

Doubled == kind = "connectUnixSocket"
Extra == IF Doubled THEN errors ELSE 0

(* Every variable has its type; the timers of BridgeClient never pile up.  *)
TypeOK ==
    /\ kind \in {"connectUnixSocket", "BridgeClient"}
    /\ path \in {"absent", "stale", "bound", "listening"}
    /\ conn \in [Conns -> {"none", "refused", "open", "replaced", "closing"}]
    /\ current \in Conns \cup {NoConn}
    /\ timers \in 0..(1 + Extra)
    /\ errors \in 0..MaxErrors
    /\ backlog \in Seq(Conns)
    /\ client \in Conns \cup {NoConn}
    /\ others \in 0..MaxOthers

(* The attempts under way, a pending timer or a connection each, are never *)
(* lost: the client keeps retrying.  BridgeClient always has exactly one;  *)
(* with connectUnixSocket every 'error' event adds one for good, because   *)
(* 'error' and 'close' both schedule a retry.  A refused attempt that the  *)
(* 'error' of another one destroys gives no 'error' and adds none.         *)
RetryChains ==
    timers + InState({"refused", "open", "replaced", "closing"}) = 1 + Extra

Installed(c) == conn[c] = "open" /\ client = c

(* Whatever was refused while the handler was starting, the server becomes *)
(* the client of the socket again and again.                               *)
ComesBack == []<>(\E c \in Conns : Installed(c))

(* ipc_bridge.hpp:29-30 gives each socket a single client that a new one   *)
(* replaces, and the server is that client (README.md:156-157): once the   *)
(* handler listens, one connection stays. BridgeClient gets there; with    *)
(* connectUnixSocket the doubled retry of one refusal makes two            *)
(* connections replace each other for ever.                                *)
Settles == \E c \in Conns : <>[]Installed(c)

(* The connection of BridgeClient stays, after any refusals and after      *)
(* another program took its place for a while.                             *)
BridgeSettles == Doubled \/ Settles
=============================================================================
