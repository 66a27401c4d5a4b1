------------------------------ MODULE Session ------------------------------
(***************************************************************************)
(* One Android Auto session of aa-handler (aa-handler/src/aa/Session.cpp): *)
(* the Session object, its ControlHandler and the Pinger that keeps the    *)
(* link alive.                                                             *)
(*                                                                         *)
(* One thread runs the io_service, so a handler is one step; on_signal of  *)
(* the runner goes on beside it, in several.  A promise that is resolved   *)
(* or rejected does not call its continuation: it posts it on the control  *)
(* strand, behind what is already there.  What a handler decides can       *)
(* therefore be stale when the continuation runs, and stop() does not      *)
(* empty the strand.  A strand_.dispatch from the io thread runs on the    *)
(* spot.                                                                   *)
(*                                                                         *)
(* The phone and aasdk (messenger, transport, cryptor) are the             *)
(* environment, modelled from how Session.cpp uses them.                   *)
(***************************************************************************)
EXTENDS Integers, Sequences, FiniteSets

CONSTANT MaxUnanswered  \* the 4 of onTimerExceeded

ASSUME UnansweredAssumption == MaxUnanswered \in Nat

VARIABLES
    active,     \* impl_->active
    quit,       \* quit_triggered_
    emitted,    \* session events given to emit_control, in order
    posted,     \* handlers posted on the control strand, in order
    receives,   \* receive() calls of the control channel without an answer
    sending,    \* kinds of control channel sends without an answer
    timer,      \* timer_: off, armed, or its handler queued
    cancelled,  \* cancelled_
    promise,    \* promise_: none, live, or already rejected
    unanswered, \* pings_ - pongs_, the code reads nothing else
    io,         \* the io_service: running, stopped, or how far on_signal is
    stage,      \* how far the phone is in the protocol
    phone,      \* talking, silent for good, or unplugged
    owed        \* pings that reached the phone and that it has not answered

sessionVars == <<active, quit, emitted>>
channelVars == <<receives, sending>>
pingerVars  == <<timer, cancelled, promise, unanswered>>
phoneVars   == <<stage, phone, owed>>
vars == <<sessionVars, posted, channelVars, pingerVars, io, phoneVars>>

(* Messages of the control channel.  "focus" stands for the audio and the  *)
(* navigation focus requests, "note" for voice session, battery status and *)
(* ping requests.                                                          *)
Messages == {"version", "badVersion", "handshake", "discovery", "focus",
             "note", "pong", "bye", "byeResponse"}

Continuations == {"error", "byeSent", "pingDue", "pingTimeout"}

Init ==
    /\ active = FALSE /\ quit = FALSE /\ emitted = <<>>
    /\ posted = <<>>
    /\ receives = 0 /\ sending = {}
    /\ timer = "off" /\ cancelled = FALSE /\ promise = "none"
    /\ unanswered = 0
    /\ io = "running"
    /\ stage = "new" /\ phone = "talking" /\ owed = 0

-----------------------------------------------------------------------------
(* What handlers do.                                                       *)

Send(kind) == sending' = sending \cup {kind}
Receive == receives' = receives + 1

(* Pinger::ping.  A promise that is still there is rejected and stays; the *)
(* new one is dropped.                                                     *)
Uncounted(n) == n  \* mutant
Counted(n) == n + 1  \* ++pings_

Ping ==
    /\ cancelled' = FALSE
    /\ IF promise # "none"
       THEN promise' = "rejected" /\ UNCHANGED <<timer, unanswered>>
       ELSE /\ promise' = "live"
            /\ timer' = "armed"
            /\ unanswered' = Counted(unanswered)

(* Session::stop: the cancel of ControlHandler::stop and its own.  A timer *)
(* handler that is already queued keeps its result.                        *)
Stop ==
    IF active
    THEN /\ active' = FALSE
         /\ cancelled' = TRUE
         /\ timer' = IF timer = "armed" THEN "aborted" ELSE timer
    ELSE UNCHANGED <<active, cancelled, timer>>

(* triggerQuit and the on_quit callback of Session::start.                 *)
NeverQuit == FALSE  \* mutant
AlreadyQuit == quit

TriggerQuit ==
    /\ IF AlreadyQuit
       THEN UNCHANGED <<quit, emitted, active, cancelled, timer>>
       ELSE /\ quit' = TRUE
            /\ emitted' = Append(emitted, "idle")
            /\ Stop
    /\ UNCHANGED <<promise, unanswered>>

(* The next handler of the control strand is h.                            *)
Run(h) ==
    /\ io # "stopped"
    /\ posted # <<>> /\ Head(posted) = h
    /\ posted' = Tail(posted)
    /\ UNCHANGED io

-----------------------------------------------------------------------------
(* Session::start and ControlHandler::start, called by the runner.  (That  *)
(* a signal can come before start() returns is left to module Runner.)     *)

Start ==
    /\ io = "running" /\ stage = "new"
    /\ stage' = "version"
    /\ emitted' = Append(emitted, "connecting")
    /\ active' = TRUE
    /\ Ping /\ Send("request") /\ Receive
    /\ UNCHANGED <<quit, posted, io, phone, owed>>

(* Cryptor::init throws, and start() with it.                              *)
StartThrows ==
    /\ io = "running" /\ stage = "new"
    /\ stage' = "failed"
    /\ emitted' = Append(emitted, "connecting")
    /\ UNCHANGED <<active, quit, posted, channelVars, pingerVars, io, phone,
                   owed>>

-----------------------------------------------------------------------------
(* The handlers of the control channel.                                    *)

(* A reply and the next receive().                                         *)
Reply ==
    /\ Send("request") /\ Receive
    /\ UNCHANGED <<active, quit, pingerVars>>

(* The cryptor throws: onChannelError, and no receive().                   *)
CryptorError ==
    /\ TriggerQuit
    /\ UNCHANGED <<channelVars, phoneVars>>

OnVersionResponse ==
    /\ Run("version")
    /\ \/ Reply /\ stage' = "handshake" /\ UNCHANGED <<emitted, phone, owed>>
       \/ CryptorError

OnVersionMismatch ==
    /\ Run("badVersion")
    /\ TriggerQuit
    /\ UNCHANGED <<channelVars, phoneVars>>

(* doHandshake wants more, or is complete and authentication is confirmed. *)
OnHandshake ==
    /\ Run("handshake")
    /\ \/ /\ Reply
          /\ stage' \in {"handshake", "discovery"}
          /\ UNCHANGED <<emitted, phone, owed>>
       \/ CryptorError

OnServiceDiscoveryRequest ==
    /\ Run("discovery")
    /\ emitted' = emitted \o <<"video_config", "active">>
    /\ Reply
    /\ stage' = "projecting"
    /\ UNCHANGED <<phone, owed>>

OnFocusRequest ==
    /\ Run("focus")
    /\ Reply
    /\ UNCHANGED <<emitted, phoneVars>>

OnNotification ==
    /\ Run("note")
    /\ Receive
    /\ UNCHANGED <<sessionVars, sending, pingerVars, phoneVars>>

OnPingResponse ==
    /\ Run("pong")
    /\ unanswered' = unanswered - 1
    /\ Receive
    /\ UNCHANGED <<sessionVars, sending, timer, cancelled, promise, phoneVars>>

(* onByeByeRequest does not call receive(): the session ends when the      *)
(* response is sent.                                                       *)
ReceiveAgain == Receive  \* mutant
NoReceive == UNCHANGED receives

OnByeByeRequest ==
    /\ Run("bye")
    /\ Send("bye")
    /\ NoReceive
    /\ UNCHANGED <<sessionVars, pingerVars, phoneVars>>

(* onByeByeResponse, the end of sendShutdownResponse, and onChannelError   *)
(* for anything but OPERATION_ABORTED.                                     *)
OnQuit ==
    /\ \E h \in {"byeResponse", "byeSent", "error"} : Run(h)
    /\ TriggerQuit
    /\ UNCHANGED <<channelVars, phoneVars>>

-----------------------------------------------------------------------------
(* The keepalive: the continuations of schedulePing, and the timer.        *)

(* The transport carries messages while the session is active; stop()      *)
(* stops it, at once or, on the thread of a signal, a moment later.        *)
Carries == active \/ io = "cancelling"

PingOnce == UNCHANGED pingerVars  \* mutant
PingAgain == Ping

OnPingDue ==
    /\ Run("pingDue")
    /\ Send("request")
    /\ owed' = IF Carries /\ phone # "gone" THEN owed + 1 ELSE owed
    /\ PingAgain
    /\ UNCHANGED <<sessionVars, receives, stage, phone>>

OnPingTimeout ==
    /\ Run("pingTimeout")
    /\ TriggerQuit
    /\ UNCHANGED <<channelVars, phoneVars>>

TimerExpires ==
    /\ timer = "armed"
    /\ timer' = "fired"
    /\ UNCHANGED <<sessionVars, posted, channelVars, cancelled, promise,
                   unanswered, io, phoneVars>>

NearlyTooMany == unanswered > MaxUnanswered + 1  \* mutant
TooMany == unanswered > MaxUnanswered

(* What onTimerExceeded posts.  A continuation that gets OPERATION_ABORTED *)
(* does nothing and is not posted here, nor is any by a promise that was   *)
(* rejected before.                                                        *)
Outcome ==
    IF promise # "live" \/ timer = "aborted" \/ cancelled THEN <<>>
    ELSE IF TooMany THEN <<"pingTimeout">> ELSE <<"pingDue">>

OnTimerExceeded ==
    /\ io # "stopped" /\ timer \in {"fired", "aborted"}
    /\ posted' = posted \o Outcome
    /\ timer' = "off"
    /\ promise' = "none"
    /\ UNCHANGED <<sessionVars, channelVars, cancelled, unanswered, io,
                   phoneVars>>

-----------------------------------------------------------------------------
(* The phone and aasdk, whose callbacks the io_service runs too.           *)

Sendable ==
    (CASE stage = "version" -> {"version", "badVersion"}
       [] stage = "handshake" -> {"handshake"}
       [] stage = "discovery" -> {"discovery"}
       [] stage = "projecting" -> {"focus", "note", "bye", "byeResponse"}
       [] OTHER -> {})
    \cup (IF owed > 0 THEN {"pong"} ELSE {})

Deliver(m) ==
    /\ io # "stopped" /\ Carries /\ phone = "talking"
    /\ receives > 0 /\ m \in Sendable
    /\ receives' = receives - 1
    /\ posted' = Append(posted, m)
    /\ owed' = IF m = "pong" THEN owed - 1 ELSE owed
    /\ UNCHANGED <<sessionVars, sending, pingerVars, io, stage, phone>>

(* A send or receive that fails posts onChannelError; one that stop()      *)
(* aborts may also get OPERATION_ABORTED, which onChannelError ignores.    *)
Failed == IF active THEN {<<"error">>} ELSE {<<"error">>, <<>>}

(* A frame that cannot be read or decrypted, an unplugged phone, stop().   *)
ReceiveFails ==
    /\ io # "stopped" /\ receives > 0
    /\ receives' = receives - 1
    /\ \E e \in Failed : posted' = posted \o e
    /\ UNCHANGED <<sessionVars, sending, pingerVars, io, phoneVars>>

SendCompletes(k) ==
    /\ io # "stopped" /\ k \in sending /\ Carries /\ phone # "gone"
    /\ sending' = sending \ {k}
    /\ posted' = IF k = "bye" THEN Append(posted, "byeSent") ELSE posted
    /\ UNCHANGED <<sessionVars, receives, pingerVars, io, phoneVars>>

SendFails(k) ==
    /\ io # "stopped" /\ k \in sending /\ (~active \/ phone = "gone")
    /\ sending' = sending \ {k}
    /\ \E e \in Failed : posted' = posted \o e
    /\ UNCHANGED <<sessionVars, receives, pingerVars, io, phoneVars>>

FallSilent ==
    /\ phone = "talking"
    /\ phone' \in {"silent", "gone"}
    /\ UNCHANGED <<sessionVars, posted, channelVars, pingerVars, io, stage,
                   owed>>

(* on_signal of the runner: it sets g_shutdown, locks g_active_session,    *)
(* calls Session::stop and stops the io_service.                           *)
SignalStep(from, to) ==
    /\ io \in from /\ io' \in to
    /\ UNCHANGED <<quit, emitted, posted, channelVars, promise, unanswered,
                   phoneVars>>

SignalFlag ==
    /\ stage # "new"
    /\ SignalStep({"running"}, {"flagged"})
    /\ UNCHANGED <<active, cancelled, timer>>

SignalLock ==
    /\ SignalStep({"flagged"}, {"caught"})
    /\ UNCHANGED <<active, cancelled, timer>>

(* The cancels of stop() run on the spot only when the signal is delivered *)
(* to the io thread; otherwise they are posted.                            *)
SignalStop ==
    \/ /\ SignalStep({"caught"}, {"stopping"})
       /\ Stop
    \/ /\ SignalStep({"caught"}, {"cancelling"})
       /\ active /\ active' = FALSE
       /\ UNCHANGED <<cancelled, timer>>

(* A posted cancel runs; stop() may post another.                          *)
CancelRuns ==
    /\ SignalStep({"cancelling"}, {"cancelling", "stopping"})
    /\ cancelled' = TRUE
    /\ timer' = IF timer = "armed" THEN "aborted" ELSE timer
    /\ UNCHANGED active

SignalHalt ==
    /\ SignalStep({"cancelling", "stopping"}, {"stopped"})
    /\ UNCHANGED <<active, cancelled, timer>>

Signal == SignalFlag \/ SignalLock \/ SignalStop \/ CancelRuns \/ SignalHalt

-----------------------------------------------------------------------------

Handlers ==
    \/ OnVersionResponse \/ OnVersionMismatch \/ OnHandshake
    \/ OnServiceDiscoveryRequest \/ OnFocusRequest \/ OnNotification
    \/ OnPingResponse \/ OnByeByeRequest \/ OnQuit
    \/ OnPingDue \/ OnPingTimeout

Environment ==
    \/ \E m \in Messages : Deliver(m)
    \/ \E k \in {"request", "bye"} : SendCompletes(k) \/ SendFails(k)
    \/ ReceiveFails \/ FallSilent \/ Signal

Ended == (io = "stopped" \/ (stage # "new" /\ ~active)) /\ UNCHANGED vars

Next ==
    \/ Start \/ StartThrows
    \/ Handlers \/ OnTimerExceeded \/ TimerExpires
    \/ Environment \/ Ended

Spec == Init /\ [][Next]_vars

(* The io thread runs what is posted, timers expire and on_signal returns. *)
(* Nothing is asked of the phone, and no send or receive has to complete   *)
(* or fail.                                                                *)
Fairness ==
    /\ WF_vars(Handlers) /\ WF_vars(OnTimerExceeded) /\ WF_vars(TimerExpires)
    /\ WF_vars(SignalLock \/ SignalStop \/ SignalHalt)

FairSpec == Spec /\ Fairness

-----------------------------------------------------------------------------
(* What the server makes of the events: applyControlEvent of status.ts,    *)
(* for session_active.  It does not know "idle" but takes any state other  *)
(* than "active" for the end; "video_config" is not a session event.       *)

UntilStopped(shown, e) == shown \/ e = "active"  \* mutant
ApplyControlEvent(shown, e) ==
    IF e = "video_config" THEN shown ELSE e = "active"

View ==
    LET shown[n \in 0..Len(emitted)] ==
          IF n = 0 THEN FALSE ELSE ApplyControlEvent(shown[n - 1], emitted[n])
    IN shown[Len(emitted)]

-----------------------------------------------------------------------------
(* What module Runner sees of a session: it is the only one, its runner    *)
(* has created it, and listens again once start() has returned.            *)

Only == 1..1
Started == stage \notin {"new", "failed"}
First(seq, H) ==
    seq[CHOOSE i \in DOMAIN seq : /\ seq[i] \in H
                                  /\ \A j \in 1..(i - 1) : seq[j] \notin H]
LastOf(seq, H) ==
    seq[CHOOSE i \in DOMAIN seq :
          seq[i] \in H /\ \A j \in (i + 1)..Len(seq) : seq[j] \notin H]
Has(seq, H) == \E i \in DOMAIN seq : seq[i] \in H

Rounds == {"pingDue", "pingTimeout"}
Round == IF Has(posted, Rounds) THEN First(posted, Rounds)
         ELSE IF promise # "live" THEN "off"
         ELSE IF cancelled \/ timer = "aborted" THEN "cancelled" ELSE "armed"
Waiting == receives > 0 \/ sending # {}
           \/ Has(posted, (Messages \cup Continuations) \ Rounds)
Life == IF stage = "new" THEN "new" ELSE IF stage = "failed" THEN "gone"
        ELSE IF active THEN "active" ELSE "ended"
Reports == {"connecting", "idle"}
Reported == IF Has(emitted, Reports)
            THEN [state |-> LastOf(emitted, Reports), by |-> 1]
            ELSE [state |-> "none", by |-> 0]

Handled == IF io \in {"running", "stopped"} THEN "none"
           ELSE IF io \in {"cancelling", "stopping"} THEN "halting" ELSE io
Locked == io = "cancelling" \/ (io = "caught" /\ stage # "failed")

R == INSTANCE Runner WITH
       MaxSessions <- 1,
       enumerating <- FALSE,
       hubs <- IF stage = "new" THEN 0 ELSE 1,
       restarts <- 0,
       shutdown <- io # "running",
       halted <- io = "stopped",
       signal <- Handled,
       caught <- IF Locked THEN 1 ELSE 0,
       missed <- {},
       session <- [n \in Only |-> Life],
       current <- IF Started THEN 1 ELSE 0,
       global <- 1,
       device <- FALSE,
       starting <- IF stage = "new" THEN 1 ELSE 0,
       keepalive <- [n \in Only |-> Round],
       waiting <- [n \in Only |-> Waiting],
       quit <- [n \in Only |-> quit],
       reported <- Reported,
       touchCb <- IF Started THEN 1 ELSE 0,
       touching <- 0,
       main <- "run",
       usb <- "running"

-----------------------------------------------------------------------------
(* Properties.                                                             *)

HowMany(seq, H) == Cardinality({i \in DOMAIN seq : seq[i] \in H})
Queued(H) == HowMany(posted, H)
One(b) == IF b THEN 1 ELSE 0

(* Every variable has its type, and the keepalive gives up as soon as more *)
(* than MaxUnanswered pings are unanswered.                                *)
TypeOK ==
    /\ active \in BOOLEAN /\ quit \in BOOLEAN /\ cancelled \in BOOLEAN
    /\ emitted \in Seq({"connecting", "video_config", "active", "idle"})
    /\ posted \in Seq(Messages \cup Continuations)
    /\ receives \in Nat /\ sending \subseteq {"request", "bye"}
    /\ timer \in {"off", "armed", "fired", "aborted"}
    /\ promise \in {"none", "live", "rejected"}
    /\ unanswered \in 0..(MaxUnanswered + 1)
    /\ io \in {"running", "flagged", "caught", "cancelling", "stopping",
               "stopped"}
    /\ stage \in {"new", "failed", "version", "handshake", "discovery",
                  "projecting"}
    /\ phone \in {"talking", "silent", "gone"}
    /\ owed \in Nat

(* A live session is never deaf and never listens twice: its control       *)
(* channel has one receive() pending or one message or error to handle,    *)
(* or the phone has said bye and the session is about to end.              *)
OneReceive ==
    /\ receives + Queued(Messages \ {"bye"}) <= 1
    /\ active => \/ receives = 1
                 \/ Queued(Messages \cup {"error", "byeSent"}) > 0
                 \/ "bye" \in sending
    /\ receives = 1 => Queued({"bye", "byeSent"}) = 0 /\ "bye" \notin sending

(* A live session has exactly one keepalive round going, with its timer    *)
(* set, or its result waiting: it can neither stop watching the phone nor  *)
(* ping twice.  A session that ended has at most one.                      *)
OneKeepalive ==
    LET rounds == One(promise = "live") + Queued(Rounds)
    IN /\ rounds <= 1
       /\ active => rounds = 1
       /\ promise = "live" <=> timer # "off"

(* However many errors, timeouts and goodbyes are waiting when a session   *)
(* ends, the server hears "idle" once, and only when it really ended.      *)
IdleOnce ==
    /\ HowMany(emitted, {"idle"}) = One(quit)
    /\ quit => ~active

(* A phone that says nothing any more, on a link that reports no error, is *)
(* noticed by the keepalive and the session ends.                          *)
SilentPhoneDropped == phone = "silent" ~> (~active)

(* Whatever was posted when the session stopped, the keepalive ends too.   *)
Over == stage # "new" /\ ~active
KeepaliveEnds == Over ~> [](timer # "armed")

(* The server hears of the session what is true: it shows an active        *)
(* session from the service discovery on, and no longer than that, until a *)
(* signal has stopped the session, and but in one case: a discovery        *)
(* request that was queued behind the ping timeout (the user took that     *)
(* long to unlock) is still answered, and reported.                        *)
ViewFollows ==
    /\ active /\ stage = "projecting" => View
    /\ View /\ ~active /\ io \in {"running", "flagged", "caught"} =>
         emitted = <<"connecting", "idle", "video_config", "active">>

(* This session does what the runner expects of its sessions: every step   *)
(* is one that Runner allows a session, or nothing that Runner sees.       *)
RunnerSession == [][R!Next]_(R!vars)
=============================================================================
