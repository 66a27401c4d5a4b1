------------------------------- MODULE Runner -------------------------------
(***************************************************************************)
(* The USB runner of aa-handler (aa-handler/src/aasdk_runner.cpp): it      *)
(* listens for a phone, hands it to a new Session, replaces the Session    *)
(* before, and listens again.  main starts the parts and runs the          *)
(* io_service; when a signal stopped it, or an exception left it, main     *)
(* takes everything down.                                                  *)
(*                                                                         *)
(* A handler of the io_service is one step, except onDevice, which makes   *)
(* the device and the Session, publishes the Session, and starts it.       *)
(* on_signal runs beside it, on any thread, in the steps of its lines; one *)
(* signal is handled at a time (bound).  Of a session this module          *)
(* keeps what outlives it: handlers that are posted hold the               *)
(* ControlHandler and the channels, but not the Session that owns their    *)
(* strands.  Which message ends a session, and the count of pings, are     *)
(* left open here; module Session implements this part.                    *)
(***************************************************************************)
EXTENDS Integers

CONSTANT MaxSessions  \* sessions ever created (bound)

ASSUME SessionsAssumption == MaxSessions \in Nat

Ids == 1..MaxSessions
None == 0

VARIABLES
    enumerating, \* the enumerator's promise is not resolved yet
    hubs,        \* hub promises that are not resolved yet
    restarts,    \* timers of scheduleRestart that are pending
    shutdown,    \* g_shutdown
    halted,      \* the io_service is stopped
    signal,      \* how far on_signal is
    caught,      \* the session it has locked, or whose cancel it has posted
    missed,      \* history: sessions not created when on_signal last locked
                 \* g_active_session, or not started when it then stopped it
    session,     \* session[n]: the n-th Session object
    current,     \* current_session_
    global,      \* g_active_session
    device,      \* onDevice has a device and has not published a session
    starting,    \* the session that onDevice has published and not started
    keepalive,   \* keepalive[n]: its timer, or what the timer has posted
    waiting,     \* waiting[n]: a control receive or send, or what it posted
    quit,        \* quit[n]: quit_triggered_
    reported,    \* the last "connecting" or "idle" emitted, and by whom
    touchCb,     \* whose InputSource the touch callback leads to
    touching,    \* the reader thread holds this InputSource
    main,        \* main thread: in io_service::run, or how far from it
    usb          \* the thread of UsbEventThread

hubVars  == <<enumerating, hubs, restarts>>
heldVars == <<current, global, device, starting>>
workVars == <<keepalive, waiting, quit>>
signalVars == <<shutdown, halted, signal, caught, missed>>
mainVars == <<main, usb>>
restVars == <<touchCb, touching, mainVars>>
vars == <<hubVars, heldVars, signalVars, session, workVars, reported,
          restVars>>

Report(state, n) == reported' = [state |-> state, by |-> n]

Init ==
    /\ enumerating = FALSE /\ hubs = 0 /\ restarts = 0
    /\ shutdown = FALSE /\ halted = FALSE
    /\ signal = "none" /\ caught = None /\ missed = {}
    /\ session = [n \in Ids |-> "none"]
    /\ current = None /\ global = None
    /\ device = FALSE /\ starting = None
    /\ keepalive = [n \in Ids |-> "off"]
    /\ waiting = [n \in Ids |-> FALSE]
    /\ quit = [n \in Ids |-> FALSE]
    /\ reported = [state |-> "none", by |-> None]
    /\ touchCb = None /\ touching = None
    /\ main = "boot" /\ usb = "off"

-----------------------------------------------------------------------------
(* Start-up.  Until run_aasdk_handler installs on_signal a signal only     *)
(* sets the g_stop of main.cpp, which nothing reads, and so it does in the *)
(* stub handler, which produces fixture data (Enqueue of IpcBridge) for    *)
(* ever.                                                                   *)

(* ipc.start() or libusb_init() fails.                                     *)
BootFails ==
    /\ main = "boot"
    /\ main' = "failed"
    /\ UNCHANGED <<hubVars, heldVars, signalVars, session, workVars, reported,
                   touchCb, touching, usb>>

BootStub ==
    /\ main = "boot"
    /\ main' = "stub"
    /\ UNCHANGED <<hubVars, heldVars, signalVars, session, workVars, reported,
                   touchCb, touching, usb>>

Boot ==
    /\ main = "boot"
    /\ main' = "run"
    /\ usb' = "running"
    /\ enumerating' = TRUE
    /\ UNCHANGED <<hubs, restarts, heldVars, signalVars, session, workVars,
                   reported, touchCb, touching>>

-----------------------------------------------------------------------------
(* What ends a session.                                                    *)

Active(n) == n # None /\ session[n] = "active"

(* Session::stop, a no-op unless session n is active.  Its timer is        *)
(* cancelled; a continuation that the timer has posted stays.              *)
Stopped(n) ==
    IF Active(n) THEN [session EXCEPT ![n] = "ended"] ELSE session
Cut(n) ==
    IF Active(n) /\ keepalive[n] = "armed"
    THEN [keepalive EXCEPT ![n] = "cancelled"] ELSE keepalive

StrongSelf(n) == TRUE  \* mutant
Locked(n) == session[n] # "gone"  \* weak_self.lock()

(* triggerQuit of the ControlHandler of session n, with its on_quit.       *)
TriggerQuit(n) ==
    /\ quit' = [quit EXCEPT ![n] = TRUE]
    /\ IF ~quit[n] /\ Locked(n)
       THEN /\ Report("idle", n)
            /\ session' = Stopped(n)
       ELSE UNCHANGED <<reported, session>>

-----------------------------------------------------------------------------
(* Listening for a phone.                                                  *)

(* The io_service runs handlers until it is stopped, one after the other.  *)
Running == main = "run" /\ ~halted /\ ~device /\ starting = None

StartHub(before) == hubs' = before + (IF shutdown THEN 0 ELSE 1)

EnumerationDone ==
    /\ Running /\ enumerating
    /\ enumerating' = FALSE
    /\ StartHub(hubs)
    /\ UNCHANGED <<restarts, heldVars, signalVars, session, workVars, reported,
                   restVars>>

GiveUp == restarts  \* mutant
ScheduleRestart == restarts + 1

HubError ==
    /\ Running /\ hubs > 0
    /\ hubs' = hubs - 1
    /\ restarts' = IF shutdown THEN restarts ELSE ScheduleRestart
    /\ UNCHANGED <<enumerating, heldVars, signalVars, session, workVars,
                   reported, restVars>>

RestartDue ==
    /\ Running /\ restarts > 0
    /\ restarts' = restarts - 1
    /\ StartHub(hubs)
    /\ UNCHANGED <<enumerating, heldVars, signalVars, session, workVars,
                   reported, restVars>>

-----------------------------------------------------------------------------
(* onDevice.                                                               *)

OnlyOnSuccess(before) == hubs' = before  \* mutant
TwiceOnError(before) == hubs' = before + 2  \* mutant
ListenAgain(before) == StartHub(before)

DeviceArrives ==
    /\ Running /\ hubs > 0
    /\ hubs' = hubs - 1
    /\ device' = TRUE
    /\ UNCHANGED <<enumerating, restarts, current, global, starting,
                   signalVars, session, workVars, reported, restVars>>

(* AOAPDevice::create throws.                                              *)
DeviceFails ==
    /\ device
    /\ device' = FALSE
    /\ ListenAgain(hubs)
    /\ UNCHANGED <<enumerating, restarts, current, global, starting,
                   signalVars, session, workVars, reported, restVars>>

(* The new session is published, whether a signal came before or not.      *)
CreateSession(n) ==
    /\ device
    /\ session[n] = "none" /\ \A m \in 1..(n - 1) : session[m] # "none"
    /\ device' = FALSE
    /\ session' = [session EXCEPT ![n] = "new"]
    /\ global' = n
    /\ starting' = n
    /\ UNCHANGED <<hubVars, current, signalVars, workVars, reported, restVars>>

(* on_signal holds a Session that it has locked, until it returns from     *)
(* Session::stop.                                                          *)
Kept(n) == signal = "caught" /\ caught = n

(* Session::start throws: the new session goes, the current one stays.     *)
StartThrows ==
    /\ starting # None
    /\ Report("connecting", starting)
    /\ session' = IF Kept(starting) THEN session
                  ELSE [session EXCEPT ![starting] = "gone"]
    /\ ListenAgain(hubs)
    /\ starting' = None
    /\ UNCHANGED <<enumerating, restarts, signalVars, current, global, device,
                   workVars, restVars>>

(* Session::start returns, and current_session_ = session destroys the     *)
(* session before, whose destructor calls stop().                          *)
StartSession ==
    /\ starting # None
    /\ Report("connecting", starting)
    /\ session' = [n \in Ids |->
                     CASE n = starting -> "active"
                       [] n = current /\ ~Kept(n) -> "gone"
                       [] OTHER -> session[n]]
    /\ keepalive' = [(IF Kept(current) THEN keepalive ELSE Cut(current))
                       EXCEPT ![starting] = "armed"]
    /\ waiting' = [waiting EXCEPT ![starting] = TRUE]
    /\ touchCb' = starting
    /\ current' = starting
    /\ StartHub(hubs)
    /\ starting' = None
    /\ UNCHANGED <<enumerating, restarts, signalVars, global, device, quit,
                   touching, mainVars>>

-----------------------------------------------------------------------------
(* What the handlers of session n do, whether it still exists or not.      *)

(* The phone or the link ends it: onChannelError, onByeByeResponse, the    *)
(* end of onByeByeRequest, a failed handshake.  More may be pending.       *)
WaitEnds(n) ==
    /\ Running /\ waiting[n]
    /\ \E more \in BOOLEAN : waiting' = [waiting EXCEPT ![n] = more]
    /\ TriggerQuit(n)
    /\ keepalive' = IF quit[n] THEN keepalive ELSE Cut(n)
    /\ UNCHANGED <<hubVars, heldVars, signalVars, restVars>>

(* OPERATION_ABORTED, after stop(): onChannelError ignores it.             *)
WaitAborted(n) ==
    /\ Running /\ waiting[n] /\ ~Active(n)
    /\ waiting' = [waiting EXCEPT ![n] = FALSE]
    /\ UNCHANGED <<hubVars, heldVars, signalVars, session, keepalive, quit,
                   reported, restVars>>

(* onTimerExceeded, and the continuation that it posts.                    *)
TimerHandled(n) ==
    /\ Running
    /\ \/ /\ keepalive[n] = "armed"
          /\ \E due \in {"pingDue", "pingTimeout"} :
               keepalive' = [keepalive EXCEPT ![n] = due]
       \/ /\ keepalive[n] = "cancelled"
          /\ keepalive' = [keepalive EXCEPT ![n] = "off"]
    /\ UNCHANGED <<hubVars, heldVars, signalVars, session, waiting, quit,
                   reported, restVars>>

(* schedulePing: sendPing(), and ping() clears cancelled_.                 *)
PingDue(n) ==
    /\ Running /\ keepalive[n] = "pingDue"
    /\ keepalive' = [keepalive EXCEPT ![n] = "armed"]
    /\ waiting' = [waiting EXCEPT ![n] = TRUE]
    /\ UNCHANGED <<hubVars, heldVars, signalVars, session, quit, reported,
                   restVars>>

PingTimeout(n) ==
    /\ Running /\ keepalive[n] = "pingTimeout"
    /\ keepalive' = [keepalive EXCEPT ![n] = "off"]
    /\ TriggerQuit(n)
    /\ UNCHANGED <<hubVars, heldVars, signalVars, waiting, restVars>>

SessionWork(n) ==
    \/ WaitEnds(n) \/ WaitAborted(n)
    \/ TimerHandled(n) \/ PingDue(n) \/ PingTimeout(n)

-----------------------------------------------------------------------------
(* The reader thread of the bridge: the touch callback locks its weak      *)
(* pointer, then dispatchTouch dispatches on the strand of the session.    *)

Held(n) == session[n] \in {"active", "ended"} \/ keepalive[n] # "off"
           \/ waiting[n]

TouchLock ==
    /\ main \in {"run", "usb", "ipc"} /\ touching = None
    /\ touchCb # None /\ Held(touchCb)
    /\ touching' = touchCb
    /\ UNCHANGED <<hubVars, heldVars, signalVars, session, workVars, reported,
                   touchCb, mainVars>>

DispatchTouch ==
    /\ touching # None
    /\ touching' = None
    /\ UNCHANGED <<hubVars, heldVars, signalVars, session, workVars, reported,
                   touchCb, mainVars>>

-----------------------------------------------------------------------------
(* on_signal, on any thread and at any time, again and again.              *)

signalRest == <<hubVars, heldVars, waiting, quit, reported, restVars>>

SignalFlag ==
    /\ main \in {"run", "usb", "ipc", "exit"} /\ signal = "none"
    /\ shutdown' = TRUE
    /\ signal' = "flagged"
    /\ UNCHANGED <<halted, caught, missed, session, keepalive, signalRest>>

(* g_active_session.lock()                                                 *)
SignalLock ==
    /\ signal = "flagged"
    /\ signal' = "caught"
    /\ caught' = IF global # None /\ Locked(global) THEN global ELSE None
    /\ missed' = {n \in Ids : session[n] = "none"}
    /\ UNCHANGED <<shutdown, halted, session, keepalive, signalRest>>

(* session->stop(), and then the handler's pointer is released: a session  *)
(* that onDevice has dropped meanwhile goes.                               *)
Forgets == session  \* mutant
Released == IF caught \in {None, current, starting} THEN Stopped(caught)
            ELSE [session EXCEPT ![caught] = "gone"]

(* The cancel of the timer is run on the spot or posted.                   *)
SignalStop ==
    /\ signal = "caught"
    /\ signal' = "halting"
    /\ session' = Released
    /\ missed' = missed \cup {n \in Ids : session[n] = "new"}
    /\ \/ keepalive' = Cut(caught) /\ caught' = None
       \/ Active(caught) /\ UNCHANGED <<keepalive, caught>>
    /\ UNCHANGED <<shutdown, halted, signalRest>>

(* A posted cancel may run, until the io_service is stopped; stop() posts  *)
(* that of the session and that of its control handler.                    *)
CancelRuns ==
    /\ Running /\ signal = "halting" /\ caught # None
    /\ keepalive' = IF keepalive[caught] = "armed"
                    THEN [keepalive EXCEPT ![caught] = "cancelled"]
                    ELSE keepalive
    /\ caught' \in {caught, None}
    /\ UNCHANGED <<shutdown, halted, signal, missed, session, signalRest>>

SignalHalt ==
    /\ signal = "halting"
    /\ halted' = TRUE
    /\ signal' = "none" /\ caught' = None
    /\ UNCHANGED <<shutdown, missed, session, keepalive, signalRest>>

Signal == SignalFlag \/ SignalLock \/ SignalStop \/ CancelRuns \/ SignalHalt

-----------------------------------------------------------------------------
(* main after io_service::run.  runner->stop() only posts cancels, which   *)
(* nothing runs any more; then each part is stopped and joined.            *)

downRest == <<hubVars, heldVars, signalVars, session, workVars, reported,
              touchCb, touching>>

KeepsRunning == "running"  \* mutant
ToldToStop == "stopping"  \* running_.store(false)

LeaveLoop ==
    /\ main' = "usb"
    /\ usb' = ToldToStop
    /\ UNCHANGED downRest

LoopEnds ==
    /\ main = "run" /\ halted /\ ~device /\ starting = None
    /\ LeaveLoop

LoopThrows ==  \* an exception of a handler comes out of io_service::run
    /\ Running
    /\ LeaveLoop

(* The event thread returns from handleEvents and tests running_.          *)
UsbThreadEnds ==
    /\ usb = "stopping"
    /\ usb' = "done"
    /\ UNCHANGED <<main, downRest>>

JoinUsb ==
    /\ main = "usb" /\ usb = "done"
    /\ main' = "ipc"
    /\ UNCHANGED <<usb, downRest>>

StopIpc ==  \* joins the reader thread (StopTerminates of IpcBridge)
    /\ main = "ipc" /\ touching = None
    /\ main' = "exit"
    /\ UNCHANGED <<usb, downRest>>

(* Only the main thread is left to run on_signal, in between.              *)
LibusbExit ==
    /\ main = "exit" /\ signal = "none"
    /\ main' = "returned"
    /\ UNCHANGED <<usb, downRest>>

TakeDown == LoopEnds \/ UsbThreadEnds \/ JoinUsb \/ StopIpc \/ LibusbExit

-----------------------------------------------------------------------------

Next ==
    \/ BootFails \/ BootStub \/ Boot
    \/ EnumerationDone \/ HubError \/ RestartDue
    \/ DeviceArrives \/ DeviceFails \/ StartThrows \/ StartSession
    \/ \E n \in Ids : CreateSession(n) \/ SessionWork(n)
    \/ TouchLock \/ DispatchTouch
    \/ Signal \/ LoopThrows \/ TakeDown
    \/ main \in {"stub", "failed", "returned"} /\ UNCHANGED vars

Spec == Init /\ [][Next]_vars

(* The io thread runs: the enumeration ends, timers expire, and onDevice   *)
(* and on_signal return.  handleEvents returns, at the latest after a      *)
(* minute, and so does a touch; the reader that StopIpc joins has only the *)
(* lines of one read left to dispatch, and signals leave main the time to  *)
(* return.  No phone has to come, and no hub to fail.                      *)
Fairness == /\ WF_vars(EnumerationDone) /\ WF_vars(RestartDue)
            /\ WF_vars(DeviceFails \/ \E n \in Ids : CreateSession(n))
            /\ WF_vars(StartThrows \/ StartSession)
            /\ WF_vars(SignalLock \/ SignalStop \/ SignalHalt)
            /\ WF_vars(DispatchTouch) /\ WF_vars(TakeDown)
            /\ SF_vars(StopIpc) /\ SF_vars(LibusbExit)

FairSpec == Spec /\ Fairness

-----------------------------------------------------------------------------
(* Properties.                                                             *)

(* Every variable has its type, and listening never piles up.              *)
TypeOK ==
    /\ {enumerating, device, shutdown, halted} \subseteq BOOLEAN
    /\ signal \in {"none", "flagged", "caught", "halting"}
    /\ caught \in Ids \cup {None} /\ missed \subseteq Ids
    /\ hubs \in 0..1 /\ restarts \in 0..1
    /\ session \in [Ids -> {"none", "new", "active", "ended", "gone"}]
    /\ current \in Ids \cup {None} /\ global \in Ids \cup {None}
    /\ starting \in Ids \cup {None}
    /\ touchCb \in Ids \cup {None} /\ touching \in Ids \cup {None}
    /\ keepalive \in
         [Ids -> {"off", "armed", "cancelled", "pingDue", "pingTimeout"}]
    /\ waiting \in [Ids -> BOOLEAN] /\ quit \in [Ids -> BOOLEAN]
    /\ reported \in [state : {"none", "connecting", "idle"},
                     by : Ids \cup {None}]
    /\ main \in {"boot", "stub", "failed", "run", "usb", "ipc", "exit",
                 "returned"}
    /\ usb \in {"off", "running", "stopping", "done"}

One(b) == IF b THEN 1 ELSE 0

(* However devices, hub errors, failing devices and throwing sessions      *)
(* follow one another, the runner is listening, about to, or busy with a   *)
(* device, in exactly one of these ways until a signal: never with two     *)
(* hubs, and never not at all.                                             *)
Booting == main \in {"boot", "stub", "failed"}
OneHub ==
    LET ways == hubs + restarts + One(enumerating) + One(device)
                + One(starting # None)
    IN ways <= 1 /\ (ways = 1 \/ shutdown \/ Booting)

(* The phone can be plugged in again at any time ("After a session ends    *)
(* the user can plug the phone again", aasdk_runner.cpp:161): a hub is     *)
(* listening again and again.                                              *)
HubListens == []<>(hubs > 0 \/ shutdown \/ main # "run")

(* A signal that on_signal handles, at whatever moment, ends the program:  *)
(* every thread is stopped and joined, a touch in progress included.       *)
SignalEnds == shutdown ~> main = "returned"

(* g_active_session is there "so a signal handler can tear it down         *)
(* cleanly" (aasdk_runner.cpp:40-41).  When on_signal has returned and     *)
(* main takes the rest down, a session is still active in two cases only:  *)
(* onDevice, which tests g_shutdown last, created it after on_signal had   *)
(* locked g_active_session or started it after on_signal's stop(), or a    *)
(* later session took its place in g_active_session and did not start.     *)
SignalStops ==
    \A n \in Ids :
      session[n] = "active" /\ shutdown /\ signal = "none" /\ main # "run" =>
        \/ n \in missed
        \/ global > n /\ session[global] = "gone"

(* Handlers that a replaced session left behind do not report the end of   *)
(* the new one: the last report is "idle" only when the current session    *)
(* said so, or a signal had its old session in hand.                       *)
IdleOfCurrent ==
    reported.state = "idle" => reported.by = current \/ shutdown

(* "channels need a strand reference that outlives them"                   *)
(* (aa/Session.cpp:9-10): no handler or touch of a session is left when    *)
(* the Session, which owns the strands, is destroyed.                      *)
StrandsOutlive ==
    \A n \in Ids : session[n] = "gone" =>
      keepalive[n] = "off" /\ ~waiting[n] /\ touching # n
=============================================================================
