---------------------------- MODULE RunnerProofs ----------------------------
(***************************************************************************)
(* Proofs about Runner, for any number of sessions.                        *)
(***************************************************************************)
EXTENDS Runner, TLAPS

(* Why a left-over handler cannot speak for the current session: a handler *)
(* is pending only for a session that was started, and a started session   *)
(* that is not gone is the current one, or kept by on_signal.              *)
Pending(n) == keepalive[n] # "off" \/ waiting[n]
Ownership ==
    /\ starting # None => session[starting] = "new"
    /\ current # None => session[current] \in {"active", "ended", "gone"}
    /\ \A n \in Ids : session[n] = "new" => n = starting \/ Kept(n)
    /\ \A n \in Ids :
         session[n] \in {"active", "ended"} => n = current \/ Kept(n)
    /\ \A n \in Ids : Pending(n) => session[n] \in {"active", "ended", "gone"}
    /\ \A n \in Ids : Kept(n) => session[n] \in {"new", "active", "ended"}

(* What a signal finds: g_active_session is the latest session created,    *)
(* and an active session is the latest, or the latest is not active, or    *)
(* on_signal has one of the two in hand.                                   *)
Latest ==
    /\ \A n \in Ids : session[n] # "none" <=> n <= global
    /\ starting # None => starting = global /\ main = "run" /\ ~device
    /\ device => main = "run"
    /\ \A n \in Ids : session[n] = "active" /\ n # global =>
         \/ session[global] = "gone" \/ global = starting
         \/ Kept(global) \/ Kept(n)

(* What on_signal did: once it has locked g_active_session every session   *)
(* it has not in hand is missed, if it may be active later.                *)
Ahead(n) == \/ session[n] = "none"
            \/ n = global /\ n # caught /\ session[n] \in {"new", "active"}
Left(n) == \/ session[n] \in {"none", "new"}
           \/ n = global /\ session[n] = "active"
Heard ==
    /\ signal # "none" => shutdown
    /\ signal = "caught" => \A n \in Ids : Ahead(n) => n \in missed
    /\ signal = "halting" \/ (signal = "none" /\ shutdown) =>
         \A n \in Ids : Left(n) => n \in missed

(* Nothing listens before run_aasdk_handler has started.                   *)
Asleep == Booting => hubs = 0 /\ restarts = 0 /\ ~enumerating

(* The inductive invariant.                                                *)
IInv == /\ TypeOK /\ OneHub /\ IdleOfCurrent
        /\ Ownership /\ Latest /\ Heard /\ Asleep

-----------------------------------------------------------------------------

(* None is not a session.                                                  *)
LEMMA NoneIsNoId == None \notin Ids
  BY SessionsAssumption DEF None, Ids

(* The invariant holds initially.                                          *)
LEMMA Initially == Init => IInv
<1> SUFFICES ASSUME Init PROVE IInv
  OBVIOUS
<1>1. TypeOK
  <2>1. /\ keepalive \in [Ids -> {"off"}] /\ session \in [Ids -> {"none"}]
        /\ waiting \in [Ids -> BOOLEAN] /\ quit \in [Ids -> BOOLEAN]
    BY Zenon DEF Init
  <2>2. reported \in [state : {"none"}, by : {None}]
    BY DEF Init
  <2>3. hubs \in 0..1 /\ restarts \in 0..1
    BY DEF Init
  <2> QED
    BY <2>1, <2>2, <2>3 DEF Init, TypeOK
<1>2. OneHub /\ Asleep
  BY DEF Init, OneHub, One, Booting, Asleep
<1>3. Ownership /\ Heard
  BY DEF Init, Ownership, Pending, Kept, Heard
<1>4. Latest
  BY DEF Init, Latest, None, Ids
<1>5. IdleOfCurrent
  BY DEF Init, IdleOfCurrent
<1> QED
  BY <1>1, <1>2, <1>3, <1>4, <1>5 DEF IInv

(* Start-up, and listening: these steps leave the sessions alone.          *)
LEMMA HubSteps ==
  ASSUME IInv,
         \/ BootFails \/ BootStub \/ Boot
         \/ EnumerationDone \/ HubError \/ RestartDue
         \/ DeviceArrives \/ DeviceFails
  PROVE  IInv'
<1> USE DEF IInv, hubVars, heldVars, workVars, signalVars, mainVars, restVars
<1>1. UNCHANGED <<session, current, global, starting, keepalive, waiting,
                  quit, reported, touchCb, touching, signalVars>>
  BY DEF BootFails, BootStub, Boot, EnumerationDone, HubError, RestartDue,
     DeviceArrives, DeviceFails
<1>2. /\ hubs' \in 0..1 /\ restarts' \in 0..1 /\ enumerating' \in BOOLEAN
      /\ device' \in BOOLEAN /\ OneHub' /\ Asleep'
      /\ main' \in {"stub", "failed", "run"} \/ UNCHANGED main
      /\ usb' \in {"off", "running", "stopping", "done"}
      /\ (starting # None => main' = "run" /\ ~device')
      /\ (device' => main' = "run")
  <2>1. CASE BootFails \/ BootStub \/ Boot
    <3>1. /\ starting = None /\ hubs = 0 /\ restarts = 0
          /\ enumerating = FALSE /\ device = FALSE
          /\ usb \in {"off", "running", "stopping", "done"}
      BY <2>1 DEF BootFails, BootStub, Boot, Latest, Booting, Asleep, TypeOK
    <3>2. /\ hubs' = 0 /\ restarts' = 0
          /\ device' = FALSE /\ device' \in BOOLEAN
          /\ main' \in {"stub", "failed", "run"}
          /\ usb' \in {"off", "running", "stopping", "done"}
          /\ \/ ~enumerating' /\ main' # "run"
             \/ enumerating' = TRUE /\ main' = "run"
          /\ enumerating' \in BOOLEAN
      <4>1. CASE BootFails
        BY <3>1, <4>1 DEF BootFails
      <4>2. CASE BootStub
        BY <3>1, <4>2 DEF BootStub
      <4>3. CASE Boot
        BY <3>1, <4>3 DEF Boot
      <4> QED
        BY <2>1, <4>1, <4>2, <4>3
    <3>3. OneHub' /\ Asleep'
      BY <1>1, <3>1, <3>2 DEF OneHub, One, Booting, Asleep
    <3>4. (starting # None => main' = "run" /\ ~device')
          /\ (device' => main' = "run")
      BY <3>1, <3>2, Zenon
    <3>5. hubs' \in 0..1 /\ restarts' \in 0..1
      BY <3>2
    <3> QED
      BY <3>2, <3>3, <3>4, <3>5, Zenon
  <2>2. CASE EnumerationDone
    <3>1. /\ enumerating /\ enumerating' = FALSE
          /\ starting = None /\ device = FALSE /\ device' = FALSE
          /\ restarts' = restarts /\ UNCHANGED <<main, usb>> /\ main = "run"
      BY <2>2 DEF EnumerationDone, Running, TypeOK
    <3>2. One(enumerating) = 1 /\ One(enumerating') = 0
          /\ One(starting # None) = 0 /\ One((starting # None)') = 0
          /\ One(device) = 0 /\ One(device') = 0
      BY <1>1, <3>1 DEF One
    <3>3. hubs = 0 /\ restarts = 0
      BY <3>2 DEF TypeOK, OneHub
    <3>4. hubs' = 1 \/ (hubs' = 0 /\ shutdown')
      BY <1>1, <2>2, <3>1, <3>3 DEF EnumerationDone, StartHub
    <3>5. OneHub'
      BY <1>1, <3>1, <3>2, <3>3, <3>4 DEF OneHub
    <3>6. Asleep' /\ main' = "run"
      BY <1>1, <3>1 DEF Booting, Asleep
    <3>7. usb' \in {"off", "running", "stopping", "done"}
      BY <3>1 DEF TypeOK
    <3>8. hubs' \in 0..1 /\ restarts' \in 0..1
      BY <3>1, <3>3, <3>4
    <3>9. enumerating' \in BOOLEAN /\ device' \in BOOLEAN
      BY <3>1, Zenon
    <3> QED
      BY <3>1, <3>5, <3>6, <3>7, <3>8, <3>9
  <2>3. CASE HubError \/ RestartDue \/ DeviceArrives \/ DeviceFails
    <3>1. /\ enumerating' = enumerating /\ starting = None
          /\ device' \in BOOLEAN
          /\ UNCHANGED <<main, usb>> /\ main = "run"
      BY <2>3 DEF HubError, RestartDue, DeviceArrives, DeviceFails, Running,
         Latest, TypeOK
    <3>2. /\ hubs' \in 0..1 /\ restarts' \in 0..1
          /\ LET now == hubs + restarts + One(device)
                 next == hubs' + restarts' + One(device')
             IN next = now \/ (next = now - 1 /\ shutdown)
      <4>1. /\ hubs \in 0..1 /\ restarts \in 0..1 /\ device \in BOOLEAN
            /\ hubs + restarts + One(device) <= 1
        <5>1. One(enumerating) \in 0..1 /\ One(starting # None) \in 0..1
              /\ One(device) \in 0..1
          BY DEF One
        <5> QED
          BY <5>1 DEF TypeOK, OneHub
      <4>2. CASE HubError
        BY <4>1, <4>2 DEF HubError, ScheduleRestart, One
      <4>3. CASE RestartDue
        BY <3>1, <4>1, <4>3 DEF RestartDue, StartHub, One
      <4>4. CASE DeviceArrives
        <5>1. device = FALSE /\ device' = TRUE
          BY <4>1, <4>4 DEF DeviceArrives, Running
        <5>2. One(device) = 0 /\ One(device') = 1
          BY <5>1 DEF One
        <5> QED
          BY <4>1, <4>4, <5>2 DEF DeviceArrives
      <4>5. CASE DeviceFails
        <5>1. device = TRUE /\ device' = FALSE
          BY <4>1, <4>5 DEF DeviceFails
        <5>2. One(device) = 1 /\ One(device') = 0
          BY <5>1 DEF One
        <5>3. hubs' = hubs + 1 \/ (hubs' = hubs /\ shutdown)
          BY <4>1, <4>5 DEF DeviceFails, ListenAgain, StartHub
        <5>4. restarts' = restarts
          BY <4>5 DEF DeviceFails
        <5>5. hubs = 0 /\ restarts = 0
          BY <4>1, <5>2
        <5> QED
          BY <5>2, <5>3, <5>4, <5>5
      <4> QED
        BY <2>3, <4>2, <4>3, <4>4, <4>5
    <3>3. OneHub'
      <4>1. One(enumerating') = One(enumerating)
            /\ One((starting # None)') = One(starting # None)
        BY <1>1, <3>1 DEF One
      <4>2. /\ One(enumerating) \in 0..1 /\ One(starting # None) \in 0..1
            /\ One(device) \in 0..1 /\ One(device') \in 0..1
        BY DEF One
      <4>3. Booting' <=> Booting
        BY <3>1 DEF Booting
      <4> QED
        BY <1>1, <3>2, <4>1, <4>2, <4>3 DEF TypeOK, OneHub
    <3> QED
      BY <1>1, <3>1, <3>2, <3>3 DEF TypeOK, Booting, Asleep
  <2> QED
    BY <2>1, <2>2, <2>3
<1>3. TypeOK'
  BY <1>1, <1>2 DEF TypeOK
<1>4. Ownership' /\ IdleOfCurrent' /\ Heard'
  BY <1>1 DEF Ownership, Pending, Kept, IdleOfCurrent, Heard, Ahead, Left
<1>5. Latest'
  BY <1>1, <1>2 DEF Latest, Kept
<1> QED
  BY <1>2, <1>3, <1>4, <1>5

(* A session is published: on_signal has missed it.                        *)
LEMMA CreateStep ==
  ASSUME IInv, NEW n \in Ids, CreateSession(n)
  PROVE  IInv'
<1> USE NoneIsNoId DEF IInv, signalVars, workVars, mainVars, restVars
<1>1. /\ session[n] = "none" /\ session' = [session EXCEPT ![n] = "new"]
      /\ global' = n /\ starting' = n /\ device = TRUE /\ device' = FALSE
      /\ main = "run" /\ starting = None
      /\ UNCHANGED <<hubVars, current, shutdown, halted, signal, caught,
                     missed, keepalive, waiting, quit, reported, touchCb,
                     touching, main, usb>>
  BY DEF CreateSession, TypeOK, Latest
<1>2. n = global + 1
  BY SessionsAssumption DEF CreateSession, TypeOK, Latest, Ids, None
<1>3. TypeOK'
  BY <1>1 DEF TypeOK, hubVars
<1>4. OneHub' /\ Asleep' /\ IdleOfCurrent'
  <2>1. One(device) = 1 /\ One(device') = 0
        /\ One(starting # None) = 0 /\ One((starting # None)') = 1
    BY <1>1 DEF One
  <2> QED
    BY <1>1, <2>1 DEF TypeOK, OneHub, Booting, Asleep, IdleOfCurrent, hubVars
<1>5. Ownership'
  BY <1>1 DEF TypeOK, Ownership, Pending, Kept
<1>6. Latest'
  <2>1. \A m \in Ids : session'[m] # "none" <=> m <= global'
    BY <1>1, <1>2, SessionsAssumption DEF TypeOK, Latest, Ids, None
  <2> QED
    BY <1>1, <2>1 DEF Latest, Kept
<1>7. Heard'
  BY <1>1 DEF TypeOK, Heard, Ahead, Left
<1> QED
  BY <1>3, <1>4, <1>5, <1>6, <1>7

(* start() throws, or returns.                                             *)
LEMMA StartSteps ==
  ASSUME IInv, StartThrows \/ StartSession
  PROVE  IInv'
<1> USE NoneIsNoId DEF IInv, signalVars, workVars, mainVars, restVars
<1>0. /\ starting \in Ids /\ starting = global /\ session[starting] = "new"
      /\ device = FALSE /\ main = "run" /\ main' = main
      /\ starting' = None /\ device' = device /\ global' = global
      /\ UNCHANGED <<enumerating, restarts, shutdown, halted, signal, caught,
                     missed, usb>>
      /\ hubs' = hubs + (IF shutdown THEN 0 ELSE 1)
      /\ reported' = [state |-> "connecting", by |-> starting]
  BY DEF StartThrows, StartSession, TypeOK, Ownership, Latest, Report,
     ListenAgain, StartHub
<1>1. OneHub' /\ Asleep' /\ IdleOfCurrent' /\ hubs' \in 0..1
  <2>1. One(starting # None) = 1 /\ One((starting # None)') = 0
        /\ One(device') = One(device)
        /\ One(enumerating') = One(enumerating)
    BY <1>0 DEF One
  <2>2. One(enumerating) \in 0..1 /\ One(device) \in 0..1
    BY DEF One
  <2> QED
    BY <1>0, <2>1, <2>2 DEF TypeOK, OneHub, Booting, Asleep, IdleOfCurrent
<1>2. CASE StartThrows
  <2>1. /\ session' = IF Kept(starting) THEN session
                      ELSE [session EXCEPT ![starting] = "gone"]
        /\ UNCHANGED <<current, keepalive, waiting, quit, touchCb, touching>>
    BY <1>2 DEF StartThrows
  <2>2. TypeOK'
    BY <1>0, <1>1, <2>1 DEF TypeOK
  <2>3. Ownership'
    BY <1>0, <2>1 DEF TypeOK, Ownership, Pending, Kept
  <2>4. Latest'
    BY <1>0, <2>1 DEF TypeOK, Latest, Kept
  <2>5. Heard'
    BY <1>0, <2>1 DEF TypeOK, Heard, Ahead, Left
  <2> QED
    BY <1>1, <2>2, <2>3, <2>4, <2>5
<1>3. CASE StartSession
  <2>1. /\ session' = [n \in Ids |->
                         CASE n = starting -> "active"
                           [] n = current /\ ~Kept(n) -> "gone"
                           [] OTHER -> session[n]]
        /\ \/ keepalive' = [keepalive EXCEPT ![starting] = "armed"]
           \/ keepalive' = [Cut(current) EXCEPT ![starting] = "armed"]
        /\ waiting' = [waiting EXCEPT ![starting] = TRUE]
        /\ touchCb' = starting /\ current' = starting
        /\ UNCHANGED <<quit, touching>>
    BY <1>3 DEF StartSession
  <2>2. current # starting
    BY <1>0 DEF Ownership
  <2>3. \A n \in Ids :
          session'[n] = IF n = starting THEN "active"
                        ELSE IF n = current /\ ~Kept(n) THEN "gone"
                        ELSE session[n]
    BY <2>1, <2>2
  <2>4. \A n \in Ids : n # starting =>
          /\ keepalive'[n] # "off" => keepalive[n] # "off"
          /\ waiting'[n] = waiting[n]
    BY <1>0, <2>1 DEF TypeOK, Cut
  <2>5. TypeOK'
    <3>1. session' \in [Ids -> {"none", "new", "active", "ended", "gone"}]
      BY <2>1 DEF TypeOK
    <3>2. keepalive' \in
            [Ids -> {"off", "armed", "cancelled", "pingDue", "pingTimeout"}]
      BY <1>0, <2>1 DEF TypeOK, Cut
    <3> QED
      BY <1>0, <1>1, <2>1, <3>1, <3>2 DEF TypeOK
  <2>6. Ownership'
    <3>1. \A n \in Ids : Kept(n)' <=> Kept(n)
      BY <1>0 DEF Kept
    <3>2. \A n \in Ids : session'[n] = "new" => n = starting' \/ Kept(n)
      BY <1>0, <2>3 DEF Ownership
    <3>3. \A n \in Ids :
            session'[n] \in {"active", "ended"} => n = starting \/ Kept(n)
      BY <2>3 DEF Ownership
    <3>4. \A n \in Ids :
            Pending(n)' => session'[n] \in {"active", "ended", "gone"}
      BY <2>3, <2>4 DEF Ownership, Pending
    <3>5. \A n \in Ids :
            Kept(n) => session'[n] \in {"new", "active", "ended"}
      BY <2>3 DEF Ownership
    <3> QED
      BY <1>0, <2>1, <2>3, <3>1, <3>2, <3>3, <3>4, <3>5 DEF Ownership
  <2>7. Latest'
    <3>1. \A n \in Ids : session'[n] = "none" <=> session[n] = "none"
      BY <1>0, <2>2, <2>3 DEF Ownership
    <3>2. \A n \in Ids : session'[n] = "active" => n = starting \/ Kept(n)
      BY <2>3 DEF Ownership
    <3> QED
      BY <1>0, <3>1, <3>2 DEF Latest, Kept
  <2>8. Heard'
    <3>1. \A n \in Ids : Ahead(n)' => Ahead(n)
      BY <1>0, <2>2, <2>3 DEF Ahead, Ownership
    <3>2. \A n \in Ids : Left(n)' => Left(n)
      BY <1>0, <2>2, <2>3 DEF Left, Ownership
    <3> QED
      BY <1>0, <3>1, <3>2 DEF Heard
  <2> QED
    BY <1>1, <2>5, <2>6, <2>7, <2>8
<1> QED
  BY <1>2, <1>3

(* The handlers of a session.  Only here is "idle" reported, and Ownership *)
(* makes the session that does so the current one.                         *)
LEMMA SessionSteps ==
  ASSUME IInv, NEW n \in Ids, SessionWork(n)
  PROVE  IInv'
<1> USE NoneIsNoId DEF IInv, hubVars, heldVars, signalVars, mainVars, restVars
<1>1. Pending(n)
  BY DEF SessionWork, WaitEnds, WaitAborted, TimerHandled, PingDue,
     PingTimeout, Pending
<1>2. Locked(n) => n = current \/ shutdown
  BY <1>1 DEF Locked, Ownership, Kept, Heard
<1>3. TypeOK'
  <2>1. /\ waiting' \in [Ids -> BOOLEAN] /\ quit' \in [Ids -> BOOLEAN]
    <3>1. CASE WaitEnds(n)
      <4> PICK more \in BOOLEAN : waiting' = [waiting EXCEPT ![n] = more]
        BY <3>1 DEF WaitEnds
      <4>1. waiting' \in [Ids -> BOOLEAN]
        BY DEF TypeOK
      <4> QED
        BY <3>1, <4>1 DEF TypeOK, WaitEnds, TriggerQuit
    <3> QED
      BY <3>1 DEF TypeOK, SessionWork, WaitAborted, TimerHandled, PingDue,
         PingTimeout, TriggerQuit
  <2> QED
  BY <2>1 DEF TypeOK, SessionWork, WaitEnds, WaitAborted, TimerHandled,
     PingDue, PingTimeout, TriggerQuit, Report, Stopped, Cut, Active
<1>4. UNCHANGED <<hubs, restarts, enumerating, current, global, device,
                  starting, main, signalVars>>
  BY DEF SessionWork, WaitEnds, WaitAborted, TimerHandled, PingDue,
     PingTimeout
<1>5. OneHub'
  BY <1>4 DEF OneHub, One, Booting
<1>6. session' = session \/ session' = Stopped(n)
  BY DEF SessionWork, WaitEnds, WaitAborted, TimerHandled, PingDue,
     PingTimeout, TriggerQuit
<1>7. \A m \in Ids : \/ session'[m] = session[m]
                     \/ session[m] = "active" /\ session'[m] = "ended"
  BY <1>6 DEF TypeOK, Stopped, Active
<1>8. \A m \in Ids : Pending(m)' => Pending(m)
  <2>1. \A m \in Ids \ {n} :
          waiting'[m] = waiting[m]
          /\ (keepalive'[m] # "off" => keepalive[m] # "off")
    BY DEF TypeOK, SessionWork, WaitEnds, WaitAborted, TimerHandled, PingDue,
       PingTimeout, Cut
  <2> QED
    BY <1>1, <2>1 DEF Pending
<1>9. Ownership'
  <2>1. starting # None => session'[starting] = "new"
    BY <1>7 DEF Ownership, TypeOK
  <2>2. current # None => session'[current] \in {"active", "ended", "gone"}
    BY <1>7 DEF Ownership, TypeOK
  <2>3. \A m \in Ids :
          /\ session'[m] = "new" => session[m] = "new"
          /\ session'[m] \in {"active", "ended"} =>
               session[m] \in {"active", "ended"}
          /\ session[m] \in {"active", "ended", "gone"} =>
               session'[m] \in {"active", "ended", "gone"}
          /\ session[m] \in {"new", "active", "ended"} =>
               session'[m] \in {"new", "active", "ended"}
          /\ Kept(m)' <=> Kept(m)
    BY <1>4, <1>7 DEF Kept
  <2> QED
    BY <1>4, <1>8, <2>1, <2>2, <2>3 DEF Ownership
<1>10. Heard' /\ Asleep'
  BY <1>4, <1>7 DEF Heard, Ahead, Left, Booting, Asleep
<1>11. Latest'
  <2>1. global \in Ids /\ session[global] = "gone" =>
          session'[global] = "gone"
    BY <1>7
  <2>2. \A m \in Ids : session[m] = "active" => global \in Ids
    BY SessionsAssumption DEF Latest, TypeOK, Ids, None
  <2>3. \A m \in Ids : session'[m] # "none" <=> session[m] # "none"
    BY <1>7
  <2>4. \A m \in Ids : session'[m] = "active" => session[m] = "active"
    BY <1>7
  <2> QED
    BY <1>4, <2>1, <2>2, <2>3, <2>4 DEF Latest, Kept
<1>12. IdleOfCurrent'
  BY <1>2 DEF IdleOfCurrent, SessionWork, WaitEnds, WaitAborted,
     TimerHandled, PingDue, PingTimeout, TriggerQuit, Report
<1> QED
  BY <1>3, <1>5, <1>9, <1>10, <1>11, <1>12

(* The steps of on_signal.                                                 *)
LEMMA SignalSteps ==
  ASSUME IInv, Signal
  PROVE  IInv'
<1> USE NoneIsNoId DEF IInv, hubVars, heldVars, signalVars, mainVars,
        restVars, signalRest
<1>1. UNCHANGED <<hubs, restarts, enumerating, current, global, device,
                  starting, waiting, quit, reported, touchCb, touching, main,
                  usb>>
  BY DEF Signal, SignalFlag, SignalLock, SignalStop, CancelRuns, SignalHalt
<1>2. shutdown => shutdown'
  BY DEF Signal, SignalFlag, SignalLock, SignalStop, CancelRuns, SignalHalt
<1>3. OneHub' /\ Asleep' /\ IdleOfCurrent'
  BY <1>1, <1>2 DEF OneHub, One, Booting, Asleep, IdleOfCurrent
<1>4. CASE SignalFlag \/ SignalHalt
  <2>1. /\ shutdown' = TRUE /\ halted' \in BOOLEAN
        /\ \/ signal = "none" /\ signal' = "flagged"
           \/ signal = "halting" /\ signal' = "none"
        /\ caught' \in {caught, None}
        /\ UNCHANGED <<missed, session, keepalive>>
    BY <1>4 DEF SignalFlag, SignalHalt, TypeOK, Heard
  <2>2. TypeOK'
    BY <1>1, <2>1 DEF TypeOK
  <2>3. Ownership'
    BY <1>1, <2>1 DEF Ownership, Pending, Kept
  <2>4. Latest' /\ Heard'
    BY <1>1, <2>1 DEF Latest, Kept, Heard, Left
  <2> QED
    BY <1>3, <2>2, <2>3, <2>4
<1>5. CASE SignalLock
  <2>1. /\ signal = "flagged" /\ signal' = "caught" /\ shutdown' = shutdown
        /\ caught' = IF global # None /\ session[global] # "gone"
                     THEN global ELSE None
        /\ missed' = {n \in Ids : session[n] = "none"}
        /\ UNCHANGED <<halted, session, keepalive>>
    BY <1>5 DEF SignalLock, Locked
  <2>2. TypeOK'
    BY <1>1, <2>1 DEF TypeOK
  <2>3. Ownership'
    <3>1. \A n \in Ids : Kept(n)' => n = global /\ session[n] # "gone"
      BY <2>1 DEF Kept
    <3>2. global \in Ids => session[global] # "none"
      BY SessionsAssumption DEF Latest, Ids, TypeOK
    <3>3. \A n \in Ids : Kept(n)' => session'[n] \in {"new", "active", "ended"}
      BY <2>1, <3>1, <3>2 DEF TypeOK
    <3> QED
      BY <1>1, <2>1, <3>3 DEF Ownership, Pending, Kept
  <2>4. Latest'
    BY <1>1, <2>1 DEF Latest, Kept
  <2>5. Heard'
    BY <1>1, <2>1 DEF Heard, Ahead
  <2> QED
    BY <1>3, <2>2, <2>3, <2>4, <2>5
<1>6. CASE SignalStop
  <2>1. /\ signal = "caught" /\ signal' = "halting" /\ shutdown' = shutdown
        /\ session' = Released
        /\ missed' = missed \cup {n \in Ids : session[n] = "new"}
        /\ keepalive' = Cut(caught) \/ UNCHANGED keepalive
        /\ caught' \in {caught, None} /\ UNCHANGED halted
    BY <1>6 DEF SignalStop
  <2>2. \A n \in Ids :
          \/ session'[n] = session[n] /\ n # caught
          \/ /\ n = caught
             /\ session'[n] = IF n \notin {current, starting} THEN "gone"
                              ELSE IF session[n] = "active" THEN "ended"
                              ELSE session[n]
    <3>1. CASE caught = None
      BY <2>1, <3>1 DEF Released, Stopped, Active
    <3>2. CASE caught # None /\ caught \in {current, starting}
      BY <2>1, <3>2 DEF Released, Stopped, Active, TypeOK
    <3>3. CASE caught \notin {None, current, starting}
      BY <2>1, <3>3 DEF Released, TypeOK
    <3> QED
      BY <3>1, <3>2, <3>3
  <2>3. \A n \in Ids : n = caught <=> Kept(n)
    BY <2>1 DEF Kept
  <2>4. TypeOK'
    <3>1. session' \in [Ids -> {"none", "new", "active", "ended", "gone"}]
      BY <2>1 DEF Released, Stopped, TypeOK
    <3>2. keepalive' \in
            [Ids -> {"off", "armed", "cancelled", "pingDue", "pingTimeout"}]
      BY <2>1 DEF Cut, TypeOK
    <3>3. missed' \subseteq Ids
      BY <2>1 DEF TypeOK
    <3> QED
      BY <1>1, <2>1, <3>1, <3>2, <3>3 DEF TypeOK
  <2>5. Ownership'
    <3>1. \A n \in Ids : ~Kept(n)'
      BY <2>1 DEF Kept
    <3>2. \A n \in Ids : session'[n] = "new" => n = starting
      BY <2>2, <2>3 DEF Ownership
    <3>3. \A n \in Ids : session'[n] \in {"active", "ended"} => n = current
      BY <2>2, <2>3 DEF Ownership
    <3>4. starting # None => session'[starting] = "new"
      BY <2>2 DEF Ownership, TypeOK
    <3>5. current # None => session'[current] \in {"active", "ended", "gone"}
      BY <2>2 DEF Ownership, TypeOK
    <3>6. \A n \in Ids : Pending(n)' => Pending(n)
      BY <1>1, <2>1 DEF Pending, Cut, TypeOK
    <3>7. \A n \in Ids : session[n] \in {"active", "ended", "gone"} =>
                          session'[n] \in {"active", "ended", "gone"}
      BY <2>2
    <3> QED
      BY <1>1, <3>1, <3>2, <3>3, <3>4, <3>5, <3>6, <3>7 DEF Ownership
  <2>6. Latest'
    <3>1. \A n \in Ids : session'[n] # "none" <=> session[n] # "none"
      BY <2>2, <2>3 DEF Ownership
    <3>2. ASSUME NEW n \in Ids, session'[n] = "active", n # global
          PROVE  session'[global] = "gone" \/ global = starting
      <4>1. session[n] = "active" /\ ~Kept(n)
        BY <2>2, <2>3, <3>2 DEF Ownership
      <4>2. global \in Ids /\ n <= global
        BY <4>1, SessionsAssumption DEF Latest, TypeOK, Ids, None
      <4>3. session[global] = "gone" \/ global = starting \/ Kept(global)
        BY <3>2, <4>1 DEF Latest
      <4>4. CASE session[global] = "gone"
        BY <2>2, <4>2, <4>4
      <4>5. CASE Kept(global) /\ global # starting
        <5>1. n = current
          BY <4>1 DEF Ownership
        <5> QED
          BY <2>2, <2>3, <3>2, <4>2, <4>5, <5>1
      <4> QED
        BY <4>3, <4>4, <4>5
    <3> QED
      BY <1>1, <3>1, <3>2 DEF Latest
  <2>7. Heard'
    <3>1. ASSUME NEW n \in Ids, Left(n)' PROVE n \in missed'
      <4>1. CASE session'[n] = "none"
        <5>1. session[n] = "none"
          BY <2>2, <4>1 DEF Ownership, Kept
        <5> QED
          BY <2>1, <5>1 DEF Heard, Ahead
      <4>2. CASE session'[n] = "new"
        BY <2>1, <2>2, <4>2
      <4>3. CASE session'[n] = "active" /\ n = global
        <5>1. session[n] = "active" /\ n # caught
          BY <2>2, <4>3
        <5> QED
          BY <2>1, <4>3, <5>1 DEF Heard, Ahead
      <4> QED
        BY <1>1, <3>1, <4>1, <4>2, <4>3 DEF Left
    <3> QED
      BY <2>1, <3>1 DEF Heard
  <2> QED
    BY <1>3, <2>4, <2>5, <2>6, <2>7
<1>7. CASE CancelRuns
  <2>1. /\ caught \in Ids /\ caught' \in {caught, None}
        /\ signal = "halting"
        /\ UNCHANGED <<shutdown, halted, signal, missed, session>>
        /\ keepalive' \in {keepalive,
                            [keepalive EXCEPT ![caught] = "cancelled"]}
        /\ keepalive' # keepalive => keepalive[caught] = "armed"
    BY <1>7 DEF CancelRuns, TypeOK
  <2>2. TypeOK'
    BY <1>1, <2>1 DEF TypeOK
  <2>3. Ownership'
    <3>1. \A n \in Ids : Pending(n)' => Pending(n)
      BY <1>1, <2>1 DEF Pending, TypeOK
    <3> QED
      BY <1>1, <2>1, <3>1 DEF Ownership, Kept
  <2>4. Latest' /\ Heard'
    BY <1>1, <2>1 DEF Latest, Kept, Heard, Left
  <2> QED
    BY <1>3, <2>2, <2>3, <2>4
<1> QED
  BY <1>4, <1>5, <1>6, <1>7 DEF Signal

(* The touch callback, and what main does after the loop.                  *)
LEMMA OtherSteps ==
  ASSUME IInv,
         TouchLock \/ DispatchTouch \/ LoopThrows \/ TakeDown \/ UNCHANGED vars
  PROVE  IInv'
<1> USE NoneIsNoId DEF IInv, hubVars, heldVars, workVars, signalVars, mainVars,
        restVars, vars, downRest, LeaveLoop, TakeDown
<1>1. CASE LoopThrows \/ TakeDown
  <2>1. UNCHANGED <<hubs, restarts, enumerating, current, global, device,
                    starting, shutdown, halted, signal, caught, missed,
                    session, keepalive, waiting, quit, reported, touchCb,
                    touching>>
    BY <1>1 DEF LoopThrows, LoopEnds, UsbThreadEnds, JoinUsb, StopIpc,
       LibusbExit
  <2>2. /\ main \notin {"boot", "stub", "failed"} \/ UNCHANGED main
        /\ main' \notin {"boot", "stub", "failed"} \/ UNCHANGED main
        /\ main' = "run" => main = "run"
        /\ starting # None \/ device => UNCHANGED main
    BY <1>1 DEF LoopThrows, LoopEnds, UsbThreadEnds, JoinUsb, StopIpc,
       LibusbExit, Running, Latest
  <2>3. TypeOK'
    BY <1>1, <2>1 DEF TypeOK, LoopThrows, LoopEnds, UsbThreadEnds, JoinUsb,
       StopIpc, LibusbExit, ToldToStop
  <2>4. OneHub' /\ Asleep' /\ IdleOfCurrent'
    BY <2>1, <2>2 DEF OneHub, One, Booting, Asleep, IdleOfCurrent
  <2>5. Ownership' /\ Heard'
    BY <2>1 DEF Ownership, Pending, Kept, Heard, Ahead, Left
  <2>6. Latest'
    BY <2>1, <2>2 DEF Latest, Kept
  <2> QED
    BY <2>3, <2>4, <2>5, <2>6
<1>2. CASE TouchLock \/ DispatchTouch \/ UNCHANGED vars
  <2>1. UNCHANGED <<hubs, restarts, enumerating, current, global, device,
                    starting, shutdown, halted, signal, caught, missed,
                    session, keepalive, waiting, quit, reported, touchCb,
                    main, usb>>
    BY <1>2 DEF TouchLock, DispatchTouch
  <2>2. touching' \in Ids \cup {None}
    BY <1>2 DEF TypeOK, TouchLock, DispatchTouch
  <2>3. TypeOK' /\ OneHub' /\ Asleep' /\ IdleOfCurrent'
    BY <2>1, <2>2 DEF TypeOK, OneHub, One, Booting, Asleep, IdleOfCurrent
  <2>4. Ownership' /\ Heard' /\ Latest'
    BY <2>1 DEF Ownership, Pending, Kept, Heard, Ahead, Left, Latest
  <2> QED
    BY <2>3, <2>4
<1> QED
  BY <1>1, <1>2

-----------------------------------------------------------------------------

(* The invariant of the runner holds in every state of every behaviour.    *)
THEOREM Invariance == Spec => []IInv
<1>1. IInv /\ [Next]_vars => IInv'
  BY HubSteps, CreateStep, StartSteps, SessionSteps, SignalSteps, OtherSteps
  DEF Next
<1> QED
  BY <1>1, Initially, PTL DEF Spec

(* The variables of the runner have their types.                           *)
THEOREM TypeCorrect == Spec => []TypeOK
<1>1. IInv => TypeOK
  BY DEF IInv
<1> QED
  BY <1>1, Invariance, PTL

(* Until a signal the runner listens for a phone, or is about to, in       *)
(* exactly one way.                                                        *)
THEOREM ListensOnce == Spec => []OneHub
<1>1. IInv => OneHub
  BY DEF IInv
<1> QED
  BY <1>1, Invariance, PTL

(* No handler of a replaced session reports the end of the current one,    *)
(* unless a signal keeps the old session a moment longer.                  *)
THEOREM IdleIsCurrent == Spec => []IdleOfCurrent
<1>1. IInv => IdleOfCurrent
  BY DEF IInv
<1> QED
  BY <1>1, Invariance, PTL

(* When on_signal has returned and the loop has been left, whatever is     *)
(* active was created or started too late for on_signal, or lost its place *)
(* in g_active_session to a session that did not start: for every          *)
(* interleaving of on_signal with onDevice.                                *)
THEOREM SignalReaches == Spec => []SignalStops
<1>1. IInv => SignalStops
  <2> SUFFICES ASSUME IInv, NEW n \in Ids, session[n] = "active", shutdown,
                      signal = "none", main # "run", n # global
               PROVE  global > n /\ session[global] = "gone"
    BY DEF SignalStops, IInv, Heard, Left
  <2>1. n <= global /\ global \in Nat /\ n \in Nat
    BY SessionsAssumption DEF IInv, TypeOK, Latest, Ids, None
  <2>2. global \in Ids
    BY <2>1, SessionsAssumption DEF IInv, TypeOK, Ids, None
  <2>3. global # starting
    BY <2>2, NoneIsNoId DEF IInv, Latest
  <2> QED
    BY <2>1, <2>3 DEF IInv, Latest, Kept
<1> QED
  BY <1>1, Invariance, PTL
=============================================================================
