--------------------------- MODULE ServiceChannel ---------------------------
(***************************************************************************)
(* A service channel of an Android Auto session (VideoSink, AudioSink,     *)
(* InputSource and SensorSource of aa-handler/src/aa/Session.cpp).         *)
(*                                                                         *)
(* The four kinds have a channel and a strand of their own each and share  *)
(* nothing but the session, so one channel is modelled, of any kind.  As   *)
(* in Session, a handler is one step, and the continuation of a send is    *)
(* posted when the send completes.  Unlike the control channel, a service  *)
(* channel only logs its errors.                                           *)
(*                                                                         *)
(* The phone and aasdk are the environment, modelled from how Session.cpp  *)
(* uses them: sends reach the phone in order, a message is delivered to a  *)
(* pending receive(), and one that cannot be parsed is an error.           *)
(***************************************************************************)
EXTENDS Integers, Sequences, FiniteSets

CONSTANTS
    MaxStarts,  \* media sessions that the phone starts (bound)
    MaxOut      \* sends on their way that the phone lets pile up (bound)

ASSUME BoundsAssumption == MaxStarts \in Nat /\ MaxOut \in Nat

NoSession == -1
Ids == 1..MaxStarts
Kinds == {"video", "audio", "input", "sensor"}
IsMedia(k) == k \in {"video", "audio"}

VARIABLES
    kind,      \* which of the four
    receives,  \* receive() calls without an answer
    posted,    \* handlers posted on the strand of the channel, in order
    out,       \* sends that have not completed, in order
    session,   \* session_
    active,    \* the session has not been stopped
    link,      \* the USB link works
    malformed, \* history: a message of this channel could not be parsed
    stage,     \* what the phone has reached, or waits for
    started,   \* media sessions the phone has started
    unacked    \* media sessions of the frames the phone has no ack for

channelVars == <<receives, posted, out, session>>
phoneVars   == <<stage, started, unacked>>
vars == <<kind, channelVars, active, link, malformed, phoneVars>>

(* A message or a continuation; id is the media session it belongs to.     *)
Item(type) == [type |-> type, id |-> NoSession]
ItemOf(type, id) == [type |-> type, id |-> id]

Requests == {"open", "setup", "start", "stop", "media", "focusRequest",
             "keyBinding", "driving", "otherSensor"}
Continuations == {"sendFocus", "sendStatus", "touch", "error"}

(* Session::start calls start() of the channel.                            *)
Init ==
    /\ kind \in Kinds
    /\ receives = 1 /\ posted = <<>> /\ out = <<>> /\ session = NoSession
    /\ active = TRUE /\ link = TRUE /\ malformed = FALSE
    /\ stage = "closed" /\ started = 0 /\ unacked = <<>>

-----------------------------------------------------------------------------
(* What handlers do.                                                       *)

(* The next handler of the strand is of one of these types.                *)
Run(types) ==
    /\ posted # <<>> /\ Head(posted).type \in types
    /\ posted' = Tail(posted)
    /\ UNCHANGED <<kind, active, link, malformed, phoneVars>>

Send(item) == out' = Append(out, item)

ReceiveTwice == receives' = receives + 2  \* mutant
Receive == receives' = receives + 1

(* An answer and the next receive().                                       *)
Answer(item) == Send(item) /\ Receive /\ UNCHANGED session

-----------------------------------------------------------------------------
(* The handlers.                                                           *)

OnChannelOpenRequest == Run({"open"}) /\ Answer(Item("opened"))

OnMediaChannelSetupRequest == Run({"setup"}) /\ Answer(Item("config"))

NoSessionId == session  \* mutant
SessionId == Head(posted).id  \* indication.session_id()

OnMediaChannelStartIndication ==
    /\ Run({"start"})
    /\ session' = SessionId
    /\ Receive
    /\ UNCHANGED out

OnMediaChannelStopIndication ==
    /\ Run({"stop"})
    /\ session' = IF kind = "audio" THEN NoSession ELSE session
    /\ Receive
    /\ UNCHANGED out

(* The frame goes to the bridge, whether a client listens or not.          *)
OnMediaIndication == Run({"media"}) /\ Answer(ItemOf("ack", session))

OnVideoFocusRequest == Run({"focusRequest"}) /\ Answer(Item("focus"))

OnKeyBindingRequest == Run({"keyBinding"}) /\ Answer(Item("binding"))

DeafAfterSensor == UNCHANGED receives  \* mutant
ReceiveAfterSensor == Receive

(* Driving status and night mode are followed by a value.                  *)
OnSensorStartRequest ==
    /\ Run({"driving", "otherSensor"})
    /\ Send(Item(IF Head(posted).type = "driving" THEN "sensorValued"
                 ELSE "sensorStarted"))
    /\ ReceiveAfterSensor
    /\ UNCHANGED session

(* Continuations: sendFocus, sendDriving and sendNight, and the report of  *)
(* dispatchTouch.                                                          *)
OnSent ==
    /\ \/ Run({"sendFocus"}) /\ Send(Item("focus"))
       \/ Run({"sendStatus"}) /\ Send(Item("status"))
       \/ Run({"touch"}) /\ Send(Item("report"))
    /\ UNCHANGED <<receives, session>>

(* onChannelError logs, and does not call receive().                       *)
OnChannelError == Run({"error"}) /\ UNCHANGED <<receives, out, session>>

Handlers ==
    \/ OnChannelOpenRequest \/ OnMediaChannelSetupRequest
    \/ OnMediaChannelStartIndication \/ OnMediaChannelStopIndication
    \/ OnMediaIndication \/ OnVideoFocusRequest \/ OnKeyBindingRequest
    \/ OnSensorStartRequest \/ OnSent \/ OnChannelError

(* dispatchTouch, on the reader thread of the bridge, at any time.         *)
DispatchTouch ==
    /\ kind = "input" /\ Len(posted) + Len(out) < MaxOut
    /\ posted' = Append(posted, Item("touch"))
    /\ UNCHANGED <<kind, receives, out, session, active, link, malformed,
                   phoneVars>>

-----------------------------------------------------------------------------
(* The phone and aasdk.                                                    *)

(* What the phone sends at a stage, and the stage that follows.            *)
Asks ==
    CASE stage = "closed" -> {<<"open", "opening">>}
      [] stage = "opened" /\ IsMedia(kind) -> {<<"setup", "settingUp">>}
      [] stage = "opened" /\ kind = "input" -> {<<"keyBinding", "binding">>}
      [] stage = "opened" /\ kind = "sensor" ->
           {<<"driving", "starting">>, <<"otherSensor", "starting">>}
      [] stage = "ready" /\ started < MaxStarts -> {<<"start", "streaming">>}
      [] stage = "streaming" ->
           {<<"stop", "ready">>, <<"media", "streaming">>}
           \cup (IF kind = "video" THEN {<<"focusRequest", "unfocused">>}
                 ELSE {})
      [] OTHER -> {}

(* max_unacked is 1 in every setup response.                               *)
MayAsk(type) ==
    /\ type = "media" => unacked = <<>>
    /\ Len(out) < MaxOut

(* The phone sends a message and receive() gets it, or the channel cannot  *)
(* parse it.                                                               *)
Deliver(ask, parsed) ==
    LET type == ask[1]
        id == IF type = "start" THEN started + 1 ELSE started
    IN /\ active /\ link /\ receives > 0 /\ MayAsk(type)
       /\ receives' = receives - 1
       /\ posted' = Append(posted, IF parsed THEN ItemOf(type, id)
                                   ELSE Item("error"))
       /\ malformed' = (malformed \/ ~parsed)
       /\ stage' = ask[2]
       /\ started' = IF type = "start" THEN id ELSE started
       /\ unacked' = IF type = "media" THEN Append(unacked, id) ELSE unacked
       /\ UNCHANGED <<kind, out, session, active, link>>

(* What the phone makes of an answer.                                      *)
Answered(type) ==
    CASE type = "opened" -> "opened"
      [] type = "config" -> IF kind = "video" THEN "unfocusedReady" ELSE "ready"
      [] type = "focus" /\ stage = "unfocusedReady" -> "ready"
      [] type = "focus" /\ stage = "unfocused" -> "streaming"
      [] type = "sensorValued" -> "unvalued"
      [] type \in {"binding", "sensorStarted", "status"} -> "opened"
      [] OTHER -> stage

NoContinuation(type) == <<>>  \* mutant
Continuation(type) ==
    CASE type = "config" /\ kind = "video" -> <<Item("sendFocus")>>
      [] type = "sensorValued" -> <<Item("sendStatus")>>
      [] OTHER -> <<>>

(* A send completes, and its success continuation is posted.               *)
SendCompletes ==
    /\ active /\ link /\ out # <<>>
    /\ out' = Tail(out)
    /\ posted' = posted \o Continuation(Head(out).type)
    /\ stage' = Answered(Head(out).type)
    /\ unacked' = IF Head(out).type = "ack" THEN Tail(unacked) ELSE unacked
    /\ UNCHANGED <<kind, receives, session, active, link, malformed, started>>

(* A send or receive fails when the link is down or stop() aborted it.     *)
SendFails ==
    /\ ~active \/ ~link
    /\ out # <<>>
    /\ out' = Tail(out)
    /\ posted' = Append(posted, Item("error"))
    /\ UNCHANGED <<kind, receives, session, active, link, malformed, phoneVars>>

ReceiveFails ==
    /\ ~active \/ ~link
    /\ receives > 0
    /\ receives' = receives - 1
    /\ posted' = Append(posted, Item("error"))
    /\ UNCHANGED <<kind, out, session, active, link, malformed, phoneVars>>

LinkFails ==
    /\ link' = FALSE
    /\ UNCHANGED <<kind, channelVars, active, malformed, phoneVars>>

(* Session::stop, see module Session.                                      *)
Stop ==
    /\ active' = FALSE
    /\ UNCHANGED <<kind, channelVars, link, malformed, phoneVars>>

Next ==
    \/ Handlers \/ DispatchTouch
    \/ \E ask \in Asks, parsed \in BOOLEAN : Deliver(ask, parsed)
    \/ SendCompletes \/ SendFails \/ ReceiveFails \/ LinkFails \/ Stop

Spec == Init /\ [][Next]_vars

(* The io thread runs what is posted, and a link that works carries what   *)
(* is sent.  Nothing is asked of the phone.                                *)
Fairness == WF_vars(Handlers) /\ WF_vars(SendCompletes)

FairSpec == Spec /\ Fairness

-----------------------------------------------------------------------------
(* Properties.                                                             *)

Items == [type : Requests \cup Continuations, id : NoSession..MaxStarts]
Sends == [type : {"opened", "config", "ack", "focus", "binding",
                  "sensorValued", "sensorStarted", "status", "report"},
          id : NoSession..MaxStarts]

(* Every variable has its type, and at most one receive() is pending.      *)
TypeOK ==
    /\ kind \in Kinds
    /\ receives \in 0..1
    /\ posted \in Seq(Items) /\ out \in Seq(Sends)
    /\ session \in Ids \cup {NoSession}
    /\ active \in BOOLEAN /\ link \in BOOLEAN /\ malformed \in BOOLEAN
    /\ stage \in {"closed", "opening", "opened", "settingUp",
                  "unfocusedReady", "ready", "streaming", "unfocused",
                  "binding", "starting", "unvalued"}
    /\ started \in 0..MaxStarts
    /\ unacked \in Seq(Ids)

(* How many there are of some types, and how many up to the i-th.          *)
HowMany(seq, T) == Cardinality({i \in DOMAIN seq : seq[i].type \in T})
Rank(seq, T, i) == Cardinality({j \in 1..i : seq[j].type \in T})
Sound == active /\ link /\ ~malformed

(* While the session is active, a channel whose messages could be parsed   *)
(* is never deaf: it has a receive() pending or one message to handle, and *)
(* never both.                                                             *)
Listening ==
    /\ receives + HowMany(posted, Requests) <= 1
    /\ Sound => receives + HowMany(posted, Requests) = 1

(* Every frame is acknowledged once, in order, and under the media session *)
(* it was sent in, whatever stops and starts lie between: the frames the   *)
(* phone has no ack for are those whose ack is on its way, followed by     *)
(* those that wait for their handler.                                      *)
AcksMatch ==
    Sound =>
      LET acks == HowMany(out, {"ack"})
      IN /\ Len(unacked) = acks + HowMany(posted, {"media"})
         /\ \A i \in DOMAIN out : out[i].type = "ack" =>
              unacked[Rank(out, {"ack"}, i)] = out[i].id
         /\ \A i \in DOMAIN posted : posted[i].type = "media" =>
              unacked[acks + Rank(posted, {"media"}, i)] = posted[i].id

(* A phone that waits for an answer, for the video focus after the setup,  *)
(* for the first value of a sensor or for an ack, gets it, or the session  *)
(* or the channel has failed.                                              *)
Waits == {"opening", "settingUp", "unfocusedReady", "unfocused", "binding",
          "starting", "unvalued"}
PhoneAnswered ==
    /\ \A w \in Waits : stage = w ~> (stage # w \/ ~Sound)
    /\ unacked # <<>> ~> (unacked = <<>> \/ ~Sound)
=============================================================================
