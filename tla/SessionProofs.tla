--------------------------- MODULE SessionProofs ----------------------------
(***************************************************************************)
(* Proofs about Session, for any bound on unanswered pings and any number  *)
(* of messages.                                                            *)
(***************************************************************************)
EXTENDS Session, Counting, SequenceTheorems

Handler == Messages \cup Continuations
Events == {"connecting", "video_config", "active", "idle"}

(* How many handlers of a sort are posted.                                 *)
M == Count(posted, Messages)
E == Count(posted, {"error"})
B == Count(posted, {"byeSent"})
K == Count(posted, Rounds)
D == Count(posted, {"pingDue"})
P == Count(posted, {"pong"})

-----------------------------------------------------------------------------
(* The inductive invariant.                                                *)

(* Nothing happens before start(), nor after a start() that throws.        *)
Unstarted ==
    stage \in {"new", "failed"} =>
      /\ ~active /\ ~quit /\ ~cancelled /\ posted = <<>>
      /\ receives = 0 /\ sending = {} /\ timer = "off" /\ promise = "none"
      /\ unanswered = 0 /\ owed = 0

(* The control channel is a token: it is with a pending receive(), a       *)
(* message to handle, or the goodbye to the phone, and is lost only when   *)
(* an error is posted or the session ends.                                 *)
S == One("bye" \in sending)
Token == receives + M + S + B
OneToken == Token <= 1 /\ (active => Token = 1 \/ E > 0)

(* The keepalive round that is going, in its timer or posted.              *)
L == One(promise = "live")
Going == L + K
OneRound ==
    /\ Going <= 1
    /\ active => Going = 1 /\ ~cancelled /\ timer # "aborted"
    /\ promise = "live" <=> timer # "off"
    /\ promise # "rejected"

(* Every pong that comes or waits answers a ping that is counted, and a    *)
(* ping that is due may still be counted.                                  *)
PingsLeft == owed + P <= unanswered /\ (D > 0 => unanswered <= MaxUnanswered)

(* A message to handle is one that the phone sends at this stage.          *)
Asked ==
    \A i \in DOMAIN posted :
      LET m == posted[i]
      IN /\ m \in {"version", "badVersion"} => stage = "version"
         /\ m = "handshake" => stage = "handshake"
         /\ m = "discovery" => stage = "discovery"
         /\ m \in {"focus", "note", "bye", "byeResponse"} =>
              stage = "projecting"

(* Only a signal ends a session without telling the server.                *)
Heedless == {"running", "flagged", "caught"}
EndTold == Started /\ ~active /\ io \in Heedless => quit

(* A signal comes after start(), and has a cancel to post for a session    *)
(* that it has stopped.                                                    *)
Cancels ==
  /\ io # "running" => stage # "new"
  /\ io = "cancelling" => Started /\ ~active

(* The events so far.                                                      *)
Connecting == <<"connecting">>
Refused == <<"connecting", "idle">>
Projecting == <<"connecting", "video_config", "active">>
Finished == <<"connecting", "video_config", "active", "idle">>
Late == <<"connecting", "idle", "video_config", "active">>
Story ==
    /\ stage = "new" => emitted = <<>>
    /\ stage = "failed" => emitted = Connecting
    /\ stage \in {"version", "handshake", "discovery"} =>
         emitted = IF quit THEN Refused ELSE Connecting
    /\ stage = "projecting" =>
         IF quit THEN emitted \in {Finished, Late} ELSE emitted = Projecting

IInv == /\ TypeOK /\ Unstarted /\ OneToken /\ OneRound /\ PingsLeft /\ Asked
        /\ IdleOnce /\ EndTold /\ Cancels /\ Story

(* TypeOK in two halves, what is true or false and the rest.               *)
Flags == active \in BOOLEAN /\ quit \in BOOLEAN /\ cancelled \in BOOLEAN
Ranges ==
    /\ emitted \in Seq(Events) /\ posted \in Seq(Handler)
    /\ receives \in Nat /\ sending \subseteq {"request", "bye"}
    /\ timer \in {"off", "armed", "fired", "aborted"}
    /\ promise \in {"none", "live", "rejected"}
    /\ unanswered \in 0..(MaxUnanswered + 1)
    /\ io \in {"running", "flagged", "caught", "cancelling", "stopping",
               "stopped"}
    /\ stage \in {"new", "failed", "version", "handshake", "discovery",
                  "projecting"}
    /\ phone \in {"talking", "silent", "gone"}
    /\ owed \in Nat

(* Both halves are TypeOK, in this state and the next.                     *)
LEMMA TypeHalves == /\ TypeOK <=> Flags /\ Ranges
                    /\ TypeOK' <=> Flags' /\ Ranges'
  BY DEF TypeOK, Flags, Ranges, Events, Handler

-----------------------------------------------------------------------------
(* Posted handlers.                                                        *)

(* Numbers of handlers are numbers, none on an empty strand.               *)
LEMMA Numbers ==
  ASSUME posted \in Seq(Handler)
  PROVE  /\ M \in Nat /\ E \in Nat /\ B \in Nat /\ K \in Nat /\ D \in Nat
         /\ P \in Nat /\ D <= K /\ P <= M
         /\ posted = <<>> => /\ M = 0 /\ E = 0 /\ B = 0 /\ K = 0 /\ D = 0
                             /\ P = 0
<1>1. M \in Nat /\ E \in Nat /\ B \in Nat /\ K \in Nat /\ D \in Nat /\ P \in Nat
  BY CountType DEF M, E, B, K, D, P
<1>2. D <= K
  <2>1. {"pingDue"} \subseteq Rounds
    BY DEF Rounds
  <2> QED
    BY <2>1, CountMonotonic DEF D, K
<1>3. P <= M
  <2>1. {"pong"} \subseteq Messages
    BY DEF Messages
  <2> QED
    BY <2>1, CountMonotonic DEF P, M
<1>4. posted = <<>> => /\ M = 0 /\ E = 0 /\ B = 0 /\ K = 0 /\ D = 0 /\ P = 0
  BY CountEmpty DEF M, E, B, K, D, P
<1> QED
  BY <1>1, <1>2, <1>3, <1>4

(* The same after a step, in the form that arithmetic over primed          *)
(* operators needs.                                                        *)
LEMMA NumbersAfter ==
  ASSUME posted' \in Seq(Handler)
  PROVE  {M', E', B', K', D', P'} \subseteq Nat
<1>1. /\ M' \in Nat /\ E' \in Nat /\ B' \in Nat /\ K' \in Nat /\ D' \in Nat
      /\ P' \in Nat
  BY CountType DEF M, E, B, K, D, P
<1> QED
  BY <1>1

(* The flags of token and round as numbers.                                *)
LEMMA Bits ==
  /\ "bye" \in sending => S = 1
  /\ "bye" \notin sending => S = 0
  /\ promise = "live" => L = 1
  /\ promise # "live" => L = 0
  /\ "bye" \in sending' => S' = 1
  /\ "bye" \notin sending' => S' = 0
  /\ promise' = "live" => L' = 1
  /\ promise' # "live" => L' = 0
  BY DEF S, L, One

(* A handler is taken from the strand.                                     *)
LEMMA RunEffect ==
  ASSUME posted \in Seq(Handler), NEW h, Run(h)
  PROVE  /\ io # "stopped" /\ io' = io /\ h \in Handler
         /\ posted' \in Seq(Handler) /\ posted # <<>>
         /\ 1 \in DOMAIN posted /\ posted[1] = h
         /\ \A i \in DOMAIN posted' :
              i + 1 \in DOMAIN posted /\ posted'[i] = posted[i + 1]
         /\ M = IF h \in Messages THEN M' + 1 ELSE M'
         /\ E = IF h = "error" THEN E' + 1 ELSE E'
         /\ B = IF h = "byeSent" THEN B' + 1 ELSE B'
         /\ K = IF h \in Rounds THEN K' + 1 ELSE K'
         /\ D = IF h = "pingDue" THEN D' + 1 ELSE D'
         /\ P = IF h = "pong" THEN P' + 1 ELSE P'
<1>1. /\ io # "stopped" /\ io' = io
      /\ posted # <<>> /\ Head(posted) = h /\ posted' = Tail(posted)
  BY DEF Run
<1>2. /\ posted' \in Seq(Handler) /\ h \in Handler
      /\ 1 \in DOMAIN posted /\ posted[1] = h
      /\ \A i \in DOMAIN posted' :
           i + 1 \in DOMAIN posted /\ posted'[i] = posted[i + 1]
  BY <1>1
<1>3. ASSUME NEW H
      PROVE  Count(posted, H) = IF h \in H THEN Count(posted', H) + 1
                                ELSE Count(posted', H)
  <2>1. Count(posted, H) = Count(posted', H) + Bit(h \in H)
    BY <1>1, CountTail
  <2>2. Count(posted', H) \in Nat
    BY <1>2, CountType
  <2>3. CASE h \in H
    BY <2>1, <2>2, <2>3 DEF Bit
  <2>4. CASE h \notin H
    BY <2>1, <2>2, <2>4 DEF Bit
  <2> QED
    BY <2>3, <2>4
<1> QED
  BY <1>1, <1>2, <1>3 DEF M, E, B, K, D, P

(* A handler is posted.                                                    *)
LEMMA PostEffect ==
  ASSUME posted \in Seq(Handler), NEW h \in Handler,
         posted' = Append(posted, h)
  PROVE  /\ posted' \in Seq(Handler)
         /\ \A i \in DOMAIN posted' :
              \/ posted'[i] = h
              \/ i \in DOMAIN posted /\ posted'[i] = posted[i]
         /\ M' = IF h \in Messages THEN M + 1 ELSE M
         /\ E' = IF h = "error" THEN E + 1 ELSE E
         /\ B' = IF h = "byeSent" THEN B + 1 ELSE B
         /\ K' = IF h \in Rounds THEN K + 1 ELSE K
         /\ D' = IF h = "pingDue" THEN D + 1 ELSE D
         /\ P' = IF h = "pong" THEN P + 1 ELSE P
<1>1. /\ posted' \in Seq(Handler)
      /\ \A i \in DOMAIN posted' :
           \/ posted'[i] = h
           \/ i \in DOMAIN posted /\ posted'[i] = posted[i]
  OBVIOUS
<1>2. ASSUME NEW H
      PROVE  Count(posted', H) = IF h \in H THEN Count(posted, H) + 1
                                 ELSE Count(posted, H)
  <2>1. Count(posted', H) = Count(posted, H) + Bit(h \in H)
    BY CountAppend
  <2>2. Count(posted, H) \in Nat
    BY CountType
  <2>3. CASE h \in H
    BY <2>1, <2>2, <2>3 DEF Bit
  <2>4. CASE h \notin H
    BY <2>1, <2>2, <2>4 DEF Bit
  <2> QED
    BY <2>3, <2>4
<1> QED
  BY <1>1, <1>2 DEF M, E, B, K, D, P

(* The strand is left alone.                                               *)
LEMMA SameEffect ==
  ASSUME UNCHANGED posted
  PROVE  M' = M /\ E' = E /\ B' = B /\ K' = K /\ D' = D /\ P' = P
  BY DEF M, E, B, K, D, P

-----------------------------------------------------------------------------

(* The invariant holds initially.                                          *)
LEMMA Initially == Init => IInv
<1> SUFFICES ASSUME Init PROVE IInv
  OBVIOUS
<1>1. /\ M = 0 /\ E = 0 /\ B = 0 /\ K = 0 /\ D = 0 /\ P = 0
      /\ posted = <<>> /\ emitted = <<>>
  BY CountEmpty DEF Init, M, E, B, K, D, P
<1>2. TypeOK
  <2>1. Flags
    BY DEF Init, Flags
  <2>2. Ranges
    BY UnansweredAssumption DEF Init, Ranges
  <2> QED
    BY <2>1, <2>2, TypeHalves
<1>3. HowMany(emitted, {"idle"}) = 0
  BY <1>1, CountEmpty DEF Count, Places, HowMany
<1>4. Unstarted /\ EndTold /\ Cancels /\ Story
  BY <1>1 DEF Init, Unstarted, EndTold, Cancels, Started, Story
<1>5. OneToken /\ OneRound /\ PingsLeft
  BY <1>1 DEF Init, OneToken, Token, OneRound, Going, PingsLeft, One, S, L
<1>6. Asked
  BY <1>1 DEF Asked
<1>7. IdleOnce
  BY <1>3 DEF Init, IdleOnce, One
<1> QED
  BY <1>2, <1>4, <1>5, <1>6, <1>7 DEF IInv

-----------------------------------------------------------------------------
(* The end of a session.                                                   *)

(* The state after triggerQuit, from the conjuncts that it reads.          *)
LEMMA TriggerQuitEffect ==
  ASSUME TypeOK, IdleOnce, TriggerQuit
  PROVE  /\ quit' /\ ~active' /\ Flags'
         /\ timer' \in {"off", "armed", "fired", "aborted"}
         /\ timer' = "off" <=> timer = "off"
         /\ promise' = promise /\ unanswered' = unanswered
         /\ emitted' = IF quit THEN emitted ELSE Append(emitted, "idle")
<1>1. CASE quit
  BY <1>1 DEF TriggerQuit, AlreadyQuit, TypeOK, Flags, IdleOnce
<1>2. CASE ~quit
  BY <1>2 DEF TriggerQuit, AlreadyQuit, Stop, TypeOK, Flags
<1> QED
  BY <1>1, <1>2

(* What is told to the server when a session ends.                         *)
LEMMA TriggerQuitTells ==
  ASSUME TypeOK, IdleOnce, TriggerQuit
  PROVE  /\ emitted' \in Seq(Events)
         /\ IdleOnce'
<1>1. emitted \in Seq(Events) /\ quit \in BOOLEAN
  BY DEF TypeOK, Events
<1>2. /\ quit' /\ ~active'
      /\ emitted' = IF quit THEN emitted ELSE Append(emitted, "idle")
  BY TriggerQuitEffect
<1>3. HowMany(emitted, {"idle"}) = Count(emitted, {"idle"})
      /\ HowMany(emitted, {"idle"})' = Count(emitted', {"idle"})
  BY DEF HowMany, Count, Places
<1>4. "idle" \in Events
  BY DEF Events
<1>5. CASE quit
  BY <1>1, <1>2, <1>5 DEF IdleOnce, One
<1>6. CASE ~quit
  <2>1. Count(emitted', {"idle"}) = Count(emitted, {"idle"}) + Bit("idle" \in {"idle"})
    BY <1>1, <1>2, <1>4, <1>6, CountAppend
  <2>2. Count(emitted, {"idle"}) = 0
    BY <1>3, <1>6 DEF IdleOnce, One
  <2> QED
    BY <1>1, <1>2, <1>3, <1>4, <1>6, <2>1, <2>2 DEF IdleOnce, One, Bit
<1> QED
  BY <1>5, <1>6

(* How one story becomes the next.                                         *)
LEMMA Words ==
  /\ Append(<<>>, "connecting") = Connecting
  /\ Append(Connecting, "idle") = Refused
  /\ Append(Projecting, "idle") = Finished
  /\ Connecting \o <<"video_config", "active">> = Projecting
  /\ Refused \o <<"video_config", "active">> = Late
<1> USE DEF Connecting, Refused, Projecting, Finished, Late, Events
<1>1. Append(<<>>, "connecting") = Connecting
  <2> DEFINE s == Append(<<>>, "connecting")
             t == Connecting
  <2>1. s \in Seq(Events) /\ t \in Seq(Events) /\ Len(s) = 1 /\ Len(t) = 1
    OBVIOUS
  <2>2. s[1] = t[1]
    OBVIOUS
  <2> HIDE DEF s, t
  <2>3. s = t
    BY <2>1, <2>2, SeqEqual
  <2> QED
    BY <2>3 DEF s, t
<1>2. Append(Connecting, "idle") = Refused
  <2> DEFINE s == Append(Connecting, "idle")
             t == Refused
  <2>1. s \in Seq(Events) /\ t \in Seq(Events) /\ Len(s) = 2 /\ Len(t) = 2
    OBVIOUS
  <2>2. s[1] = t[1] /\ s[2] = t[2]
    OBVIOUS
  <2> HIDE DEF s, t
  <2>3. s = t
    BY <2>1, <2>2, SeqEqual
  <2> QED
    BY <2>3 DEF s, t
<1>3. Append(Projecting, "idle") = Finished
  <2> DEFINE s == Append(Projecting, "idle")
             t == Finished
  <2>1. s \in Seq(Events) /\ t \in Seq(Events) /\ Len(s) = 4 /\ Len(t) = 4
    OBVIOUS
  <2>2. s[1] = t[1] /\ s[2] = t[2] /\ s[3] = t[3] /\ s[4] = t[4]
    OBVIOUS
  <2> HIDE DEF s, t
  <2>3. s = t
    BY <2>1, <2>2, SeqEqual
  <2> QED
    BY <2>3 DEF s, t
<1>4. Connecting \o <<"video_config", "active">> = Projecting
  <2> DEFINE s == Connecting \o <<"video_config", "active">>
             t == Projecting
  <2>1. s \in Seq(Events) /\ t \in Seq(Events) /\ Len(s) = 3 /\ Len(t) = 3
    OBVIOUS
  <2>2. s[1] = t[1] /\ s[2] = t[2] /\ s[3] = t[3]
    OBVIOUS
  <2> HIDE DEF s, t
  <2>3. s = t
    BY <2>1, <2>2, SeqEqual
  <2> QED
    BY <2>3 DEF s, t
<1>5. Refused \o <<"video_config", "active">> = Late
  <2> DEFINE s == Refused \o <<"video_config", "active">>
             t == Late
  <2>1. s \in Seq(Events) /\ t \in Seq(Events) /\ Len(s) = 4 /\ Len(t) = 4
    OBVIOUS
  <2>2. s[1] = t[1] /\ s[2] = t[2] /\ s[3] = t[3] /\ s[4] = t[4]
    OBVIOUS
  <2> HIDE DEF s, t
  <2>3. s = t
    BY <2>1, <2>2, SeqEqual
  <2> QED
    BY <2>3 DEF s, t
<1> QED
  BY <1>1, <1>2, <1>3, <1>4, <1>5

(* The story goes on when a session ends.                                  *)
LEMMA TriggerQuitStory ==
  ASSUME Story, stage' = stage, stage \notin {"new", "failed"}, quit',
         emitted' = IF quit THEN emitted ELSE Append(emitted, "idle")
  PROVE  Story'
  BY Words DEF Story

(* A session in which something is posted or pending has started.          *)
LEMMA Begun ==
  ASSUME Unstarted, posted # <<>> \/ receives # 0 \/ sending # {}
                    \/ timer # "off" \/ active
  PROVE  stage \notin {"new", "failed"}
  BY DEF Unstarted

(* A handler that quits: onChannelError, onByeByeResponse, the response    *)
(* sent, the ping timeout, a version or a handshake that fails.            *)
LEMMA Quitting ==
  ASSUME IInv, NEW h, Run(h), TriggerQuit,
         h \in {"version", "badVersion", "handshake", "byeResponse", "byeSent",
                "error", "pingTimeout"},
         UNCHANGED <<channelVars, phoneVars>>
  PROVE  IInv'
<1>1. TypeOK /\ IdleOnce /\ posted \in Seq(Handler)
  BY DEF IInv, TypeOK, Handler
<1>2. UNCHANGED <<receives, sending, stage, phone, owed>>
  BY DEF channelVars, phoneVars
<1>3. stage \notin {"new", "failed"} /\ posted' \in Seq(Handler)
  BY <1>1, RunEffect, Begun DEF IInv
<1>4. /\ quit' /\ ~active' /\ Flags'
      /\ timer' \in {"off", "armed", "fired", "aborted"}
      /\ timer' = "off" <=> timer = "off"
      /\ promise' = promise /\ unanswered' = unanswered
  BY <1>1, TriggerQuitEffect
<1>5. /\ M = M' \/ M = M' + 1
      /\ B = B' \/ B = B' + 1
      /\ K = K' \/ K = K' + 1
      /\ D = D' \/ D = D' + 1
      /\ P = P' \/ P = P' + 1
      /\ io' = io
  BY <1>1, RunEffect
<1>6. /\ M \in Nat /\ B \in Nat /\ K \in Nat /\ D \in Nat /\ P \in Nat
      /\ {M', B', K', D', P'} \subseteq Nat
  BY <1>1, <1>3, Numbers, NumbersAfter
<1>7. S' = S /\ L' = L /\ S \in Nat /\ L \in Nat
  BY <1>2, <1>4, Bits DEF S, L
<1>8. Ranges'
  BY <1>1, <1>2, <1>3, <1>4, <1>5, TypeHalves, TriggerQuitTells
     DEF Ranges
<1>11. Unstarted' /\ EndTold' /\ Cancels'
  BY <1>2, <1>3, <1>4, <1>5 DEF IInv, Unstarted, EndTold, Cancels, Started
<1>12. OneToken'
  <2>1. receives \in Nat /\ receives + M + S + B <= 1
    BY <1>1 DEF IInv, OneToken, Token, TypeOK
  <2>2. receives' + M' + S' + B' <= 1
    BY <1>2, <1>5, <1>6, <1>7, <2>1
  <2> QED
    BY <1>4, <2>2 DEF OneToken, Token
<1>13. OneRound'
  <2>1. L + K <= 1 /\ promise # "rejected" /\ (promise = "live" <=> timer # "off")
    BY DEF IInv, OneRound, Going
  <2>2. L' + K' <= 1
    BY <1>5, <1>6, <1>7, <2>1
  <2> QED
    BY <1>4, <2>1, <2>2 DEF OneRound, Going
<1>14. PingsLeft'
  <2>1. /\ unanswered \in Int /\ owed \in Int /\ owed + P <= unanswered
        /\ D > 0 => unanswered <= MaxUnanswered
    BY <1>1 DEF IInv, PingsLeft, TypeOK
  <2> QED
    BY <1>2, <1>4, <1>5, <1>6, <2>1 DEF PingsLeft
<1>9. Asked'
  BY <1>1, <1>2, RunEffect DEF IInv, Asked
<1>10. IdleOnce' /\ Story'
  BY <1>1, <1>2, <1>3, TriggerQuitEffect, TriggerQuitTells, TriggerQuitStory
     DEF IInv
<1> QED
  BY <1>4, <1>8, <1>9, <1>10, <1>11, <1>12, <1>13, <1>14, TypeHalves DEF IInv
-----------------------------------------------------------------------------
(* The other handlers of the control channel.                              *)

(* The pieces of IInv that arithmetic needs, with the types.               *)
LEMMA Pieces ==
  ASSUME IInv
  PROVE  /\ TypeOK /\ Flags /\ Ranges /\ posted \in Seq(Handler)
         /\ receives \in Nat /\ owed \in Nat /\ unanswered \in Nat
         /\ unanswered <= MaxUnanswered + 1 /\ MaxUnanswered \in Nat
         /\ M \in Nat /\ E \in Nat /\ B \in Nat /\ K \in Nat /\ D \in Nat
         /\ P \in Nat /\ D <= K /\ P <= M
         /\ S \in {0, 1} /\ L \in {0, 1}
         /\ receives + M + S + B <= 1
         /\ active => receives + M + S + B = 1 \/ E > 0
         /\ L + K <= 1
         /\ active => L + K = 1
         /\ owed + P <= unanswered
         /\ D > 0 => unanswered <= MaxUnanswered
<1>1. TypeOK /\ Flags /\ Ranges
  BY TypeHalves DEF IInv
<1>2. /\ posted \in Seq(Handler) /\ receives \in Nat /\ owed \in Nat
      /\ unanswered \in 0..(MaxUnanswered + 1)
  BY <1>1 DEF Ranges
<1>3. /\ M \in Nat /\ E \in Nat /\ B \in Nat /\ K \in Nat /\ D \in Nat
      /\ P \in Nat /\ D <= K /\ P <= M
  BY <1>2, Numbers
<1>4. S \in {0, 1} /\ L \in {0, 1}
  BY Bits
<1>5. /\ receives + M + S + B <= 1
      /\ active => receives + M + S + B = 1 \/ E > 0
      /\ L + K <= 1
      /\ active => L + K = 1
      /\ owed + P <= unanswered
      /\ D > 0 => unanswered <= MaxUnanswered
  BY DEF IInv, OneToken, Token, OneRound, Going, PingsLeft
<1> QED
  BY <1>1, <1>2, <1>3, <1>4, <1>5, UnansweredAssumption

(* Two events at once.                                                     *)
LEMMA TwoEvents ==
  ASSUME emitted \in Seq(Events)
  PROVE  /\ emitted \o <<"video_config", "active">> \in Seq(Events)
         /\ Count(emitted \o <<"video_config", "active">>, {"idle"})
              = Count(emitted, {"idle"})
<1> DEFINE a == Append(emitted, "video_config")
           b == Append(a, "active")
           c == emitted \o <<"video_config", "active">>
<1>1. "video_config" \in Events /\ "active" \in Events
  BY DEF Events
<1>2. a \in Seq(Events) /\ b \in Seq(Events)
  BY <1>1
<1>3. <<"video_config", "active">> \in Seq(Events)
  BY <1>1
<1>4. c \in Seq(Events) /\ Len(c) = Len(emitted) + 2
  BY <1>3
<1>5. /\ Len(b) = Len(emitted) + 2
      /\ \A i \in 1..Len(emitted) : b[i] = emitted[i]
      /\ b[Len(emitted) + 1] = "video_config"
      /\ b[Len(emitted) + 2] = "active"
  OBVIOUS
<1>6. /\ \A i \in 1..Len(emitted) : c[i] = emitted[i]
      /\ c[Len(emitted) + 1] = "video_config"
      /\ c[Len(emitted) + 2] = "active"
  BY <1>3
<1>7. \A i \in 1..Len(b) : b[i] = c[i]
  BY <1>5, <1>6
<1>8. b = c
  <2> HIDE DEF b, c
  <2> QED
    BY <1>2, <1>4, <1>5, <1>7, SeqEqual
<1>9. Count(a, {"idle"}) = Count(emitted, {"idle"}) + Bit("video_config" \in {"idle"})
  BY <1>1, CountAppend
<1>10. Count(b, {"idle"}) = Count(a, {"idle"}) + Bit("active" \in {"idle"})
  BY <1>1, <1>2, CountAppend
<1>11. Count(emitted, {"idle"}) \in Nat
  BY CountType
<1>12. Bit("video_config" \in {"idle"}) = 0 /\ Bit("active" \in {"idle"}) = 0
  BY DEF Bit
<1>13. Count(b, {"idle"}) = Count(emitted, {"idle"})
  BY <1>9, <1>10, <1>11, <1>12
<1> QED
  BY <1>4, <1>8, <1>13

(* When the last message is handled none is left.                          *)
LEMMA NoMessage ==
  ASSUME posted' \in Seq(Handler), M' = 0
  PROVE  Asked'
<1>1. \A i \in DOMAIN posted' : posted'[i] \notin Messages
  BY CountZero DEF M
<1> QED
  BY <1>1 DEF Asked, Messages

(* A handler that listens again.                                           *)
LEMMA Replying ==
  ASSUME IInv, NEW h, Run(h),
         h \in {"version", "handshake", "discovery", "focus", "note", "pong"},
         receives' = receives + 1,
         sending' \in {sending, sending \cup {"request"}},
         UNCHANGED <<active, quit, timer, cancelled, promise, phone, owed>>,
         unanswered' = IF h = "pong" THEN unanswered - 1 ELSE unanswered,
         \/ h = "version" /\ stage' = "handshake"
         \/ h = "handshake" /\ stage' \in {"handshake", "discovery"}
         \/ h = "discovery" /\ stage' = "projecting"
         \/ h \in {"focus", "note", "pong"} /\ stage' = stage,
         emitted' = IF h = "discovery"
                    THEN emitted \o <<"video_config", "active">> ELSE emitted
  PROVE  IInv'
<1>1. posted \in Seq(Handler) /\ TypeOK /\ Flags /\ Ranges
  BY Pieces
<1>2. h \in Messages /\ h # "error" /\ h # "byeSent" /\ h \notin Rounds /\ h # "pingDue"
  BY DEF Messages, Rounds
<1>3. /\ io # "stopped" /\ io' = io /\ posted' \in Seq(Handler)
      /\ posted # <<>> /\ 1 \in DOMAIN posted /\ posted[1] = h
      /\ M = M' + 1 /\ E = E' /\ B = B' /\ K = K' /\ D = D'
      /\ h = "pong" => P = P' + 1
      /\ h # "pong" => P = P'
  BY <1>1, <1>2, RunEffect
<1>4. {M', E', B', K', D', P'} \subseteq Nat
  BY <1>3, NumbersAfter
<1>5. S' = S /\ L' = L
  BY Bits DEF S, L
<1>6. stage \notin {"new", "failed"} /\ stage' \notin {"new", "failed"}
  BY <1>3, Begun DEF IInv
<1>16. /\ receives \in Nat /\ S \in {0, 1}
       /\ M \in Nat /\ B \in Nat /\ receives + M + S + B <= 1
  BY Pieces
<1>17. /\ unanswered \in Nat /\ owed \in Nat /\ owed' = owed
       /\ P \in Nat /\ D \in Nat
       /\ MaxUnanswered \in Nat /\ unanswered <= MaxUnanswered + 1
       /\ owed + P <= unanswered
       /\ D > 0 => unanswered <= MaxUnanswered
  BY Pieces
<1>7. M' = 0
  <2>1. \A n \in Nat : M = n + 1 => n = 0
    BY <1>16
  <2> QED
    BY <1>3, <1>4, <2>1, ZenonT(20)
<1>8. Flags' /\ Ranges'
  <2>1. Flags'
    BY <1>1 DEF Flags
  <2>2. unanswered' \in 0..(MaxUnanswered + 1)
    <3>1. h = "pong" => unanswered >= 1
      BY <1>3, <1>4, <1>17
    <3> QED
      BY <3>1, <1>17
  <2>3. emitted' \in Seq(Events)
    BY <1>1, TwoEvents DEF Ranges
  <2>4. Ranges'
    BY <1>1, <1>3, <1>6, <2>2, <2>3 DEF Ranges
  <2> QED
    BY <2>1, <2>4
<1>9. Unstarted' /\ EndTold' /\ Cancels'
  BY <1>3, <1>6 DEF Unstarted, EndTold, Cancels, Started, IInv
<1>10. OneToken'
  <2>1. receives' + M' + S' + B' = receives + M + S + B
    BY <1>3, <1>4, <1>5, <1>16
  <2> QED
    BY <1>3, <2>1, Pieces DEF OneToken, Token
<1>11. OneRound'
  BY <1>3, <1>5 DEF IInv, OneRound, Going
<1>12. PingsLeft'
  <2>1. owed' + P' <= unanswered'
    <3>1. CASE h = "pong"
      BY <1>3, <1>4, <1>17, <3>1
    <3>2. CASE h # "pong"
      BY <1>3, <1>4, <1>17, <3>2
    <3> QED
      BY <3>1, <3>2
  <2>2. D' > 0 => unanswered' <= MaxUnanswered
    BY <1>3, <1>4, <1>17
  <2> QED
    BY <2>1, <2>2 DEF PingsLeft
<1>13. Asked'
  BY <1>3, <1>7, NoMessage
<1>14. IdleOnce'
  <2>1. Count(emitted', {"idle"}) = Count(emitted, {"idle"})
    BY <1>1, TwoEvents DEF Ranges
  <2>2. HowMany(emitted, {"idle"})' = HowMany(emitted, {"idle"})
    BY <2>1 DEF HowMany, Count, Places
  <2> QED
    BY <2>2 DEF IInv, IdleOnce, One
<1>15. Story'
  <2>1. /\ h = "version" => stage = "version"
        /\ h = "handshake" => stage = "handshake"
        /\ h = "discovery" => stage = "discovery"
    BY <1>3 DEF IInv, Asked
  <2>2. CASE h = "discovery"
    BY <2>1, <2>2, Words DEF IInv, Story
  <2>3. CASE h # "discovery"
    BY <2>1, <2>3 DEF IInv, Story
  <2> QED
    BY <2>2, <2>3
<1> QED
  BY <1>8, <1>9, <1>10, <1>11, <1>12, <1>13, <1>14, <1>15, TypeHalves DEF IInv

(* The phone says goodbye: the token goes to the answer.                   *)
LEMMA Goodbye ==
  ASSUME IInv, OnByeByeRequest
  PROVE  IInv'
<1>1. /\ posted \in Seq(Handler) /\ Flags /\ Ranges
      /\ receives \in Nat /\ S \in {0, 1} /\ M \in Nat /\ B \in Nat
      /\ receives + M + S + B <= 1
  BY Pieces
<1>2. /\ Run("bye") /\ receives' = receives /\ sending' = sending \cup {"bye"}
      /\ UNCHANGED <<active, quit, emitted, timer, cancelled, promise,
                     unanswered, stage, phone, owed>>
  BY DEF OnByeByeRequest, Send, NoReceive, sessionVars, pingerVars, phoneVars
<1>3. /\ "bye" \in Messages /\ "bye" \notin Rounds
      /\ posted' \in Seq(Handler) /\ posted # <<>>
      /\ io # "stopped" /\ io' = io
      /\ M = M' + 1 /\ E = E' /\ B = B' /\ K = K' /\ D = D' /\ P = P'
  <2>1. "bye" \in Messages /\ "bye" \notin Rounds
    BY DEF Messages, Rounds
  <2> QED
    BY <1>1, <1>2, <2>1, RunEffect
<1>4. {M', E', B', K', D', P'} \subseteq Nat
  BY <1>3, NumbersAfter
<1>5. S' = 1 /\ L' = L
  BY <1>2, Bits DEF L
<1>6. M = 1 /\ S = 0 /\ B = 0 /\ receives = 0 /\ M' = 0
  <2>1. \A n \in Nat : M = n + 1 => /\ n = 0 /\ S = 0 /\ B = 0
                                    /\ receives = 0 /\ M = 1
    BY <1>1
  <2> QED
    BY <1>3, <1>4, <2>1, ZenonT(20)
<1>7. Flags' /\ Ranges'
  BY <1>1, <1>2, <1>3 DEF Flags, Ranges
<1>8. Unstarted' /\ EndTold' /\ Cancels' /\ Story' /\ IdleOnce'
  <2>1. stage \notin {"new", "failed"}
    BY <1>3, Begun DEF IInv
  <2> QED
    BY <1>2, <1>3, <2>1
       DEF IInv, Unstarted, EndTold, Cancels, Started, Story, IdleOnce, HowMany
<1>9. OneToken'
  <2>1. receives' + M' + S' + B' = 1
    BY <1>2, <1>3, <1>5, <1>6
  <2> QED
    BY <2>1 DEF OneToken, Token
<1>10. OneRound' /\ PingsLeft'
  BY <1>2, <1>3, <1>5 DEF IInv, OneRound, Going, PingsLeft
<1>11. Asked'
  BY <1>3, <1>6, NoMessage
<1> QED
  BY <1>7, <1>8, <1>9, <1>10, <1>11, TypeHalves DEF IInv

(* The next ping: the round goes from the strand to its timer.             *)
LEMMA Pinging ==
  ASSUME IInv, OnPingDue
  PROVE  IInv'
<1>1. /\ posted \in Seq(Handler) /\ Flags /\ Ranges
      /\ K \in Nat /\ D \in Nat /\ D <= K /\ L \in {0, 1} /\ L + K <= 1
      /\ unanswered \in Nat /\ owed \in Nat /\ P \in Nat
      /\ owed + P <= unanswered /\ MaxUnanswered \in Nat
      /\ D > 0 => unanswered <= MaxUnanswered
  BY Pieces
<1>2. /\ Run("pingDue") /\ sending' = sending \cup {"request"}
      /\ UNCHANGED <<active, quit, emitted, receives, stage, phone>>
      /\ owed' \in {owed, owed + 1}
  BY DEF OnPingDue, Send, sessionVars
<1>3. /\ posted' \in Seq(Handler) /\ posted # <<>>
      /\ io # "stopped" /\ io' = io
      /\ \A i \in DOMAIN posted' :
           i + 1 \in DOMAIN posted /\ posted'[i] = posted[i + 1]
      /\ M = M' /\ E = E' /\ B = B' /\ K = K' + 1 /\ D = D' + 1 /\ P = P'
  <2>1. "pingDue" \notin Messages /\ "pingDue" \in Rounds
    BY DEF Messages, Rounds
  <2> QED
    BY <1>1, <1>2, <2>1, RunEffect
<1>4. {M', E', B', K', D', P'} \subseteq Nat
  BY <1>3, NumbersAfter
<1>5. L = 0 /\ K = 1 /\ D = 1 /\ K' = 0 /\ D' = 0
  <2>1. \A n \in Nat : K = n + 1 => n = 0 /\ L = 0 /\ K = 1
    BY <1>1
  <2>2. K' = 0 /\ L = 0 /\ K = 1
    BY <1>3, <1>4, <2>1, ZenonT(20)
  <2>3. \A n \in Nat : D = n + 1 => n = 0 /\ D = 1
    BY <1>1, <2>2
  <2> QED
    BY <1>3, <1>4, <2>2, <2>3, ZenonT(20)
<1>6. promise = "none"
  BY <1>5, Bits DEF IInv, OneRound, TypeOK
<1>7. /\ ~cancelled' /\ promise' = "live" /\ timer' = "armed"
      /\ unanswered' = unanswered + 1
  BY <1>6 DEF OnPingDue, PingAgain, Ping, Counted
<1>8. S' = S /\ L' = 1
  BY <1>2, <1>7, Bits DEF S
<1>9. cancelled' \in BOOLEAN
  BY <1>6 DEF OnPingDue, PingAgain, Ping
<1>10. Flags'
  BY <1>1, <1>2, <1>9 DEF Flags
<1>11. Ranges'
  <2>1. unanswered' \in 0..(MaxUnanswered + 1) /\ owed' \in Nat
    BY <1>1, <1>2, <1>5, <1>7
  <2> QED
    BY <1>1, <1>2, <1>3, <1>7, <2>1 DEF Ranges
<1>12. Unstarted' /\ EndTold' /\ Cancels' /\ Story' /\ IdleOnce'
  <2>1. stage \notin {"new", "failed"}
    BY <1>3, Begun DEF IInv
  <2> QED
    BY <1>2, <1>3, <2>1
       DEF IInv, Unstarted, EndTold, Cancels, Started, Story, IdleOnce, HowMany
<1>13. OneToken'
  BY <1>2, <1>3, <1>8 DEF IInv, OneToken, Token
<1>14. OneRound'
  <2>1. L' + K' = 1
    BY <1>5, <1>8
  <2> QED
    BY <1>7, <2>1 DEF OneRound, Going
<1>15. PingsLeft'
  <2>1. owed' + P' <= unanswered'
    <3>1. owed + P <= unanswered + 1 /\ owed + 1 + P <= unanswered + 1
      BY <1>1
    <3> QED
      BY <1>2, <1>3, <1>7, <3>1
  <2>2. D' > 0 => unanswered' <= MaxUnanswered
    BY <1>5
  <2> QED
    BY <2>1, <2>2 DEF PingsLeft
<1>16. Asked'
  BY <1>2, <1>3 DEF IInv, Asked
<1> QED
  BY <1>10, <1>11, <1>12, <1>13, <1>14, <1>15, <1>16, TypeHalves DEF IInv

-----------------------------------------------------------------------------
(* The timer.                                                              *)

(* The timer expires, or is cancelled, and the round goes to the strand or *)
(* ends.                                                                   *)
LEMMA Timing ==
  ASSUME IInv, OnTimerExceeded
  PROVE  IInv'
<1>1. /\ posted \in Seq(Handler) /\ Flags /\ Ranges
      /\ K \in Nat /\ D \in Nat /\ D <= K /\ L \in {0, 1} /\ L + K <= 1
      /\ unanswered \in Nat /\ MaxUnanswered \in Nat
  BY Pieces
<1>2. /\ io # "stopped" /\ timer \in {"fired", "aborted"}
      /\ posted' = posted \o Outcome /\ timer' = "off" /\ promise' = "none"
      /\ UNCHANGED <<active, quit, emitted, receives, sending, cancelled,
                     unanswered, io, stage, phone, owed>>
  BY DEF OnTimerExceeded, sessionVars, channelVars, phoneVars
<1>3. promise = "live" /\ L = 1 /\ K = 0 /\ D = 0
  <2>1. promise = "live"
    BY <1>2 DEF IInv, OneRound
  <2> QED
    BY <1>1, <2>1, Bits
<1>4. stage \notin {"new", "failed"}
  BY <1>2, Begun DEF IInv
<1>5. S' = S /\ L' = 0
  BY <1>2, Bits DEF S
<1>6. Unstarted' /\ EndTold' /\ Cancels' /\ Story' /\ IdleOnce'
  BY <1>2, <1>4
     DEF IInv, Unstarted, EndTold, Cancels, Started, Story, IdleOnce, HowMany
<1>7. Flags'
  BY <1>1, <1>2 DEF Flags
<1>8. CASE timer = "aborted" \/ cancelled
  <2>1. posted' = posted
    BY <1>1, <1>2, <1>8 DEF Outcome
  <2>2. M' = M /\ E' = E /\ B' = B /\ K' = 0 /\ D' = 0 /\ P' = P
    BY <1>3, <2>1, SameEffect
  <2>3. ~active
    BY <1>8 DEF IInv, OneRound
  <2>4. Ranges'
    BY <1>1, <1>2, <2>1 DEF Ranges
  <2>5. OneToken'
    BY <1>2, <1>5, <2>2 DEF IInv, OneToken, Token
  <2>6. OneRound'
    BY <1>2, <1>5, <2>2, <2>3 DEF OneRound, Going
  <2>7. PingsLeft' /\ Asked'
    BY <1>2, <2>1, <2>2 DEF IInv, PingsLeft, Asked
  <2> QED
    BY <1>6, <1>7, <2>4, <2>5, <2>6, <2>7, TypeHalves DEF IInv
<1>9. CASE timer = "fired" /\ ~cancelled
  <2>1. PICK e \in Rounds : /\ posted' = posted \o <<e>>
                            /\ e = "pingDue" => ~(unanswered > MaxUnanswered)
    BY <1>2, <1>3, <1>9 DEF Outcome, TooMany, Rounds
  <2>2. /\ e \in Handler /\ e \notin Messages /\ e \notin {"error", "byeSent", "pong"}
    BY DEF Rounds, Handler, Messages, Continuations
  <2>3. posted' = Append(posted, e)
    <3>1. Append(posted, e) = posted \o <<e>>
      BY <1>1, <2>2, AppendIsConcat
    <3> QED
      BY <2>1, <3>1
  <2>4. /\ posted' \in Seq(Handler)
        /\ \A i \in DOMAIN posted' :
             \/ posted'[i] = e
             \/ i \in DOMAIN posted /\ posted'[i] = posted[i]
        /\ M' = M /\ E' = E /\ B' = B /\ K' = K + 1 /\ P' = P
        /\ D' = IF e = "pingDue" THEN D + 1 ELSE D
    BY <1>1, <2>2, <2>3, PostEffect
  <2>5. Ranges'
    BY <1>1, <1>2, <2>4 DEF Ranges
  <2>6. OneToken'
    BY <1>2, <1>5, <2>4 DEF IInv, OneToken, Token
  <2>7. OneRound'
    <3>1. K' = 1
      BY <1>3, <2>4
    <3>2. Going' = 1
      BY <1>5, <3>1 DEF Going
    <3>3. active => ~cancelled
      BY DEF IInv, OneRound
    <3> QED
      BY <1>2, <3>2, <3>3 DEF OneRound
  <2>8. PingsLeft'
    <3>1. owed' + P' <= unanswered'
      BY <1>2, <2>4 DEF IInv, PingsLeft
    <3>2. D' > 0 => unanswered' <= MaxUnanswered
      <4>1. CASE e = "pingDue"
        <5>1. unanswered <= MaxUnanswered
          BY <1>1, <2>1, <4>1
        <5> QED
          BY <1>2, <5>1
      <4>2. CASE e # "pingDue"
        <5>1. D' = 0
          BY <1>3, <2>4, <4>2
        <5> QED
          BY <5>1
      <4> QED
        BY <4>1, <4>2
    <3> QED
      BY <3>1, <3>2 DEF PingsLeft
  <2>9. Asked'
    BY <1>2, <2>4 DEF IInv, Asked, Rounds
  <2> QED
    BY <1>6, <1>7, <2>5, <2>6, <2>7, <2>8, <2>9, TypeHalves DEF IInv
<1> QED
  BY <1>2, <1>8, <1>9

-----------------------------------------------------------------------------
(* Session::start.                                                         *)

(* The first event.                                                        *)
LEMMA FirstEvent ==
  ASSUME IInv, stage = "new", emitted' = Append(emitted, "connecting"),
         quit' = quit
  PROVE  /\ ~active /\ ~quit /\ posted = <<>> /\ receives = 0 /\ sending = {}
         /\ timer = "off" /\ promise = "none" /\ unanswered = 0 /\ owed = 0
         /\ emitted' = Connecting /\ emitted' \in Seq(Events)
         /\ HowMany(emitted, {"idle"})' = 0
         /\ M = 0 /\ E = 0 /\ B = 0 /\ K = 0 /\ D = 0 /\ P = 0
<1>1. /\ ~active /\ ~quit /\ posted = <<>> /\ receives = 0 /\ sending = {}
      /\ timer = "off" /\ promise = "none" /\ unanswered = 0 /\ owed = 0
  BY DEF IInv, Unstarted
<1>2. emitted = <<>>
  BY DEF IInv, Story
<1>3. emitted' = Connecting
  BY <1>2, Words
<1>4. "connecting" \in Events /\ emitted \in Seq(Events)
  BY <1>2 DEF Events
<1>5. Count(emitted', {"idle"})
        = Count(emitted, {"idle"}) + Bit("connecting" \in {"idle"})
  BY <1>4, CountAppend
<1>6. Count(emitted, {"idle"}) = 0 /\ Bit("connecting" \in {"idle"}) = 0
  BY <1>2, CountEmpty DEF Bit
<1>7. HowMany(emitted, {"idle"})' = 0
  <2>1. HowMany(emitted, {"idle"})' = Count(emitted', {"idle"})
    BY DEF HowMany, Count, Places
  <2> QED
    BY <1>5, <1>6, <2>1
<1>8. M = 0 /\ E = 0 /\ B = 0 /\ K = 0 /\ D = 0 /\ P = 0
  BY <1>1, CountEmpty DEF M, E, B, K, D, P
<1> QED
  BY <1>1, <1>3, <1>4, <1>7, <1>8

(* Session::start: the round, the token and the story begin.               *)
LEMMA Starting ==
  ASSUME IInv, Start
  PROVE  IInv'
<1>1. /\ stage = "new" /\ stage' = "version" /\ active'
      /\ emitted' = Append(emitted, "connecting")
      /\ sending' = sending \cup {"request"} /\ receives' = receives + 1
      /\ io = "running"
      /\ UNCHANGED <<quit, posted, io, phone, owed>>
  BY DEF Start, Send, Receive
<1>2. /\ ~active /\ ~quit /\ posted = <<>> /\ receives = 0 /\ sending = {}
      /\ timer = "off" /\ promise = "none" /\ unanswered = 0 /\ owed = 0
      /\ emitted' = Connecting /\ emitted' \in Seq(Events)
      /\ HowMany(emitted, {"idle"})' = 0
  BY <1>1, FirstEvent
<1>3. M = 0 /\ E = 0 /\ B = 0 /\ K = 0 /\ D = 0 /\ P = 0
  BY <1>1, FirstEvent
<1>4. M' = 0 /\ E' = 0 /\ B' = 0 /\ K' = 0 /\ D' = 0 /\ P' = 0
  BY <1>1, <1>3, SameEffect
<1>5. /\ ~cancelled' /\ promise' = "live" /\ timer' = "armed"
      /\ unanswered' = 1
  BY <1>2 DEF Start, Ping, Counted
<1>6. S' = 0 /\ L' = 1
  BY <1>1, <1>2, <1>5, Bits
<1>7. Flags'
  <2>1. active' \in BOOLEAN /\ cancelled' \in BOOLEAN
    BY DEF Start, Ping
  <2>2. quit \in BOOLEAN
    BY DEF IInv, TypeOK
  <2> QED
    BY <1>1, <2>1, <2>2 DEF Flags
<1>8. Ranges'
  <2>1. Ranges
    BY Pieces
  <2>2. unanswered' \in 0..(MaxUnanswered + 1)
    BY <1>5, UnansweredAssumption
  <2> QED
    BY <1>1, <1>2, <1>5, <2>1, <2>2 DEF Ranges
<1>9. Unstarted' /\ EndTold' /\ Cancels' /\ Story'
  BY <1>1, <1>2 DEF Unstarted, EndTold, Cancels, Story
<1>10. IdleOnce'
  BY <1>1, <1>2 DEF IdleOnce, One
<1>11. OneToken'
  <2>1. receives' + M' + S' + B' = 1
    BY <1>1, <1>2, <1>4, <1>6
  <2> QED
    BY <2>1 DEF OneToken, Token
<1>12. OneRound'
  <2>1. L' + K' = 1
    BY <1>4, <1>6
  <2> QED
    BY <1>5, <2>1 DEF OneRound, Going
<1>13. PingsLeft'
  <2>1. owed' + P' <= unanswered'
    BY <1>1, <1>2, <1>4, <1>5
  <2> QED
    BY <1>4, <2>1 DEF PingsLeft
<1>14. Asked'
  BY <1>1, <1>2 DEF Asked
<1> QED
  BY <1>7, <1>8, <1>9, <1>10, <1>11, <1>12, <1>13, <1>14, TypeHalves DEF IInv

(* A start() that throws only reports.                                     *)
LEMMA Throwing ==
  ASSUME IInv, StartThrows
  PROVE  IInv'
<1>1. /\ stage = "new" /\ stage' = "failed" /\ io = "running"
      /\ emitted' = Append(emitted, "connecting")
      /\ UNCHANGED <<active, quit, posted, receives, sending, timer, cancelled,
                     promise, unanswered, io, phone, owed>>
  BY DEF StartThrows, channelVars, pingerVars
<1>2. /\ ~active /\ ~quit /\ posted = <<>>
      /\ emitted' = Connecting /\ emitted' \in Seq(Events)
      /\ HowMany(emitted, {"idle"})' = 0
  BY <1>1, FirstEvent
<1>3. S' = S /\ L' = L
  BY <1>1 DEF S, L
<1>4. Flags' /\ Ranges'
  <2>1. Flags /\ Ranges
    BY Pieces
  <2> QED
    BY <1>1, <1>2, <2>1 DEF Flags, Ranges
<1>5. Unstarted' /\ EndTold' /\ Cancels' /\ Story'
  BY <1>1, <1>2 DEF IInv, Unstarted, EndTold, Cancels, Started, Story
<1>6. IdleOnce'
  BY <1>1, <1>2 DEF IInv, IdleOnce, One
<1>7. OneToken' /\ OneRound' /\ PingsLeft'
  BY <1>1, <1>3, SameEffect
     DEF IInv, OneToken, Token, OneRound, Going, PingsLeft
<1>8. Asked'
  BY <1>1, <1>2 DEF Asked
<1> QED
  BY <1>4, <1>5, <1>6, <1>7, <1>8, TypeHalves DEF IInv

-----------------------------------------------------------------------------
(* The phone and aasdk.                                                    *)

(* A step that only takes from the channel and may post a message or an    *)
(* error leaves the rest of the invariant.                                 *)
LEMMA Elsewhere ==
  ASSUME IInv, stage \notin {"new", "failed"},
         posted' \in Seq(Handler), receives' \in Nat,
         sending' \subseteq sending, owed' \in Nat,
         UNCHANGED <<active, quit, emitted, timer, cancelled, promise,
                     unanswered, io, stage, phone>>
  PROVE  /\ TypeOK' /\ Unstarted' /\ EndTold' /\ Cancels' /\ Story' /\ IdleOnce' /\ L' = L
         /\ K' = K => OneRound'
<1>1. Flags' /\ Ranges'
  <2>1. Flags /\ Ranges
    BY Pieces
  <2> QED
    BY <2>1 DEF Flags, Ranges
<1>2. Unstarted' /\ EndTold' /\ Cancels' /\ Story' /\ IdleOnce'
  BY DEF IInv, Unstarted, EndTold, Cancels, Started, Story, IdleOnce, HowMany
<1>3. L' = L
  BY DEF L
<1>4. K' = K => OneRound'
  BY <1>3 DEF IInv, OneRound, Going
<1> QED
  BY <1>1, <1>2, <1>3, <1>4, TypeHalves

(* A message arrives.                                                      *)
LEMMA Delivering ==
  ASSUME IInv, NEW m \in Messages, Deliver(m)
  PROVE  IInv'
<1>1. /\ posted \in Seq(Handler) /\ receives \in Nat /\ owed \in Nat
      /\ M \in Nat /\ S \in {0, 1} /\ B \in Nat /\ P \in Nat
      /\ unanswered \in Nat /\ owed + P <= unanswered
      /\ receives + M + S + B <= 1
      /\ active => receives + M + S + B = 1 \/ E > 0
  BY Pieces
<1>2. /\ receives > 0 /\ receives' = receives - 1 /\ m \in Sendable
      /\ posted' = Append(posted, m)
      /\ owed' = IF m = "pong" THEN owed - 1 ELSE owed
      /\ UNCHANGED <<active, quit, emitted, sending, timer, cancelled, promise,
                     unanswered, io, stage, phone>>
  BY DEF Deliver, sessionVars, pingerVars
<1>3. stage \notin {"new", "failed"}
  BY <1>1, <1>2, Begun DEF IInv
<1>4. /\ m = "pong" => owed > 0
      /\ m \in {"version", "badVersion"} => stage = "version"
      /\ m = "handshake" => stage = "handshake"
      /\ m = "discovery" => stage = "discovery"
      /\ m \in {"focus", "note", "bye", "byeResponse"} => stage = "projecting"
  BY <1>2 DEF Sendable
<1>5. /\ m \in Handler /\ m # "error" /\ m # "byeSent" /\ m \notin Rounds
      /\ m # "pingDue"
  BY DEF Handler, Messages, Rounds
<1>6. /\ posted' \in Seq(Handler)
      /\ \A i \in DOMAIN posted' :
           \/ posted'[i] = m
           \/ i \in DOMAIN posted /\ posted'[i] = posted[i]
      /\ M' = M + 1 /\ E' = E /\ B' = B /\ K' = K /\ D' = D
      /\ P' = IF m = "pong" THEN P + 1 ELSE P
  BY <1>1, <1>2, <1>5, PostEffect
<1>7. receives' \in Nat /\ owed' \in Nat
  BY <1>1, <1>2, <1>4
<1>8. S' = S
  BY <1>2 DEF S
<1>9. /\ TypeOK' /\ Unstarted' /\ EndTold' /\ Cancels' /\ Story' /\ IdleOnce' /\ OneRound'
  BY <1>2, <1>3, <1>6, <1>7, Elsewhere
<1>10. OneToken'
  <2>1. receives' + M' + S' + B' = receives + M + S + B
    BY <1>1, <1>2, <1>6, <1>8
  <2> QED
    BY <1>1, <1>2, <1>6, <2>1 DEF OneToken, Token
<1>11. PingsLeft'
  <2>1. owed' + P' = owed + P
    <3>1. CASE m = "pong"
      BY <1>1, <1>2, <1>6, <3>1
    <3>2. CASE m # "pong"
      BY <1>1, <1>2, <1>6, <3>2
    <3> QED
      BY <3>1, <3>2
  <2> QED
    BY <1>2, <1>6, <2>1 DEF IInv, PingsLeft
<1>12. Asked'
  BY <1>2, <1>4, <1>6 DEF IInv, Asked
<1> QED
  BY <1>9, <1>10, <1>11, <1>12 DEF IInv

(* A receive or a send that fails.                                         *)
LEMMA Failing ==
  ASSUME IInv, posted \in Seq(Handler), NEW e \in Failed, posted' = posted \o e
  PROVE  /\ posted' \in Seq(Handler)
         /\ \A i \in DOMAIN posted' :
              \/ posted'[i] = "error"
              \/ i \in DOMAIN posted /\ posted'[i] = posted[i]
         /\ M' = M /\ B' = B /\ K' = K /\ D' = D /\ P' = P
         /\ active => E' > 0
<1>1. /\ "error" \in Handler /\ "error" \notin Messages /\ "error" \notin Rounds
  BY DEF Handler, Continuations, Messages, Rounds
<1>2. E \in Nat
  BY Numbers
<1>3. CASE e = <<"error">>
  <2>1. Append(posted, "error") = posted \o <<"error">>
    BY <1>1, AppendIsConcat
  <2>2. posted' = Append(posted, "error")
    BY <1>3, <2>1
  <2>3. /\ posted' \in Seq(Handler)
        /\ \A i \in DOMAIN posted' :
             \/ posted'[i] = "error"
             \/ i \in DOMAIN posted /\ posted'[i] = posted[i]
        /\ M' = M /\ B' = B /\ K' = K /\ D' = D /\ P' = P /\ E' = E + 1
    BY <1>1, <2>2, PostEffect
  <2>4. E' > 0
    BY <1>2, <2>3
  <2> QED
    BY <2>3, <2>4
<1>4. CASE e = <<>> /\ ~active
  <2>1. posted' = posted
    BY <1>4
  <2>2. M' = M /\ B' = B /\ K' = K /\ D' = D /\ P' = P
    BY <2>1, SameEffect
  <2> QED
    BY <1>4, <2>1, <2>2
<1>5. e = <<"error">> \/ (e = <<>> /\ ~active)
  BY DEF Failed
<1> QED
  BY <1>3, <1>4, <1>5

(* The token is lost, but an error is posted or the session has ended.     *)
LEMMA ReceiveFailing ==
  ASSUME IInv, ReceiveFails
  PROVE  IInv'
<1>1. /\ posted \in Seq(Handler) /\ receives \in Nat /\ owed \in Nat
      /\ M \in Nat /\ S \in {0, 1} /\ B \in Nat
      /\ receives + M + S + B <= 1
  BY Pieces
<1>2. PICK e \in Failed : posted' = posted \o e
  BY DEF ReceiveFails
<1>3. /\ receives > 0 /\ receives' = receives - 1
      /\ UNCHANGED <<active, quit, emitted, sending, timer, cancelled, promise,
                     unanswered, io, stage, phone, owed>>
  BY DEF ReceiveFails, sessionVars, pingerVars, phoneVars
<1>4. stage \notin {"new", "failed"}
  BY <1>1, <1>3, Begun DEF IInv
<1>5. /\ posted' \in Seq(Handler)
      /\ \A i \in DOMAIN posted' :
           \/ posted'[i] = "error"
           \/ i \in DOMAIN posted /\ posted'[i] = posted[i]
      /\ M' = M /\ B' = B /\ K' = K /\ D' = D /\ P' = P
      /\ active => E' > 0
  BY <1>1, <1>2, Failing
<1>6. receives' \in Nat /\ owed' \in Nat
  BY <1>1, <1>3
<1>7. S' = S
  BY <1>3 DEF S
<1>8. /\ TypeOK' /\ Unstarted' /\ EndTold' /\ Cancels' /\ Story' /\ IdleOnce' /\ OneRound'
  BY <1>3, <1>4, <1>5, <1>6, Elsewhere
<1>9. OneToken'
  <2>1. receives' + M' + S' + B' <= 1
    BY <1>1, <1>3, <1>5, <1>7
  <2> QED
    BY <1>3, <1>5, <2>1 DEF OneToken, Token
<1>10. PingsLeft' /\ Asked'
  BY <1>3, <1>5 DEF IInv, PingsLeft, Asked
<1> QED
  BY <1>8, <1>9, <1>10 DEF IInv

(* The same for a goodbye that is not sent.                                *)
LEMMA SendFailing ==
  ASSUME IInv, NEW k \in {"request", "bye"}, SendFails(k)
  PROVE  IInv'
<1>1. /\ posted \in Seq(Handler) /\ receives \in Nat /\ owed \in Nat
      /\ M \in Nat /\ S \in {0, 1} /\ B \in Nat
      /\ receives + M + S + B <= 1
  BY Pieces
<1>2. PICK e \in Failed : posted' = posted \o e
  BY DEF SendFails
<1>3. /\ k \in sending /\ sending' = sending \ {k}
      /\ UNCHANGED <<active, quit, emitted, receives, timer, cancelled, promise,
                     unanswered, io, stage, phone, owed>>
  BY DEF SendFails, sessionVars, pingerVars, phoneVars
<1>4. stage \notin {"new", "failed"}
  BY <1>3, Begun DEF IInv
<1>5. /\ posted' \in Seq(Handler)
      /\ \A i \in DOMAIN posted' :
           \/ posted'[i] = "error"
           \/ i \in DOMAIN posted /\ posted'[i] = posted[i]
      /\ M' = M /\ B' = B /\ K' = K /\ D' = D /\ P' = P
      /\ active => E' > 0
  BY <1>1, <1>2, Failing
<1>6. S' = S \/ S' = 0
  BY <1>3, Bits
<1>7. /\ TypeOK' /\ Unstarted' /\ EndTold' /\ Cancels' /\ Story' /\ IdleOnce' /\ OneRound'
  BY <1>1, <1>3, <1>4, <1>5, Elsewhere
<1>8. OneToken'
  <2>1. receives' + M' + S' + B' <= 1
    BY <1>1, <1>3, <1>5, <1>6
  <2> QED
    BY <1>3, <1>5, <2>1 DEF OneToken, Token
<1>9. PingsLeft' /\ Asked'
  BY <1>3, <1>5 DEF IInv, PingsLeft, Asked
<1> QED
  BY <1>7, <1>8, <1>9 DEF IInv

(* A send completes: the token of the goodbye goes to its continuation.    *)
LEMMA SendCompleting ==
  ASSUME IInv, NEW k \in {"request", "bye"}, SendCompletes(k)
  PROVE  IInv'
<1>1. /\ posted \in Seq(Handler) /\ receives \in Nat /\ owed \in Nat
      /\ M \in Nat /\ S \in {0, 1} /\ B \in Nat
      /\ receives + M + S + B <= 1
      /\ active => receives + M + S + B = 1 \/ E > 0
  BY Pieces
<1>2. /\ k \in sending /\ sending' = sending \ {k}
      /\ posted' = IF k = "bye" THEN Append(posted, "byeSent") ELSE posted
      /\ UNCHANGED <<active, quit, emitted, receives, timer, cancelled, promise,
                     unanswered, io, stage, phone, owed>>
  BY DEF SendCompletes, sessionVars, pingerVars, phoneVars
<1>3. stage \notin {"new", "failed"}
  BY <1>2, Begun DEF IInv
<1>4. /\ posted' \in Seq(Handler)
      /\ \A i \in DOMAIN posted' :
           \/ posted'[i] = "byeSent"
           \/ i \in DOMAIN posted /\ posted'[i] = posted[i]
      /\ M' = M /\ E' = E /\ K' = K /\ D' = D /\ P' = P
      /\ S' + B' = S + B
  <2>1. CASE k = "bye"
    <3>1. /\ "byeSent" \in Handler /\ "byeSent" \notin Messages
          /\ "byeSent" \notin Rounds
      BY DEF Handler, Continuations, Messages, Rounds
    <3>2. /\ posted' \in Seq(Handler)
          /\ \A i \in DOMAIN posted' :
               \/ posted'[i] = "byeSent"
               \/ i \in DOMAIN posted /\ posted'[i] = posted[i]
          /\ M' = M /\ E' = E /\ B' = B + 1 /\ K' = K /\ D' = D /\ P' = P
      BY <1>1, <1>2, <2>1, <3>1, PostEffect
    <3>3. S = 1 /\ S' = 0
      BY <1>2, <2>1, Bits
    <3>4. S' + B' = S + B
      BY <1>1, <3>2, <3>3
    <3> QED
      BY <3>2, <3>4
  <2>2. CASE k = "request"
    <3>1. posted' = posted
      BY <1>2, <2>2
    <3>2. S' = S
      BY <1>2, <2>2 DEF S
    <3> QED
      BY <1>1, <3>1, <3>2, SameEffect
  <2> QED
    BY <2>1, <2>2
<1>5. /\ TypeOK' /\ Unstarted' /\ EndTold' /\ Cancels' /\ Story' /\ IdleOnce' /\ OneRound'
  BY <1>1, <1>2, <1>3, <1>4, Elsewhere
<1>6. OneToken'
  <2>1. {S', B'} \subseteq Nat
    <3>1. S' \in Nat
      BY DEF S, One
    <3> QED
      BY <1>4, <3>1, NumbersAfter
  <2>2. receives' + M' + S' + B' = receives + M + S + B
    BY <1>1, <1>2, <1>4, <2>1
  <2> QED
    BY <1>1, <1>2, <1>4, <2>2 DEF OneToken, Token
<1>7. PingsLeft' /\ Asked'
  BY <1>2, <1>4 DEF IInv, PingsLeft, Asked
<1> QED
  BY <1>5, <1>6, <1>7 DEF IInv

(* A signal: stop() does not tell the server.                              *)
LEMMA Signalled ==
  ASSUME IInv, Signal
  PROVE  IInv'
<1>1. TypeOK /\ Flags /\ Ranges
  BY Pieces
<1>2. UNCHANGED <<quit, emitted, posted, receives, sending, promise,
                  unanswered, stage, phone, owed>>
  BY DEF Signal, SignalFlag, SignalLock, SignalStop, CancelRuns, SignalHalt,
         SignalStep, channelVars, phoneVars
<1>3. S' = S /\ L' = L
  BY <1>2 DEF S, L
<1>4. CASE SignalFlag \/ SignalLock
  <2>1. /\ UNCHANGED <<active, cancelled, timer>> /\ stage # "new"
        /\ io \in Heedless /\ io' \in {"flagged", "caught"}
    BY <1>4 DEF SignalFlag, SignalLock, SignalStep, Heedless, IInv, Cancels
  <2>2. Flags' /\ Ranges'
    BY <1>1, <1>2, <2>1 DEF Flags, Ranges
  <2>3. Unstarted' /\ EndTold' /\ Cancels' /\ Story' /\ IdleOnce'
    BY <1>2, <2>1
       DEF IInv, Unstarted, EndTold, Cancels, Started, Story, IdleOnce, HowMany
  <2>4. OneToken' /\ OneRound' /\ PingsLeft' /\ Asked'
    BY <1>2, <1>3, <2>1, SameEffect
       DEF IInv, OneToken, Token, OneRound, Going, PingsLeft, Asked
  <2> QED
    BY <2>2, <2>3, <2>4, TypeHalves DEF IInv
<1>5. CASE SignalStop \/ CancelRuns \/ SignalHalt
  <2>1. /\ io' \in {"cancelling", "stopping", "stopped"} /\ io # "running"
        /\ io' = "cancelling" => active \/ io = "cancelling"
    BY <1>5 DEF SignalStop, CancelRuns, SignalHalt, SignalStep
  <2>2. /\ ~active' \/ (active' = active /\ UNCHANGED <<cancelled, timer>>)
        /\ io' = "cancelling" => ~active'
    <3>1. CASE SignalStop
      BY <3>1 DEF SignalStop, SignalStep, Stop
    <3>2. CASE CancelRuns
      BY <3>2 DEF CancelRuns, SignalStep, IInv, Cancels
    <3>3. CASE SignalHalt
      BY <3>3 DEF SignalHalt, SignalStep
    <3> QED
      BY <1>5, <3>1, <3>2, <3>3
  <2>3. /\ Flags' /\ timer' \in {"off", "armed", "fired", "aborted"}
        /\ timer' = "off" <=> timer = "off"
        /\ ~Started => UNCHANGED <<active, cancelled, timer>>
    <3>1. CASE SignalStop
      BY <1>1, <1>2, <3>1
         DEF SignalStop, Stop, Flags, Ranges, IInv, Unstarted, Started
    <3>2. CASE CancelRuns
      BY <1>1, <1>2, <3>2
         DEF CancelRuns, SignalStep, Flags, Ranges, IInv, Cancels
    <3>3. CASE SignalHalt
      BY <1>1, <1>2, <3>3 DEF SignalHalt, Flags, Ranges
    <3> QED
      BY <1>5, <3>1, <3>2, <3>3
  <2>4. Ranges'
    BY <1>1, <1>2, <2>1, <2>3 DEF Ranges
  <2>5. Unstarted' /\ EndTold' /\ Cancels' /\ Story' /\ IdleOnce'
    <3>1. IdleOnce'
      BY <1>2, <2>2 DEF IInv, IdleOnce, HowMany
    <3>2. Cancels'
      BY <1>1, <1>2, <2>1, <2>2 DEF IInv, Cancels, Unstarted, Started
    <3> QED
      BY <1>2, <2>1, <2>3, <3>1, <3>2
         DEF IInv, Unstarted, EndTold, Heedless, Started, Story
  <2>6. OneToken' /\ OneRound' /\ PingsLeft' /\ Asked'
    BY <1>2, <1>3, <2>2, <2>3, SameEffect
       DEF IInv, OneToken, Token, OneRound, Going, PingsLeft, Asked
  <2> QED
    BY <2>3, <2>4, <2>5, <2>6, TypeHalves DEF IInv
<1> QED
  BY <1>4, <1>5 DEF Signal

(* Steps that change only the phone, the timer, or nothing.                *)
LEMMA Little ==
  ASSUME IInv, FallSilent \/ TimerExpires \/ UNCHANGED vars
  PROVE  IInv'
<1>1. /\ UNCHANGED <<active, quit, emitted, posted, receives, sending, cancelled,
                     promise, unanswered, io, stage, owed>>
      /\ phone' = phone \/ phone' \in {"silent", "gone"}
      /\ timer' = timer \/ (timer = "armed" /\ timer' = "fired")
  BY DEF FallSilent, TimerExpires, vars, sessionVars, channelVars, pingerVars,
         phoneVars
<1>2. Flags' /\ Ranges'
  <2>1. Flags /\ Ranges
    BY Pieces
  <2> QED
    BY <1>1, <2>1 DEF Flags, Ranges
<1>3. S' = S /\ L' = L
  BY <1>1 DEF S, L
<1>4. Unstarted' /\ EndTold' /\ Cancels' /\ Story' /\ IdleOnce'
  BY <1>1
     DEF IInv, Unstarted, EndTold, Cancels, Started, Story, IdleOnce, HowMany
<1>5. OneToken' /\ OneRound' /\ PingsLeft' /\ Asked'
  BY <1>1, <1>3, SameEffect
     DEF IInv, OneToken, Token, OneRound, Going, PingsLeft, Asked
<1> QED
  BY <1>2, <1>4, <1>5, TypeHalves DEF IInv

-----------------------------------------------------------------------------
(* The invariant.                                                          *)

(* Every handler of the strand is one of those above.                      *)
LEMMA Handling ==
  ASSUME IInv, Handlers
  PROVE  IInv'
<1> USE DEF Reply, Send, Receive, CryptorError
<1>1. CASE OnVersionResponse
  <2>1. CASE Run("version") /\ CryptorError
    BY <2>1, Quitting
  <2>2. CASE Run("version") /\ Reply /\ stage' = "handshake"
             /\ UNCHANGED <<emitted, phone, owed>>
    <3>1. /\ receives' = receives + 1 /\ sending' = sending \cup {"request"}
          /\ UNCHANGED <<active, quit, timer, cancelled, promise, unanswered,
                         phone, owed, emitted>>
      BY <2>2 DEF pingerVars
    <3> QED
      BY <2>2, <3>1, Replying
  <2> QED
    BY <1>1, <2>1, <2>2 DEF OnVersionResponse
<1>2. CASE OnVersionMismatch
  BY <1>2, Quitting DEF OnVersionMismatch
<1>3. CASE OnHandshake
  <2>1. CASE Run("handshake") /\ CryptorError
    BY <2>1, Quitting
  <2>2. CASE /\ Run("handshake") /\ Reply /\ stage' \in {"handshake", "discovery"}
             /\ UNCHANGED <<emitted, phone, owed>>
    <3>1. /\ receives' = receives + 1 /\ sending' = sending \cup {"request"}
          /\ UNCHANGED <<active, quit, timer, cancelled, promise, unanswered,
                         phone, owed, emitted>>
      BY <2>2 DEF pingerVars
    <3> QED
      BY <2>2, <3>1, Replying
  <2> QED
    BY <1>3, <2>1, <2>2 DEF OnHandshake
<1>4. CASE OnServiceDiscoveryRequest
  <2>1. /\ receives' = receives + 1 /\ sending' = sending \cup {"request"}
        /\ stage' = "projecting"
        /\ emitted' = emitted \o <<"video_config", "active">>
        /\ UNCHANGED <<active, quit, timer, cancelled, promise, unanswered,
                       phone, owed>>
    BY <1>4 DEF OnServiceDiscoveryRequest, pingerVars
  <2> QED
    BY <1>4, <2>1, Replying DEF OnServiceDiscoveryRequest
<1>5. CASE OnFocusRequest
  <2>1. /\ receives' = receives + 1 /\ sending' = sending \cup {"request"}
        /\ UNCHANGED <<active, quit, timer, cancelled, promise, unanswered,
                       stage, phone, owed, emitted>>
    BY <1>5 DEF OnFocusRequest, pingerVars, phoneVars
  <2> QED
    BY <1>5, <2>1, Replying DEF OnFocusRequest
<1>6. CASE OnNotification
  <2>1. /\ receives' = receives + 1 /\ sending' = sending
        /\ UNCHANGED <<active, quit, timer, cancelled, promise, unanswered,
                       stage, phone, owed, emitted>>
    BY <1>6 DEF OnNotification, pingerVars, phoneVars, sessionVars
  <2> QED
    BY <1>6, <2>1, Replying DEF OnNotification
<1>7. CASE OnPingResponse
  <2>1. /\ receives' = receives + 1 /\ sending' = sending
        /\ unanswered' = unanswered - 1
        /\ UNCHANGED <<active, quit, timer, cancelled, promise,
                       stage, phone, owed, emitted>>
    BY <1>7 DEF OnPingResponse, phoneVars, sessionVars
  <2> QED
    BY <1>7, <2>1, Replying DEF OnPingResponse
<1>8. CASE OnByeByeRequest
  BY <1>8, Goodbye
<1>9. CASE OnQuit
  BY <1>9, Quitting DEF OnQuit
<1>10. CASE OnPingDue
  BY <1>10, Pinging
<1>11. CASE OnPingTimeout
  BY <1>11, Quitting DEF OnPingTimeout
<1> QED
  BY <1>1, <1>2, <1>3, <1>4, <1>5, <1>6, <1>7, <1>8, <1>9, <1>10, <1>11
     DEF Handlers

(* Every step keeps the invariant.                                         *)
LEMMA Inductive == IInv /\ [Next]_vars => IInv'
<1> SUFFICES ASSUME IInv, [Next]_vars PROVE IInv'
  OBVIOUS
<1>1. CASE Start
  BY <1>1, Starting
<1>2. CASE StartThrows
  BY <1>2, Throwing
<1>3. CASE Handlers
  BY <1>3, Handling
<1>4. CASE OnTimerExceeded
  BY <1>4, Timing
<1>5. CASE Environment
  BY <1>5, Delivering, SendCompleting, SendFailing, ReceiveFailing, Signalled,
     Little DEF Environment
<1>6. CASE TimerExpires \/ Ended \/ UNCHANGED vars
  BY <1>6, Little DEF Ended
<1> QED
  BY <1>1, <1>2, <1>3, <1>4, <1>5, <1>6 DEF Next

(* The invariant holds in every state of every behaviour.                  *)
LEMMA Invariance == Spec => []IInv
  BY Initially, Inductive, PTL DEF Spec

(* Session::start, stop and the handlers keep every variable in its type,  *)
(* and schedulePing never counts more than one ping over the limit.        *)
THEOREM TypeCorrect == Spec => []TypeOK
<1>1. IInv => TypeOK
  BY DEF IInv
<1> QED
  BY <1>1, Invariance, PTL

(* triggerQuit reports "idle" once, whatever else is posted, and no        *)
(* session that reported it is still active.                               *)
THEOREM ToldOnce == Spec => []IdleOnce
<1>1. IInv => IdleOnce
  BY DEF IInv
<1> QED
  BY <1>1, Invariance, PTL

(* schedulePing and onTimerExceeded hand one round to each other: a live   *)
(* session has exactly one, and the timer is set as long as its promise    *)
(* waits.                                                                  *)
THEOREM KeepsAlive == Spec => []OneKeepalive
<1>1. ASSUME IInv PROVE OneKeepalive
  <2>1. Queued(Rounds) = K
    BY DEF Queued, HowMany, K, Count, Places
  <2>2. L + K <= 1 /\ (active => L + K = 1) /\ (promise = "live" <=> timer # "off")
    BY <1>1 DEF IInv, OneRound, Going
  <2> HIDE DEF K
  <2> QED
    BY <2>1, <2>2 DEF OneKeepalive, L
<1> QED
  BY <1>1, Invariance, PTL

(* The handlers of the control channel pass the token on: no handler that  *)
(* forgets to call receive(), and none that calls it twice.                *)
THEOREM Listens == Spec => []OneReceive
<1>1. ASSUME IInv PROVE OneReceive
  <2>1. \A H : Queued(H) = Count(posted, H)
    BY DEF Queued, HowMany, Count, Places
  <2>2. /\ receives \in Nat /\ M \in Nat /\ E \in Nat /\ B \in Nat
        /\ S \in {0, 1} /\ posted \in Seq(Handler)
        /\ receives + M + S + B <= 1
        /\ active => receives + M + S + B = 1 \/ E > 0
    BY <1>1, Pieces
  <2>3. receives + Queued(Messages \ {"bye"}) <= 1
    <3> DEFINE Some == Messages \ {"bye"}
    <3>1. Count(posted, Some) <= M /\ Count(posted, Some) \in Nat
      <4>1. Some \subseteq Messages
        OBVIOUS
      <4> HIDE DEF Some
      <4> QED
        BY <2>2, <4>1, CountMonotonic, CountType DEF M
    <3> QED
      BY <2>1, <2>2, <3>1
  <2>4. ASSUME active, receives # 1, "bye" \notin sending
        PROVE  Queued(Messages \cup {"error", "byeSent"}) > 0
    <3> DEFINE All == Messages \cup {"error", "byeSent"}
    <3>1. S = 0
      BY <2>4, Bits
    <3>2. M > 0 \/ E > 0 \/ B > 0
      BY <2>2, <2>4, <3>1
    <3>3. M <= Count(posted, All) /\ E <= Count(posted, All)
          /\ B <= Count(posted, All) /\ Count(posted, All) \in Nat
      <4>1. Messages \subseteq All /\ {"error"} \subseteq All
            /\ {"byeSent"} \subseteq All
        OBVIOUS
      <4> HIDE DEF All
      <4> QED
        BY <2>2, <4>1, CountMonotonic, CountType DEF M, E, B
    <3>4. Count(posted, All) > 0
      <4> HIDE DEF All
      <4> QED
        BY <2>2, <3>2, <3>3
    <3> QED
      BY <2>1, <3>4
  <2>5. ASSUME receives = 1
        PROVE  Queued({"bye", "byeSent"}) = 0 /\ "bye" \notin sending
    <3>1. M = 0 /\ S = 0 /\ B = 0
      BY <2>2, <2>5
    <3>2. \A i \in DOMAIN posted : posted[i] \notin Messages
                                   /\ posted[i] \notin {"byeSent"}
      BY <2>2, <3>1, CountZero DEF M, B
    <3>3. Count(posted, {"bye", "byeSent"}) = 0
      BY <2>2, <3>2, CountZero DEF Messages
    <3> QED
      BY <2>1, <3>1, <3>3, Bits
  <2> QED
    BY <2>3, <2>4, <2>5 DEF OneReceive
<1> QED
  BY <1>1, Invariance, PTL

-----------------------------------------------------------------------------
(* What the server shows.                                                  *)

(* applyControlEvent takes what is shown from the last event that is not   *)
(* "video_config".                                                         *)
ShownAfter(n) ==
  \E i \in 1..n : /\ emitted[i] = "active"
                  /\ \A j \in (i + 1)..n : emitted[j] = "video_config"

(* ShownAfter follows applyControlEvent.                                   *)
LEMMA ShownStep ==
  ASSUME emitted \in Seq(Events), NEW n \in 1..Len(emitted)
  PROVE  ShownAfter(n) <=> ApplyControlEvent(ShownAfter(n - 1), emitted[n])
<1>1. n \in Nat /\ n >= 1
  OBVIOUS
<1>2. CASE emitted[n] = "video_config"
  <2>1. ASSUME NEW i \in 1..n, emitted[i] = "active",
               \A j \in (i + 1)..n : emitted[j] = "video_config"
        PROVE  ShownAfter(n - 1)
    <3>1. i \in 1..(n - 1)
      BY <1>1, <1>2, <2>1
    <3>2. \A j \in (i + 1)..(n - 1) : emitted[j] = "video_config"
      BY <1>1, <2>1
    <3> QED
      BY <2>1, <3>1, <3>2 DEF ShownAfter
  <2>2. ASSUME NEW i \in 1..(n - 1), emitted[i] = "active",
               \A j \in (i + 1)..(n - 1) : emitted[j] = "video_config"
        PROVE  ShownAfter(n)
    <3>1. i \in 1..n
      BY <1>1
    <3>2. \A j \in (i + 1)..n : emitted[j] = "video_config"
      BY <1>1, <1>2, <2>2
    <3> QED
      BY <2>2, <3>1, <3>2 DEF ShownAfter
  <2> QED
    BY <1>2, <2>1, <2>2 DEF ShownAfter, ApplyControlEvent
<1>3. CASE emitted[n] # "video_config"
  <2>1. ASSUME emitted[n] = "active" PROVE ShownAfter(n)
    BY <1>1, <2>1 DEF ShownAfter
  <2>2. ASSUME ShownAfter(n) PROVE emitted[n] = "active"
    BY <1>1, <1>3, <2>2 DEF ShownAfter
  <2> QED
    BY <1>3, <2>1, <2>2 DEF ApplyControlEvent
<1> QED
  BY <1>2, <1>3

(* What View makes of the last event.                                      *)
LEMMA ViewIsLast ==
  ASSUME emitted \in Seq(Events)
  PROVE  /\ emitted = <<>> => ~View
         /\ emitted # <<>> /\ emitted[Len(emitted)] # "video_config" =>
              (View <=> emitted[Len(emitted)] = "active")
<1> DEFINE shown[n \in 0..Len(emitted)] ==
             IF n = 0 THEN FALSE ELSE ApplyControlEvent(shown[n - 1], emitted[n])
           Step(g) == [n \in 0..Len(emitted) |->
                         IF n = 0 THEN FALSE
                         ELSE ApplyControlEvent(g[n - 1], emitted[n])]
           f == [n \in 0..Len(emitted) |-> ShownAfter(n)]
<1>1. View = shown[Len(emitted)]
  BY DEF View
<1>2. shown = CHOOSE g : g = Step(g)
  OBVIOUS
<1>3. f = Step(f)
  <2>1. ASSUME NEW n \in 0..Len(emitted)
        PROVE  ShownAfter(n) = IF n = 0 THEN FALSE
                               ELSE ApplyControlEvent(f[n - 1], emitted[n])
    <3>1. CASE n = 0
      <4>1. ~ShownAfter(0)
        BY DEF ShownAfter
      <4> QED
        BY <3>1, <4>1 DEF ShownAfter
    <3>2. CASE n # 0
      <4>1. n \in 1..Len(emitted) /\ n - 1 \in 0..Len(emitted)
        BY <3>2
      <4>2. f[n - 1] = ShownAfter(n - 1)
        BY <4>1
      <4>3. ShownAfter(n) <=> ApplyControlEvent(ShownAfter(n - 1), emitted[n])
        BY <4>1, ShownStep
      <4> HIDE DEF f
      <4> QED
        BY <3>2, <4>2, <4>3 DEF ShownAfter, ApplyControlEvent
    <3> QED
      BY <3>1, <3>2
  <2> QED
    BY <2>1
<1>4. shown = Step(shown)
  <2> HIDE DEF Step, f, shown
  <2> QED
    BY <1>2, <1>3
<1>5. /\ shown[0] = FALSE
      /\ emitted # <<>> =>
           shown[Len(emitted)] =
             ApplyControlEvent(shown[Len(emitted) - 1], emitted[Len(emitted)])
  <2> HIDE DEF shown
  <2> QED
    BY <1>4
<1> HIDE DEF shown
<1>6. emitted = <<>> => ~View
  BY <1>1, <1>5
<1>7. ASSUME emitted # <<>>, emitted[Len(emitted)] # "video_config"
      PROVE  View <=> emitted[Len(emitted)] = "active"
  BY <1>1, <1>5, <1>7 DEF ApplyControlEvent
<1> QED
  BY <1>6, <1>7

(* The server shows the session as long as it projects, and never longer,  *)
(* except when a discovery request is answered after the end: what         *)
(* onServiceDiscoveryRequest emits without looking at active.              *)
THEOREM ServerTold == Spec => []ViewFollows
<1>1. ASSUME IInv PROVE ViewFollows
  <2>1. emitted \in Seq(Events) /\ active \in BOOLEAN /\ quit \in BOOLEAN
    BY <1>1 DEF IInv, TypeOK, Events
  <2>2. ASSUME active, stage = "projecting" PROVE View
    <3>1. emitted = Projecting
      BY <1>1, <2>2 DEF IInv, Story, IdleOnce
    <3>2. emitted # <<>> /\ emitted[Len(emitted)] = "active"
      BY <3>1 DEF Projecting
    <3> QED
      BY <2>1, <3>2, ViewIsLast
  <2>3. ASSUME io \in Heedless, View, ~active PROVE emitted = Late
    <3>1. \/ emitted = <<>> \/ emitted = Connecting \/ emitted = Refused
          \/ emitted = Finished \/ emitted = Late
      BY <1>1, <2>3 DEF IInv, Story, EndTold, Started, TypeOK
    <3>2. emitted # <<>>
      BY <2>1, <2>3, ViewIsLast
    <3>3. emitted # Connecting
      <4>1. emitted = Connecting => emitted[Len(emitted)] = "connecting"
        BY DEF Connecting
      <4> QED
        BY <2>1, <2>3, <3>2, <4>1, ViewIsLast
    <3>4. emitted # Refused /\ emitted # Finished
      <4>1. emitted = Refused => emitted[Len(emitted)] = "idle"
        BY DEF Refused
      <4>2. emitted = Finished => emitted[Len(emitted)] = "idle"
        BY DEF Finished
      <4> QED
        BY <2>1, <2>3, <3>2, <4>1, <4>2, ViewIsLast
    <3> QED
      BY <3>1, <3>2, <3>3, <3>4
  <2> QED
    BY <2>2, <2>3 DEF ViewFollows, Late, Heedless
<1> QED
  BY <1>1, Invariance, PTL

-----------------------------------------------------------------------------
(* What Runner sees of a session.                                          *)

(* Where there is at most one, the first is that one.                     *)
LEMMA FirstOnly ==
  ASSUME NEW T, NEW s \in Seq(T), NEW H, Count(s, H) <= 1,
         NEW i \in DOMAIN s, s[i] \in H
  PROVE  Has(s, H) /\ First(s, H) = s[i]
<1>1. Has(s, H)
  BY DEF Has
<1> DEFINE Foremost(k) == s[k] \in H /\ \A j \in 1..(k - 1) : s[j] \notin H
           c == CHOOSE k \in DOMAIN s : Foremost(k)
<1>2. DOMAIN s = 1..Len(s) /\ Len(s) \in Nat
  OBVIOUS
<1>3. Foremost(i)
  <2>1. ASSUME NEW j \in 1..(i - 1), s[j] \in H PROVE FALSE
    <3>1. j \in DOMAIN s /\ j # i
      BY <1>2
    <3> QED
      BY <2>1, <3>1, CountOne
  <2> QED
    BY <2>1
<1>4. c \in DOMAIN s /\ s[c] \in H
  <2>1. c \in DOMAIN s /\ Foremost(c)
    BY <1>3
  <2> QED
    BY <2>1
<1>5. c = i
  <2> HIDE DEF c
  <2> QED
    BY <1>4, CountOne
<1>6. First(s, H) = s[c]
  BY DEF First
<1> QED
  BY <1>1, <1>5, <1>6

(* The last one is the one that no other follows.                         *)
LEMMA LastIs ==
  ASSUME NEW T, NEW s \in Seq(T), NEW H, NEW i \in DOMAIN s, s[i] \in H,
         \A j \in (i + 1)..Len(s) : s[j] \notin H
  PROVE  Has(s, H) /\ LastOf(s, H) = s[i]
<1>1. Has(s, H)
  BY DEF Has
<1> DEFINE Hindmost(k) == s[k] \in H /\ \A j \in (k + 1)..Len(s) : s[j] \notin H
           c == CHOOSE k \in DOMAIN s : Hindmost(k)
<1>2. DOMAIN s = 1..Len(s) /\ Len(s) \in Nat
  OBVIOUS
<1>4. c \in DOMAIN s /\ Hindmost(c)
  <2>1. Hindmost(i)
    OBVIOUS
  <2> QED
    BY <2>1
<1>5. c = i
  <2> HIDE DEF c
  <2>1. c \in (i + 1)..Len(s) \/ i \in (c + 1)..Len(s) \/ c = i
    BY <1>2, <1>4
  <2> QED
    BY <1>4, <2>1
<1>6. LastOf(s, H) = s[c]
  BY DEF LastOf
<1> QED
  BY <1>1, <1>5, <1>6

(* The last report, from the story.                                        *)
LEMMA ReportedIs ==
  IInv => Reported = IF stage = "new" THEN [state |-> "none", by |-> 0]
                     ELSE IF quit THEN [state |-> "idle", by |-> 1]
                     ELSE [state |-> "connecting", by |-> 1]
<1> SUFFICES ASSUME IInv
             PROVE  Reported = IF stage = "new" THEN [state |-> "none", by |-> 0]
                               ELSE IF quit THEN [state |-> "idle", by |-> 1]
                               ELSE [state |-> "connecting", by |-> 1]
  OBVIOUS
<1>1. emitted \in Seq(Events)
  BY DEF IInv, TypeOK, Events
<1>2. CASE stage = "new"
  <2>1. emitted = <<>>
    BY <1>2 DEF IInv, Story
  <2>2. ~Has(emitted, Reports)
    BY <2>1 DEF Has
  <2> QED
    BY <1>2, <2>2 DEF Reported
<1>3. CASE stage # "new" /\ ~quit
  <2>1. emitted = Connecting \/ emitted = Projecting
    BY <1>3 DEF IInv, Story, TypeOK
  <2>2. PICK i \in DOMAIN emitted :
               /\ emitted[i] = "connecting"
               /\ \A j \in (i + 1)..Len(emitted) : emitted[j] \notin Reports
    <3>1. /\ 1 \in DOMAIN emitted /\ emitted[1] = "connecting"
          /\ \A j \in 2..Len(emitted) : emitted[j] \notin Reports
      BY <2>1 DEF Connecting, Projecting, Reports
    <3> QED
      BY <3>1
  <2>3. Has(emitted, Reports) /\ LastOf(emitted, Reports) = "connecting"
    BY <1>1, <2>2, LastIs DEF Reports
  <2> QED
    BY <1>3, <2>3 DEF Reported
<1>4. CASE stage # "new" /\ quit
  <2>1. emitted = Refused \/ emitted = Finished \/ emitted = Late
    BY <1>4 DEF IInv, Story, TypeOK, Unstarted
  <2>2. PICK i \in DOMAIN emitted :
               /\ emitted[i] = "idle"
               /\ \A j \in (i + 1)..Len(emitted) : emitted[j] \notin Reports
    <3>1. CASE emitted = Refused
      <4>1. 2 \in DOMAIN emitted /\ emitted[2] = "idle" /\ Len(emitted) = 2
        BY <3>1 DEF Refused
      <4> QED
        BY <4>1
    <3>2. CASE emitted = Finished
      <4>1. 4 \in DOMAIN emitted /\ emitted[4] = "idle" /\ Len(emitted) = 4
        BY <3>2 DEF Finished
      <4> QED
        BY <4>1
    <3>3. CASE emitted = Late
      <4>1. /\ 2 \in DOMAIN emitted /\ emitted[2] = "idle" /\ Len(emitted) = 4
            /\ emitted[3] = "video_config" /\ emitted[4] = "active"
        BY <3>3 DEF Late
      <4> QED
        BY <4>1 DEF Reports
    <3> QED
      BY <2>1, <3>1, <3>2, <3>3
  <2>3. Has(emitted, Reports) /\ LastOf(emitted, Reports) = "idle"
    BY <1>1, <2>2, LastIs DEF Reports
  <2> QED
    BY <1>4, <2>3 DEF Reported
<1> QED
  BY <1>2, <1>3, <1>4 DEF IInv, TypeOK

(* What is posted, and the round that Runner sees.                         *)
Posted(h) == \E i \in DOMAIN posted : posted[i] = h
Due == \E h \in Rounds : Posted(h)
Timed == IF promise # "live" THEN "off"
         ELSE IF cancelled \/ timer = "aborted" THEN "cancelled" ELSE "armed"

(* At most one round is posted; it is the one that Runner sees.            *)
LEMMA RoundIs ==
  IInv => /\ \A h \in Rounds : Posted(h) => Round = h
          /\ ~Due => Round = Timed
<1> SUFFICES ASSUME IInv
             PROVE  /\ \A h \in Rounds : Posted(h) => Round = h
                    /\ ~Due => Round = Timed
  OBVIOUS
<1>1. posted \in Seq(Handler) /\ K \in Nat /\ L \in {0, 1} /\ L + K <= 1
  BY Pieces
<1>2. Count(posted, Rounds) <= 1
  BY <1>1 DEF K
<1>3. ASSUME NEW i \in DOMAIN posted, posted[i] \in Rounds
      PROVE  Round = posted[i]
  <2>1. Has(posted, Rounds) /\ First(posted, Rounds) = posted[i]
    BY <1>1, <1>2, <1>3, FirstOnly
  <2> QED
    BY <2>1 DEF Round
<1>4. ASSUME ~Due PROVE Round = Timed
  BY <1>4 DEF Round, Timed, Due, Posted, Has
<1> QED
  BY <1>3, <1>4 DEF Posted

(* The same after a step.                                                  *)
LEMMA SeenAfter ==
  IInv' => /\ \A h \in Rounds : Posted(h)' => Round' = h
           /\ ~Due' => Round' = Timed'
           /\ Reported' = IF stage' = "new" THEN [state |-> "none", by |-> 0]
                          ELSE IF quit' THEN [state |-> "idle", by |-> 1]
                          ELSE [state |-> "connecting", by |-> 1]
<1>1. IInv' => (/\ \A h \in Rounds : Posted(h) => Round = h
                /\ ~Due => Round = Timed)'
  BY RoundIs, PTL
<1>2. IInv' => (Reported = IF stage = "new" THEN [state |-> "none", by |-> 0]
                           ELSE IF quit THEN [state |-> "idle", by |-> 1]
                           ELSE [state |-> "connecting", by |-> 1])'
  BY ReportedIs, PTL
<1> QED
  BY <1>1, <1>2

(* What Runner sees of what waits.                                         *)
Others == Handler \ Rounds
(* What waits, without the mapping.                                        *)
LEMMA WaitingIs ==
  /\ Waiting <=> receives > 0 \/ sending # {} \/ \E h \in Others : Posted(h)
  /\ Waiting' <=> receives' > 0 \/ sending' # {} \/ \E h \in Others : Posted(h)'
  BY DEF Waiting, Has, Others, Handler, Posted

(* How the strand changes.                                                 *)
LEMMA Taken ==
  ASSUME posted \in Seq(Handler), NEW h, Run(h)
  PROVE  \A x : Posted(x) <=> Posted(x)' \/ x = h
<1>1. /\ posted # <<>> /\ Head(posted) = h /\ posted' = Tail(posted)
  BY DEF Run
<1>2. /\ 1 \in DOMAIN posted /\ posted[1] = h
      /\ \A i \in DOMAIN posted' :
           i + 1 \in DOMAIN posted /\ posted'[i] = posted[i + 1]
      /\ \A i \in DOMAIN posted :
           i = 1 \/ (i - 1 \in DOMAIN posted' /\ posted'[i - 1] = posted[i])
  BY <1>1
<1> QED
  BY <1>2 DEF Posted

(* A handler that is posted.                                               *)
LEMMA Added ==
  ASSUME posted \in Seq(Handler), NEW h \in Handler,
         posted' = Append(posted, h)
  PROVE  \A x : Posted(x)' <=> Posted(x) \/ x = h
<1>1. /\ Len(posted) + 1 \in DOMAIN posted' /\ posted'[Len(posted) + 1] = h
      /\ \A i \in DOMAIN posted : i \in DOMAIN posted' /\ posted'[i] = posted[i]
      /\ \A i \in DOMAIN posted' : i \in DOMAIN posted \/ i = Len(posted) + 1
  OBVIOUS
<1> QED
  BY <1>1 DEF Posted

(* The round is where it was.                                              *)
LEMMA RoundKept ==
  ASSUME IInv, IInv', Timed' = Timed \/ Due,
         \A h \in Rounds : Posted(h)' <=> Posted(h)
  PROVE  Round' = Round
<1>1. Due' <=> Due
  BY DEF Due
<1>2. CASE Due
  <2>1. PICK h \in Rounds : Posted(h)
    BY <1>2 DEF Due
  <2>2. Posted(h)'
    BY <2>1
  <2> QED
    BY <2>1, <2>2, RoundIs, SeenAfter
<1>3. CASE ~Due
  BY <1>1, <1>3, RoundIs, SeenAfter
<1> QED
  BY <1>2, <1>3

(* The round is taken from the strand.                                     *)
LEMMA RoundTaken ==
  ASSUME IInv, NEW h \in Rounds, Run(h), posted' \in Seq(Handler)
  PROVE  ~Due' /\ Round = h /\ promise = "none"
<1>1. /\ posted \in Seq(Handler) /\ K \in Nat /\ L \in {0, 1} /\ L + K <= 1
  BY Pieces
<1>2. K = K' + 1 /\ 1 \in DOMAIN posted /\ posted[1] = h
  BY <1>1, RunEffect
<1>3. {K'} \subseteq Nat
  BY NumbersAfter
<1>4. K' = 0 /\ L = 0
  <2>1. \A n \in Nat : K = n + 1 => n = 0 /\ L = 0
    BY <1>1
  <2> QED
    BY <1>2, <1>3, <2>1, ZenonT(20)
<1>5. \A i \in DOMAIN posted' : posted'[i] \notin Rounds
  BY <1>4, CountZero DEF K
<1>6. promise = "none"
  BY <1>4, Bits DEF IInv, OneRound, TypeOK
<1> QED
  BY <1>2, <1>5, <1>6, RoundIs DEF Due, Posted

-----------------------------------------------------------------------------
(* The steps of Runner, in terms of what it sees of the one session.       *)

(* The one session of Runner waits.                                        *)
LEMMA WaitingMapped ==
  [n \in Only |-> Waiting]' = [[n \in Only |-> Waiting] EXCEPT ![1] = Waiting']
  BY DEF Only

(* Nothing that Runner sees has changed.                                   *)
LEMMA AsNothing ==
  ASSUME io' = io, stage' = stage, quit' = quit, Life' = Life, Round' = Round,
         Waiting' = Waiting, Reported' = Reported
  PROVE  UNCHANGED R!vars
<1>1. Started' = Started
  BY DEF Started
<1> QED
  BY <1>1
     DEF R!vars, R!hubVars, R!heldVars, R!workVars, R!signalVars, R!restVars,
         R!mainVars, Handled, Locked, Only

(* What no step of a started session changes.                              *)
Settled ==
  /\ io # "stopped" /\ io' = io /\ Started /\ stage' \notin {"new", "failed"}

(* What Runner sees beside the session stays.                              *)
LEMMA RestKept ==
  ASSUME Settled
  PROVE  /\ R!Running
         /\ UNCHANGED <<R!hubVars, R!heldVars, R!signalVars, R!restVars>>
<1>1. Started' = Started /\ stage # "new" /\ Locked' = Locked
  BY DEF Settled, Started, Locked
<1> QED
  BY <1>1 DEF Settled, Handled, R!Running, R!None, R!hubVars, R!heldVars,
              R!signalVars, R!restVars, R!mainVars

(* TriggerQuit of Runner.                                                  *)
Tells == /\ quit \in BOOLEAN /\ quit' = TRUE /\ Life \in {"active", "ended"}
         /\ ~quit => /\ Reported' = [state |-> "idle", by |-> 1]
                     /\ Life' = "ended"
         /\ quit => Reported' = Reported /\ Life' = Life

(* triggerQuit, seen by Runner.                                            *)
LEMMA AsTriggerQuit ==
  ASSUME Tells
  PROVE  R!TriggerQuit(1)
<1>1. [n \in Only |-> quit]' = [[n \in Only |-> quit] EXCEPT ![1] = TRUE]
  <2>1. [n \in Only |-> quit]' = [n \in Only |-> TRUE]
    BY Zenon DEF Tells
  <2>2. [[n \in Only |-> quit] EXCEPT ![1] = TRUE] = [n \in Only |-> TRUE]
    <3> DEFINE q == quit
               t == TRUE
    <3>1. [[n \in Only |-> q] EXCEPT ![1] = t] = [n \in Only |-> t]
      <4> HIDE DEF q, t
      <4> QED
        BY DEF Only
    <3> QED
      BY <3>1
  <2> QED
    BY <2>1, <2>2, Zenon
<1>2. [n \in Only |-> quit][1] = quit /\ [n \in Only |-> Life][1] = Life
  BY DEF Only
<1>3. R!Locked(1)
  BY <1>2 DEF R!Locked, Tells
<1>4. CASE quit
  BY <1>1, <1>2, <1>4 DEF R!TriggerQuit, Tells
<1>5. CASE ~quit
  <2>1. [n \in Only |-> Life]' = R!Stopped(1)
    BY <1>2, <1>5 DEF R!Stopped, R!Active, R!None, Only, Tells
  <2> QED
    BY <1>1, <1>2, <1>3, <1>5, <2>1 DEF R!TriggerQuit, R!Report, Tells
<1> QED
  BY <1>4, <1>5

(* The steps of SessionWork, one by one.                                   *)
LEMMA AsWaitEnds ==
  ASSUME Settled, Tells, Waiting, Waiting' \in BOOLEAN,
         Round' = IF ~quit /\ Life = "active" /\ Round = "armed"
                  THEN "cancelled" ELSE Round
  PROVE  R!WaitEnds(1)
<1>1. [n \in Only |-> Waiting][1]
  BY DEF Only
<1>2. [n \in Only |-> Waiting]' = [[n \in Only |-> Waiting] EXCEPT ![1] = Waiting']
  BY WaitingMapped
<1>3. [n \in Only |-> Round]' = IF [n \in Only |-> quit][1]
                                THEN [n \in Only |-> Round] ELSE R!Cut(1)
  <2>1. /\ [n \in Only |-> quit][1] = quit /\ [n \in Only |-> Life][1] = Life
        /\ [n \in Only |-> Round][1] = Round
    BY DEF Only
  <2> QED
    BY <2>1 DEF R!Cut, R!Active, R!None, Only
<1> QED
  BY <1>1, <1>2, <1>3, RestKept, AsTriggerQuit DEF R!WaitEnds

(* A wait that is aborted, seen by Runner.                                 *)
LEMMA AsWaitAborted ==
  ASSUME Settled, Waiting, ~Waiting', Waiting' \in BOOLEAN, Life = "ended",
         Life' = Life, Round' = Round, quit' = quit, Reported' = Reported
  PROVE  R!WaitAborted(1)
<1>1. [n \in Only |-> Waiting][1] /\ [n \in Only |-> Life][1] = Life
  BY DEF Only
<1>2. [n \in Only |-> Waiting]' = [[n \in Only |-> Waiting] EXCEPT ![1] = FALSE]
  <2>1. Waiting' = FALSE
    OBVIOUS
  <2> QED
    BY <2>1, WaitingMapped, Zenon
<1>3. ~R!Active(1)
  BY <1>1 DEF R!Active
<1>4. UNCHANGED << [n \in Only |-> Life], [n \in Only |-> Round],
                   [n \in Only |-> quit], Reported >>
  BY Zenon
<1> QED
  BY <1>1, <1>2, <1>3, <1>4, RestKept DEF R!WaitAborted

(* A timer that is handled, seen by Runner.                                *)
LEMMA AsTimerHandled ==
  ASSUME Settled, UNCHANGED <<Life, Waiting, quit, Reported>>,
         \/ Round = "armed" /\ Round' \in {"pingDue", "pingTimeout"}
         \/ Round = "cancelled" /\ Round' = "off"
  PROVE  R!TimerHandled(1)
<1>1. [n \in Only |-> Round][1] = Round
  BY DEF Only
<1>2. [n \in Only |-> Round]' = [[n \in Only |-> Round] EXCEPT ![1] = Round']
  BY DEF Only
<1>3. UNCHANGED << [n \in Only |-> Life], [n \in Only |-> Waiting],
                   [n \in Only |-> quit], Reported >>
  BY Zenon
<1> QED
  BY <1>1, <1>2, <1>3, RestKept DEF R!TimerHandled

(* A ping that is due, seen by Runner.                                     *)
LEMMA AsPingDue ==
  ASSUME Settled, UNCHANGED <<Life, quit, Reported>>, Waiting',
         Waiting' \in BOOLEAN, Round = "pingDue", Round' = "armed"
  PROVE  R!PingDue(1)
<1>1. [n \in Only |-> Round][1] = Round
  BY DEF Only
<1>2. [n \in Only |-> Round]' = [[n \in Only |-> Round] EXCEPT ![1] = "armed"]
  BY DEF Only
<1>3. [n \in Only |-> Waiting]' = [[n \in Only |-> Waiting] EXCEPT ![1] = TRUE]
  <2>1. Waiting' = TRUE
    OBVIOUS
  <2> QED
    BY <2>1, WaitingMapped, Zenon
<1>4. UNCHANGED << [n \in Only |-> Life], [n \in Only |-> quit], Reported >>
  BY Zenon
<1> QED
  BY <1>1, <1>2, <1>3, <1>4, RestKept DEF R!PingDue

(* A ping timeout, seen by Runner.                                         *)
LEMMA AsPingTimeout ==
  ASSUME Settled, Tells, UNCHANGED Waiting, Round = "pingTimeout", Round' = "off"
  PROVE  R!PingTimeout(1)
<1>1. [n \in Only |-> Round][1] = Round
  BY DEF Only
<1>2. [n \in Only |-> Round]' = [[n \in Only |-> Round] EXCEPT ![1] = "off"]
  BY DEF Only
<1>3. UNCHANGED [n \in Only |-> Waiting]
  BY Zenon
<1> QED
  BY <1>1, <1>2, <1>3, RestKept, AsTriggerQuit DEF R!PingTimeout

(* A step of the session is a step of Runner.                              *)
LEMMA AsWork ==
  ASSUME \/ R!WaitEnds(1) \/ R!WaitAborted(1) \/ R!TimerHandled(1)
         \/ R!PingDue(1) \/ R!PingTimeout(1)
  PROVE  R!Next
<1>1. R!SessionWork(1)
  BY DEF R!SessionWork
<1>2. 1 \in R!Ids
  BY DEF R!Ids
<1> QED
  BY <1>1, <1>2 DEF R!Next

(* onDevice, and a signal.                                                 *)
LEMMA AsStart ==
  ASSUME io = "running", io' = io, stage = "new", Started', stage' # "new",
         Life = "new", Life' = "active", Round' = "armed", Waiting',
         Waiting' \in BOOLEAN,
         Reported' = [state |-> "connecting", by |-> 1], quit' = quit
  PROVE  R!StartSession
<1>1. ~Started
  BY DEF Started
<1>2. /\ [n \in Only |-> Life]' = [n \in R!Ids |-> CASE n = 1 -> "active"
                                     [] n = 0 -> "gone"
                                     [] OTHER -> [m \in Only |-> Life][n]]
  BY DEF R!Ids, Only
<1>3. [n \in Only |-> Round]' = [R!Cut(0) EXCEPT ![1] = "armed"]
  <2>1. R!Cut(0) = [n \in Only |-> Round]
    BY DEF R!Cut, R!Active, R!None
  <2> QED
    BY <2>1 DEF Only
<1>4. [n \in Only |-> Waiting]' = [[n \in Only |-> Waiting] EXCEPT ![1] = TRUE]
  <2>1. Waiting' = TRUE
    OBVIOUS
  <2> QED
    BY <2>1, WaitingMapped, Zenon
<1>5. UNCHANGED [n \in Only |-> quit]
  BY Zenon
<1>6. Handled = "none" /\ UNCHANGED <<Handled, Locked>>
  BY DEF Handled, Locked
<1>7. ~R!Kept(0)
  BY <1>6 DEF R!Kept
<1>8. UNCHANGED R!signalVars
  BY <1>6 DEF R!signalVars
<1> QED
  BY <1>1, <1>2, <1>3, <1>4, <1>5, <1>7, <1>8
     DEF R!StartSession, R!None, R!Report, R!StartHub, R!mainVars

(* A start() that throws, seen by Runner.                                  *)
LEMMA AsStartThrows ==
  ASSUME io = "running", io' = io, stage = "new", stage' = "failed",
         Life = "new", Life' = "gone", Round' = Round, Waiting' = Waiting,
         Reported' = [state |-> "connecting", by |-> 1], quit' = quit
  PROVE  R!StartThrows
<1>1. ~Started /\ ~Started'
  BY DEF Started
<1>2. [n \in Only |-> Life]' = [[n \in Only |-> Life] EXCEPT ![1] = "gone"]
  BY DEF Only
<1>3. UNCHANGED << [n \in Only |-> Round], [n \in Only |-> Waiting],
                   [n \in Only |-> quit] >>
  BY Zenon
<1>4. Handled = "none" /\ UNCHANGED <<Handled, Locked>>
  BY DEF Handled, Locked
<1>5. ~R!Kept(1)
  BY <1>4 DEF R!Kept
<1>6. UNCHANGED R!signalVars
  BY <1>4 DEF R!signalVars
<1> QED
  BY <1>1, <1>2, <1>3, <1>5, <1>6
     DEF R!StartThrows, R!None, R!Report, R!ListenAgain, R!StartHub, R!workVars,
         R!restVars, R!mainVars

(* What on_signal leaves, seen by Runner.                                  *)
LEMMA AsSignalRest ==
  ASSUME UNCHANGED <<stage, Waiting, quit, Reported>>
  PROVE  UNCHANGED R!signalRest
<1>1. Started' = Started
  BY DEF Started
<1>2. UNCHANGED << [n \in Only |-> Waiting], [n \in Only |-> quit] >>
  BY Zenon
<1> QED
  BY <1>1, <1>2
     DEF R!signalRest, R!hubVars, R!heldVars, R!restVars, R!mainVars

(* The steps of on_signal, seen by Runner.                                 *)
LEMMA AsSignalFlag ==
  ASSUME io = "running", io' = "flagged",
         UNCHANGED <<stage, Waiting, quit, Reported, Life, Round>>
  PROVE  R!SignalFlag
<1>1. /\ Handled = "none" /\ Handled' = "flagged"
      /\ Locked = FALSE /\ Locked' = FALSE
  BY DEF Handled, Locked
<1>2. UNCHANGED << [n \in Only |-> Life], [n \in Only |-> Round] >>
  BY Zenon
<1> QED
  BY <1>1, <1>2, AsSignalRest DEF R!SignalFlag

(* on_signal locks the only session, unless its start() has thrown.        *)
LEMMA AsSignalLock ==
  ASSUME io = "flagged", io' = "caught",
         stage # "new", stage \in {"failed"} <=> Life = "gone", Life # "none",
         UNCHANGED <<stage, Waiting, quit, Reported, Life, Round>>
  PROVE  R!SignalLock
<1>1. /\ Handled = "flagged" /\ Handled' = "caught"
      /\ Locked' = (stage # "failed")
  BY DEF Handled, Locked
<1>2. UNCHANGED << [n \in Only |-> Life], [n \in Only |-> Round] >>
  BY Zenon
<1>3. R!Locked(1) <=> stage # "failed"
  BY DEF R!Locked, Only
<1>4. {n \in R!Ids : [m \in Only |-> Life][n] = "none"} = {}
  BY DEF R!Ids, Only
<1> QED
  BY <1>1, <1>2, <1>3, <1>4, AsSignalRest DEF R!SignalLock, R!None

(* on_signal stops it, and cancels its timer or posts the cancel.          *)
LEMMA AsSignalStop ==
  ASSUME io = "caught", stage # "new", Life # "new",
         stage = "failed" => Life = "gone",
         UNCHANGED <<stage, Waiting, quit, Reported>>,
         Life' = IF Life = "active" THEN "ended" ELSE Life,
         \/ /\ io' = "stopping"
            /\ Round' = IF Life = "active" /\ Round = "armed"
                        THEN "cancelled" ELSE Round
         \/ io' = "cancelling" /\ Life = "active" /\ Round' = Round
  PROVE  R!SignalStop
<1> DEFINE caught == IF Locked THEN 1 ELSE 0
<1>1. /\ Handled = "caught" /\ Handled' = "halting"
      /\ Locked = Started /\ Locked' = (io' = "cancelling")
  BY DEF Handled, Locked, Started
<1>2. [n \in Only |-> Life][1] = Life /\ [n \in Only |-> Round][1] = Round
  BY DEF Only
<1>3. ~Started => Life = "gone"
  BY DEF Started
<1>4. [n \in Only |-> Life]' = R!Released
  <2>1. caught = IF Started THEN 1 ELSE 0
    BY <1>1
  <2>2. [n \in Only |-> Life]' = R!Stopped(caught)
    BY <1>2, <1>3, <2>1 DEF R!Stopped, R!Active, R!None, Only
  <2> QED
    BY <2>1, <2>2 DEF R!Released, R!None
<1>5. {n \in R!Ids : [m \in Only |-> Life][n] = "new"} = {}
  BY DEF R!Ids, Only
<1>6. CASE io' = "stopping"
  <2>1. [n \in Only |-> Round]' = R!Cut(caught)
    BY <1>1, <1>2, <1>3, <1>6 DEF R!Cut, R!Active, R!None, Only
  <2>2. ~Locked'
    BY <1>1, <1>6
  <2> QED
    BY <1>1, <1>4, <1>5, <1>6, <2>1, <2>2, AsSignalRest
       DEF R!SignalStop, R!None
<1>7. CASE io' = "cancelling" /\ Life = "active" /\ Round' = Round
  <2>1. Started /\ Locked /\ Locked'
    BY <1>1, <1>3, <1>7
  <2>2. R!Active(1)
    BY <1>2, <1>7 DEF R!Active, R!None
  <2>3. UNCHANGED [n \in Only |-> Round]
    BY <1>7, Zenon
  <2> QED
    BY <1>1, <1>4, <1>5, <1>7, <2>1, <2>2, <2>3, AsSignalRest
       DEF R!SignalStop
<1> QED
  BY <1>6, <1>7

(* A posted cancel runs.                                                   *)
LEMMA AsCancelRuns ==
  ASSUME io = "cancelling", io' \in {"cancelling", "stopping"},
         stage # "new",
         UNCHANGED <<stage, Waiting, quit, Reported, Life>>,
         Round' = IF Round = "armed" THEN "cancelled" ELSE Round
  PROVE  R!CancelRuns
<1>1. /\ Handled = "halting" /\ Handled' = "halting" /\ Locked
      /\ Locked' = (io' = "cancelling")
  BY DEF Handled, Locked
<1>2. UNCHANGED [n \in Only |-> Life]
  BY Zenon
<1>3. R!Running
  BY DEF R!Running, R!None
<1>4. /\ [n \in Only |-> Round][1] = Round
      /\ [n \in Only |-> Round]' =
           IF Round = "armed"
           THEN [[n \in Only |-> Round] EXCEPT ![1] = "cancelled"]
           ELSE [n \in Only |-> Round]
  BY DEF Only
<1> QED
  BY <1>1, <1>2, <1>3, <1>4, AsSignalRest DEF R!CancelRuns, R!None

(* on_signal stops the io_service.                                         *)
LEMMA AsSignalHalt ==
  ASSUME io \in {"cancelling", "stopping"}, io' = "stopped",
         UNCHANGED <<stage, Waiting, quit, Reported, Life, Round>>
  PROVE  R!SignalHalt
<1>1. Handled = "halting" /\ Handled' = "none" /\ Locked' = FALSE
  BY DEF Handled, Locked
<1>2. UNCHANGED << [n \in Only |-> Life], [n \in Only |-> Round] >>
  BY Zenon
<1> QED
  BY <1>1, <1>2, AsSignalRest DEF R!SignalHalt, R!None

-----------------------------------------------------------------------------
(* The steps of the session are steps of Runner.                           *)

(* The life of a session that has started.                                 *)
LEMMA LifeIs ==
  /\ Started => Life = IF active THEN "active" ELSE "ended"
  /\ Started' => Life' = IF active' THEN "active" ELSE "ended"
  BY DEF Started, Life

(* Waiting, as a value.                                                    *)
LEMMA WaitingType ==
  /\ Waiting \in BOOLEAN /\ Waiting' \in BOOLEAN
  /\ (Waiting <=> Waiting') => UNCHANGED Waiting
<1>1. Waiting \in BOOLEAN /\ Waiting' \in BOOLEAN
  BY DEF Waiting
<1> QED
  BY <1>1

(* What triggerQuit tells, seen by Runner.                                 *)
LEMMA QuitTells ==
  ASSUME IInv, IInv', TriggerQuit, Settled, stage' = stage
  PROVE  Tells
<1>1. TypeOK /\ IdleOnce /\ quit \in BOOLEAN /\ active \in BOOLEAN
  BY DEF IInv, TypeOK
<1>2. quit' /\ ~active' /\ quit' \in BOOLEAN
  BY <1>1, TriggerQuitEffect DEF Flags
<1>3. quit' = TRUE
  BY <1>2
<1>4. Started /\ Started' /\ stage # "new"
  BY DEF Settled, Started
<1>5. Life \in {"active", "ended"} /\ Life' = "ended"
  BY <1>2, <1>4, LifeIs
<1>6. Reported' = [state |-> "idle", by |-> 1]
  BY <1>2, <1>4, SeenAfter
<1>7. quit => Reported' = Reported /\ Life' = Life
  BY <1>1, <1>4, <1>5, <1>6, ReportedIs, LifeIs DEF IdleOnce
<1> QED
  BY <1>1, <1>3, <1>5, <1>6, <1>7 DEF Tells

(* A step that leaves what Runner sees of the rest: only the strand, the   *)
(* channel and the protocol have moved.                                    *)
LEMMA Unseen ==
  ASSUME IInv, IInv', Started, Started', io' = io,
         UNCHANGED <<active, quit, promise, cancelled>>,
         timer' = timer \/ (timer = "armed" /\ timer' = "fired"),
         \A h \in Rounds : Posted(h)' <=> Posted(h)
  PROVE  /\ Life' = Life /\ Round' = Round /\ Reported' = Reported
<1>1. Life' = Life
  BY LifeIs
<1>2. Round' = Round
  BY RoundKept DEF Timed
<1>3. Reported' = Reported
  BY ReportedIs, SeenAfter DEF Started
<1> QED
  BY <1>1, <1>2, <1>3

(* The stage is nothing to Runner, once the session has started.           *)
LEMMA AsNothingStarted ==
  ASSUME io' = io, Started, Started', quit' = quit, Life' = Life,
         Round' = Round, Waiting' = Waiting, Reported' = Reported
  PROVE  UNCHANGED R!vars
<1>1. /\ stage # "new" /\ stage' # "new" /\ Started' = Started
      /\ Locked' = Locked
  BY DEF Started, Locked
<1> QED
  BY <1>1
     DEF R!vars, R!hubVars, R!heldVars, R!workVars, R!signalVars, R!restVars,
         R!mainVars, Handled, Locked, Only

(* A handler that quits is WaitEnds.                                       *)
LEMMA QuittingSeen ==
  ASSUME IInv, IInv', NEW h, Run(h), TriggerQuit,
         h \in {"version", "badVersion", "handshake", "byeResponse", "byeSent",
                "error"},
         UNCHANGED <<channelVars, phoneVars>>
  PROVE  R!Next
<1>1. TypeOK /\ posted \in Seq(Handler) /\ quit \in BOOLEAN /\ active \in BOOLEAN
  BY DEF IInv, TypeOK, Handler
<1>2. stage' = stage /\ h \in Others /\ h \notin Rounds
  BY DEF phoneVars, Others, Handler, Messages, Continuations, Rounds
<1>3. Settled
  <2>1. io # "stopped" /\ io' = io /\ posted # <<>>
    BY <1>1, RunEffect
  <2>2. stage \notin {"new", "failed"}
    BY <2>1, Begun DEF IInv
  <2> QED
    BY <1>2, <2>1, <2>2 DEF Settled, Started
<1>4. Tells
  BY <1>2, <1>3, QuitTells
<1>5. Waiting
  <2>1. Posted(h)
    BY <1>1, Taken
  <2> QED
    BY <1>2, <2>1, WaitingIs
<1>6. \A x \in Rounds : Posted(x)' <=> Posted(x)
  BY <1>1, <1>2, Taken
<1>7. Round' = IF ~quit /\ Life = "active" /\ Round = "armed"
               THEN "cancelled" ELSE Round
  <2>1. CASE Due
    <3>1. Round' = Round
      BY <1>6, <2>1, RoundKept
    <3>2. Round # "armed"
      BY <2>1, RoundIs DEF Due, Rounds
    <3> QED
      BY <3>1, <3>2
  <2>2. CASE ~Due
    <3>1. Round = Timed /\ Round' = Timed'
      <4>1. ~Due'
        BY <1>6, <2>2 DEF Due
      <4> QED
        BY <2>2, <4>1, RoundIs, SeenAfter
    <3>2. Life = IF active THEN "active" ELSE "ended"
      BY <1>3, LifeIs DEF Settled
    <3>3. CASE ~quit /\ active
      <4>1. /\ cancelled' = TRUE /\ promise' = promise
        BY <3>3 DEF TriggerQuit, AlreadyQuit, Stop
      <4>2. ~cancelled /\ timer # "aborted"
        BY <3>3 DEF IInv, OneRound
      <4> QED
        BY <3>1, <3>2, <3>3, <4>1, <4>2 DEF Timed
    <3>4. CASE quit \/ ~active
      <4>1. UNCHANGED <<cancelled, timer, promise>>
        BY <3>4 DEF TriggerQuit, AlreadyQuit, Stop
      <4>2. ~active
        BY <3>4 DEF IInv, IdleOnce
      <4> QED
        BY <3>1, <3>2, <4>1, <4>2 DEF Timed
    <3> QED
      BY <1>1, <3>3, <3>4
  <2> QED
    BY <2>1, <2>2
<1> QED
  BY <1>3, <1>4, <1>5, <1>7, WaitingType, AsWaitEnds, AsWork

(* The keepalive: the timer and its two continuations.                     *)
LEMMA TimeoutSeen ==
  ASSUME IInv, IInv', OnPingTimeout
  PROVE  R!Next
<1>1. /\ Run("pingTimeout") /\ TriggerQuit
      /\ UNCHANGED <<receives, sending, stage>>
  BY DEF OnPingTimeout, channelVars, phoneVars
<1>2. TypeOK /\ posted \in Seq(Handler) /\ posted' \in Seq(Handler)
  BY DEF IInv, TypeOK, Handler
<1>3. Settled
  <2>1. io # "stopped" /\ io' = io /\ posted # <<>>
    BY <1>1, <1>2, RunEffect
  <2>2. stage \notin {"new", "failed"}
    BY <2>1, Begun DEF IInv
  <2> QED
    BY <1>1, <2>1, <2>2 DEF Settled, Started
<1>4. Tells
  BY <1>1, <1>3, QuitTells
<1>5. ~Due' /\ Round = "pingTimeout" /\ promise = "none"
  <2>1. "pingTimeout" \in Rounds
    BY DEF Rounds
  <2> QED
    BY <1>1, <1>2, <2>1, RoundTaken
<1>6. Round' = "off"
  <2>1. promise' = promise
    BY <1>1 DEF TriggerQuit
  <2> QED
    BY <1>5, <2>1, SeenAfter DEF Timed
<1>7. UNCHANGED Waiting
  <2>1. \A x \in Others : Posted(x)' <=> Posted(x)
    BY <1>1, <1>2, Taken DEF Others, Rounds
  <2> QED
    BY <1>1, <2>1, WaitingIs, WaitingType
<1> QED
  BY <1>3, <1>4, <1>5, <1>6, <1>7, AsPingTimeout, AsWork

(* A ping that is due is sent, and the round starts again.                 *)
LEMMA PingSeen ==
  ASSUME IInv, IInv', OnPingDue
  PROVE  R!Next
<1>1. /\ Run("pingDue") /\ sending' = sending \cup {"request"}
      /\ UNCHANGED <<active, quit, stage>>
  BY DEF OnPingDue, Send, sessionVars
<1>2. posted \in Seq(Handler) /\ posted' \in Seq(Handler)
  BY DEF IInv, TypeOK, Handler
<1>3. Settled
  <2>1. io # "stopped" /\ io' = io /\ posted # <<>>
    BY <1>1, <1>2, RunEffect
  <2>2. stage \notin {"new", "failed"}
    BY <2>1, Begun DEF IInv
  <2> QED
    BY <1>1, <2>1, <2>2 DEF Settled, Started
<1>4. ~Due' /\ Round = "pingDue" /\ promise = "none"
  <2>1. "pingDue" \in Rounds
    BY DEF Rounds
  <2> QED
    BY <1>1, <1>2, <2>1, RoundTaken
<1>5. Round' = "armed"
  <2>1. promise' = "live" /\ timer' = "armed" /\ ~cancelled'
    BY <1>4 DEF OnPingDue, PingAgain, Ping
  <2> QED
    BY <1>4, <2>1, SeenAfter DEF Timed
<1>6. Life' = Life /\ Reported' = Reported
  BY <1>1, LifeIs, ReportedIs, SeenAfter DEF Life
<1>7. Waiting'
  BY <1>1, WaitingIs
<1> QED
  BY <1>1, <1>3, <1>4, <1>5, <1>6, <1>7, WaitingType, AsPingDue, AsWork

(* The timer posts what its round has come to.                             *)
LEMMA TimerSeen ==
  ASSUME IInv, IInv', OnTimerExceeded
  PROVE  R!Next
<1>1. /\ io # "stopped" /\ timer \in {"fired", "aborted"}
      /\ posted' = posted \o Outcome /\ timer' = "off" /\ promise' = "none"
      /\ UNCHANGED <<active, quit, emitted, receives, sending, cancelled,
                     unanswered, io, stage, phone, owed>>
  BY DEF OnTimerExceeded, sessionVars, channelVars, phoneVars
<1>2. posted \in Seq(Handler) /\ posted' \in Seq(Handler)
  BY DEF IInv, TypeOK, Handler
<1>3. Settled
  <2>1. stage \notin {"new", "failed"}
    BY <1>1, Begun DEF IInv
  <2> QED
    BY <1>1, <2>1 DEF Settled, Started
<1>4. promise = "live" /\ ~Due
  <2>1. promise = "live"
    BY <1>1 DEF IInv, OneRound
  <2>2. K \in Nat /\ L + K <= 1 /\ L = 1
    BY <2>1, Pieces, Bits
  <2>3. K = 0
    BY <2>2
  <2>4. \A i \in DOMAIN posted : posted[i] \notin Rounds
    BY <1>2, <2>3, CountZero DEF K
  <2> QED
    BY <2>1, <2>4 DEF Due, Posted
<1>5. Life' = Life /\ Reported' = Reported
  BY <1>1, LifeIs, ReportedIs, SeenAfter DEF Life
<1>6. CASE timer = "aborted" \/ cancelled
  <2>1. posted' = posted
    BY <1>1, <1>2, <1>6 DEF Outcome
  <2>2. ~Due'
    BY <1>4, <2>1 DEF Due, Posted
  <2>3. Round = "cancelled" /\ Round' = "off"
    BY <1>1, <1>4, <1>6, <2>2, RoundIs, SeenAfter DEF Timed
  <2>4. UNCHANGED Waiting
    <3>1. \A x : Posted(x)' <=> Posted(x)
      BY <2>1 DEF Posted
    <3> QED
      BY <1>1, <3>1, WaitingIs, WaitingType
  <2> QED
    BY <1>1, <1>3, <1>5, <2>3, <2>4, AsTimerHandled, AsWork
<1>7. CASE timer = "fired" /\ ~cancelled
  <2>1. PICK e \in Rounds : posted' = posted \o <<e>>
    BY <1>1, <1>4, <1>7 DEF Outcome, Rounds
  <2>2. e \in Handler
    BY DEF Rounds, Handler, Continuations
  <2>3. posted' = Append(posted, e)
    BY <1>2, <2>1, <2>2, AppendIsConcat
  <2>4. \A x : Posted(x)' <=> Posted(x) \/ x = e
    BY <1>2, <2>2, <2>3, Added
  <2>5. Round' = e
    <3>1. Posted(e)'
      BY <2>4
    <3> QED
      BY <3>1, SeenAfter
  <2>6. Round = "armed"
    BY <1>4, <1>7, RoundIs DEF Timed
  <2>7. UNCHANGED Waiting
    <3>1. \A x \in Others : Posted(x)' <=> Posted(x)
      BY <2>4 DEF Others
    <3> QED
      BY <1>1, <3>1, WaitingIs, WaitingType
  <2> QED
    BY <1>1, <1>3, <1>5, <2>5, <2>6, <2>7, AsTimerHandled, AsWork DEF Rounds
<1> QED
  BY <1>1, <1>6, <1>7

(* An active session always waits for its phone: this is what the token is *)
(* for.                                                                    *)
LEMMA ActiveWaits == IInv => (active => Waiting)
<1> SUFFICES ASSUME IInv, active, ~Waiting PROVE FALSE
  OBVIOUS
<1>1. /\ posted \in Seq(Handler) /\ receives \in Nat
      /\ receives + M + S + B = 1 \/ E > 0
  BY Pieces
<1>2. /\ ~(receives > 0) /\ sending = {}
      /\ \A i \in DOMAIN posted : posted[i] \notin Others
  BY WaitingIs DEF Posted
<1>3. \A i \in DOMAIN posted : /\ posted[i] \notin Messages
                               /\ posted[i] \notin {"error"}
                               /\ posted[i] \notin {"byeSent"}
  BY <1>2 DEF Others, Handler, Messages, Continuations, Rounds
<1>4. M = 0 /\ E = 0 /\ B = 0
  BY <1>1, <1>3, CountZero DEF M, E, B
<1>5. S = 0 /\ receives = 0
  BY <1>1, <1>2, Bits
<1> QED
  BY <1>1, <1>4, <1>5

(* The same after a step.                                                  *)
LEMMA ActiveWaitsAfter == IInv' => (active' => Waiting')
<1>1. IInv' => (active => Waiting)'
  BY ActiveWaits, PTL
<1> QED
  BY <1>1

(* A step of the channel that Runner does not see, or sees as the last of  *)
(* what an ended session waited for.                                       *)
LEMMA ChannelSeen ==
  ASSUME IInv, IInv', io # "stopped", io' = io, Started, Started', Waiting,
         UNCHANGED <<active, quit, promise, cancelled, timer>>,
         \A h \in Rounds : Posted(h)' <=> Posted(h)
  PROVE  R!Next \/ UNCHANGED R!vars
<1>1. Life' = Life /\ Round' = Round /\ Reported' = Reported
  BY Unseen
<1>2. CASE Waiting'
  <2>1. UNCHANGED Waiting
    BY <1>2, WaitingType
  <2> QED
    BY <1>1, <2>1, AsNothingStarted
<1>3. CASE ~Waiting'
  <2>1. Life = "ended"
    BY <1>3, ActiveWaitsAfter, LifeIs
  <2>2. Settled
    BY DEF Settled, Started
  <2> QED
    BY <1>1, <1>3, <2>1, <2>2, WaitingType, AsWaitAborted, AsWork
<1> QED
  BY <1>2, <1>3

(* The handlers that quit nothing.                                         *)
LEMMA ReplySeen ==
  ASSUME IInv, IInv', NEW h, Run(h),
         h \in {"version", "handshake", "discovery", "focus", "note", "pong",
                "bye"},
         UNCHANGED <<active, quit, promise, cancelled, timer>>,
         stage' = stage \/ stage' \in {"handshake", "discovery", "projecting"}
  PROVE  R!Next \/ UNCHANGED R!vars
<1>1. posted \in Seq(Handler)
  BY DEF IInv, TypeOK, Handler
<1>2. h \in Others /\ h \notin Rounds
  BY DEF Others, Handler, Messages, Rounds
<1>3. io # "stopped" /\ io' = io /\ Started /\ Started'
  <2>1. io # "stopped" /\ io' = io /\ posted # <<>>
    BY <1>1, RunEffect
  <2>2. stage \notin {"new", "failed"}
    BY <2>1, Begun DEF IInv
  <2> QED
    BY <2>1, <2>2 DEF Started
<1>4. Waiting
  <2>1. Posted(h)
    BY <1>1, Taken
  <2> QED
    BY <1>2, <2>1, WaitingIs
<1>5. \A x \in Rounds : Posted(x)' <=> Posted(x)
  BY <1>1, <1>2, Taken
<1> QED
  BY <1>3, <1>4, <1>5, ChannelSeen

(* Every handler.                                                          *)
LEMMA HandlersSeen ==
  ASSUME IInv, IInv', Handlers
  PROVE  R!Next \/ UNCHANGED R!vars
<1> USE DEF Reply, CryptorError
<1>1. CASE OnVersionResponse
  BY <1>1, QuittingSeen, ReplySeen DEF OnVersionResponse, pingerVars
<1>2. CASE OnVersionMismatch
  BY <1>2, QuittingSeen DEF OnVersionMismatch
<1>3. CASE OnHandshake
  <2>1. CASE Run("handshake") /\ CryptorError
    BY <2>1, QuittingSeen
  <2>2. CASE Run("handshake") /\ Reply /\ stage' \in {"handshake", "discovery"}
    BY <2>2, ReplySeen DEF pingerVars
  <2> QED
    BY <1>3, <2>1, <2>2 DEF OnHandshake
<1>4. CASE OnServiceDiscoveryRequest
  BY <1>4, ReplySeen DEF OnServiceDiscoveryRequest, pingerVars
<1>5. CASE OnFocusRequest
  BY <1>5, ReplySeen DEF OnFocusRequest, pingerVars, phoneVars
<1>6. CASE OnNotification
  BY <1>6, ReplySeen DEF OnNotification, sessionVars, pingerVars, phoneVars
<1>7. CASE OnPingResponse
  BY <1>7, ReplySeen DEF OnPingResponse, sessionVars, phoneVars
<1>8. CASE OnByeByeRequest
  BY <1>8, ReplySeen DEF OnByeByeRequest, sessionVars, pingerVars, phoneVars
<1>9. CASE OnQuit
  BY <1>9, QuittingSeen DEF OnQuit
<1>10. CASE OnPingDue
  BY <1>10, PingSeen
<1>11. CASE OnPingTimeout
  BY <1>11, TimeoutSeen
<1> QED
  BY <1>1, <1>2, <1>3, <1>4, <1>5, <1>6, <1>7, <1>8, <1>9, <1>10, <1>11
     DEF Handlers

(* Callbacks of aasdk.                                                     *)
LEMMA MessagesSeen ==
  ASSUME IInv, IInv', Environment, ~FallSilent, ~Signal
  PROVE  R!Next \/ UNCHANGED R!vars
<1>1. posted \in Seq(Handler) /\ receives \in Nat
  BY DEF IInv, TypeOK, Handler
<1>2. /\ io # "stopped" /\ io' = io
      /\ receives > 0 \/ sending # {}
      /\ UNCHANGED <<active, quit, promise, cancelled, timer, stage>>
      /\ \/ \E h \in Others : posted' = Append(posted, h)
         \/ posted' = posted
  <2> DEFINE Moves == \/ \E h \in Others : posted' = Append(posted, h)
                      \/ posted' = posted
  <2>1. Messages \subseteq Others /\ {"error", "byeSent"} \subseteq Others
    BY DEF Others, Handler, Messages, Continuations, Rounds
  <2>2. ASSUME NEW e \in Failed, posted' = posted \o e PROVE Moves
    <3>1. "error" \in Handler
      BY DEF Handler, Continuations
    <3>2. Append(posted, "error") = posted \o <<"error">>
      BY <1>1, <3>1, AppendIsConcat
    <3>3. posted \o <<>> = posted
      BY <1>1
    <3> QED
      BY <2>1, <2>2, <3>2, <3>3 DEF Failed
  <2>3. CASE \E m \in Messages : Deliver(m)
    BY <2>1, <2>3 DEF Deliver, sessionVars, pingerVars
  <2>4. CASE \E k \in {"request", "bye"} : SendCompletes(k)
    BY <2>1, <2>4 DEF SendCompletes, sessionVars, pingerVars, phoneVars
  <2>5. CASE \E k \in {"request", "bye"} : SendFails(k)
    BY <2>2, <2>5 DEF SendFails, sessionVars, pingerVars, phoneVars
  <2>6. CASE ReceiveFails
    BY <2>2, <2>6 DEF ReceiveFails, sessionVars, pingerVars, phoneVars
  <2> QED
    BY <2>3, <2>4, <2>5, <2>6 DEF Environment
<1>3. Started /\ Started'
  <2>1. stage \notin {"new", "failed"}
    BY <1>1, <1>2, Begun DEF IInv
  <2> QED
    BY <1>2, <2>1 DEF Started
<1>4. Waiting
  BY <1>2, WaitingIs
<1>5. \A x \in Rounds : Posted(x)' <=> Posted(x)
  <2>1. CASE posted' = posted
    BY <2>1 DEF Posted
  <2>2. ASSUME NEW h \in Others, posted' = Append(posted, h)
        PROVE  \A x \in Rounds : Posted(x)' <=> Posted(x)
    BY <1>1, <2>2, Added DEF Others
  <2> QED
    BY <1>2, <2>1, <2>2
<1> QED
  BY <1>2, <1>3, <1>4, <1>5, ChannelSeen

(* The steps of on_signal, with the cancel of the timer at once or later.  *)
LEMMA SignalSeen ==
  ASSUME IInv, IInv', Signal
  PROVE  R!Next
<1>1. UNCHANGED <<quit, emitted, posted, receives, sending, promise, stage>>
  BY DEF Signal, SignalFlag, SignalLock, SignalStop, CancelRuns, SignalHalt,
         SignalStep, channelVars, phoneVars
<1>2. active \in BOOLEAN /\ cancelled \in BOOLEAN
  BY DEF IInv, TypeOK
<1>3. UNCHANGED Waiting
  <2>1. \A x : Posted(x)' <=> Posted(x)
    BY <1>1 DEF Posted
  <2> QED
    BY <1>1, <2>1, WaitingIs, WaitingType
<1>4. Reported' = Reported
  BY <1>1 DEF Reported
<1>5. (\A x : Posted(x)' <=> Posted(x)) /\ (Due' <=> Due)
  BY <1>1 DEF Posted, Due
<1>6. Timed' = Timed => Round' = Round
  BY <1>5, RoundKept
<1>7. UNCHANGED <<active, cancelled, timer>> => UNCHANGED <<Life, Round>>
  BY <1>1, <1>6 DEF Life, Timed
<1>8. ASSUME cancelled'
      PROVE  Round' = IF Round = "armed" THEN "cancelled" ELSE Round
  <2>1. CASE Due
    <3>1. Round' = Round
      BY <1>5, <2>1, RoundKept
    <3>2. Round # "armed"
      BY <2>1, RoundIs DEF Due, Rounds
    <3> QED
      BY <3>1, <3>2
  <2>2. CASE ~Due
    <3>1. Round = Timed /\ Round' = Timed'
      BY <1>5, <2>2, RoundIs, SeenAfter
    <3> QED
      BY <1>1, <1>8, <3>1 DEF Timed
  <2> QED
    BY <2>1, <2>2
<1>9. /\ io # "running" => stage # "new"
      /\ io = "cancelling" => stage # "new" /\ ~active
  BY DEF IInv, Cancels, Started
<1>10. /\ stage = "failed" => Life = "gone"
       /\ stage \notin {"new", "failed"} =>
            Life = IF active THEN "active" ELSE "ended"
  BY DEF Life
<1>11. CASE SignalFlag
  <2>1. R!SignalFlag
    BY <1>1, <1>3, <1>4, <1>7, <1>11, AsSignalFlag DEF SignalFlag, SignalStep
  <2> QED
    BY <2>1 DEF R!Next, R!Signal
<1>12. CASE SignalLock
  <2>1. R!SignalLock
    BY <1>1, <1>3, <1>4, <1>7, <1>9, <1>10, <1>12, AsSignalLock
       DEF SignalLock, SignalStep
  <2> QED
    BY <2>1 DEF R!Next, R!Signal
<1>13. CASE SignalStop
  <2>1. io = "caught" /\ stage # "new" /\ Life # "new"
    BY <1>9, <1>10, <1>13 DEF SignalStop, SignalStep
  <2>2. active => stage \notin {"new", "failed"}
    BY DEF IInv, Unstarted
  <2>3. Life = "active" <=> active
    BY <1>10, <2>1, <2>2
  <2>4. ASSUME io' = "stopping", Stop
        PROVE  R!SignalStop
    <3>1. CASE active
      <4>1. cancelled' /\ ~active'
        BY <2>4, <3>1 DEF Stop
      <4>2. Life' = "ended"
        BY <1>1, <2>2, <3>1, <4>1 DEF Life
      <4> QED
        BY <1>1, <1>3, <1>4, <1>8, <1>10, <2>1, <2>3, <2>4, <3>1, <4>1, <4>2,
           AsSignalStop
    <3>2. CASE ~active
      <4>1. UNCHANGED <<Life, Round>>
        BY <1>7, <2>4, <3>2 DEF Stop
      <4> QED
        BY <1>1, <1>3, <1>4, <1>10, <2>1, <2>3, <2>4, <3>2, <4>1, AsSignalStop
    <3> QED
      BY <3>1, <3>2
  <2>5. ASSUME io' = "cancelling", active, active' = FALSE,
               UNCHANGED <<cancelled, timer>>
        PROVE  R!SignalStop
    <3>1. Life' = "ended" /\ Round' = Round
      BY <1>1, <1>6, <2>2, <2>5 DEF Life, Timed
    <3> QED
      BY <1>1, <1>3, <1>4, <1>10, <2>1, <2>3, <2>5, <3>1, AsSignalStop
  <2>6. R!SignalStop
    BY <1>13, <2>4, <2>5 DEF SignalStop, SignalStep
  <2> QED
    BY <2>6 DEF R!Next, R!Signal
<1>14. CASE CancelRuns
  <2>1. Life' = Life
    BY <1>1, <1>14 DEF CancelRuns, Life
  <2>2. R!CancelRuns
    BY <1>1, <1>3, <1>4, <1>8, <1>9, <1>14, <2>1, AsCancelRuns
       DEF CancelRuns, SignalStep
  <2> QED
    BY <2>2 DEF R!Next, R!Signal
<1>15. CASE SignalHalt
  <2>1. R!SignalHalt
    BY <1>1, <1>3, <1>4, <1>7, <1>15, AsSignalHalt DEF SignalHalt, SignalStep
  <2> QED
    BY <2>1 DEF R!Next, R!Signal
<1> QED
  BY <1>11, <1>12, <1>13, <1>14, <1>15 DEF Signal

(* What moves only the phone or the timer.                                 *)
LEMMA LittleSeen ==
  ASSUME IInv, IInv', FallSilent \/ TimerExpires \/ UNCHANGED vars
  PROVE  UNCHANGED R!vars
<1>1. /\ UNCHANGED <<active, quit, emitted, posted, receives, sending, cancelled,
                     promise, io, stage>>
      /\ timer' = timer \/ (timer = "armed" /\ timer' = "fired")
  BY DEF FallSilent, TimerExpires, vars, sessionVars, channelVars, pingerVars,
         phoneVars
<1>2. Life' = Life /\ Reported' = Reported
  BY <1>1 DEF Life, Reported
<1>3. \A x : Posted(x)' <=> Posted(x)
  BY <1>1 DEF Posted
<1>4. UNCHANGED Waiting
  BY <1>1, <1>3, WaitingIs, WaitingType
<1>5. Round' = Round
  BY <1>1, <1>3, RoundKept DEF Timed
<1> QED
  BY <1>1, <1>2, <1>4, <1>5, AsNothing

(* The return of onDevice.                                                 *)
LEMMA StartSeen ==
  ASSUME IInv, IInv', Start \/ StartThrows
  PROVE  R!Next
<1>1. /\ stage = "new" /\ io = "running" /\ io' = io
      /\ emitted' = Append(emitted, "connecting")
      /\ UNCHANGED <<quit, posted>>
  BY DEF Start, StartThrows
<1>2. /\ ~active /\ ~quit /\ posted = <<>> /\ receives = 0 /\ sending = {}
      /\ timer = "off" /\ promise = "none"
  BY <1>1, FirstEvent
<1>3. Life = "new"
  BY <1>1 DEF Life
<1>4. (\A x : ~Posted(x)) /\ (\A x : ~Posted(x)') /\ ~Due /\ ~Due'
  BY <1>1, <1>2 DEF Posted, Due
<1>5. stage' # "new" => Reported' = [state |-> "connecting", by |-> 1]
  BY <1>1, <1>2, SeenAfter
<1>6. CASE Start
  <2>1. /\ stage' = "version" /\ active'
        /\ promise' = "live" /\ timer' = "armed" /\ ~cancelled'
        /\ sending' = sending \cup {"request"}
    BY <1>2, <1>6 DEF Start, Ping, Send
  <2>2. Started' /\ Life' = "active"
    BY <2>1 DEF Started, Life
  <2>3. Round' = "armed"
    BY <1>4, <2>1, SeenAfter DEF Timed
  <2>4. Waiting'
    BY <2>1, WaitingIs
  <2>5. R!StartSession
    BY <1>1, <1>3, <1>5, <2>1, <2>2, <2>3, <2>4, WaitingType, AsStart
  <2> QED
    BY <2>5 DEF R!Next
<1>7. CASE StartThrows
  <2>1. /\ stage' = "failed"
        /\ UNCHANGED <<promise, timer, cancelled, sending, receives>>
    BY <1>7 DEF StartThrows, channelVars, pingerVars
  <2>2. Life' = "gone"
    BY <2>1 DEF Life
  <2>3. Round' = Round
    BY <1>4, <2>1, RoundKept DEF Timed
  <2>4. UNCHANGED Waiting
    BY <1>4, <2>1, WaitingIs, WaitingType
  <2>5. R!StartThrows
    BY <1>1, <1>3, <1>5, <2>1, <2>2, <2>3, <2>4, AsStartThrows
  <2> QED
    BY <2>5 DEF R!Next
<1> QED
  BY <1>6, <1>7

(* Every step of a session is one that aasdk_runner.cpp allows a session:  *)
(* it starts once, reports its end once and only when it really ended, has *)
(* one keepalive round, and leaves nothing but what Runner expects.        *)
THEOREM Implements == Spec => RunnerSession
<1>1. ASSUME IInv, IInv', [Next]_vars
      PROVE  [R!Next]_(R!vars)
  <2>1. CASE Start \/ StartThrows
    BY <1>1, <2>1, StartSeen
  <2>2. CASE Handlers
    BY <1>1, <2>2, HandlersSeen
  <2>3. CASE OnTimerExceeded
    BY <1>1, <2>3, TimerSeen
  <2>4. CASE Environment
    BY <1>1, <2>4, MessagesSeen, SignalSeen, LittleSeen
  <2>5. CASE TimerExpires \/ Ended \/ UNCHANGED vars
    BY <1>1, <2>5, LittleSeen DEF Ended
  <2> QED
    BY <1>1, <2>1, <2>2, <2>3, <2>4, <2>5 DEF Next
<1>2. IInv /\ IInv' /\ [Next]_vars => [R!Next]_(R!vars)
  BY <1>1
<1> QED
  BY <1>2, Invariance, PTL DEF Spec, RunnerSession
=============================================================================
