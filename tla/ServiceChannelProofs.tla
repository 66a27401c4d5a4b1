------------------------ MODULE ServiceChannelProofs ------------------------
(***************************************************************************)
(* Proofs about ServiceChannel, for a channel of any kind and any number   *)
(* of media sessions, messages and frames.                                 *)
(***************************************************************************)
EXTENDS ServiceChannel, Counting, SequenceTheorems

(* Handlers and sends of some types, and how many wait: messages, frames,  *)
(* and acks on their way.                                                  *)
Typed(T) == {x \in Items \cup Sends : x.type \in T}
Q == Count(posted, Typed(Requests))
F == Count(posted, Typed({"media"}))
A == Count(out, Typed({"ack"}))

-----------------------------------------------------------------------------
(* The inductive invariant.                                                *)

(* The token of the channel: its receive() or the message to handle.       *)
OneToken == receives + Q <= 1 /\ (Sound => receives + Q = 1)

(* A phone that streams has started a media session; a message that is     *)
(* about one carries its number.                                           *)
Streaming == stage \in {"streaming", "unfocused"}
Numbered ==
    /\ Streaming => started >= 1
    /\ \A i \in DOMAIN posted :
         posted[i].type \in {"start", "media"} => posted[i].id \in Ids

(* While the phone streams, the channel knows its media session, or is     *)
(* about to handle the start, and no stop is left over.                    *)
Current ==
    Sound /\ Streaming =>
      /\ \A i \in DOMAIN posted :
           /\ posted[i].type # "stop"
           /\ posted[i].type = "start" => posted[i].id = started
      /\ (\A i \in DOMAIN posted : posted[i].type # "start") =>
           session = started

(* A frame will be acknowledged under the media session it was sent in.    *)
Frames ==
    Sound => \A i \in DOMAIN posted :
               posted[i].type = "media" => posted[i].id = session

(* max_unacked is 1: a frame without an ack is the only one.               *)
Unacked ==
    /\ Len(unacked) <= 1
    /\ active /\ link => A + F <= Len(unacked)
    /\ Sound =>
         /\ A + F = Len(unacked)
         /\ \A i \in DOMAIN out :
              out[i].type = "ack" => out[i].id = unacked[1]
         /\ \A i \in DOMAIN posted :
              posted[i].type = "media" => posted[i].id = unacked[1]

IInv == TypeOK /\ OneToken /\ Numbered /\ Current /\ Frames /\ Unacked

-----------------------------------------------------------------------------
(* Handlers and sends.                                                     *)

(* What the properties count.                                              *)
LEMMA HowManyIs ==
  ASSUME NEW s \in Seq(Items \cup Sends), NEW T
  PROVE  HowMany(s, T) = Count(s, Typed(T))
<1>1. \A i \in DOMAIN s : s[i] \in Items \cup Sends
  OBVIOUS
<1>2. {i \in DOMAIN s : s[i].type \in T} = Places(s, Typed(T))
  BY <1>1 DEF Places, Typed
<1> QED
  BY <1>2 DEF HowMany, Count

(* Numbers of handlers and sends are numbers.                              *)
LEMMA Numbers ==
  ASSUME posted \in Seq(Items), out \in Seq(Sends)
  PROVE  Q \in Nat /\ F \in Nat /\ A \in Nat /\ F <= Q
<1>1. Q \in Nat /\ F \in Nat /\ A \in Nat
  BY CountType DEF Q, F, A
<1>2. Typed({"media"}) \subseteq Typed(Requests)
  BY DEF Typed, Requests
<1>3. F <= Q
  BY <1>2, CountMonotonic DEF Q, F
<1> QED
  BY <1>1, <1>3

(* They are after a step.                                                  *)
LEMMA NumbersAfter ==
  ASSUME posted' \in Seq(Items), out' \in Seq(Sends)
  PROVE  {Q', F', A'} \subseteq Nat
<1>1. Q' \in Nat /\ F' \in Nat /\ A' \in Nat
  BY CountType DEF Q, F, A
<1> QED
  BY <1>1

(* No message is left.                                                     *)
LEMMA NoRequests ==
  ASSUME posted' \in Seq(Items), Q' = 0
  PROVE  \A i \in DOMAIN posted' : posted'[i].type \notin Requests
<1>1. \A i \in DOMAIN posted' : posted'[i] \notin Typed(Requests)
  BY CountZero DEF Q
<1>2. \A i \in DOMAIN posted' : posted'[i] \in Items
  OBVIOUS
<1> QED
  BY <1>1, <1>2 DEF Typed

(* A message that is handled is the only one.                              *)
LEMMA OneRequest ==
  ASSUME posted \in Seq(Items), Q <= 1,
         NEW i \in DOMAIN posted, NEW j \in DOMAIN posted,
         posted[i].type \in Requests, posted[j].type \in Requests
  PROVE  i = j
<1>1. posted[i] \in Typed(Requests) /\ posted[j] \in Typed(Requests)
  BY DEF Typed
<1>2. Count(posted, Typed(Requests)) <= 1
  BY DEF Q
<1> QED
  BY <1>1, <1>2, CountOne

(* A handler is taken from the strand.                                     *)
LEMMA RunEffect ==
  ASSUME posted \in Seq(Items), NEW T, Run(T)
  PROVE  /\ posted' \in Seq(Items) /\ 1 \in DOMAIN posted
         /\ Head(posted) = posted[1] /\ posted[1] \in Items
         /\ posted[1].type \in T
         /\ \A i \in DOMAIN posted' :
              i + 1 \in DOMAIN posted /\ posted'[i] = posted[i + 1]
         /\ Q = IF posted[1].type \in Requests THEN Q' + 1 ELSE Q'
         /\ F = IF posted[1].type = "media" THEN F' + 1 ELSE F'
         /\ UNCHANGED <<kind, active, link, malformed, stage, started, unacked>>
<1>1. /\ posted # <<>> /\ Head(posted).type \in T /\ posted' = Tail(posted)
      /\ UNCHANGED <<kind, active, link, malformed, stage, started, unacked>>
  BY DEF Run, phoneVars
<1>2. /\ posted' \in Seq(Items) /\ 1 \in DOMAIN posted
      /\ Head(posted) = posted[1] /\ posted[1] \in Items
      /\ \A i \in DOMAIN posted' :
           i + 1 \in DOMAIN posted /\ posted'[i] = posted[i + 1]
  BY <1>1
<1>3. ASSUME NEW H
      PROVE  Count(posted, H) = IF posted[1] \in H THEN Count(posted', H) + 1
                                ELSE Count(posted', H)
  <2>1. Count(posted, H) = Count(posted', H) + Bit(posted[1] \in H)
    BY <1>1, <1>2, CountTail
  <2>2. Count(posted', H) \in Nat
    BY <1>2, CountType
  <2>3. CASE posted[1] \in H
    BY <2>1, <2>2, <2>3 DEF Bit
  <2>4. CASE posted[1] \notin H
    BY <2>1, <2>2, <2>4 DEF Bit
  <2> QED
    BY <2>3, <2>4
<1>4. /\ posted[1] \in Typed(Requests) <=> posted[1].type \in Requests
      /\ posted[1] \in Typed({"media"}) <=> posted[1].type = "media"
  BY <1>2 DEF Typed
<1>5. Q = IF posted[1].type \in Requests THEN Q' + 1 ELSE Q'
  BY <1>3, <1>4 DEF Q
<1>6. F = IF posted[1].type = "media" THEN F' + 1 ELSE F'
  BY <1>3, <1>4 DEF F
<1> QED
  BY <1>1, <1>2, <1>5, <1>6

(* A handler is posted.                                                    *)
LEMMA PostEffect ==
  ASSUME posted \in Seq(Items), NEW x \in Items, posted' = Append(posted, x)
  PROVE  /\ posted' \in Seq(Items)
         /\ \A i \in DOMAIN posted' :
              \/ posted'[i] = x
              \/ i \in DOMAIN posted /\ posted'[i] = posted[i]
         /\ Len(posted) + 1 \in DOMAIN posted'
         /\ posted'[Len(posted) + 1] = x
         /\ \A i \in DOMAIN posted :
              i \in DOMAIN posted' /\ posted'[i] = posted[i]
         /\ Q' = IF x.type \in Requests THEN Q + 1 ELSE Q
         /\ F' = IF x.type = "media" THEN F + 1 ELSE F
<1>1. /\ posted' \in Seq(Items)
      /\ \A i \in DOMAIN posted' :
           \/ posted'[i] = x
           \/ i \in DOMAIN posted /\ posted'[i] = posted[i]
      /\ Len(posted) + 1 \in DOMAIN posted'
      /\ posted'[Len(posted) + 1] = x
      /\ \A i \in DOMAIN posted :
           i \in DOMAIN posted' /\ posted'[i] = posted[i]
  OBVIOUS
<1>2. ASSUME NEW H
      PROVE  Count(posted', H) = IF x \in H THEN Count(posted, H) + 1
                                 ELSE Count(posted, H)
  <2>1. Count(posted', H) = Count(posted, H) + Bit(x \in H)
    BY CountAppend
  <2>2. Count(posted, H) \in Nat
    BY CountType
  <2>3. CASE x \in H
    BY <2>1, <2>2, <2>3 DEF Bit
  <2>4. CASE x \notin H
    BY <2>1, <2>2, <2>4 DEF Bit
  <2> QED
    BY <2>3, <2>4
<1>3. /\ x \in Typed(Requests) <=> x.type \in Requests
      /\ x \in Typed({"media"}) <=> x.type = "media"
  BY DEF Typed
<1>4. Q' = IF x.type \in Requests THEN Q + 1 ELSE Q
  BY <1>2, <1>3 DEF Q
<1>5. F' = IF x.type = "media" THEN F + 1 ELSE F
  BY <1>2, <1>3 DEF F
<1> QED
  BY <1>1, <1>4, <1>5

(* A send starts, or ends.                                                 *)
LEMMA SendEffect ==
  ASSUME out \in Seq(Sends), NEW x \in Sends, out' = Append(out, x)
  PROVE  /\ out' \in Seq(Sends)
         /\ \A i \in DOMAIN out' :
              out'[i] = x \/ (i \in DOMAIN out /\ out'[i] = out[i])
         /\ A' = IF x.type = "ack" THEN A + 1 ELSE A
<1>1. /\ out' \in Seq(Sends)
      /\ \A i \in DOMAIN out' :
           out'[i] = x \/ (i \in DOMAIN out /\ out'[i] = out[i])
  OBVIOUS
<1>2. A' = A + Bit(x \in Typed({"ack"}))
  BY CountAppend DEF A
<1>3. A \in Nat
  BY CountType DEF A
<1>4. x \in Typed({"ack"}) <=> x.type = "ack"
  BY DEF Typed
<1>5. CASE x.type = "ack"
  BY <1>1, <1>2, <1>3, <1>4, <1>5 DEF Bit
<1>6. CASE x.type # "ack"
  BY <1>1, <1>2, <1>3, <1>4, <1>6 DEF Bit
<1> QED
  BY <1>5, <1>6

(* The oldest send is taken from those on their way.                       *)
LEMMA SentEffect ==
  ASSUME out \in Seq(Sends), out # <<>>, out' = Tail(out)
  PROVE  /\ out' \in Seq(Sends)
         /\ 1 \in DOMAIN out /\ Head(out) = out[1] /\ out[1] \in Sends
         /\ \A i \in DOMAIN out' : i + 1 \in DOMAIN out /\ out'[i] = out[i + 1]
         /\ A = IF Head(out).type = "ack" THEN A' + 1 ELSE A'
<1>1. /\ out' \in Seq(Sends)
      /\ 1 \in DOMAIN out /\ Head(out) = out[1] /\ out[1] \in Sends
      /\ \A i \in DOMAIN out' : i + 1 \in DOMAIN out /\ out'[i] = out[i + 1]
  OBVIOUS
<1>2. A = A' + Bit(Head(out) \in Typed({"ack"}))
  BY CountTail DEF A
<1>3. \E n \in Nat : A' = n
  <2>1. Count(out', Typed({"ack"})) \in Nat
    BY <1>1, CountType
  <2> QED
    BY <2>1 DEF A
<1>4. Head(out) \in Typed({"ack"}) <=> Head(out).type = "ack"
  BY <1>1 DEF Typed
<1>5. CASE Head(out).type = "ack"
  BY <1>1, <1>2, <1>3, <1>4, <1>5 DEF Bit
<1>6. CASE Head(out).type # "ack"
  <2>1. A = A'
    BY <1>2, <1>3, <1>4, <1>6 DEF Bit
  <2> QED
    BY <1>1, <1>6, <2>1
<1> QED
  BY <1>5, <1>6

(* What a channel makes is typed.                                          *)
LEMMA ItemType ==
  /\ \A t \in Requests \cup Continuations, n \in NoSession..MaxStarts :
       ItemOf(t, n) \in Items /\ ItemOf(t, n).type = t /\ ItemOf(t, n).id = n
  /\ \A t \in Requests \cup Continuations :
       Item(t) \in Items /\ Item(t).type = t
  /\ \A t \in {"opened", "config", "focus", "binding", "sensorValued",
               "sensorStarted", "status", "report"} :
       Item(t) \in Sends /\ Item(t).type = t /\ Item(t).type # "ack"
  /\ \A n \in NoSession..MaxStarts :
       /\ ItemOf("ack", n) \in Sends /\ ItemOf("ack", n).type = "ack"
       /\ ItemOf("ack", n).id = n
<1>1. NoSession \in NoSession..MaxStarts
  BY BoundsAssumption DEF NoSession
<1> QED
  BY <1>1 DEF Item, ItemOf, Items, Sends

(* TypeOK in two halves.                                                   *)
Flags == active \in BOOLEAN /\ link \in BOOLEAN /\ malformed \in BOOLEAN
Ranges ==
    /\ kind \in Kinds
    /\ receives \in 0..1
    /\ posted \in Seq(Items) /\ out \in Seq(Sends)
    /\ session \in Ids \cup {NoSession}
    /\ stage \in {"closed", "opening", "opened", "settingUp",
                  "unfocusedReady", "ready", "streaming", "unfocused",
                  "binding", "starting", "unvalued"}
    /\ started \in 0..MaxStarts
    /\ unacked \in Seq(Ids)

(* Both halves are TypeOK, in this state and the next.                     *)
LEMMA TypeHalves == /\ TypeOK <=> Flags /\ Ranges
                    /\ TypeOK' <=> Flags' /\ Ranges'
  BY DEF TypeOK, Flags, Ranges

(* What arithmetic needs of the invariant.                                 *)
LEMMA Pieces ==
  ASSUME IInv
  PROVE  /\ Flags /\ Ranges /\ posted \in Seq(Items) /\ out \in Seq(Sends)
         /\ receives \in {0, 1} /\ Q \in Nat /\ F \in Nat /\ A \in Nat /\ F <= Q
         /\ receives + Q <= 1
         /\ Len(unacked) \in {0, 1}
         /\ active /\ link => A + F <= Len(unacked)
         /\ Sound => receives + Q = 1 /\ A + F = Len(unacked)
         /\ session \in NoSession..MaxStarts
         /\ MaxStarts \in Nat /\ started \in 0..MaxStarts
<1>1. Flags /\ Ranges
  BY TypeHalves DEF IInv
<1>2. posted \in Seq(Items) /\ out \in Seq(Sends) /\ receives \in {0, 1}
  BY <1>1 DEF Ranges
<1>3. Q \in Nat /\ F \in Nat /\ A \in Nat /\ F <= Q
  BY <1>2, Numbers
<1>4. /\ receives + Q <= 1
      /\ active /\ link => A + F <= Len(unacked)
      /\ Sound => receives + Q = 1 /\ A + F = Len(unacked)
  BY DEF IInv, OneToken, Unacked
<1>5. Len(unacked) \in {0, 1}
  <2>1. Len(unacked) \in Nat /\ Len(unacked) <= 1
    BY <1>1 DEF IInv, Unacked, Ranges
  <2> QED
    BY <2>1
<1>6. session \in NoSession..MaxStarts /\ MaxStarts \in Nat
      /\ started \in 0..MaxStarts
  BY <1>1, BoundsAssumption DEF Ranges, NoSession, Ids
<1> QED
  BY <1>1, <1>2, <1>3, <1>4, <1>5, <1>6

(* The invariant holds initially.                                          *)
LEMMA Initially == Init => IInv
<1> SUFFICES ASSUME Init PROVE IInv
  OBVIOUS
<1>1. Q = 0 /\ F = 0 /\ A = 0
  BY CountEmpty DEF Init, Q, F, A
<1>2. Flags
  BY DEF Init, Flags
<1>3. Ranges
  BY BoundsAssumption DEF Init, Ranges, NoSession, Ids
<1>4. OneToken /\ Unacked
  BY <1>1 DEF Init, OneToken, Unacked
<1>5. Numbered /\ Current /\ Frames
  BY DEF Init, Numbered, Streaming, Current, Frames
<1> QED
  BY <1>2, <1>3, <1>4, <1>5, TypeHalves DEF IInv

-----------------------------------------------------------------------------
(* The handlers.                                                           *)

(* A message is handled, with or without an answer, and receive() called.  *)
LEMMA Answering ==
  ASSUME IInv, NEW t \in Requests, Run({t}), receives' = receives + 1,
         t = "media" => out' = Append(out, ItemOf("ack", session)),
         t # "media" => \/ out' = out
                        \/ \E x \in Sends : x.type # "ack" /\ out' = Append(out, x),
         t = "start" => session' = posted[1].id,
         t = "stop" => session' \in {session, NoSession},
         t \notin {"start", "stop"} => session' = session
  PROVE  IInv'
<1>1. /\ posted \in Seq(Items) /\ out \in Seq(Sends) /\ Flags /\ Ranges
      /\ receives \in {0, 1} /\ Q \in Nat /\ F \in Nat /\ A \in Nat /\ F <= Q
      /\ receives + Q <= 1 /\ session \in NoSession..MaxStarts
  BY Pieces
<1>2. /\ posted' \in Seq(Items) /\ 1 \in DOMAIN posted /\ posted[1].type = t
      /\ Q = Q' + 1 /\ (F = IF t = "media" THEN F' + 1 ELSE F')
      /\ UNCHANGED <<kind, active, link, malformed, stage, started, unacked>>
  BY <1>1, RunEffect
<1>3. /\ out' \in Seq(Sends)
      /\ \A i \in DOMAIN out' :
           \/ i \in DOMAIN out /\ out'[i] = out[i]
           \/ out'[i].type = "ack" => t = "media" /\ out'[i].id = session
      /\ A' = IF t = "media" THEN A + 1 ELSE A
  <2>1. CASE t = "media"
    <3>1. /\ ItemOf("ack", session) \in Sends
          /\ ItemOf("ack", session).type = "ack"
          /\ ItemOf("ack", session).id = session
      BY <1>1, ItemType
    <3> QED
      BY <1>1, <2>1, <3>1, SendEffect
  <2>2. CASE t # "media" /\ out' = out
    BY <1>1, <2>2 DEF A
  <2>3. CASE t # "media" /\ out' # out
    <3>1. PICK x \in Sends : x.type # "ack" /\ out' = Append(out, x)
      BY <2>3
    <3> QED
      BY <1>1, <2>3, <3>1, SendEffect
  <2> QED
    BY <2>1, <2>2, <2>3
<1>4. receives = 0 /\ Q = 1 /\ Q' = 0 /\ F' = 0
  <2>1. {Q', F', A'} \subseteq Nat
    BY <1>2, <1>3, NumbersAfter
  <2>2. \A n \in Nat : Q = n + 1 => n = 0 /\ Q = 1 /\ receives = 0
    BY <1>1
  <2>3. Q' = 0 /\ Q = 1 /\ receives = 0
    BY <1>2, <2>1, <2>2, ZenonT(20)
  <2>4. F' = 0
    <3>1. \A n \in Nat : F = n + 1 => n = 0
      BY <1>1, <2>3
    <3>2. CASE t = "media"
      BY <1>2, <2>1, <3>1, <3>2, ZenonT(20)
    <3>3. CASE t # "media"
      <4>1. Typed({"media"}) \subseteq Typed(Requests)
        BY DEF Typed, Requests
      <4>2. F' <= Q' /\ F' \in Nat
        BY <1>2, <4>1, CountMonotonic, CountType DEF F, Q
      <4> QED
        BY <2>3, <4>2
    <3> QED
      BY <3>2, <3>3
  <2> QED
    BY <2>3, <2>4
<1>5. \A i \in DOMAIN posted' : posted'[i].type \notin Requests
  BY <1>2, <1>4, NoRequests
<1>6. \A i \in DOMAIN posted : posted[i].type \in Requests => i = 1
  BY <1>1, <1>2, <1>4, OneRequest
<1>7. session' \in Ids \cup {NoSession}
  <2>1. t = "start" => posted[1].id \in Ids
    BY <1>2 DEF IInv, Numbered
  <2> QED
    BY <1>1, <2>1 DEF Ranges
<1>8. Flags' /\ Ranges'
  BY <1>1, <1>2, <1>3, <1>4, <1>7 DEF Flags, Ranges
<1>9. OneToken'
  BY <1>4 DEF OneToken
<1>10. Numbered' /\ Frames'
  BY <1>2, <1>5 DEF IInv, Numbered, Streaming, Frames, Requests
<1>11. Current'
  <2> SUFFICES ASSUME Sound, Streaming PROVE session' = started
    BY <1>2, <1>5 DEF Current, Sound, Streaming, Requests
  <2>1. CASE t = "start"
    BY <1>2, <2>1 DEF IInv, Current
  <2>2. CASE t = "stop"
    BY <1>2, <2>2 DEF IInv, Current
  <2>3. CASE t \notin {"start", "stop"}
    <3>1. \A i \in DOMAIN posted : posted[i].type # "start"
      BY <1>2, <1>6, <2>3 DEF Requests
    <3> QED
      BY <2>3, <3>1 DEF IInv, Current
  <2> QED
    BY <2>1, <2>2, <2>3
<1>12. Unacked'
  <2>1. A' + F' = A + F
    <3>1. CASE t = "media"
      <4>1. F = 1
        BY <1>2, <1>4, <3>1
      <4> QED
        BY <1>1, <1>3, <1>4, <3>1, <4>1
    <3>2. CASE t # "media"
      BY <1>1, <1>2, <1>3, <1>4, <3>2
    <3> QED
      BY <3>1, <3>2
  <2>2. ASSUME Sound, NEW i \in DOMAIN out', out'[i].type = "ack"
        PROVE  out'[i].id = unacked[1]
    <3>1. CASE i \in DOMAIN out /\ out'[i] = out[i]
      BY <2>2, <3>1 DEF IInv, Unacked
    <3>2. CASE t = "media" /\ out'[i].id = session
      BY <1>2, <2>2, <3>2 DEF IInv, Frames, Unacked
    <3> QED
      BY <1>3, <2>2, <3>1, <3>2
  <2> QED
    BY <1>2, <1>5, <2>1, <2>2 DEF IInv, Unacked, Sound, Requests
<1> QED
  BY <1>8, <1>9, <1>10, <1>11, <1>12, TypeHalves DEF IInv

(* A continuation is taken or posted, and may be followed by a send that   *)
(* is no ack: messages and frames are where they were.                     *)
LEMMA Elsewhere ==
  ASSUME IInv, Ranges', Flags', Sound' => Sound, Streaming' => Streaming,
         active' /\ link' => active /\ link,
         UNCHANGED <<session, started>>,
         \A i \in DOMAIN posted' :
           \/ posted'[i].type \in Continuations
           \/ \E j \in DOMAIN posted : posted'[i] = posted[j],
         \A j \in DOMAIN posted :
           \/ posted[j].type \in Continuations
           \/ \E i \in DOMAIN posted' : posted'[i] = posted[j]
  PROVE  Numbered' /\ Current' /\ Frames'
<1>1. \A t \in Requests : t \notin Continuations
  BY DEF Requests, Continuations
<1>2. Numbered'
  BY <1>1 DEF IInv, Numbered, Requests
<1>3. Frames'
  BY <1>1 DEF IInv, Frames, Requests
<1>4. Current'
  <2> SUFFICES ASSUME Sound', Streaming'
               PROVE  /\ \A i \in DOMAIN posted' :
                           /\ posted'[i].type # "stop"
                           /\ posted'[i].type = "start" => posted'[i].id = started
                      /\ (\A i \in DOMAIN posted' : posted'[i].type # "start")
                           => session = started
    BY DEF Current
  <2>1. /\ \A i \in DOMAIN posted :
             /\ posted[i].type # "stop"
             /\ posted[i].type = "start" => posted[i].id = started
        /\ (\A i \in DOMAIN posted : posted[i].type # "start") =>
             session = started
    BY DEF IInv, Current
  <2>2. /\ \A i \in DOMAIN posted' :
             /\ posted'[i].type # "stop"
             /\ posted'[i].type = "start" => posted'[i].id = started
    BY <1>1, <2>1 DEF Requests
  <2>3. ASSUME \A i \in DOMAIN posted' : posted'[i].type # "start"
        PROVE  \A i \in DOMAIN posted : posted[i].type # "start"
    BY <1>1, <2>3 DEF Requests
  <2> QED
    BY <2>1, <2>2, <2>3
<1> QED
  BY <1>2, <1>3, <1>4

(* The continuations of sends, the reports of touches, and errors.         *)
LEMMA Continuing ==
  ASSUME IInv, Run(Continuations), UNCHANGED <<receives, session>>,
         \/ out' = out
         \/ \E x \in Sends : x.type # "ack" /\ out' = Append(out, x)
  PROVE  IInv'
<1>1. posted \in Seq(Items) /\ out \in Seq(Sends) /\ Flags /\ Ranges
  BY Pieces
<1>2. /\ posted' \in Seq(Items) /\ 1 \in DOMAIN posted
      /\ posted[1].type \in Continuations
      /\ \A i \in DOMAIN posted' :
           i + 1 \in DOMAIN posted /\ posted'[i] = posted[i + 1]
      /\ \A j \in DOMAIN posted :
           j = 1 \/ (j - 1 \in DOMAIN posted' /\ posted'[j - 1] = posted[j])
      /\ Q' = Q /\ F' = F
      /\ UNCHANGED <<kind, active, link, malformed, stage, started, unacked>>
  <2>1. \A t \in Continuations : t \notin Requests /\ t # "media"
    BY DEF Continuations, Requests
  <2>2. /\ posted # <<>> /\ posted' = Tail(posted)
    BY DEF Run
  <2>3. \A j \in DOMAIN posted :
          j = 1 \/ (j - 1 \in DOMAIN posted' /\ posted'[j - 1] = posted[j])
    BY <1>1, <2>2
  <2> QED
    BY <1>1, <2>1, <2>3, RunEffect
<1>3. /\ out' \in Seq(Sends)
      /\ \A i \in DOMAIN out' : out'[i].type = "ack" =>
           i \in DOMAIN out /\ out'[i] = out[i]
      /\ A' = A
  <2>1. CASE out' = out
    BY <1>1, <2>1 DEF A
  <2>2. CASE out' # out
    <3>1. PICK x \in Sends : x.type # "ack" /\ out' = Append(out, x)
      BY <2>2
    <3> QED
      BY <1>1, <3>1, SendEffect
  <2> QED
    BY <2>1, <2>2
<1>4. Flags' /\ Ranges'
  BY <1>1, <1>2, <1>3 DEF Flags, Ranges
<1>5. (Sound' <=> Sound) /\ (Streaming' <=> Streaming)
  BY <1>2 DEF Sound, Streaming
<1>6. Numbered' /\ Current' /\ Frames'
  BY <1>2, <1>4, <1>5, Elsewhere
<1>7. OneToken'
  BY <1>2, <1>5 DEF IInv, OneToken
<1>8. Unacked'
  BY <1>2, <1>3, <1>5 DEF IInv, Unacked
<1> QED
  BY <1>4, <1>6, <1>7, <1>8, TypeHalves DEF IInv

(* A touch is posted by the reader thread.                                 *)
LEMMA Touching ==
  ASSUME IInv, DispatchTouch
  PROVE  IInv'
<1>1. posted \in Seq(Items) /\ Flags /\ Ranges
  BY Pieces
<1>2. /\ posted' = Append(posted, Item("touch"))
      /\ UNCHANGED <<kind, receives, out, session, active, link, malformed,
                     stage, started, unacked>>
  BY DEF DispatchTouch, phoneVars
<1>3. /\ Item("touch") \in Items /\ Item("touch").type = "touch"
      /\ "touch" \in Continuations /\ "touch" \notin Requests
  BY ItemType DEF Continuations, Requests
<1>4. /\ posted' \in Seq(Items)
      /\ \A i \in DOMAIN posted' :
           \/ posted'[i].type \in Continuations
           \/ i \in DOMAIN posted /\ posted'[i] = posted[i]
      /\ \A i \in DOMAIN posted :
           i \in DOMAIN posted' /\ posted'[i] = posted[i]
      /\ Q' = Q /\ F' = F
  BY <1>1, <1>2, <1>3, PostEffect
<1>5. A' = A /\ (Sound' <=> Sound) /\ (Streaming' <=> Streaming)
  BY <1>2 DEF A, Sound, Streaming
<1>6. Flags' /\ Ranges'
  BY <1>1, <1>2, <1>4 DEF Flags, Ranges
<1>7. Numbered' /\ Current' /\ Frames'
  BY <1>2, <1>4, <1>5, <1>6, Elsewhere
<1>8. OneToken' /\ Unacked'
  BY <1>2, <1>4, <1>5 DEF IInv, OneToken, Unacked, Continuations
<1> QED
  BY <1>6, <1>7, <1>8, TypeHalves DEF IInv

(* Every handler of the strand keeps the invariant.                        *)
LEMMA Handling ==
  ASSUME IInv, Handlers
  PROVE  IInv'
<1> USE DEF Answer, Send, Receive, ReceiveAfterSensor
<1>1. /\ session \in NoSession..MaxStarts /\ posted \in Seq(Items)
  BY Pieces
<1>2. CASE OnChannelOpenRequest
  BY <1>2, ItemType, Answering DEF OnChannelOpenRequest, Requests
<1>3. CASE OnMediaChannelSetupRequest
  BY <1>3, ItemType, Answering DEF OnMediaChannelSetupRequest, Requests
<1>4. CASE OnMediaChannelStartIndication
  <2>1. Head(posted) = posted[1]
    BY <1>1, <1>4, RunEffect DEF OnMediaChannelStartIndication
  <2> QED
    BY <1>4, <2>1, Answering
       DEF OnMediaChannelStartIndication, SessionId, Requests
<1>5. CASE OnMediaChannelStopIndication
  BY <1>5, Answering DEF OnMediaChannelStopIndication, Requests
<1>6. CASE OnMediaIndication
  BY <1>6, Answering DEF OnMediaIndication, Requests
<1>7. CASE OnVideoFocusRequest
  BY <1>7, ItemType, Answering DEF OnVideoFocusRequest, Requests
<1>8. CASE OnKeyBindingRequest
  BY <1>8, ItemType, Answering DEF OnKeyBindingRequest, Requests
<1>9. CASE OnSensorStartRequest
  <2>1. PICK t \in {"driving", "otherSensor"} : Run({t})
    BY <1>9 DEF OnSensorStartRequest, Run
  <2>2. \E x \in Sends : x.type # "ack" /\ out' = Append(out, x)
    BY <1>9, ItemType DEF OnSensorStartRequest
  <2>3. receives' = receives + 1 /\ session' = session
    BY <1>9 DEF OnSensorStartRequest
  <2> QED
    BY <2>1, <2>2, <2>3, Answering DEF Requests
<1>10. CASE OnSent \/ OnChannelError
  <2>1. Run(Continuations) /\ UNCHANGED <<receives, session>>
    BY <1>10 DEF OnSent, OnChannelError, Run, Continuations
  <2>2. \/ out' = out
        \/ \E x \in Sends : x.type # "ack" /\ out' = Append(out, x)
    BY <1>10, ItemType DEF OnSent, OnChannelError
  <2> QED
    BY <2>1, <2>2, Continuing
<1> QED
  BY <1>2, <1>3, <1>4, <1>5, <1>6, <1>7, <1>8, <1>9, <1>10 DEF Handlers

-----------------------------------------------------------------------------
(* The phone and aasdk.                                                    *)

(* What a phone asks, and when.                                            *)
LEMMA AsksAre ==
  ASSUME NEW ask \in Asks
  PROVE  /\ ask[1] \in Requests
         /\ ask[2] \in {"opening", "settingUp", "binding", "starting", "ready",
                        "streaming", "unfocused"}
         /\ ask[1] = "start" => started < MaxStarts
         /\ ask[1] = "media" => stage = "streaming"
         /\ ask[1] = "stop" => ask[2] = "ready"
         /\ ask[2] \in {"streaming", "unfocused"} =>
              ask[1] = "start" \/ Streaming
  BY DEF Asks, Requests, Streaming

(* A message arrives, parsed or not.                                       *)
LEMMA Delivering ==
  ASSUME IInv, NEW ask \in Asks, NEW parsed \in BOOLEAN, Deliver(ask, parsed)
  PROVE  IInv'
<1> DEFINE type == ask[1]
           id == IF type = "start" THEN started + 1 ELSE started
           x == IF parsed THEN ItemOf(type, id) ELSE Item("error")
<1>1. /\ posted \in Seq(Items) /\ out \in Seq(Sends) /\ Flags /\ Ranges
      /\ receives \in {0, 1} /\ Q \in Nat /\ F \in Nat /\ A \in Nat /\ F <= Q
      /\ receives + Q <= 1 /\ Len(unacked) \in {0, 1}
      /\ MaxStarts \in Nat /\ started \in 0..MaxStarts
  BY Pieces
<1>2. /\ type \in Requests
      /\ ask[2] \in {"opening", "settingUp", "binding", "starting", "ready",
                     "streaming", "unfocused"}
      /\ type = "start" => started < MaxStarts
      /\ type = "media" => stage = "streaming"
      /\ type = "stop" => ask[2] = "ready"
      /\ ask[2] \in {"streaming", "unfocused"} => type = "start" \/ Streaming
  BY AsksAre
<1>3. /\ active /\ link /\ receives > 0 /\ (type = "media" => unacked = <<>>)
      /\ receives' = receives - 1 /\ posted' = Append(posted, x)
      /\ malformed' = (malformed \/ ~parsed) /\ stage' = ask[2]
      /\ started' = IF type = "start" THEN id ELSE started
      /\ unacked' = IF type = "media" THEN Append(unacked, id) ELSE unacked
      /\ UNCHANGED <<kind, out, session, active, link>>
  BY DEF Deliver, MayAsk
<1>4. receives = 1 /\ Q = 0 /\ F = 0 /\ receives' = 0
  BY <1>1, <1>3
<1>5. \A i \in DOMAIN posted : posted[i].type \notin Requests
  <2>1. \A i \in DOMAIN posted : posted[i] \notin Typed(Requests)
    BY <1>1, <1>4, CountZero DEF Q
  <2>2. \A i \in DOMAIN posted : posted[i] \in Items
    BY <1>1
  <2> QED
    BY <2>1, <2>2 DEF Typed
<1>6. /\ id \in 0..MaxStarts /\ started' \in 0..MaxStarts
      /\ type \in {"start", "media"} => id \in Ids
  <2>1. type = "media" => started >= 1
    BY <1>2 DEF IInv, Numbered, Streaming
  <2> QED
    BY <1>1, <1>2, <1>3, <2>1 DEF Ids
<1>7. /\ x \in Items
      /\ parsed => x.type = type /\ x.id = id
      /\ ~parsed => x.type = "error"
  <2>1. id \in NoSession..MaxStarts
    BY <1>1, <1>6 DEF NoSession
  <2>2. "error" \in Requests \cup Continuations
    BY DEF Continuations
  <2> QED
    BY <1>2, <2>1, <2>2, ItemType
<1> HIDE DEF x
<1>8. /\ posted' \in Seq(Items)
      /\ \A i \in DOMAIN posted' :
           \/ posted'[i] = x
           \/ i \in DOMAIN posted /\ posted'[i] = posted[i]
      /\ Len(posted) + 1 \in DOMAIN posted'
      /\ posted'[Len(posted) + 1] = x
      /\ Q' = IF x.type \in Requests THEN Q + 1 ELSE Q
      /\ F' = IF x.type = "media" THEN F + 1 ELSE F
  BY <1>1, <1>3, <1>7, PostEffect
<1>9. A' = A
  BY <1>3 DEF A
<1>10. Sound' => Sound /\ parsed
  BY <1>1, <1>3 DEF Sound, Flags
<1>11. unacked' \in Seq(Ids) /\ Len(unacked') <= 1
       /\ Len(unacked') = IF type = "media" THEN 1 ELSE Len(unacked)
  <2>1. CASE type = "media"
    <3>1. unacked = <<>> /\ id \in Ids /\ unacked' = Append(<<>>, id)
      BY <1>3, <1>6, <2>1
    <3>2. unacked' \in Seq(Ids) /\ Len(unacked') = 1
      <4> HIDE DEF id
      <4> QED
        BY <3>1
    <3> QED
      BY <2>1, <3>2
  <2>2. CASE type # "media"
    <3>1. unacked' = unacked
      BY <2>2 DEF Deliver
    <3>2. unacked \in Seq(Ids) /\ Len(unacked) <= 1
      BY DEF IInv, Unacked, TypeOK
    <3> QED
      BY <2>2, <3>1, <3>2
  <2> QED
    BY <2>1, <2>2
<1>12. Flags' /\ Ranges'
  <2>1. Flags'
    BY <1>1, <1>3 DEF Flags
  <2>2. Ranges'
    BY <1>1, <1>2, <1>3, <1>4, <1>6, <1>8, <1>11 DEF Ranges
  <2> QED
    BY <2>1, <2>2
<1>13. OneToken'
  <2>1. Q' = IF parsed THEN 1 ELSE 0
    BY <1>2, <1>4, <1>7, <1>8 DEF Requests
  <2> QED
    BY <1>4, <1>10, <2>1 DEF OneToken
<1>14. Numbered'
  <2>1. Streaming' => started' >= 1
    <3>1. CASE type = "start"
      BY <1>1, <1>3, <3>1
    <3>2. CASE type # "start"
      BY <1>2, <1>3, <3>2 DEF IInv, Numbered, Streaming
    <3> QED
      BY <3>1, <3>2
  <2>2. \A i \in DOMAIN posted' :
          posted'[i].type \in {"start", "media"} => posted'[i].id \in Ids
    <3>1. x.type \in {"start", "media"} => x.id \in Ids
      BY <1>6, <1>7
    <3> QED
      BY <1>8, <3>1 DEF IInv, Numbered
  <2> QED
    BY <2>1, <2>2 DEF Numbered
<1>15. ASSUME Sound, Streaming
       PROVE  session = started
  BY <1>5, <1>15 DEF IInv, Current, Requests
<1>16. Frames'
  <2> SUFFICES ASSUME Sound', NEW i \in DOMAIN posted', posted'[i].type = "media"
               PROVE  posted'[i].id = session'
    BY DEF Frames
  <2>1. posted'[i] = x /\ type = "media"
    BY <1>5, <1>7, <1>8, <1>10 DEF Requests
  <2>2. x.id = started
    BY <1>7, <1>10, <2>1
  <2> QED
    BY <1>2, <1>3, <1>10, <1>15, <2>1, <2>2 DEF Streaming
<1>17. Current'
  <2> SUFFICES ASSUME Sound', Streaming'
               PROVE  /\ \A i \in DOMAIN posted' :
                           /\ posted'[i].type # "stop"
                           /\ posted'[i].type = "start" =>
                                posted'[i].id = started'
                      /\ (\A i \in DOMAIN posted' : posted'[i].type # "start")
                           => session' = started'
    BY DEF Current
  <2>1. type # "stop"
    BY <1>2, <1>3 DEF Streaming
  <2>2. x.type # "stop" /\ (x.type = "start" => x.id = started')
    BY <1>3, <1>7, <1>10, <2>1
  <2>3. \A i \in DOMAIN posted' :
          /\ posted'[i].type # "stop"
          /\ posted'[i].type = "start" => posted'[i].id = started'
    BY <1>5, <1>8, <2>2 DEF Requests
  <2>4. ASSUME \A i \in DOMAIN posted' : posted'[i].type # "start"
        PROVE  session' = started'
    <3>1. type # "start"
      BY <1>7, <1>8, <1>10, <2>4
    <3>2. Streaming
      BY <1>2, <1>3, <3>1 DEF Streaming
    <3> QED
      BY <1>3, <1>10, <1>15, <3>1, <3>2
  <2> QED
    BY <2>3, <2>4
<1>18. Unacked'
  <2>1. A + F <= Len(unacked)
    BY <1>3 DEF IInv, Unacked
  <2>2. /\ A' + F' <= Len(unacked')
        /\ Sound' => A' + F' = Len(unacked')
    <3>1. Sound' => A + F = Len(unacked)
      BY <1>10 DEF IInv, Unacked
    <3>2. CASE type = "media"
      <4>1. Len(unacked) = 0 /\ A = 0
        BY <1>1, <1>3, <1>4, <2>1, <3>2
      <4>2. F' = IF parsed THEN 1 ELSE 0
        BY <1>4, <1>7, <1>8, <3>2
      <4> QED
        BY <1>9, <1>10, <1>11, <3>2, <4>1, <4>2
    <3>3. CASE type # "media"
      <4>1. F' = F
        BY <1>7, <1>8, <3>3
      <4> QED
        BY <1>9, <1>11, <2>1, <3>1, <3>3, <4>1
    <3> QED
      BY <3>2, <3>3
  <2>3. ASSUME Sound', NEW i \in DOMAIN out', out'[i].type = "ack"
        PROVE  out'[i].id = unacked'[1]
    <3>1. out' = out /\ out[i].id = unacked[1]
      BY <1>3, <1>10, <2>3 DEF IInv, Unacked
    <3>2. type # "media"
      <4>1. ASSUME type = "media" PROVE FALSE
        <5>1. A = 0
          BY <1>1, <1>3, <1>4, <2>1, <4>1
        <5>2. out[i] \in Typed({"ack"})
          BY <1>1, <2>3, <3>1 DEF Typed
        <5> QED
          BY <1>1, <2>3, <3>1, <5>1, <5>2, CountZero DEF A
      <4> QED
        BY <4>1
    <3> QED
      BY <1>3, <3>1, <3>2
  <2>4. ASSUME Sound', NEW i \in DOMAIN posted', posted'[i].type = "media"
        PROVE  posted'[i].id = unacked'[1]
    <3>1. posted'[i] = x /\ type = "media"
      BY <1>5, <1>7, <1>8, <1>10, <2>4 DEF Requests
    <3>2. unacked'[1] = id
      <4>1. unacked = <<>> /\ unacked' = Append(<<>>, id)
        BY <1>3, <3>1
      <4> HIDE DEF id
      <4> QED
        BY <4>1
    <3>3. x.id = id
      BY <1>7, <1>10, <2>4
    <3> QED
      BY <3>1, <3>2, <3>3
  <2> QED
    BY <1>11, <2>2, <2>3, <2>4 DEF Unacked
<1> QED
  BY <1>12, <1>13, <1>14, <1>16, <1>17, <1>18, TypeHalves DEF IInv

(* A send completes: an ack is taken from the frames that wait for one.    *)
LEMMA Sending ==
  ASSUME IInv, SendCompletes
  PROVE  IInv'
<1> DEFINE done == Head(out).type
<1>1. /\ posted \in Seq(Items) /\ out \in Seq(Sends) /\ Flags /\ Ranges
      /\ Q \in Nat /\ F \in Nat /\ A \in Nat
  BY Pieces
<1>2. /\ active /\ link /\ out # <<>> /\ out' = Tail(out)
      /\ posted' = posted \o Continuation(done)
      /\ stage' = Answered(done)
      /\ unacked' = IF done = "ack" THEN Tail(unacked) ELSE unacked
      /\ UNCHANGED <<kind, receives, session, active, link, malformed, started>>
  BY DEF SendCompletes
<1>3. /\ out' \in Seq(Sends)
      /\ 1 \in DOMAIN out /\ out[1].type = done /\ out[1] \in Sends
      /\ \A i \in DOMAIN out' : i + 1 \in DOMAIN out /\ out'[i] = out[i + 1]
      /\ A = IF done = "ack" THEN A' + 1 ELSE A'
  BY <1>1, <1>2, SentEffect
<1>4. /\ posted' \in Seq(Items)
      /\ \A i \in DOMAIN posted' :
           \/ posted'[i].type \in Continuations
           \/ i \in DOMAIN posted /\ posted'[i] = posted[i]
      /\ \A i \in DOMAIN posted :
           i \in DOMAIN posted' /\ posted'[i] = posted[i]
      /\ Q' = Q /\ F' = F
  <2>1. CASE Continuation(done) = <<>>
    <3>1. posted' = posted
      BY <1>1, <1>2, <2>1
    <3> QED
      BY <1>1, <3>1 DEF Q, F
  <2>2. ASSUME NEW t \in {"sendFocus", "sendStatus"},
               Continuation(done) = <<Item(t)>>
        PROVE  posted' = Append(posted, Item(t))
    <3>1. Item(t) \in Items
      BY ItemType DEF Continuations
    <3>2. Append(posted, Item(t)) = posted \o <<Item(t)>>
      BY <1>1, <3>1, AppendIsConcat
    <3> QED
      BY <1>2, <2>2, <3>2
  <2>3. ASSUME NEW t \in {"sendFocus", "sendStatus"},
               Continuation(done) = <<Item(t)>>
        PROVE  <1>4
    <3>1. /\ Item(t) \in Items /\ Item(t).type = t
          /\ t \in Continuations /\ t \notin Requests /\ t # "media"
      BY ItemType DEF Continuations, Requests
    <3>2. posted' = Append(posted, Item(t))
      BY <2>2, <2>3
    <3> QED
      BY <1>1, <3>1, <3>2, PostEffect
  <2>4. \/ Continuation(done) = <<>>
        \/ Continuation(done) = <<Item("sendFocus")>>
        \/ Continuation(done) = <<Item("sendStatus")>>
    BY DEF Continuation
  <2> QED
    BY <2>1, <2>3, <2>4
<1>5. (Sound' <=> Sound) /\ (Streaming' => Streaming)
  BY <1>2 DEF Sound, Streaming, Answered
<1>6. done = "ack" => /\ Len(unacked) = 1 /\ A = 1 /\ F = 0 /\ A' = 0
                      /\ unacked' = <<>>
  <2> SUFFICES ASSUME done = "ack"
               PROVE  /\ Len(unacked) = 1 /\ A = 1 /\ F = 0 /\ A' = 0
                      /\ unacked' = <<>>
    OBVIOUS
  <2>1. /\ unacked \in Seq(Ids) /\ Len(unacked) <= 1
        /\ A + F <= Len(unacked)
    BY <1>2 DEF IInv, Unacked, TypeOK
  <2>2. {Q', F', A'} \subseteq Nat
    BY <1>3, <1>4, NumbersAfter
  <2>3. \A n \in Nat : A = n + 1 =>
          n = 0 /\ A = 1 /\ F = 0 /\ Len(unacked) = 1
    <3>1. /\ Len(unacked) \in Nat /\ Len(unacked) <= 1
          /\ A + F <= Len(unacked)
      BY <2>1
    <3>2. A \in Nat /\ F \in Nat
      BY <1>1
    <3>3. \A a, f, u, n \in Nat :
            a + f <= u /\ u <= 1 /\ a = n + 1 =>
              n = 0 /\ a = 1 /\ f = 0 /\ u = 1
      OBVIOUS
    <3> QED
      BY <3>1, <3>2, <3>3, ZenonT(20)
  <2>4. A' = 0 /\ A = 1 /\ F = 0 /\ Len(unacked) = 1
    BY <1>3, <2>2, <2>3, ZenonT(20)
  <2>5. Tail(unacked) = <<>>
    <3>1. unacked \in Seq(Ids) /\ Len(unacked) = 1
      BY <2>1, <2>4
    <3>2. unacked # <<>>
      <4>1. Len(<<>>) # 1
        BY EmptySeq
      <4> QED
        BY <3>1, <4>1, Zenon
    <3>3. Tail(unacked) \in Seq(Ids) /\ Len(Tail(unacked)) = 0
      BY <3>1, <3>2, HeadTailProperties
    <3> QED
      BY <3>3, EmptySeq
  <2> QED
    BY <1>2, <2>4, <2>5
<1>7. Flags' /\ Ranges'
  <2>1. Flags'
    BY <1>1, <1>2 DEF Flags
  <2>2. unacked' \in Seq(Ids)
    <3>1. unacked \in Seq(Ids)
      BY DEF IInv, TypeOK
    <3>2. CASE done = "ack"
      <4>1. <<>> \in Seq(Ids)
        BY EmptySeq
      <4> QED
        BY <1>6, <3>2, <4>1
    <3>3. CASE done # "ack"
      <4>1. unacked' = unacked
        BY <1>2, <3>3
      <4> QED
        BY <3>1, <4>1
    <3> QED
      BY <3>2, <3>3
  <2>3. stage' \in {"closed", "opening", "opened", "settingUp",
                    "unfocusedReady", "ready", "streaming", "unfocused",
                    "binding", "starting", "unvalued"}
    BY <1>1, <1>2 DEF Ranges, Answered
  <2> QED
    BY <1>1, <1>2, <1>3, <1>4, <2>1, <2>2, <2>3 DEF Ranges
<1>8. Numbered' /\ Current' /\ Frames'
  BY <1>2, <1>4, <1>5, <1>7, Elsewhere
<1>9. OneToken'
  BY <1>2, <1>4, <1>5 DEF IInv, OneToken
<1>10. Unacked'
  <2>1. CASE done = "ack"
    <3>1. A' = 0 /\ F' = 0 /\ unacked' = <<>>
      BY <1>4, <1>6, <2>1
    <3>2. \A i \in DOMAIN out' : out'[i].type # "ack"
      <4>1. \A i \in DOMAIN out' : out'[i] \notin Typed({"ack"})
        BY <1>3, <3>1, CountZero DEF A
      <4>2. \A i \in DOMAIN out' : out'[i] \in Sends
        BY <1>3
      <4> QED
        BY <4>1, <4>2 DEF Typed
    <3>3. \A i \in DOMAIN posted' : posted'[i].type # "media"
      <4>1. \A i \in DOMAIN posted' : posted'[i] \notin Typed({"media"})
        BY <1>4, <3>1, CountZero DEF F
      <4>2. \A i \in DOMAIN posted' : posted'[i] \in Items
        BY <1>4
      <4> QED
        BY <4>1, <4>2 DEF Typed
    <3> QED
      BY <3>1, <3>2, <3>3 DEF Unacked
  <2>2. CASE done # "ack"
    <3>1. A' = A /\ F' = F /\ unacked' = unacked
      BY <1>2, <1>3, <1>4, <2>2
    <3> QED
      BY <1>2, <1>3, <1>4, <1>5, <3>1 DEF IInv, Unacked, Continuations
  <2> QED
    BY <2>1, <2>2
<1> QED
  BY <1>7, <1>8, <1>9, <1>10, TypeHalves DEF IInv

(* A send or a receive fails.                                              *)
LEMMA Failing ==
  ASSUME IInv, SendFails \/ ReceiveFails
  PROVE  IInv'
<1>1. /\ posted \in Seq(Items) /\ out \in Seq(Sends) /\ Flags /\ Ranges
      /\ receives \in {0, 1} /\ Q \in Nat /\ receives + Q <= 1
  BY Pieces
<1>2. /\ ~active \/ ~link
      /\ posted' = Append(posted, Item("error"))
      /\ UNCHANGED <<kind, session, active, link, malformed, stage, started,
                     unacked>>
      /\ \/ receives' = receives /\ out # <<>> /\ out' = Tail(out)
         \/ receives > 0 /\ receives' = receives - 1 /\ out' = out
  BY DEF SendFails, ReceiveFails, phoneVars
<1>3. /\ Item("error") \in Items /\ Item("error").type = "error"
      /\ "error" \in Continuations /\ "error" \notin Requests
  BY ItemType DEF Continuations, Requests
<1>4. /\ posted' \in Seq(Items)
      /\ \A i \in DOMAIN posted' :
           \/ posted'[i].type \in Continuations
           \/ i \in DOMAIN posted /\ posted'[i] = posted[i]
      /\ \A i \in DOMAIN posted :
           i \in DOMAIN posted' /\ posted'[i] = posted[i]
      /\ Q' = Q /\ F' = F
  BY <1>1, <1>2, <1>3, PostEffect
<1>5. out' \in Seq(Sends) /\ receives' \in 0..1 /\ receives' + Q <= 1
  <2>1. CASE receives' = receives /\ out # <<>> /\ out' = Tail(out)
    <3>1. out' \in Seq(Sends)
      BY <1>1, <2>1
    <3>2. receives' \in 0..1 /\ receives' + Q <= 1
      <4>1. receives \in {0, 1} /\ receives + Q <= 1 /\ receives' = receives
        BY <1>1, <2>1
      <4> QED
        BY <4>1
    <3> QED
      BY <3>1, <3>2
  <2>2. CASE receives > 0 /\ receives' = receives - 1 /\ out' = out
    <3>1. out' \in Seq(Sends)
      BY <1>1, <2>2
    <3>2. receives' \in 0..1 /\ receives' + Q <= 1
      <4>1. /\ receives \in {0, 1} /\ receives + Q <= 1 /\ Q \in Nat
            /\ receives > 0 /\ receives' = receives - 1
        BY <1>1, <2>2
      <4> QED
        BY <4>1
    <3> QED
      BY <3>1, <3>2
  <2> QED
    BY <1>2, <2>1, <2>2
<1>6. ~Sound /\ ~Sound' /\ (Streaming' <=> Streaming)
  BY <1>2 DEF Sound, Streaming
<1>7. Flags' /\ Ranges'
  BY <1>1, <1>2, <1>4, <1>5 DEF Flags, Ranges
<1>8. Numbered' /\ Current' /\ Frames'
  BY <1>2, <1>4, <1>6, <1>7, Elsewhere
<1>9. OneToken' /\ Unacked'
  BY <1>2, <1>4, <1>5, <1>6 DEF IInv, OneToken, Unacked
<1> QED
  BY <1>7, <1>8, <1>9, TypeHalves DEF IInv

(* The link fails, the session stops, or nothing happens.                  *)
LEMMA Ending ==
  ASSUME IInv, LinkFails \/ Stop \/ UNCHANGED vars
  PROVE  IInv'
<1>1. /\ UNCHANGED <<kind, receives, posted, out, session, malformed, stage,
                     started, unacked>>
      /\ UNCHANGED active \/ (active' = FALSE /\ UNCHANGED link)
      /\ UNCHANGED link \/ (link' = FALSE /\ UNCHANGED active)
  BY DEF LinkFails, Stop, vars, channelVars, phoneVars
<1>2. Flags /\ Ranges
  BY Pieces
<1>3. /\ Flags' /\ (active' /\ link' => active /\ link) /\ (Sound' => Sound)
  <2>1. CASE UNCHANGED <<active, link>>
    BY <1>1, <1>2, <2>1 DEF Flags, Sound
  <2>2. CASE active' = FALSE /\ UNCHANGED link
    BY <1>1, <1>2, <2>2 DEF Flags, Sound
  <2>3. CASE link' = FALSE /\ UNCHANGED active
    BY <1>1, <1>2, <2>3 DEF Flags, Sound
  <2> QED
    BY <1>1, <2>1, <2>2, <2>3
<1>4. Q' = Q /\ F' = F /\ A' = A
  BY <1>1 DEF Q, F, A
<1>5. Ranges'
  BY <1>1, <1>2 DEF Ranges
<1>6. OneToken' /\ Numbered' /\ Current' /\ Frames' /\ Unacked'
  BY <1>1, <1>3, <1>4
     DEF IInv, OneToken, Numbered, Streaming, Current, Frames, Unacked
<1> QED
  BY <1>3, <1>5, <1>6, TypeHalves DEF IInv

-----------------------------------------------------------------------------
(* The invariant.                                                          *)

(* Every step keeps the invariant.                                         *)
LEMMA Inductive == IInv /\ [Next]_vars => IInv'
<1> SUFFICES ASSUME IInv, [Next]_vars PROVE IInv'
  OBVIOUS
<1>1. CASE Handlers
  BY <1>1, Handling
<1>2. CASE DispatchTouch
  BY <1>2, Touching
<1>3. CASE \E ask \in Asks, parsed \in BOOLEAN : Deliver(ask, parsed)
  BY <1>3, Delivering
<1>4. CASE SendCompletes
  BY <1>4, Sending
<1>5. CASE SendFails \/ ReceiveFails
  BY <1>5, Failing
<1>6. CASE LinkFails \/ Stop \/ UNCHANGED vars
  BY <1>6, Ending
<1> QED
  BY <1>1, <1>2, <1>3, <1>4, <1>5, <1>6 DEF Next

(* The invariant holds in every state of every behaviour.                  *)
LEMMA Invariance == Spec => []IInv
  BY Initially, Inductive, PTL DEF Spec

(* The channel keeps its types; it never calls receive() twice.            *)
THEOREM TypeCorrect == Spec => []TypeOK
<1>1. IInv => TypeOK
  BY DEF IInv
<1> QED
  BY <1>1, Invariance, PTL

(* Every handler of a message calls receive() again, and only then: a      *)
(* channel of an active session is never deaf.                             *)
THEOREM NeverDeaf == Spec => []Listening
<1>1. ASSUME IInv PROVE Listening
  <2>1. posted \in Seq(Items \cup Sends)
    BY <1>1 DEF IInv, TypeOK
  <2>2. HowMany(posted, Requests) = Q
    BY <2>1, HowManyIs DEF Q
  <2> QED
    BY <1>1, <2>2 DEF IInv, OneToken, Listening
<1> QED
  BY <1>1, Invariance, PTL

(* onMediaWithTimestampIndication and onMediaIndication acknowledge every  *)
(* frame once, in order, and under the media session of the frame,         *)
(* whatever stop and start indications lie between two frames.             *)
THEOREM FramesAcknowledged == Spec => []AcksMatch
<1>1. ASSUME IInv PROVE AcksMatch
  <2>1. /\ posted \in Seq(Items) /\ posted \in Seq(Items \cup Sends)
        /\ out \in Seq(Sends) /\ out \in Seq(Items \cup Sends)
    BY <1>1 DEF IInv, TypeOK
  <2>2. HowMany(posted, {"media"}) = F /\ HowMany(out, {"ack"}) = A
    BY <2>1, HowManyIs DEF F, A
  <2>3. F \in Nat /\ A \in Nat
    BY <2>1, Numbers
  <2>4. ASSUME NEW s \in Seq(Items \cup Sends), NEW t, HowMany(s, {t}) <= 1,
               NEW i \in DOMAIN s, s[i].type = t
        PROVE  HowMany(s, {t}) = 1 /\ Rank(s, {t}, i) = 1
    <3> DEFINE places == {j \in DOMAIN s : s[j].type \in {t}}
               upto == {j \in 1..i : s[j].type \in {t}}
    <3>1. /\ i \in 1..Len(s) /\ DOMAIN s = 1..Len(s) /\ Len(s) \in Nat
      BY <2>4
    <3>2. IsFiniteSet(places)
      <4>1. IsFiniteSet(1..Len(s))
        BY <3>1, FS_Interval
      <4> QED
        BY <3>1, <4>1, FS_Subset
    <3>3. upto \subseteq places /\ i \in upto
      BY <2>4, <3>1
    <3> HIDE DEF places, upto
    <3>4. /\ IsFiniteSet(upto) /\ Cardinality(upto) \in Nat
          /\ Cardinality(places) \in Nat
          /\ Cardinality(upto) <= Cardinality(places)
      BY <3>2, <3>3, FS_Subset, FS_CardinalityType
    <3>5. Cardinality(upto) # 0
      BY <3>3, <3>4, FS_EmptySet
    <3>6. HowMany(s, {t}) = Cardinality(places)
          /\ Rank(s, {t}, i) = Cardinality(upto)
      BY DEF HowMany, Rank, places, upto
    <3> QED
      BY <2>4, <3>4, <3>5, <3>6
  <2>5. ASSUME Sound
        PROVE  /\ Len(unacked) = A + F /\ A + F <= 1
               /\ \A i \in DOMAIN out :
                    out[i].type = "ack" => out[i].id = unacked[1]
               /\ \A i \in DOMAIN posted :
                    posted[i].type = "media" => posted[i].id = unacked[1]
    BY <1>1, <2>5 DEF IInv, Unacked
  <2>6. ASSUME Sound, NEW i \in DOMAIN out, out[i].type = "ack"
        PROVE  unacked[Rank(out, {"ack"}, i)] = out[i].id
    <3>1. A <= 1
      BY <2>3, <2>5, <2>6
    <3>2. Rank(out, {"ack"}, i) = 1
      BY <2>1, <2>2, <2>4, <2>6, <3>1
    <3> QED
      BY <2>5, <2>6, <3>2
  <2>7. ASSUME Sound, NEW i \in DOMAIN posted, posted[i].type = "media"
        PROVE  unacked[A + Rank(posted, {"media"}, i)] = posted[i].id
    <3>1. F <= 1
      BY <2>3, <2>5, <2>7
    <3>2. F = 1 /\ Rank(posted, {"media"}, i) = 1
      BY <2>1, <2>2, <2>4, <2>7, <3>1
    <3>3. A = 0
      BY <2>3, <2>5, <2>7, <3>2
    <3> QED
      BY <2>5, <2>7, <3>2, <3>3
  <2> QED
    BY <2>2, <2>5, <2>6, <2>7 DEF AcksMatch
<1> QED
  BY <1>1, Invariance, PTL
=============================================================================
