------------------------------ MODULE Viewers -------------------------------
(***************************************************************************)
(* The browser pages (frontend/app.js) and the web sockets on which the    *)
(* server (server/src/index.ts) passes on video and audio: one seat for    *)
(* each, which the first page takes and keeps until its connection closes. *)
(* A page that is refused the video asks again every two seconds; one that *)
(* is refused the audio does not, nor one that lost a connection.          *)
(*                                                                         *)
(* A page loaded again is another page.  As no page is seated twice, the   *)
(* decoder is that of the page that shows the video, and is forgotten with *)
(* it.  Tokens are left out: a page with a wrong one is not served at all. *)
(***************************************************************************)
EXTENDS Integers

CONSTANTS
    MaxPages,    \* pages ever loaded (bound)
    MaxQueued,   \* chunks in the decoder at a time (bound)
    MaxBlank     \* chunks that give no picture (bound)

ASSUME BoundsAssumption == {MaxPages, MaxQueued, MaxBlank} \subseteq Nat

Pages == 1..MaxPages
NoPage == 0

Kinds == {"video", "audio"}

VARIABLES
    page,    \* page[p]: none yet, open, or gone
    socket,  \* socket[k][p]: the web socket of page p, as the page sees it
    seat,    \* activeVideoWs and activeAudioWs
    decoder, \* decoder.state
    queued,  \* chunks in the decoder
    pending, \* pendingDecode
    blank    \* history: chunks decoded without a picture

decoderVars == <<decoder, queued, pending, blank>>
vars == <<page, socket, seat, decoderVars>>

Init ==
    /\ page = [p \in Pages |-> "none"]
    /\ socket = [k \in Kinds |-> [p \in Pages |-> "none"]]
    /\ seat = [k \in Kinds |-> NoPage]
    /\ decoder = "unconfigured" /\ queued = 0 /\ pending = 0 /\ blank = 0

Becomes(k, p, s) == socket' = [socket EXCEPT ![k][p] = s]

Shows(p) ==
    /\ seat["video"] = p
    /\ page[p] = "open" /\ socket["video"][p] = "open"

NoDecoder ==
    decoder' = "unconfigured" /\ queued' = 0 /\ pending' = 0 /\ blank' = 0

-----------------------------------------------------------------------------
(* Pages.                                                                  *)

Load(p) ==
    /\ page[p] = "none" /\ \A q \in 1..(p - 1) : page[q] # "none"
    /\ page' = [page EXCEPT ![p] = "open"]
    /\ socket' = [k \in Kinds |-> [socket[k] EXCEPT ![p] = "opening"]]
    /\ UNCHANGED <<seat, decoderVars>>

(* Its timers go with it; a request that is on its way, and a connection,  *)
(* are for the server to deal with.                                        *)
Leave(p) ==
    /\ page[p] = "open"
    /\ page' = [page EXCEPT ![p] = "gone"]
    /\ socket' = [k \in Kinds |->
                    IF socket[k][p] \in {"opening", "open", "lost"}
                    THEN socket[k] ELSE [socket[k] EXCEPT ![p] = "closing"]]
    /\ IF Shows(p) THEN NoDecoder ELSE UNCHANGED decoderVars
    /\ UNCHANGED seat

LinkLost(k, p) ==
    /\ page[p] = "open" /\ socket[k][p] = "open"
    /\ Becomes(k, p, "lost")
    /\ IF k = "video" THEN NoDecoder ELSE UNCHANGED decoderVars
    /\ UNCHANGED <<page, seat>>

(* onclose with code 4000; connectAudio has no onclose.                    *)
NoRetry(k) == "refused"  \* mutant
AfterRefusal(k) == IF k = "video" THEN "retry" ELSE "refused"

OnClose(k, p) ==
    /\ page[p] = "open" /\ socket[k][p] = "closing"
    /\ Becomes(k, p, AfterRefusal(k))
    /\ UNCHANGED <<page, seat, decoderVars>>

Retry(p) ==
    /\ page[p] = "open" /\ socket["video"][p] = "retry"
    /\ Becomes("video", p, "opening")
    /\ UNCHANGED <<page, seat, decoderVars>>

-----------------------------------------------------------------------------
(* The server: the upgrade of a connection, and its close event.           *)

NeverTaken(k) == FALSE  \* mutant
Taken(k) == seat[k] # NoPage

Refuse(k, p) ==
    /\ socket[k][p] = "opening" /\ Taken(k)
    /\ Becomes(k, p, "closing")
    /\ UNCHANGED <<page, seat, decoderVars>>

Accept(k, p) ==
    /\ socket[k][p] = "opening" /\ ~Taken(k)
    /\ Becomes(k, p, "open")
    /\ seat' = [seat EXCEPT ![k] = p]
    /\ UNCHANGED <<page, decoderVars>>

Vacate(k, p) ==
    /\ seat[k] = p /\ (page[p] = "gone" \/ socket[k][p] = "lost")
    /\ seat' = [seat EXCEPT ![k] = NoPage]
    /\ UNCHANGED <<page, socket, decoderVars>>

-----------------------------------------------------------------------------
(* The video of the page on the seat.  An access unit has the parameter    *)
(* sets (and counts as a key frame), is a key frame, or is neither.        *)

OffByOne == pending > 1  \* mutant
Congested == pending > 2

OnMessage(unit) ==
    /\ \E p \in Pages : Shows(p)
    /\ queued < MaxQueued
    /\ decoder' = IF unit = "sets" /\ decoder = "unconfigured"
                  THEN "configured" ELSE decoder
    /\ IF decoder' = "configured" /\ ~(Congested /\ unit = "delta")
       THEN pending' = pending + 1 /\ queued' = queued + 1
       ELSE UNCHANGED <<pending, queued>>
    /\ UNCHANGED <<page, socket, seat, blank>>

NotCounted == pending  \* mutant
OneLess == IF pending > 0 THEN pending - 1 ELSE 0

Output ==
    /\ queued > 0
    /\ queued' = queued - 1
    /\ pending' = OneLess
    /\ UNCHANGED <<page, socket, seat, decoder, blank>>

(* Parameter sets alone, or a chunk that the decoder drops.                *)
Blank ==
    /\ queued > 0 /\ blank < MaxBlank
    /\ queued' = queued - 1
    /\ blank' = blank + 1
    /\ UNCHANGED <<page, socket, seat, decoder, pending>>

(* The decoder is closed for good, and pendingDecode without effect: the   *)
(* error callback only logs.                                               *)
DecoderError ==
    /\ decoder = "configured"
    /\ decoder' = "closed"
    /\ queued' = 0 /\ pending' = 0 /\ blank' = 0
    /\ UNCHANGED <<page, socket, seat>>

-----------------------------------------------------------------------------

Server(k, p) == Refuse(k, p) \/ Accept(k, p) \/ Vacate(k, p)

Next ==
    \/ \E p \in Pages :
         \/ Load(p) \/ Leave(p) \/ Retry(p)
         \/ \E k \in Kinds : LinkLost(k, p) \/ OnClose(k, p) \/ Server(k, p)
    \/ \E unit \in {"sets", "key", "delta"} : OnMessage(unit)
    \/ Output \/ Blank \/ DecoderError

Spec == Init /\ [][Next]_vars

(* Each event loop runs.  That a close is noticed at last is up to TCP: a  *)
(* connection that broke without a word is given up when what is sent on   *)
(* it is not acknowledged.  No page has to come or to leave, no phone to   *)
(* send video, and nothing is asked of the decoder.                        *)
Fairness ==
    \A p \in Pages :
      /\ WF_vars(Retry(p))
      /\ \A k \in Kinds : WF_vars(OnClose(k, p)) /\ WF_vars(Server(k, p))

FairSpec == Spec /\ Fairness

-----------------------------------------------------------------------------
(* Properties.                                                             *)

(* Every variable has its type, and pendingDecode never counts more than   *)
(* what the decoder holds or has left without a picture.                   *)
TypeOK ==
    /\ page \in [Pages -> {"none", "open", "gone"}]
    /\ socket \in [Kinds -> [Pages -> {"none", "opening", "open", "closing",
                                       "refused", "retry", "lost"}]]
    /\ seat \in [Kinds -> Pages \cup {NoPage}]
    /\ decoder \in {"unconfigured", "configured", "closed"}
    /\ queued \in 0..MaxQueued /\ blank \in 0..MaxBlank
    /\ decoder = "configured" => pending \in 0..(queued + blank)

(* However pages come, retry, reload and leave, a page that is connected   *)
(* has the seat, so no two pages share the stream and none loses it to a   *)
(* page that came later.                                                   *)
Seated ==
    \A k \in Kinds, p \in Pages :
      /\ socket[k][p] = "open" /\ page[p] = "open" => seat[k] = p
      /\ seat[k] = p => socket[k][p] \in {"open", "lost"}

(* A page without video gets it at last, unless another page shows it or   *)
(* gets it first: the seat of a page that is gone is not lost, and no      *)
(* refused page gives up.                                                  *)
Wants(p) == page[p] = "open" /\ socket["video"][p] \notin {"open", "lost"}
SeatTaken ==
    \A p \in Pages :
      Wants(p) ~> (~Wants(p) \/ \E q \in Pages : Shows(q))

(* pendingDecode goes down only with a picture.  A decoder with nothing    *)
(* left to do still takes delta frames after two chunks without a picture  *)
(* (with a third, only key frames pass).                                   *)
DeltasPass ==
    decoder = "configured" /\ queued = 0 /\ blank <= 2 => ~Congested
=============================================================================
