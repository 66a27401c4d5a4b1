--------------------------- MODULE ViewersProofs ----------------------------
(***************************************************************************)
(* Proofs about Viewers, for any number of pages and any bounds.           *)
(***************************************************************************)
EXTENDS Viewers, TLAPS

(* A page that was not loaded yet has no connection.                       *)
Unborn ==
    \A k \in Kinds, p \in Pages : page[p] = "none" => socket[k][p] = "none"

(* Chunks are counted only while the decoder is configured.                *)
Uncounted == decoder # "configured" => pending = 0

(* The inductive invariant.                                                *)
IInv == TypeOK /\ Uncounted /\ Unborn /\ Seated

States == {"none", "opening", "open", "closing", "refused", "retry", "lost"}

-----------------------------------------------------------------------------

(* The invariant holds initially.                                          *)
LEMMA Initially == Init => IInv
<1> SUFFICES ASSUME Init PROVE IInv
  OBVIOUS
<1>1. /\ page \in [Pages -> {"none"}] /\ seat \in [Kinds -> {NoPage}]
      /\ socket \in [Kinds -> [Pages -> {"none"}]]
  BY DEF Init
<1>2. decoder = "unconfigured" /\ queued = 0 /\ pending = 0 /\ blank = 0
  BY DEF Init
<1>3. TypeOK
  BY <1>1, <1>2, BoundsAssumption DEF TypeOK
<1>4. Seated
  BY <1>1 DEF Seated, Pages, NoPage
<1> QED
  BY <1>1, <1>2, <1>3, <1>4 DEF IInv, Uncounted, Unborn

-----------------------------------------------------------------------------
(* Steps of a connection.                                                  *)

(* Becomes changes one web socket of one page.                             *)
LEMMA OneSocket ==
  ASSUME TypeOK, NEW k \in Kinds, NEW p \in Pages, NEW s \in States,
         Becomes(k, p, s)
  PROVE  /\ socket' \in [Kinds -> [Pages -> States]]
         /\ socket'[k][p] = s
         /\ \A l \in Kinds, q \in Pages :
              l # k \/ q # p => socket'[l][q] = socket[l][q]
  BY DEF TypeOK, Becomes, States

(* A step of the page that has no seat: its request is refused, the close  *)
(* arrives, or it asks again.                                              *)
LEMMA Waiting ==
  ASSUME IInv, NEW k \in Kinds, NEW p \in Pages,
         Refuse(k, p) \/ OnClose(k, p) \/ (k = "video" /\ Retry(p))
  PROVE  IInv'
<1>1. PICK s \in States \ {"none", "open", "lost"} :
        /\ Becomes(k, p, s)
        /\ socket[k][p] \in {"opening", "closing", "retry"}
        /\ UNCHANGED <<page, seat, decoderVars>>
  BY DEF Refuse, OnClose, Retry, AfterRefusal, States
<1>2. /\ socket' \in [Kinds -> [Pages -> States]] /\ socket'[k][p] = s
      /\ \A l \in Kinds, q \in Pages :
           l # k \/ q # p => socket'[l][q] = socket[l][q]
  BY <1>1, OneSocket DEF IInv
<1>3. TypeOK' /\ Uncounted'
  BY <1>1, <1>2 DEF IInv, TypeOK, Uncounted, decoderVars, States
<1>4. Unborn'
  BY <1>1, <1>2 DEF IInv, Unborn, States
<1>5. Seated'
  BY <1>1, <1>2 DEF IInv, Seated, States
<1> QED
  BY <1>3, <1>4, <1>5 DEF IInv

(* A page takes a seat that is free.                                       *)
LEMMA Taking ==
  ASSUME IInv, NEW k \in Kinds, NEW p \in Pages, Accept(k, p)
  PROVE  IInv'
<1>1. /\ socket' \in [Kinds -> [Pages -> States]] /\ socket'[k][p] = "open"
      /\ \A l \in Kinds, q \in Pages :
           l # k \/ q # p => socket'[l][q] = socket[l][q]
  BY OneSocket DEF IInv, Accept, States
<1>2. /\ socket[k][p] = "opening" /\ seat[k] = NoPage
      /\ seat' = [seat EXCEPT ![k] = p] /\ UNCHANGED <<page, decoderVars>>
  BY DEF Accept, Taken
<1>3. /\ seat' \in [Kinds -> Pages \cup {NoPage}] /\ seat'[k] = p
      /\ \A l \in Kinds : l # k => seat'[l] = seat[l]
  BY <1>2 DEF IInv, TypeOK
<1>4. TypeOK' /\ Uncounted'
  BY <1>1, <1>2, <1>3 DEF IInv, TypeOK, Uncounted, decoderVars, States
<1>5. Unborn'
  BY <1>1, <1>2 DEF IInv, Unborn
<1>6. Seated'
  <2>1. NoPage \notin Pages
    BY DEF NoPage, Pages
  <2> QED
    BY <1>1, <1>2, <1>3, <2>1 DEF IInv, Seated
<1> QED
  BY <1>4, <1>5, <1>6 DEF IInv

(* The seat of a page that is gone, or lost its connection, is free again. *)
LEMMA Leaving ==
  ASSUME IInv, NEW k \in Kinds, NEW p \in Pages, Vacate(k, p)
  PROVE  IInv'
<1>1. /\ seat[k] = p /\ (page[p] = "gone" \/ socket[k][p] = "lost")
      /\ seat' = [seat EXCEPT ![k] = NoPage]
      /\ UNCHANGED <<page, socket, decoderVars>>
  BY DEF Vacate
<1>2. /\ seat' \in [Kinds -> Pages \cup {NoPage}] /\ seat'[k] = NoPage
      /\ \A l \in Kinds : l # k => seat'[l] = seat[l]
  BY <1>1 DEF IInv, TypeOK
<1>3. TypeOK' /\ Uncounted' /\ Unborn'
  BY <1>1, <1>2 DEF IInv, TypeOK, Uncounted, Unborn, decoderVars
<1>4. Seated'
  <2>1. NoPage \notin Pages
    BY DEF NoPage, Pages
  <2> QED
    BY <1>1, <1>2, <2>1 DEF IInv, Seated
<1> QED
  BY <1>3, <1>4 DEF IInv

-----------------------------------------------------------------------------
(* Steps of a page.                                                        *)

(* Without a decoder nothing is counted.                                   *)
LEMMA NothingCounted ==
  ASSUME IInv, NoDecoder \/ UNCHANGED decoderVars
  PROVE  /\ decoder' \in {"unconfigured", "configured", "closed"}
         /\ queued' \in 0..MaxQueued /\ blank' \in 0..MaxBlank
         /\ decoder' = "configured" => pending' \in 0..(queued' + blank')
         /\ decoder' # "configured" => pending' = 0
  BY BoundsAssumption DEF IInv, TypeOK, Uncounted, NoDecoder, decoderVars

(* A page is loaded.                                                       *)
LEMMA Loading ==
  ASSUME IInv, NEW p \in Pages, Load(p)
  PROVE  IInv'
<1>1. /\ page[p] = "none" /\ page' = [page EXCEPT ![p] = "open"]
      /\ socket' = [k \in Kinds |-> [socket[k] EXCEPT ![p] = "opening"]]
      /\ UNCHANGED <<seat, decoderVars>>
  BY DEF Load
<1>2. /\ page' \in [Pages -> {"none", "open", "gone"}] /\ page'[p] = "open"
      /\ \A q \in Pages : q # p => page'[q] = page[q]
  BY <1>1 DEF IInv, TypeOK
<1>3. /\ socket' \in [Kinds -> [Pages -> States]]
      /\ \A k \in Kinds : socket'[k][p] = "opening"
      /\ \A k \in Kinds, q \in Pages : q # p => socket'[k][q] = socket[k][q]
  BY <1>1 DEF IInv, TypeOK, States
<1>4. TypeOK' /\ Uncounted'
  BY <1>1, <1>2, <1>3 DEF IInv, TypeOK, Uncounted, decoderVars, States
<1>5. Unborn'
  BY <1>2, <1>3 DEF IInv, Unborn
<1>6. Seated'
  BY <1>1, <1>2, <1>3 DEF IInv, Seated, Unborn
<1> QED
  BY <1>4, <1>5, <1>6 DEF IInv

(* A page leaves.                                                          *)
LEMMA Going ==
  ASSUME IInv, NEW p \in Pages, Leave(p)
  PROVE  IInv'
<1>1. /\ page[p] = "open" /\ page' = [page EXCEPT ![p] = "gone"]
      /\ socket' = [k \in Kinds |->
                      IF socket[k][p] \in {"opening", "open", "lost"}
                      THEN socket[k] ELSE [socket[k] EXCEPT ![p] = "closing"]]
      /\ NoDecoder \/ UNCHANGED decoderVars
      /\ UNCHANGED seat
  BY DEF Leave
<1>2. /\ page' \in [Pages -> {"none", "open", "gone"}] /\ page'[p] = "gone"
      /\ \A q \in Pages : q # p => page'[q] = page[q]
  BY <1>1 DEF IInv, TypeOK
<1>3. /\ socket' \in [Kinds -> [Pages -> States]]
      /\ \A k \in Kinds, q \in Pages : q # p => socket'[k][q] = socket[k][q]
      /\ \A k \in Kinds : socket[k][p] \in {"open", "lost"} =>
           socket'[k][p] = socket[k][p]
  BY <1>1 DEF IInv, TypeOK, States
<1>4. TypeOK' /\ Uncounted'
  BY <1>1, <1>2, <1>3, NothingCounted DEF IInv, TypeOK, Uncounted, States
<1>5. Unborn'
  BY <1>2, <1>3 DEF IInv, Unborn
<1>6. Seated'
  BY <1>1, <1>2, <1>3 DEF IInv, Seated
<1> QED
  BY <1>4, <1>5, <1>6 DEF IInv

(* A connection is lost.                                                   *)
LEMMA Losing ==
  ASSUME IInv, NEW k \in Kinds, NEW p \in Pages, LinkLost(k, p)
  PROVE  IInv'
<1>1. /\ socket' \in [Kinds -> [Pages -> States]] /\ socket'[k][p] = "lost"
      /\ \A l \in Kinds, q \in Pages :
           l # k \/ q # p => socket'[l][q] = socket[l][q]
  BY OneSocket DEF IInv, LinkLost, States
<1>2. /\ page[p] = "open" /\ UNCHANGED <<page, seat>>
      /\ NoDecoder \/ UNCHANGED decoderVars
  BY DEF LinkLost
<1>3. TypeOK' /\ Uncounted'
  BY <1>1, <1>2, NothingCounted DEF IInv, TypeOK, Uncounted, States
<1>4. Unborn'
  BY <1>1, <1>2 DEF IInv, Unborn
<1>5. Seated'
  BY <1>1, <1>2 DEF IInv, Seated
<1> QED
  BY <1>3, <1>4, <1>5 DEF IInv

-----------------------------------------------------------------------------
(* Steps of the decoder leave pages and seats alone.                       *)

(* The decoder takes chunks and gives pictures.                            *)
LEMMA Decoding ==
  ASSUME IInv,
         \/ \E unit \in {"sets", "key", "delta"} : OnMessage(unit)
         \/ Output \/ Blank \/ DecoderError
  PROVE  IInv'
<1>1. UNCHANGED <<page, socket, seat>>
  BY DEF OnMessage, Output, Blank, DecoderError
<1>2. /\ queued \in Nat /\ blank \in Nat /\ MaxQueued \in Nat
      /\ MaxBlank \in Nat /\ queued <= MaxQueued /\ blank <= MaxBlank
      /\ decoder \in {"unconfigured", "configured", "closed"}
      /\ pending \in Nat
      /\ decoder = "configured" => pending <= queued + blank
      /\ decoder # "configured" => pending = 0
  BY BoundsAssumption DEF IInv, TypeOK, Uncounted
<1>3. /\ decoder' \in {"unconfigured", "configured", "closed"}
      /\ queued' \in 0..MaxQueued /\ blank' \in 0..MaxBlank
      /\ decoder' = "configured" => pending' \in 0..(queued' + blank')
      /\ decoder' # "configured" => pending' = 0
  <2>1. ASSUME NEW unit \in {"sets", "key", "delta"}, OnMessage(unit)
        PROVE  <1>3!:
    BY <1>2, <2>1 DEF OnMessage
  <2>2. CASE Output
    BY <1>2, <2>2 DEF Output, OneLess
  <2>3. CASE Blank
    BY <1>2, <2>3 DEF Blank
  <2>4. CASE DecoderError
    BY <1>2, <2>4 DEF DecoderError
  <2> QED
    BY <2>1, <2>2, <2>3, <2>4
<1>4. TypeOK' /\ Uncounted'
  BY <1>1, <1>3 DEF IInv, TypeOK, Uncounted
<1>5. Unborn' /\ Seated'
  BY <1>1 DEF IInv, Unborn, Seated
<1> QED
  BY <1>4, <1>5 DEF IInv

-----------------------------------------------------------------------------

(* Every step keeps the invariant.                                         *)
LEMMA Inductive == IInv /\ [Next]_vars => IInv'
<1> SUFFICES ASSUME IInv, [Next]_vars PROVE IInv'
  OBVIOUS
<1>1. CASE UNCHANGED vars
  BY <1>1 DEF IInv, TypeOK, Uncounted, Unborn, Seated, vars, decoderVars
<1>2. ASSUME NEW p \in Pages, Load(p) \/ Leave(p) \/ Retry(p) PROVE IInv'
  BY <1>2, Loading, Going, Waiting DEF Kinds
<1>3. ASSUME NEW p \in Pages, NEW k \in Kinds,
             LinkLost(k, p) \/ OnClose(k, p) \/ Server(k, p)
      PROVE  IInv'
  <2>1. CASE LinkLost(k, p)
    BY <2>1, Losing
  <2>2. CASE OnClose(k, p) \/ Refuse(k, p)
    BY <2>2, Waiting
  <2>3. CASE Accept(k, p)
    BY <2>3, Taking
  <2>4. CASE Vacate(k, p)
    BY <2>4, Leaving
  <2> QED
    BY <1>3, <2>1, <2>2, <2>3, <2>4 DEF Server
<1> QED
  BY <1>1, <1>2, <1>3, Decoding DEF Next

(* The inductive invariant holds in every behaviour of Viewers.            *)
THEOREM Invariance == Spec => []IInv
  BY Initially, Inductive, PTL DEF Spec

(* Every variable has its type, and pendingDecode never counts more than   *)
(* what the decoder holds or has left without a picture.                   *)
THEOREM TypeCorrect == Spec => []TypeOK
<1>1. IInv => TypeOK
  BY DEF IInv
<1> QED
  BY <1>1, Invariance, PTL

(* A page that is connected has the seat: index.ts never lets two pages    *)
(* share a stream, and frees a seat only for the page that had it.         *)
THEOREM SeatsOwned == Spec => []Seated
<1>1. IInv => Seated
  BY DEF IInv
<1> QED
  BY <1>1, Invariance, PTL

(* Two chunks without a picture do not make app.js drop the delta frames   *)
(* of an idle decoder.                                                     *)
THEOREM DeltasAccepted == Spec => []DeltasPass
<1>1. IInv => DeltasPass
  <2> SUFFICES ASSUME IInv, decoder = "configured", queued = 0, blank <= 2
               PROVE  ~Congested
    BY DEF DeltasPass
  <2> QED
    BY BoundsAssumption DEF IInv, TypeOK, Congested
<1> QED
  BY <1>1, Invariance, PTL
=============================================================================
