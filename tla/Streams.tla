------------------------------ MODULE Streams ------------------------------
(***************************************************************************)
(* What travels between IpcBridge and the Node server, and how each side   *)
(* cuts it back into messages.  A run is about one of four streams:        *)
(*   "video"   frames behind a length (queue_video, LengthPrefixedReader)  *)
(*   "audio"   packets (queue_audio, parseAudioPacket)                     *)
(*   "status"  lines of JSON from the handler (emit_control, BridgeClient) *)
(*   "touch"   lines of JSON to the handler (sendTouch, bridge_read_loop)  *)
(*                                                                         *)
(* A message is a row of Size cells, which the sender writes and the       *)
(* receiver reads in chunks of any length.  A cell is a piece of message   *)
(* that matters to a parser as a whole: the first is the length of a video *)
(* frame, or 19 of the 20 header bytes of an audio packet; the last one of *)
(* a line is its newline.  Connections come and go (modules IpcBridge and  *)
(* ServerLink); the receiver's buffer outlives them.                       *)
(***************************************************************************)
EXTENDS Integers, Sequences, FiniteSets

CONSTANTS
    Size,        \* cells of a message
    MaxFrame,    \* the 10,000,000 of LengthPrefixedReader, in cells
    Capacity,    \* cells that the kernel buffers on a connection (bound)
    MaxMessages, \* messages ever sent (bound)
    MaxCuts      \* connections ever lost (bound)

ASSUME SizeAssumption ==
    Size \in Nat /\ Size >= 2 /\ MaxFrame \in Nat /\ MaxFrame >= Size
ASSUME BoundAssumption ==
    Capacity \in Nat /\ MaxMessages \in Nat /\ MaxCuts \in Nat

Cell == (1..MaxMessages) \X (1..Size)  \* <<message, place in it>>

VARIABLES
    kind,      \* the stream
    action,    \* what a touch gives as its action: a word or a number
    misread,   \* the length that bytes which are not a length read as
    connected,
    next,      \* the message being sent, or to be sent next
    pos,       \* cells of it already written
    pipe,      \* cells written and not yet read
    buffer,    \* LengthPrefixedReader.buffer, lineBuf or line_buf
    up,        \* no exception has ended the receiver
    applied,   \* messages passed on by the receiver, as they were cut out
    cuts,      \* connections lost
    got,       \* history: the cells read
    torn,      \* history: connections lost in the middle of a message
    aligned    \* history: every chunk read was exactly one message

fixed == <<kind, action, misread>>
vars == <<fixed, connected, next, pos, pipe, buffer, up, applied, cuts, got,
          torn, aligned>>

Init ==
    /\ kind \in {"video", "audio", "status", "touch"}
    /\ action \in {"word", "number"} /\ (action = "word" => kind = "touch")
    /\ misread \in 0..(MaxFrame + 1) /\ (misread > 0 => kind = "video")
    /\ connected = TRUE
    /\ next = 1 /\ pos = 0
    /\ pipe = <<>> /\ buffer = <<>>
    /\ up = TRUE
    /\ applied = <<>>
    /\ cuts = 0 /\ torn = 0 /\ got = <<>> /\ aligned = TRUE

-----------------------------------------------------------------------------
(* The sender.                                                             *)

Write ==
    /\ connected /\ next <= MaxMessages /\ Len(pipe) < Capacity
    /\ pipe' = Append(pipe, <<next, pos + 1>>)
    /\ IF pos + 1 = Size
       THEN next' = next + 1 /\ pos' = 0
       ELSE next' = next /\ pos' = pos + 1
    /\ UNCHANGED <<fixed, connected, buffer, up, applied, cuts, got, torn,
                   aligned>>

(* A message that is never sent: dropped from a full queue, or given to    *)
(* enqueue() or sendTouch() while nobody is connected.                     *)
Skip ==
    /\ pos = 0 /\ next <= MaxMessages
    /\ next' = next + 1
    /\ UNCHANGED <<fixed, connected, pos, pipe, buffer, up, applied, cuts, got,
                   torn, aligned>>

(* Everything in flight is lost; what the receiver may still read of it is *)
(* read before this step. The rest of a message is given up; only          *)
(* write_all can go on with it, when the new connection gets the number of *)
(* the old one.                                                            *)
Disconnect ==
    /\ connected /\ cuts < MaxCuts
    /\ connected' = FALSE
    /\ cuts' = cuts + 1
    /\ torn' = IF pos > 0 \/ buffer # <<>> THEN torn + 1 ELSE torn
    /\ pipe' = <<>>
    /\ \/ pos > 0 /\ next' = next + 1 /\ pos' = 0
       \/ (pos = 0 \/ kind # "touch") /\ UNCHANGED <<next, pos>>
    /\ UNCHANGED <<fixed, buffer, up, applied, got, aligned>>

Reconnect ==
    /\ ~connected
    /\ connected' = TRUE
    /\ UNCHANGED <<fixed, next, pos, pipe, buffer, up, applied, cuts, got,
                   torn, aligned>>

-----------------------------------------------------------------------------
(* The receivers.  A parser returns the messages it passes on, and what it *)
(* keeps for the next chunk.                                               *)

Cut(out, rest) == [out |-> out, rest |-> rest]
From(b, i) == SubSeq(b, i, Len(b))

Message(n) == [i \in 1..Size |-> <<n, i>>]
Whole(u) == u # <<>> /\ u = Message(u[1][1])

(* What becomes of a message: parseVideoPayload wants 8 bytes, JSON.parse  *)
(* a whole line, and bridge_read_loop only looks for a number behind the   *)
(* first "action": strtod makes none of a word, and action stays -1.       *)
ParsesJson(u) == Whole(u)
HasAction(u) == action = "number"
Accepts(u) == CASE kind = "video" -> u # <<>>
                [] kind = "status" -> ParsesJson(u)
                [] kind = "touch" -> HasAction(u)
                [] OTHER -> TRUE
Pass(u) == IF Accepts(u) THEN <<u>> ELSE <<>>

(* LengthPrefixedReader.push, on the buffer with the new chunk.            *)
LengthOf(c) == IF c[2] = 1 THEN Size - 1 ELSE misread

FrameReader[b \in Seq(Cell)] ==
    IF b = <<>> \/ LengthOf(b[1]) > MaxFrame THEN Cut(<<>>, <<>>)
    ELSE LET n == LengthOf(b[1])
             more == FrameReader[From(b, n + 2)]
         IN IF Len(b) < 1 + n THEN Cut(<<>>, b)
            ELSE Cut(Pass(SubSeq(b, 2, n + 1)) \o more.out, more.rest)

OneFrame(b) ==  \* mutant
    IF b = <<>> \/ Len(b) < 1 + LengthOf(b[1]) THEN Cut(<<>>, b)
    ELSE Cut(Pass(SubSeq(b, 2, LengthOf(b[1]) + 1)),
             From(b, LengthOf(b[1]) + 2))
Frames(b) == FrameReader[b]

(* The loops over "\n" of BridgeClient and bridge_read_loop.               *)
Ends(b) == {i \in DOMAIN b : b[i][2] = Size}
FirstEnd(b) == CHOOSE i \in Ends(b) : \A j \in Ends(b) : i <= j

LineReader[b \in Seq(Cell)] ==
    IF Ends(b) = {} THEN Cut(<<>>, b)
    ELSE LET more == LineReader[From(b, FirstEnd(b) + 1)]
         IN Cut(Pass(SubSeq(b, 1, FirstEnd(b))) \o more.out, more.rest)

KeepNothing(b) == Cut(LineReader[b].out, <<>>)  \* mutant
OneLine(b) ==  \* mutant
    IF Ends(b) = {} THEN Cut(<<>>, b)
    ELSE Cut(Pass(SubSeq(b, 1, FirstEnd(b))), From(b, FirstEnd(b) + 1))
Lines(b) == LineReader[b]

(* parseAudioPacket looks at the start of one chunk and keeps nothing.  A  *)
(* chunk that starts inside a packet has any bytes for a header: it is     *)
(* refused, or taken for a packet.  The result is a set of possible ones.  *)
(* 19 bytes pass the length test and make readUInt32BE(16) throw: so does  *)
(* the first cell of a packet alone, and so may any other cell.            *)
ShortPacket(chunk) == {Cut(<<chunk>>, <<>>)}  \* mutant
Packet(chunk) ==
    IF chunk[1][2] = 1
    THEN IF Len(chunk) = 1 THEN {}
         ELSE IF Len(chunk) < Size THEN {Cut(<<>>, <<>>)}
         ELSE {Cut(Pass(SubSeq(chunk, 1, Size)), <<>>)}
    ELSE {Cut(<<>>, <<>>), Cut(Pass(chunk), <<>>)}
Throws(chunk) == kind = "audio" /\ Len(chunk) = 1

Parse(chunk) == CASE kind = "video" -> {Frames(buffer \o chunk)}
                  [] kind = "audio" -> Packet(chunk)
                  [] OTHER -> {Lines(buffer \o chunk)}

Read(k) ==
    LET chunk == SubSeq(pipe, 1, k)
    IN /\ up
       /\ pipe' = From(pipe, k + 1)
       /\ \/ \E r \in Parse(chunk) :
               /\ buffer' = r.rest
               /\ applied' = applied \o r.out
               /\ UNCHANGED up
          \/ Throws(chunk) /\ up' = FALSE /\ UNCHANGED <<buffer, applied>>
       /\ got' = got \o chunk
       /\ aligned' = (aligned /\ Whole(chunk))
       /\ UNCHANGED <<fixed, connected, next, pos, cuts, torn>>

-----------------------------------------------------------------------------

Done == next > MaxMessages /\ pipe = <<>> /\ UNCHANGED vars

Next == \/ Write \/ Skip \/ Disconnect \/ Reconnect
        \/ \E k \in 1..Len(pipe) : Read(k)
        \/ (Done \/ ~up) /\ UNCHANGED vars

Spec == Init /\ [][Next]_vars

-----------------------------------------------------------------------------
(* Properties.                                                             *)

(* Every variable has its type, and the receiver of lines never holds back *)
(* a line that is complete.                                                *)
TypeOK ==
    /\ kind \in {"video", "audio", "status", "touch"}
    /\ action \in {"word", "number"} /\ misread \in 0..(MaxFrame + 1)
    /\ connected \in BOOLEAN /\ up \in BOOLEAN /\ aligned \in BOOLEAN
    /\ next \in 1..(MaxMessages + 1) /\ pos \in 0..(Size - 1)
    /\ pos > 0 => next <= MaxMessages
    /\ pipe \in Seq(Cell) /\ Len(pipe) <= Capacity
    /\ buffer \in Seq(Cell) /\ got \in Seq(Cell)
    /\ applied \in Seq(Seq(Cell))
    /\ cuts \in 0..MaxCuts /\ torn \in 0..cuts
    /\ kind \in {"status", "touch"} => Ends(buffer) = {}

(* The bytes of messages as the receiver passes them on, and the messages  *)
(* of which the last byte was read.                                        *)
Content(n) == IF kind = "video" THEN Tail(Message(n)) ELSE Message(n)
Ended(b) == {b[i][1] : i \in Ends(b)}
Arrived == Ended(got)

(* s holds exactly the messages ms, each once, whole and in order.         *)
Delivers(s, ms) ==
    /\ {s[i] : i \in DOMAIN s} = {Content(n) : n \in ms}
    /\ \A i, j \in DOMAIN s : i < j => s[i][1][1] < s[j][1][1]

(* However the bytes of frames and lines are cut into chunks, and whatever *)
(* is dropped or lost between messages, the receiver passes on exactly the *)
(* messages that arrived, each once, whole and in order, and keeps less    *)
(* than a message, the bytes read last, as long as no connection was lost  *)
(* in the middle of one.                                                   *)
Reassembled ==
    (torn = 0 /\ kind # "audio" /\ action = "number") =>
      /\ Delivers(applied, Arrived)
      /\ Len(buffer) < Size /\ Len(buffer) <= Len(got)
      /\ buffer = From(got, Len(got) - Len(buffer) + 1)

(* A stream of lines finds its way back by itself: a connection lost in    *)
(* the middle of a line, whose beginning the receiver keeps for the next   *)
(* connection, costs or garbles one line and no more.                      *)
Complete ==
    {n \in 1..MaxMessages :
       \A i \in 1..Size : \E j \in DOMAIN got : got[j] = <<n, i>>}
Lost == {n \in Complete : \A i \in DOMAIN applied : applied[i] # Message(n)}
Garbled == {i \in DOMAIN applied : ~Whole(applied[i])}
Resynchronises ==
    (kind \in {"status", "touch"} /\ action = "number") =>
      /\ Cardinality(Garbled) <= (IF kind = "status" THEN 0 ELSE torn)
      /\ Cardinality(Lost) <= torn

(* Audio packets are not put together again: only the first packet of a    *)
(* chunk is looked at.  What is passed on from a chunk that begins with a  *)
(* packet is that packet, whole; and none is lost, and nothing thrown, if  *)
(* the chunks happen to be the packets.                                    *)
AudioByChunk ==
    kind = "audio" =>
      /\ \A i \in DOMAIN applied : applied[i][1][2] = 1 => Whole(applied[i])
      /\ aligned => up /\ Delivers(applied, Arrived)

(* "Touch events from the browser come back through the bridge socket as   *)
(* JSON lines, get parsed by IpcBridge::bridge_read_loop and dispatched to *)
(* the InputSource channel" (README.md:159-161): each one that arrives on  *)
(* an undisturbed connection is.  The browser sends the words "down",      *)
(* "move" and "up" (app.js:167-172), and the server passes them on.        *)
TouchDispatched ==
    kind = "touch" /\ torn = 0 =>
      \A n \in Arrived : \E i \in DOMAIN applied : applied[i] = Message(n)
=============================================================================
