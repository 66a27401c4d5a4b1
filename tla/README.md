# TLA+ specifications of WHUTFA

WHUTFA turns a Raspberry Pi into an Android Auto head unit whose display is a
browser. Two programs run side by side, started by `scripts/entrypoint.sh`:

- `aa-handler` (C++) talks to the phone over USB with the aasdk library and
  hands video, audio and state to four Unix sockets;
- the Node `server` reads those sockets and serves a browser front end over
  HTTP and WebSockets.

The specifications beside this file describe the parts of these programs
where order matters: threads, sockets that come and go, timers, posted
handlers, retries, streams cut into chunks. They are checked with TLC on small
instances. The safety properties of all of them, the bridge, the session and its
service channels, the runner, the server links, the streams and the seats, are
proved with TLAPS for all values of their constants, and so are two refinements:
a socket of the bridge is the channel its header promises, and a session is what
the runner takes it to be.

## Inventory

| Component | State | Operations | Talks to |
|---|---|---|---|
| IpcBridge (`aa-handler/src/ipc_bridge.*`) | four listening sockets, one client descriptor and one bounded queue each, drop counters, `running_` | `start`, `stop`, `emit_control`, `queue_video`, `queue_audio`; nine threads: accept and send per socket, one reader | producers on the io thread; the server through the sockets; the touch callback of the session |
| Session, ControlHandler, Pinger (`aa/Session.cpp`) | `active`, `quit_triggered_`, timer, promise, ping counts, the handlers posted on the control strand | `start`, `stop`, one handler per control message, ping rounds | phone through aasdk; IpcBridge |
| VideoSink, AudioSink, InputSource, SensorSource (`aa/Session.cpp`) | media session id, touch pointer count | open, setup, start, stop, media, focus, key binding, sensor start, touch | phone through aasdk; IpcBridge |
| Runner (`aasdk_runner.cpp`) | current hub, current session, `g_active_session`, `g_shutdown` | `start`, `startHub`, `onDevice`, `scheduleRestart`, `on_signal` | libusb, Session, io_service |
| stub handler, entry point, configuration (`stub_handler.cpp`, `main.cpp`, `config.cpp`) | none that lasts | produce test frames, parse the configuration | IpcBridge |
| Server links (`server/src/unix-socket.ts`, `bridge-client.ts`) | the socket, pending timers | connect, `error`, `close`, `data` | listeners of IpcBridge |
| Stream framing (`stream-buffer.ts`, `ipc-framing.ts`) | bytes of an unfinished frame | push, read frames, parse and format headers | server links, WebSockets |
| Status (`status.ts`) | the status the browser polls | apply an event | BridgeClient |
| HTTP and WebSocket server (`index.ts`, `auth.ts`) | one video and one audio slot, the control clients | upgrade, broadcast, touch forwarding | browser, server links |
| server configuration, stub feeder (`config.ts`, `stub-feeder.ts`) | none that matters | read YAML, write fixtures | HTTP server |
| Front end (`frontend/*.js`) | decoder, pending frames, audio clock | feed, decode, touch | WebSockets |
| `scripts/entrypoint.sh` | two process ids | start both, end both when one ends | |

What is hard, and what would make each part correct:

- **IpcBridge.** Several threads share a descriptor that any of them may
  close while another blocks in a system call on its number. Two of them sleep
  on one condition variable that `enqueue` notifies only once. `stop` joins
  threads that may be asleep in four different calls. Correct means: no lost
  wakeup, the newest packets kept in order and drops accounted for, no
  descriptor leaked or closed for a socket it does not belong to, nothing
  written to a stranger's connection, `stop` returns.
- **Session.** Handlers run one at a time, but continuations are posted, so
  each may find the session already ended. Correct means: exactly one
  `receive` outstanding, exactly one keepalive round, the end reported once, a
  silent phone dropped, nothing after `stop`.
- **Service channels.** The same, per channel, with acknowledgements of media.
- **Runner.** Object lifetimes: strands, channels and timers outlive the
  session that owns them, a callback runs on another thread. Correct means:
  one hub at a time, a phone plugged in again is picked up, one active session.
- **Server links.** Node delivers `error` and `close`; a missing file and a
  refusal must lead to another attempt, and to one only.
- **Streams, status, slots, decoder.** State that outlives the connection it
  came from; order of packets; counters at their limit. Correct means: messages
  come out as they went in, however they are cut; the browser is told what is
  true of the session; a page that waits for the picture gets it; the decoder
  is not starved by a counter.

The hazards, each at its line, are listed in `PROJECT.json`.

## Modules

| Module | Models | Abstract state |
|---|---|---|
| `IpcBridge`, `MCIpcBridge`, `IpcBridgeProofs` | `aa-handler/src/ipc_bridge.*` | sockets, descriptor table, queues, program counters of the threads |
| `DropOldest` (its proofs are in `IpcBridgeProofs`) | what a socket of IpcBridge promises its producers (abstract) | packets accepted, held, left |
| `Streams`, `StreamsProofs` | what IpcBridge writes and reads, `stream-buffer.ts`, `ipc-framing.ts`, the data callbacks of the server | cells in flight, the receiver's buffer |
| `Session`, `SessionProofs` | Session, ControlHandler, Pinger of `aa/Session.cpp`; `applyControlEvent` | handlers posted on the control strand, keepalive, phone |
| `ServiceChannel`, `ServiceChannelProofs` | VideoSink, AudioSink, InputSource, SensorSource of `aa/Session.cpp` | one channel of any kind, sends in flight, phone |
| `Runner`, `RunnerProofs` | `aasdk_runner.cpp`, the choices of `main.cpp` | hub, sessions that exist, are current, or are gone with work left, the way of main |
| `ServerLink`, `ServerLinkProofs` | `unix-socket.ts`, `bridge-client.ts` and the listener they connect to | connections, pending retries |
| `Counting` | nothing of the code: how many elements of a sequence are in a set, with the lemmas both proofs about strands need | |
| `Viewers`, `ViewersProofs` | the upgrade handler of `index.ts`, connections and decoder of `app.js` | pages, their sockets, the seats, the decoder |

They are put together in two ways. `IpcBridge` instantiates `DropOldest` once
for each socket (`Channel`, with `Implements` as the refinement), and `Session`
instantiates `Runner` with one session (`R`, with `RunnerSession`): what a
session does is something `Runner` expects. `Streams` and `Viewers` take the
connections of `ServerLink` and the drops of `IpcBridge` as steps that may
happen at any time.

Every definition that stands for code is listed with its lines in
`PROJECT.json` under `map`; definitions marked `\* mutant` are deliberately
wrong variants of the definition that follows, used to show that a property
can fail.

### IpcBridge

State. `client`, `queue`, `running`, `dropped` are the fields of the same name.
The kernel is explicit: `fdtab` maps descriptor numbers to connections, lowest
free number first and reused after `close`, because the code keeps numbers
across unlocks. `apc`, `spc`, `rpc` are the program counters of the accept,
send and reader threads; `stopPc` and `stopAt` of `stop()`. `snd` and `rdr` are
what the threads hold in local variables: `snd[s].fd` is the number copied
under the lock, `snd[s].conn` the connection a blocked `write` really waits on.
`accepted`, `taken`, `shut`, `wire` are history.

Actions. Each is what a thread does between two points where another can
interfere: a critical section of `Socket::mu` (`Enqueue`, `AcceptInstall`,
`SenderTake`, `SenderFailed`, `ReaderTake`, `StopClient`) or one system call
outside it (`AcceptReturn`, `WriteDone`, `WriteBlock`, `WriteResume`,
`WriteShort`, `WritePipe`, `WriteBadFd`, `ReadData`, `ReadEnd`). `Connect` and
`PeerClose` are the Node server.

Abstractions. A packet is a number and may be split at most once by a blocked
write. `shutdown` and `close` of a client are one step. Short counts caused by
signals are left out. The descriptors of listeners are outside `Fds`. A call of
`enqueue` without a client changes nothing and is not a step. Producers and
`stop()` share a thread, as in `run_aasdk_handler`. The model starts when
`start()` has succeeded (`BootFails` of `Runner` is the other case). What the
packets and the touch lines say is the matter of `Streams`.

### DropOldest

The promise of `ipc_bridge.hpp:44`, "non-blocking, drops on backpressure",
without threads, descriptors and clients: `Offer` is always possible and keeps
the newest packets, `Deliver` and `Lose` take the oldest. A socket maps to it
with `held` as its queue and the packet in the hands of its sender, `left` as
what has begun to be written on any connection. A packet is lost in two ways: it is
one of the oldest of a full queue, or the write of it fails before its first byte.

### Streams

One of the four streams, chosen initially by `kind`. A message is a row of
cells, a cell being what a parser looks at as a whole: the length of a frame,
the 19 bytes that decide about an audio packet, the newline of a line. The
sender writes cell by cell, the receiver reads any prefix of what is in flight,
so every way to cut the bytes into chunks is covered. `Skip` is a drop of
`enqueue` or of `sendTouch`, `Disconnect` and `Reconnect` are connections that
are lost and come back, while `buffer` outlives them as `LengthPrefixedReader`,
`lineBuf` and `line_buf` do. `misread` is what a frame reader makes of bytes
that are not a length; a chunk of audio that begins inside a packet may parse as
anything. `action` is what the browser sends as the action of a touch: it sends
words; "number" is what the handler expects, and lets the properties of lines be
asked of the touch stream too. `FrameReader` and `LineReader` are the loops of
the parsers as recursive functions; `Parse` is what is called with a chunk, and
`Pass` what becomes of a message that was cut out.

One connection is there at a time. After a refusal `connectUnixSocket` can have two
(see ServerLink), and Node may read the end of the older after the beginning of the
newer, into the same reader: what the reader makes of that is not covered.

`AudioByChunk` says what is right of audio, the first packet of a chunk and chunks
that are packets. It does not say that nothing is lost or thrown otherwise, because
the code loses and throws.

### Session

State. `posted` is the control strand: a promise that is resolved does not
call its continuation but posts it, so a decision can be stale when it is
executed. `timer`, `cancelled`, `promise` are the fields of the Pinger;
`unanswered` is `pings_ - pongs_`, which is all the code reads. `receives` and
`sending` are calls that aasdk has not answered, `stage`, `phone`, `owed` the
phone.

Actions. One per event handler of ControlHandler, `Start`, the timer, the
continuations of `schedulePing`; `TriggerQuit` contains the `on_quit` callback
and with it `Session::stop`. The environment delivers messages in protocol
order, fails receives and sends, falls silent, or is unplugged. `on_signal` runs
beside the handlers in the steps of its lines (`SignalFlag`, `SignalLock`,
`SignalStop`, `SignalHalt`): `io` is how far it is. `Session::stop` called there runs
the cancels of the timer at once, if the signal interrupts the io thread, or posts
them (`CancelRuns`), and the io thread goes on until the io_service is stopped.

Abstractions. Sends in flight without consequence are a set of kinds.
Continuations that would do nothing (aborted, already in progress) are not
posted. The transport delivers nothing after `stop()` (`Carries`: on the thread of a
signal, which stops it after `active` is cleared, a moment later). One signal is
handled, after `start()` has returned; `Runner` has the rest. "focus" and "note" stand
for several messages with the same handler shape.

What others see. `View` folds `applyControlEvent` of `status.ts` over the events
emitted, as `BridgeClient` does when none is dropped on the way; only
`session_active` is kept. `R` maps the session to `Runner`: `keepalive` is
computed from `promise`, `timer`, `cancelled` and the continuations posted;
`waiting` from receives, sends and everything else that is posted.

### ServiceChannel

The four sinks and sources share nothing but the session, so the module has
one channel whose `kind` is chosen initially. `posted` and `out` are its strand
and its sends in order. `unacked` is the phone's list of frames without an
ack, each with the media session it was sent in. Driving status and night mode
have the same handler shape and are both "driving". Pixel coordinates and
contents of messages are left out. `stop()` and a broken link may come at any
time; what a broken link does to the session is the matter of `Session`.

### Runner

`session[n]` is the life of the n-th Session object: new, active, ended, gone.
`keepalive[n]` and `waiting[n]` are the work that outlives it, because posted
handlers hold the ControlHandler and not the Session; they abstract the state
of `Session`, which implements them (the count of pings is left open, so a
keepalive may last longer here than there).

`onDevice` is split where a signal or a touch can come between: `device` is the
time from its entry to the publication of the new Session (lines 151-153, where
`AOAPDevice::create` may throw), `starting` from there to the return of `start()`.
It tests `g_shutdown` only at its end, so both go on after a signal. `touching` is
the reader thread between locking the weak pointer and dispatching on the strand.

`signal` is how far `on_signal` is: it has set `g_shutdown`, locked
`g_active_session` (`caught`), called `Session::stop`, stopped the io_service
(`halted`). It may run on any thread, hence beside the handlers, and come again;
one is handled at a time (bound). While it has a session in hand, a session that
`onDevice` drops does not go (`Kept`) before it lets go of it (`Released`).
`missed`, a history variable, holds the sessions that were not created when it
locked the pointer, or not started when it called `stop()`.

`main` is the way of the main thread: "boot" (before `run_aasdk_handler` installs
its handler), "stub" and "failed" (the two ways not to get there), "run" in the
io_service, then "usb", "ipc" and "exit" for what it stops next, "returned".
`usb` is the libusb event thread, of which only the end matters.

### ServerLink

One of the two clients of the server, chosen by `kind`, with Node's event order:
a failed connection gives `error` and later `close`, any other end a `close`. The
`error` callback destroys whatever `socket` is (`Destroyed`), which may be another
attempt; if that one was refused too, in the same turn of the loop, it gives only
its `close`.
`timers` counts pending `setTimeout(connect)`. Delays and the backoff of
BridgeClient are abstracted (a timer runs some time later). `existsSync` and
`connect` are one step: a file that vanishes in between has the effect of a
refusal. Stop functions, which the server never calls, are left out.
Identities of connections are reused when closed, so the run is finite without
a bound on reconnections.

`connectUnixSocket` schedules a retry in `error` and again in the `close` that
follows. `RetryChains` states the effect exactly: each `error` event adds an attempt
for good, and a refused attempt that the `error` of another one destroyed adds none.
Two such connections make the handler close one another, every half
second, so `Settles` fails for it after one `error`; `BridgeSettles` claims it
for `BridgeClient` only, and `ComesBack` for both.

### Viewers

`page`, `socket` and `seat` are the browser pages, their two web sockets as the
page sees them, and `activeVideoWs` and `activeAudioWs`. A page that is loaded
again is another page; its old connection closes some time later. A page that is
refused the video asks again (`Retry`); one that is refused the audio does not,
because `connectAudio` has no `onclose`. `decoder`, `queued` and `pending` belong
to the page that has the video seat: `pending` is `pendingDecode`, `queued` what
the decoder really holds, `blank`, a history variable, what it consumed without
giving a picture. Decoding itself, tokens and the input socket are left out.

## Runs

| Run | Shows | Bounds |
|---|---|---|
| `ipc_queue` | types, no lost wakeup, newest kept, order on the wire, drops of this socket accounted for (sockets that share a counter: `DropsCounted`, below); the socket implements `DropOldest`; a packet is taken while a client stays (`Drained`); `stop()` returns | the bridge socket, which alone has two threads on one condition variable; 2 clients (one replaces the other), queue of 2, 3 packets: one drop and one packet behind it |
| `ipc_fds` | clients own their descriptors, none leaks | 2 sockets, 3 connections, 4 numbers: every number is reused across sockets |
| `ipc_crosstalk` | **violation**: a packet written to a stranger's connection | as above |
| `ipc_sigpipe` | **violation**: the write to a client that was replaced kills the handler under the client that replaced it | 1 socket, 3 connections |
| `session` | one receive, one keepalive round, idle once, the server shows what is true, a silent phone dropped, the keepalive ends, the session is one of `Runner` | the code's own limit of 4 unanswered pings; nothing else needs a bound |
| `service_channel` | never deaf, one ack per frame under its media session, the phone is answered | 2 media sessions (one boundary between them), 3 sends in flight |
| `runner` | one hub, no stale "idle", a signal stops the session but in the cases below; a hub listens again and again, a signal ends the program | 2 sessions: one made, started or replaced beside the signal, and the one before it; one signal at a time |
| `runner_strands` | **violation**: strands destroyed before what uses them | 2 sessions |
| `server_link` | retries are never lost, the server comes back, BridgeClient settles | 3 `error` events, one competing program, 4 connections at a time: after the first `error` two attempts can be refused together, and the third is delivered or silenced |
| `streams` | frames and lines come out whole, once and in order; a torn line costs one line; audio is right where chunks are packets | 3 messages of 3 cells (first, middle, last), 4 cells in flight so that a chunk spans two messages, 2 lost connections: one inside a message and one after it |
| `touch_dropped` | **violation**: a touch that arrived is not dispatched | as above |
| `viewers` | no seat shared or lost, a waiting page is served, delta frames pass an idle decoder | 3 pages: one seated, one waiting, one gone; 3 chunks in the decoder and 3 without a picture, the first numbers at which `pendingDecode > 2` matters |

The violation runs each check one statement of the code's documentation that
the code does not keep; `PROJECT.json` quotes it under `findings`.

Two properties describe exceptions exactly, since the code has them.
`ViewFollows`: a discovery request queued behind a ping timeout makes the server
show an ended session as active. `SignalStops`: a session that `onDevice` creates
after `on_signal` has locked `g_active_session`, or starts after it has called
`stop()`, is not stopped, nor is one when a later session threw in `start()` and
has left `g_active_session` empty. In `Session` the keepalive of a stopped session may run on for a few
rounds, because `ping()` clears `cancelled_`; `KeepaliveEnds` says that it ends.
Deadlock is checked in every run but `viewers`, where all pages may be gone.

## Fairness

- IpcBridge: every thread keeps being scheduled. A peer that has a full buffer
  reads it (`WriteResume`). Once the handler stops, peers close their
  connections: `entrypoint.sh` ends the server when it is told to stop and when
  either child exits. (When an exception leaves the io_service, or a signal is sent to
  the handler alone, the server is still there while the handler stops: then
  `StopTerminates` rests on Node closing the connections that `stop()` shuts.) Spurious wakeups, data from the peer and new connections
  are never required.
- Session: the io thread runs posted handlers and timers expire. Nothing is
  required of the phone, and no send or receive must complete or fail.
- ServiceChannel: the io thread runs handlers; a working link carries what is
  sent.
- Runner: the enumeration ends, timers expire, `onDevice` and `on_signal` return. A
  touch returns, `handleEvents` returns at the latest after a minute, and main does
  its next step. The join of the reader thread is strongly fair: the thread tests
  `running_`, which is already false, so touches cannot go on for ever
  (`StopTerminates` of IpcBridge has the reasons). So is the return of main, which
  signals may interrupt, but do not keep from its next line.
- ServerLink: Node runs due timers and callbacks; the handler starts to listen
  and its accept thread runs.
- Viewers: the event loops of server and pages run. A closed or broken connection
  is noticed at last. `index.ts` sends no pings, so a connection that broke without a
  word is noticed only when something is sent on it: for that case the phone has to
  send video or audio, or TCP's keepalive be on. No page has to leave, and nothing is
  asked of the decoder.

## Proofs

`IpcBridgeProofs` proves, for any number of sockets, descriptors, connections
and packets and any queue bounds, from `SocketsAssumption` (the bridge is a
socket, `stop()` covers every socket), `QueueAssumption` (bounds are positive),
`FdsAssumption` and `ConnsAssumption`: `TypeOK`, `NoLostWakeup`, `NewestKept`,
`ConnsOwned`, `NoFdLeak`, `InOrder` and `Accounted`. The inductive invariant `IInv` is the
conjunction of these with

- `StopSequence`: the first step of `stop()` clears `running`, and no client is
  shut before. `NoLostWakeup` needs it: a thread that goes to sleep saw
  `running`, so its socket is still to be notified when `stop()` begins;
- `WireBehindQueue`: nothing on a connection is newer than the packet its
  sender is writing, nor that one than the last packet that left the queue.
  `InOrder` alone is not inductive, it says nothing of the packet to be written
  next. The position of the queue comes from `NewestKept`.

`Accounted` is proved on top of it, for any number of sockets that share a counter:
a sum over sockets is a cardinality (`LostOf`, a set of pairs), which grows by
one element where `enqueue` pops a packet, and `NewestKept` says that it never pops
more than one.

`NoFdLeak` rests on `ConnsOwned`: a step that closes the client of a socket
closes the number of that socket only. The proofs first state which actions
write which variables, then preserve each part of `IInv` separately.

It also proves `Implements`, on top of that invariant: the initial
state of a socket maps to that of `DropOldest`, and every step to one of its
steps or to none. A queue is an interval of packet numbers that ends with the
last one accepted (`NewestKept`), so `held` is computed by arithmetic. Two facts
carry the rest. `HandBeforeQueue`: the packet in the sender's hands is older than
every packet queued, so it is the oldest when it is written or lost; it follows
from `WireBehindQueue`. `HeadBegun`: the rest of a packet is written only after
its head, so the step that writes it is a stutter; it is an invariant of its own,
proved by the same case split.

`RunnerProofs` proves `TypeOK`, `OneHub`, `IdleOfCurrent` and `SignalStops` for
any number of sessions from `SessionsAssumption`. The parts that are added:

- `Ownership`: work is pending only for a session that was started, and one that
  was started and is not gone is the current one, or one that `on_signal` has in
  hand (`Kept`). Hence the session that can still lock its weak pointer when a
  left-over handler quits is one of these;
- `Latest`: `g_active_session` leads to the session created last, and an older
  active one exists only while the last is being started, after it threw, or while
  `on_signal` has one of the two in hand;
- `Heard`: from the lock of `on_signal` on, every session it has not in hand that may
  still be active later (`Ahead`: not created yet, or the last one, created or
  active) is in `missed`; from its `stop()` on, every session that is not created,
  not started, or the last one and active (`Left`) is in `missed`. With `Latest` this
  is `SignalStops`;
- `Asleep`: nothing listens before the start, without which `OneHub` would not
  survive it.

`Counting` counts the elements of a sequence that are in a set (`Count`), by the
cardinality of their places and so without recursion, and proves by how much the
number changes when an element is appended or the first is taken. What a strand
holds is counted that way in the next two modules.

`SessionProofs` proves `TypeOK`, `OneReceive`, `OneKeepalive`, `IdleOnce`,
`ViewFollows` and `RunnerSession` for any limit of unanswered pings and any number
of messages, from `UnansweredAssumption`. The parts of its `IInv` are:

- `OneToken`: the control channel is a token that is with the pending `receive()`,
  a message to handle, or the goodbye. An active session has it, unless an error
  is posted. `OneReceive` is what that says of `receive()`: it is not inductive
  itself, as it says nothing of the messages and the goodbye together;
- `OneRound`: the keepalive round is in its timer or posted, never twice, and is
  there while the session is active; with it go what `cancelled_`, the timer and
  the promise say of each other. `OneKeepalive` follows;
- `PingsLeft`: pongs that come are of pings that count, and a ping that is due may
  still be counted, which is what bounds `unanswered` after the end of a session,
  when `ping()` has cleared `cancelled_`;
- `Asked`: a message to handle is of the stage the phone is in, so that the handler
  of a late discovery request is the only one that emits after the end;
- `Story`: the events emitted are one of five sequences, depending on the stage and
  on whether the session has quit, and `EndTold`: an active session that ends has
  quit, or a signal stopped it. `Cancels`: a cancel that a signal has posted is
  of a session that it stopped. `IdleOnce` and `ViewFollows` are read
  off `Story`. The fold in `View` is shown to be what the last event that is not
  "video_config" says (`ShownAfter`), by exhibiting the function it chooses.

The lemmas are about what handlers have in common (`Replying`, `Quitting`, `Failing`,
...), and each handler is a case of one of them. `RunnerSession` is about steps only:
`Runner` creates a session on the way, not in its initial state. The refinement is proved step by step on top of
`IInv`: `Round` and `Waiting`, which `R` reads off the posted handlers, change in
a step as the keepalive and the work of the session of `Runner` do. `OneRound`
is what makes "the first round posted" be the only one, and `OneToken` with
`OneRound` is why a session that is active waits for something.

`ServiceChannelProofs` proves `TypeOK`, `Listening` and `AcksMatch` for a channel of
any kind and any number of media sessions, touches and sends, from
`BoundsAssumption`. To `OneToken`, as above, it adds:

- `Numbered` and `Current`: while the phone streams, `session_` is the media
  session it started last, or the start is the next thing to be handled, and no
  stop is left over. This is what `session_` has to be when a frame arrives;
- `Frames`: a frame that waits is of the session in `session_`, so the ack made of
  it carries the session of the frame;
- `Unacked`: as `max_unacked` is 1, at most one frame has no ack, and it waits or
  its ack is on its way, with its number. A send that fails breaks the equality but
  not the bound.

`Listening` holds of a channel whose messages could be parsed (`Sound`); the
token says why: `OnChannelError` is the one handler that does not call
`receive()`.

`ViewersProofs` proves `TypeOK`, `Seated` and `DeltasPass` for any number of pages
and any bounds, from `BoundsAssumption`. `Unborn` (a page not loaded yet has no
connection) keeps a new page from having a seat already, and `Uncounted` starts
`pendingDecode` at 0 when the decoder is configured.

`ServerLinkProofs` proves `TypeOK` and `RetryChains` for any number of connections,
`error` events and other programs, from `ConnsAssumption` (finitely many connections) and
`BoundsAssumption`. Their conjunction with `WithinBound` (the `error` events so far
and those that refused attempts may still bring are within the bound) is inductive:
the bound that `TypeOK` puts on the timers follows from the sum in `RetryChains`,
because no more connections are refused than live. `CountStep` says by how much a count over connections changes
when one of them changes state; each step is then arithmetic.

`StreamsProofs` proves `TypeOK`, `Reassembled`, `Resynchronises` and `AudioByChunk`
for messages of any size, any bounds and chunks of any length, from
`SizeAssumption` (a message has at least two cells and is not longer than the
longest frame) and `BoundAssumption`. It has three layers.

- The readers are recursive functions, so first they are shown to satisfy their
  own equations (`FrameEquation`, `LineEquation`). Lemma `Recursion` gives the
  function that a recursion on shorter and shorter sequences defines. Its
  induction, and every other one here, is a least counterexample (`Least`,
  `Shortest`), which rests on `WFMin` of the library: theorems of the library
  that take a predicate cannot be used by the installed provers.
- A sequence of cells *flows* when each cell continues the message of the one
  before it or begins a later message after an end, and it is *clean* when it also
  begins with a first cell. `CutRight` says what is right for a clean buffer:
  exactly the messages that end in it are passed on, and less than a message is
  kept. `FramesRight` and `LinesRight` prove it of both readers, with one
  induction for the two (`CleanCut`).
- `IInv` adds three parts to the properties. `Fresh`: what is in flight flows,
  and is of messages after all that arrived; every message passed on is new
  because of it. `InStep`: while no connection was lost inside a message, what the
  receiver holds and what it will see (`Sight`) are clean together. `Reassembled`
  says nothing of what is still in flight, so it is not inductive alone.
  `LinesLost`: lines lost plus `Debt` are at most the connections lost inside a
  message, where `Debt` is 1 while `Sight` is not clean. A lost connection opens
  the debt, the next newline closes it at the price of one line (`LinesBackInStep`),
  and no line is lost while there is none (`LinesInStep`); `Resynchronises` follows.

Only model-checked is all liveness (`Drained`, `StopTerminates`,
`SilentPhoneDropped`, `KeepaliveEnds`, `ComesBack`, `BridgeSettles`, `HubListens`,
`SignalEnds`, `PhoneAnswered`, `SeatTaken`), which is out of the prover's reach, as
is ENABLED.

## Not modelled, and why

- Configuration of both programs: straight-line parsing at start-up, without
  state that lasts.
- The fixture files of the stub handler, and the stub feeder: they produce test
  data; the calls of the stub handler are `Enqueue`.
- Static files, tokens, `/healthz`, `/api/status`: input and output and
  comparisons. Of the status only `session_active` is followed: the handler
  emits neither "error" nor "stats" events, and `usb_phase` is only displayed
  (it stays "session_active" after "idle").
- Rendering, the audio clock and bit-level H.264 parsing.
- `connectInput` of the browser but for what it sends: a page that loses the input
  connection does not open it again, and no document says it would.
- Container scripts: they start both processes and end both when one ends, which
  is used as fairness.
- Data races of the signal handler on a weak pointer and on mutexes. That on
  `listen_fd` is covered: any value the loop can read leads to `AcceptError`.

## Plan

Done, in this order: IpcBridge (the threads everything passes through, with its
proofs), Session, ServerLink (with its proofs), Runner (with its proofs),
ServiceChannel, Streams, DropOldest (with the refinement and its proof), Runner's
start and end, Session as an implementation of Runner, Viewers (with its proofs),
the proofs about Session and ServiceChannel, that Session implements Runner, and
the proofs about Streams.

What is left lies outside the models: that four bytes of a length, 19 of a header
and the text of a line may be taken for a cell is read off the code and not
proved; and `Streams` is put together with `IpcBridge` and `ServerLink` by the
steps it allows them, not in one module.
