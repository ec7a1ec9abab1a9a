# A formal model of motion-connectors

TLA+ modules, TLC configurations and TLAPS proofs about motion-connectors: its C++
libraries, the JavaScript connectors, the Python binding and the two command-line tools
whose loops are worth a model. The modules are written from the code; where a comment, a
header or a design document says something else than the code does, a run shows the
difference (see *Disagreements*).

## The system

motion-connectors turns what motion senders put on the wire into canonical motion frames.
Every connector is polled by its caller; there is no thread inside a library except where
a host puts a network thread in front of a `DatagramQueue`.

```
 sender --UDP--> UdpReceiver --(DatagramQueue)--> decoder --> assembler --> FrameBuffer --> Poll
 sender --TCP--> Tcp -> Rfc6455 -> Session -> Endpoint --> Connector (Wire) --> FrameBuffer --> Poll
 runtime (OpenXR, WebXR, MediaPipe) --Acquire---> sampling connector -------> FrameBuffer --> Poll
                                                                       C ABI --> Python ----------^
 motion_connect bridge: a connector or a capture --> FrameSender (Wire) --> Endpoint --> peers
```

### Inventory

| Component | State | Operations | What is hard | What makes it correct |
|---|---|---|---|---|
| Core `FrameBuffer` | deque, capacity, mode, statistics, a mutex | Push, Poll, Clear | three overflow rules | no frame lost uncounted, order, losses only as the mode allows |
| Transport `DatagramQueue` | datagrams, bytes, statistics, a mutex | Push, Drain, Clear, ResetStats | Drain moves datagrams outside the lock; two limits; one datagram over a limit alone | each datagram in one place, in order, within limits |
| Transport `UdpReceiver` | socket, clock epoch, last traffic, silence episode, statistics | Open, Close, Receive, ResetStats | retries against a deadline; poll/read race; silence across reopenings | silence told once and only when true; budget kept; counters agree |
| Transport `PacketCapture` | a file being written or read | write, read line by line | files edited by hand; gutter text that looks like structure | reads back as recorded |
| Osc, Vmc, Mocopi, VrchatOsc decoders | offset, nesting, what was decoded | decode | declared sizes that lie; a refusal in the middle | every byte read once, every argument as its form says, one identity per tracker |
| Vmc `FrameAssembler` | open frame, rig so far, last accepted time, stale marks | Push, Flush, Reset | frames end implicitly; duplicates, regressions, restarts | stream order, no rig or sample of an earlier session |
| Mocopi `FrameAssembler` | declared rig, last time and number, clock offset, a pending restart | Push, Reset | a restart is shown by a frame that is itself refused | announced once, read through its own rig |
| Mocopi `SkeletonMap` | a map | declare, map a frame | joints without a bone between joints with one | the pose a consumer composes is the device's |
| VrchatOsc `FrameAssembler` | open frame, last seen and last place per tracker, current peer | Push, Flush, Reset | no clock on the wire; peers change; trackers fall silent and come back | one report per silence, no session mixed with another |
| Vmc, Mocopi, VrchatOsc `Connector` | state, receiver, source, buffer, capture | Open, Close, Poll, push inputs, Flush, captures | replay inputs in any state; failed opens; back-pressure | the state promises no frame it cannot give; numbers account for losses |
| Tracking | nothing | assign, solve | trackers absent, repeated or silent above others | a held pose is the reported one |
| Wire | nothing | encode, decode, JSON text | limits on both sides; text that is not UTF-8 | what is written is read, what is accepted is reproduced |
| WebSocket `Tcp` | descriptors | connect, accept, read, write, close, move | descriptors are handed out again at once; short writes | a stream uses its own socket, bytes once and in order |
| WebSocket `Rfc6455` | a reader's buffer and message | feed, next, write; handshake | reads cut anywhere; fragments; limits | events do not depend on the cuts; strangers learn nothing |
| WebSocket `Endpoint`, `Session`, `FrameSender` | peers, queues, backoff, lingering closes | Service, Enqueue, Open, Close | slow, silent and refused peers; retries | one peer's slowness costs only its own frames; attempts are spaced |
| WebSocket `Connector` | numbering, profile, clocks per actor, silence | Open, Close, Poll, PushMessage | events applied in batches; reconnects renumber | an actor's clock advances until a told restart; silence told once |
| OpenXR, WebXR, MediaPipe connectors | session identity, epoch, numbering | open, acquire, poll, close | session events between calls; the runtime answers for another instant | a frame is of one instant; names are for good |
| C ABI | handle, diagnostic queue, errors, frames and views | create … destroy, poll, frame accessors | bounded diagnostics, refused opens | nothing lost uncounted; a view shows its frame |
| Python binding | a lock, a finalizer | every method of `Connector` | borrowed views and the last error across threads | a call gets what it produced |
| `motion_connect bridge` | source, pacing, peers, drain | the command's loop | the signal at any moment; draining to a peer that left | it ends, and its counts are true |
| `vrchat_osc_record` | loop, capture, report, trace | record, inspect, trace export | how it ends decides what is on disk | the report of the file is the session's |

## Modules

| Module | Models |
|---|---|
| `FrameChannel` | the abstract buffer: the oldest leaves first, taken or displaced; a refusal touches nothing held |
| `FrameBuffer` | `motionConnectorCore/src/FrameBuffer.cpp`; refines `FrameChannel` (`ImplementsChannel`) |
| `DatagramQueue`, `UdpReceiver` | the two classes of `motionConnectorTransport/src/UdpReceiver.cpp`, the kernel's half of the socket, and time |
| `PacketCapture` | `motionConnectorTransport/src/PacketCapture.cpp` |
| `OscPacket` | `motionConnectorOsc/src/OscPacket.cpp` |
| `VmcMessage`, `VmcFrameAssembler` | `motionConnectorVmc/src/VmcMessage.cpp` (with the transforms of `SkeletonMap.cpp`), `FrameAssembler.cpp` |
| `MocopiPacket`, `MocopiSkeletonMap`, `MocopiFrameAssembler` | `motionConnectorMocopi/src/PacketChunk.cpp` and `MotionPacket.cpp`, `SkeletonMap.cpp`, `FrameAssembler.cpp` |
| `DatagramConnector` | `Connector.cpp` and `FrameSource.cpp` of VMC and mocopi, which have the same control; holds an instance of `FrameBuffer` over its own variables |
| `TrackerMessage`, `VrchatOscFrameAssembler` | `motionConnectorVrchatOsc/src/TrackerMessage.cpp`, `FrameAssembler.cpp` |
| `TrackerSolve` | `motionConnectorTracking` (assignment and solve) and the trace exporter of `vrchatOscRecord` that holds its poses |
| `FrameWire`, `JsonText` | `motionConnectorWire/src/FrameWire.cpp` over the values of `Json.cpp`; the strings of `Json.cpp` byte by byte |
| `TcpSockets` | `motionConnectorWebSocket/src/Tcp.cpp` over a kernel that reuses descriptors |
| `WebSocketFraming`, `WebSocketHandshake` | the two halves of `Rfc6455.cpp` |
| `WebSocketEndpoint` | `Endpoint.cpp` with the `Session` of each connection, and `FrameSender.cpp` |
| `WebSocketConnector` | `Connector.cpp`, over an instance of `FrameBuffer` |
| `OpenXRConnector`, `WebXRConnector`, `MediaPipeConnector` | the connectors that sample |
| `CAbiHandle`, `CAbiFrame`, `CAbi` | `motionConnectorCAbi/src/MotionConnector.cpp`: a handle's calls; frames and their views; the two side by side, which is what a proof of either extends |
| `PythonConnector` | `bindings/python/motion_connectors/_connector.py` between threads |
| `Bridge` | `RunBridge` of `tools/motionConnect/src/Commands.cpp`, over the promises of a connector and a sender |
| `Recorder` | `RunRecord` and `RunInspect` of `tools/vrchatOscRecord` |
| `BuffersProofs`, `SocketsProofs`, `VmcProofs`, `MocopiFrameAssemblerProofs`, `VrchatProofs`, `WebSocketProofs`, `CAbiHandleProofs`, `FrontendsProofs` | theorems about the component or the group of the name (see *Proofs*) |
| `MCBuffers`, `MCSockets`, `MCVmc`, `MCEdges`, `MCVrchat`, `MCWebSocket`, `MCFrontends` | instances for TLC, with the inputs their runs explore |

### How state and actions correspond to the code

* **FrameBuffer.** A frame is the number of the Push call that offered it. Each call
  holds `_mutex` throughout, so each is an action; the four outcomes of Push are its
  disjuncts.
* **DatagramQueue.** `Drain` is two actions, because it swaps the queue out under the
  lock (`DrainSwap`) and moves datagrams into the caller's vector after releasing it
  (`DrainMove`). Several consumers may be between the two.
* **UdpReceiver.** `Receive` is a loop around `poll`: every return of the poll is an action
  that either returns from the call or computes the next wait. Between them the
  network may deliver and time may pass. `before` keeps the counters as the call found
  them, so that a property can say what one call counted.
* **Decoders** (`OscPacket`, `VmcMessage`, `TrackerMessage`, `MocopiPacket`, `JsonText`,
  `PacketCapture`, `WebSocketFraming`). One action is one turn of the code's loop: an
  element, an argument, a message, a chunk, a line, a frame. Bytes are numbers and
  keep their offsets; words and headers are scaled down (two bytes for four) with the
  limits that depend on them.
* **VmcFrameAssembler.** `Push` walks a packet; each message is an action, and the closing
  of the open frame (`_Close`) is part of the action that causes it. Three histories count what
  is pushed, beside the code's counters: all messages, the clocks among them, and the
  samples that are the first of their slot in their packet.
* **MocopiFrameAssembler.** One packet, one action. What `_ForgetSession` clears in the
  middle of `_PushFrame` is seen by the rest of that call through `Rig`,
  `ReportedNoRig` and `LastNumber`. The counter is modulo `Width`, which stands for 2^32.
* **VrchatOscFrameAssembler.** A Push is the action that begins it, which decides on the
  peer and the gap, and one action per message. Silence is measured when a frame closes. A
  position is a number on a line; `lastPosition` is where each tracker was last, per session.
* **MediaPipeConnector.** A call is an action. What a landmark may be is what `#landmark` tells
  apart: a visibility absent, out of range or usable, which only a body has. The buffer is
  the code's own array, in its three modes, with its counters.
* **DatagramConnector.** A call that feeds the source is split at each frame it enqueues.
  How many frames a datagram completes is the assembler's business and chosen freely.
  Poll reads the socket only if its buffer is empty, one datagram to an action.
* **WebSocketEndpoint.** A Service begins, accepts, visits each peer in turn, and ends;
  what a socket takes of a write and what has arrived are chosen at each visit. Two units
  to a frame let a socket take half of one. The variable `config` is what every Open is
  given: the role, the read budget and what peers may send.
* **WebSocketConnector.** One action per event of a batch, so that the state between two
  events of one Poll exists in the model as it does in the code.
* **FrameWire.** A message is the JSON value, written by `Spell…` and read by the decoder;
  between the two a peer may alter it or have written it without the encoder's checks.
* **CAbiHandle, PythonConnector.** The ABI says one thread at a time uses a handle, so a call
  is one action there; `PythonConnector` splits each call, since ctypes lets other threads
  run, and copies a borrowed view in a step of its own.
* **Bridge, Recorder.** One action per turn of the loop's parts; the signal, the clock
  and the peers move between any two.

Definitions marked `Fault:` are no part of a specification. Each is a slip the code could
contain (a dropped guard, a missing reset), and stands before the definition it would
replace; they show that a property can fail.

## Runs

Each of the seven passing runs explores the whole state space of a group of components.
The components of a group share no state, and each takes the layer below it as an
arbitrary input: the decoder any datagram, the assembler any packet, the connector any
number of frames. Composing two of them would only restrict the inputs of the upper
one. So an MC module is a disjoint sum: the variable `part`, fixed in the initial state,
says whose behaviour this is, and the variables of the others keep one idle value
(`InitOf`). Components that do share state are composed: `DatagramConnector` and
`WebSocketConnector` contain the `FrameBuffer` they push to, `WebSocketEndpoint` the sessions
of its peers, `Recorder` the file that its inspection reads, `TrackerSolve` the trace exporter.
Deadlock is not checked: every behaviour ends when its bounds are spent, and an idle
system may stop.

| Run | Parts and bounds | Shows |
|---|---|---|
| `buffers` | *buffer*: capacities 0 (raised to 1), 2, 3, all modes, 5 pushes, so that overflow happens twice at the largest; *queue*: two consumers, limits of 2 datagrams and 4 bytes, sizes 1, 3, 5 (5 is over the limit alone), 4 pushes, one reset or clear; *bridge*: live and captures of two and three records (two at one instant), 2 endpoints, a queue of one frame per peer | `BufferInvariant`, `ImplementsChannel`; `QueueInvariant`, `EventuallyHandedOut`; `BridgeKeepsItsBooks`, `InterruptEnds` |
| `sockets` | *udp*: 4 s, threshold off or 2 s, waits of 0, 2 and for ever, 2 arrivals, 2 calls, 2 opens or resets; *tcp*: two streams, a listener with two addresses, three descriptors, 2 bytes; *endpoint*: a listener of one peer and one lingering place, 2 connections that greet, greet wrongly, speak too early or close | `ReceiverInvariant`, `CallsReportWhatHappened`; `StreamsOwnTheirSockets`; `StrangersLeave` |
| `vmc` | *osc*: some fifty thousand datagrams, a prefix and up to three words, bundles in bundles past the depth limit; *message*: packets of up to two messages of every form and tag string; *assembler*: two bones and a root, sender clocks 1, 2, 4 with a restart threshold of 1, 3 packets, 5 messages; *connector*: capacities 1 and 2, 2 arrivals of up to 2 frames, one replay input, 2 opens, one capture | `BytesReadOnce`; `ReadAsTheirForm`; `AssemblerInvariant`, `SamplesAccounted`; `ConnectorInvariant`, `DeliveryKeepsUp` |
| `edges` | *assembler*: 5 packets, numbers modulo 3, times 0, 1, 3 with threshold 1, two offsets: a restart, the frame that shows it, a new skeleton and a frame after it fit; *packet*: every tree one change away from a frame and a skeleton of two bones, every prefix, every altered byte; *joints*: a rig of six joints, two without a bone; *capture*: recordings of three datagrams and three peers, and every text one or two lines away; *wire*: every frame one or two edits from a full one, every message one change from a written one, limits scaled to 95 bytes and depth 6; *text*: strings of three bytes at the edges of the UTF-8 table, and pairs of escapes; *handle*: 4 raised diagnostics against bounds of 1 and 2, 2 opens, 2 frames; *view*: two actors | `AssemblerInvariant`, `PosesTellTheirStream`; `EveryChunkAccounted`; `PosesAreTheRigs`; `CapturesReadBack`; `WireInvariant`; `ReadTextIsUtf8`; `HandleKeepsItsBooks`; `ViewsShowTheFrame` |
| `vrchat` | *message*: address segments of up to three characters out of 0, 1, 8 and a letter, each other fault once; *sessions*: two senders and an unknown one, one reset, 3 packets; *silence*: one tracker always there and one that comes and goes, 6 packets; *solve*: three frames of a rig of hips, spine, chest and head under five assignments | `OneIdentityPerTracker`; `SessionsStandAlone`; `SilencesCountedOnce`; `HeldPoseIsReported` |
| `websocket` | *connector*: two actors, 3 messages, 2 connections, replays, a profile mismatch; *endpoint*: opened with one of three configurations, a sender of 3 frames to a peer that reads slowly through a queue of one, a receiver with three connections for one place, a dialler with backoff 1 to 4; *framing*: streams of two frames of 39 kinds or three plain ones, cut by reads anywhere; *handshake*: the client's request with up to two changes and answers of other servers | `StreamIsHonest`; `PeersGetTheirFrames`; `EventsNest`; `AttemptsSpaced`; `FramingInvariant`; `HandshakeInvariant` |
| `frontends` | *webxr*: three inputs for two places, two opens, three acquires; *openxr*: a head and a body, two acquires; *mediapipe*: one result of every odd shape for body, hands and face; *feed*: three results, of a body or a face, into a buffer of two in each mode, with polls, refusals and reopenings between; *python*: two threads, 3 calls, two native handles; *recorder*: three datagrams, three options, each of six ways to end | `EpochInvariant`; `FramesDescribeOneInstant`; `DetectionsInvariant`; `EveryCallGetsItsOwn`; `SessionInvariant` |
| `udp_receiver_met`, `vmc_assembler_nan`, `mocopi_lost`, `websocket_state`, `python_exit` | the smallest bounds that show them | the disagreements below |

Bounds are on the number of events, since history variables grow with each. A property
relates at most four events to each other (a frame, its repeat, the restart between them,
the frame after), and the bounds hold at least that many. Limits (queue, peers,
diagnostics, descriptors, depth) are set so low that each is met and passed. In
`frontends` the inputs of a WebXR session are interchangeable and the run has only
invariants, so their permutations are taken as symmetry.

### Fairness

Only the program's own side is assumed to go on; nothing is assumed of a sender, a peer or
a host's resets, closes and opens.

* `DatagramQueue`: a consumer's tick keeps coming (weak fairness of both halves of Drain).
* `UdpReceiver`: time passes, and a poll that may return does, as the kernel's.
* `DatagramConnector`: a host polls every tick, and a call it makes runs to its end.
* `WebSocketEndpoint`: a host keeps calling Service (weak), and time passes between calls
  (strong: a Tick is enabled only between two of them, and a call always ends).
* `Bridge`: the process is scheduled and time passes.

## Disagreements

Shown by runs of their own:

* `MetIsNotIdle` (`udp_receiver_met`): a call that meets an over-long datagram or an ICMP report
  with time left polls again; if that poll times out, the call counts as idle and may
  report silence, although something had just reached the socket. `UdpReceiver.h:220-224` says
  that such a call does not count there, and `UdpReceiver.cpp:625-631` and `761-765` that it is
  no evidence of silence: that is so only when the budget is spent as the thing is met. What
  the receiver does promise is stated for datagrams within the limit (`SilenceIsHonest`).
* `StreamAdvances` with a NaN clock (`vmc_assembler_nan`): `/VMC/Ext/T` is not checked for
  being finite, against `CONNECTOR_CONTRACT.md:398`; one NaN switches the ordering of the VMC
  stream off. The mocopi decoder refuses such a clock.
* `LostWereNeverHeard` (`mocopi_lost`): `lostFrames` counts datagrams that arrived and were
  refused as lost by the transport.
* `ConnectingPromisesNoFrame` (`websocket_state`): a peer that sends two frames and leaves
  within one Poll leaves the connector Connecting with a frame in its buffer.
* `OneThreadInTheHandle` (`python_exit`): at the interpreter's exit the finalizer destroys
  the handle without the lock, under a daemon thread's call.

Stated in the modules next to the code they disagree with, smaller, and without a run:
`ErrorTextSurvivesSuccess` (`UdpReceiver`), `DuplicateBeforeTheRig`
(`MocopiFrameAssembler`), `DiscontinuityIsConsecutive` and `BothCountsAsRepeat`
(`VrchatOscFrameAssembler`), `ListenerFailureIsError` (`WebSocketConnector`), `RefusalToldOnce`
(`WebSocketEndpoint`), `PollRemovesAtMostOne`, `LastErrorIsOfTheLastFailure` and
`UndeliveredAreBounded` (`CAbiHandle`), `EndedSessionIsError` (`WebXRConnector`) and
`OneSpacePerSession`, for a host that observes after Close (`TrackerSolve`). Each has the
sentence it takes its claim from in its comment.

## Proofs

The theorems hold for every value of the constants, the bounds included. A proof module
extends the MC module of its run, so that a theorem names the very definition that the
run checks; what it says of a component which that module takes by INSTANCE carries the
name of the instance (`Queue!`, `Tcp!`, `Solve!`, `Messages!`, `Python!`, `OpenXR!`, `WebXR!`,
`MediaPipe!`). The specification of a theorem is the component's own, never the sum the run explores.

* **BuffersProofs**, FrameBuffer. `IInv` joins types, accounting, that the held frames are
  the newest accepted ones, and the mode's bound. The last two need each other: an
  overflow keeps contiguity only since what is held is a suffix of what was accepted.
  `BufferImplementsChannel` maps the held frames to the channel's: a push that overflows
  displaces the oldest in the same abstract step, a refused one leaves what is held
  alone. `BufferSafety` is the whole of what the run checks.
* **BuffersProofs**, DatagramQueue. `OnePlaceEach` and `ArrivalOrder` follow from one
  invariant, `PlaceInv`: the sets of numbers in the queue, in each Drain in progress, in each
  consumer's vector and among those gone are disjoint and make up all that arrived; each
  sequence is in order, and all a consumer has is older than the queue. The last part is
  what makes the unlocked half of Drain harmless: whatever is pushed or swapped
  between the halves is newer than what is being moved. How many datagrams a push displaces
  plays no part, so no assumption on the limits is needed. `TallyKept` adds the counters.
  `LimitsKept` says of both limits, however they interact, what `Bounded` does; `Weighed` adds that
  the byte count is the sum of the sizes that wait, which a displaced datagram must leave as
  it joined. `QueueSafety` is the whole of what the run checks.
* **BuffersProofs**, Bridge. `BridgeInv`: the connector's state is newer than the last line
  only inside `forward()` (`StateTold`); the time the loop read is never later than the
  clock, so a record is never pushed early by it (`Paced`); after the flush the replay is not
  entered again (`FlushedOnce`); the tool closes with frames queued only when their
  time was up (`Waited`). The signal may land between any two steps and plays no part.
* **SocketsProofs**, UdpReceiver. `OneClock` and `EpisodesReportedOnce` rest on an invariant
  over the receive clock: recorded times never exceed it, and the reports of a tally are at
  most one more than the datagrams that ended an episode in it. `BudgetKept`: in a bounded
  call the deadline of the current poll is always the call's start plus its timeout, so a
  retry neither gains nor loses budget. `ReceiverSafety` joins them.
* **SocketsProofs**, `CallsTellTheTruth`. What one call may say, in four parts. `CallInv` ties the
  call under way to the counters it began with: `CallCountsOnce` is kept only since nothing
  handed out or idle is counted before the call ends and since a call without a timeout
  never goes on after it met something (`UnderWay`); that idle is never early is the budget's
  part (`BudgetInv`). A report is true because a datagram that arrived is either read, and then
  the last traffic, or still waiting, and then the poll does not time out (`SilenceInv`); it is
  not missed because an episode remembered as told is in the window, a reset included.
* **SocketsProofs**, Tcp. `TcpInv`: an open descriptor is the listener's or exactly one
  stream's (`OneOwner`); the kernel hands out the lowest free number, so each opening needs
  that there is one and that it is nobody's (`LeastExists`); and what a connection has sent
  is what its caller was told and what the write in progress has yet to tell (`Bytes`). The
  part `Calling` ties the two: a write in progress is of a stream that is open.
* **VmcProofs.** With `NotANumber \notin SenderTimes`, an assumption of the theorems and not
  of the module: emitted times of the current session are at most `lastAccepted`, sessions
  never decrease along the emitted frames, and the rig is the union of what they carried.
  `TypeCorrect` needs no such assumption.
* **VmcProofs**, DatagramConnector. `ConnectorInv` joins the buffer's books, the states and the
  wire. That a capture is consecutive needs the last: what waits in the socket is the newest
  of what arrived without a gap, and while a capture has begun it goes on with the datagram
  after the last one read (`Wire`), until a Close that ends both. `DeliveryOrder` is the safety
  half of `DeliveryKeepsUp`, from the order of what the buffer holds (`Numbered`).
* **VmcProofs**, OscPacket. `OscInv`: the elements on the decoder's stack nest (`Nested`), the
  offset is on a word and within the innermost, and the spans read so far follow each other
  without a gap up to the offset (`Walked`). A declared size comes from the bytes of the
  datagram and may be anything; that it is a number at all is a lemma over the fold that
  assembles it (`NumberIsNat`).
* **VmcProofs**, VmcMessage. `DecodingInv`: what was decoded is what the messages read so far say
  (`Readings`), in their order, each other one is tallied, and each sample is of a message that
  placed a bone (`Mappings`). The tags read are those of the longest prefix of the form that the
  message's tags begin with; `ReadFacts` shows that there is one and that the tag after it
  differs. A sample that a rotation of
  length zero would make is refused, so some component is not zero. Assumed are
  `FormAssumption`, that tags are strings, and `PacketAssumption`, that the OSC layer gives an
  argument of the tag's type for each tag.
* **VmcProofs**, `EverySampleAccounted`. Of each message pushed, one counter tells: a clock moves
  none, any other moves exactly one of accepted, duplicate and set aside. Only what a packet
  repeats is a duplicate (`NamesKept`: a slot the open frame holds from this packet was named by
  it). And what is accepted is in the open frame, in one frame handed out, or went with a
  frame counted as refused or a Reset, at most one sample a slot with each; the sum over the
  frames grows by what a close emits (`SamplesGrow`). It needs of the state that a closed frame
  carries nothing and that no packet's serial is the one that marks an empty slot (`Opened`).
  NaN clocks are included.
* **MocopiFrameAssemblerProofs.** The invariant says of the current session what its members
  remember of it: a rig was declared in it; its frames are no later than
  `lastStreamSeconds`; the announcement is pending exactly while a restart began the
  session and nothing of it was emitted; the report flag is up exactly while frames were
  refused for want of a rig. `PosesTell` adds what they remember of its frames (`Remembered`): the
  offset of the first and the number of the newest, which no refusal changes. A number that
  rose is within the counter's width of the last, so the code's unsigned difference is the
  gap (`RisingLoss`).
* **VrchatProofs.** `SessionInv` says of the members what the frames of the current session
  say: `lastSeen` is the newest time one of them carried the tracker (`Remembered`); a
  tracker is marked while the newest of them calls it stale (`Marked`), so a closing frame
  adds exactly `Stale \ reportedStale` to the crossings counted in the history; a restart
  waits for the first frame to open after it (`Announcing`); and `lastPosition` has where the newest
  frame of the session that placed a tracker put it (`Placed`), so that a recalibration is judged
  by this session's places alone (`JumpsAreTheSessions`). That a crossing is not undone
  by a later frame needs that sessions never decrease along the history. Both parts of the run's
  `vrchat` that explore the assembler check what `AbsenceTrue` and `SilencesTrue` state.
* **VrchatProofs**, TrackerSolve. The solve divides by what it authored above a joint, a consumer
  multiplies by what it holds there; the two chains differ at every joint the frame left out.
  `SolveInv` has the one fact that outlives a frame: a joint no statement names is held at
  rest. Down the tree, as long as no named joint went silent, the held chain is then
  the authored one (`ReplayTurnsAsReported`), and that is where `AncestorFellSilent` is needed.
  The chains, the silence and the locals are recursive functions over the tree; that
  functions with their equations exist is proved once (`HandedDown`), and what holds of
  every joint is reached from the hips down (`DownTheTree`). `ClipsKept` is the other half: the
  clip that may still grow is empty or of the space the sender is in. Assumed are
  `JointAssumption`, a finite tree numbered from its root with at most one region to a joint, and
  `InputAssumption`, the kinds of what is stated and observed.
* **VrchatProofs**, TrackerMessage. `MessageInv`: what was decoded is what the accepted
  messages read so far make, and each other one is a refusal. That one index has one spelling
  is arithmetic: the numbers of two segments agree from their last digits back
  (`AgreeBack`), and if one ended first the other would go on with zeros, which a number without
  a leading zero has none of (`PositiveRead`, `OneSpelling`). Neither the limit on digits nor
  that on the index is needed. Assumed is `PacketAssumption`: a segment is a sequence of
  characters.
* **WebSocketProofs.** `PoseOrder`: the remembered times bound every frame of the
  sender's present life, and a told restart begins a life without frames; this survives
  dropped frames and reconnections because neither makes the connector forget. `SilenceOnce`:
  a silence is on record exactly while it was told once, and no such state is Connected.
* **WebSocketProofs**, Handshake. `HandshakeInv`: each end is where its own check of the head it
  got has put it. `HandshakeKept` needs besides that what `Switching` writes passes
  `CheckUpgradeResponse` header by header (`SwitchingIsAccepted`) and that nothing else the server
  writes has status 101; of the key it assumes only that the request carries the client's.
* **WebSocketProofs**, `AttemptsWait`. `SpacedInv` ties what has been waited to the backoff:
  `since + wait` is at least the spacing of the failures so far and `backoff` at least the
  next one, so a failure that comes while the timer runs (a refused handshake, a deadline,
  a lost connection) only adds to it. That the spacing doubles needs `2^(n+1) = 2 * 2^n`,
  which is proved by counting subsets (`PowersOfTwo`), since the prover knows no powers.
* **WebSocketProofs**, `WholeFramesReachPeers`. What a socket took says nothing by itself of
  what it takes next, so `CarriedInv` speaks of a peer's whole stream, `wire \o out`: it is
  whole frames in order (`Core`), nothing has started that is not older than the queue
  (`Reach`), and no close is in it before the session has ended. A partial write moves units
  from one side of the stream to the other and changes nothing; the queue that gives way loses
  only what has not started. A connection that lingers keeps the half (`EntryOk`), and
  one that is done stays behind `turn` until ServiceEnd removes it (`PeerOk`), the index
  map of which is why ServiceEnd is written with `InOrder`.
* **WebSocketProofs**, `SessionsNest`. `NestedInv`: with one peer, the last thing reported is
  of the session that is on, or ends the one before. That a reading reports an
  opening first and nothing after its end (`Tells`) is where the budget of reads matters.
  `PeerLimit = 1` is a hypothesis because `WebSocketConnector::Open` opens its endpoint
  so; a sender's peers interleave. These three assume `EndpointAssumption`: limits and times
  are naturals, a limit at least one, and one peer for a connect role (`FrameSender::Open`).
* **CAbiHandleProofs.** `HandleInv` has a part for each book. `DiagnosticsKept`: the history of
  what was raised is as long as what was read, dropped and is queued, and what is queued is
  newer than what was read, in order, up to the latest raised; this must survive an open
  that lowers the capacity under a full queue. `EveryPolledFrameAccounted`: a frame polled
  became the caller's or was counted as refused.
  That a refused open changes nothing (`RefusedOpenIsNoOpen`) is the third.
* **FrontendsProofs**, PythonConnector. `PythonInv` follows a call from the lock to what the
  caller gets: the thread in a call that left something behind has the lock (`Locked`); what
  it is about to read is what its call wrote (`Viewed`); what it copies afterwards is in a
  native frame no other thread holds (`Copied`, `Handed`). The hypothesis of `CallersServed`,
  that no thread is a daemon, is needed: `python_exit` shows a behaviour without it.
* **FrontendsProofs**, OpenXRConnector. `InstantsAgree` holds of each frame as it is made: the
  body decides the frame's instant only where it is all there is, and is made unavailable
  where its instant is not the others' (`AcquiredFrame`).
* **FrontendsProofs**, WebXRConnector. `WebInv`: no two inputs have one id and none an id
  beyond the counter (`Distinguished`), frames name inputs as the table does now (`Called`),
  the clocks are those of the newest frame (`Timed`), and the queue is the end of what was
  acquired (`EndOf`, `Accounted`). That ids stay distinct when an acquisition names several
  inputs at once, is refused at the limit or throws rests on a count: of two new inputs
  the one that comes later has strictly more new ones before it (`NamelessGrow`).
* **FrontendsProofs**, MediaPipeConnector. What a result becomes is a function of the result alone:
  each entry of the history is what `Observed` makes of a usable result, and Connected means
  the last had nothing to tell. The work of `ObservationsAreDistinct` is in the lemmas: an
  actor's landmarks are those of its first group and then of its second (`ActorOf`), two groups have
  different sides, and a result that tells nothing has every landmark in place, which takes
  the flattening of as many reports as there are landmarks (`FlattenTyped`). `FramesAreWhole` is
  inductive with the types: what waits are the newest of the history (`Newest`), whichever of
  its three ways the buffer takes a frame in (`MediaPipePushes`), and a refusal changes neither.

Assumptions are those named in the modules: capacities, bounds and times are naturals,
`None`, `Forever` and `NotANumber` differ from every number, a decoded message has a finite
clock for each actor with a pose.

The sums (`Bytes`, `SamplesIn`, `Total`) and the numbers read from bytes (`Number`) are folds, and a fold is a
recursive function over the indices of its sequence. The library's induction theorems take
an operator and cannot be used, so a fold's value is reached through the least
counterexample: a set of naturals that is not empty has a least member (`LeastExists`), so a
function with the fold's equations exists (`FoldExists`) and two that agree up to an index agree
at it (`NoneBad`). From these each proof module derives, for its own fold, only what is cited: its
value on the empty sequence, after an Append and without a first element.

Model-checked only: liveness (`EventuallyHandedOut`, `InterruptEnds`, `StrangersLeave`,
`DeliveryKeepsUp`, the part `CallReturns` of `CallsReportWhatHappened`), which the prover does not
reach; `SessionInvariant`, whose counts are sums over a history; what the decoders of mocopi
packets, captures, JSON text and WebSocket frames compute over their whole input
(`EveryChunkAccounted`, `CapturesReadBack`, `ReadTextIsUtf8`, `FramingInvariant`), where an induction over the
input would be needed; what `FrameWire` writes and reads, which is defined by RECURSIVE operators
over JSON trees; the composition of a pose (`PosesAreTheRigs`) and the views of a frame
(`ViewsShowTheFrame`); and the modules not named above.

## Not modelled

* The text of diagnostics (`Diagnostics.cpp`) and of reports: a diagnostic is its code.
* Arithmetic: quaternion normalisation, changes of axes (`TrackingSpace`), the composition of
  the mocopi root from its hips record; SHA-1, Base64 and the bits of a frame header; how
  `Json.cpp` spells and parses numbers. Each is a function without state, tested by vectors.
* The text form of a tracker assignment, option parsing of the tools, `AddressInventory` and
  the commands that print a capture or a list.
* `vmcRecord` and `mocopiRecord`: the loop of `vrchatOscRecord` around other reports.
* The capture switch of the VRChat OSC and WebSocket connectors, which is the one
  modelled in `DatagramConnector`.
* The Windows branches, the generators of test packets, examples, and repository scripts.
