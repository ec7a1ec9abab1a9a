-------------------------- MODULE DatagramConnector --------------------------
(***************************************************************************)
(* VmcConnector and MocopiConnector (libs/motionConnectorVmc/src/          *)
(* Connector.cpp and its mocopi sibling, the same control): the life cycle *)
(* of a connector, composing a UDP socket, a frame source and FrameBuffer. *)
(* One caller's thread drives everything; only the network acts between    *)
(* its steps.  A call that feeds the source is split at each frame it      *)
(* enqueues.  What a datagram completes -- how many frames, and whether    *)
(* each is whole -- is the assembler's choice, made here at random.        *)
(***************************************************************************)
EXTENDS Naturals, Sequences

CONSTANTS
  RequestedCapacities, MaxPushes,  \* FrameBuffer's
  MaxFrames,    \* bound: frames one datagram completes
  MaxArrivals,  \* bound: datagrams and socket failures that reach the socket
  MaxInputs,    \* bound: PushDatagram, PushPacket and Flush calls by the caller
  MaxOpens,     \* bound: Open calls
  MaxCaptures   \* bound: StartCapture calls

BoundsAssumption ==
  /\ MaxFrames \in Nat /\ MaxArrivals \in Nat /\ MaxInputs \in Nat
  /\ MaxOpens \in Nat /\ MaxCaptures \in Nat
  /\ RequestedCapacities \subseteq Nat /\ MaxPushes \in Nat
  /\ MaxPushes >= MaxFrames * (MaxArrivals + MaxInputs)

ConnectorState == {"Disconnected", "Connecting", "Connected", "Degraded", "Error"}

VARIABLES
  \* The FrameBuffer in `_buffer`.
  capacity, mode, frames, pushedFrames, polledFrames, droppedFrames, skippedFrames,
  rejectedFrames, offered, accepted, lastPolled, clearedFrames,
  state,      \* _state
  socketOpen, \* _receiver.IsOpen()
  waiting,    \* the socket's queue: numbers of datagrams, 0 for a socket failure
  call,       \* the call in progress: "none", "Poll", or "Push" for an input call
  pending,    \* frames of _source.GetFramesFromLastPush() not enqueued yet
  partial,    \* sessions whose samples the assembler's open frame holds
  capturing, capture, \* _capturing, _capture.datagrams
  session,    \* history: how often Open reset the source
  arrived, received,  \* history: datagrams that reached the socket, the last one read
  arrivals, inputs, opens, captures \* history, for the bounds

buffer == <<capacity, mode, frames, pushedFrames, polledFrames, droppedFrames, skippedFrames,
            rejectedFrames, offered, accepted, lastPolled, clearedFrames>>
network == <<waiting, arrived, arrivals>>
recording == <<capturing, capture, received, captures>>
source == <<pending, partial, session>>
vars == <<buffer, state, socketOpen, network, call, source, recording, inputs, opens>>

Buffer == INSTANCE FrameBuffer

\* A FrameBuffer just constructed.
FreshBuffer(requested, chosen) ==
  /\ capacity' = Buffer!Normalised(requested)
  /\ mode' = chosen
  /\ frames' = <<>>
  /\ pushedFrames' = 0 /\ polledFrames' = 0 /\ droppedFrames' = 0
  /\ skippedFrames' = 0 /\ rejectedFrames' = 0
  /\ offered' = 0 /\ accepted' = <<>> /\ lastPolled' = 0 /\ clearedFrames' = 0

Init ==
  /\ capacity = 1 /\ mode = "Latest" /\ frames = <<>>
  /\ pushedFrames = 0 /\ polledFrames = 0 /\ droppedFrames = 0
  /\ skippedFrames = 0 /\ rejectedFrames = 0
  /\ offered = 0 /\ accepted = <<>> /\ lastPolled = 0 /\ clearedFrames = 0
  /\ state = "Disconnected" /\ socketOpen = FALSE
  /\ waiting = <<>> /\ arrived = 0 /\ arrivals = 0
  /\ call = "none" /\ pending = 0 /\ partial = {} /\ session = 0
  /\ capturing = FALSE /\ capture = <<>> /\ received = 0 /\ captures = 0
  /\ inputs = 0 /\ opens = 0

Idle == call = "none"

-----------------------------------------------------------------------------
(* The network.                                                             *)

Arrive ==
  /\ socketOpen /\ arrivals < MaxArrivals
  /\ \/ waiting' = Append(waiting, arrived + 1) /\ arrived' = arrived + 1
     \/ waiting' = Append(waiting, 0) /\ UNCHANGED arrived
  /\ arrivals' = arrivals + 1
  /\ UNCHANGED <<buffer, state, socketOpen, call, source, recording, inputs, opens>>

-----------------------------------------------------------------------------
(* Open and Close.                                                          *)

\* What Close does to everything but the buffer and the state.
Disconnect ==
  /\ capturing' = FALSE
  /\ socketOpen' = FALSE
  /\ waiting' = <<>>
  /\ UNCHANGED <<call, arrived, arrivals, capture, received, captures, inputs>>

\* Fault: Close leaves the buffer as it is.
KeepBuffer == UNCHANGED buffer

ClearBuffer ==
  IF frames = <<>> THEN UNCHANGED buffer ELSE Buffer!Clear

Close ==
  /\ Idle
  /\ Disconnect
  /\ ClearBuffer
  /\ state' = "Disconnected"
  /\ UNCHANGED <<source, opens>>

\* Refused before anything but Close has happened: the source keeps its frame.
OpenWrongProfile ==
  /\ Idle /\ opens < MaxOpens
  /\ Disconnect
  /\ ClearBuffer
  /\ state' = "Error"
  /\ opens' = opens + 1
  /\ UNCHANGED source

\* Fault: a new session inherits the open frame.
ResetSourceKeepsFrame == pending' = 0 /\ session' = session + 1 /\ UNCHANGED partial

\* _source.Reset
ResetSource == pending' = 0 /\ partial' = {} /\ session' = session + 1

Open(requested, chosen, bound) ==
  /\ Idle /\ opens < MaxOpens
  /\ FreshBuffer(requested, chosen)
  /\ ResetSource
  /\ capturing' = FALSE
  /\ waiting' = <<>>
  /\ socketOpen' = bound
  /\ state' = IF bound THEN "Connecting" ELSE "Error"
  /\ opens' = opens + 1
  /\ UNCHANGED <<call, arrived, arrivals, capture, received, captures, inputs>>

-----------------------------------------------------------------------------
(* Poll, and the replay inputs.                                             *)

PollBuffered ==
  /\ Idle
  /\ Buffer!Poll
  /\ UNCHANGED <<state, socketOpen, network, call, source, recording, inputs, opens>>

\* Fault: only a connected source is read.
ListeningOnceConnected ==
  Idle /\ frames = <<>> /\ socketOpen /\ state = "Connected" /\ waiting # <<>>

\* Poll goes to the socket only with an empty buffer, and never in Error.
Listening == Idle /\ frames = <<>> /\ socketOpen /\ state # "Error" /\ waiting # <<>>

PollFails ==
  /\ Listening
  /\ Head(waiting) = 0
  /\ waiting' = Tail(waiting)
  /\ state' = "Error"
  /\ UNCHANGED <<buffer, socketOpen, arrived, arrivals, call, source, recording, inputs, opens>>

\* The source takes samples of this session and completes `count` frames; what
\* is left over stays in its open frame.
Feed(count) ==
  /\ pending' = count
  /\ \E over \in {{}, {session}} :
       partial' = IF count = 0 THEN partial \cup over ELSE over
  /\ UNCHANGED session

\* Fault: only a datagram that completes a frame is captured.
PollReceivesCapturesFrames ==
  /\ Listening
  /\ Head(waiting) # 0
  /\ waiting' = Tail(waiting)
  /\ received' = Head(waiting)
  /\ call' = "Poll"
  /\ \E count \in 0..MaxFrames :
       /\ Feed(count)
       /\ capture' = IF capturing /\ count > 0 THEN Append(capture, Head(waiting)) ELSE capture
  /\ UNCHANGED <<buffer, state, socketOpen, arrived, arrivals, capturing, captures, inputs, opens>>

PollReceives ==
  /\ Listening
  /\ Head(waiting) # 0
  /\ waiting' = Tail(waiting)
  /\ received' = Head(waiting)
  /\ capture' = IF capturing THEN Append(capture, Head(waiting)) ELSE capture
  /\ call' = "Poll"
  /\ \E count \in 0..MaxFrames : Feed(count)
  /\ UNCHANGED <<buffer, state, socketOpen, arrived, arrivals, capturing, captures, inputs, opens>>

\* PushDatagram, PushPacket and Flush ask nothing of the connector's state.
PushInput ==
  /\ Idle /\ inputs < MaxInputs
  /\ inputs' = inputs + 1
  /\ call' = "Push"
  /\ \E count \in 0..MaxFrames : Feed(count)
  /\ UNCHANGED <<buffer, state, socketOpen, network, recording, opens>>

\* One turn of _EnqueueFrames. An accepted frame says how it is; a refused one
\* is back-pressure.
EnqueueFrame ==
  /\ pending > 0
  /\ Buffer!Push
  /\ pending' = pending - 1
  /\ IF rejectedFrames' = rejectedFrames
     THEN state' \in {"Connected", "Degraded"}
     ELSE state' = "Degraded"
  /\ UNCHANGED <<socketOpen, network, call, partial, session, recording, inputs, opens>>

\* A Poll that received something ends by polling the buffer again.
CallReturns ==
  /\ ~Idle /\ pending = 0
  /\ call' = "none"
  /\ IF call = "Poll" /\ frames # <<>> THEN Buffer!Poll ELSE UNCHANGED buffer
  /\ UNCHANGED <<state, socketOpen, network, source, recording, inputs, opens>>

StartCapture ==
  /\ Idle /\ captures < MaxCaptures
  /\ capture' = <<>>
  /\ capturing' = TRUE
  /\ captures' = captures + 1
  /\ UNCHANGED <<buffer, state, socketOpen, network, call, source, received, inputs, opens>>

StopCapture ==
  /\ Idle /\ capturing
  /\ capturing' = FALSE
  /\ UNCHANGED <<buffer, state, socketOpen, network, call, source, capture, received, captures,
                 inputs, opens>>

Poll == PollBuffered \/ PollFails \/ PollReceives

Next ==
  \/ Arrive
  \/ Close
  \/ OpenWrongProfile
  \/ \E requested \in RequestedCapacities, chosen \in Buffer!BufferMode, bound \in BOOLEAN :
       Open(requested, chosen, bound)
  \/ Poll
  \/ PushInput
  \/ EnqueueFrame
  \/ CallReturns
  \/ StartCapture
  \/ StopCapture

Spec == Init /\ [][Next]_vars

\* The caller polls every tick, and a call it makes runs to its end.
FairSpec == Spec /\ WF_vars(Poll) /\ WF_vars(EnqueueFrame) /\ WF_vars(CallReturns)

-----------------------------------------------------------------------------

TypeOK ==
  /\ Buffer!TypeOK
  /\ state \in ConnectorState
  /\ socketOpen \in BOOLEAN /\ capturing \in BOOLEAN
  /\ waiting \in Seq(0..MaxArrivals)
  /\ call \in {"none", "Poll", "Push"}
  /\ pending \in 0..MaxFrames
  /\ session \in 0..MaxOpens
  /\ partial \subseteq 0..session
  /\ capture \in Seq(1..MaxArrivals)
  /\ arrived \in 0..MaxArrivals /\ received \in 0..MaxArrivals

\* The state table of the connector contract: where a state promises that Poll
\* returns no frame, none is held -- after a failed bind, a failed receive, a
\* refused profile and a Close alike.
StatePromisesNoFrame ==
  state \in {"Disconnected", "Connecting", "Error"} => frames = <<>>

\* Frame numbers are the account of the stream: since Open, every number was
\* polled, dropped, refused, cleared or is held, and the consumer sees the rest
\* as gaps.
EveryNumberAccounted ==
  offered = polledFrames + droppedFrames + rejectedFrames + clearedFrames + Len(frames)

\* A frame never holds samples of two sessions, although Close leaves the
\* assembler's open frame alone.
FrameOfOneSession == partial \subseteq {session}

\* A capture is what was received since it began: consecutive, in order, with
\* no replayed input among it, and up to the newest datagram while it runs.
CaptureIsTheWire ==
  /\ \A i \in 1..Len(capture) - 1 : capture[i + 1] = capture[i] + 1
  /\ (capturing /\ capture # <<>>) => capture[Len(capture)] = received

\* What the connector promises of every state between two calls.
ConnectorInvariant ==
  /\ TypeOK /\ StatePromisesNoFrame /\ EveryNumberAccounted /\ FrameOfOneSession
  /\ CaptureIsTheWire

\* Within a session the consumer never sees a frame number twice or backwards.
DeliveryAdvances ==
  [][(session' = session /\ polledFrames' > polledFrames) => lastPolled' > lastPolled]_vars

\* A caller that keeps polling empties the socket unless the connector failed:
\* no datagram waits behind an empty buffer or a silent state.
BacklogDrains == []<>(waiting = <<>> \/ state = "Error")

\* What a consumer that keeps polling may rely on.
DeliveryKeepsUp == DeliveryAdvances /\ BacklogDrains
=============================================================================
