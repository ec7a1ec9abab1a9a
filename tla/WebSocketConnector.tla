------------------------- MODULE WebSocketConnector -------------------------
(***************************************************************************)
(* motionConnectorWebSocket's receiving connector                          *)
(* (libs/motionConnectorWebSocket/src/Connector.cpp).  One Poll services   *)
(* the endpoint and then walks the events it reports: it is the action     *)
(* that begins it, an action for each event, and the action that returns.  *)
(* The endpoint is reduced to what it may report in one Service: at most   *)
(* one peer is in session, it opens before its messages, and nothing       *)
(* follows its end.  A message is what the codec makes of it.  The capture  *)
(* switch is the datagram connectors' and is left out.                     *)
(***************************************************************************)
EXTENDS Naturals, Sequences, TLC

CONSTANTS
  RequestedCapacities, MaxPushes,  \* FrameBuffer's
  Messages,        \* decoded frames: [number, profile, poses], poses a function
                   \* from actors to timestamps
  Garbage,         \* a message the codec refuses
  Profile,         \* ConnectorConfig::sourceProfile
  AnyProfile,      \* the empty string
  Peers, NoPeer,
  SilenceTimeout,  \* 0 is off
  MaxClock, MaxMessages, MaxOpens, MaxConnections  \* bounds

ASSUME BoundsAssumption ==
  MaxClock \in Nat /\ MaxMessages \in Nat /\ MaxOpens \in Nat /\ MaxConnections \in Nat
  /\ MaxPushes >= MaxMessages /\ SilenceTimeout \in Nat

\* What the codec gives: a finite clock for each actor with a pose.
Clocks(poses) ==
  poses = [a \in DOMAIN poses |-> poses[a]] /\ \A a \in DOMAIN poses : poses[a] \in Nat

ASSUME MessagesAssumption == \A message \in Messages : Clocks(message.poses)

VARIABLES
  capacity, mode, frames, pushedFrames, polledFrames, droppedFrames, skippedFrames,
  rejectedFrames, offered, accepted, lastPolled, clearedFrames,
  state, peer,
  endpoint,        \* the Endpoint: "closed", "open", or "failed" with its listener
  inSession,       \* the endpoint's peer in session, or NoPeer
  call,            \* "none", "Poll", or "PollEnded" once its batch reported an end
  clock,           \* Endpoint::Now()
  pushPeerSeen, newConnection, deliveredAny, haveSenderNumber, senderNumber, poseTimestamps,
  lastMessageTime, silenceReported,
  made,            \* history: [life, poses] of each frame offered to the buffer
  life,            \* history: how often WEBSOCKET_SOURCE_RESTARTED was raised
  told,            \* history: silences told since the last message or opening
  events, opens, connections  \* history, for the bounds

buffer == <<capacity, mode, frames, pushedFrames, polledFrames, droppedFrames, skippedFrames,
            rejectedFrames, offered, accepted, lastPolled, clearedFrames>>
link == <<endpoint, inSession, clock, connections>>
sender == <<newConnection, haveSenderNumber, senderNumber>>
assembly == <<pushPeerSeen, sender, deliveredAny, poseTimestamps>>
silence == <<lastMessageTime, silenceReported, told>>
vars == <<buffer, state, peer, link, call, assembly, silence, made, life, events, opens>>

Buffer == INSTANCE FrameBuffer

Empty == [x \in {} |-> 0]

FreshBuffer(requested, chosen) ==
  /\ capacity' = Buffer!Normalised(requested) /\ mode' = chosen
  /\ frames' = <<>>
  /\ pushedFrames' = 0 /\ polledFrames' = 0 /\ droppedFrames' = 0
  /\ skippedFrames' = 0 /\ rejectedFrames' = 0
  /\ offered' = 0 /\ accepted' = <<>> /\ lastPolled' = 0 /\ clearedFrames' = 0

Init ==
  /\ capacity = 1 /\ mode = "Latest" /\ frames = <<>>
  /\ pushedFrames = 0 /\ polledFrames = 0 /\ droppedFrames = 0
  /\ skippedFrames = 0 /\ rejectedFrames = 0
  /\ offered = 0 /\ accepted = <<>> /\ lastPolled = 0 /\ clearedFrames = 0
  /\ state = "Disconnected" /\ peer = NoPeer
  /\ endpoint = "closed" /\ inSession = NoPeer /\ clock = 0 /\ connections = 0
  /\ call = "none"
  /\ pushPeerSeen = FALSE /\ newConnection = FALSE /\ deliveredAny = FALSE
  /\ haveSenderNumber = FALSE /\ senderNumber = 0 /\ poseTimestamps = Empty
  /\ lastMessageTime = 0 /\ silenceReported = FALSE
  /\ made = <<>> /\ life = 0 /\ told = 0 /\ events = 0 /\ opens = 0

Idle == call = "none"

Tick ==
  /\ endpoint # "closed" /\ clock < MaxClock
  /\ clock' = clock + 1
  /\ UNCHANGED <<buffer, state, peer, endpoint, inSession, connections, call, assembly, silence,
                 made, life, events, opens>>

-----------------------------------------------------------------------------
(* Open and Close.                                                          *)

ClearBuffer == IF frames = <<>> THEN UNCHANGED buffer ELSE Buffer!Clear

Disconnect == endpoint' = "closed" /\ inSession' = NoPeer /\ peer' = NoPeer

Close ==
  /\ Idle
  /\ Disconnect /\ ClearBuffer
  /\ state' = "Disconnected"
  /\ UNCHANGED <<clock, connections, call, assembly, silence, made, life, events, opens>>

\* A conversion, a bound or a port the connector cannot honour.
OpenRefused ==
  /\ Idle /\ opens < MaxOpens
  /\ Disconnect /\ ClearBuffer
  /\ state' = "Error"
  /\ opens' = opens + 1
  /\ UNCHANGED <<clock, connections, call, assembly, silence, made, life, events>>

Open(requested, chosen, listening) ==
  /\ Idle /\ opens < MaxOpens
  /\ FreshBuffer(requested, chosen)
  /\ peer' = NoPeer /\ inSession' = NoPeer /\ clock' = 0
  /\ endpoint' = IF listening THEN "open" ELSE "closed"
  /\ state' = IF listening THEN "Connecting" ELSE "Error"
  /\ pushPeerSeen' = FALSE /\ newConnection' = FALSE /\ deliveredAny' = FALSE
  /\ haveSenderNumber' = FALSE /\ senderNumber' = 0 /\ poseTimestamps' = Empty
  /\ lastMessageTime' = 0 /\ silenceReported' = FALSE /\ told' = 0
  /\ made' = <<>> /\ life' = 0
  /\ opens' = opens + 1
  /\ UNCHANGED <<connections, call, events>>

-----------------------------------------------------------------------------
(* _AcceptMessage                                                           *)

\* The first decoded frame of a connection after one that delivered frames.
BeginsAgain == newConnection /\ deliveredAny

\* The sender's numbering went back, or stood still.
WentBack(message) ==
  ~newConnection /\ haveSenderNumber /\ message.number <= senderNumber

RestartTold(message) == BeginsAgain \/ WentBack(message)

\* What the sender is known by, whatever becomes of its frame.
Numbering(message) ==
  /\ senderNumber' = message.number /\ haveSenderNumber' = TRUE
  /\ newConnection' = FALSE
  /\ life' = life + (IF RestartTold(message) THEN 1 ELSE 0)

TimestampsBefore(message) == IF RestartTold(message) THEN Empty ELSE poseTimestamps

Mismatched(message) == Profile # AnyProfile /\ message.profile # Profile

Regressed(message) ==
  \E actor \in DOMAIN message.poses \cap DOMAIN TimestampsBefore(message) :
    message.poses[actor] <= TimestampsBefore(message)[actor]

\* Fault: only the first actor's pose is remembered.
RememberOne(message) ==
  LET one == CHOOSE a \in DOMAIN message.poses : TRUE
  IN  (one :> message.poses[one]) @@ TimestampsBefore(message)

Remember(message) ==
  LET before == TimestampsBefore(message)
  IN  [a \in DOMAIN message.poses \cup DOMAIN before |->
         IF a \in DOMAIN message.poses THEN message.poses[a] ELSE before[a]]

Undecodable(message) ==
  /\ message = Garbage
  /\ UNCHANGED <<buffer, state, sender, deliveredAny, poseTimestamps, made, life>>

Dropped(message) ==
  /\ message # Garbage
  /\ Mismatched(message) \/ Regressed(message)
  /\ Numbering(message)
  /\ poseTimestamps' = TimestampsBefore(message)
  /\ UNCHANGED <<buffer, state, deliveredAny, made>>

Delivered(message) ==
  /\ message # Garbage
  /\ ~Mismatched(message) /\ ~Regressed(message)
  /\ Numbering(message)
  /\ poseTimestamps' = Remember(message)
  /\ made' = Append(made, [life |-> life', poses |-> message.poses])
  /\ deliveredAny' = TRUE
  /\ Buffer!Push
  /\ state' = IF rejectedFrames' = rejectedFrames THEN "Connected" ELSE "Degraded"

Heard(time) == lastMessageTime' = time /\ silenceReported' = FALSE /\ told' = 0

AcceptMessage(message, time) ==
  /\ events < MaxMessages /\ events' = events + 1
  /\ Heard(time)
  /\ Undecodable(message) \/ Dropped(message) \/ Delivered(message)

-----------------------------------------------------------------------------
(* Poll and PushMessage.                                                    *)

PollBuffered ==
  /\ Idle /\ Buffer!Poll
  /\ UNCHANGED <<state, peer, link, call, assembly, silence, made, life, events, opens>>

\* Only an empty buffer and no error lead to the endpoint; its listener may
\* turn out to have failed, which leaves the peer in session alone.
PollBegin ==
  /\ Idle /\ frames = <<>> /\ endpoint # "closed" /\ state # "Error"
  /\ call' = "Poll"
  /\ endpoint' \in {endpoint, "failed"}
  /\ state' = IF endpoint' = "failed" THEN "Error" ELSE state
  /\ UNCHANGED <<buffer, peer, inSession, clock, connections, assembly, silence, made, life,
                 events, opens>>

\* _BeginConnection
BeginConnection(newPeer) ==
  peer' = newPeer /\ newConnection' = TRUE /\ haveSenderNumber' = FALSE

\* A peer accepted before the listener failed may still open.
PeerOpened(newPeer) ==
  /\ call = "Poll" /\ inSession = NoPeer
  /\ connections < MaxConnections /\ connections' = connections + 1
  /\ inSession' = newPeer
  /\ BeginConnection(newPeer)
  /\ Heard(clock)
  /\ UNCHANGED <<buffer, state, endpoint, clock, call, pushPeerSeen, senderNumber, deliveredAny,
                 poseTimestamps, made, life, events, opens>>

PeerMessage(message) ==
  /\ call = "Poll" /\ inSession # NoPeer
  /\ AcceptMessage(message, clock)
  /\ UNCHANGED <<peer, link, call, pushPeerSeen, opens>>

PeerClosed ==
  /\ call = "Poll" /\ inSession # NoPeer
  /\ inSession' = NoPeer /\ peer' = NoPeer
  /\ state' = IF state = "Error" THEN "Error" ELSE "Connecting"
  /\ call' = "PollEnded"
  /\ UNCHANGED <<buffer, endpoint, clock, connections, assembly, silence, made, life, events, opens>>

\* Fault: the report is made on every Poll of the episode.
SilenceDueAgain == SilenceTimeout > 0 /\ clock >= lastMessageTime + SilenceTimeout

SilenceDue == SilenceTimeout > 0 /\ ~silenceReported /\ clock >= lastMessageTime + SilenceTimeout

\* _CheckSilence
CheckSilence ==
  /\ silenceReported' = (silenceReported \/ SilenceDue)
  /\ told' = told + (IF SilenceDue THEN 1 ELSE 0)
  /\ state' = IF SilenceDue /\ state = "Connected" THEN "Degraded" ELSE state

PollReturns ==
  /\ call \in {"Poll", "PollEnded"}
  /\ call' = "none"
  /\ CheckSilence
  /\ IF frames = <<>> THEN UNCHANGED buffer ELSE Buffer!Poll
  /\ UNCHANGED <<peer, link, assembly, lastMessageTime, made, life, events, opens>>

\* The replay path asks nothing of the connector's state: a change of peer is a
\* new connection, and the time is the host's.
PushBegin(from) ==
  /\ Idle /\ opens > 0 /\ events < MaxMessages
  /\ call' = "Push"
  /\ IF pushPeerSeen /\ from = peer
     THEN UNCHANGED <<peer, pushPeerSeen, newConnection, haveSenderNumber>>
     ELSE pushPeerSeen' = TRUE /\ BeginConnection(from)
  /\ UNCHANGED <<buffer, state, link, senderNumber, deliveredAny, poseTimestamps, silence, made,
                 life, events, opens>>

PushAccept(message, time) ==
  /\ call = "Push"
  /\ call' = "none"
  /\ AcceptMessage(message, time)
  /\ UNCHANGED <<peer, link, pushPeerSeen, opens>>

Next ==
  \/ Tick
  \/ Close
  \/ OpenRefused
  \/ \E requested \in RequestedCapacities, chosen \in Buffer!BufferMode, listening \in BOOLEAN :
       Open(requested, chosen, listening)
  \/ PollBuffered
  \/ PollBegin
  \/ \E newPeer \in Peers : PeerOpened(newPeer)
  \/ \E message \in Messages \cup {Garbage} : PeerMessage(message)
  \/ PeerClosed
  \/ PollReturns
  \/ \E from \in Peers \cup {NoPeer} : PushBegin(from)
  \/ \E message \in Messages \cup {Garbage}, time \in 0..MaxClock : PushAccept(message, time)

Spec == Init /\ [][Next]_vars

-----------------------------------------------------------------------------

\* A pose never goes back in time: an actor's timestamps strictly increase over
\* the frames offered to the buffer, from one told restart of the sender to the
\* next, across dropped frames, reconnections and replayed messages.
PoseTimesAdvance ==
  \A i, j \in 1..Len(made) :
    (i < j /\ made[i].life = made[j].life) =>
      \A actor \in DOMAIN made[i].poses \cap DOMAIN made[j].poses :
        made[i].poses[actor] < made[j].poses[actor]

\* A silence is told once, until a message or a new connection ends it, and no
\* link is Connected while its silence stands told.
SilenceToldOnce == told <= 1 /\ (state = "Connected" => told = 0)

\* What the connector promises of the stream it hands on.
StreamIsHonest == PoseTimesAdvance /\ SilenceToldOnce

-----------------------------------------------------------------------------
(* What the documents say and the code does not do.                         *)

\* The contract's state table: Poll yields nothing while Connecting.
ConnectingPromisesNoFrame == (state = "Connecting" /\ Idle) => frames = <<>>

\* The session table: a listening socket that failed is an Error, which Close
\* and Open recover from.
ListenerFailureIsError ==
  [][(endpoint = "failed" /\ endpoint' = "failed" /\ state = "Error" /\ call # "Push") =>
       state' \in {"Error", "Disconnected"}]_vars
=============================================================================
