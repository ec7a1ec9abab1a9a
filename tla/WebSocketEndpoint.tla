-------------------------- MODULE WebSocketEndpoint --------------------------
(***************************************************************************)
(* The socket side of motionConnectorWebSocket: Endpoint.cpp with the      *)
(* Session of each of its connections, and FrameSender.cpp, which is this   *)
(* endpoint and a codec.  One Service is the action that begins it, one    *)
(* for each accepted connection, one for each peer, and the one that ends   *)
(* it.  A frame on the wire is two units, so that a socket can take half of *)
(* one; what arrives is the sequence of whole heads and frames a session    *)
(* makes of its bytes.  Time is relative: ages and waits, capped where      *)
(* nothing tells them apart any more.                                       *)
(***************************************************************************)
EXTENDS Naturals, Sequences, FiniteSets, SequencesExt

CONSTANTS
  Configs,             \* of Config
  PeerLimit,           \* _maxPeers
  PeerQueueMessages,   \* 0 stands for 1
  AcceptsPerService,   \* kAcceptsPerService
  MaxLingering,        \* kMaxLingering
  LingerTime,          \* kLingerSeconds
  HandshakeTimeout,    \* handshakeTimeoutSeconds
  ReconnectInitial, ReconnectMax,
  MaxOpens, MaxOwed    \* bounds; MaxOwed of the pongs of a peer

Items == {"hello", "badhello", "longhead", "text", "ping", "close", "fault"}

\* What an endpoint is opened with and what is asked of it: its role and the items
\* it reads from one peer in one Service; what peers send; and, bounds, the
\* connections there are and the frames given to Enqueue.
Config ==
  [role : {"Listen", "Connect"}, readBudget : Nat \ {0}, arrivals : SUBSET Items,
   connections : Nat, sends : Nat]

EndpointAssumption ==
  /\ Configs \subseteq Config
  /\ PeerLimit \in Nat \ {0}
  /\ (\E c \in Configs : c.role = "Connect") => PeerLimit = 1
  /\ ReconnectInitial \in Nat \ {0}
  /\ ReconnectMax \in Nat /\ ReconnectMax >= ReconnectInitial
  /\ PeerQueueMessages \in Nat /\ HandshakeTimeout \in Nat /\ LingerTime \in Nat

VARIABLES
  config,                  \* _config, which every Open is given
  isOpen, listening, failed, peers, lingering,
  wait,                    \* _nextAttempt - Now(), or 0
  backoff, connectFailureReported,
  call, turn,              \* how far the running Service is, "none" outside one
  sends,                   \* frames given to Enqueue: frame n is the n-th
  opens, connections,      \* history, for the bounds; a connection's number
  events,                  \* history: what Service reported last, from the one before
  since, failures,         \* history: time and failures since the last opening
  refusals                 \* history: refusals told since the last opening

dialling == <<wait, backoff, connectFailureReported, since, failures, refusals>>
vars == <<config, isOpen, listening, failed, peers, lingering, dialling, call, turn, sends,
          opens, connections, events>>

Role == config.role
ReadBudget == config.readBudget
Arrivals == config.arrivals

Least(a, b) == IF a < b THEN a ELSE b
Greatest(a, b) == IF a < b THEN b ELSE a

Frame(kind, number) == [kind |-> kind, number |-> number]
Units(frame) == <<[frame |-> frame, part |-> 1], [frame |-> frame, part |-> 2]>>

Request == Frame("request", 0)
Answer == Frame("answer", 0)
Refusal == Frame("refusal", 0)
Pong == Frame("pong", 0)
CloseFrame == Frame("close", 0)
Text(n) == Frame("text", n)

NewPeer(id, connecting) ==
  [id |-> id, connecting |-> connecting, age |-> 0, phase |-> "Handshake", open |-> FALSE,
   out |-> IF Role = "Connect" THEN Units(Request) ELSE <<>>,
   queue |-> <<>>, sent |-> 0, dropped |-> 0, done |-> FALSE,
   joined |-> 0,   \* history: frames sent before its handshake
   wire |-> <<>>]  \* history: of the units its socket took, see Took

Clear ==
  /\ peers' = <<>> /\ lingering' = <<>>
  /\ call' = "none" /\ turn' = 0

InitOf(c) ==
  /\ config = c
  /\ isOpen = FALSE /\ listening = FALSE /\ failed = FALSE
  /\ peers = <<>> /\ lingering = <<>>
  /\ wait = 0 /\ backoff = ReconnectInitial /\ connectFailureReported = FALSE
  /\ since = 0 /\ failures = 0 /\ refusals = 0
  /\ call = "none" /\ turn = 0 /\ sends = 0 /\ opens = 0 /\ connections = 0
  /\ events = <<>>

Init == \E c \in Configs : InitOf(c)

Idle == call = "none"

Tick ==
  /\ isOpen /\ call \in {"none", "peers"}
  /\ wait' = IF wait = 0 THEN 0 ELSE wait - 1
  /\ since' = IF Role = "Connect" THEN Least(since + 1, ReconnectMax) ELSE since
  /\ peers' = [i \in DOMAIN peers |->
                 [peers[i] EXCEPT !.age = Least(@ + 1, HandshakeTimeout + 1)]]
  /\ lingering' = [i \in DOMAIN lingering |->
                     [lingering[i] EXCEPT !.left = IF @ = 0 THEN 0 ELSE @ - 1]]
  /\ <<wait, since, peers, lingering>>' # <<wait, since, peers, lingering>>
  /\ UNCHANGED <<config, isOpen, listening, failed, backoff, connectFailureReported, failures,
                 refusals, call, turn, sends, opens, connections, events>>

-----------------------------------------------------------------------------
(* Open and Close.                                                          *)

\* Open closes first.  A port that cannot be bound, or an address that is not
\* numeric, leaves the endpoint closed.
Open(possible) ==
  /\ Idle /\ opens < MaxOpens
  /\ Clear
  /\ isOpen' = possible /\ listening' = (possible /\ Role = "Listen") /\ failed' = FALSE
  /\ wait' = 0 /\ backoff' = ReconnectInitial /\ connectFailureReported' = FALSE
  /\ since' = 0 /\ failures' = 0 /\ refusals' = 0
  /\ events' = <<>>
  /\ opens' = opens + 1
  /\ UNCHANGED <<config, sends, connections>>

\* Each open peer's socket is given a going-away frame once and is closed: no
\* state is left that could tell.
Close ==
  /\ Idle /\ isOpen
  /\ Clear
  /\ isOpen' = FALSE /\ listening' = FALSE
  /\ UNCHANGED <<config, failed, dialling, sends, opens, connections, events>>

\* Enqueue: a full queue loses its oldest message, which has not started.
QueueBound == Greatest(PeerQueueMessages, 1)

\* Fault: a full queue refuses the newest instead.
QueuedNewestLost(peer, n) ==
  IF Len(peer.queue) < QueueBound
  THEN [peer EXCEPT !.queue = Append(@, n)]
  ELSE [peer EXCEPT !.dropped = @ + 1]

Queued(peer, n) ==
  LET lost == IF Len(peer.queue) < QueueBound THEN 0 ELSE Len(peer.queue) - QueueBound + 1
  IN  [peer EXCEPT !.queue = Append(SubSeq(@, lost + 1, Len(@)), n), !.dropped = @ + lost]

\* WebSocketFrameSender::Send of a frame that encodes within the bound.
Send ==
  /\ Idle /\ isOpen /\ sends < config.sends
  /\ sends' = sends + 1
  /\ peers' = [i \in DOMAIN peers |->
                 IF peers[i].open /\ ~peers[i].done THEN Queued(peers[i], sends') ELSE peers[i]]
  /\ UNCHANGED <<config, isOpen, listening, failed, lingering, dialling, call, turn, opens,
                 connections, events>>

-----------------------------------------------------------------------------
(* Service: the listener and the dialler.                                   *)

Join(connecting) ==
  /\ connections < config.connections
  /\ connections' = connections + 1
  /\ peers' = Append(peers, NewPeer(connections', connecting))

\* _ScheduleRetry after the failures so far, from the backoff the call finds.
Retry(from, before) ==
  IF Role = "Connect"
  THEN /\ wait' = from /\ backoff' = Least(2 * from, ReconnectMax)
       /\ since' = 0 /\ failures' = Least(before + 1, ReconnectMax)
  ELSE UNCHANGED <<wait, backoff, since, failures>>

\* _ConnectFailed
ConnectFailed ==
  /\ Retry(backoff, failures)
  /\ connectFailureReported' = TRUE
  /\ UNCHANGED refusals

ServiceBegin ==
  /\ Idle /\ isOpen
  /\ turn' = 1
  /\ UNCHANGED <<config, isOpen, listening, failed, lingering, sends, opens, events>>
  /\ \/ /\ Role = "Listen"
        /\ call' = "accept"
        /\ UNCHANGED <<peers, connections, dialling>>
     \/ /\ Role = "Connect" /\ (peers # <<>> \/ wait > 0)
        /\ call' = "peers"
        /\ UNCHANGED <<peers, connections, dialling>>
     \/ /\ Role = "Connect" /\ peers = <<>> /\ wait = 0   \* _StartConnect
        /\ call' = "peers"
        /\ \/ \E connecting \in BOOLEAN : Join(connecting) /\ UNCHANGED dialling
           \/ ConnectFailed /\ UNCHANGED <<peers, connections>>

\* _Linger
Lingering(id, out, wire) ==
  IF Len(lingering) >= MaxLingering THEN lingering
  ELSE Append(lingering, [id |-> id, out |-> out, left |-> LingerTime, wire |-> wire])

\* Fault: only a peer whose handshake is done counts.
FullOfOpenPeers == Len(SelectSeq(peers, LAMBDA p : p.open)) >= PeerLimit

Full == Len(peers) >= PeerLimit

\* _Accept: turn counts the connections of this Service.
AcceptPeer ==
  /\ call = "accept" /\ listening /\ turn <= AcceptsPerService
  /\ ~Full
  /\ Join(FALSE)
  /\ turn' = turn + 1
  /\ UNCHANGED <<config, isOpen, listening, failed, lingering, dialling, call, sends, opens,
                 events>>

AcceptRefused ==
  /\ call = "accept" /\ listening /\ turn <= AcceptsPerService
  /\ Full
  /\ lingering' = Lingering(0, Units(Refusal), <<>>)
  /\ turn' = turn + 1
  /\ UNCHANGED <<config, isOpen, listening, failed, peers, dialling, call, sends, opens,
                 connections, events>>

\* Nobody waits any more, the socket failed, or the limit is reached.
AcceptEnds ==
  /\ call = "accept"
  /\ \/ UNCHANGED <<listening, failed>>
     \/ listening /\ turn <= AcceptsPerService /\ listening' = FALSE /\ failed' = TRUE
  /\ call' = "peers" /\ turn' = 1
  /\ UNCHANGED <<config, isOpen, peers, lingering, dialling, sends, opens, connections, events>>

-----------------------------------------------------------------------------
(* Service: a peer.  A reading is the peer, what it reported and how many    *)
(* of its handshakes completed and were refused.                            *)

Batches == UNION {[1..n -> Arrivals] : n \in 0..ReadBudget}

Ended(peer, out) == [peer EXCEPT !.phase = "Ended", !.out = @ \o out]

\* Session::Next on one item.  What the phase has no case for is an incomplete
\* head, an unsolicited pong or part of a frame.
Handshake(reading, item) ==
  LET peer == reading.peer
  IN  CASE item = "hello" ->
             [reading EXCEPT
                !.peer = [peer EXCEPT !.phase = "Open", !.open = TRUE, !.joined = sends,
                                      !.out = IF Role = "Listen" THEN @ \o Units(Answer) ELSE @],
                !.events = Append(@, [kind |-> "PeerOpened", id |-> peer.id]),
                !.opened = TRUE, !.refused = 0]
        [] item = "badhello" ->
             [reading EXCEPT
                !.peer = Ended(peer, IF Role = "Listen" THEN Units(Refusal) ELSE <<>>),
                !.refused = @ + 1]
        [] item = "longhead" ->
             [reading EXCEPT !.peer = Ended(peer, <<>>), !.refused = @ + 1]
        [] OTHER -> reading

Framing(reading, item) ==
  LET peer == reading.peer
  IN  CASE item = "text" ->
             [reading EXCEPT !.events = Append(@, [kind |-> "Message", id |-> peer.id])]
        [] item = "ping" -> [reading EXCEPT !.peer.out = @ \o Units(Pong)]
        [] item \in {"close", "fault"} ->
             [reading EXCEPT !.peer = Ended(peer, Units(CloseFrame))]
        [] OTHER -> reading

Receive(reading, item) ==
  CASE reading.peer.phase = "Handshake" -> Handshake(reading, item)
    [] reading.peer.phase = "Open" -> Framing(reading, item)
    [] OTHER -> reading

Reading(peer, batch) ==
  FoldLeft(Receive, [peer |-> peer, events |-> <<>>, opened |-> FALSE, refused |-> 0], batch)

\* Units(...) of every message still queued.
QueueUnits(queue) ==
  [u \in 1..2 * Len(queue) |->
     LET message == (u + 1) \div 2
     IN  Units(Text(queue[message]))[u + 2 - 2 * message]]

Owed(peer) == peer.out \o (IF peer.open THEN QueueUnits(peer.queue) ELSE <<>>)

\* The history of a socket that takes these units after the last message and
\* the last frame it took.
Took(wire, units) ==
  LET text == SelectLastInSeq(wire, LAMBDA u : u.part = 1 /\ u.frame.kind = "text")
      last == SelectLastInSeq(wire, LAMBDA u : u.part = 1)
      kept == SubSeq(wire, Greatest(last, 1), Len(wire))
  IN  IF units = <<>> THEN wire
      ELSE (IF text \in {0, last} THEN kept ELSE SubSeq(wire, text, text + 1) \o kept) \o units

\* Fault: a message leaves the queue only when the socket has all of it.
StartedWhenDone(peer, n) ==
  IF n < Len(peer.out) \/ ~peer.open THEN 0 ELSE (n - Len(peer.out)) \div 2

\* Messages that start when the socket takes n units: a message starts as soon
\* as what is before it is gone, and from then on it is never dropped.
Started(peer, n) ==
  IF n < Len(peer.out) \/ ~peer.open THEN 0
  ELSE Least((n - Len(peer.out)) \div 2 + 1, Len(peer.queue))

\* _Flush into a socket that takes n units.
Flushed(peer, n) ==
  LET k == Started(peer, n)
  IN  [peer EXCEPT !.out = SubSeq(@ \o QueueUnits(SubSeq(peer.queue, 1, k)), n + 1,
                                  Len(@) + 2 * k),
                   !.queue = SubSeq(@, k + 1, Len(@)), !.sent = @ + k,
                   !.wire = Took(@, SubSeq(Owed(peer), 1, n))]

Served(peer) == peers' = [peers EXCEPT ![turn] = peer]

Report(more) ==
  events' = SubSeq(events, Greatest(1, Len(events)), Len(events)) \o more

\* _Retire and what it reports after the events of the reading.
Retire(reading, linger) ==
  /\ Served([reading.peer EXCEPT !.open = FALSE, !.done = TRUE, !.out = <<>>])
  /\ Report(reading.events \o (IF reading.peer.open
                                THEN <<[kind |-> "PeerClosed", id |-> reading.peer.id]>> ELSE <<>>))
  /\ lingering' = IF linger /\ reading.peer.out # <<>>
                  THEN Lingering(reading.peer.id, reading.peer.out, reading.peer.wire) ELSE lingering

\* Fault: the backoff starts again whenever something was read.
BackoffOnTraffic(reading) ==
  IF Role = "Connect" /\ reading.peer.phase # "Handshake" THEN ReconnectInitial ELSE backoff

\* Only a completed handshake ends an episode.
BackoffAfter(reading) ==
  IF Role = "Connect" /\ reading.opened THEN ReconnectInitial ELSE backoff

ReportedAfter(reading) ==
  connectFailureReported /\ ~(Role = "Connect" /\ reading.opened)

RefusalsAfter(reading, more) ==
  Least((IF reading.opened THEN 0 ELSE refusals) + reading.refused + more, 2)

\* The peer's end: a retry is due, and a peer told nothing is refused.
Ends(reading, linger, more) ==
  /\ Retry(BackoffAfter(reading), IF reading.opened THEN 0 ELSE failures)
  /\ connectFailureReported' = ReportedAfter(reading)
  /\ refusals' = RefusalsAfter(reading, more)
  /\ Retire(reading, linger)

Stays(reading) ==
  /\ backoff' = BackoffAfter(reading) /\ UNCHANGED <<wait, since>>
  /\ connectFailureReported' = ReportedAfter(reading)
  /\ refusals' = RefusalsAfter(reading, 0)
  /\ failures' = IF reading.opened THEN 0 ELSE failures
  /\ Report(reading.events)
  /\ UNCHANGED lingering

Overdue(peer) == peer.age > HandshakeTimeout

Unopened(peer) == IF peer.open THEN 0 ELSE 1

\* FinishConnect, still in progress or failed; _ServicePeer returns.
ServiceConnecting ==
  /\ call = "peers" /\ turn <= Len(peers)
  /\ peers[turn].connecting
  /\ turn' = turn + 1
  /\ \/ ~Overdue(peers[turn]) /\ UNCHANGED <<peers, dialling>>
     \/ Served([peers[turn] EXCEPT !.done = TRUE]) /\ ConnectFailed
  /\ UNCHANGED <<config, isOpen, listening, failed, lingering, call, sends, opens, connections,
                 events>>

\* _ServicePeer on a connection that is made, or that FinishConnect has made.
Made(peer) == IF peer.connecting THEN [peer EXCEPT !.connecting = FALSE, !.age = 0] ELSE peer

ServicePeer(batch) ==
  /\ call = "peers" /\ turn <= Len(peers)
  /\ \A i \in DOMAIN batch : batch[i] = "ping" => Len(peers[turn].out) < MaxOwed
  /\ turn' = turn + 1
  /\ LET reading == Reading(Made(peers[turn]), batch)
         peer == reading.peer
     IN  \/ peer.phase = "Ended" /\ Ends(reading, TRUE, 0)
         \/ /\ peer.phase # "Ended" /\ Len(batch) < ReadBudget    \* the stream ended
            /\ Ends(reading, FALSE, Unopened(peer))
         \/ /\ peer.phase # "Ended" /\ ~peer.open /\ Overdue(peer)
            /\ Ends(reading, FALSE, 1)
         \/ /\ peer.phase # "Ended" /\ (peer.open \/ ~Overdue(peer))
            /\ \E n \in 0..Len(Owed(peer)) :
                 \/ Served(Flushed(peer, n)) /\ Stays(reading)
                 \/ n < Len(Owed(peer)) /\ Ends(reading, FALSE, Unopened(peer))  \* reset
  /\ UNCHANGED <<config, isOpen, listening, failed, call, sends, opens, connections>>

-----------------------------------------------------------------------------
(* Service: the end, and the lingering connections.                         *)

\* Fault: an answer is given all the time it needs to be delivered.
DueWhenDelivered(entry) == entry.left = 0 /\ entry.out = <<>>

Due(entry) == entry.left = 0

\* remove_if: the indices that stay, in their order.
InOrder(stays) ==
  {order \in [1..Cardinality(stays) -> stays] :
     \A i, j \in DOMAIN order : i < j => order[i] < order[j]}

\* _ServiceLingering: each entry's socket takes taken[i] units; a due entry, one
\* whose write failed, and one that answered and found the peer gone, are closed.
ServiceEnd(taken, gone) ==
  /\ call = "peers" /\ turn > Len(peers)
  /\ call' = "none" /\ turn' = 0
  /\ \E order \in InOrder({i \in DOMAIN peers : ~peers[i].done}) :
       peers' = [i \in DOMAIN order |-> peers[order[i]]]
  /\ LET kept(i) == [lingering[i] EXCEPT !.out = SubSeq(@, taken[i] + 1, Len(@)),
                                         !.wire = Took(@, SubSeq(lingering[i].out, 1, taken[i]))]
     IN  \E order \in InOrder({i \in DOMAIN lingering : ~Due(lingering[i]) /\ i \notin gone}) :
           lingering' = [i \in DOMAIN order |-> kept(order[i])]
  /\ UNCHANGED <<config, isOpen, listening, failed, dialling, sends, opens, connections, events>>

\* Nothing, a part, or all of what an entry still owes.
LingeringTakes ==
  {f \in [DOMAIN lingering -> {0, 1} \cup {Len(lingering[i].out) : i \in DOMAIN lingering}] :
     \A i \in DOMAIN lingering : f[i] \in {0, Least(1, Len(lingering[i].out)), Len(lingering[i].out)}}

Service ==
  \/ ServiceBegin
  \/ AcceptEnds
  \/ ServiceConnecting
  \/ \E batch \in Batches : ServicePeer(batch)
  \/ \E taken \in LingeringTakes, gone \in SUBSET DOMAIN lingering : ServiceEnd(taken, gone)

Next ==
  \/ Tick
  \/ \E possible \in BOOLEAN : Open(possible)
  \/ Close
  \/ Send
  \/ AcceptPeer
  \/ AcceptRefused
  \/ Service

Spec == Init /\ [][Next]_vars

\* The connector and the sender are driven by their caller: a host that keeps
\* polling, and time that passes, are all that is assumed of it.
FairSpec == Spec /\ SF_vars(Tick) /\ WF_vars(Service)

-----------------------------------------------------------------------------

\* What a socket took is whole frames in order, the last one maybe in part:
\* nothing is cut out of a frame that started, messages keep their order, and
\* nothing follows a close.
WholeFrames(wire) ==
  \A i \in DOMAIN wire :
    /\ wire[i].part = IF i = 1 THEN 1 ELSE 3 - wire[i - 1].part
    /\ wire[i].part = 2 => wire[i].frame = wire[i - 1].frame
    /\ wire[i].part = 1 =>
         \A j \in 1..i - 1 :
           /\ wire[j].frame # CloseFrame
           /\ (wire[i].frame.kind = "text" /\ wire[j].frame.kind = "text") =>
                wire[j].frame.number < wire[i].frame.number

WireIsWholeFrames ==
  /\ \A i \in DOMAIN peers : WholeFrames(peers[i].wire)
  /\ \A i \in DOMAIN lingering : WholeFrames(lingering[i].wire)

\* An open peer's queue is the newest messages since it joined, within its
\* bound, and each older one was sent or counted as dropped for that peer.
QueueIsTheNewest ==
  \A i \in DOMAIN peers :
    LET peer == peers[i]
    IN  peer.open =>
          /\ Len(peer.queue) <= QueueBound
          /\ \A k \in DOMAIN peer.queue : peer.queue[k] = sends - Len(peer.queue) + k
          /\ peer.sent + peer.dropped + Len(peer.queue) = sends - peer.joined

\* What a slow peer is sent, and what it loses, is its own.
PeersGetTheirFrames == WireIsWholeFrames /\ QueueIsTheNewest

\* A receiving endpoint reports one session at a time: an opening, that peer's
\* messages, its end, and only then another opening.
EventsNest ==
  \A i \in DOMAIN events :
    i > 1 =>
      IF events[i].kind = "PeerOpened" THEN events[i - 1].kind = "PeerClosed"
      ELSE events[i - 1].kind # "PeerClosed" /\ events[i - 1].id = events[i].id

\* Between two completed handshakes the attempts of a connect role are spaced by
\* the backoff, doubled for each failure up to the most, however they failed.
AttemptsSpaced ==
  [][(Role = "Connect" /\ connections' # connections /\ failures > 0) =>
       since >= Least(ReconnectInitial * 2^(failures - 1), ReconnectMax)]_vars

\* A connection whose handshake never completes, and one that is only owed its
\* last answer, give up their place: none is a stranger forever.
Stranger(c) ==
  \/ \E i \in DOMAIN peers : peers[i].id = c /\ ~peers[i].open
  \/ \E i \in DOMAIN lingering : lingering[i].id = c

StrangersLeave == \A c \in UNION {1..k.connections : k \in Configs} : []<>~Stranger(c)

-----------------------------------------------------------------------------
(* What the documents say and the code does not do.                         *)

\* A refused connection is reported once per episode.
RefusalToldOnce == Role = "Connect" => refusals <= 1

=============================================================================
