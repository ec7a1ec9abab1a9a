----------------------------- MODULE MCWebSocket -----------------------------
(***************************************************************************)
(* The WebSocket carrier, top to bottom: WebSocketConnector makes frames of    *)
(* messages; WebSocketEndpoint keeps the peers, explored as a listener that    *)
(* sends, one that receives and a connect role; WebSocketFraming and           *)
(* WebSocketHandshake are what a peer's bytes go through.  Each takes the      *)
(* layer below as an arbitrary input, so a behaviour is one of theirs: the     *)
(* variable part says which, and the others stay as they begin.                *)
(***************************************************************************)
EXTENDS WebSocketConnector, FiniteSets, SequencesExt

CONSTANTS
  Parts,                                             \* the components a run explores
  Actor1, Actor2, Other,
  Configs, PeerLimit, PeerQueueMessages, AcceptsPerService, MaxLingering, LingerTime,
  HandshakeTimeout, ReconnectInitial, ReconnectMax, MaxOwed,
  Streams, MaxMessageBytes, Max7, Max16, Bytes16, Bytes64, BytesMask, Ascii, Lead, Trail,
  Requests, Answers, Path, AllowedOrigins, Subprotocol, Host, Key, ValidKeys

VARIABLES
  part,
  config, isOpen, listening, failed, peers, lingering, wait, backoff, connectFailureReported,
  servicing, turn, sends, openings, accepts, reports, since, failures, refusals,
  stream, arrived, next, offset, inMessage, message, stopped, read,
  request, response, server, client

endpointVars == <<config, isOpen, listening, failed, peers, lingering, wait, backoff,
                  connectFailureReported, servicing, turn, sends, openings, accepts, reports,
                  since, failures, refusals>>
framingVars == <<stream, arrived, next, offset, inMessage, message, stopped, read>>
handshakeVars == <<request, response, server, client>>
mcVars == <<part, vars, endpointVars, framingVars, handshakeVars>>

-----------------------------------------------------------------------------
(* Messages for the connector: two actors, either of which may be left out. *)

Sent(number, profile, poses) == [number |-> number, profile |-> profile, poses |-> poses]

Both(first, second) == (Actor1 :> first) @@ (Actor2 :> second)

\* A frame of both actors, the next one without the second, a later one in which
\* the second stands still, and one of another profile.
TwoActors ==
  {Sent(1, Profile, Both(1, 1)), Sent(2, Profile, Actor1 :> 2),
   Sent(3, Profile, Both(3, 1)), Sent(2, Other, Both(2, 2))}

-----------------------------------------------------------------------------
(* Endpoints: a peer that reads slowly, pings and leaves; three that talk to a *)
(* receiver of two items a read; a server that fails, refuses and closes.      *)

Endpoint == INSTANCE WebSocketEndpoint
              WITH MaxOpens <- 1, call <- servicing, opens <- openings,
                   connections <- accepts, events <- reports

ASSUME EndpointAssumption == Endpoint!EndpointAssumption

Sender ==
  [role |-> "Listen", readBudget |-> 1, arrivals |-> {"hello", "ping", "close"},
   connections |-> 1, sends |-> 3]
Receiver ==
  [role |-> "Listen", readBudget |-> 2, arrivals |-> {"hello", "text", "close"},
   connections |-> 3, sends |-> 0]
Dialler ==
  [role |-> "Connect", readBudget |-> 2, arrivals |-> {"hello", "badhello", "close"},
   connections |-> 4, sends |-> 0]

SmallConfigs == {Sender, Receiver, Dialler}

-----------------------------------------------------------------------------
(* Streams of up to two frames of thirty-nine kinds, or three of the plainer. *)

Framing == INSTANCE WebSocketFraming WITH ExpectMasked <- TRUE, events <- read

ASSUME FramingAssumption == Framing!FramingAssumption

\* What writes the streams; it reads none.
Writing == INSTANCE WebSocketFraming
             WITH Streams <- {}, ExpectMasked <- TRUE, events <- read

\* Whole texts, the halves of one, one of no text, one for each length form.
Halves == {<<Ascii, Lead>>, <<Trail, Ascii>>, <<Lead, Trail, Ascii>>}
Payloads == Halves \cup {<<>>, <<Ascii>>, <<Ascii, Ascii, Ascii, Ascii>>,
                         <<Ascii, Ascii, Ascii, Ascii, Ascii>>}

Pieces(payloads) ==
  {[Writing!AppendFrame(opcode, payload) EXCEPT !.fin = fin] :
     fin \in BOOLEAN, opcode \in {"Continuation", "Text"}, payload \in payloads}

Good == Writing!AppendFrame("Text", <<Ascii>>)
CloseOf(payload) == Writing!AppendFrame("Close", payload)
Ping == Writing!AppendFrame("Ping", <<>>)

Frames ==
  Pieces(Payloads) \cup {Ping, [Ping EXCEPT !.fin = FALSE]}
  \cup {Writing!AppendFrame("Pong", <<Ascii, Ascii, Ascii, Ascii>>),
        Writing!AppendFrame("Binary", <<>>), Writing!AppendFrame("reserved", <<>>)}
  \cup {[Good EXCEPT !.reserved = TRUE], [Good EXCEPT !.masked = FALSE],
        [Good EXCEPT !.form = 16], [Good EXCEPT !.form = 64]}
  \cup {CloseOf(<<>>), CloseOf(<<Ascii>>), CloseOf(<<Ascii, Ascii, Lead>>),
        [CloseOf(<<Ascii, Ascii>>) EXCEPT !.statusValid = FALSE]}

PlainFrames == Pieces({<<Ascii, Lead>>, <<Trail, Ascii>>, <<Ascii>>}) \cup {Ping, CloseOf(<<>>)}

Cut == [1..1 -> Frames] \cup [1..2 -> Frames] \cup [1..3 -> PlainFrames]

-----------------------------------------------------------------------------
(* Heads: the client's request with up to two changes, each of one header     *)
(* lost, doubled or replaced, and answers of other servers.                   *)

Handshake == INSTANCE WebSocketHandshake

\* What writes the heads; nothing reaches it.
Heads == INSTANCE WebSocketHandshake WITH Requests <- {}, Answers <- {}

Replaced(head, i, headers) ==
  [head EXCEPT !.headers = SubSeq(@, 1, i - 1) \o headers \o SubSeq(@, i, Len(@))]

Strange ==
  {Heads!Header("origin", <<"page">>), Heads!Header("origin", <<"stranger">>),
   Heads!Header("host", <<"other">>), Heads!Header("sec-websocket-protocol", <<"chat">>),
   Heads!Header("sec-websocket-version", <<"8">>), Heads!Header("sec-websocket-key", <<"short">>),
   Heads!Header("sec-websocket-extensions", <<"deflate">>),
   Heads!Header("connection", <<"keep-alive">>), Heads!Header("sec-websocket-accept", <<"other">>)}

Changed(head) ==
  {head, [head EXCEPT !.wellFormed = FALSE]}
  \cup {[head EXCEPT !.headers = RemoveAt(@, i)] : i \in DOMAIN head.headers}
  \cup {Replaced(head, i, <<header>>) : i \in {1, Len(head.headers) + 1}, header \in Strange}

Asked ==
  LET first == Heads!WriteUpgradeRequest(Path)
      lines == {first, [first EXCEPT !.target = "elsewhere"], [first EXCEPT !.method = "POST"]}
  IN  UNION {Changed(head) : head \in UNION {Changed(line) : line \in lines}}

Elsewhere ==
  Changed(Heads!Switching(Heads!WriteUpgradeRequest(Path))) \cup {Heads!Refuse(503)}

-----------------------------------------------------------------------------

MCInit ==
  /\ part \in Parts
  /\ Init
  /\ IF part = "endpoint" THEN Endpoint!Init ELSE Endpoint!InitOf(Sender)
  /\ IF part = "framing" THEN Framing!Init ELSE Framing!InitOf(<<Good>>)
  /\ IF part = "handshake" THEN Handshake!Init
     ELSE Handshake!InitOf(Heads!NoHead)

MCNext ==
  \/ part = "connector" /\ Next /\ UNCHANGED <<part, endpointVars, framingVars, handshakeVars>>
  \/ part = "endpoint" /\ Endpoint!Next /\ UNCHANGED <<part, vars, framingVars, handshakeVars>>
  \/ part = "framing" /\ Framing!Next /\ UNCHANGED <<part, vars, endpointVars, handshakeVars>>
  \/ part = "handshake" /\ Handshake!Next /\ UNCHANGED <<part, vars, endpointVars, framingVars>>

MCSpec == MCInit /\ [][MCNext]_mcVars

-----------------------------------------------------------------------------

\* What a socket took is whole frames in order, and what waits for a peer is the
\* newest messages since it joined, the rest sent or counted.
PeersGetTheirFrames == part = "endpoint" => Endpoint!PeersGetTheirFrames

\* An opening, that peer's messages and its end come before another opening.
EventsNest == part = "endpoint" => Endpoint!EventsNest

\* Attempts to connect are spaced by the doubled backoff, however they failed.
AttemptsSpaced == Endpoint!AttemptsSpaced

\* The events of a stream do not depend on how reads cut it, and a text that was
\* written is read.
FramingInvariant == part = "framing" => Framing!FramingInvariant

\* A page that is not let in learns nothing, and both ends open together.
HandshakeInvariant == part = "handshake" => Handshake!HandshakeInvariant
=============================================================================
