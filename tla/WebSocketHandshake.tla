-------------------------- MODULE WebSocketHandshake --------------------------
(***************************************************************************)
(* The opening handshake of motionConnectorWebSocket (Rfc6455.cpp): the     *)
(* upgrade request a client writes, the server's answer and the client's    *)
(* check of it.  A head is its start line and its headers in order; a        *)
(* header's value is the sequence of its comma-separated tokens, which the   *)
(* code compares without case where a token is meant.  A key is valid or     *)
(* not, and the accept value is the key it answers.                          *)
(***************************************************************************)
EXTENDS Naturals, Sequences, FiniteSets

CONSTANTS
  Requests,        \* what reaches the server
  Answers,         \* what other servers answer
  Path, AllowedOrigins, Subprotocol,
  Host, Key,       \* the client's
  ValidKeys        \* the keys that decode to 16 bytes

VARIABLES request, response, server, client

vars == <<request, response, server, client>>

Header(name, tokens) == [name |-> name, tokens |-> tokens]

\* The places of the headers of that name.
Named(head, name) == {i \in DOMAIN head.headers : head.headers[i].name = name}

CountHeader(head, name) == Cardinality(Named(head, name))

Has(head, name) == Named(head, name) # {}

\* The value of the first header of that name.
Find(head, name) ==
  head.headers[CHOOSE i \in Named(head, name) : \A j \in Named(head, name) : i <= j].tokens

\* Tokens: of every header of that name.
Tokens(head, name) ==
  UNION {{head.headers[i].tokens[k] : k \in DOMAIN head.headers[i].tokens} : i \in Named(head, name)}

ContainsToken(head, name, token) == token \in Tokens(head, name)

IsUpgrade(head) == ContainsToken(head, "upgrade", "websocket") /\ ContainsToken(head, "connection", "upgrade")

WriteUpgradeRequest(path) ==
  [wellFormed |-> TRUE, method |-> "GET", target |-> path,
   headers |-> <<Header("host", <<Host>>), Header("upgrade", <<"websocket">>),
                 Header("connection", <<"upgrade">>), Header("sec-websocket-key", <<Key>>),
                 Header("sec-websocket-version", <<"13">>),
                 Header("sec-websocket-protocol", <<Subprotocol>>)>>]

\* WriteHttpRefusal
Refuse(status) ==
  [wellFormed |-> TRUE, status |-> status,
   headers |-> (IF status = 400 THEN <<Header("sec-websocket-version", <<"13">>)>> ELSE <<>>)
               \o <<Header("connection", <<"close">>), Header("content-length", <<"0">>)>>]

\* One Origin, and on the list; a native peer has none.
OriginAllowed(head) ==
  Has(head, "origin") =>
    /\ CountHeader(head, "origin") = 1
    /\ \E origin \in AllowedOrigins : Find(head, "origin") = <<origin>>

\* Fault: the first protocol offered is the one selected.
SwitchingToFirst(head) ==
  [wellFormed |-> TRUE, status |-> 101,
   headers |-> <<Header("upgrade", <<"websocket">>), Header("connection", <<"upgrade">>),
                 Header("sec-websocket-accept", Find(head, "sec-websocket-key")),
                 Header("sec-websocket-protocol", <<Find(head, "sec-websocket-protocol")[1]>>)>>]

Switching(head) ==
  [wellFormed |-> TRUE, status |-> 101,
   headers |-> <<Header("upgrade", <<"websocket">>), Header("connection", <<"upgrade">>),
                 Header("sec-websocket-accept", Find(head, "sec-websocket-key")),
                 Header("sec-websocket-protocol", <<Subprotocol>>)>>]

Acceptable(head) ==
  /\ head.method = "GET" /\ IsUpgrade(head)
  /\ CountHeader(head, "host") = 1
  /\ CountHeader(head, "sec-websocket-version") = 1
  /\ Find(head, "sec-websocket-version") = <<"13">>
  /\ CountHeader(head, "sec-websocket-key") = 1
  /\ \E key \in ValidKeys : Find(head, "sec-websocket-key") = <<key>>
  /\ ContainsToken(head, "sec-websocket-protocol", Subprotocol)

\* Fault: the path is looked up before the origin is asked.
AnswerPathFirst(head) ==
  CASE ~head.wellFormed -> Refuse(400)
    [] head.target # Path -> Refuse(404)
    [] ~OriginAllowed(head) -> Refuse(403)
    [] OTHER -> IF Acceptable(head) THEN Switching(head) ELSE Refuse(400)

AnswerUpgrade(head) ==
  CASE ~head.wellFormed -> Refuse(400)
    [] head.wellFormed /\ ~OriginAllowed(head) -> Refuse(403)
    [] head.wellFormed /\ OriginAllowed(head) /\ head.target # Path -> Refuse(404)
    [] OTHER -> IF Acceptable(head) THEN Switching(head) ELSE Refuse(400)

CheckUpgradeResponse(head) ==
  /\ head.wellFormed /\ head.status = 101
  /\ IsUpgrade(head)
  /\ Has(head, "sec-websocket-accept") /\ Find(head, "sec-websocket-accept") = <<Key>>
  /\ CountHeader(head, "sec-websocket-protocol") = 1
  /\ Find(head, "sec-websocket-protocol") = <<Subprotocol>>
  /\ ~Has(head, "sec-websocket-extensions")

NoHead == [wellFormed |-> FALSE]

InitOf(given) ==
  request = given /\ response = NoHead /\ server = "handshake" /\ client = "handshake"

Init == \E given \in Requests : InitOf(given)

\* Session::Next on the server's side.
Answer ==
  /\ server = "handshake" /\ response = NoHead
  /\ response' = AnswerUpgrade(request)
  /\ server' = IF response'.status = 101 THEN "open" ELSE "ended"
  /\ UNCHANGED <<request, client>>

\* The address belongs to another server.
AnsweredElsewhere(head) ==
  /\ server = "handshake" /\ response = NoHead
  /\ response' = head
  /\ UNCHANGED <<request, server, client>>

\* Session::Next on the client's side.
Check ==
  /\ response # NoHead /\ client = "handshake"
  /\ client' = IF CheckUpgradeResponse(response) THEN "open" ELSE "ended"
  /\ UNCHANGED <<request, response, server>>

Next == Answer \/ (\E head \in Answers : AnsweredElsewhere(head)) \/ Check

Spec == Init /\ [][Next]_vars

\* A page that is not let in learns nothing: one answer for all its requests,
\* whatever the path, the protocol or the key.
StrangersLearnNothing ==
  (request.wellFormed /\ ~OriginAllowed(request) /\ response # NoHead /\ server # "handshake") =>
    response = Refuse(403)

\* This server and this client open together: a session the server opened for the
\* client's key is one the client accepts, and one the client accepts is opened.
OpenTogether ==
  (/\ server # "handshake" /\ client # "handshake"
   /\ Has(request, "sec-websocket-key") /\ Find(request, "sec-websocket-key") = <<Key>>) =>
    (server = "open") = (client = "open")

\* What the two ends promise each other and tell a stranger.
HandshakeInvariant == StrangersLearnNothing /\ OpenTogether
=============================================================================
