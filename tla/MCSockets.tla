------------------------------ MODULE MCSockets ------------------------------
(***************************************************************************)
(* The two socket layers: UdpReceiver, and under the WebSocket carrier         *)
(* TcpSockets and Endpoint, here as a listener whose peers come and go.  They  *)
(* share no state, so a behaviour is one of theirs: the variable part says     *)
(* which, and the others stay as they are after their constructors.            *)
(***************************************************************************)
EXTENDS UdpReceiver

CONSTANTS
  Parts,                                             \* the components a run explores
  Streams, Handles, Candidates, MaxBytes,
  Configs, PeerLimit, PeerQueueMessages, AcceptsPerService, MaxLingering, LingerTime,
  HandshakeTimeout, ReconnectInitial, ReconnectMax, MaxOwed

VARIABLES
  part,
  stream, listener, bound, descriptors, nonBlocking, shut, sentOn, offered, write, told,
  config, isOpen, listening, failed, peers, lingering, wait, backoff, connectFailureReported,
  servicing, turn, sends, openings, connections, events, since, failures, refusals

tcpVars == <<stream, listener, bound, descriptors, nonBlocking, shut, sentOn, offered, write,
             told>>
endpointVars == <<config, isOpen, listening, failed, peers, lingering, wait, backoff,
                  connectFailureReported, servicing, turn, sends, openings, connections,
                  events, since, failures, refusals>>
mcVars == <<part, vars, tcpVars, endpointVars>>

Tcp == INSTANCE TcpSockets
         WITH socket <- stream, open <- descriptors, wire <- sentOn, call <- write,
              status <- told
Endpoint == INSTANCE WebSocketEndpoint
              WITH MaxOpens <- 1, call <- servicing, opens <- openings

ASSUME TcpAssumption == Tcp!HandleAssumption /\ Tcp!BytesAssumption
ASSUME EndpointAssumption == Endpoint!EndpointAssumption

\* Two peers that greet, greet wrongly, speak too early or close.
Strangers ==
  {[role |-> "Listen", readBudget |-> 1, arrivals |-> {"hello", "badhello", "text", "close"},
    connections |-> 2, sends |-> 0]}

MCInit == part \in Parts /\ Init /\ Tcp!Init /\ Endpoint!Init

InUdp(action) == part = "udp" /\ action /\ UNCHANGED <<part, tcpVars, endpointVars>>
InTcp(action) == part = "tcp" /\ action /\ UNCHANGED <<part, vars, endpointVars>>
InEndpoint(action) == part = "endpoint" /\ action /\ UNCHANGED <<part, vars, tcpVars>>

MCNext == InUdp(Next) \/ InTcp(Tcp!Next) \/ InEndpoint(Endpoint!Next)

\* The fairness of UdpReceiver's FairSpec and of Endpoint!FairSpec.
MCSpec ==
  /\ MCInit /\ [][MCNext]_mcVars
  /\ WF_mcVars(InUdp(Tick)) /\ WF_mcVars(InUdp(ReceiveStep))
  /\ SF_mcVars(InEndpoint(Endpoint!Tick)) /\ WF_mcVars(InEndpoint(Endpoint!Service))

-----------------------------------------------------------------------------

\* Each descriptor the process holds is one stream's or the listener's, never
\* blocks, and has carried its caller's bytes once and in order.
StreamsOwnTheirSockets == Tcp!StreamsOwnTheirSockets

\* A peer that never completes its handshake, and one that is only owed its last
\* answer, give up their place.
StrangersLeave == Endpoint!StrangersLeave
=============================================================================
