------------------------------ MODULE MCBuffers ------------------------------
(***************************************************************************)
(* What frames and datagrams wait in: FrameBuffer, DatagramQueue and the       *)
(* bridge of motion_connect.  The three share no state, so a behaviour is one  *)
(* of theirs: the variable part says which, and the other two stay as they     *)
(* are after their constructors.                                               *)
(***************************************************************************)
EXTENDS FrameBuffer

CONSTANTS
  Parts,                                             \* the components a run explores
  Consumers, MaxDatagrams, MaxBytes, Sizes, MaxQueued, MaxResets,
  Endpoints, Replays, MaxFrames, DrainTime, QueueBound, MaxLive, MaxTime

VARIABLES
  part,
  queued, queuedBytes, pushed, drained, dropped, highWaterMark, taken, out, arrived,
  displaced, discarded, window, resets,
  pc, after, interrupted, now, capture, record, replayStarted, elapsed, finished, upstream,
  state, lastState, connected, messages, peers, forwarded, refused, drainStarted, printed,
  sent, made, flushed, pushedAt

queueVars == <<queued, queuedBytes, pushed, drained, dropped, highWaterMark, taken, out,
               arrived, displaced, discarded, window, resets>>
bridgeVars == <<pc, after, interrupted, now, capture, record, replayStarted, elapsed,
                finished, upstream, state, lastState, connected, messages, peers, forwarded,
                refused, drainStarted, printed, sent, made, flushed, pushedAt>>
mcVars == <<part, vars, queueVars, bridgeVars>>

Queue == INSTANCE DatagramQueue WITH MaxPushes <- MaxQueued
Bridge == INSTANCE Bridge WITH frames <- forwarded, queued <- messages

ASSUME QueueAssumptions ==
  Queue!QueueLimitsAssumption /\ Queue!SizesAssumption /\ Queue!BoundsAssumption

ASSUME BridgeAssumptions == Bridge!ReplaysAssumption /\ Bridge!LimitsAssumption

\* A live source, and captures of two and three records.
SmallReplays == {<<>>, <<5, 5, 6>>, <<0, 2>>}

MCInit ==
  /\ part \in Parts
  /\ Init /\ (part # "buffer" => capacity = 2 /\ mode = "Latest")
  /\ Queue!Init
  /\ Bridge!Init /\ (part # "bridge" => capture = <<>>)

InQueue(action) == part = "queue" /\ action /\ UNCHANGED <<part, vars, bridgeVars>>
InBridge(action) == part = "bridge" /\ action /\ UNCHANGED <<part, vars, queueVars>>

MCNext ==
  \/ part = "buffer" /\ Next /\ UNCHANGED <<part, queueVars, bridgeVars>>
  \/ InQueue(Queue!Next)
  \/ InBridge(Bridge!Next)

\* The fairness of DatagramQueue!FairSpec and of Bridge!FairSpec.
MCSpec ==
  /\ MCInit /\ [][MCNext]_mcVars
  /\ \A c \in Consumers :
       WF_mcVars(InQueue(Queue!DrainSwap(c))) /\ WF_mcVars(InQueue(Queue!DrainMove(c)))
  /\ WF_mcVars(InBridge(Bridge!Steps)) /\ WF_mcVars(InBridge(Bridge!Tick))

-----------------------------------------------------------------------------

\* No datagram is lost, handed out twice or out of order, whatever the network
\* thread and the draining threads interleave, and the tally says what happened.
QueueInvariant == Queue!QueueInvariant

\* Every datagram queued reaches a consumer unless it is displaced or cleared.
EventuallyHandedOut == Queue!EventuallyHandedOut

\* The bridge's report, its peer lines and its pacing are what happened, wherever
\* the signal lands.
BridgeKeepsItsBooks == Bridge!BridgeKeepsItsBooks

\* A signal, or the end of a capture, ends the tool, whatever its peers do.
InterruptEnds == Bridge!InterruptEnds
=============================================================================
