-------------------------------- MODULE Bridge --------------------------------
(***************************************************************************)
(* motion_connect bridge (tools/motionConnect/src/Commands.cpp, RunBridge):   *)
(* frames of a live connector, or of a capture replayed through one, sent to  *)
(* whoever is connected.  The connector and the WebSocketFrameSender are      *)
(* their promises: a poll yields a frame or none, a service lets peers come   *)
(* and go and their queues drain.  The signal and the clock move between any  *)
(* two steps.  Failures to open are left out: nothing is done after one.      *)
(***************************************************************************)
EXTENDS Integers, Sequences, FiniteSets

CONSTANTS
  Endpoints,      \* where peers connect from
  Replays,        \* captures: the receive times of their records; <<>> is a live source
  MaxFrames,      \* --max-frames, 0 for no limit
  DrainTime,      \* how long queued frames are waited for
  QueueBound,     \* messages a peer's queue holds
  MaxLive,        \* bound: frames a live source makes
  MaxTime         \* bound

ReplaysAssumption == Replays \subseteq Seq(Nat)
LimitsAssumption == MaxFrames \in Nat /\ DrainTime \in Nat

VARIABLES
  pc,             \* "loop", "replay", "forward", "drain" or "done"
  after,          \* where forward() returns to
  interrupted, now,
  capture, record, replayStarted, elapsed, finished,
  upstream,       \* frames the connector holds
  state, lastState,
  connected, queued,       \* the sender's peers and their queues
  peers, frames, refused,
  drainStarted,
  printed,        \* history: lines "peer: +" less lines "peer: -", of each endpoint
  sent, made, flushed, pushedAt \* history

local == <<capture, record, replayStarted, elapsed, finished>>
sender == <<connected, queued>>
totals == <<frames, refused, sent>>
source == <<upstream, state, made>>
history == <<flushed, pushedAt>>
vars == <<pc, after, interrupted, now, local, source, lastState, sender, peers, totals,
          drainStarted, printed, history>>

Never == -1
Replay == capture # <<>>
States == {"disconnected", "connected", "error"}

Init ==
  /\ pc = "loop" /\ after = "loop" /\ interrupted = FALSE /\ now = 0
  /\ capture \in Replays /\ record = 0 /\ replayStarted = Never /\ elapsed = 0 /\ finished = FALSE
  /\ upstream = 0 /\ state = "disconnected" /\ lastState = "disconnected" /\ made = 0
  /\ connected = {} /\ queued = [p \in Endpoints |-> 0] /\ peers = {}
  /\ frames = 0 /\ refused = 0 /\ sent = 0 /\ drainStarted = Never
  /\ printed = [p \in Endpoints |-> 0] /\ flushed = 0 /\ pushedAt = <<>>

OnInterrupt ==
  /\ pc # "done" /\ ~interrupted /\ interrupted' = TRUE
  /\ UNCHANGED <<pc, after, now, local, source, lastState, sender, peers, totals, drainStarted,
                 printed, history>>

Tick ==
  /\ pc # "done" /\ now' = now + 1
  /\ now < MaxTime \/ (pc = "drain" /\ now < drainStarted + DrainTime)
  /\ UNCHANGED <<pc, after, interrupted, local, source, lastState, sender, peers, totals,
                 drainStarted, printed, history>>

\* Fault: the signal is not asked about.
StoppedByCount == MaxFrames # 0 /\ frames >= MaxFrames

\* stopped(), the duration being one more way for the interrupt to come.
Stopped == interrupted \/ (MaxFrames # 0 /\ frames >= MaxFrames)

-----------------------------------------------------------------------------
(* service() and reportSource()                                             *)

\* Peers of one service, told apart by their endpoints.
\* Fault: who left is told only when somebody came.
ToldWithTheNext(current) ==
  [p \in Endpoints |-> IF p \in current \ peers THEN 1
                       ELSE IF p \in peers \ current /\ current \ peers # {} THEN -1 ELSE 0]

Told(current) ==
  [p \in Endpoints |-> IF p \in current \ peers THEN 1 ELSE IF p \in peers \ current THEN -1 ELSE 0]

Service(waiting) ==
  \E current \in SUBSET Endpoints :
    /\ connected' = current /\ peers' = current
    /\ printed' = [p \in Endpoints |-> printed[p] + Told(current)[p]]
    /\ queued' \in {q \in [Endpoints -> 0..QueueBound] :
         \A p \in Endpoints : q[p] <= (IF p \in current /\ p \in connected THEN waiting[p] ELSE 0)}

ReportSource == lastState' = state'

-----------------------------------------------------------------------------
(* The loop                                                                 *)

Loop ==
  /\ pc = "loop" /\ ~Stopped /\ ~finished
  /\ Service(queued)
  /\ IF Replay THEN pc' = "replay" /\ UNCHANGED after
               ELSE pc' = "forward" /\ after' = "loop"
  /\ replayStarted' = IF Replay /\ replayStarted = Never /\ connected' # {} THEN now ELSE replayStarted
  /\ elapsed' = IF replayStarted' = Never THEN Never ELSE now - replayStarted'
  /\ UNCHANGED <<interrupted, now, capture, record, finished, source, lastState, totals,
                 drainStarted, history>>

LoopEnds ==
  /\ pc = "loop" /\ (Stopped \/ finished)
  /\ pc' = "drain" /\ drainStarted' = now
  /\ UNCHANGED <<after, interrupted, now, local, source, lastState, sender, peers, totals, printed,
                 history>>

\* A live connector yields frames when its sender sends; one that was never
\* opened holds the newest that a datagram completed.
Available == IF Replay THEN upstream > 0 ELSE made < MaxLive

\* A frame nobody can take, or whose peer's queue is full, is the sender's to
\* drop; one it cannot encode is refused.
ForwardFrame ==
  /\ pc = "forward" /\ ~Stopped /\ Available
  /\ frames' = frames + 1 /\ made' = made + 1
  /\ upstream' = IF Replay THEN upstream - 1 ELSE upstream
  /\ state' \in (IF Replay THEN {state} ELSE {"connected"})
  /\ \/ /\ refused' = refused + 1 /\ UNCHANGED sent /\ Service(queued)
     \/ /\ sent' = sent + 1 /\ UNCHANGED refused
        /\ Service([p \in Endpoints |-> IF p \in connected /\ queued[p] < QueueBound
                                        THEN queued[p] + 1 ELSE queued[p]])
  /\ ReportSource
  /\ UNCHANGED <<pc, after, interrupted, now, local, drainStarted, history>>

\* Stopped, or no frame: a live source may have changed its state meanwhile.
ForwardEnds ==
  /\ pc = "forward" /\ (Stopped \/ ~Replay \/ ~Available)
  /\ state' \in (IF Replay THEN {state} ELSE States) /\ ReportSource
  /\ pc' = after
  /\ UNCHANGED <<after, interrupted, now, local, upstream, made, sender, peers, totals, drainStarted,
                 printed, history>>

\* Fault: due by the clock of the tool, not of the first peer's arrival.
DueFromTheStart == record < Len(capture) /\ capture[record + 1] - capture[1] <= now

Due == record < Len(capture) /\ capture[record + 1] - capture[1] <= elapsed

PushReplay ==
  /\ pc = "replay" /\ replayStarted # Never /\ ~Stopped /\ Due
  /\ record' = record + 1
  /\ upstream' \in {upstream, 1}
  /\ pushedAt' = Append(pushedAt, now - replayStarted)
  /\ pc' = "forward" /\ after' = "replay"
  /\ state' = "connected"
  /\ UNCHANGED <<interrupted, now, capture, replayStarted, elapsed, finished, made, lastState, sender,
                 peers, totals, drainStarted, printed, flushed>>

\* What a capture's last datagram left open is completed once, at its end.
FlushReplay ==
  /\ pc = "replay" /\ replayStarted # Never /\ ~Due /\ ~Stopped /\ record = Len(capture)
  /\ upstream' \in {upstream, 1} /\ flushed' = flushed + 1
  /\ finished' = TRUE /\ pc' = "forward" /\ after' = "loop"
  /\ UNCHANGED <<interrupted, now, capture, record, replayStarted, elapsed, state, made, lastState,
                 sender, peers, totals, drainStarted, printed, pushedAt>>

ReplayWaits ==
  /\ pc = "replay"
  /\ replayStarted = Never \/ Stopped \/ (~Due /\ record < Len(capture))
  /\ pc' = "loop"
  /\ UNCHANGED <<after, interrupted, now, local, source, lastState, sender, peers, totals,
                 drainStarted, printed, history>>

-----------------------------------------------------------------------------
(* The end                                                                  *)

\* Queued frames are served before the close, bounded even for a stalled peer.
Drain ==
  /\ pc = "drain" /\ Service(queued)
  /\ pc' = IF (\A p \in connected' : queued'[p] = 0) \/ now - drainStarted >= DrainTime
           THEN "close" ELSE "drain"
  /\ UNCHANGED <<after, interrupted, now, local, source, lastState, totals, drainStarted, history>>

Close ==
  /\ pc = "close"
  /\ connected' = {} /\ printed' = [p \in Endpoints |-> printed[p] - (IF p \in peers THEN 1 ELSE 0)]
  /\ state' = "disconnected" /\ ReportSource
  /\ pc' = "done"
  /\ UNCHANGED <<after, interrupted, now, local, upstream, made, queued, peers, totals, drainStarted,
                 history>>

Next ==
  \/ OnInterrupt \/ Tick \/ Loop \/ LoopEnds \/ ForwardFrame \/ ForwardEnds
  \/ PushReplay \/ FlushReplay \/ ReplayWaits \/ Drain \/ Close

Spec == Init /\ [][Next]_vars

\* The tool's own steps; its loops test the clock, which keeps running.
Steps == Loop \/ LoopEnds \/ ForwardFrame \/ ForwardEnds \/ PushReplay \/ FlushReplay
         \/ ReplayWaits \/ Drain \/ Close
FairSpec == Spec /\ WF_vars(Steps) /\ WF_vars(Tick)

-----------------------------------------------------------------------------
(* Properties                                                               *)

\* Wherever the signal lands: every line "peer: +" has one "peer: -" after it
\* and no other, the last by the end; the last state line is the state; each frame polled was sent or refused;
\* a record is pushed in order, as late after the first peer's arrival as it
\* was recorded after the first record, and the flush comes once, after all
\* of them; and a message still queued at the close had its bounded second.
BridgeKeepsItsBooks ==
  /\ \A p \in Endpoints : printed[p] = (IF p \in peers /\ pc # "done" THEN 1 ELSE 0)
  /\ pc \in {"loop", "done"} => lastState = state
  /\ frames = sent + refused /\ (MaxFrames # 0 => frames <= MaxFrames)
  /\ Len(pushedAt) = record
  /\ \A i \in 1..record : pushedAt[i] >= capture[i] - capture[1]
  /\ flushed <= 1 /\ (flushed = 1 => record = Len(capture))
  /\ pc = "done" /\ (\E p \in peers : queued[p] > 0) => now - drainStarted >= DrainTime

\* An interrupt, or the end of a capture, ends the tool, whatever its peers do.
\* Both are for good, and so is the end.
InterruptEnds == []<>(interrupted \/ finished => pc = "done")
=============================================================================
