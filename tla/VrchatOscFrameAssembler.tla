----------------------- MODULE VrchatOscFrameAssembler -----------------------
(***************************************************************************)
(* motionConnectorVrchatOsc's TrackerFrameAssembler                        *)
(* (libs/motionConnectorVrchatOsc/src/FrameAssembler.cpp).  The wire has   *)
(* no clock: a frame ends when a channel comes round again, when the next  *)
(* datagram arrives too late, when the peer changes, or at a flush.  One   *)
(* Push is the action that begins it and an action for each message of its *)
(* packet.  A place is a point on a line; a rotation is only there or not. *)
(* Left out: what a frame derives from its samples (its head, how many are *)
(* half filled) and the counters of it.                                    *)
(***************************************************************************)
EXTENDS Integers, FiniteSets, Sequences

CONSTANTS
  Packets,        \* the decoded packets pushed: sequences of messages
  Peers, NoPeer,  \* who a caller may name; NoPeer is the empty string
  Advances,       \* how far receive time moves from one Push to the next
  FrameWindow, Staleness, SourceTimeout, Jump,  \* TrackerFrameConfig, 0 is off
  NotFinite,      \* a value the conversion refuses
  None,
  MaxPackets, MaxResets  \* bounds

ASSUME ConfigAssumption ==
  FrameWindow \in Nat /\ Staleness \in Nat /\ SourceTimeout \in Nat /\ Jump \in Nat
ASSUME InputAssumption ==
  /\ Advances \subseteq Nat /\ NoPeer \notin Peers /\ None \notin Nat
  /\ \A packet \in Packets : packet \in Seq({packet[i] : i \in 1..Len(packet)})

Reasons == {"repeat", "gap", "restart", "flush"}

VARIABLES
  frame,              \* _frame: its channels, and which packet brought each; or NoFrame
  lastSeen,           \* _lastSeen; its domain is _observed
  reportedStale, lastPosition, lastArrival, peer, pendingNewSession, packetSerial,
  closedBy,           \* framesClosedByRepeat and its three siblings
  messagesAccepted, messagesDuplicated, messagesRefused,
  stalenessCrossings, sourceTimeouts, sessionRestarts, calibrationDiscontinuities,
  messages, from,     \* what the Push in progress has still to read, and its peer
  emitted,            \* history: the frames appended to `frames`
  session, restarted, \* history: sessions so far, and those a new peer began
  resets              \* history

rig == <<lastSeen, reportedStale, lastPosition>>
stream == <<lastArrival, peer, packetSerial, from>>
tallies == <<messagesAccepted, messagesDuplicated, messagesRefused>>
closings == <<closedBy, emitted, stalenessCrossings, calibrationDiscontinuities>>
vars == <<frame, rig, stream, tallies, closings, pendingNewSession, sourceTimeouts,
          sessionRestarts, messages, session, restarted, resets>>

Empty == [x \in {} |-> 0]

\* A table written over by another: what `new` says, and `old` of the rest.
Over(new, old) ==
  [x \in DOMAIN new \cup DOMAIN old |-> IF x \in DOMAIN new THEN new[x] ELSE old[x]]

NoFrame == [receiveTime |-> None]

Init ==
  /\ frame = NoFrame /\ lastSeen = Empty /\ reportedStale = {} /\ lastPosition = Empty
  /\ lastArrival = None /\ peer = NoPeer /\ from = NoPeer
  /\ pendingNewSession = FALSE /\ packetSerial = 0
  /\ closedBy = [r \in Reasons |-> 0] /\ emitted = <<>>
  /\ messagesAccepted = 0 /\ messagesDuplicated = 0 /\ messagesRefused = 0
  /\ stalenessCrossings = 0 /\ calibrationDiscontinuities = 0
  /\ sourceTimeouts = 0 /\ sessionRestarts = 0
  /\ messages = <<>> /\ session = 0 /\ restarted = {} /\ resets = 0

-----------------------------------------------------------------------------
(* _Close: the open frame against what the session has seen.                *)

Carried == {key[1] : key \in DOMAIN frame.channels}

Missing == DOMAIN lastSeen \ Carried

\* Fault: a tracker is stale only once it is later than the horizon.
StaleBeyond ==
  {t \in Missing : Staleness > 0 /\ frame.receiveTime - lastSeen[t] > Staleness}

Stale == {t \in Missing : Staleness > 0 /\ frame.receiveTime - lastSeen[t] >= Staleness}

\* Fault: a tracker that came back keeps its mark.
ReportedForGood == reportedStale \cup Stale

ReportedAfter == (reportedStale \ Carried) \cup Stale

Distance(a, b) == IF a < b THEN b - a ELSE a - b

\* The trackers with a position in this frame and in any before it.
Comparable == DOMAIN frame.position \cap DOMAIN lastPosition

FollowsDiscontinuity ==
  /\ Jump > 0 /\ Cardinality(Comparable) >= 2
  /\ \A t \in Comparable : Distance(frame.position[t], lastPosition[t]) > Jump

EmitFrame(reason) ==
  /\ closedBy' = [closedBy EXCEPT ![reason] = @ + 1]
  /\ stalenessCrossings' = stalenessCrossings + Cardinality(Stale \ reportedStale)
  /\ calibrationDiscontinuities' =
       calibrationDiscontinuities + (IF FollowsDiscontinuity THEN 1 ELSE 0)
  /\ emitted' = Append(emitted,
       [session |-> session, receiveTime |-> frame.receiveTime, peer |-> frame.peer,
        carried |-> Carried, position |-> frame.position,
        missing |-> Missing, stale |-> Stale,
        beginsNewSession |-> frame.beginsNewSession,
        followsDiscontinuity |-> FollowsDiscontinuity])

Learn ==
  /\ lastSeen' = Over([t \in Carried |-> frame.receiveTime], lastSeen)
  /\ reportedStale' = ReportedAfter
  /\ lastPosition' = Over(frame.position, lastPosition)

-----------------------------------------------------------------------------
(* Push: what comes before the messages.                                    *)

Restarts(sender) == sender # NoPeer /\ peer # NoPeer /\ sender # peer

Gap(time) == frame # NoFrame /\ FrameWindow > 0 /\ time - frame.receiveTime > FrameWindow

Silence(time) ==
  lastArrival # None /\ SourceTimeout > 0 /\ time - lastArrival > SourceTimeout

\* The old session's frame closes with what that session knew, which is then
\* forgotten.
PushRestart ==
  /\ IF frame = NoFrame THEN UNCHANGED closings ELSE EmitFrame("restart")
  /\ frame' = NoFrame
  /\ lastSeen' = Empty /\ reportedStale' = {} /\ lastPosition' = Empty
  /\ sessionRestarts' = sessionRestarts + 1
  /\ pendingNewSession' = TRUE
  /\ session' = session + 1 /\ restarted' = restarted \cup {session + 1}

PushLate ==
  /\ EmitFrame("gap") /\ Learn /\ frame' = NoFrame
  /\ UNCHANGED <<sessionRestarts, pendingNewSession, session, restarted>>

PushBegin(packet, sender, time) ==
  /\ messages = <<>> /\ packetSerial < MaxPackets
  /\ packetSerial' = packetSerial + 1
  /\ messages' = packet /\ from' = sender
  /\ sourceTimeouts' = sourceTimeouts + (IF Silence(time) THEN 1 ELSE 0)
  /\ \/ Restarts(sender) /\ PushRestart
     \/ ~Restarts(sender) /\ Gap(time) /\ PushLate
     \/ ~Restarts(sender) /\ ~Gap(time)
        /\ UNCHANGED <<frame, rig, closings, sessionRestarts, pendingNewSession, session, restarted>>
  /\ peer' = IF sender = NoPeer THEN peer ELSE sender
  /\ lastArrival' = time
  /\ UNCHANGED <<tallies, resets>>

-----------------------------------------------------------------------------
(* Push: one message.                                                       *)

Message == Head(messages)
Key == <<Message.tracker, Message.channel>>

Readable == Message.channel \in {"position", "rotation"}
InFrame == frame # NoFrame /\ Key \in DOMAIN frame.channels
Repeated == InFrame /\ frame.channels[Key] = packetSerial
ComesRound == InFrame /\ frame.channels[Key] # packetSerial

MessageDone ==
  /\ messages' = Tail(messages)
  /\ UNCHANGED <<stream, sourceTimeouts, sessionRestarts, session, restarted, resets>>

MessageUnreadable ==
  /\ messages # <<>> /\ ~Readable
  /\ messagesRefused' = messagesRefused + 1
  /\ MessageDone
  /\ UNCHANGED <<frame, rig, closings, pendingNewSession, messagesAccepted, messagesDuplicated>>

MessageDuplicate ==
  /\ messages # <<>> /\ Readable /\ Repeated
  /\ messagesDuplicated' = messagesDuplicated + 1
  /\ MessageDone
  /\ UNCHANGED <<frame, rig, closings, pendingNewSession, messagesAccepted, messagesRefused>>

\* The cycle came round again, which the code looks at before the value: a
\* message it then refuses has closed the frame all the same.
CloseOnRepeat ==
  IF ComesRound THEN EmitFrame("repeat") /\ Learn ELSE UNCHANGED <<rig, closings>>

MessageNotFinite ==
  /\ messages # <<>> /\ Readable /\ ~Repeated /\ Message.value = NotFinite
  /\ CloseOnRepeat
  /\ frame' = IF ComesRound THEN NoFrame ELSE frame
  /\ messagesRefused' = messagesRefused + 1
  /\ MessageDone
  /\ UNCHANGED <<pendingNewSession, messagesAccepted, messagesDuplicated>>

\* _Open
Opened == [receiveTime |-> lastArrival, peer |-> from,
           beginsNewSession |-> pendingNewSession,
           channels |-> Empty, position |-> Empty]

\* Fault: the mark of a restart is not consumed by the frame that carries it.
PendingStill(opens) == pendingNewSession

PendingAfter(opens) == pendingNewSession /\ ~opens

MessageAccepted ==
  /\ messages # <<>> /\ Readable /\ ~Repeated /\ Message.value # NotFinite
  /\ CloseOnRepeat
  /\ LET opens == frame = NoFrame \/ ComesRound
         base == IF opens THEN Opened ELSE frame
     IN  /\ frame' = [base EXCEPT
                        !.channels = Over([key \in {Key} |-> packetSerial], @),
                        !.position = IF Message.channel = "position"
                                     THEN Over([t \in {Message.tracker} |-> Message.value], @)
                                     ELSE @]
         /\ pendingNewSession' = PendingAfter(opens)
  /\ messagesAccepted' = messagesAccepted + 1
  /\ MessageDone
  /\ UNCHANGED <<messagesDuplicated, messagesRefused>>

PushMessage == MessageUnreadable \/ MessageDuplicate \/ MessageNotFinite \/ MessageAccepted

Flush ==
  /\ messages = <<>> /\ frame # NoFrame
  /\ EmitFrame("flush") /\ Learn /\ frame' = NoFrame
  /\ UNCHANGED <<stream, tallies, pendingNewSession, sourceTimeouts, sessionRestarts, messages,
                 session, restarted, resets>>

\* The tallies and the packet serial survive.
Reset ==
  /\ messages = <<>> /\ resets < MaxResets
  /\ frame' = NoFrame /\ lastSeen' = Empty /\ reportedStale' = {} /\ lastPosition' = Empty
  /\ lastArrival' = None /\ peer' = NoPeer /\ pendingNewSession' = FALSE
  /\ session' = session + 1 /\ resets' = resets + 1
  /\ UNCHANGED <<packetSerial, from, tallies, closings, sourceTimeouts, sessionRestarts,
                 messages, restarted>>

Times == {(IF lastArrival = None THEN 0 ELSE lastArrival) + d : d \in Advances}

Next ==
  \/ \E packet \in Packets, sender \in Peers \cup {NoPeer}, time \in Times :
       PushBegin(packet, sender, time)
  \/ PushMessage
  \/ Flush
  \/ Reset

Spec == Init /\ [][Next]_vars

-----------------------------------------------------------------------------

\* The frames emitted before frame i in its session.
Before(i) == {j \in 1..(i - 1) : emitted[j].session = emitted[i].session}

\* Absence is judged by the session alone: what a frame lacks is what earlier
\* frames of its session carried, and it is stale when the newest of them that
\* carried it is as old as the horizon, whatever an earlier session had seen.
AbsenceIsTheSessions ==
  \A i \in 1..Len(emitted) :
    LET seen == UNION {emitted[j].carried : j \in Before(i)}
    IN  /\ emitted[i].missing = seen \ emitted[i].carried
        /\ emitted[i].stale =
             {t \in emitted[i].missing :
                /\ Staleness > 0
                /\ \A j \in Before(i) : t \in emitted[j].carried =>
                     emitted[i].receiveTime - emitted[j].receiveTime >= Staleness}

\* The frames before i in its session that placed tracker t.
Placing(i, t) == {j \in Before(i) : t \in DOMAIN emitted[j].position}

\* So is a recalibration: a frame follows one when it places two trackers its
\* session has placed before, and all it has stand too far from where the newest
\* frame of the session that placed them did, wherever an earlier session's were
\* and however many frames without a place lie between.
JumpsAreTheSessions ==
  \A i \in 1..Len(emitted) :
    LET comparable == {t \in DOMAIN emitted[i].position : Placing(i, t) # {}}
    IN  emitted[i].followsDiscontinuity <=>
          /\ Jump > 0 /\ Cardinality(comparable) >= 2
          /\ \A t \in comparable : \A j \in Placing(i, t) :
               (\A k \in Placing(i, t) : k <= j) =>
                 Distance(emitted[i].position[t], emitted[j].position[t]) > Jump

\* Each time a tracker falls silent is counted once: a crossing is a frame that
\* calls it stale where the frame before, in its session, did not.
Crossings ==
  {x \in (1..Len(emitted)) \X UNION {emitted[i].stale : i \in 1..Len(emitted)} :
     /\ x[2] \in emitted[x[1]].stale
     /\ \A j \in Before(x[1]) :
          (\A k \in Before(x[1]) : k <= j) => x[2] \notin emitted[j].stale}

CrossingsCountedOnce == stalenessCrossings = Cardinality(Crossings)

\* A new peer is announced on the first frame that opens after it, however many
\* packets carry nothing this layer accepts, and on no other frame.
RestartsAnnounced ==
  \A i \in 1..Len(emitted) :
    emitted[i].beginsNewSession <=> (emitted[i].session \in restarted /\ Before(i) = {})

-----------------------------------------------------------------------------
(* What the header says and the code does not do.                           *)

\* "every observed tracker that had a position in the previous frame moves
\* further than calibrationJumpMeters between consecutive frames": a jump is
\* seen on trackers that both of two consecutive frames placed.
DiscontinuityIsConsecutive ==
  \A i \in 2..Len(emitted) : emitted[i].followsDiscontinuity =>
    Cardinality(DOMAIN emitted[i].position \cap DOMAIN emitted[i - 1].position) >= 2

\* "A frame closed by both counts once, under the repeat": a datagram that is
\* late and begins by repeating a channel of the open frame.
BothCountsAsRepeat ==
  [][(packetSerial' > packetSerial /\ closedBy'["gap"] > closedBy["gap"] /\ messages' # <<>>) =>
       <<Head(messages').tracker, Head(messages').channel>> \notin DOMAIN frame.channels]_vars
=============================================================================
