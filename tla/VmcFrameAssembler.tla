-------------------------- MODULE VmcFrameAssembler --------------------------
(***************************************************************************)
(* motionConnectorVmc's VmcFrameAssembler (libs/motionConnectorVmc/src/    *)
(* FrameAssembler.cpp): it decides where a frame begins and ends, which    *)
(* frame is too old to accept, and when a stream became another stream.    *)
(* Push walks a packet message by message; each message is an action, and  *)
(* a message that closes the open frame does so in the same step.          *)
(*                                                                         *)
(* A frame has one slot for every bone and `Others` for the root and the   *)
(* expression names.  Clock readings are whole seconds; the sender's may   *)
(* also be NotANumber, since nothing between the wire and here refuses it. *)
(***************************************************************************)
EXTENDS Integers, FiniteSets, SequencesExt

CONSTANTS
  Bones, Others,     \* slots a frame carries at most one sample of
  SenderTimes,       \* what /VMC/Ext/T may carry
  ReceiveTimes,      \* receive clock readings
  Staleness,         \* stalenessSeconds, 0 is off
  RestartBackwards,  \* restartBackwardsSeconds, 0 is off
  None,              \* an empty std::optional
  NotANumber,        \* a quiet NaN: no comparison with it holds
  MaxPackets,        \* bound: packets in a behaviour
  MaxMessages        \* bound: messages in a behaviour

Slots == Bones \cup Others

ASSUME SlotsAssumption == Bones \cap Others = {} /\ IsFiniteSet(Slots)
ASSUME TimesAssumption ==
  /\ SenderTimes \subseteq Int \cup {NotANumber}
  /\ ReceiveTimes \subseteq Int
  /\ None \notin Int /\ NotANumber \notin Int /\ None # NotANumber
ASSUME ThresholdsAssumption == Staleness \in Nat /\ RestartBackwards \in Nat
ASSUME BoundsAssumption == MaxPackets \in Nat /\ MaxMessages \in Nat

VARIABLES
  frame,          \* _frame: the open frame, or NoFrame
  observed,       \* _observed: the rig the session has shown
  reportedStale,  \* _reportedStale
  lastSeen,       \* _lastSeen
  lastAccepted,   \* _lastAccepted
  packetSerial,   \* _packetSerial
  receiveTime,    \* the argument of the Push in progress
  inPacket,       \* a Push is in progress
  framesRefusedEmpty, framesRefusedOutOfOrder, framesIncomplete,
  sessionRestarts, stalenessCrossings,
  samplesAccepted, samplesDuplicated, \* bones, roots and expressions together
  messagesSetAside, \* bonesUnsupported, the Malformed counters, messagesIgnored
  emitted,        \* history: the frames appended to `frames`, oldest first
  session,        \* history: how often a restart or a Reset began a new session
  messages,       \* history: messages so far
  clocks,         \* history: those of them that carried a clock
  named,          \* history: the slots the latest packet has named
  firstNamings    \* history: how often a packet named a slot for the first time

learned == <<observed, reportedStale, lastSeen, lastAccepted>>
packet == <<packetSerial, receiveTime, inPacket>>
closings == <<framesRefusedEmpty, framesRefusedOutOfOrder, framesIncomplete,
              sessionRestarts, stalenessCrossings, emitted, session>>
tallies == <<samplesAccepted, samplesDuplicated, messagesSetAside>>
pushed == <<messages, clocks, named, firstNamings>>
vars == <<frame, learned, packet, closings, tallies, pushed>>

\* `carriedBy[slot]` is the serial of the packet whose sample fills the slot, 0
\* when none does.
NoFrame == [open |-> FALSE, senderTime |-> None, receiveTime |-> 0,
            carriedBy |-> [slot \in Slots |-> 0], duplicateBones |-> 0]

\* _Open, with the receive clock of the packet in progress.
OpenFrame == [NoFrame EXCEPT !.open = TRUE, !.receiveTime = receiveTime]

Carried(f) == {slot \in Slots : f.carriedBy[slot] # 0}

Init ==
  /\ frame = NoFrame
  /\ observed = {} /\ reportedStale = {}
  /\ lastSeen = [bone \in Bones |-> 0]
  /\ lastAccepted = None
  /\ packetSerial = 0 /\ receiveTime = 0 /\ inPacket = FALSE
  /\ framesRefusedEmpty = 0 /\ framesRefusedOutOfOrder = 0 /\ framesIncomplete = 0
  /\ sessionRestarts = 0 /\ stalenessCrossings = 0
  /\ samplesAccepted = 0 /\ samplesDuplicated = 0 /\ messagesSetAside = 0
  /\ emitted = <<>> /\ session = 0
  /\ messages = 0 /\ clocks = 0 /\ named = {} /\ firstNamings = 0

-----------------------------------------------------------------------------
(* _Close: what becomes of the open frame.                                  *)

\* IEEE comparisons: false as soon as an operand is not a number.
NotAfter(a, b) == a # NotANumber /\ b # NotANumber /\ a <= b

Within(a, b, distance) == a # NotANumber /\ b # NotANumber /\ a - b <= distance

Timestamp == IF frame.senderTime # None THEN frame.senderTime ELSE frame.receiveTime

\* Fault: an equal timestamp is taken for an advance.
GoesBackwards ==
  lastAccepted # None /\ NotAfter(Timestamp, lastAccepted) /\ Timestamp # lastAccepted

DoesNotAdvance == lastAccepted # None /\ NotAfter(Timestamp, lastAccepted)

\* Fault: the restart threshold is not consulted.
RestartsOnAnyRegression == DoesNotAdvance /\ RestartBackwards > 0

Restarts ==
  /\ DoesNotAdvance
  /\ RestartBackwards > 0
  /\ ~Within(lastAccepted, Timestamp, RestartBackwards)

CloseEmpty ==
  /\ Carried(frame) = {}
  /\ framesRefusedEmpty' = framesRefusedEmpty + 1
  /\ UNCHANGED <<learned, framesRefusedOutOfOrder, framesIncomplete, sessionRestarts,
                 stalenessCrossings, emitted, session>>

CloseRegressed ==
  /\ Carried(frame) # {}
  /\ DoesNotAdvance /\ ~Restarts
  /\ framesRefusedOutOfOrder' = framesRefusedOutOfOrder + 1
  /\ UNCHANGED <<learned, framesRefusedEmpty, framesIncomplete, sessionRestarts,
                 stalenessCrossings, emitted, session>>

\* Fault: the rig survives a restart.
KnownRigForever == observed

\* Fault: the stale marks survive a restart.
KnownStaleForever == reportedStale

\* What of the session survives to the frame being closed.
KnownRig == IF Restarts THEN {} ELSE observed
KnownStale == IF Restarts THEN {} ELSE reportedStale

\* Fault: every slot is taken for a bone.
BareWithOthers == Carried(frame)

\* The bones the frame being closed carries.
Bare == Carried(frame) \cap Bones
Missing == KnownRig \ Bare
Stale == {bone \in Missing : Staleness > 0 /\ ~Within(Timestamp, lastSeen[bone], Staleness)}

CloseEmitted ==
  /\ Carried(frame) # {}
  /\ ~DoesNotAdvance \/ Restarts
  /\ observed' = KnownRig \cup Bare
  /\ reportedStale' = (KnownStale \cup Stale) \ Bare
  /\ lastSeen' = [bone \in Bones |-> IF bone \in Bare THEN Timestamp
                                     ELSE IF Restarts THEN 0 ELSE lastSeen[bone]]
  /\ lastAccepted' = Timestamp
  /\ stalenessCrossings' = stalenessCrossings + Cardinality(Stale \ KnownStale)
  /\ framesIncomplete' = IF Missing = {} THEN framesIncomplete ELSE framesIncomplete + 1
  /\ sessionRestarts' = IF Restarts THEN sessionRestarts + 1 ELSE sessionRestarts
  /\ session' = IF Restarts THEN session + 1 ELSE session
  /\ emitted' = Append(emitted, [timestamp |-> Timestamp,
                                 timestampFromSender |-> frame.senderTime # None,
                                 beginsNewSession |-> Restarts,
                                 session |-> session',
                                 carried |-> Carried(frame),
                                 duplicateBones |-> frame.duplicateBones,
                                 missing |-> Missing, stale |-> Stale])
  /\ UNCHANGED <<framesRefusedEmpty, framesRefusedOutOfOrder>>

Close == CloseEmpty \/ CloseRegressed \/ CloseEmitted

KeepFrame == UNCHANGED <<learned, closings>>

-----------------------------------------------------------------------------
(* Push, one message at a time; Flush; Reset.                               *)

BeginPacket(time) ==
  /\ packetSerial < MaxPackets
  /\ packetSerial' = packetSerial + 1
  /\ receiveTime' = time
  /\ inPacket' = TRUE
  /\ named' = {}
  /\ UNCHANGED <<frame, learned, closings, tallies, messages, clocks, firstNamings>>

Message ==
  /\ inPacket
  /\ messages < MaxMessages
  /\ messages' = messages + 1
  /\ UNCHANGED packet

\* A second clock ends the frame; the first one stamps it, wherever it arrives.
Time(seconds) ==
  /\ Message
  /\ \/ /\ frame.senderTime # None
        /\ Close
        /\ frame' = [OpenFrame EXCEPT !.senderTime = seconds]
     \/ /\ frame.senderTime = None
        /\ frame' = [(IF frame.open THEN frame ELSE OpenFrame) EXCEPT !.senderTime = seconds]
        /\ KeepFrame
  /\ clocks' = clocks + 1
  /\ UNCHANGED <<tallies, named, firstNamings>>

\* A repeat inside one packet is dropped, and the first value stands.
Duplicate(slot) ==
  /\ frame.carriedBy[slot] = packetSerial
  /\ frame' = [frame EXCEPT !.duplicateBones = @ + 1]
  /\ samplesDuplicated' = samplesDuplicated + 1
  /\ KeepFrame
  /\ UNCHANGED <<samplesAccepted, messagesSetAside>>

\* Fault: a repeat overwrites the sample in the open frame.
RepeatReplaces(slot) ==
  /\ frame.carriedBy[slot] \notin {0, packetSerial}
  /\ frame' = [frame EXCEPT !.carriedBy[slot] = packetSerial]
  /\ samplesAccepted' = samplesAccepted + 1
  /\ KeepFrame
  /\ UNCHANGED <<samplesDuplicated, messagesSetAside>>

\* A repeat from another packet ends the frame and begins the next.
Repeat(slot) ==
  /\ frame.carriedBy[slot] \notin {0, packetSerial}
  /\ Close
  /\ frame' = [OpenFrame EXCEPT !.carriedBy[slot] = packetSerial]
  /\ samplesAccepted' = samplesAccepted + 1
  /\ UNCHANGED <<samplesDuplicated, messagesSetAside>>

Join(slot) ==
  /\ frame.carriedBy[slot] = 0
  /\ frame' = [(IF frame.open THEN frame ELSE OpenFrame) EXCEPT !.carriedBy[slot] = packetSerial]
  /\ samplesAccepted' = samplesAccepted + 1
  /\ KeepFrame
  /\ UNCHANGED <<samplesDuplicated, messagesSetAside>>

Sample(slot) ==
  /\ Message
  /\ Duplicate(slot) \/ Repeat(slot) \/ Join(slot)
  /\ named' = named \cup {slot}
  /\ firstNamings' = IF slot \in named THEN firstNamings ELSE firstNamings + 1
  /\ UNCHANGED clocks

\* Model, Availability and Blend/Apply messages, and a bone or root that
\* MapVmcBoneTransform or MapVmcRootTransform refuses: counted, nothing else.
SetAside ==
  /\ Message
  /\ messagesSetAside' = messagesSetAside + 1
  /\ KeepFrame
  /\ UNCHANGED <<frame, samplesAccepted, samplesDuplicated, clocks, named, firstNamings>>

Flush ==
  /\ frame.open
  /\ Close
  /\ frame' = NoFrame
  /\ inPacket' = FALSE
  /\ UNCHANGED <<packetSerial, receiveTime, tallies, pushed>>

\* The tallies and the packet serial survive.
Reset ==
  /\ frame # NoFrame \/ lastAccepted # None
  /\ frame' = NoFrame
  /\ observed' = {} /\ reportedStale' = {}
  /\ lastSeen' = [bone \in Bones |-> 0]
  /\ lastAccepted' = None
  /\ inPacket' = FALSE
  /\ session' = session + 1
  /\ UNCHANGED <<packetSerial, receiveTime, framesRefusedEmpty, framesRefusedOutOfOrder,
                 framesIncomplete, sessionRestarts, stalenessCrossings, emitted, tallies, pushed>>

Next ==
  \/ \E time \in ReceiveTimes : BeginPacket(time)
  \/ \E seconds \in SenderTimes : Time(seconds)
  \/ \E slot \in Slots : Sample(slot)
  \/ SetAside
  \/ Flush
  \/ Reset

Spec == Init /\ [][Next]_vars

-----------------------------------------------------------------------------

Stamps == Int \cup {NotANumber}

Frame == [open : BOOLEAN, senderTime : Stamps \cup {None}, receiveTime : Int,
          carriedBy : [Slots -> Nat], duplicateBones : Nat]

EmittedFrame == [timestamp : Stamps, timestampFromSender : BOOLEAN,
                 beginsNewSession : BOOLEAN, session : Nat, carried : SUBSET Slots,
                 duplicateBones : Nat,
                 missing : SUBSET Bones, stale : SUBSET Bones]

\* What a Close may change, what the messages count, and the open frame.
ClosingType ==
  /\ observed \in SUBSET Bones /\ reportedStale \in SUBSET Bones
  /\ lastSeen \in [Bones -> Stamps]
  /\ lastAccepted \in Stamps \cup {None}
  /\ framesRefusedEmpty \in Nat /\ framesRefusedOutOfOrder \in Nat /\ framesIncomplete \in Nat
  /\ sessionRestarts \in Nat /\ stalenessCrossings \in Nat
  /\ emitted \in Seq(EmittedFrame)
  /\ session \in Nat

TallyType ==
  /\ packetSerial \in 0..MaxPackets /\ receiveTime \in Int /\ inPacket \in BOOLEAN
  /\ samplesAccepted \in Nat /\ samplesDuplicated \in Nat /\ messagesSetAside \in Nat
  /\ messages \in 0..MaxMessages /\ clocks \in Nat
  /\ named \in SUBSET Slots /\ firstNamings \in Nat

TypeOK == frame \in Frame /\ ClosingType /\ TallyType

\* Within a session the emitted timestamps strictly increase, whatever order,
\* duplication or loss the packets suffered: a duplicated delivery never becomes
\* a duplicated pose. Only a frame that says so begins a session on older ground.
StreamAdvances ==
  \A i, j \in 1..Len(emitted) :
    (i < j /\ emitted[i].session = emitted[j].session) =>
      ~NotAfter(emitted[j].timestamp, emitted[i].timestamp)

\* A restart is only claimed for a frame older than its predecessor by more than
\* the threshold, and never while restart detection is off.
RestartIsReal ==
  \A i \in 1..Len(emitted) :
    emitted[i].beginsNewSession =>
      /\ i > 1 /\ RestartBackwards > 0
      /\ emitted[i - 1].timestamp - emitted[i].timestamp > RestartBackwards
      /\ emitted[i].missing = {}

\* The rig frames are measured against is exactly what this session's emitted
\* frames carried: nothing of an earlier session, nothing of a refused frame.
RigIsTheSessions ==
  observed = UNION {emitted[i].carried \cap Bones :
                     i \in {k \in 1..Len(emitted) : emitted[k].session = session}}

\* A bone is on record as stale exactly while it is overdue: the crossing is
\* reported when it happens, and reported again only after the bone came back.
StaleExactlyWhenOverdue ==
  reportedStale =
    {bone \in observed : Staleness > 0 /\ ~Within(lastAccepted, lastSeen[bone], Staleness)}

\* What the assembler promises of every state while no sender clock is a NaN.
AssemblerInvariant ==
  TypeOK /\ StreamAdvances /\ RestartIsReal /\ RigIsTheSessions /\ StaleExactlyWhenOverdue

Total(numbers) == FoldLeft(LAMBDA sum, number : sum + number, 0, numbers)
SamplesIn(frames) == Total([i \in DOMAIN frames |-> Cardinality(frames[i].carried)])
DuplicatesIn(frames) == Total([i \in DOMAIN frames |-> frames[i].duplicateBones])

\* Every message is in one counter: a clock in none, any other in exactly one.
EveryMessageCounted == messages = clocks + samplesAccepted + samplesDuplicated + messagesSetAside

\* Only what a packet repeats may be a duplicate: the first sample a packet has
\* of a slot is accepted, whatever the open frame holds of other packets.
FirstsAreAccepted == firstNamings <= samplesAccepted

\* How often Reset was called: a session begins by it or by a restart.
Resets == session - sessionRestarts

\* An accepted sample is in the open frame or in one frame handed out, unless it
\* went down with a frame that framesRefusedOutOfOrder counts or a Reset dropped.
\* Each refused frame had a sample, and none more than one a slot.
SamplesAreInFrames ==
  LET gone == samplesAccepted - SamplesIn(emitted) - Cardinality(Carried(frame))
  IN  /\ framesRefusedOutOfOrder <= gone
      /\ gone <= Cardinality(Slots) * (framesRefusedOutOfOrder + Resets)

\* And a dropped repeat is told by the frame it was meant for, in the same way.
DuplicatesAreInFrames ==
  LET gone == samplesDuplicated - DuplicatesIn(emitted) - frame.duplicateBones
  IN  gone >= 0 /\ (framesRefusedOutOfOrder + Resets = 0 => gone = 0)

\* The tallies of samples and messages are what was pushed, and the frames handed
\* out hold what the tallies say, wherever a packet, a clock or a Reset cuts.
SamplesAccounted ==
  EveryMessageCounted /\ FirstsAreAccepted /\ SamplesAreInFrames /\ DuplicatesAreInFrames
=============================================================================
