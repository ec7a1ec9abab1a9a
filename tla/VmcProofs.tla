----------------------------- MODULE VmcProofs ------------------------------
(***************************************************************************)
(* The VMC receiver, as MCVmc composes it: VmcFrameAssembler, for every    *)
(* rig, every threshold and any sequence of messages; DatagramConnector    *)
(* (Connector), for every capacity and mode; OscPacket (Osc), for every    *)
(* datagram.                                                               *)
(***************************************************************************)
EXTENDS MCVmc, FiniteSetTheorems, WellFoundedInduction, TLAPS

-----------------------------------------------------------------------------
(* Type correctness.                                                        *)

LEMMA FrameFacts ==
  ASSUME TypeOK
  PROVE  /\ NoFrame \in Frame /\ OpenFrame \in Frame
         /\ \A seconds \in SenderTimes :
              /\ [OpenFrame EXCEPT !.senderTime = seconds] \in Frame
              /\ [frame EXCEPT !.senderTime = seconds] \in Frame
         /\ \A slot \in Slots :
              /\ [OpenFrame EXCEPT !.carriedBy[slot] = packetSerial] \in Frame
              /\ [frame EXCEPT !.carriedBy[slot] = packetSerial] \in Frame
         /\ [frame EXCEPT !.duplicateBones = @ + 1] \in Frame /\ frame.duplicateBones \in Nat
         /\ Timestamp \in Stamps
         /\ IsFiniteSet(Carried(frame)) /\ Cardinality(Carried(frame)) \in Nat
         /\ Carried(frame) \in SUBSET Slots /\ Bare \in SUBSET Bones
<1>1. NoFrame \in Frame /\ frame \in Frame
  BY DEF NoFrame, Frame, TypeOK
<1>2. receiveTime \in Int /\ packetSerial \in Nat
  BY BoundsAssumption DEF TypeOK, TallyType
<1>3. OpenFrame \in Frame
  BY <1>1, <1>2 DEF OpenFrame, Frame
<1>4. SenderTimes \subseteq Stamps \cup {None}
  BY TimesAssumption DEF Stamps
<1>5. ASSUME NEW f \in Frame, NEW seconds \in SenderTimes
      PROVE  [f EXCEPT !.senderTime = seconds] \in Frame
  BY <1>4 DEF Frame
<1>6. ASSUME NEW f \in Frame, NEW slot \in Slots
      PROVE  [f EXCEPT !.carriedBy[slot] = packetSerial] \in Frame
  BY <1>2 DEF Frame
<1>7. Timestamp \in Stamps
  BY <1>1 DEF Timestamp, Frame, Stamps
<1>10. [frame EXCEPT !.duplicateBones = @ + 1] \in Frame /\ frame.duplicateBones \in Nat
  BY <1>1 DEF Frame
<1>8. Carried(frame) \subseteq Slots /\ Bare \subseteq Bones
  BY DEF Carried, Bare
<1>9. IsFiniteSet(Carried(frame)) /\ Cardinality(Carried(frame)) \in Nat
  BY <1>8, SlotsAssumption, FS_Subset, FS_CardinalityType
<1> QED BY <1>1, <1>3, <1>5, <1>6, <1>7, <1>8, <1>9, <1>10

LEMMA CloseTypes == ASSUME TypeOK, Close PROVE ClosingType'
<1>1. ClosingType
  BY DEF TypeOK
<1>2. CASE CloseEmpty
  BY <1>1, <1>2 DEF CloseEmpty, ClosingType, learned
<1>3. CASE CloseRegressed
  BY <1>1, <1>3 DEF CloseRegressed, ClosingType, learned
<1>4. CASE CloseEmitted
  <2>1. /\ Timestamp \in Stamps /\ Bare \in SUBSET Bones /\ Carried(frame) \in SUBSET Slots
        /\ KnownRig \in SUBSET Bones /\ KnownStale \in SUBSET Bones
    BY <1>1, FrameFacts DEF KnownRig, KnownStale, ClosingType
  <2>2. Missing \in SUBSET Bones /\ Stale \in SUBSET Bones
    BY <2>1 DEF Missing, Stale
  <2>3. observed' \in SUBSET Bones /\ reportedStale' \in SUBSET Bones
    BY <1>4, <2>1, <2>2 DEF CloseEmitted
  <2>4. lastSeen' \in [Bones -> Stamps]
    <3>1. lastSeen \in [Bones -> Stamps] /\ 0 \in Stamps
      BY <1>1 DEF ClosingType, Stamps
    <3> QED BY <1>4, <2>1, <3>1 DEF CloseEmitted
  <2>5. lastAccepted' \in Stamps \cup {None}
    BY <1>4, <2>1 DEF CloseEmitted
  <2>6. session' \in Nat /\ sessionRestarts' \in Nat /\ framesIncomplete' \in Nat
    BY <1>1, <1>4 DEF CloseEmitted, ClosingType
  <2>7. stalenessCrossings' \in Nat
    <3>1. IsFiniteSet(Slots) /\ Stale \ KnownStale \subseteq Slots
      BY <2>2, SlotsAssumption DEF Slots
    <3>2. Cardinality(Stale \ KnownStale) \in Nat
      BY <3>1, FS_Subset, FS_CardinalityType
    <3> QED BY <1>1, <1>4, <3>2 DEF CloseEmitted, ClosingType
  <2>8. emitted' \in Seq(EmittedFrame)
    <3> DEFINE out == [timestamp |-> Timestamp,
                       timestampFromSender |-> frame.senderTime # None,
                       beginsNewSession |-> Restarts,
                       session |-> session',
                       carried |-> Carried(frame),
                       duplicateBones |-> frame.duplicateBones,
                       missing |-> Missing, stale |-> Stale]
    <3>1. Restarts \in BOOLEAN /\ frame.duplicateBones \in Nat
      BY FrameFacts DEF Restarts
    <3>2. out \in EmittedFrame
      BY <2>1, <2>2, <2>6, <3>1 DEF EmittedFrame
    <3>3. emitted \in Seq(EmittedFrame) /\ emitted' = Append(emitted, out)
      BY <1>1, <1>4 DEF CloseEmitted, ClosingType
    <3> HIDE DEF out
    <3> QED BY <3>2, <3>3
  <2>9. framesRefusedEmpty' \in Nat /\ framesRefusedOutOfOrder' \in Nat
    BY <1>1, <1>4 DEF CloseEmitted, ClosingType
  <2> QED BY <2>3, <2>4, <2>5, <2>6, <2>7, <2>8, <2>9 DEF ClosingType
<1> QED BY <1>2, <1>3, <1>4 DEF Close

LEMMA KeepFrameTypes == ASSUME TypeOK, KeepFrame PROVE ClosingType'
  BY DEF TypeOK, ClosingType, KeepFrame, learned, closings

LEMMA InitTypes == Init => TypeOK
<1> SUFFICES ASSUME Init PROVE TypeOK
  OBVIOUS
<1>1. frame \in Frame
  BY DEF Init, NoFrame, Frame
<1>2. ClosingType
  <2>1. emitted = <<>> /\ <<>> \in Seq(EmittedFrame)
    BY DEF Init
  <2>2. lastSeen \in [Bones -> Stamps] /\ lastAccepted \in Stamps \cup {None}
    BY DEF Init, Stamps
  <2> QED BY <2>1, <2>2 DEF Init, ClosingType
<1>3. TallyType
  <2>1. inPacket \in BOOLEAN
    BY DEF Init
  <2>2. packetSerial \in 0..MaxPackets /\ messages \in 0..MaxMessages /\ receiveTime \in Int
    BY BoundsAssumption DEF Init
  <2>3. /\ samplesAccepted \in Nat /\ samplesDuplicated \in Nat /\ messagesSetAside \in Nat
        /\ clocks \in Nat /\ named \in SUBSET Slots /\ firstNamings \in Nat
    BY DEF Init
  <2> QED BY <2>1, <2>2, <2>3 DEF TallyType
<1> QED BY <1>1, <1>2, <1>3 DEF TypeOK

LEMMA StepTypes == TypeOK /\ [Next]_vars => TypeOK'
<1> SUFFICES ASSUME TypeOK, [Next]_vars PROVE TypeOK'
  OBVIOUS
<1> USE DEF TypeOK
<1>1. CASE UNCHANGED vars
  <2>1. UNCHANGED <<frame, packet, tallies, pushed>> /\ KeepFrame
    BY <1>1 DEF vars, KeepFrame
  <2>2. TallyType'
    BY <2>1 DEF packet, tallies, pushed, TallyType
  <2> QED BY <2>1, <2>2, KeepFrameTypes
<1>2. ASSUME NEW time \in ReceiveTimes, BeginPacket(time) PROVE TypeOK'
  <2>1. time \in Int
    BY TimesAssumption
  <2>2. frame' \in Frame /\ ClosingType'
    BY <1>2 DEF BeginPacket, learned, closings, ClosingType
  <2>3. TallyType'
    BY <1>2, <2>1, BoundsAssumption DEF BeginPacket, tallies, TallyType
  <2> QED BY <2>2, <2>3
<1>3. ASSUME NEW seconds \in SenderTimes, Time(seconds) PROVE TypeOK'
  <2>1. TallyType'
    BY <1>3, BoundsAssumption DEF Time, Message, packet, tallies, TallyType
  <2>2. frame' \in Frame
    BY <1>3, FrameFacts DEF Time
  <2>3. ClosingType'
    BY <1>3, CloseTypes, KeepFrameTypes DEF Time
  <2> QED BY <2>1, <2>2, <2>3
<1>4. ASSUME NEW slot \in Slots, Sample(slot) PROVE TypeOK'
  <2>1. TallyType'
    BY <1>4, BoundsAssumption
    DEF Sample, Duplicate, Repeat, Join, Message, packet, TallyType
  <2>2. frame' \in Frame
    BY <1>4, FrameFacts DEF Sample, Duplicate, Repeat, Join
  <2>3. ClosingType'
    BY <1>4, CloseTypes, KeepFrameTypes DEF Sample, Duplicate, Repeat, Join
  <2> QED BY <2>1, <2>2, <2>3
<1>5. CASE SetAside
  <2>1. TallyType'
    BY <1>5, BoundsAssumption DEF SetAside, Message, packet, TallyType
  <2> QED BY <1>5, <2>1, KeepFrameTypes DEF SetAside
<1>6. CASE Flush
  <2>1. TallyType'
    BY <1>6 DEF Flush, tallies, pushed, TallyType
  <2> QED BY <1>6, <2>1, CloseTypes, FrameFacts DEF Flush
<1>7. CASE Reset
  <2>1. TallyType'
    BY <1>7 DEF Reset, tallies, pushed, TallyType
  <2>2. ClosingType'
    <3>1. lastSeen' \in [Bones -> Stamps] /\ lastAccepted' \in Stamps \cup {None}
      BY <1>7 DEF Reset, Stamps
    <3> QED BY <1>7, <3>1 DEF Reset, ClosingType
  <2> QED BY <1>7, <2>1, <2>2, FrameFacts DEF Reset
<1> QED BY <1>1, <1>2, <1>3, <1>4, <1>5, <1>6, <1>7 DEF Next

\* Type correctness of the assembler, NaN clocks included.
THEOREM TypeCorrect == Spec => []TypeOK
  BY InitTypes, StepTypes, PTL DEF Spec

-----------------------------------------------------------------------------
(* The order of the stream, what the session knows, and what is overdue, for *)
(* a sender whose clock is a number.                                         *)

FiniteClock ==
  /\ frame.senderTime # NotANumber /\ lastAccepted # NotANumber
  /\ \A bone \in Bones : lastSeen[bone] # NotANumber
  /\ \A i \in 1..Len(emitted) : emitted[i].timestamp # NotANumber

\* Sessions are numbered in order, and `lastAccepted` is the newest timestamp of
\* the current one.
SessionOrder ==
  /\ lastAccepted = None => observed = {}
  /\ lastAccepted # None =>
       emitted # <<>> /\ emitted[Len(emitted)].timestamp = lastAccepted
  /\ \A i \in 1..Len(emitted) :
       /\ emitted[i].session <= session
       /\ emitted[i].session = session =>
            lastAccepted # None /\ emitted[i].timestamp <= lastAccepted

IInv == /\ TypeOK /\ FiniteClock /\ SessionOrder
        /\ StreamAdvances /\ RestartIsReal /\ RigIsTheSessions /\ StaleExactlyWhenOverdue

\* What IInv says of everything a Close can change.
ClosingInv == SessionOrder /\ StreamAdvances /\ RestartIsReal /\ RigIsTheSessions
              /\ StaleExactlyWhenOverdue

LEMMA ClockFacts ==
  ASSUME TypeOK, FiniteClock
  PROVE  /\ Timestamp \in Int
         /\ lastAccepted # None => lastAccepted \in Int
         /\ \A bone \in Bones : lastSeen[bone] \in Int
         /\ \A i \in 1..Len(emitted) : emitted[i].timestamp \in Int
         /\ DoesNotAdvance <=> (lastAccepted # None /\ Timestamp <= lastAccepted)
         /\ Restarts <=> (/\ lastAccepted # None /\ RestartBackwards > 0
                          /\ lastAccepted - Timestamp > RestartBackwards)
<1>1. Timestamp \in Int
  BY DEF TypeOK, FiniteClock, Timestamp, Frame, Stamps
<1>2. lastAccepted # None => lastAccepted \in Int
  BY DEF TypeOK, ClosingType, FiniteClock, Stamps
<1>3. \A bone \in Bones : lastSeen[bone] \in Int
  BY DEF TypeOK, ClosingType, FiniteClock, Stamps
<1>4. \A i \in 1..Len(emitted) : emitted[i].timestamp \in Int
  <2>1. \A i \in 1..Len(emitted) : emitted[i] \in EmittedFrame
    BY DEF TypeOK, ClosingType
  <2> QED BY <2>1 DEF FiniteClock, EmittedFrame, Stamps
<1>5. Timestamp # NotANumber /\ lastAccepted # NotANumber
  BY <1>1, TimesAssumption DEF FiniteClock
<1>6. DoesNotAdvance <=> (lastAccepted # None /\ Timestamp <= lastAccepted)
  BY <1>5 DEF DoesNotAdvance, NotAfter
<1>7. Restarts <=> (/\ lastAccepted # None /\ RestartBackwards > 0
                    /\ lastAccepted - Timestamp > RestartBackwards)
  BY <1>1, <1>2, <1>5, <1>6, ThresholdsAssumption DEF Restarts, Within
<1> QED BY <1>1, <1>2, <1>3, <1>4, <1>6, <1>7

LEMMA EmitFacts ==
  ASSUME TypeOK, CloseEmitted
  PROVE  /\ Len(emitted) \in Nat /\ Len(emitted') = Len(emitted) + 1
         /\ \A i \in 1..Len(emitted) : emitted'[i] = emitted[i]
         /\ emitted'[Len(emitted) + 1].timestamp = Timestamp
         /\ emitted'[Len(emitted) + 1].session = session'
         /\ emitted'[Len(emitted) + 1].beginsNewSession = Restarts
         /\ emitted'[Len(emitted) + 1].carried = Carried(frame)
         /\ emitted'[Len(emitted) + 1].duplicateBones = frame.duplicateBones
         /\ emitted'[Len(emitted) + 1].missing = Missing
<1> DEFINE out == [timestamp |-> Timestamp,
                   timestampFromSender |-> frame.senderTime # None,
                   beginsNewSession |-> Restarts,
                   session |-> session',
                   carried |-> Carried(frame),
                   duplicateBones |-> frame.duplicateBones,
                   missing |-> Missing, stale |-> Stale]
<1>1. emitted \in Seq(EmittedFrame) /\ emitted' = Append(emitted, out)
  BY DEF TypeOK, ClosingType, CloseEmitted
<1>2. /\ out.timestamp = Timestamp /\ out.session = session' /\ out.beginsNewSession = Restarts
      /\ out.carried = Carried(frame) /\ out.duplicateBones = frame.duplicateBones
      /\ out.missing = Missing
  OBVIOUS
<1> HIDE DEF out
<1>3. /\ Len(emitted) \in Nat /\ Len(emitted') = Len(emitted) + 1
      /\ \A i \in 1..Len(emitted) : emitted'[i] = emitted[i]
      /\ emitted'[Len(emitted) + 1] = out
  BY <1>1
<1> QED BY <1>2, <1>3

\* A frame is emitted after, and with a timestamp greater than, every other
\* frame of its session.
LEMMA EmitOrder ==
  ASSUME TypeOK, FiniteClock, SessionOrder, CloseEmitted
  PROVE  /\ Timestamp \in Int /\ lastAccepted' = Timestamp /\ session \in Nat
         /\ session' = IF Restarts THEN session + 1 ELSE session
         /\ \A i \in 1..Len(emitted) :
              emitted[i].session = session' => emitted[i].timestamp < Timestamp
         /\ \A i \in 1..Len(emitted) :
              emitted[i].session \in Nat /\ emitted[i].session <= session
<1>1. /\ lastAccepted' = Timestamp /\ (~DoesNotAdvance \/ Restarts)
      /\ session' = IF Restarts THEN session + 1 ELSE session
  BY DEF CloseEmitted
<1>2. session \in Nat /\ \A i \in 1..Len(emitted) : emitted[i] \in EmittedFrame
  BY DEF TypeOK, ClosingType
<1>3. \A i \in 1..Len(emitted) : emitted[i].session \in Nat /\ emitted[i].session <= session
  BY <1>2 DEF EmittedFrame, SessionOrder
<1>4. ASSUME NEW i \in 1..Len(emitted), emitted[i].session = session'
      PROVE  emitted[i].timestamp < Timestamp
  <2>1. ~Restarts /\ emitted[i].session = session
    BY <1>1, <1>2, <1>3, <1>4
  <2>2. lastAccepted # None /\ emitted[i].timestamp <= lastAccepted
    BY <2>1 DEF SessionOrder
  <2>3. Timestamp > lastAccepted /\ emitted[i].timestamp \in Int /\ lastAccepted \in Int
    BY <1>1, <2>1, <2>2, ClockFacts
  <2> QED BY <2>2, <2>3, ClockFacts
<1> QED BY <1>1, <1>2, <1>3, <1>4, ClockFacts

LEMMA EmitKeepsOrder ==
  ASSUME TypeOK, FiniteClock, SessionOrder, StreamAdvances, CloseEmitted
  PROVE  SessionOrder' /\ StreamAdvances'
<1> DEFINE n == Len(emitted)
<1>1. /\ n \in Nat /\ Len(emitted') = n + 1
      /\ \A i \in 1..n : emitted'[i] = emitted[i]
      /\ emitted'[n + 1].timestamp = Timestamp /\ emitted'[n + 1].session = session'
  BY EmitFacts
<1>2. /\ Timestamp \in Int /\ lastAccepted' = Timestamp /\ session \in Nat
      /\ session' = IF Restarts THEN session + 1 ELSE session
      /\ \A i \in 1..n : emitted[i].session = session' => emitted[i].timestamp < Timestamp
      /\ \A i \in 1..n : emitted[i].session \in Nat /\ emitted[i].session <= session
  BY EmitOrder
<1>3. \A i \in 1..n : emitted[i].timestamp \in Int
  BY ClockFacts
<1>4. None \notin Int /\ NotANumber \notin Int
  BY TimesAssumption
<1>5. SessionOrder'
  <2>1. lastAccepted' # None
    BY <1>2, <1>4
  <2>2. emitted' # <<>> /\ emitted'[Len(emitted')].timestamp = lastAccepted'
    BY <1>1, <1>2
  <2>3. ASSUME NEW i \in 1..n + 1
        PROVE  /\ emitted'[i].session <= session'
               /\ emitted'[i].session = session' => emitted'[i].timestamp <= lastAccepted'
    <3>1. CASE i = n + 1
      BY <3>1, <1>1, <1>2
    <3>2. CASE i \in 1..n
      <4>1. emitted'[i] = emitted[i] /\ emitted[i].session \in Nat
            /\ emitted[i].session <= session /\ emitted[i].timestamp \in Int
        BY <3>2, <1>1, <1>2, <1>3
      <4>2. emitted[i].session <= session'
        BY <4>1, <1>2
      <4>3. emitted[i].session = session' => emitted[i].timestamp <= Timestamp
        BY <3>2, <4>1, <1>2
      <4> QED BY <4>1, <4>2, <4>3, <1>2
    <3> QED BY <3>1, <3>2, <1>1
  <2> QED BY <2>1, <2>2, <2>3, <1>1 DEF SessionOrder
<1>6. StreamAdvances'
  <2> SUFFICES ASSUME NEW i \in 1..n + 1, NEW j \in 1..n + 1, i < j,
                      emitted'[i].session = emitted'[j].session
               PROVE  ~NotAfter(emitted'[j].timestamp, emitted'[i].timestamp)
    BY <1>1 DEF StreamAdvances, NotAfter
  <2>1. CASE j = n + 1
    <3>1. i \in 1..n /\ emitted'[i] = emitted[i] /\ emitted[i].session = session'
      BY <2>1, <1>1
    <3>2. emitted[i].timestamp < Timestamp /\ emitted[i].timestamp \in Int
      BY <3>1, <1>2, <1>3
    <3> QED BY <2>1, <3>1, <3>2, <1>1, <1>2 DEF NotAfter
  <2>2. CASE j \in 1..n
    <3>1. i \in 1..n /\ emitted'[i] = emitted[i] /\ emitted'[j] = emitted[j]
      BY <2>2, <1>1
    <3> QED BY <2>2, <3>1 DEF StreamAdvances
  <2> QED BY <2>1, <2>2, <1>1
<1> QED BY <1>5, <1>6

LEMMA EmitKeepsRestarts ==
  ASSUME TypeOK, FiniteClock, SessionOrder, RestartIsReal, CloseEmitted
  PROVE  RestartIsReal'
<1> DEFINE n == Len(emitted)
<1>1. /\ n \in Nat /\ Len(emitted') = n + 1
      /\ \A i \in 1..n : emitted'[i] = emitted[i]
      /\ emitted'[n + 1].timestamp = Timestamp
      /\ emitted'[n + 1].beginsNewSession = Restarts
      /\ emitted'[n + 1].missing = Missing
  BY EmitFacts
<1> SUFFICES ASSUME NEW i \in 1..n + 1, emitted'[i].beginsNewSession
             PROVE  /\ i > 1 /\ RestartBackwards > 0
                    /\ emitted'[i - 1].timestamp - emitted'[i].timestamp > RestartBackwards
                    /\ emitted'[i].missing = {}
  BY <1>1 DEF RestartIsReal
<1>2. CASE i \in 1..n
  <2>1. emitted'[i] = emitted[i]
    BY <1>1, <1>2
  <2>2. /\ i > 1 /\ RestartBackwards > 0
        /\ emitted[i - 1].timestamp - emitted[i].timestamp > RestartBackwards
        /\ emitted[i].missing = {}
    BY <2>1, <1>2 DEF RestartIsReal
  <2>3. i - 1 \in 1..n
    BY <1>2, <2>2, <1>1
  <2>4. emitted'[i - 1] = emitted[i - 1]
    BY <2>3, <1>1
  <2> QED BY <2>1, <2>2, <2>4
<1>3. CASE i = n + 1
  <2>1. Restarts
    BY <1>1, <1>3
  <2>2. lastAccepted # None /\ RestartBackwards > 0 /\ lastAccepted - Timestamp > RestartBackwards
    BY <2>1, ClockFacts
  <2>3. emitted # <<>> /\ emitted[n].timestamp = lastAccepted
    BY <2>2 DEF SessionOrder
  <2>4. n >= 1
    BY <2>3, <1>1 DEF TypeOK, ClosingType
  <2>5. emitted'[n].timestamp = lastAccepted
    BY <2>3, <2>4, <1>1
  <2>6. Missing = {}
    BY <2>1 DEF Missing, KnownRig
  <2> QED BY <1>1, <1>3, <2>2, <2>4, <2>5, <2>6
<1> QED BY <1>1, <1>2, <1>3

LEMMA EmitKeepsRig ==
  ASSUME TypeOK, FiniteClock, SessionOrder, RigIsTheSessions, CloseEmitted
  PROVE  RigIsTheSessions'
<1> DEFINE n == Len(emitted)
           Rig(s) == {k \in 1..n : emitted[k].session = s}
           Rig1 == {k \in 1..n + 1 : emitted'[k].session = session'}
<1>1. /\ n \in Nat /\ Len(emitted') = n + 1
      /\ \A i \in 1..n : emitted'[i] = emitted[i]
      /\ emitted'[n + 1].session = session' /\ emitted'[n + 1].carried = Carried(frame)
  BY EmitFacts
<1>2. /\ session \in Nat
      /\ session' = IF Restarts THEN session + 1 ELSE session
      /\ \A i \in 1..n : emitted[i].session \in Nat /\ emitted[i].session <= session
  BY EmitOrder
<1>3. observed' = KnownRig \cup (emitted'[n + 1].carried \cap Bones)
  BY <1>1 DEF CloseEmitted, Bare
<1>4. KnownRig = UNION {emitted[i].carried \cap Bones : i \in Rig(session')}
  <2>1. CASE Restarts
    <3>1. Rig(session') = {}
      BY <1>2, <2>1
    <3> QED BY <2>1, <3>1 DEF KnownRig
  <2>2. CASE ~Restarts
    BY <1>2, <2>2 DEF KnownRig, RigIsTheSessions
  <2> QED BY <2>1, <2>2
<1>5. Rig1 = Rig(session') \cup {n + 1}
  <2>1. \A k \in 1..n + 1 : k \in 1..n \/ k = n + 1
    BY <1>1
  <2>2. 1..n \subseteq 1..n + 1 /\ n + 1 \in 1..n + 1
    BY <1>1
  <2> QED BY <1>1, <2>1, <2>2
<1>6. UNION {emitted'[i].carried \cap Bones : i \in Rig1}
        = (UNION {emitted[i].carried \cap Bones : i \in Rig(session')})
          \cup (emitted'[n + 1].carried \cap Bones)
  <2> DEFINE Old == Rig(session')
  <2>1. \A i \in Old : emitted'[i] = emitted[i]
    BY <1>1
  <2>2. Rig1 = Old \cup {n + 1}
    BY <1>5
  <2> HIDE DEF Rig1, Old
  <2>3. UNION {emitted'[i].carried \cap Bones : i \in Rig1}
          = (UNION {emitted[i].carried \cap Bones : i \in Old})
            \cup (emitted'[n + 1].carried \cap Bones)
    BY <2>1, <2>2
  <2> QED BY <2>3 DEF Old, Rig1
<1> QED BY <1>1, <1>3, <1>4, <1>6 DEF RigIsTheSessions

\* A bone is overdue after a frame exactly if it was on record or goes on it now.
LEMMA EmitKeepsStale ==
  ASSUME TypeOK, FiniteClock, SessionOrder, StaleExactlyWhenOverdue, CloseEmitted
  PROVE  StaleExactlyWhenOverdue'
<1>1. /\ observed' = KnownRig \cup Bare
      /\ reportedStale' = (KnownStale \cup Stale) \ Bare
      /\ lastSeen' = [bone \in Bones |-> IF bone \in Bare THEN Timestamp
                                         ELSE IF Restarts THEN 0 ELSE lastSeen[bone]]
      /\ lastAccepted' = Timestamp /\ (~DoesNotAdvance \/ Restarts)
  BY DEF CloseEmitted
<1>2. /\ Timestamp \in Int /\ (lastAccepted # None => lastAccepted \in Int)
      /\ \A bone \in Bones : lastSeen[bone] \in Int
  BY ClockFacts
<1>3. Bare \subseteq Bones /\ KnownRig \subseteq Bones /\ KnownStale \subseteq KnownRig
  BY DEF Bare, KnownRig, KnownStale, StaleExactlyWhenOverdue, TypeOK, ClosingType
<1>4. \A i \in Int : i # NotANumber
  BY TimesAssumption
<1>5. ASSUME NEW bone \in Bones
      PROVE  bone \in reportedStale' <=>
               /\ bone \in observed' /\ Staleness > 0
               /\ ~Within(lastAccepted', lastSeen'[bone], Staleness)
  <2>1. CASE bone \in Bare
    <3>1. lastSeen'[bone] = Timestamp /\ bone \notin reportedStale'
      BY <1>1, <2>1
    <3>2. Within(Timestamp, Timestamp, Staleness)
      BY <1>2, <1>4, ThresholdsAssumption DEF Within
    <3> QED BY <3>1, <3>2, <1>1
  <2>2. CASE bone \notin Bare /\ bone \notin KnownRig
    BY <2>2, <1>1, <1>3 DEF Stale, Missing
  <2>3. CASE bone \notin Bare /\ bone \in KnownRig
    <3>1. ~Restarts /\ KnownRig = observed /\ KnownStale = reportedStale
      BY <2>3 DEF KnownRig, KnownStale
    <3>2. lastSeen'[bone] = lastSeen[bone] /\ bone \in observed /\ bone \in observed'
      BY <1>1, <2>3, <3>1
    <3>3. lastAccepted \in Int /\ Timestamp > lastAccepted
      BY <3>1, <3>2, <1>1, <1>2, ClockFacts DEF SessionOrder
    <3>4. bone \in reportedStale' <=>
            bone \in reportedStale \/ (Staleness > 0 /\ ~Within(Timestamp, lastSeen[bone], Staleness))
      BY <1>1, <2>3, <3>1 DEF Stale, Missing
    <3>5. bone \in reportedStale <=>
            (Staleness > 0 /\ ~Within(lastAccepted, lastSeen[bone], Staleness))
      BY <3>2 DEF StaleExactlyWhenOverdue
    <3>6. ~Within(lastAccepted, lastSeen[bone], Staleness)
            => ~Within(Timestamp, lastSeen[bone], Staleness)
      BY <3>3, <1>2, <1>4, ThresholdsAssumption DEF Within
    <3> QED BY <1>1, <3>2, <3>4, <3>5, <3>6
  <2> QED BY <2>1, <2>2, <2>3
<1>6. reportedStale' \subseteq Bones /\ observed' \subseteq Bones
  BY <1>1, <1>3 DEF Stale, Missing
<1> QED BY <1>5, <1>6 DEF StaleExactlyWhenOverdue

\* The refusals leave everything ClosingInv speaks of alone.
LEMMA UnchangedKeeps ==
  ASSUME ClosingInv, UNCHANGED <<learned, emitted, session>>
  PROVE  ClosingInv'
  BY DEF ClosingInv, learned, SessionOrder, StreamAdvances, RestartIsReal, RigIsTheSessions,
         StaleExactlyWhenOverdue, NotAfter, Within

LEMMA CloseKeeps == ASSUME TypeOK, FiniteClock, ClosingInv, Close PROVE ClosingInv'
<1>1. CASE CloseEmpty
  BY <1>1, UnchangedKeeps DEF CloseEmpty
<1>2. CASE CloseRegressed
  BY <1>2, UnchangedKeeps DEF CloseRegressed
<1>3. CASE CloseEmitted
  BY <1>3, EmitKeepsOrder, EmitKeepsRestarts, EmitKeepsRig, EmitKeepsStale DEF ClosingInv
<1> QED BY <1>1, <1>2, <1>3 DEF Close

\* The clock part of a Close: what it learns is as finite as the frame it closed.
LearnedFinite ==
  /\ lastAccepted # NotANumber
  /\ \A bone \in Bones : lastSeen[bone] # NotANumber
  /\ \A i \in 1..Len(emitted) : emitted[i].timestamp # NotANumber

LEMMA CloseFinite == ASSUME TypeOK, FiniteClock, Close PROVE LearnedFinite'
<1>1. CASE CloseEmpty \/ CloseRegressed
  BY <1>1 DEF CloseEmpty, CloseRegressed, learned, LearnedFinite, FiniteClock
<1>2. CASE CloseEmitted
  <2>1. Timestamp # NotANumber /\ 0 # NotANumber
    BY ClockFacts, TimesAssumption
  <2>2. lastAccepted' # NotANumber /\ \A bone \in Bones : lastSeen'[bone] # NotANumber
    BY <1>2, <2>1 DEF CloseEmitted, FiniteClock
  <2>3. ASSUME NEW i \in 1..Len(emitted') PROVE emitted'[i].timestamp # NotANumber
    <3>1. CASE i \in 1..Len(emitted)
      BY <1>2, <3>1, EmitFacts DEF FiniteClock
    <3>2. CASE i = Len(emitted) + 1
      BY <1>2, <2>1, <3>2, EmitFacts
    <3> QED BY <1>2, <3>1, <3>2, EmitFacts
  <2> QED BY <2>2, <2>3 DEF LearnedFinite
<1> QED BY <1>1, <1>2 DEF Close

LEMMA KeepFrameKeeps ==
  ASSUME FiniteClock, ClosingInv, KeepFrame
  PROVE  ClosingInv' /\ LearnedFinite'
<1>1. UNCHANGED <<learned, emitted, session>>
  BY DEF KeepFrame, closings
<1>2. LearnedFinite'
  BY <1>1 DEF learned, LearnedFinite, FiniteClock
<1> QED BY <1>1, <1>2, UnchangedKeeps

LEMMA FrameFinite ==
  ASSUME TypeOK, FiniteClock, NotANumber \notin SenderTimes
  PROVE  /\ NoFrame.senderTime # NotANumber
         /\ \A seconds \in SenderTimes :
              /\ [OpenFrame EXCEPT !.senderTime = seconds].senderTime # NotANumber
              /\ [frame EXCEPT !.senderTime = seconds].senderTime # NotANumber
         /\ \A slot \in Slots :
              /\ [OpenFrame EXCEPT !.carriedBy[slot] = packetSerial].senderTime # NotANumber
              /\ [frame EXCEPT !.carriedBy[slot] = packetSerial].senderTime # NotANumber
         /\ [frame EXCEPT !.duplicateBones = @ + 1].senderTime # NotANumber
<1>1. NoFrame \in Frame /\ OpenFrame \in Frame /\ frame \in Frame
  BY FrameFacts DEF TypeOK
<1>2. NoFrame.senderTime = None /\ OpenFrame.senderTime = None /\ None # NotANumber
  BY TimesAssumption DEF NoFrame, OpenFrame
<1>3. ASSUME NEW f \in Frame, NEW seconds \in SenderTimes
      PROVE  [f EXCEPT !.senderTime = seconds].senderTime = seconds
  BY DEF Frame
<1>4. ASSUME NEW f \in Frame, NEW slot \in Slots
      PROVE  [f EXCEPT !.carriedBy[slot] = packetSerial].senderTime = f.senderTime
  BY DEF Frame
<1>5. [frame EXCEPT !.duplicateBones = @ + 1].senderTime = frame.senderTime
  BY <1>1 DEF Frame
<1> QED BY <1>1, <1>2, <1>3, <1>4, <1>5 DEF FiniteClock

LEMMA InitInvariant == Init => IInv
<1> SUFFICES ASSUME Init PROVE IInv
  OBVIOUS
<1>1. TypeOK
  BY InitTypes
<1>2. emitted = <<>> /\ Len(emitted) = 0 /\ lastAccepted = None /\ observed = {}
      /\ reportedStale = {} /\ frame.senderTime = None
  BY DEF Init, NoFrame
<1>3. FiniteClock
  BY <1>2, TimesAssumption DEF Init, FiniteClock
<1>4. SessionOrder /\ StreamAdvances /\ RestartIsReal
  BY <1>2 DEF SessionOrder, StreamAdvances, RestartIsReal
<1>5. RigIsTheSessions /\ StaleExactlyWhenOverdue
  BY <1>2 DEF RigIsTheSessions, StaleExactlyWhenOverdue
<1> QED BY <1>1, <1>3, <1>4, <1>5 DEF IInv

LEMMA ResetKeeps == ASSUME IInv, Reset PROVE FiniteClock' /\ ClosingInv'
<1>1. /\ frame' = NoFrame /\ observed' = {} /\ reportedStale' = {}
      /\ lastSeen' = [bone \in Bones |-> 0] /\ lastAccepted' = None
      /\ session' = session + 1 /\ emitted' = emitted
  BY DEF Reset
<1>2. /\ session \in Nat
      /\ \A i \in 1..Len(emitted) : emitted[i].session \in Nat /\ emitted[i].session <= session
  <2>1. session \in Nat /\ \A i \in 1..Len(emitted) : emitted[i] \in EmittedFrame
    BY DEF IInv, TypeOK, ClosingType
  <2> QED BY <2>1 DEF IInv, SessionOrder, EmittedFrame
<1>3. FiniteClock'
  BY <1>1, TimesAssumption DEF NoFrame, FiniteClock, IInv
<1>4. \A i \in 1..Len(emitted) : emitted[i].session <= session' /\ emitted[i].session # session'
  BY <1>1, <1>2
<1>5. SessionOrder'
  BY <1>1, <1>4 DEF SessionOrder
<1>6. StreamAdvances' /\ RestartIsReal'
  BY <1>1 DEF IInv, StreamAdvances, RestartIsReal, NotAfter
<1>7. RigIsTheSessions' /\ StaleExactlyWhenOverdue'
  BY <1>1, <1>4 DEF RigIsTheSessions, StaleExactlyWhenOverdue
<1> QED BY <1>3, <1>5, <1>6, <1>7 DEF ClosingInv

LEMMA StepKeeps ==
  ASSUME NotANumber \notin SenderTimes
  PROVE  IInv /\ [Next]_vars => IInv'
<1> SUFFICES ASSUME IInv, [Next]_vars PROVE IInv'
  OBVIOUS
<1>1. TypeOK'
  BY StepTypes DEF IInv
<1>2. ClosingInv /\ TypeOK /\ FiniteClock
  BY DEF IInv, ClosingInv
<1>3. SUFFICES FiniteClock' /\ ClosingInv'
  BY <1>1 DEF IInv, ClosingInv
<1>4. LearnedFinite' /\ frame'.senderTime # NotANumber => FiniteClock'
  BY DEF LearnedFinite, FiniteClock
<1>5. CASE frame' = frame /\ KeepFrame
  BY <1>2, <1>4, <1>5, KeepFrameKeeps DEF FiniteClock
<1>6. ASSUME NEW seconds \in SenderTimes, Time(seconds) PROVE FiniteClock' /\ ClosingInv'
  <2>1. frame'.senderTime # NotANumber
    BY <1>2, <1>6, FrameFinite DEF Time
  <2>2. (Close \/ KeepFrame)
    BY <1>6 DEF Time
  <2> QED BY <1>2, <1>4, <2>1, <2>2, CloseFinite, CloseKeeps, KeepFrameKeeps
<1>7. ASSUME NEW slot \in Slots, Sample(slot) PROVE FiniteClock' /\ ClosingInv'
  <2>1. frame'.senderTime # NotANumber
    BY <1>2, <1>7, FrameFinite DEF Sample, Duplicate, Repeat, Join, FiniteClock
  <2>2. (Close \/ KeepFrame)
    BY <1>7 DEF Sample, Duplicate, Repeat, Join
  <2> QED BY <1>2, <1>4, <2>1, <2>2, CloseFinite, CloseKeeps, KeepFrameKeeps
<1>8. CASE Flush
  <2>1. frame'.senderTime # NotANumber
    BY <1>2, <1>8, FrameFinite DEF Flush
  <2> QED BY <1>2, <1>4, <1>8, <2>1, CloseFinite, CloseKeeps DEF Flush
<1>9. CASE Reset
  BY <1>9, ResetKeeps
<1>10. CASE UNCHANGED vars
  <2>1. frame' = frame /\ KeepFrame
    BY <1>10 DEF vars, KeepFrame
  <2> QED BY <2>1, <1>5
<1>11. ASSUME NEW time \in ReceiveTimes, BeginPacket(time) PROVE FiniteClock' /\ ClosingInv'
  <2>1. frame' = frame /\ KeepFrame
    BY <1>11 DEF BeginPacket, KeepFrame
  <2> QED BY <2>1, <1>5
<1>12. CASE SetAside
  BY <1>5, <1>12 DEF SetAside
<1> QED BY <1>6, <1>7, <1>8, <1>9, <1>10, <1>11, <1>12 DEF Next

\* The strengthened invariant of a session whose sender's clock is a number.
THEOREM InductiveInvariant ==
  ASSUME NotANumber \notin SenderTimes
  PROVE  Spec => []IInv
  BY InitInvariant, StepKeeps, PTL DEF Spec

\* VmcFrameAssembler::_Close: emitted timestamps strictly increase within a
\* session, so a duplicated or late delivery never becomes a pose, for every
\* order of messages -- provided the sender's clock is never NaN.
THEOREM StreamOrder ==
  ASSUME NotANumber \notin SenderTimes
  PROVE  Spec => []StreamAdvances
  BY InductiveInvariant, PTL DEF IInv

\* A frame begins a session only after a step back past the threshold, and knows
\* nothing of the rig before it.
THEOREM RestartsAreReal ==
  ASSUME NotANumber \notin SenderTimes
  PROVE  Spec => []RestartIsReal
  BY InductiveInvariant, PTL DEF IInv

\* The rig a frame is measured against is the union of what this session emitted.
THEOREM RigOfTheSession ==
  ASSUME NotANumber \notin SenderTimes
  PROVE  Spec => []RigIsTheSessions
  BY InductiveInvariant, PTL DEF IInv

\* A bone is on record as stale exactly while it is overdue.
THEOREM StaleBookkeeping ==
  ASSUME NotANumber \notin SenderTimes
  PROVE  Spec => []StaleExactlyWhenOverdue
  BY InductiveInvariant, PTL DEF IInv

\* The invariant the runs check, whole, for every clock that is not a NaN.
THEOREM AssemblerSafety ==
  ASSUME NotANumber \notin SenderTimes
  PROVE  Spec => []AssemblerInvariant
  BY TypeCorrect, StreamOrder, RestartsAreReal, RigOfTheSession, StaleBookkeeping, PTL
     DEF AssemblerInvariant
-----------------------------------------------------------------------------
(* DatagramConnector: the buffer's books.                                   *)

BufferBooks == Connector!Buffer!TypeOK /\ Connector!EveryNumberAccounted

LEMMA ElementFacts ==
  ASSUME NEW S, NEW s \in Seq(S)
  PROVE  \A i \in 1..Len(s) : s[i] \in S
  OBVIOUS

LEMMA FreshBooks ==
  ASSUME Connector!BoundsAssumption, NEW requested \in RequestedCapacities,
         NEW chosen \in Connector!Buffer!BufferMode, Connector!FreshBuffer(requested, chosen)
  PROVE  BufferBooks' /\ frames' = <<>>
<1>1. /\ frames' = <<>> /\ accepted' = <<>> /\ mode' = chosen
      /\ pushedFrames' = 0 /\ polledFrames' = 0 /\ droppedFrames' = 0 /\ skippedFrames' = 0
      /\ rejectedFrames' = 0 /\ offered' = 0 /\ lastPolled' = 0 /\ clearedFrames' = 0
      /\ capacity' = Connector!Buffer!Normalised(requested)
  BY DEF Connector!FreshBuffer
<1>2. capacity' \in Nat \ {0}
  BY <1>1 DEF Connector!Buffer!Normalised, Connector!BoundsAssumption
<1>3. frames' \in Seq(Nat) /\ accepted' \in Seq(Nat) /\ Len(frames') = 0
  BY <1>1
<1> QED
  BY <1>1, <1>2, <1>3
  DEF BufferBooks, Connector!Buffer!TypeOK, Connector!EveryNumberAccounted, Connector!BoundsAssumption

LEMMA PushBooks ==
  ASSUME Connector!BoundsAssumption, BufferBooks, Connector!Buffer!Push
  PROVE  BufferBooks'
<1> USE DEF BufferBooks, Connector!Buffer!TypeOK, Connector!EveryNumberAccounted
<1>0. Len(frames) \in Nat /\ offered' = offered + 1 /\ offered' \in 0..MaxPushes
      /\ offered + 1 \in Nat /\ MaxPushes \in Nat
  BY DEF Connector!Buffer!Push, Connector!BoundsAssumption
<1>1. ASSUME NEW kept \in Seq(Nat), NEW lost \in Nat, Len(kept) + lost = Len(frames),
             Connector!Buffer!Admit(kept, lost)
      PROVE  BufferBooks'
  <2>1. /\ frames' = Append(kept, offered + 1) /\ accepted' = Append(accepted, offered + 1)
        /\ pushedFrames' = pushedFrames + 1 /\ droppedFrames' = droppedFrames + lost
        /\ skippedFrames' = skippedFrames + lost
        /\ UNCHANGED <<capacity, mode, polledFrames, rejectedFrames, lastPolled, clearedFrames>>
    BY <1>1 DEF Connector!Buffer!Admit
  <2>2. frames' \in Seq(Nat) /\ Len(frames') = Len(kept) + 1 /\ accepted' \in Seq(Nat)
    BY <1>0, <1>1, <2>1
  <2>3. Len(kept) \in Nat
    BY <1>1
  <2> QED BY <1>0, <1>1, <2>1, <2>2, <2>3
<1>2. CASE Connector!Buffer!PushLatest
  <2>1. <<>> \in Seq(Nat) /\ Len(<<>>) + Len(frames) = Len(frames)
    BY <1>0
  <2> QED BY <1>0, <1>1, <1>2, <2>1 DEF Connector!Buffer!PushLatest
<1>3. CASE Connector!Buffer!PushRoom
  BY <1>0, <1>1, <1>3 DEF Connector!Buffer!PushRoom
<1>4. CASE Connector!Buffer!PushOverflow
  <2>1. Len(frames) > 0
    BY <1>0, <1>4 DEF Connector!Buffer!PushOverflow, Connector!Buffer!Full
  <2>2. Tail(frames) \in Seq(Nat) /\ Len(Tail(frames)) + 1 = Len(frames)
    BY <2>1
  <2> QED BY <1>1, <1>4, <2>2 DEF Connector!Buffer!PushOverflow
<1>5. CASE Connector!Buffer!PushBackpressure
  BY <1>0, <1>5 DEF Connector!Buffer!PushBackpressure
<1> QED BY <1>2, <1>3, <1>4, <1>5 DEF Connector!Buffer!Push

LEMMA TakeBooks ==
  ASSUME BufferBooks
  PROVE  /\ Connector!Buffer!Poll => BufferBooks'
         /\ Connector!ClearBuffer => BufferBooks' /\ frames' = <<>>
         /\ UNCHANGED Connector!buffer => BufferBooks'
<1> USE DEF BufferBooks, Connector!Buffer!TypeOK, Connector!EveryNumberAccounted
<1>1. ASSUME Connector!Buffer!Poll PROVE BufferBooks'
  <2>1. Head(frames) \in Nat /\ Tail(frames) \in Seq(Nat) /\ Len(Tail(frames)) = Len(frames) - 1
        /\ Len(frames) \in Nat
    BY <1>1 DEF Connector!Buffer!Poll
  <2> QED BY <1>1, <2>1 DEF Connector!Buffer!Poll
<1>2. ASSUME UNCHANGED Connector!buffer PROVE BufferBooks'
  BY <1>2 DEF Connector!buffer
<1>3. ASSUME Connector!ClearBuffer PROVE BufferBooks' /\ frames' = <<>>
  <2>1. CASE frames = <<>>
    <3>1. UNCHANGED Connector!buffer
      BY <1>3, <2>1 DEF Connector!ClearBuffer
    <3> QED BY <1>2, <2>1, <3>1 DEF Connector!buffer
  <2>2. CASE frames # <<>>
    <3>1. /\ frames' = <<>> /\ clearedFrames' = clearedFrames + Len(frames)
          /\ UNCHANGED <<capacity, mode, pushedFrames, polledFrames, droppedFrames, skippedFrames,
                         rejectedFrames, offered, accepted, lastPolled>>
      BY <1>3, <2>2 DEF Connector!ClearBuffer, Connector!Buffer!Clear, Connector!Buffer!stats
    <3>2. Len(frames') = 0 /\ Len(frames) \in Nat /\ frames' \in Seq(Nat)
      BY <3>1
    <3> QED BY <3>1, <3>2
  <2> QED BY <2>1, <2>2
<1> QED BY <1>1, <1>2, <1>3

\* What is held is newer than what was polled, in order.
Numbered ==
  /\ lastPolled <= offered
  /\ \A i \in 1..Len(frames) : lastPolled < frames[i] /\ frames[i] <= offered
  /\ \A i, j \in 1..Len(frames) : i < j => frames[i] < frames[j]

LEMMA PushNumbered ==
  ASSUME BufferBooks, Numbered, Connector!Buffer!Push
  PROVE  Numbered'
<1>0. /\ Len(frames) \in Nat /\ frames \in Seq(Nat) /\ offered \in Nat /\ lastPolled \in Nat
      /\ offered' = offered + 1
  BY DEF Connector!Buffer!Push, BufferBooks, Connector!Buffer!TypeOK
<1>1. ASSUME NEW kept \in Seq(Nat), NEW lost \in Nat, Len(kept) + lost = Len(frames),
             \A i \in 1..Len(kept) : kept[i] = frames[lost + i],
             Connector!Buffer!Admit(kept, lost)
      PROVE  Numbered'
  <2>1. frames' = Append(kept, offered + 1) /\ lastPolled' = lastPolled
    BY <1>1 DEF Connector!Buffer!Admit
  <2>2. /\ Len(kept) \in Nat /\ Len(frames') = Len(kept) + 1
        /\ \A i \in 1..Len(kept) : frames'[i] = kept[i]
        /\ frames'[Len(kept) + 1] = offered + 1
    BY <1>0, <1>1, <2>1
  <2>3. \A i \in 1..Len(kept) : lost + i \in 1..Len(frames) /\ kept[i] \in Nat
    <3>1. \A i \in 1..Len(kept) : kept[i] \in Nat
      BY ElementFacts, <1>1
    <3>2. /\ lost \in Nat /\ Len(kept) \in Nat /\ Len(frames) \in Nat
          /\ Len(kept) + lost = Len(frames)
      BY <1>0, <1>1, <2>2
    <3>3. \A i \in 1..Len(kept) : lost + i \in 1..Len(frames)
      BY <3>2
    <3> QED BY <3>1, <3>3
  <2>4. \A i \in 1..Len(kept) : lastPolled < kept[i] /\ kept[i] <= offered
    BY <1>1, <2>3 DEF Numbered
  <2>5. \A i, j \in 1..Len(kept) : i < j => kept[i] < kept[j]
    <3> SUFFICES ASSUME NEW i \in 1..Len(kept), NEW j \in 1..Len(kept), i < j PROVE kept[i] < kept[j]
      OBVIOUS
    <3>1. lost + i \in 1..Len(frames) /\ lost + j \in 1..Len(frames) /\ lost + i < lost + j
      BY <2>2, <2>3, <1>1
    <3>2. frames[lost + i] < frames[lost + j]
      BY <3>1 DEF Numbered
    <3> QED BY <3>2, <1>1
  <2>6. \A i \in 1..Len(frames') : i \in 1..Len(kept) \/ i = Len(kept) + 1
    BY <2>2
  <2>7. \A i \in 1..Len(frames') : lastPolled' < frames'[i] /\ frames'[i] <= offered'
    <3> SUFFICES ASSUME NEW i \in 1..Len(frames')
                 PROVE  lastPolled' < frames'[i] /\ frames'[i] <= offered'
      OBVIOUS
    <3>1. lastPolled <= offered
      BY DEF Numbered
    <3>2. CASE i \in 1..Len(kept)
      BY <3>2, <2>1, <2>2, <2>3, <2>4, <1>0, SMTT(30)
    <3>3. CASE i = Len(kept) + 1
      BY <3>1, <3>3, <2>1, <2>2, <1>0
    <3> QED BY <2>6, <3>2, <3>3
  <2>8. \A i, j \in 1..Len(frames') : i < j => frames'[i] < frames'[j]
    <3> SUFFICES ASSUME NEW i \in 1..Len(frames'), NEW j \in 1..Len(frames'), i < j
                 PROVE  frames'[i] < frames'[j]
      OBVIOUS
    <3>1. i \in 1..Len(kept)
      BY <2>2
    <3>2. CASE j \in 1..Len(kept)
      BY <3>1, <3>2, <2>2, <2>5
    <3>3. CASE j = Len(kept) + 1
      <4>1. frames'[i] = kept[i] /\ kept[i] \in Nat /\ kept[i] <= offered
        BY <3>1, <2>2, <2>3, <2>4
      <4>2. frames'[j] = offered + 1
        BY <3>3, <2>2
      <4> QED BY <4>1, <4>2, <1>0
    <3> QED BY <2>6, <3>2, <3>3
  <2>9. lastPolled' <= offered'
    BY <2>1, <1>0 DEF Numbered
  <2> QED BY <2>7, <2>8, <2>9 DEF Numbered
<1>2. CASE Connector!Buffer!PushLatest
  <2>1. <<>> \in Seq(Nat) /\ Len(<<>>) + Len(frames) = Len(frames) /\ \A i \in 1..Len(<<>>) : FALSE
    BY <1>0
  <2> QED BY <1>0, <1>1, <1>2, <2>1 DEF Connector!Buffer!PushLatest
<1>3. CASE Connector!Buffer!PushRoom
  <2>1. \A i \in 1..Len(frames) : frames[i] = frames[0 + i]
    BY <1>0
  <2> QED BY <1>0, <1>1, <1>3, <2>1 DEF Connector!Buffer!PushRoom
<1>4. CASE Connector!Buffer!PushOverflow
  <2>1. Len(frames) > 0
    BY <1>0, <1>4 DEF Connector!Buffer!PushOverflow, Connector!Buffer!Full, BufferBooks,
                      Connector!Buffer!TypeOK
  <2>2. /\ Tail(frames) \in Seq(Nat) /\ Len(Tail(frames)) + 1 = Len(frames)
        /\ \A i \in 1..Len(Tail(frames)) : Tail(frames)[i] = frames[i + 1]
    BY <1>0, <2>1
  <2>3. \A i \in 1..Len(Tail(frames)) : Tail(frames)[i] = frames[1 + i]
    BY <2>2
  <2> QED BY <1>1, <1>4, <2>2, <2>3 DEF Connector!Buffer!PushOverflow
<1>5. CASE Connector!Buffer!PushBackpressure
  <2>1. frames' = frames /\ lastPolled' = lastPolled
    BY <1>5 DEF Connector!Buffer!PushBackpressure
  <2>2. \A i \in 1..Len(frames) : frames[i] \in Nat
    BY <1>0, ElementFacts
  <2>3. \A i \in 1..Len(frames) : frames[i] <= offered + 1
    BY <1>0, <2>2 DEF Numbered
  <2> QED BY <1>0, <2>1, <2>3 DEF Numbered
<1> QED BY <1>2, <1>3, <1>4, <1>5 DEF Connector!Buffer!Push

LEMMA TakeNumbered ==
  ASSUME BufferBooks, Numbered
  PROVE  /\ Connector!Buffer!Poll => Numbered' /\ lastPolled' > lastPolled
         /\ Connector!ClearBuffer => Numbered' /\ polledFrames' = polledFrames
         /\ UNCHANGED Connector!buffer => Numbered' /\ polledFrames' = polledFrames
<1>0. Len(frames) \in Nat /\ frames \in Seq(Nat) /\ offered \in Nat /\ lastPolled \in Nat
  BY DEF BufferBooks, Connector!Buffer!TypeOK
<1>1. ASSUME Connector!Buffer!Poll PROVE Numbered' /\ lastPolled' > lastPolled
  <2>1. frames # <<>> /\ frames' = Tail(frames) /\ lastPolled' = Head(frames) /\ offered' = offered
    BY <1>1 DEF Connector!Buffer!Poll
  <2>2. /\ Head(frames) = frames[1] /\ 1 \in 1..Len(frames) /\ Len(frames') = Len(frames) - 1
        /\ \A i \in 1..Len(frames') : frames'[i] = frames[i + 1]
        /\ \A i \in 1..Len(frames') : i + 1 \in 1..Len(frames) /\ 1 < i + 1
    BY <1>0, <2>1
  <2>3. lastPolled < frames[1] /\ frames[1] <= offered /\ frames[1] \in Nat
    BY <1>0, <2>2 DEF Numbered
  <2>4. \A i \in 1..Len(frames') : frames[1] < frames'[i] /\ frames'[i] <= offered
    BY <2>2 DEF Numbered
  <2>5. \A i, j \in 1..Len(frames') : i < j => frames'[i] < frames'[j]
    <3> SUFFICES ASSUME NEW i \in 1..Len(frames'), NEW j \in 1..Len(frames'), i < j
                 PROVE  frames'[i] < frames'[j]
      OBVIOUS
    <3>1. i + 1 \in 1..Len(frames) /\ j + 1 \in 1..Len(frames) /\ i + 1 < j + 1
      BY <2>2
    <3> QED BY <3>1, <2>2 DEF Numbered
  <2> QED BY <2>1, <2>2, <2>3, <2>4, <2>5, <1>0 DEF Numbered
<1>2. ASSUME UNCHANGED Connector!buffer PROVE Numbered' /\ polledFrames' = polledFrames
  BY <1>2 DEF Connector!buffer, Numbered
<1>3. ASSUME Connector!ClearBuffer PROVE Numbered' /\ polledFrames' = polledFrames
  <2>1. CASE frames = <<>>
    BY <1>2, <1>3, <2>1 DEF Connector!ClearBuffer
  <2>2. CASE frames # <<>>
    <3>1. frames' = <<>> /\ UNCHANGED <<offered, lastPolled, polledFrames>>
      BY <1>3, <2>2 DEF Connector!ClearBuffer, Connector!Buffer!Clear, Connector!Buffer!stats
    <3>2. \A i \in 1..Len(frames') : FALSE
      BY <3>1
    <3> QED BY <3>1, <3>2 DEF Numbered
  <2> QED BY <2>1, <2>2
<1> QED BY <1>1, <1>2, <1>3

\* Every step of the connector steps its buffer, or begins a session with another.
LEMMA NumberedStep ==
  ASSUME BufferBooks, Numbered, opened \in Nat, [Connector!Next]_Connector!vars
  PROVE  /\ Numbered'
         /\ opened' = opened /\ polledFrames' > polledFrames => lastPolled' > lastPolled
<1>0. polledFrames \in Nat
  BY DEF BufferBooks, Connector!Buffer!TypeOK
<1>1. CASE \E requested \in RequestedCapacities, chosen \in Connector!Buffer!BufferMode,
              bound \in BOOLEAN : Connector!Open(requested, chosen, bound)
  <2>1. opened' = opened + 1 /\ frames' = <<>> /\ lastPolled' = 0 /\ offered' = 0
    BY <1>1 DEF Connector!Open, Connector!ResetSource, Connector!FreshBuffer
  <2>2. \A i \in 1..Len(frames') : FALSE
    BY <2>1
  <2> QED BY <2>1, <2>2 DEF Numbered
<1>2. CASE Connector!EnqueueFrame
  <2>1. Connector!Buffer!Push
    BY <1>2 DEF Connector!EnqueueFrame
  <2>2. polledFrames' = polledFrames
    BY <2>1 DEF Connector!Buffer!Push, Connector!Buffer!PushLatest, Connector!Buffer!PushRoom,
                Connector!Buffer!PushOverflow, Connector!Buffer!PushBackpressure, Connector!Buffer!Admit
  <2> QED BY <1>0, <2>1, <2>2, PushNumbered
<1>3. CASE Connector!PollBuffered \/ Connector!CallReturns
  <2>1. Connector!Buffer!Poll \/ UNCHANGED Connector!buffer
    BY <1>3 DEF Connector!PollBuffered, Connector!CallReturns
  <2> QED BY <1>0, <2>1, TakeNumbered
<1>4. CASE Connector!Close \/ Connector!OpenWrongProfile
  <2>1. Connector!ClearBuffer
    BY <1>4 DEF Connector!Close, Connector!OpenWrongProfile
  <2> QED BY <1>0, <2>1, TakeNumbered
<1>5. CASE \/ Connector!Arrive \/ Connector!PollFails \/ Connector!PollReceives \/ Connector!PushInput
           \/ Connector!StartCapture \/ Connector!StopCapture \/ UNCHANGED Connector!vars
  <2>1. UNCHANGED Connector!buffer
    BY <1>5 DEF Connector!Arrive, Connector!PollFails, Connector!PollReceives, Connector!PushInput,
                Connector!StartCapture, Connector!StopCapture, Connector!vars
  <2> QED BY <1>0, <2>1, TakeNumbered
<1> QED BY <1>1, <1>2, <1>3, <1>4, <1>5 DEF Connector!Next, Connector!Poll

-----------------------------------------------------------------------------
(* DatagramConnector: what waits in the socket and what was captured.       *)

\* The numbers of the datagrams that wait; 0 is a failure.
Unread == {waiting[i] : i \in 1..Len(waiting)} \ {0}

\* The datagrams that wait are the newest that arrived, in order; a capture that
\* has begun goes on with the first of them.
Wire ==
  /\ waiting \in Seq(0..MaxArrivals) /\ arrivals \in 0..MaxArrivals
  /\ arrived \in 0..arrivals /\ received \in 0..arrived
  /\ capturing \in BOOLEAN /\ capture \in Seq(1..MaxArrivals)
  /\ \A i, j \in 1..Len(waiting) :
       i < j /\ waiting[i] # 0 /\ waiting[j] # 0 => waiting[i] < waiting[j]
  /\ \A x \in Unread : x <= arrived /\ \A n \in x..arrived : n \in Unread
  /\ capturing /\ capture # <<>> => Unread = (received + 1)..arrived
  /\ Connector!CaptureIsTheWire

LEMMA UnreadFacts ==
  ASSUME Wire
  PROVE  /\ \A i \in 1..Len(waiting) : waiting[i] \in Nat
         /\ \A y \in Unread : y \in Nat /\ y # 0
<1>1. waiting \in Seq(0..MaxArrivals)
  BY DEF Wire
<1>2. \A i \in 1..Len(waiting) : waiting[i] \in 0..MaxArrivals
  BY <1>1, ElementFacts
<1>3. \A n \in 0..MaxArrivals : n \in Nat
  OBVIOUS
<1> QED BY <1>2, <1>3 DEF Unread

LEMMA ArriveWire ==
  ASSUME Connector!BoundsAssumption, Wire, Connector!Arrive
  PROVE  Wire'
<1>0. /\ Len(waiting) \in Nat /\ arrived \in Nat /\ MaxArrivals \in Nat /\ arrivals \in Nat
      /\ arrivals < MaxArrivals /\ arrivals' = arrivals + 1 /\ received' = received
      /\ capturing' = capturing /\ capture' = capture
  BY DEF Wire, Connector!Arrive, Connector!BoundsAssumption, Connector!recording
<1>1. PICK x \in {0, arrived + 1} :
        waiting' = Append(waiting, x) /\ arrived' = (IF x = 0 THEN arrived ELSE arrived + 1)
  BY <1>0 DEF Connector!Arrive
<1>2. x \in 0..MaxArrivals
  BY <1>0 DEF Wire
<1>3. /\ waiting' \in Seq(0..MaxArrivals) /\ Len(waiting') = Len(waiting) + 1
      /\ \A i \in 1..Len(waiting) : waiting'[i] = waiting[i]
      /\ waiting'[Len(waiting) + 1] = x
  BY <1>1, <1>2 DEF Wire
<1>4. \A i \in 1..Len(waiting') : i \in 1..Len(waiting) \/ i = Len(waiting) + 1
  BY <1>3, <1>0
<1>5. Unread' = Unread \cup ({x} \ {0})
  <2>1. \A y \in Unread' : y \in Unread \cup ({x} \ {0})
    BY <1>3, <1>4 DEF Unread
  <2>2. \A i \in 1..Len(waiting) + 1 : i \in 1..Len(waiting')
    BY <1>3
  <2>3. \A i \in 1..Len(waiting) : i \in 1..Len(waiting')
    BY <1>3, <1>0
  <2>4. \A y \in Unread : y \in Unread'
    BY <1>3, <2>3 DEF Unread
  <2>5. Len(waiting) + 1 \in 1..Len(waiting')
    BY <1>3, <1>0
  <2>6. x # 0 => x \in Unread'
    BY <1>3, <2>5 DEF Unread
  <2> QED BY <2>1, <2>4, <2>6
<1>6. \A y \in Unread : y \in Nat /\ y <= arrived
  BY <1>0 DEF Wire, Unread
<1>7. \A i \in 1..Len(waiting) : waiting[i] # 0 => waiting[i] \in Unread
  BY DEF Unread
<1>8. \A i, j \in 1..Len(waiting') :
        i < j /\ waiting'[i] # 0 /\ waiting'[j] # 0 => waiting'[i] < waiting'[j]
  <2> SUFFICES ASSUME NEW i \in 1..Len(waiting'), NEW j \in 1..Len(waiting'),
                      i < j, waiting'[i] # 0, waiting'[j] # 0
               PROVE  waiting'[i] < waiting'[j]
    OBVIOUS
  <2>1. i \in 1..Len(waiting)
    BY <1>3, <1>0
  <2>2. CASE j \in 1..Len(waiting)
    BY <2>1, <2>2, <1>3 DEF Wire
  <2>3. CASE j = Len(waiting) + 1
    <3>1. waiting'[j] = arrived + 1 /\ waiting'[i] = waiting[i]
      BY <2>3, <2>1, <1>3, <1>1
    <3>2. waiting[i] <= arrived /\ waiting[i] \in Nat
      BY <3>1, <2>1, <1>6, <1>7
    <3> QED BY <3>1, <3>2, <1>0
  <2> QED BY <1>4, <2>2, <2>3
<1>9. \A y \in Unread' : y <= arrived' /\ \A n \in y..arrived' : n \in Unread'
  <2>1. CASE x = 0
    BY <2>1, <1>1, <1>5 DEF Wire
  <2>2. CASE x # 0
    <3>1. arrived' = arrived + 1 /\ x = arrived + 1
      BY <2>2, <1>1
    <3> SUFFICES ASSUME NEW y \in Unread' PROVE y <= arrived' /\ \A n \in y..arrived' : n \in Unread'
      OBVIOUS
    <3>2. y = x \/ (y \in Unread /\ y <= arrived /\ \A n \in y..arrived : n \in Unread)
      BY <1>5 DEF Wire
    <3>3. \A n \in y..arrived' : n = x \/ n \in y..arrived
      BY <3>1, <3>2, <1>6, <1>0
    <3>4. y \in Nat /\ y <= arrived'
      BY <3>1, <3>2, <1>6, <1>0
    <3>5. CASE y = x
      BY <3>1, <3>5, <1>0, <1>5, <2>2
    <3>6. CASE y \in Unread
      <4>1. y <= arrived /\ \A n \in y..arrived : n \in Unread
        BY <3>6 DEF Wire
      <4>2. x \in Unread' /\ \A n \in Unread : n \in Unread'
        BY <1>5, <2>2
      <4>3. \A n \in y..arrived' : n \in Unread'
        BY <3>3, <4>1, <4>2
      <4> QED BY <3>4, <4>3
    <3> QED BY <3>2, <3>5, <3>6
  <2> QED BY <2>1, <2>2
<1>10. capturing' /\ capture' # <<>> => Unread' = (received' + 1)..arrived'
  <2> SUFFICES ASSUME capturing, capture # <<>> PROVE Unread' = (received + 1)..arrived'
    BY <1>0
  <2>1. Unread = (received + 1)..arrived
    BY DEF Wire
  <2>2. received \in Nat /\ received <= arrived
    BY <1>0 DEF Wire
  <2> QED BY <2>1, <2>2, <1>0, <1>1, <1>5
<1>11. arrived' \in 0..arrivals' /\ received' \in 0..arrived' /\ arrivals' \in 0..MaxArrivals
  BY <1>0, <1>1 DEF Wire
<1>12. Connector!CaptureIsTheWire'
  BY <1>0 DEF Wire, Connector!CaptureIsTheWire
<1> QED BY <1>0, <1>3, <1>8, <1>9, <1>10, <1>11, <1>12 DEF Wire

\* The first of the queue leaves it.
LEMMA HeadWire ==
  ASSUME Connector!BoundsAssumption, Wire, waiting # <<>>, waiting' = Tail(waiting)
  PROVE  /\ waiting' \in Seq(0..MaxArrivals)
         /\ \A i, j \in 1..Len(waiting') :
              i < j /\ waiting'[i] # 0 /\ waiting'[j] # 0 => waiting'[i] < waiting'[j]
         /\ Unread' = Unread \ {Head(waiting)}
         /\ Head(waiting) # 0 =>
              Head(waiting) \in Unread /\ \A y \in Unread' : Head(waiting) < y
<1>1. /\ Len(waiting) \in Nat \ {0} /\ waiting' \in Seq(0..MaxArrivals)
      /\ Len(waiting') = Len(waiting) - 1 /\ Head(waiting) = waiting[1]
      /\ \A i \in 1..Len(waiting') : waiting'[i] = waiting[i + 1]
  BY DEF Wire
<1>2. \A i \in 1..Len(waiting') : i + 1 \in 1..Len(waiting) /\ 1 < i + 1
  BY <1>1
<1>3. \A i \in 1..Len(waiting) : waiting[i] \in Nat
  BY UnreadFacts
<1>4. \A i, j \in 1..Len(waiting') :
        i < j /\ waiting'[i] # 0 /\ waiting'[j] # 0 => waiting'[i] < waiting'[j]
  <2> SUFFICES ASSUME NEW i \in 1..Len(waiting'), NEW j \in 1..Len(waiting'),
                      i < j, waiting'[i] # 0, waiting'[j] # 0
               PROVE  waiting'[i] < waiting'[j]
    OBVIOUS
  <2>1. i + 1 \in 1..Len(waiting) /\ j + 1 \in 1..Len(waiting) /\ i + 1 < j + 1
    BY <1>2
  <2>2. waiting[i + 1] # 0 /\ waiting[j + 1] # 0
    BY <1>1
  <2>3. waiting[i + 1] < waiting[j + 1]
    BY <2>1, <2>2 DEF Wire
  <2> QED BY <2>3, <1>1
<1>5. 1 \in 1..Len(waiting)
  BY <1>1
<1>6. \A y \in Unread' : \E i \in 1..Len(waiting) : 1 < i /\ y = waiting[i] /\ y # 0
  BY <1>1, <1>2 DEF Unread
<1>7. \A i \in 1..Len(waiting) : i # 1 => i - 1 \in 1..Len(waiting') /\ waiting'[i - 1] = waiting[i]
  BY <1>1
<1>8. \A y \in Unread : y # waiting[1] => y \in Unread'
  <2> SUFFICES ASSUME NEW y \in Unread, y # waiting[1] PROVE y \in Unread'
    OBVIOUS
  <2>1. PICK i \in 1..Len(waiting) : y = waiting[i] /\ y # 0
    BY DEF Unread
  <2>2. i - 1 \in 1..Len(waiting') /\ waiting'[i - 1] = y
    BY <2>1, <1>7
  <2> QED BY <2>1, <2>2 DEF Unread
<1>9. waiting[1] # 0 => \A y \in Unread' : waiting[1] < y
  <2> SUFFICES ASSUME waiting[1] # 0, NEW y \in Unread' PROVE waiting[1] < y
    OBVIOUS
  <2>1. PICK i \in 1..Len(waiting) : 1 < i /\ y = waiting[i] /\ y # 0
    BY <1>6
  <2> QED BY <2>1, <1>5 DEF Wire
<1>10. \A y \in Unread' : y \in Unread /\ y # waiting[1]
  <2> SUFFICES ASSUME NEW y \in Unread' PROVE y \in Unread /\ y # waiting[1]
    OBVIOUS
  <2>1. PICK i \in 1..Len(waiting) : 1 < i /\ y = waiting[i] /\ y # 0
    BY <1>6
  <2>2. y \in Nat /\ waiting[1] \in Nat
    BY <2>1, <1>3, <1>5
  <2>3. y \in Unread
    BY <2>1 DEF Unread
  <2> QED BY <2>1, <2>2, <2>3, <1>9
<1>11. waiting[1] # 0 => waiting[1] \in Unread
  BY <1>5 DEF Unread
<1> QED BY <1>1, <1>4, <1>8, <1>9, <1>10, <1>11

LEMMA ReadWire ==
  ASSUME Connector!BoundsAssumption, Wire, Connector!PollFails \/ Connector!PollReceives
  PROVE  Wire'
<1>0. /\ waiting # <<>> /\ waiting' = Tail(waiting) /\ UNCHANGED <<arrived, arrivals, capturing>>
      /\ \/ Head(waiting) = 0 /\ UNCHANGED <<received, capture>>
         \/ /\ Head(waiting) # 0 /\ received' = Head(waiting)
            /\ capture' = IF capturing THEN Append(capture, Head(waiting)) ELSE capture
  BY DEF Connector!PollFails, Connector!PollReceives, Connector!Listening, Connector!recording
<1>1. /\ waiting' \in Seq(0..MaxArrivals)
      /\ \A i, j \in 1..Len(waiting') :
           i < j /\ waiting'[i] # 0 /\ waiting'[j] # 0 => waiting'[i] < waiting'[j]
      /\ Unread' = Unread \ {Head(waiting)}
      /\ Head(waiting) # 0 => Head(waiting) \in Unread /\ \A y \in Unread' : Head(waiting) < y
  BY <1>0, HeadWire
<1>2. /\ MaxArrivals \in Nat /\ arrived \in Nat /\ arrivals \in Nat /\ received \in Nat
      /\ arrived <= arrivals /\ arrivals <= MaxArrivals
  BY DEF Wire, Connector!BoundsAssumption
<1>3. \A y \in Unread : y \in Nat /\ y # 0 /\ y <= arrived /\ \A n \in y..arrived : n \in Unread
  <2>1. \A y \in Unread : y <= arrived /\ \A n \in y..arrived : n \in Unread
    BY DEF Wire
  <2> QED BY <2>1, UnreadFacts
<1>4. CASE Head(waiting) = 0
  <2>1. Unread' = Unread
    BY <1>1, <1>3, <1>4
  <2>2. Connector!CaptureIsTheWire'
    BY <1>0, <1>4 DEF Wire, Connector!CaptureIsTheWire
  <2> QED BY <2>1, <2>2, <1>0, <1>1, <1>4 DEF Wire
<1>5. CASE Head(waiting) # 0
  <2> DEFINE next == Head(waiting)
  <2>1. /\ next \in Unread /\ next \in Nat /\ next # 0 /\ next <= arrived
        /\ \A n \in next..arrived : n \in Unread
    BY <1>1, <1>3, <1>5
  <2>2. Unread' = (next + 1)..arrived
    <3>1. \A y \in Unread' : y \in (next + 1)..arrived
      BY <1>1, <1>3, <1>5, <2>1, <1>2
    <3>2. \A y \in (next + 1)..arrived : y \in next..arrived /\ y # next
      BY <2>1, <1>2
    <3> QED BY <3>1, <3>2, <2>1, <1>1
  <2>3. received' = next /\ capture' = (IF capturing THEN Append(capture, next) ELSE capture)
    BY <1>0, <1>5
  <2>4. next \in 1..MaxArrivals
    BY <2>1, <1>2
  <2>5. capture \in Seq(1..MaxArrivals) /\ Len(capture) \in Nat /\ capturing \in BOOLEAN
    BY DEF Wire
  <2> HIDE DEF next
  <2>6. \A y \in Unread' : y <= arrived' /\ \A n \in y..arrived' : n \in Unread'
    BY <2>2, <1>0, <1>2, <2>1
  <2>7. received' \in 0..arrived' /\ capture' \in Seq(1..MaxArrivals)
    <3>1. next \in 0..arrived
      BY <2>1, <1>2
    <3>2. Append(capture, next) \in Seq(1..MaxArrivals)
      BY <2>4, <2>5
    <3> QED BY <3>1, <3>2, <2>3, <2>5, <1>0
  <2>8. Connector!CaptureIsTheWire'
    <3>1. CASE ~capturing
      BY <3>1, <2>3, <1>0 DEF Wire, Connector!CaptureIsTheWire
    <3>2. CASE capturing
      <4>1. /\ capture' = Append(capture, next) /\ Len(capture') = Len(capture) + 1
            /\ \A i \in 1..Len(capture) : capture'[i] = capture[i]
            /\ capture'[Len(capture) + 1] = next
        BY <3>2, <2>3, <2>4, <2>5
      <4>2. capture # <<>> => Unread = (received + 1)..arrived /\ capture[Len(capture)] = received
        BY <3>2 DEF Wire, Connector!CaptureIsTheWire
      <4>3. capture # <<>> => next = received + 1
        <5> SUFFICES ASSUME capture # <<>> PROVE next = received + 1
          OBVIOUS
        <5>1. next >= received + 1 /\ received + 1 <= arrived
          BY <4>2, <2>1, <1>2
        <5>2. received + 1 \in Unread
          BY <4>2, <5>1, <1>2
        <5>3. received + 1 = next \/ received + 1 \in Unread'
          BY <5>2, <1>1 DEF next
        <5> QED BY <5>1, <5>3, <2>2, <2>1, <1>2
      <4>4. ASSUME NEW i \in 1..Len(capture') - 1 PROVE capture'[i + 1] = capture'[i] + 1
        <5>1. CASE i = Len(capture)
          <6>1. capture # <<>>
            BY <5>1, <4>1, <2>5
          <6> QED BY <5>1, <6>1, <4>1, <4>2, <4>3, <2>5
        <5>2. CASE i # Len(capture)
          <6>1. i \in 1..Len(capture) - 1 /\ i \in 1..Len(capture) /\ i + 1 \in 1..Len(capture)
            BY <5>2, <4>1, <2>5
          <6>2. capture[i + 1] = capture[i] + 1
            BY <6>1 DEF Wire, Connector!CaptureIsTheWire
          <6> QED BY <6>1, <6>2, <4>1
        <5> QED BY <5>1, <5>2
      <4> QED BY <4>1, <4>4, <2>3, <2>5 DEF Connector!CaptureIsTheWire
    <3> QED BY <3>1, <3>2, <2>5
  <2>9. capturing' /\ capture' # <<>> => Unread' = (received' + 1)..arrived'
    BY <2>2, <2>3, <1>0
  <2> QED BY <2>5, <2>6, <2>7, <2>8, <2>9, <1>0, <1>1, <1>2 DEF Wire
<1> QED BY <1>4, <1>5

\* What closes the socket ends the capture.
LEMMA ClosedWire ==
  ASSUME Wire, waiting' = <<>>, capturing' = FALSE, UNCHANGED <<arrived, arrivals, received, capture>>
  PROVE  Wire'
<1>1. Len(waiting') = 0 /\ waiting' \in Seq(0..MaxArrivals)
  OBVIOUS
<1>2. Unread' = {} /\ \A i \in 1..Len(waiting') : FALSE
  BY <1>1 DEF Unread
<1>3. Connector!CaptureIsTheWire'
  BY DEF Wire, Connector!CaptureIsTheWire
<1>4. arrivals' \in 0..MaxArrivals /\ arrived' \in 0..arrivals' /\ received' \in 0..arrived'
      /\ capture' \in Seq(1..MaxArrivals)
  BY DEF Wire
<1> QED BY <1>1, <1>2, <1>3, <1>4 DEF Wire

LEMMA SwitchWire ==
  ASSUME Wire, UNCHANGED <<waiting, arrived, arrivals, received>>, capturing' \in BOOLEAN,
         capture' = <<>> \/ (capture' = capture /\ (capturing' => capturing))
  PROVE  Wire'
<1>1. Unread' = Unread
  BY DEF Unread
<1>2. CASE capture' = <<>>
  <2>1. Len(capture') = 0 /\ capture' \in Seq(1..MaxArrivals)
    BY <1>2
  <2> QED BY <1>1, <1>2, <2>1 DEF Wire, Connector!CaptureIsTheWire
<1>3. CASE capture' = capture /\ (capturing' => capturing)
  BY <1>1, <1>3 DEF Wire, Connector!CaptureIsTheWire
<1> QED BY <1>2, <1>3

-----------------------------------------------------------------------------
(* DatagramConnector: the states.                                           *)

Session ==
  /\ state \in Connector!ConnectorState /\ socketOpen \in BOOLEAN
  /\ call \in {"none", "Poll", "Push"} /\ pending \in 0..MaxFrames
  /\ opens \in 0..MaxOpens /\ opened \in 0..opens
  /\ Connector!FrameOfOneSession

ConnectorInv == BufferBooks /\ Wire /\ Session /\ Connector!StatePromisesNoFrame

LEMMA ConnectorInit == Connector!Init => ConnectorInv
<1> SUFFICES ASSUME Connector!Init PROVE ConnectorInv
  OBVIOUS
<1> USE ConnectorAssumption DEF Connector!BoundsAssumption, Connector!Init
<1>1. /\ frames = <<>> /\ accepted = <<>> /\ waiting = <<>> /\ capture = <<>>
      /\ Len(frames) = 0 /\ Len(waiting) = 0 /\ Len(capture) = 0
      /\ frames \in Seq(Nat) /\ accepted \in Seq(Nat)
      /\ waiting \in Seq(0..MaxArrivals) /\ capture \in Seq(1..MaxArrivals)
  OBVIOUS
<1>2. BufferBooks
  BY <1>1 DEF BufferBooks, Connector!Buffer!TypeOK, Connector!EveryNumberAccounted,
              Connector!Buffer!BufferMode
<1>3. Unread = {}
  BY <1>1 DEF Unread
<1>4. Wire
  <2>1. Connector!CaptureIsTheWire
    BY <1>1 DEF Connector!CaptureIsTheWire
  <2>2. arrivals \in 0..MaxArrivals /\ arrived \in 0..arrivals /\ received \in 0..arrived
    OBVIOUS
  <2>3. capturing = FALSE
    OBVIOUS
  <2>4. \A i \in 1..Len(waiting) : FALSE
    BY <1>1
  <2> QED BY <1>1, <1>3, <2>1, <2>2, <2>3, <2>4 DEF Wire
<1>5. Session /\ Connector!StatePromisesNoFrame
  <2>1. pending \in 0..MaxFrames /\ opens \in 0..MaxOpens /\ opened \in 0..opens
    OBVIOUS
  <2>2. socketOpen = FALSE /\ call = "none" /\ partial = {} /\ state = "Disconnected"
    OBVIOUS
  <2> QED BY <1>1, <2>1, <2>2 DEF Session, Connector!StatePromisesNoFrame, Connector!FrameOfOneSession,
              Connector!ConnectorState
<1> QED BY <1>2, <1>4, <1>5 DEF ConnectorInv

LEMMA ConnectorStep ==
  ASSUME ConnectorInv, [Connector!Next]_Connector!vars
  PROVE  ConnectorInv'
<1>0. /\ BufferBooks /\ Wire /\ Session /\ Connector!StatePromisesNoFrame
      /\ Connector!BoundsAssumption
      /\ MaxOpens \in Nat /\ MaxFrames \in Nat
  BY ConnectorAssumption DEF ConnectorInv, Connector!BoundsAssumption
<1> USE DEF Connector!StatePromisesNoFrame, Connector!FrameOfOneSession
<1>1. CASE Connector!Arrive
  <2>1. UNCHANGED Connector!buffer /\ UNCHANGED <<frames, state, socketOpen, call, pending, partial, opened, opens>>
    BY <1>1 DEF Connector!Arrive, Connector!buffer, Connector!source
  <2> QED BY <2>1, <1>0, <1>1, ArriveWire, TakeBooks DEF ConnectorInv, Session
<1>2. CASE Connector!Close \/ Connector!OpenWrongProfile
  <2>1. /\ Connector!ClearBuffer /\ state' \in {"Disconnected", "Error"} /\ opens' \in {opens, opens + 1}
        /\ opens' \in 0..MaxOpens
        /\ capturing' = FALSE /\ socketOpen' = FALSE /\ waiting' = <<>>
        /\ UNCHANGED <<call, arrived, arrivals, capture, received, pending, partial, opened>>
        /\ opened \in 0..opens'
    BY <1>0, <1>2 DEF Connector!Close, Connector!OpenWrongProfile, Connector!Disconnect, Connector!source,
                      Session
  <2>2. BufferBooks' /\ frames' = <<>>
    BY <2>1, <1>0, TakeBooks
  <2>3. Wire'
    BY <2>1, <1>0, ClosedWire
  <2>4. Session'
    BY <2>1, <1>0 DEF Session, Connector!ConnectorState
  <2> QED BY <2>2, <2>3, <2>4 DEF ConnectorInv
<1>3. ASSUME NEW requested \in RequestedCapacities, NEW chosen \in Connector!Buffer!BufferMode,
             NEW bound \in BOOLEAN, Connector!Open(requested, chosen, bound)
      PROVE  ConnectorInv'
  <2>1. /\ Connector!FreshBuffer(requested, chosen) /\ opens < MaxOpens /\ opens' = opens + 1
        /\ pending' = 0 /\ partial' = {} /\ opened' = opened + 1
        /\ capturing' = FALSE /\ waiting' = <<>> /\ socketOpen' = bound
        /\ state' \in {"Connecting", "Error"}
        /\ UNCHANGED <<call, arrived, arrivals, capture, received>>
    BY <1>3 DEF Connector!Open, Connector!ResetSource
  <2>2. BufferBooks' /\ frames' = <<>>
    BY <2>1, <1>0, FreshBooks
  <2>3. Wire'
    BY <2>1, <1>0, ClosedWire
  <2>4. Session'
    BY <2>1, <1>0 DEF Session, Connector!ConnectorState
  <2> QED BY <2>2, <2>3, <2>4 DEF ConnectorInv
<1>4. CASE Connector!PollBuffered
  <2>1. /\ Connector!Buffer!Poll /\ frames # <<>>
        /\ UNCHANGED <<state, socketOpen, call, pending, partial, opened, opens, waiting, arrived,
                       arrivals, received, capturing, capture>>
    BY <1>4 DEF Connector!PollBuffered, Connector!Buffer!Poll, Connector!network, Connector!source,
                Connector!recording
  <2>2. Wire'
    BY <2>1, <1>0, SwitchWire DEF Wire
  <2>3. state' \notin {"Disconnected", "Connecting", "Error"}
    BY <2>1, <1>0
  <2> QED BY <2>1, <2>2, <2>3, <1>0, TakeBooks DEF ConnectorInv, Session
<1>5. CASE Connector!PollFails
  <2>1. /\ UNCHANGED Connector!buffer /\ state' = "Error" /\ frames = <<>> /\ frames' = frames
        /\ UNCHANGED <<socketOpen, call, pending, partial, opened, opens>>
    BY <1>5 DEF Connector!PollFails, Connector!Listening, Connector!buffer, Connector!source
  <2>2. Session'
    BY <2>1, <1>0 DEF Session, Connector!ConnectorState
  <2> QED BY <2>1, <2>2, <1>0, <1>5, ReadWire, TakeBooks DEF ConnectorInv
<1>6. CASE Connector!PollReceives \/ Connector!PushInput
  <2>1. /\ UNCHANGED Connector!buffer /\ frames' = frames /\ call' \in {"Poll", "Push"}
        /\ UNCHANGED <<state, socketOpen, opens>>
        /\ \E count \in 0..MaxFrames : Connector!Feed(count)
    BY <1>6 DEF Connector!PollReceives, Connector!PushInput, Connector!buffer
  <2>2. pending' \in 0..MaxFrames /\ opened' = opened /\ partial' \subseteq partial \cup {opened}
    BY <2>1 DEF Connector!Feed
  <2>3. Session'
    BY <2>1, <2>2, <1>0 DEF Session
  <2>4. Wire'
    <3>1. CASE Connector!PollReceives
      BY <3>1, <1>0, ReadWire
    <3>2. CASE Connector!PushInput
      <4>1. UNCHANGED <<waiting, arrived, arrivals, received, capturing, capture>>
        BY <3>2 DEF Connector!PushInput, Connector!network, Connector!recording
      <4> QED BY <4>1, <1>0, SwitchWire DEF Wire
    <3> QED BY <1>6, <3>1, <3>2
  <2> QED BY <2>1, <2>3, <2>4, <1>0, TakeBooks DEF ConnectorInv
<1>7. CASE Connector!EnqueueFrame
  <2>1. /\ Connector!Buffer!Push /\ pending > 0 /\ pending' = pending - 1
        /\ state' \in {"Connected", "Degraded"}
        /\ UNCHANGED <<socketOpen, call, partial, opened, opens, waiting, arrived, arrivals, received,
                       capturing, capture>>
    BY <1>7 DEF Connector!EnqueueFrame, Connector!network, Connector!recording
  <2>2. Wire'
    BY <2>1, <1>0, SwitchWire DEF Wire
  <2>3. Session'
    BY <2>1, <1>0 DEF Session, Connector!ConnectorState
  <2> QED BY <2>1, <2>2, <2>3, <1>0, PushBooks DEF ConnectorInv
<1>8. CASE Connector!CallReturns
  <2>1. /\ call' = "none"
        /\ \/ Connector!Buffer!Poll /\ frames # <<>>
           \/ UNCHANGED Connector!buffer /\ frames' = frames
        /\ UNCHANGED <<state, socketOpen, pending, partial, opened, opens, waiting, arrived, arrivals,
                       received, capturing, capture>>
    BY <1>8 DEF Connector!CallReturns, Connector!network, Connector!recording, Connector!source,
                Connector!buffer
  <2>2. Wire'
    BY <2>1, <1>0, SwitchWire DEF Wire
  <2>3. Session'
    BY <2>1, <1>0 DEF Session
  <2>4. Connector!StatePromisesNoFrame'
    BY <2>1, <1>0
  <2> QED BY <2>1, <2>2, <2>3, <2>4, <1>0, TakeBooks DEF ConnectorInv
<1>9. CASE Connector!StartCapture \/ Connector!StopCapture
  <2>1. /\ UNCHANGED Connector!buffer /\ frames' = frames
        /\ UNCHANGED <<state, socketOpen, call, pending, partial, opened, opens, waiting, arrived, arrivals,
                       received>>
        /\ (capture' = <<>> /\ capturing' = TRUE) \/ (capture' = capture /\ capturing' = FALSE)
    BY <1>9 DEF Connector!StartCapture, Connector!StopCapture, Connector!network, Connector!source,
                Connector!buffer
  <2>2. Wire'
    BY <2>1, <1>0, SwitchWire
  <2> QED BY <2>1, <2>2, <1>0, TakeBooks DEF ConnectorInv, Session
<1>10. CASE UNCHANGED Connector!vars
  <2>1. /\ UNCHANGED Connector!buffer /\ frames' = frames
        /\ UNCHANGED <<state, socketOpen, call, pending, partial, opened, opens, waiting, arrived, arrivals,
                       received, capture, capturing>>
    BY <1>10 DEF Connector!vars, Connector!network, Connector!source, Connector!buffer, Connector!recording
  <2>2. Wire'
    BY <2>1, <1>0, SwitchWire DEF Wire
  <2> QED BY <2>1, <2>2, <1>0, TakeBooks DEF ConnectorInv, Session
<1> QED
  BY <1>1, <1>2, <1>3, <1>4, <1>5, <1>6, <1>7, <1>8, <1>9, <1>10 DEF Connector!Next, Connector!Poll

-----------------------------------------------------------------------------

\* VmcConnector and MocopiConnector: a state that promises no frame holds none,
\* every frame number is accounted for, no frame has samples of two sessions, and
\* a capture is what was received, for every capacity, mode and number of calls.
THEOREM ConnectorSafety == Connector!Spec => []ConnectorInvariant
<1>1. ConnectorInv => ConnectorInvariant
  <2> SUFFICES ASSUME ConnectorInv PROVE Connector!ConnectorInvariant
    BY DEF ConnectorInvariant
  <2>1. Connector!TypeOK
    <3>0. MaxArrivals \in Nat /\ MaxOpens \in Nat
      BY ConnectorAssumption DEF Connector!BoundsAssumption
    <3>1. arrived \in 0..MaxArrivals /\ received \in 0..MaxArrivals
      <4>1. arrivals \in 0..MaxArrivals /\ arrived \in 0..arrivals /\ received \in 0..arrived
        BY DEF ConnectorInv, Wire
      <4> QED BY <4>1, <3>0
    <3>2. opened \in 0..MaxOpens /\ partial \subseteq 0..opened
      <4>1. opens \in 0..MaxOpens /\ opened \in 0..opens /\ partial \subseteq {opened}
        BY DEF ConnectorInv, Session, Connector!FrameOfOneSession
      <4>2. opened \in 0..MaxOpens /\ opened \in 0..opened
        BY <4>1, <3>0
      <4> QED BY <4>1, <4>2
    <3> QED BY <3>1, <3>2 DEF ConnectorInv, BufferBooks, Wire, Session, Connector!TypeOK
  <2> QED BY <2>1 DEF ConnectorInv, BufferBooks, Wire, Session, Connector!ConnectorInvariant
<1> QED BY <1>1, ConnectorInit, ConnectorStep, PTL DEF Connector!Spec

\* Poll: within a session no frame number is handed out twice or backwards.
THEOREM DeliveryOrder == Connector!Spec => Connector!DeliveryAdvances
<1>1. Connector!Init => ConnectorInv /\ Numbered
  <2>1. Connector!Init => Numbered
    <3> SUFFICES ASSUME Connector!Init PROVE Numbered
      OBVIOUS
    <3>1. frames = <<>> /\ lastPolled = 0 /\ offered = 0
      BY DEF Connector!Init
    <3>2. \A i \in 1..Len(frames) : FALSE
      BY <3>1
    <3> QED BY <3>1, <3>2 DEF Numbered
  <2> QED BY <2>1, ConnectorInit
<1>2. ConnectorInv /\ Numbered /\ [Connector!Next]_Connector!vars
        => /\ ConnectorInv' /\ Numbered'
           /\ [(opened' = opened /\ polledFrames' > polledFrames) => lastPolled' > lastPolled]_Connector!vars
  <2> SUFFICES ASSUME ConnectorInv, Numbered, [Connector!Next]_Connector!vars
               PROVE  /\ ConnectorInv' /\ Numbered'
                      /\ opened' = opened /\ polledFrames' > polledFrames => lastPolled' > lastPolled
    OBVIOUS
  <2>1. BufferBooks /\ opened \in Nat
    BY DEF ConnectorInv, Session
  <2> QED BY <2>1, ConnectorStep, NumberedStep
<1> QED BY <1>1, <1>2, PTL DEF Connector!Spec, Connector!DeliveryAdvances

-----------------------------------------------------------------------------
(* Numbers by induction, and folds: a fold of a sequence is a recursive       *)
(* function on the subsets of its domain, the last element first, so that it  *)
(* exists and what it computes is shown for the first m elements, m growing.  *)

LEMMA AppendedFacts ==
  ASSUME NEW s \in Seq(Nat), NEW e \in Nat
  PROVE  /\ Append(s, e) \in Seq(Nat) /\ Len(Append(s, e)) = Len(s) + 1
         /\ Append(s, e)[Len(s) + 1] = e /\ Append(s, e) # <<>>
         /\ \A i \in 1..Len(s) : Append(s, e)[i] = s[i]
<1>1. /\ Append(s, e) \in Seq(Nat) /\ Len(Append(s, e)) = Len(s) + 1 /\ Len(s) \in Nat
      /\ Append(s, e)[Len(s) + 1] = e /\ \A i \in 1..Len(s) : Append(s, e)[i] = s[i]
  OBVIOUS
<1> QED BY <1>1

\* Every set of numbers has a least one.
LEMMA LeastExists ==
  ASSUME NEW free \in SUBSET Nat, free # {}
  PROVE  \E h \in free : \A k \in free : h <= k
<1> DEFINE Below(h) == {k \in free : k < h}
           Belows == {Below(h) : h \in free}
<1>1. \A h \in free : Below(h) \in FiniteSubsetsOf(Nat)
  <2> SUFFICES ASSUME NEW h \in free PROVE Below(h) \in FiniteSubsetsOf(Nat)
    OBVIOUS
  <2>1. h \in Nat /\ IsFiniteSet(0..h)
    BY FS_Interval
  <2>2. Below(h) \in SUBSET (0..h) /\ Below(h) \in SUBSET Nat
    <3>1. \A k \in free : k \in Nat /\ (k < h => k \in 0..h)
      BY <2>1
    <3> QED BY <3>1
  <2>3. IsFiniteSet(Below(h))
    BY <2>1, <2>2, FS_Subset
  <2> QED BY <2>2, <2>3 DEF FiniteSubsetsOf
<1>2. Belows \subseteq FiniteSubsetsOf(Nat) /\ Belows # {}
  BY <1>1
<1>3. PICK least \in Belows : \A other \in Belows : <<other, least>> \notin StrictSubsetOrdering(Nat)
  <2> HIDE DEF Belows
  <2> QED BY <1>2, WFMin, FS_StrictSubsetOrderingWellFounded
<1>4. PICK h \in free : least = Below(h)
  BY <1>3
<1>5. ASSUME NEW k \in free, k < h PROVE FALSE
  <2>1. k \in Nat /\ h \in Nat
    OBVIOUS
  <2>2. Below(k) \subseteq Below(h) /\ k \in Below(h) /\ k \notin Below(k)
    <3>1. ~(k < k) /\ \A x \in free : x < k => x < h
      BY <1>5, <2>1
    <3> QED BY <1>5, <3>1
  <2>3. Below(k) \in SUBSET Nat /\ Below(h) \in SUBSET Nat /\ Below(k) # Below(h)
    BY <2>2
  <2>4. <<Below(k), Below(h)>> \in StrictSubsetOrdering(Nat)
    <3> HIDE DEF Below
    <3> QED BY <2>2, <2>3 DEF StrictSubsetOrdering
  <2>5. Below(k) \in Belows
    BY <1>5
  <2> QED BY <1>3, <1>4, <2>4, <2>5
<1>6. \A k \in free : h <= k
  BY <1>5
<1> QED BY <1>6

\* The largest of a set of numbers, the one a fold takes last.
Top(s) == CHOOSE x \in s : \A y \in s : x >= y

\* A property of numbers that holds of 0 and is kept by adding one holds of all
\* of them up to n; "bad" is where it does not.
LEMMA NoneBad ==
  ASSUME NEW n \in Nat, NEW bad \in SUBSET (0..n), 0 \notin bad,
         \A m \in 0..n : m + 1 \in bad => m \in bad
  PROVE  bad = {}
<1> SUFFICES ASSUME bad # {} PROVE FALSE
  OBVIOUS
<1>1. bad \in SUBSET Nat
  OBVIOUS
<1>2. PICK h \in bad : \A k \in bad : h <= k
  BY <1>1, LeastExists
<1>3. h \in Nat /\ h # 0 /\ h \in 0..n
  OBVIOUS
<1>4. h - 1 \in 0..n /\ (h - 1) + 1 = h
  BY <1>3
<1>5. h - 1 \in bad
  BY <1>4
<1> QED BY <1>2, <1>3, <1>5

\* h is a fold of the subsets of 1..n, the largest number last.
Folds(h, n, base, next) ==
  \A s \in SUBSET (1..n) : h[s] = IF s = {} THEN base ELSE next[<<h[s \ {Top(s)}], Top(s)>>]

LEMMA FoldExists ==
  ASSUME NEW n \in Nat, NEW V, NEW base \in V, NEW next \in [V \X (1..n) -> V]
  PROVE  \E h \in [SUBSET (1..n) -> V] : Folds(h, n, base, next)
<1> DEFINE Fine(m) == \E h \in [SUBSET (1..m) -> V] : Folds(h, m, base, next)
           bad == {m \in 0..n : ~Fine(m)}
<1>1. Fine(0)
  <2> DEFINE h == [s \in SUBSET (1..0) |-> base]
  <2>1. \A s \in SUBSET (1..0) : s = {}
    OBVIOUS
  <2>2. h \in [SUBSET (1..0) -> V] /\ Folds(h, 0, base, next)
    BY <2>1 DEF Folds
  <2> HIDE DEF h
  <2> QED BY <2>2
<1>2. ASSUME NEW m \in 0..n, m + 1 \in 0..n, Fine(m) PROVE Fine(m + 1)
  <2>1. PICK g \in [SUBSET (1..m) -> V] : Folds(g, m, base, next)
    BY <1>2
  <2> DEFINE last == m + 1
             h == [s \in SUBSET (1..last) |-> IF last \in s THEN next[<<g[s \ {last}], last>>] ELSE g[s]]
  <2>2. /\ last \in 1..n /\ 1..m \subseteq 1..last /\ last \notin 1..m
        /\ \A k \in 1..last : k = last \/ k \in 1..m
        /\ \A k \in 1..last : last >= k /\ (k >= last => k = last)
    BY <1>2
  <2> HIDE DEF last
  <2>3. \A s \in SUBSET (1..last) : last \notin s => s \in SUBSET (1..m)
    BY <2>2
  <2>4. \A s \in SUBSET (1..last) : s \ {last} \in SUBSET (1..m)
    BY <2>2
  <2>5. \A s \in SUBSET (1..last) : last \in s => Top(s) = last
    BY <2>2 DEF Top
  <2>6. h \in [SUBSET (1..last) -> V]
    <3> SUFFICES ASSUME NEW s \in SUBSET (1..last)
                 PROVE  (IF last \in s THEN next[<<g[s \ {last}], last>>] ELSE g[s]) \in V
      OBVIOUS
    <3>1. CASE last \in s
      <4>1. <<g[s \ {last}], last>> \in V \X (1..n)
        BY <2>2, <2>4
      <4> QED BY <3>1, <4>1
    <3>2. CASE last \notin s
      BY <2>3, <3>2
    <3> QED BY <3>1, <3>2
  <2>7. \A s \in SUBSET (1..m) : s \in SUBSET (1..last) /\ last \notin s /\ h[s] = g[s]
    BY <2>2
  <2>8. \A s \in SUBSET (1..last) : last \in s => h[s] = next[<<g[s \ {last}], last>>]
    OBVIOUS
  <2> HIDE DEF h
  <2>9. Folds(h, last, base, next)
    <3> SUFFICES ASSUME NEW s \in SUBSET (1..last)
                 PROVE  h[s] = IF s = {} THEN base ELSE next[<<h[s \ {Top(s)}], Top(s)>>]
      BY DEF Folds
    <3>1. CASE last \in s
      <4>1. s # {} /\ Top(s) = last /\ h[s \ {last}] = g[s \ {last}]
        BY <2>4, <2>5, <2>7, <3>1
      <4> QED BY <2>8, <3>1, <4>1
    <3>2. CASE last \notin s
      <4>1. s \in SUBSET (1..m) /\ s \ {Top(s)} \in SUBSET (1..m)
        BY <2>3, <3>2
      <4>2. g[s] = IF s = {} THEN base ELSE next[<<g[s \ {Top(s)}], Top(s)>>]
        BY <2>1, <4>1 DEF Folds
      <4> QED BY <2>7, <4>1, <4>2
    <3> QED BY <3>1, <3>2
  <2> QED BY <2>6, <2>9 DEF last
<1>3. bad \in SUBSET (0..n) /\ 0 \notin bad /\ \A m \in 0..n : m + 1 \in bad => m \in bad
  <2> HIDE DEF Fine
  <2> QED BY <1>1, <1>2
<1>4. bad = {}
  <2> HIDE DEF bad
  <2> QED BY <1>3, NoneBad
<1> HIDE DEF Fine
<1>5. n \in 0..n
  OBVIOUS
<1> QED BY <1>4, <1>5 DEF Fine

\* The numbers up to m: their largest is m.
LEMMA Segments ==
  ASSUME NEW n \in Nat
  PROVE  \A m \in 1..n : /\ 1..m \in SUBSET (1..n) /\ 1..m # {}
                         /\ Top(1..m) = m /\ (1..m) \ {Top(1..m)} = 1..(m - 1)
<1> SUFFICES ASSUME NEW m \in 1..n
             PROVE  /\ 1..m \in SUBSET (1..n) /\ 1..m # {}
                    /\ Top(1..m) = m /\ (1..m) \ {Top(1..m)} = 1..(m - 1)
  OBVIOUS
<1>1. 1..m \in SUBSET (1..n) /\ 1..m # {} /\ m \in 1..m
  OBVIOUS
<1>2. \A k \in 1..m : m >= k /\ (k >= m => k = m)
  OBVIOUS
<1>3. Top(1..m) = m
  BY <1>1, <1>2 DEF Top
<1>4. (1..m) \ {m} = 1..(m - 1)
  OBVIOUS
<1> QED BY <1>1, <1>3, <1>4

LEMMA TopIsIn ==
  ASSUME NEW n \in Nat, NEW s \in SUBSET (1..n), s # {}
  PROVE  Top(s) \in s
<1> DEFINE over == {u \in 0..n : \A y \in s : u >= y}
<1>1. over \in SUBSET Nat /\ over # {}
  <2>1. n \in over
    OBVIOUS
  <2> QED BY <2>1
<1>2. PICK u \in over : \A k \in over : u <= k
  <2> HIDE DEF over
  <2> QED BY <1>1, LeastExists
<1>3. u \in Nat /\ \A y \in s : u >= y /\ y \in Nat /\ y >= 1
  OBVIOUS
<1>4. u \in s
  <2> SUFFICES ASSUME u \notin s PROVE FALSE
    OBVIOUS
  <2>1. \A y \in s : u - 1 >= y
    BY <1>3
  <2>2. PICK y \in s : TRUE
    OBVIOUS
  <2>3. u - 1 \in over
    BY <1>3, <2>1, <2>2
  <2> QED BY <1>2, <1>3, <2>3
<1> QED BY <1>3, <1>4 DEF Top

LEMMA NumberIsNat ==
  ASSUME NEW bytes \in Seq(Nat)
  PROVE  Osc!Number(bytes) \in Nat
<1> DEFINE n == Len(bytes)
           next == [p \in Nat \X (1..n) |-> p[1] * 256 + bytes[p[2]]]
           Made(g) == g = [s \in SUBSET (1..n) |-> IF s = {} THEN 0 ELSE g[s \ {Top(s)}] * 256 + bytes[Top(s)]]
           it == CHOOSE g : Made(g)
<1>1. n \in Nat /\ DOMAIN bytes = 1..n /\ \A i \in 1..n : bytes[i] \in Nat
  OBVIOUS
<1>0. Osc!Number(bytes) = it[1..n]
  BY <1>1 DEF Osc!Number, Osc!FoldLeft, Osc!MapThenFoldSet, Osc!Max, Top
<1> HIDE DEF n
<1>2. next \in [Nat \X (1..n) -> Nat]
  BY <1>1
<1>3. \A v \in Nat, i \in 1..n : next[<<v, i>>] = v * 256 + bytes[i]
  OBVIOUS
<1> HIDE DEF next
<1>4. PICK h \in [SUBSET (1..n) -> Nat] : Folds(h, n, 0, next)
  BY <1>1, <1>2, FoldExists
<1>5. Made(h)
  <2>1. ASSUME NEW s \in SUBSET (1..n), s # {}
        PROVE  h[s] = h[s \ {Top(s)}] * 256 + bytes[Top(s)]
    <3>1. Top(s) \in 1..n /\ h[s \ {Top(s)}] \in Nat
      BY <1>1, <2>1, TopIsIn
    <3>2. h[s] = next[<<h[s \ {Top(s)}], Top(s)>>]
      BY <1>4, <2>1 DEF Folds
    <3> QED BY <1>3, <3>1, <3>2
  <2>2. \A s \in SUBSET (1..n) : s = {} => h[s] = 0
    BY <1>4 DEF Folds
  <2> QED BY <2>1, <2>2
<1>6. Made(it)
  <2> HIDE DEF Made
  <2> QED BY <1>5
<1> HIDE DEF it
<1>7. it[1..0] = 0 /\ \A m \in 1..n : it[1..m] = it[1..(m - 1)] * 256 + bytes[m]
  <2>1. \A s \in SUBSET (1..n) : it[s] = IF s = {} THEN 0 ELSE it[s \ {Top(s)}] * 256 + bytes[Top(s)]
    BY <1>6
  <2>2. 1..0 \in SUBSET (1..n) /\ 1..0 = {}
    OBVIOUS
  <2>3. \A m \in 1..n : 1..m \in SUBSET (1..n) /\ 1..m # {} /\ (1..m) \ {Top(1..m)} = 1..(m - 1) /\ Top(1..m) = m
    BY <1>1, Segments
  <2> HIDE DEF Made
  <2>4. it[1..0] = 0
    BY <2>1, <2>2
  <2>5. ASSUME NEW m \in 1..n PROVE it[1..m] = it[1..(m - 1)] * 256 + bytes[m]
    <3>1. 1..m \in SUBSET (1..n) /\ 1..m # {}
      BY <2>3
    <3>2. it[1..m] = it[(1..m) \ {Top(1..m)}] * 256 + bytes[Top(1..m)]
      BY <2>1, <3>1
    <3>3. Top(1..m) = m /\ (1..m) \ {Top(1..m)} = 1..(m - 1)
      BY <2>3
    <3> QED BY <3>2, <3>3
  <2> QED BY <2>4, <2>5
<1> DEFINE bad == {m \in 0..n : it[1..m] \notin Nat}
<1>8. 0 \notin bad
  BY <1>7
<1>9. \A m \in 0..n : m + 1 \in bad => m \in bad
  <2> SUFFICES ASSUME NEW m \in 0..n, m + 1 \in bad, it[1..m] \in Nat PROVE FALSE
    OBVIOUS
  <2>1. m + 1 \in 1..n /\ (m + 1) - 1 = m
    BY <1>1
  <2>2. it[1..(m + 1)] = it[1..m] * 256 + bytes[m + 1] /\ bytes[m + 1] \in Nat
    BY <1>1, <1>7, <2>1
  <2> QED BY <2>2
<1>10. bad = {}
  <2> HIDE DEF bad
  <2>1. bad \in SUBSET (0..n)
    BY DEF bad
  <2> QED BY <1>1, <1>8, <1>9, <2>1, NoneBad
<1> QED BY <1>0, <1>1, <1>10

-----------------------------------------------------------------------------
(* OscPacket: where the decoder reads.                                      *)

\* A number of whole words.
WholeWords(x) == \E k \in Nat : x = k * Word

LEMMA WordFacts ==
  ASSUME OscAssumption
  PROVE  /\ \A x \in Nat : WholeWords(x) => x % Word = 0
         /\ \A x, y \in Nat : WholeWords(x) /\ WholeWords(y) => WholeWords(x + y)
         /\ WholeWords(0) /\ WholeWords(Word) /\ WholeWords(2 * Word) /\ WholeWords(4 * Word)
         /\ \A n \in Nat : /\ Osc!PaddedSize(n) \in Nat /\ WholeWords(Osc!PaddedSize(n))
                           /\ Osc!BlobSize(n) \in Nat /\ WholeWords(Osc!BlobSize(n))
         /\ \A x \in Nat : x < SizeLimit => x % SizeLimit = x
<1>1. Word \in Nat /\ Word > 0 /\ SizeLimit \in Nat
  BY OscAssumption DEF Osc!OscAssumption
<1>2. \A k \in Nat : (k * Word) % Word = 0
  BY <1>1
<1>3. \A j, k \in Nat : j * Word + k * Word = (j + k) * Word /\ j + k \in Nat /\ k * Word \in Nat
  BY <1>1
<1>4. ASSUME NEW x \in Nat, NEW y \in Nat, WholeWords(x), WholeWords(y) PROVE WholeWords(x + y)
  BY <1>3, <1>4 DEF WholeWords
<1>5. WholeWords(0) /\ WholeWords(Word) /\ WholeWords(2 * Word) /\ WholeWords(4 * Word)
  <2>1. 0 = 0 * Word /\ Word = 1 * Word /\ 0 \in Nat /\ 1 \in Nat /\ 2 \in Nat /\ 4 \in Nat
    BY <1>1
  <2> QED BY <2>1 DEF WholeWords
<1>6. ASSUME NEW n \in Nat
      PROVE  /\ Osc!PaddedSize(n) \in Nat /\ WholeWords(Osc!PaddedSize(n))
             /\ Osc!BlobSize(n) \in Nat /\ WholeWords(Osc!BlobSize(n))
  <2>1. n + Word \in Nat /\ n + Word - 1 \in Nat
    BY <1>1
  <2>2. \A a \in Nat : a \div Word \in Nat
    BY <1>1
  <2>3. (n + Word) \div Word \in Nat /\ (n + Word - 1) \div Word \in Nat
    BY <2>1, <2>2
  <2> QED BY <1>3, <2>3 DEF Osc!PaddedSize, Osc!BlobSize, WholeWords
<1>7. \A x \in Nat : x < SizeLimit => x % SizeLimit = x
  BY <1>1
<1> QED BY <1>2, <1>4, <1>5, <1>6, <1>7 DEF WholeWords

Spans == [from : Nat, to : Nat, end : Nat]
Ended == {"Decoded", "Refused"}

OscType ==
  /\ datagram \in Datagrams /\ elements \in Seq(Nat) /\ offset \in Nat /\ spans \in Seq(Spans)
  /\ reading \in {"Element", "Bundle", "Tags", "Arguments"} \cup Ended

\* An element lies in the one around it, and what is being read in the innermost.
Nested ==
  /\ \A i \in 1..Len(elements) : elements[i] <= Len(datagram)
  /\ \A i \in 1..Len(elements) : i > 1 => elements[i] <= elements[i - 1]
  /\ elements # <<>> => elements[1] = Len(datagram)
  /\ reading \notin Ended => elements # <<>> /\ offset <= elements[Len(elements)]
  /\ reading = "Decoded" => offset = Len(datagram)

\* Reads follow each other word by word, the last one up to the offset.
Walked ==
  /\ WholeWords(offset)
  /\ offset = IF spans = <<>> THEN 0 ELSE spans[Len(spans)].to
  /\ \A i \in 1..Len(spans) :
       /\ spans[i].from = IF i = 1 THEN 0 ELSE spans[i - 1].to
       /\ WholeWords(spans[i].from)
       /\ spans[i].to <= spans[i].end /\ spans[i].end <= Len(datagram)

OscInv == OscType /\ Nested /\ Walked

LEMMA EndFacts ==
  ASSUME OscAssumption, OscInv, reading \notin Ended
  PROVE  /\ Osc!End = elements[Len(elements)] /\ Osc!End \in Nat /\ offset \in Nat
         /\ Len(elements) \in Nat \ {0} /\ Len(datagram) \in Nat /\ datagram \in Seq(0..255)
         /\ offset <= Osc!End /\ Osc!End <= Len(datagram)
         /\ Osc!Remaining = Osc!End - offset
         /\ Osc!Remaining >= Word => (Osc!End - (offset + Word)) % SizeLimit = Osc!End - (offset + Word)
<1>1. /\ elements \in Seq(Nat) /\ elements # <<>> /\ offset \in Nat /\ offset <= elements[Len(elements)]
      /\ datagram \in Seq(0..255) /\ Len(datagram) < SizeLimit /\ SizeLimit \in Nat /\ Word \in Nat
  BY OscAssumption DEF OscInv, OscType, Nested, Osc!OscAssumption
<1>2. Len(elements) \in 1..Len(elements) /\ Len(elements) \in Nat \ {0} /\ Len(datagram) \in Nat
  BY <1>1
<1>3. Osc!End = elements[Len(elements)] /\ elements[Len(elements)] \in Nat
  BY <1>1, <1>2 DEF Osc!End, Osc!Last
<1>4. Osc!End <= Len(datagram)
  BY <1>2, <1>3 DEF OscInv, Nested
<1>5. Osc!End - offset \in Nat /\ Osc!End - offset < SizeLimit
  BY <1>1, <1>2, <1>3, <1>4
<1>6. Osc!Remaining = Osc!End - offset
  BY <1>5, WordFacts DEF Osc!Remaining
<1>7. ASSUME Osc!Remaining >= Word
      PROVE  (Osc!End - (offset + Word)) % SizeLimit = Osc!End - (offset + Word)
  <2>1. Osc!End - (offset + Word) \in Nat /\ Osc!End - (offset + Word) < SizeLimit
    BY <1>1, <1>3, <1>5, <1>6, <1>7, SMTT(30)
  <2> QED BY <2>1, WordFacts
<1> QED BY <1>1, <1>2, <1>3, <1>4, <1>6, <1>7

LEMMA FieldIsNat ==
  ASSUME OscAssumption, OscInv, reading \notin Ended, Osc!Remaining >= Word
  PROVE  Osc!Number(Osc!Bytes(offset, Word)) \in Nat
<1> DEFINE field == Osc!Bytes(offset, Word)
<1>1. /\ datagram \in Seq(0..255) /\ offset \in Nat /\ Word \in Nat \ {0}
      /\ Len(datagram) \in Nat /\ offset + Word <= Len(datagram)
  BY EndFacts, OscAssumption DEF Osc!OscAssumption
<1>2. field = [i \in 1..Word |-> datagram[offset + i]]
  BY <1>1 DEF Osc!Bytes
<1>3. \A i \in 1..Word : datagram[offset + i] \in Nat
  <2> SUFFICES ASSUME NEW i \in 1..Word PROVE datagram[offset + i] \in Nat
    OBVIOUS
  <2>1. offset + i \in 1..Len(datagram)
    BY <1>1
  <2>2. datagram[offset + i] \in 0..255
    BY <1>1, <2>1, ElementFacts
  <2> QED BY <2>2
<1> HIDE DEF field
<1>4. field \in Seq(Nat)
  BY <1>1, <1>2, <1>3
<1> QED BY <1>4, NumberIsNat DEF field

LEMMA RefuseKeeps == OscInv /\ Osc!Refuse => OscInv'
<1> SUFFICES ASSUME OscInv, Osc!Refuse PROVE OscInv'
  OBVIOUS
<1> QED BY DEF Osc!Refuse, OscInv, OscType, Nested, Walked, WholeWords, Ended

\* A read of whole words that ends in its element.
LEMMA TakeKeeps ==
  ASSUME OscAssumption, OscInv, reading \notin Ended, datagram' = datagram,
         NEW n \in Nat, WholeWords(n), offset + n <= Osc!End, Osc!Take(n)
  PROVE  /\ Walked' /\ spans' \in Seq(Spans) /\ offset' \in Nat /\ offset' = offset + n
         /\ offset' <= elements[Len(elements)]
<1>1. /\ offset \in Nat /\ Osc!End \in Nat /\ Osc!End <= Len(datagram) /\ Osc!End = elements[Len(elements)]
      /\ spans \in Seq(Spans) /\ Len(spans) \in Nat
  BY EndFacts DEF OscInv, OscType
<1> DEFINE read == [from |-> offset, to |-> offset + n, end |-> Osc!End]
<1>2. offset' = offset + n /\ spans' = Append(spans, read) /\ offset + n \in Nat /\ read \in Spans
  BY <1>1 DEF Osc!Take, Spans
<1>3. read.from = offset /\ read.to = offset + n /\ read.end = Osc!End
  OBVIOUS
<1> HIDE DEF read
<1>4. /\ spans' \in Seq(Spans) /\ Len(spans') = Len(spans) + 1 /\ spans' # <<>>
      /\ spans'[Len(spans) + 1] = read /\ \A i \in 1..Len(spans) : spans'[i] = spans[i]
  BY <1>1, <1>2
<1>5. WholeWords(offset')
  BY <1>1, <1>2, WordFacts DEF OscInv, Walked
<1>6. ASSUME NEW i \in 1..Len(spans')
      PROVE  /\ spans'[i].from = IF i = 1 THEN 0 ELSE spans'[i - 1].to
             /\ WholeWords(spans'[i].from)
             /\ spans'[i].to <= spans'[i].end /\ spans'[i].end <= Len(datagram)
  <2>1. CASE i \in 1..Len(spans)
    <3>1. i # 1 => i - 1 \in 1..Len(spans)
      BY <1>1, <2>1
    <3> QED BY <1>4, <2>1, <3>1 DEF OscInv, Walked
  <2>2. CASE i = Len(spans) + 1
    <3>1. IF i = 1 THEN spans = <<>> ELSE spans # <<>> /\ i - 1 = Len(spans) /\ i - 1 \in 1..Len(spans)
      BY <1>1, <2>2
    <3>2. offset = IF i = 1 THEN 0 ELSE spans'[i - 1].to
      BY <1>4, <3>1 DEF OscInv, Walked
    <3>3. WholeWords(offset)
      BY DEF OscInv, Walked
    <3> QED BY <1>1, <1>3, <1>4, <2>2, <3>2, <3>3
  <2> QED BY <1>1, <1>4, <2>1, <2>2
<1>7. offset' = spans'[Len(spans')].to
  BY <1>2, <1>3, <1>4
<1>8. Walked'
  BY <1>4, <1>5, <1>6, <1>7 DEF Walked, WholeWords
<1> QED BY <1>1, <1>2, <1>4, <1>8

\* ... with the element and what is read next.
LEMMA ReadKeeps ==
  ASSUME OscAssumption, OscInv, reading \notin Ended, UNCHANGED <<datagram, elements>>,
         NEW n \in Nat, WholeWords(n), offset + n <= Osc!End, Osc!Take(n),
         reading' \in {"Element", "Bundle", "Tags", "Arguments"}
  PROVE  OscInv'
<1>1. /\ Walked' /\ spans' \in Seq(Spans) /\ offset' \in Nat /\ offset' <= elements[Len(elements)]
  BY TakeKeeps
<1>2. OscType' /\ reading' \notin Ended
  BY <1>1 DEF OscInv, OscType, Ended
<1>3. Nested'
  BY <1>1, <1>2 DEF OscInv, Nested, Ended
<1> QED BY <1>1, <1>2, <1>3 DEF OscInv

LEMMA LeaveKeeps ==
  ASSUME OscAssumption, OscInv, reading \notin Ended, offset >= Osc!End, Osc!Leave,
         UNCHANGED <<datagram, offset, spans>>
  PROVE  OscInv'
<1>1. /\ elements \in Seq(Nat) /\ Len(elements) \in Nat \ {0} /\ offset \in Nat
      /\ offset = elements[Len(elements)] /\ elements # <<>>
  BY EndFacts DEF OscInv, OscType
<1> DEFINE outer == SubSeq(elements, 1, Len(elements) - 1)
<1>2. elements' = outer /\ reading' = IF Len(elements) = 1 THEN "Decoded" ELSE "Bundle"
  BY <1>1 DEF Osc!Leave, Osc!Front, Osc!Depth
<1>3. outer \in Seq(Nat) /\ Len(outer) = Len(elements) - 1
      /\ \A i \in 1..Len(outer) : outer[i] = elements[i] /\ i \in 1..Len(elements)
  <2>1. outer = [i \in 1..(Len(elements) - 1) |-> elements[i]]
    BY <1>1
  <2> HIDE DEF outer
  <2>2. Len(elements) - 1 \in Nat /\ \A i \in 1..(Len(elements) - 1) : i \in 1..Len(elements) /\ elements[i] \in Nat
    BY <1>1, ElementFacts
  <2> QED BY <2>1, <2>2
<1> HIDE DEF outer
<1>4. OscType'
  BY <1>2, <1>3 DEF OscInv, OscType, Ended
<1>5. Walked'
  BY DEF OscInv, Walked, WholeWords
<1>6. CASE Len(elements) = 1
  <2>1. outer = <<>> /\ Len(outer) = 0 /\ elements[1] = Len(datagram)
    BY <1>1, <1>3, <1>6 DEF OscInv, Nested
  <2> QED BY <1>1, <1>2, <1>4, <1>5, <1>6, <2>1 DEF OscInv, Nested, Ended
<1>7. CASE Len(elements) # 1
  <2>1. /\ outer # <<>> /\ 1 \in 1..Len(outer) /\ Len(outer) \in 1..Len(outer) /\ reading' = "Bundle"
        /\ Len(elements) \in 1..Len(elements) /\ Len(elements) > 1
    BY <1>1, <1>2, <1>3, <1>7
  <2>2. offset <= outer[Len(outer)] /\ outer[1] = Len(datagram)
    BY <1>1, <1>3, <2>1 DEF OscInv, Nested
  <2>3. \A i \in 1..Len(outer) : outer[i] <= Len(datagram) /\ (i > 1 => outer[i] <= outer[i - 1])
    <3> SUFFICES ASSUME NEW i \in 1..Len(outer)
                 PROVE  outer[i] <= Len(datagram) /\ (i > 1 => outer[i] <= outer[i - 1])
      OBVIOUS
    <3>1. i > 1 => i - 1 \in 1..Len(outer)
      OBVIOUS
    <3> QED BY <1>3, <3>1 DEF OscInv, Nested
  <2>4. Nested'
    BY <1>2, <2>1, <2>2, <2>3 DEF Nested, Ended
  <2> QED BY <1>4, <1>5, <2>4 DEF OscInv
<1> QED BY <1>6, <1>7

LEMMA StringFacts ==
  ASSUME OscAssumption, OscInv, reading \notin Ended, Osc!StringFits
  PROVE  LET n == Osc!PaddedSize(Osc!StringLength)
         IN  n \in Nat /\ WholeWords(n) /\ offset + n <= Osc!End
<1>1. /\ offset \in Nat /\ Osc!End \in Nat /\ Osc!Remaining = Osc!End - offset
  BY EndFacts
<1>2. Osc!Terminators \in SUBSET Nat /\ Osc!Terminators # {} /\ \A i \in Osc!Terminators : i >= offset
  BY <1>1 DEF Osc!StringFits, Osc!Terminators
<1>3. \E i \in Osc!Terminators : \A j \in Osc!Terminators : i <= j
  BY <1>2, LeastExists
<1>4. Osc!StringLength \in Nat
  <2> DEFINE first == CHOOSE i \in Osc!Terminators : \A j \in Osc!Terminators : i <= j
  <2>1. first \in Osc!Terminators
    BY <1>3
  <2> HIDE DEF first
  <2>2. first - offset \in Nat
    BY <1>1, <1>2, <2>1
  <2> QED BY <2>2 DEF Osc!StringLength, first
<1>5. Osc!PaddedSize(Osc!StringLength) \in Nat /\ WholeWords(Osc!PaddedSize(Osc!StringLength))
  BY <1>4, WordFacts
<1>6. Osc!PaddedSize(Osc!StringLength) <= Osc!Remaining
  BY DEF Osc!StringFits
<1> QED BY <1>1, <1>5, <1>6

LEMMA OscInitial == OscAssumption /\ Osc!Init => OscInv
<1> SUFFICES ASSUME OscAssumption, NEW given \in Datagrams, Osc!InitOf(given) PROVE OscInv
  BY DEF Osc!Init
<1>1. datagram = given /\ elements = <<Len(given)>> /\ offset = 0 /\ reading = "Element" /\ spans = <<>>
  BY DEF Osc!InitOf
<1>2. Len(given) \in Nat
  BY DEF OscAssumption, Osc!OscAssumption
<1>3. elements \in Seq(Nat) /\ Len(elements) = 1 /\ elements[1] = Len(given) /\ elements # <<>>
  BY <1>1, <1>2
<1>4. spans \in Seq(Spans) /\ Len(spans) = 0
  BY <1>1
<1>5. OscType
  BY <1>1, <1>3, <1>4 DEF OscType
<1>6. Nested
  BY <1>1, <1>2, <1>3 DEF Nested, Ended
<1>7. WholeWords(offset)
  BY <1>1, WordFacts
<1>8. Walked
  BY <1>1, <1>4, <1>7 DEF Walked
<1> QED BY <1>5, <1>6, <1>8 DEF OscInv

LEMMA BundleElementKeeps ==
  ASSUME OscAssumption, OscInv, Osc!BundleElement
  PROVE  OscInv'
<1> DEFINE length == Osc!Number(Osc!Bytes(offset, Word))
           inner == offset + Word + length
<1>1. reading = "Bundle" /\ reading \notin Ended
  BY DEF Osc!BundleElement, Ended
<1>2. CASE Osc!Refuse
  BY <1>2, RefuseKeeps
<1>3. CASE /\ ~(Osc!Remaining < Word) /\ ~Osc!TooLong(length)
           /\ Osc!Take(Word) /\ reading' = "Element" /\ elements' = Append(elements, inner)
           /\ datagram' = datagram
  <2>1. /\ offset \in Nat /\ Osc!End \in Nat /\ Osc!Remaining = Osc!End - offset /\ Word \in Nat
        /\ Osc!End <= Len(datagram) /\ Osc!End = elements[Len(elements)] /\ Len(datagram) \in Nat
        /\ Len(elements) \in Nat \ {0} /\ elements \in Seq(Nat)
    BY <1>1, EndFacts, OscAssumption DEF Osc!OscAssumption, OscInv, OscType
  <2>2. Osc!Remaining >= Word /\ offset + Word <= Osc!End
    BY <1>3, <2>1
  <2>3. length \in Nat
    BY <1>1, <2>2, FieldIsNat
  <2>4. length <= Osc!End - (offset + Word)
    <3>1. (Osc!End - (offset + Word)) % SizeLimit = Osc!End - (offset + Word)
      BY <1>1, <2>2, EndFacts
    <3>2. ~(length > Osc!End - (offset + Word))
      BY <1>3, <3>1 DEF Osc!TooLong
    <3> HIDE DEF length
    <3> QED BY <2>1, <2>3, <3>2
  <2> HIDE DEF length
  <2>5. inner \in Nat /\ offset + Word <= inner /\ inner <= elements[Len(elements)] /\ inner <= Len(datagram)
    BY <2>1, <2>3, <2>4, SMTT(30)
  <2> HIDE DEF inner
  <2>6. /\ elements' \in Seq(Nat) /\ Len(elements') = Len(elements) + 1 /\ elements' # <<>>
        /\ elements'[Len(elements) + 1] = inner
        /\ \A i \in 1..Len(elements) : elements'[i] = elements[i]
    <3>1. /\ Append(elements, inner) \in Seq(Nat) /\ Len(Append(elements, inner)) = Len(elements) + 1
          /\ Append(elements, inner) # <<>> /\ Append(elements, inner)[Len(elements) + 1] = inner
          /\ \A i \in 1..Len(elements) : Append(elements, inner)[i] = elements[i]
      BY <2>1, <2>5, AppendedFacts
    <3> QED BY <1>3, <3>1
  <2>7. /\ Walked' /\ spans' \in Seq(Spans) /\ offset' \in Nat /\ offset' = offset + Word
    BY <1>1, <1>3, <2>1, <2>2, TakeKeeps, WordFacts
  <2>8. OscType' /\ reading' \notin Ended /\ reading' # "Decoded"
    BY <1>3, <2>6, <2>7 DEF OscInv, OscType, Ended
  <2>9. ASSUME NEW i \in 1..Len(elements')
        PROVE  elements'[i] <= Len(datagram) /\ (i > 1 => elements'[i] <= elements'[i - 1])
    <3>1. CASE i \in 1..Len(elements)
      <4>1. i > 1 => i - 1 \in 1..Len(elements)
        BY <2>1, <3>1
      <4> QED BY <2>6, <3>1, <4>1 DEF OscInv, Nested
    <3>2. CASE i = Len(elements) + 1
      <4>1. i - 1 = Len(elements) /\ i - 1 \in 1..Len(elements)
        BY <2>1, <3>2
      <4>2. elements'[i] = inner /\ elements'[i - 1] = elements[Len(elements)]
        BY <2>6, <3>2, <4>1
      <4> QED BY <2>5, <4>2
    <3>3. i \in 1..Len(elements) \/ i = Len(elements) + 1
      BY <2>1, <2>6
    <3> QED BY <3>1, <3>2, <3>3
  <2>10. elements'[1] = Len(datagram)
    <3>1. 1 \in 1..Len(elements) /\ elements # <<>>
      BY <2>1
    <3> QED BY <2>6, <3>1 DEF OscInv, Nested
  <2>11. Nested'
    BY <1>3, <2>1, <2>5, <2>6, <2>7, <2>8, <2>9, <2>10 DEF Nested
  <2> QED BY <2>7, <2>8, <2>11 DEF OscInv
<1> QED BY <1>2, <1>3 DEF Osc!BundleElement

LEMMA BlobKeeps ==
  ASSUME OscAssumption, OscInv, Osc!Blob
  PROVE  OscInv'
<1> DEFINE length == Osc!Number(Osc!Bytes(offset, Word))
           padded == Osc!BlobSize(length)
<1>1. reading = "Arguments" /\ reading \notin Ended
  BY DEF Osc!Blob, Osc!Argument, Ended
<1>2. CASE Osc!Refuse
  BY <1>2, RefuseKeeps
<1>3. CASE /\ ~(Osc!Remaining < Word) /\ ~(padded > (Osc!End - (offset + Word)) % SizeLimit)
           /\ Osc!Take(Word + padded) /\ UNCHANGED <<datagram, elements, reading>>
  <2>1. /\ offset \in Nat /\ Osc!End \in Nat /\ Osc!Remaining = Osc!End - offset /\ Word \in Nat
    BY <1>1, EndFacts, OscAssumption DEF Osc!OscAssumption
  <2>2. Osc!Remaining >= Word
    BY <1>3, <2>1
  <2>3. length \in Nat
    BY <1>1, <2>2, FieldIsNat
  <2> HIDE DEF length
  <2>4. padded \in Nat /\ WholeWords(padded)
    BY <2>3, WordFacts
  <2>5. (Osc!End - (offset + Word)) % SizeLimit = Osc!End - (offset + Word)
    BY <1>1, <2>2, EndFacts
  <2> HIDE DEF padded
  <2>6. Word + padded \in Nat /\ offset + (Word + padded) <= Osc!End
    BY <1>3, <2>1, <2>4, <2>5
  <2>7. WholeWords(Word + padded)
    BY <2>1, <2>4, WordFacts
  <2> QED BY <1>1, <1>3, <2>6, <2>7, ReadKeeps
<1>4. Osc!Refuse \/ /\ ~(Osc!Remaining < Word) /\ ~(padded > (Osc!End - (offset + Word)) % SizeLimit)
                    /\ Osc!Take(Word + padded) /\ Osc!Rest
  BY DEF Osc!Blob
<1> QED BY <1>2, <1>3, <1>4 DEF Osc!Rest

LEMMA StringKeeps ==
  ASSUME OscAssumption, OscInv, Osc!Address \/ Osc!TypeTags \/ Osc!StringArgument
  PROVE  OscInv'
<1>1. reading \notin Ended
  BY DEF Osc!Address, Osc!TypeTags, Osc!StringArgument, Osc!Argument, Ended
<1>2. CASE Osc!Refuse
  BY <1>2, RefuseKeeps
<1>3. CASE /\ Osc!StringFits /\ Osc!Take(Osc!PaddedSize(Osc!StringLength))
           /\ UNCHANGED <<datagram, elements>> /\ reading' \in {"Tags", "Arguments"}
  BY <1>1, <1>3, StringFacts, ReadKeeps
<1> QED BY <1>2, <1>3 DEF Osc!Address, Osc!TypeTags, Osc!StringArgument, Osc!Argument, Osc!Rest

LEMMA FixedKeeps ==
  ASSUME OscAssumption, OscInv, Osc!Fixed
  PROVE  OscInv'
<1>1. reading = "Arguments" /\ reading \notin Ended
  BY DEF Osc!Fixed, Osc!Argument, Ended
<1>2. ASSUME NEW width \in {Word, 2 * Word}, ~(Osc!Remaining < width), Osc!Take(width), Osc!Rest
      PROVE  OscInv'
  <2>1. /\ offset \in Nat /\ Osc!End \in Nat /\ Osc!Remaining = Osc!End - offset /\ Word \in Nat
    BY <1>1, EndFacts, OscAssumption DEF Osc!OscAssumption
  <2>2. width \in Nat /\ offset + width <= Osc!End
    BY <1>2, <2>1
  <2>3. WholeWords(width)
    BY WordFacts
  <2> QED BY <1>1, <1>2, <2>2, <2>3, ReadKeeps DEF Osc!Rest
<1>3. CASE Osc!Refuse
  BY <1>3, RefuseKeeps
<1> QED BY <1>2, <1>3 DEF Osc!Fixed

LEMMA EnterBundleKeeps ==
  ASSUME OscAssumption, OscInv, Osc!EnterBundle
  PROVE  OscInv'
<1>1. /\ reading = "Element" /\ reading \notin Ended /\ Osc!Size >= 4 * Word /\ Osc!Take(4 * Word)
      /\ reading' = "Bundle" /\ UNCHANGED <<datagram, elements>>
  BY DEF Osc!EnterBundle, Ended
<1>2. offset \in Nat /\ Osc!End \in Nat /\ Word \in Nat
  BY <1>1, EndFacts, OscAssumption DEF Osc!OscAssumption
<1>3. 4 * Word \in Nat /\ offset + 4 * Word <= Osc!End
  BY <1>1, <1>2 DEF Osc!Size
<1>4. WholeWords(4 * Word)
  BY WordFacts
<1> QED BY <1>1, <1>3, <1>4, ReadKeeps

LEMMA EndsKeep ==
  ASSUME OscAssumption, OscInv, Osc!BundleEnds \/ Osc!MessageEnds
  PROVE  OscInv'
<1>1. reading \notin Ended
  BY DEF Osc!BundleEnds, Osc!MessageEnds, Ended
<1>2. Osc!End \in Nat /\ offset \in Nat
  BY <1>1, EndFacts
<1>3. CASE Osc!Refuse
  BY <1>3, RefuseKeeps
<1>4. CASE offset >= Osc!End /\ Osc!Leave /\ UNCHANGED <<datagram, offset, spans>>
  BY <1>1, <1>4, LeaveKeeps
<1> QED BY <1>2, <1>3, <1>4 DEF Osc!BundleEnds, Osc!MessageEnds

LEMMA OscStays == OscInv /\ UNCHANGED <<datagram, elements, offset, reading, spans>> => OscInv'
  BY DEF OscInv, OscType, Nested, Walked, WholeWords, Ended

LEMMA OscStep == OscAssumption /\ OscInv /\ [Osc!Next]_Osc!vars => OscInv'
<1> SUFFICES ASSUME OscAssumption, OscInv, [Osc!Next]_Osc!vars PROVE OscInv'
  OBVIOUS
<1>1. CASE UNCHANGED Osc!vars
  BY <1>1, OscStays DEF Osc!vars
<1>2. CASE Osc!ElementRefused \/ Osc!UnknownTag
  BY <1>2, RefuseKeeps DEF Osc!ElementRefused, Osc!UnknownTag
<1>3. CASE Osc!NoBytes
  BY <1>3, OscStays DEF Osc!NoBytes, Osc!Stay, Osc!Rest
<1> QED BY <1>1, <1>2, <1>3, EnterBundleKeeps, BundleElementKeeps, EndsKeep, StringKeeps, FixedKeeps,
           BlobKeeps DEF Osc!Next

\* What the invariant says of the reads.
LEMMA ReadsTold == OscAssumption /\ OscInv => BytesReadOnce
<1> SUFFICES ASSUME OscAssumption, OscInv PROVE BytesReadOnce
  OBVIOUS
<1>1. DOMAIN spans = 1..Len(spans) /\ DOMAIN elements = 1..Len(elements)
  BY DEF OscInv, OscType
<1>2. ASSUME NEW i \in 1..Len(spans) PROVE spans[i].from % Word = 0
  <2>1. spans[i] \in Spans /\ WholeWords(spans[i].from)
    BY ElementFacts DEF OscInv, OscType, Walked
  <2> QED BY <2>1, WordFacts DEF Spans
<1> QED BY <1>1, <1>2 DEF BytesReadOnce, Osc!BytesReadOnce, OscInv, Nested, Walked

\* Whatever sizes a datagram declares, at any word width, any nesting limit and
\* any datagram below the size limit, every byte the decoder takes is taken
\* once, on a word, inside its element (OscPacket.cpp, DecodeOscPacket).
THEOREM PacketReads == Osc!Spec => []BytesReadOnce
<1>1. Osc!Init => OscInv
  BY OscInitial, OscAssumption
<1>2. OscInv /\ [Osc!Next]_Osc!vars => OscInv'
  BY OscStep, OscAssumption
<1>3. OscInv => BytesReadOnce
  BY ReadsTold, OscAssumption
<1> QED BY <1>1, <1>2, <1>3, PTL DEF Osc!Spec
-----------------------------------------------------------------------------
(* VmcFrameAssembler: every message is counted, every sample is in a frame.  *)

\* Total, one number after the other.
LEMMA TotalSteps ==
  ASSUME NEW q \in Seq(Nat)
  PROVE  \E sum \in [0..Len(q) -> Nat] :
           /\ sum[0] = 0 /\ \A m \in 1..Len(q) : sum[m] = sum[m - 1] + q[m]
           /\ Total(q) = sum[Len(q)]
<1> DEFINE n == Len(q)
           next == [p \in Nat \X (1..n) |-> p[1] + q[p[2]]]
           Made(g) == g = [s \in SUBSET (1..n) |-> IF s = {} THEN 0
                                                   ELSE g[s \ {Top(s)}] + q[Top(s)]]
           it == CHOOSE g : Made(g)
<1>1. n \in Nat /\ DOMAIN q = 1..n /\ \A i \in 1..n : q[i] \in Nat
  OBVIOUS
<1>2. Total(q) = it[1..n]
  BY <1>1 DEF Total, FoldLeft, MapThenFoldSet, Max, Top
<1> HIDE DEF n
<1>3. next \in [Nat \X (1..n) -> Nat]
  BY <1>1
<1>4. \A v \in Nat, i \in 1..n : next[<<v, i>>] = v + q[i]
  OBVIOUS
<1> HIDE DEF next
<1>5. PICK h \in [SUBSET (1..n) -> Nat] : Folds(h, n, 0, next)
  BY <1>1, <1>3, FoldExists
<1>6. Made(h)
  <2>1. ASSUME NEW s \in SUBSET (1..n), s # {}
        PROVE  h[s] = h[s \ {Top(s)}] + q[Top(s)]
    <3>1. Top(s) \in 1..n /\ h[s \ {Top(s)}] \in Nat
      BY <1>1, <2>1, TopIsIn
    <3>2. h[s] = next[<<h[s \ {Top(s)}], Top(s)>>]
      BY <1>5, <2>1 DEF Folds
    <3> QED BY <1>4, <3>1, <3>2
  <2>2. \A s \in SUBSET (1..n) : s = {} => h[s] = 0
    BY <1>5 DEF Folds
  <2> QED BY <2>1, <2>2
<1>7. Made(it)
  <2> HIDE DEF Made
  <2> QED BY <1>6
<1> HIDE DEF it
<1>8. it[1..0] = 0 /\ \A m \in 1..n : it[1..m] = it[1..(m - 1)] + q[m]
  <2>1. \A s \in SUBSET (1..n) : it[s] = IF s = {} THEN 0
                                         ELSE it[s \ {Top(s)}] + q[Top(s)]
    BY <1>7
  <2>2. 1..0 \in SUBSET (1..n) /\ 1..0 = {}
    OBVIOUS
  <2>3. \A m \in 1..n : 1..m \in SUBSET (1..n) /\ 1..m # {} /\ (1..m) \ {Top(1..m)} = 1..(m - 1) /\ Top(1..m) = m
    BY <1>1, Segments
  <2> HIDE DEF Made
  <2>4. it[1..0] = 0
    BY <2>1, <2>2
  <2>5. ASSUME NEW m \in 1..n PROVE it[1..m] = it[1..(m - 1)] + q[m]
    <3>1. 1..m \in SUBSET (1..n) /\ 1..m # {}
      BY <2>3
    <3>2. it[1..m] = it[(1..m) \ {Top(1..m)}] + q[Top(1..m)]
      BY <2>1, <3>1
    <3>3. Top(1..m) = m /\ (1..m) \ {Top(1..m)} = 1..(m - 1)
      BY <2>3
    <3> QED BY <3>2, <3>3
  <2> QED BY <2>4, <2>5
<1> DEFINE bad == {m \in 0..n : it[1..m] \notin Nat}
<1>9. bad = {}
  <2>1. 0 \notin bad
    BY <1>8
  <2>2. \A m \in 0..n : m + 1 \in bad => m \in bad
    <3> SUFFICES ASSUME NEW m \in 0..n, m + 1 \in bad, it[1..m] \in Nat PROVE FALSE
      OBVIOUS
    <3>1. m + 1 \in 1..n /\ (m + 1) - 1 = m
      BY <1>1
    <3>2. it[1..(m + 1)] = it[1..m] + q[m + 1] /\ q[m + 1] \in Nat
      BY <1>1, <1>8, <3>1
    <3> QED BY <3>2
  <2>3. bad \in SUBSET (0..n)
    OBVIOUS
  <2> HIDE DEF bad
  <2> QED BY <1>1, <2>1, <2>2, <2>3, NoneBad
<1> DEFINE sum == [m \in 0..n |-> it[1..m]]
<1>10. sum \in [0..n -> Nat] /\ \A m \in 0..n : sum[m] = it[1..m]
  BY <1>9
<1> HIDE DEF sum, bad, Made
<1>11. sum[0] = 0 /\ sum[n] = it[1..n]
  BY <1>1, <1>8, <1>10
<1>12. ASSUME NEW m \in 1..n PROVE sum[m] = sum[m - 1] + q[m]
  <2>1. m \in 0..n /\ m - 1 \in 0..n
    BY <1>1
  <2> QED BY <1>8, <1>10, <2>1
<1> QED BY <1>2, <1>10, <1>11, <1>12 DEF n

LEMMA TotalGrows ==
  ASSUME NEW q \in Seq(Nat), NEW more \in Seq(Nat), Len(more) = Len(q) + 1,
         \A i \in 1..Len(q) : more[i] = q[i]
  PROVE  Total(q) \in Nat /\ Total(more) = Total(q) + more[Len(q) + 1]
<1> DEFINE n == Len(q)
<1>1. n \in Nat /\ \A i \in 1..n : more[i] = q[i]
  OBVIOUS
<1>2. PICK sum \in [0..n -> Nat] :
        /\ sum[0] = 0 /\ \A m \in 1..n : sum[m] = sum[m - 1] + q[m]
        /\ Total(q) = sum[n]
  BY TotalSteps
<1>3. PICK total \in [0..(n + 1) -> Nat] :
        /\ total[0] = 0
        /\ \A m \in 1..(n + 1) : total[m] = total[m - 1] + more[m]
        /\ Total(more) = total[n + 1]
  BY TotalSteps
<1> HIDE DEF n
<1> DEFINE bad == {m \in 0..n : sum[m] # total[m]}
<1>4. \A m \in 0..n : m + 1 \in bad => m \in bad
  <2> SUFFICES ASSUME NEW m \in 0..n, m + 1 \in bad, sum[m] = total[m] PROVE FALSE
    OBVIOUS
  <2>1. m + 1 \in 1..n /\ m + 1 \in 1..(n + 1) /\ (m + 1) - 1 = m
    BY <1>1
  <2>2. more[m + 1] = q[m + 1]
    BY <1>1, <2>1
  <2>3. sum[m + 1] = sum[m] + q[m + 1]
    BY <1>2, <2>1
  <2>4. total[m + 1] = total[m] + more[m + 1]
    BY <1>3, <2>1
  <2> QED BY <2>2, <2>3, <2>4
<1>5. 0 \notin bad /\ bad \in SUBSET (0..n)
  BY <1>2, <1>3
<1>6. bad = {}
  <2> HIDE DEF bad
  <2> QED BY <1>1, <1>4, <1>5, NoneBad
<1>7. n \in 0..n /\ n + 1 \in 1..(n + 1) /\ (n + 1) - 1 = n
  BY <1>1
<1>8. sum[n] = total[n] /\ sum[n] \in Nat
  BY <1>6, <1>7
<1>9. total[n + 1] = total[n] + more[n + 1]
  BY <1>3, <1>7
<1> QED BY <1>2, <1>3, <1>8, <1>9 DEF n

LEMMA NothingTotals == Total(<<>>) = 0
<1>1. <<>> \in Seq(Nat) /\ Len(<<>>) = 0
  OBVIOUS
<1> QED BY <1>1, TotalSteps

\* What the frames handed out hold, frame by frame.
SamplesOf(frames_) == [i \in DOMAIN frames_ |-> Cardinality(frames_[i].carried)]
DuplicatesOf(frames_) == [i \in DOMAIN frames_ |-> frames_[i].duplicateBones]

LEMMA FramesWeigh ==
  ASSUME NEW q \in Seq(EmittedFrame)
  PROVE  /\ SamplesOf(q) \in Seq(Nat) /\ Len(SamplesOf(q)) = Len(q)
         /\ \A i \in 1..Len(q) : SamplesOf(q)[i] = Cardinality(q[i].carried)
         /\ DuplicatesOf(q) \in Seq(Nat) /\ Len(DuplicatesOf(q)) = Len(q)
         /\ \A i \in 1..Len(q) : DuplicatesOf(q)[i] = q[i].duplicateBones
<1>1. \A i \in 1..Len(q) : q[i].carried \in SUBSET Slots /\ q[i].duplicateBones \in Nat
  <2>1. \A i \in 1..Len(q) : q[i] \in EmittedFrame
    BY ElementFacts
  <2> QED BY <2>1 DEF EmittedFrame
<1>2. \A i \in 1..Len(q) : Cardinality(q[i].carried) \in Nat
  BY <1>1, SlotsAssumption, FS_Subset, FS_CardinalityType
<1>3. Len(q) \in Nat /\ DOMAIN q = 1..Len(q)
  OBVIOUS
<1> QED BY <1>1, <1>2, <1>3 DEF SamplesOf, DuplicatesOf

LEMMA SamplesAreNumbers ==
  ASSUME NEW q \in Seq(EmittedFrame)
  PROVE  SamplesIn(q) \in Nat /\ DuplicatesIn(q) \in Nat
<1>1. ASSUME NEW ns \in Seq(Nat) PROVE Total(ns) \in Nat
  <2>1. Append(ns, 0) \in Seq(Nat) /\ Len(Append(ns, 0)) = Len(ns) + 1
        /\ \A i \in 1..Len(ns) : Append(ns, 0)[i] = ns[i]
    OBVIOUS
  <2> QED BY <2>1, TotalGrows
<1> QED BY <1>1, FramesWeigh DEF SamplesIn, DuplicatesIn, SamplesOf, DuplicatesOf

\* One more frame counts its own samples and repeats more.
LEMMA SamplesGrow ==
  ASSUME TypeOK, CloseEmitted
  PROVE  /\ SamplesIn(emitted') = SamplesIn(emitted) + Cardinality(Carried(frame))
         /\ DuplicatesIn(emitted') = DuplicatesIn(emitted) + frame.duplicateBones
<1> DEFINE n == Len(emitted)
           s == SamplesOf(emitted)
           t == SamplesOf(emitted')
           d == DuplicatesOf(emitted)
           e == DuplicatesOf(emitted')
<1>1. emitted \in Seq(EmittedFrame) /\ emitted' \in Seq(EmittedFrame)
  BY CloseTypes DEF TypeOK, ClosingType, Close
<1>2. /\ n \in Nat /\ Len(emitted') = n + 1 /\ \A i \in 1..n : emitted'[i] = emitted[i]
      /\ emitted'[n + 1].carried = Carried(frame)
      /\ emitted'[n + 1].duplicateBones = frame.duplicateBones
  BY EmitFacts
<1>3. /\ s \in Seq(Nat) /\ Len(s) = n /\ d \in Seq(Nat) /\ Len(d) = n
      /\ \A i \in 1..n : s[i] = Cardinality(emitted[i].carried) /\ d[i] = emitted[i].duplicateBones
  BY <1>1, FramesWeigh
<1>4. /\ t \in Seq(Nat) /\ Len(t) = n + 1 /\ e \in Seq(Nat) /\ Len(e) = n + 1
      /\ \A i \in 1..(n + 1) : t[i] = Cardinality(emitted'[i].carried) /\ e[i] = emitted'[i].duplicateBones
  BY <1>1, <1>2, FramesWeigh
<1>5. SamplesIn(emitted) = Total(s) /\ DuplicatesIn(emitted) = Total(d)
  BY DEF SamplesIn, DuplicatesIn, SamplesOf, DuplicatesOf
<1>6. SamplesIn(emitted') = Total(t) /\ DuplicatesIn(emitted') = Total(e)
  BY DEF SamplesIn, DuplicatesIn, SamplesOf, DuplicatesOf
<1> HIDE DEF n, s, t, d, e
<1>7. /\ \A i \in 1..n : t[i] = s[i] /\ e[i] = d[i]
      /\ t[n + 1] = Cardinality(Carried(frame)) /\ e[n + 1] = frame.duplicateBones
  <2>1. n + 1 \in 1..(n + 1) /\ \A i \in 1..n : i \in 1..(n + 1)
    BY <1>2
  <2> QED BY <1>2, <1>3, <1>4, <2>1
<1>8. Total(t) = Total(s) + t[n + 1] /\ Total(e) = Total(d) + e[n + 1]
  BY <1>3, <1>4, <1>7, TotalGrows
<1> QED BY <1>5, <1>6, <1>7, <1>8

\* What is open carries something only when it is open, a repeat only beside the
\* sample it repeats, and each sample is of the latest packet or of one before.
Opened ==
  /\ frame.open \/ Carried(frame) = {}
  /\ frame.duplicateBones > 0 => Carried(frame) # {}
  /\ inPacket => packetSerial > 0
  /\ sessionRestarts <= session

NamesKept ==
  \A slot \in Slots :
    /\ frame.carriedBy[slot] <= packetSerial
    /\ (packetSerial > 0 /\ frame.carriedBy[slot] = packetSerial) => slot \in named

SamplesInv == TypeOK /\ Opened /\ NamesKept /\ SamplesAccounted

\* What each change of the open frame makes of its samples.
LEMMA CarriedFacts ==
  ASSUME TypeOK
  PROVE  /\ Carried(NoFrame) = {} /\ NoFrame.duplicateBones = 0
         /\ \A seconds \in SenderTimes :
              /\ Carried([OpenFrame EXCEPT !.senderTime = seconds]) = {}
              /\ Carried([frame EXCEPT !.senderTime = seconds]) = Carried(frame)
              /\ [OpenFrame EXCEPT !.senderTime = seconds].open
              /\ [frame EXCEPT !.senderTime = seconds].open = frame.open
              /\ [OpenFrame EXCEPT !.senderTime = seconds].duplicateBones = 0
              /\ [frame EXCEPT !.senderTime = seconds].duplicateBones = frame.duplicateBones
         /\ \A slot \in Slots : packetSerial > 0 =>
              /\ Carried([OpenFrame EXCEPT !.carriedBy[slot] = packetSerial]) = {slot}
              /\ Carried([frame EXCEPT !.carriedBy[slot] = packetSerial]) = Carried(frame) \cup {slot}
              /\ [OpenFrame EXCEPT !.carriedBy[slot] = packetSerial].open
              /\ [frame EXCEPT !.carriedBy[slot] = packetSerial].open = frame.open
              /\ [OpenFrame EXCEPT !.carriedBy[slot] = packetSerial].duplicateBones = 0
              /\ [frame EXCEPT !.carriedBy[slot] = packetSerial].duplicateBones = frame.duplicateBones
<1>1. frame \in Frame /\ packetSerial \in Nat /\ OpenFrame \in Frame
  BY FrameFacts, BoundsAssumption DEF TypeOK, TallyType
<1>2. OpenFrame.open /\ OpenFrame.duplicateBones = 0 /\ \A slot \in Slots : OpenFrame.carriedBy[slot] = 0
  BY DEF OpenFrame, NoFrame
<1>3. Carried(NoFrame) = {} /\ NoFrame.duplicateBones = 0
  BY DEF Carried, NoFrame
<1>4. ASSUME NEW f \in Frame, NEW seconds \in SenderTimes
      PROVE  /\ [f EXCEPT !.senderTime = seconds].open = f.open
             /\ [f EXCEPT !.senderTime = seconds].duplicateBones = f.duplicateBones
             /\ Carried([f EXCEPT !.senderTime = seconds]) = Carried(f)
  BY DEF Frame, Carried
<1>5. ASSUME NEW f \in Frame, NEW slot \in Slots, packetSerial > 0
      PROVE  /\ [f EXCEPT !.carriedBy[slot] = packetSerial].open = f.open
             /\ [f EXCEPT !.carriedBy[slot] = packetSerial].duplicateBones = f.duplicateBones
             /\ Carried([f EXCEPT !.carriedBy[slot] = packetSerial]) = Carried(f) \cup {slot}
  <2> DEFINE g == [f EXCEPT !.carriedBy[slot] = packetSerial]
  <2>1. /\ g.open = f.open /\ g.duplicateBones = f.duplicateBones /\ g.carriedBy[slot] = packetSerial
        /\ \A other \in Slots : other # slot => g.carriedBy[other] = f.carriedBy[other]
    BY DEF Frame
  <2> HIDE DEF g
  <2>2. Carried(g) = Carried(f) \cup {slot}
    BY <1>1, <1>5, <2>1 DEF Carried
  <2> QED BY <2>1, <2>2 DEF g
<1>6. Carried(OpenFrame) = {}
  BY <1>2 DEF Carried
<1> QED BY <1>1, <1>2, <1>3, <1>4, <1>5, <1>6

LEMMA SampleNumbers ==
  ASSUME TypeOK, sessionRestarts <= session
  PROVE  /\ SamplesIn(emitted) \in Nat /\ DuplicatesIn(emitted) \in Nat
         /\ samplesAccepted \in Nat /\ samplesDuplicated \in Nat
         /\ Cardinality(Carried(frame)) \in 0..Cardinality(Slots) /\ IsFiniteSet(Carried(frame))
         /\ frame.duplicateBones \in Nat /\ packetSerial \in Nat
         /\ Cardinality(Slots) \in Nat /\ framesRefusedOutOfOrder \in Nat /\ Resets \in Nat
<1>1. emitted \in Seq(EmittedFrame) /\ framesRefusedOutOfOrder \in Nat /\ Resets \in Nat
  BY DEF TypeOK, ClosingType, Resets
<1>2. samplesAccepted \in Nat /\ samplesDuplicated \in Nat /\ packetSerial \in Nat
  BY BoundsAssumption DEF TypeOK, TallyType
<1>3. /\ Cardinality(Carried(frame)) \in Nat /\ IsFiniteSet(Carried(frame)) /\ frame.duplicateBones \in Nat
      /\ Carried(frame) \subseteq Slots
  BY FrameFacts
<1>4. Cardinality(Slots) \in Nat /\ Cardinality(Carried(frame)) <= Cardinality(Slots)
  BY <1>3, SlotsAssumption, FS_Subset, FS_CardinalityType
<1> QED BY <1>1, <1>2, <1>3, <1>4, SamplesAreNumbers

-----------------------------------------------------------------------------
(* What of the tallies is in no frame, and what a step makes of it.         *)

Gone == samplesAccepted - SamplesIn(emitted) - Cardinality(Carried(frame))
Untold == samplesDuplicated - DuplicatesIn(emitted) - frame.duplicateBones
Losses == framesRefusedOutOfOrder + Resets

NoneGoes ==
  Gone' = Gone /\ Untold' = Untold /\ Losses' = Losses /\ UNCHANGED framesRefusedOutOfOrder

\* A refusal (one more in `framesRefusedOutOfOrder`) or a Reset.
FrameGoes ==
  \E c \in 0..Cardinality(Slots), refused_ \in {0, 1} :
    /\ Gone' = Gone + c /\ Untold' >= Untold /\ Losses' = Losses + 1
    /\ framesRefusedOutOfOrder' = framesRefusedOutOfOrder + refused_ /\ refused_ <= c

LEMMA LossesBound ==
  ASSUME TypeOK, sessionRestarts <= session, SamplesAreInFrames, DuplicatesAreInFrames,
         NoneGoes \/ FrameGoes,
         Gone' \in Int, Untold' \in Int
  PROVE  SamplesAreInFrames' /\ DuplicatesAreInFrames'
<1> DEFINE k == Cardinality(Slots)
           bound == k * Losses
<1>1. k \in Nat /\ framesRefusedOutOfOrder \in Nat /\ Losses \in Nat /\ Gone \in Int /\ Untold \in Int
  BY SampleNumbers DEF Losses, Gone, Untold
<1>2. framesRefusedOutOfOrder <= Gone /\ Gone <= bound /\ Untold >= 0 /\ (Losses = 0 => Untold = 0)
  BY DEF SamplesAreInFrames, DuplicatesAreInFrames, Gone, Untold, Losses
<1>3. bound \in Nat /\ k * (Losses + 1) = bound + k
  <2> HIDE DEF k, Losses
  <2> QED BY <1>1
<1>4. SUFFICES /\ framesRefusedOutOfOrder' <= Gone' /\ Gone' <= k * Losses'
               /\ Untold' >= 0 /\ (Losses' = 0 => Untold' = 0)
  BY DEF SamplesAreInFrames, DuplicatesAreInFrames, Gone, Untold, Losses
<1>5. CASE NoneGoes
  BY <1>1, <1>2, <1>5 DEF NoneGoes
<1>6. CASE FrameGoes
  <2>1. PICK c \in 0..k, refused_ \in {0, 1} :
          /\ Gone' = Gone + c /\ Untold' >= Untold /\ Losses' = Losses + 1
          /\ framesRefusedOutOfOrder' = framesRefusedOutOfOrder + refused_ /\ refused_ <= c
    BY <1>6 DEF FrameGoes
  <2> HIDE DEF k, bound, Gone, Untold, Losses
  <2> QED BY <1>1, <1>2, <1>3, <2>1
<1> QED BY <1>5, <1>6

\* A Close puts what its frame holds in `emitted`, or refuses it as a whole.
LEMMA CloseCounts ==
  ASSUME TypeOK, TypeOK', Opened, sessionRestarts' <= session', Close,
         samplesAccepted' = samplesAccepted + Cardinality(Carried(frame')),
         samplesDuplicated' = samplesDuplicated, frame'.duplicateBones = 0
  PROVE  NoneGoes \/ FrameGoes
<1>1. /\ SamplesIn(emitted) \in Nat /\ DuplicatesIn(emitted) \in Nat
      /\ samplesAccepted \in Nat /\ samplesDuplicated \in Nat
      /\ Cardinality(Carried(frame)) \in 0..Cardinality(Slots)
      /\ frame.duplicateBones \in Nat /\ Cardinality(Slots) \in Nat
      /\ framesRefusedOutOfOrder \in Nat /\ Resets \in Nat
  BY SampleNumbers DEF Opened
<1>2. /\ Cardinality(Carried(frame')) \in Nat /\ SamplesIn(emitted') \in Nat
      /\ DuplicatesIn(emitted') \in Nat
  <2>1. emitted' \in Seq(EmittedFrame) /\ Carried(frame') \subseteq Slots
    BY DEF TypeOK, ClosingType, Carried
  <2>2. Cardinality(Carried(frame')) \in Nat
    BY <2>1, SlotsAssumption, FS_Subset, FS_CardinalityType
  <2> QED BY <2>1, <2>2, SamplesAreNumbers
<1>3. /\ Gone = samplesAccepted - SamplesIn(emitted) - Cardinality(Carried(frame))
      /\ Untold = samplesDuplicated - DuplicatesIn(emitted) - frame.duplicateBones
      /\ Losses = framesRefusedOutOfOrder + Resets
  BY DEF Gone, Untold, Losses
<1>4. /\ Gone' = samplesAccepted' - SamplesIn(emitted') - Cardinality(Carried(frame'))
      /\ Untold' = samplesDuplicated - DuplicatesIn(emitted')
      /\ Losses' = framesRefusedOutOfOrder' + Resets'
  <2>1. /\ Gone' = samplesAccepted' - SamplesIn(emitted') - Cardinality(Carried(frame'))
        /\ Untold' = samplesDuplicated' - DuplicatesIn(emitted') - frame'.duplicateBones
        /\ Losses' = framesRefusedOutOfOrder' + Resets'
    BY DEF Gone, Untold, Losses, Carried
  <2> QED BY <1>1, <1>2, <2>1
<1>5. CASE CloseEmpty
  <2>1. Cardinality(Carried(frame)) = 0 /\ frame.duplicateBones = 0
    BY <1>1, <1>5, FS_EmptySet DEF CloseEmpty, Opened
  <2>2. /\ emitted' = emitted /\ framesRefusedOutOfOrder' = framesRefusedOutOfOrder /\ Resets' = Resets
    BY <1>5 DEF CloseEmpty, Resets
  <2> QED BY <1>1, <1>2, <1>3, <1>4, <2>1, <2>2 DEF NoneGoes
<1>6. CASE CloseRegressed
  <2>1. /\ emitted' = emitted /\ framesRefusedOutOfOrder' = framesRefusedOutOfOrder + 1
        /\ Resets' = Resets /\ Carried(frame) # {}
    BY <1>6 DEF CloseRegressed, Resets
  <2>2. Cardinality(Carried(frame)) # 0
    BY <2>1, FrameFacts, FS_EmptySet
  <2>3. /\ Gone' = Gone + Cardinality(Carried(frame)) /\ Untold' >= Untold /\ Losses' = Losses + 1
    BY <1>1, <1>2, <1>3, <1>4, <2>1
  <2>4. 1 <= Cardinality(Carried(frame))
    BY <1>1, <2>2
  <2> QED BY <1>1, <2>1, <2>3, <2>4 DEF FrameGoes
<1>7. CASE CloseEmitted
  <2>1. /\ SamplesIn(emitted') = SamplesIn(emitted) + Cardinality(Carried(frame))
        /\ DuplicatesIn(emitted') = DuplicatesIn(emitted) + frame.duplicateBones
    BY <1>7, SamplesGrow
  <2>2. framesRefusedOutOfOrder' = framesRefusedOutOfOrder /\ Resets' = Resets
    BY <1>7 DEF CloseEmitted, Resets, TypeOK, ClosingType
  <2> QED BY <1>1, <1>2, <1>3, <1>4, <2>1, <2>2 DEF NoneGoes
<1> QED BY <1>5, <1>6, <1>7 DEF Close

-----------------------------------------------------------------------------
(* The same of every step.                                                  *)

\* The samples of a frame that a message changes.
LEMMA ChangedSamples ==
  ASSUME TypeOK
  PROVE  /\ \A slot \in Slots : NoFrame.carriedBy[slot] = 0 /\ OpenFrame.carriedBy[slot] = 0
         /\ \A seconds \in SenderTimes :
              /\ [OpenFrame EXCEPT !.senderTime = seconds].carriedBy = OpenFrame.carriedBy
              /\ [frame EXCEPT !.senderTime = seconds].carriedBy = frame.carriedBy
         /\ [frame EXCEPT !.duplicateBones = @ + 1].carriedBy = frame.carriedBy
         /\ \A slot, other \in Slots :
              /\ [OpenFrame EXCEPT !.carriedBy[slot] = packetSerial].carriedBy[other]
                   = IF other = slot THEN packetSerial ELSE 0
              /\ [frame EXCEPT !.carriedBy[slot] = packetSerial].carriedBy[other]
                   = IF other = slot THEN packetSerial ELSE frame.carriedBy[other]
<1>1. frame \in Frame /\ OpenFrame \in Frame
  BY FrameFacts DEF TypeOK
<1>2. \A slot \in Slots : NoFrame.carriedBy[slot] = 0 /\ OpenFrame.carriedBy[slot] = 0
  BY DEF OpenFrame, NoFrame
<1>3. ASSUME NEW f \in Frame, NEW seconds \in SenderTimes
      PROVE  [f EXCEPT !.senderTime = seconds].carriedBy = f.carriedBy
  BY DEF Frame
<1>4. [frame EXCEPT !.duplicateBones = @ + 1].carriedBy = frame.carriedBy
  BY <1>1 DEF Frame
<1>5. ASSUME NEW f \in Frame, NEW slot \in Slots, NEW other \in Slots
      PROVE  [f EXCEPT !.carriedBy[slot] = packetSerial].carriedBy[other]
               = IF other = slot THEN packetSerial ELSE f.carriedBy[other]
  BY DEF Frame
<1> QED BY <1>1, <1>2, <1>3, <1>4, <1>5

LEMMA CloseSessions ==
  ASSUME ClosingType, sessionRestarts <= session, Close
  PROVE  sessionRestarts' <= session'
  BY DEF ClosingType, Close, CloseEmpty, CloseRegressed, CloseEmitted

LEMMA OpenedStep ==
  ASSUME TypeOK, Opened, NamesKept, [Next]_vars
  PROVE  Opened'
<1>1. packetSerial \in Nat /\ frame \in Frame /\ ClosingType
  BY SampleNumbers DEF TypeOK, Opened
<1>2. /\ frame.open \/ Carried(frame) = {}
      /\ frame.duplicateBones > 0 => Carried(frame) # {}
      /\ inPacket => packetSerial > 0
      /\ sessionRestarts <= session
  BY DEF Opened
<1> SUFFICES /\ frame'.open \/ Carried(frame') = {}
             /\ frame'.duplicateBones > 0 => Carried(frame') # {}
             /\ inPacket' => packetSerial' > 0
             /\ sessionRestarts' <= session'
  BY DEF Opened, Carried
<1>3. KeepFrame => sessionRestarts' <= session'
  BY <1>2 DEF KeepFrame, closings
<1>4. CASE UNCHANGED vars
  BY <1>2, <1>4 DEF vars, packet, closings
<1>5. CASE \E time \in ReceiveTimes : BeginPacket(time)
  BY <1>1, <1>2, <1>5 DEF BeginPacket, closings
<1>6. ASSUME NEW seconds \in SenderTimes, Time(seconds)
      PROVE  /\ frame'.open \/ Carried(frame') = {}
             /\ frame'.duplicateBones > 0 => Carried(frame') # {}
             /\ inPacket' => packetSerial' > 0
             /\ sessionRestarts' <= session'
  <2>1. inPacket' => packetSerial' > 0
    BY <1>2, <1>6 DEF Time, Message, packet
  <2>2. CASE Close /\ frame' = [OpenFrame EXCEPT !.senderTime = seconds]
    <3>1. frame'.open /\ frame'.duplicateBones = 0
      BY <2>2, CarriedFacts
    <3> QED BY <1>1, <1>2, <2>1, <2>2, <3>1, CloseSessions
  <2>3. CASE KeepFrame /\ frame' = [(IF frame.open THEN frame ELSE OpenFrame) EXCEPT !.senderTime = seconds]
    <3>1. CASE frame.open
      <4>1. frame'.open /\ Carried(frame') = Carried(frame) /\ frame'.duplicateBones = frame.duplicateBones
        BY <2>3, <3>1, CarriedFacts
      <4> QED BY <1>2, <1>3, <2>1, <2>3, <4>1
    <3>2. CASE ~frame.open
      <4>1. frame'.open /\ frame'.duplicateBones = 0
        BY <2>3, <3>2, CarriedFacts
      <4> QED BY <1>3, <2>1, <2>3, <4>1
    <3> QED BY <3>1, <3>2
  <2> QED BY <1>6, <2>2, <2>3 DEF Time
<1>7. ASSUME NEW slot \in Slots, Sample(slot)
      PROVE  /\ frame'.open \/ Carried(frame') = {}
             /\ frame'.duplicateBones > 0 => Carried(frame') # {}
             /\ inPacket' => packetSerial' > 0
             /\ sessionRestarts' <= session'
  <2>1. inPacket' => packetSerial' > 0
    BY <1>2, <1>7 DEF Sample, Message, packet
  <2>2. packetSerial > 0
    BY <1>2, <1>7 DEF Sample, Message
  <2>3. CASE Duplicate(slot)
    <3>1. frame' = [frame EXCEPT !.duplicateBones = @ + 1] /\ frame.carriedBy[slot] = packetSerial
      BY <2>3 DEF Duplicate
    <3>2. frame'.open = frame.open /\ Carried(frame') = Carried(frame)
      BY <1>1, <3>1 DEF Frame, Carried
    <3>3. slot \in Carried(frame)
      BY <1>1, <2>2, <3>1 DEF Carried
    <3>4. sessionRestarts' <= session'
      BY <1>3, <2>3 DEF Duplicate
    <3> QED BY <1>2, <2>1, <3>2, <3>3, <3>4
  <2>4. CASE Repeat(slot)
    <3>1. frame' = [OpenFrame EXCEPT !.carriedBy[slot] = packetSerial] /\ Close
      BY <2>4 DEF Repeat
    <3>2. frame'.open /\ frame'.duplicateBones = 0
      BY <2>2, <3>1, CarriedFacts
    <3>3. sessionRestarts' <= session'
      BY <1>1, <1>2, <3>1, CloseSessions
    <3> QED BY <2>1, <3>2, <3>3
  <2>5. CASE Join(slot)
    <3>1. frame' = [(IF frame.open THEN frame ELSE OpenFrame) EXCEPT !.carriedBy[slot] = packetSerial]
      BY <2>5 DEF Join
    <3>2. frame'.open /\ Carried(frame') # {}
      BY <2>2, <3>1, CarriedFacts
    <3>3. sessionRestarts' <= session'
      BY <1>3, <2>5 DEF Join
    <3> QED BY <2>1, <3>2, <3>3
  <2> QED BY <1>7, <2>3, <2>4, <2>5 DEF Sample
<1>8. CASE SetAside
  BY <1>2, <1>3, <1>8 DEF SetAside, Message, packet
<1>9. CASE Flush
  <2>1. frame' = NoFrame /\ inPacket' = FALSE /\ Close
    BY <1>9 DEF Flush
  <2>2. Carried(frame') = {} /\ frame'.duplicateBones = 0
    BY <2>1, CarriedFacts
  <2> QED BY <1>1, <1>2, <2>1, <2>2, CloseSessions
<1>10. CASE Reset
  <2>1. frame' = NoFrame /\ inPacket' = FALSE /\ session' = session + 1 /\ sessionRestarts' = sessionRestarts
    BY <1>10 DEF Reset
  <2>2. Carried(frame') = {} /\ frame'.duplicateBones = 0
    BY <2>1, CarriedFacts
  <2> QED BY <1>1, <1>2, <2>1, <2>2 DEF ClosingType
<1> QED BY <1>4, <1>5, <1>6, <1>7, <1>8, <1>9, <1>10 DEF Next

LEMMA NamesStep ==
  ASSUME TypeOK, Opened, NamesKept, [Next]_vars
  PROVE  NamesKept'
<1>1. packetSerial \in Nat /\ \A slot \in Slots : frame.carriedBy[slot] \in Nat
  <2>1. frame \in Frame
    BY DEF TypeOK
  <2> QED BY <2>1, SampleNumbers DEF Opened, Frame
<1>2. \A slot \in Slots :
        /\ frame.carriedBy[slot] <= packetSerial
        /\ (packetSerial > 0 /\ frame.carriedBy[slot] = packetSerial) => slot \in named
  BY DEF NamesKept
<1>3. inPacket => packetSerial > 0
  BY DEF Opened
<1> SUFFICES ASSUME NEW kept \in Slots
             PROVE  /\ frame'.carriedBy[kept] <= packetSerial'
                    /\ (packetSerial' > 0 /\ frame'.carriedBy[kept] = packetSerial') => kept \in named'
  BY DEF NamesKept
<1>4. CASE UNCHANGED vars
  BY <1>2, <1>4 DEF vars, packet, pushed
<1>5. CASE \E time \in ReceiveTimes : BeginPacket(time)
  <2>1. frame' = frame /\ packetSerial' = packetSerial + 1
    BY <1>5 DEF BeginPacket
  <2> QED BY <1>1, <1>2, <2>1
<1>6. ASSUME NEW seconds \in SenderTimes, Time(seconds)
      PROVE  /\ frame'.carriedBy[kept] <= packetSerial'
             /\ (packetSerial' > 0 /\ frame'.carriedBy[kept] = packetSerial') => kept \in named'
  <2>1. packetSerial' = packetSerial /\ named' = named
    BY <1>6 DEF Time, Message, packet
  <2>2. frame' = [OpenFrame EXCEPT !.senderTime = seconds] \/ frame' = [frame EXCEPT !.senderTime = seconds]
    BY <1>6 DEF Time
  <2>3. frame'.carriedBy[kept] \in {0, frame.carriedBy[kept]}
    BY <2>2, ChangedSamples
  <2> QED BY <1>1, <1>2, <2>1, <2>3
<1>7. ASSUME NEW slot \in Slots, Sample(slot)
      PROVE  /\ frame'.carriedBy[kept] <= packetSerial'
             /\ (packetSerial' > 0 /\ frame'.carriedBy[kept] = packetSerial') => kept \in named'
  <2>1. packetSerial' = packetSerial /\ named' = named \cup {slot}
    BY <1>7 DEF Sample, Message, packet
  <2>2. \/ frame' = [frame EXCEPT !.duplicateBones = @ + 1]
        \/ frame' = [OpenFrame EXCEPT !.carriedBy[slot] = packetSerial]
        \/ frame' = [frame EXCEPT !.carriedBy[slot] = packetSerial]
    BY <1>7 DEF Sample, Duplicate, Repeat, Join
  <2>3. \/ kept = slot /\ frame'.carriedBy[kept] \in {packetSerial, frame.carriedBy[kept]}
        \/ frame'.carriedBy[kept] \in {0, frame.carriedBy[kept]}
    <3>1. CASE frame' = [frame EXCEPT !.duplicateBones = @ + 1]
      BY <3>1, ChangedSamples
    <3>2. CASE frame' = [OpenFrame EXCEPT !.carriedBy[slot] = packetSerial]
      <4>1. frame'.carriedBy[kept] = IF kept = slot THEN packetSerial ELSE 0
        BY <3>2, ChangedSamples
      <4> QED BY <4>1
    <3>3. CASE frame' = [frame EXCEPT !.carriedBy[slot] = packetSerial]
      <4>1. frame'.carriedBy[kept] = IF kept = slot THEN packetSerial ELSE frame.carriedBy[kept]
        BY <3>3, ChangedSamples
      <4> QED BY <4>1
    <3> QED BY <2>2, <3>1, <3>2, <3>3
  <2> QED BY <1>1, <1>2, <2>1, <2>3
<1>8. CASE SetAside
  BY <1>2, <1>8 DEF SetAside, Message, packet
<1>9. CASE Flush \/ Reset
  <2>1. frame' = NoFrame /\ packetSerial' = packetSerial
    BY <1>9 DEF Flush, Reset
  <2>2. frame'.carriedBy[kept] = 0
    BY <2>1, ChangedSamples
  <2> QED BY <1>1, <2>1, <2>2
<1> QED BY <1>4, <1>5, <1>6, <1>7, <1>8, <1>9 DEF Next

LEMMA CountsStep ==
  ASSUME TypeOK, Opened, NamesKept, EveryMessageCounted, FirstsAreAccepted, [Next]_vars
  PROVE  EveryMessageCounted' /\ FirstsAreAccepted'
<1>1. /\ messages \in Nat /\ clocks \in Nat /\ firstNamings \in Nat
      /\ samplesAccepted \in Nat /\ samplesDuplicated \in Nat /\ messagesSetAside \in Nat
  BY BoundsAssumption DEF TypeOK, TallyType
<1>2. /\ messages = clocks + samplesAccepted + samplesDuplicated + messagesSetAside
      /\ firstNamings <= samplesAccepted
  BY DEF EveryMessageCounted, FirstsAreAccepted
<1> SUFFICES /\ messages' = clocks' + samplesAccepted' + samplesDuplicated' + messagesSetAside'
             /\ firstNamings' <= samplesAccepted'
  BY DEF EveryMessageCounted, FirstsAreAccepted
<1>3. CASE UNCHANGED <<messages, clocks, firstNamings, tallies>>
  BY <1>2, <1>3 DEF tallies
<1>4. UNCHANGED vars \/ (\E time \in ReceiveTimes : BeginPacket(time)) \/ Flush \/ Reset
        => UNCHANGED <<messages, clocks, firstNamings, tallies>>
  BY DEF vars, BeginPacket, Flush, Reset, pushed
<1>5. CASE \E seconds \in SenderTimes : Time(seconds)
  BY <1>1, <1>2, <1>5 DEF Time, Message, tallies
<1>6. ASSUME NEW slot \in Slots, Sample(slot)
      PROVE  /\ messages' = clocks' + samplesAccepted' + samplesDuplicated' + messagesSetAside'
             /\ firstNamings' <= samplesAccepted'
  <2>1. /\ messages' = messages + 1 /\ clocks' = clocks
        /\ firstNamings' = IF slot \in named THEN firstNamings ELSE firstNamings + 1
    BY <1>6 DEF Sample, Message
  <2>2. CASE Duplicate(slot)
    <3>1. slot \in named
      BY <1>6, <2>2 DEF Sample, Message, Duplicate, Opened, NamesKept
    <3> QED BY <1>1, <1>2, <2>1, <2>2, <3>1 DEF Duplicate
  <2>3. CASE Repeat(slot) \/ Join(slot)
    <3>1. /\ samplesAccepted' = samplesAccepted + 1
          /\ samplesDuplicated' = samplesDuplicated /\ messagesSetAside' = messagesSetAside
      BY <2>3 DEF Repeat, Join
    <3> QED BY <1>1, <1>2, <2>1, <3>1
  <2> QED BY <1>6, <2>2, <2>3 DEF Sample
<1>7. CASE SetAside
  BY <1>1, <1>2, <1>7 DEF SetAside, Message
<1> QED BY <1>3, <1>4, <1>5, <1>6, <1>7 DEF Next

\* A message that closes nothing puts its sample in the open frame.
LEMMA OpenFrameCounts ==
  ASSUME TypeOK, Opened, UNCHANGED <<emitted, framesRefusedOutOfOrder, session, sessionRestarts>>,
         samplesAccepted' - Cardinality(Carried(frame'))
           = samplesAccepted - Cardinality(Carried(frame)),
         samplesDuplicated' - frame'.duplicateBones = samplesDuplicated - frame.duplicateBones,
         samplesAccepted' \in Nat, samplesDuplicated' \in Nat,
         Cardinality(Carried(frame')) \in Nat, frame'.duplicateBones \in Nat
  PROVE  NoneGoes
<1>1. /\ SamplesIn(emitted) \in Nat /\ DuplicatesIn(emitted) \in Nat
      /\ samplesAccepted \in Nat /\ samplesDuplicated \in Nat
      /\ Cardinality(Carried(frame)) \in Nat /\ frame.duplicateBones \in Nat
  BY SampleNumbers DEF Opened
<1>2. /\ Gone = samplesAccepted - SamplesIn(emitted) - Cardinality(Carried(frame))
      /\ Untold = samplesDuplicated - DuplicatesIn(emitted) - frame.duplicateBones
  BY DEF Gone, Untold
<1>3. /\ Gone' = samplesAccepted' - SamplesIn(emitted) - Cardinality(Carried(frame'))
      /\ Untold' = samplesDuplicated' - DuplicatesIn(emitted) - frame'.duplicateBones
  BY DEF Gone, Untold, Carried
<1>4. Gone' = Gone /\ Untold' = Untold
  <2>1. ASSUME NEW a \in Nat, NEW b \in Nat, NEW c \in Nat, NEW d \in Nat, NEW k \in Nat,
               a - b = c - d
        PROVE  a - k - b = c - k - d
    BY <2>1
  <2> QED BY <1>1, <1>2, <1>3, <2>1
<1>5. Losses' = Losses
  BY DEF Losses, Resets
<1> QED BY <1>4, <1>5 DEF NoneGoes

LEMMA LossesStep ==
  ASSUME TypeOK, TypeOK', Opened, Opened', [Next]_vars
  PROVE  NoneGoes \/ FrameGoes
<1>1. /\ samplesAccepted \in Nat /\ samplesDuplicated \in Nat /\ packetSerial \in Nat
      /\ Cardinality(Carried(frame)) \in 0..Cardinality(Slots) /\ IsFiniteSet(Carried(frame))
      /\ frame.duplicateBones \in Nat /\ Cardinality(Slots) \in Nat
      /\ framesRefusedOutOfOrder \in Nat /\ Resets \in Nat
      /\ SamplesIn(emitted) \in Nat /\ DuplicatesIn(emitted) \in Nat
  BY SampleNumbers DEF Opened
<1>2. /\ samplesAccepted' \in Nat /\ samplesDuplicated' \in Nat
      /\ Cardinality(Carried(frame')) \in Nat /\ frame'.duplicateBones \in Nat
  <2>1. frame' \in Frame /\ samplesAccepted' \in Nat /\ samplesDuplicated' \in Nat
    BY DEF TypeOK, TallyType
  <2>2. Carried(frame') \subseteq Slots
    BY DEF Carried
  <2>3. Cardinality(Carried(frame')) \in Nat
    BY <2>2, SlotsAssumption, FS_Subset, FS_CardinalityType
  <2> QED BY <2>1, <2>3 DEF Frame
<1>3. (frame.open \/ Carried(frame) = {}) /\ (frame.duplicateBones > 0 => Carried(frame) # {})
      /\ (inPacket => packetSerial > 0) /\ sessionRestarts' <= session'
  BY DEF Opened
<1>4. Cardinality({}) = 0 /\ \A slot : Cardinality({slot}) = 1
  BY FS_EmptySet, FS_Singleton
<1>5. KeepFrame => UNCHANGED <<emitted, framesRefusedOutOfOrder, session, sessionRestarts>>
  BY DEF KeepFrame, closings
<1>6. CASE UNCHANGED vars \/ (\E time \in ReceiveTimes : BeginPacket(time)) \/ SetAside
  <2>1. UNCHANGED <<emitted, framesRefusedOutOfOrder, session, sessionRestarts>>
    BY <1>5, <1>6 DEF vars, BeginPacket, SetAside, closings
  <2>2. UNCHANGED <<frame, samplesAccepted, samplesDuplicated>>
    BY <1>6 DEF vars, BeginPacket, SetAside, tallies
  <2> QED BY <1>1, <1>2, <2>1, <2>2, OpenFrameCounts
<1>7. ASSUME NEW seconds \in SenderTimes, Time(seconds) PROVE NoneGoes \/ FrameGoes
  <2>1. samplesAccepted' = samplesAccepted /\ samplesDuplicated' = samplesDuplicated
    BY <1>7 DEF Time, tallies
  <2>2. CASE Close /\ frame' = [OpenFrame EXCEPT !.senderTime = seconds]
    <3>1. Carried(frame') = {} /\ frame'.duplicateBones = 0
      BY <2>2, CarriedFacts
    <3>2. samplesAccepted' = samplesAccepted + Cardinality(Carried(frame'))
      BY <1>1, <1>4, <2>1, <3>1
    <3> QED BY <1>3, <2>1, <2>2, <3>1, <3>2, CloseCounts
  <2>3. CASE KeepFrame /\ frame' = [(IF frame.open THEN frame ELSE OpenFrame) EXCEPT !.senderTime = seconds]
    <3>1. Carried(frame') = Carried(frame) /\ frame'.duplicateBones = frame.duplicateBones
      <4>1. CASE frame.open
        BY <2>3, <4>1, CarriedFacts
      <4>2. CASE ~frame.open
        <5>1. frame' = [OpenFrame EXCEPT !.senderTime = seconds]
          BY <2>3, <4>2
        <5>2. Carried(frame') = {} /\ frame'.duplicateBones = 0
          BY <5>1, CarriedFacts
        <5> QED BY <1>1, <1>3, <4>2, <5>2
      <4> QED BY <4>1, <4>2
    <3> QED BY <1>1, <1>2, <1>5, <2>1, <2>3, <3>1, OpenFrameCounts
  <2> QED BY <1>7, <2>2, <2>3 DEF Time
<1>8. ASSUME NEW slot \in Slots, Sample(slot) PROVE NoneGoes \/ FrameGoes
  <2>1. packetSerial > 0
    BY <1>3, <1>8 DEF Sample, Message
  <2>2. CASE Duplicate(slot)
    <3>1. /\ frame' = [frame EXCEPT !.duplicateBones = @ + 1] /\ KeepFrame
          /\ samplesDuplicated' = samplesDuplicated + 1 /\ samplesAccepted' = samplesAccepted
      BY <2>2 DEF Duplicate
    <3>2. Carried(frame') = Carried(frame) /\ frame'.duplicateBones = frame.duplicateBones + 1
      <4>1. frame \in Frame
        BY DEF TypeOK
      <4> QED BY <3>1, <4>1 DEF Frame, Carried
    <3> QED BY <1>1, <1>2, <1>5, <3>1, <3>2, OpenFrameCounts
  <2>3. CASE Repeat(slot)
    <3>1. /\ Close /\ samplesAccepted' = samplesAccepted + 1 /\ samplesDuplicated' = samplesDuplicated
          /\ frame' = [OpenFrame EXCEPT !.carriedBy[slot] = packetSerial]
      BY <2>3 DEF Repeat
    <3>2. Carried(frame') = {slot} /\ frame'.duplicateBones = 0
      BY <2>1, <3>1, CarriedFacts
    <3>3. samplesAccepted' = samplesAccepted + Cardinality(Carried(frame'))
      BY <1>4, <3>1, <3>2
    <3> QED BY <1>3, <3>1, <3>2, <3>3, CloseCounts
  <2>4. CASE Join(slot)
    <3>1. /\ KeepFrame /\ samplesAccepted' = samplesAccepted + 1 /\ samplesDuplicated' = samplesDuplicated
          /\ frame.carriedBy[slot] = 0
          /\ frame' = [(IF frame.open THEN frame ELSE OpenFrame) EXCEPT !.carriedBy[slot] = packetSerial]
      BY <2>4 DEF Join
    <3>2. Carried(frame') = Carried(frame) \cup {slot} /\ frame'.duplicateBones = frame.duplicateBones
      <4>1. CASE frame.open
        BY <2>1, <3>1, <4>1, CarriedFacts
      <4>2. CASE ~frame.open
        <5>1. frame' = [OpenFrame EXCEPT !.carriedBy[slot] = packetSerial]
          BY <3>1, <4>2
        <5>2. Carried(frame') = {slot} /\ frame'.duplicateBones = 0
          BY <2>1, <5>1, CarriedFacts
        <5>3. Carried(frame) = {} /\ frame.duplicateBones = 0
          BY <1>1, <1>3, <4>2
        <5> QED BY <5>2, <5>3
      <4> QED BY <4>1, <4>2
    <3>3. slot \notin Carried(frame)
      BY <3>1 DEF Carried
    <3>4. Cardinality(Carried(frame) \cup {slot}) = Cardinality(Carried(frame)) + 1
      BY <1>1, <3>3, FS_AddElement
    <3>5. Cardinality(Carried(frame')) = Cardinality(Carried(frame)) + 1
      BY <3>2, <3>4
    <3>6. /\ samplesAccepted' - Cardinality(Carried(frame')) = samplesAccepted - Cardinality(Carried(frame))
          /\ samplesDuplicated' - frame'.duplicateBones = samplesDuplicated - frame.duplicateBones
      BY <1>1, <3>1, <3>2, <3>5
    <3> QED BY <1>2, <1>5, <3>1, <3>6, OpenFrameCounts
  <2> QED BY <1>8, <2>2, <2>3, <2>4 DEF Sample
<1>9. CASE Flush
  <2>1. /\ Close /\ frame' = NoFrame
        /\ samplesAccepted' = samplesAccepted /\ samplesDuplicated' = samplesDuplicated
    BY <1>9 DEF Flush, tallies
  <2>2. Carried(frame') = {} /\ frame'.duplicateBones = 0
    BY <2>1, CarriedFacts
  <2>3. samplesAccepted' = samplesAccepted + Cardinality(Carried(frame'))
    BY <1>1, <1>4, <2>1, <2>2
  <2> QED BY <1>3, <2>1, <2>2, <2>3, CloseCounts
<1>10. CASE Reset
  <2>1. /\ emitted' = emitted /\ framesRefusedOutOfOrder' = framesRefusedOutOfOrder
        /\ samplesAccepted' = samplesAccepted /\ samplesDuplicated' = samplesDuplicated
        /\ frame' = NoFrame /\ session' = session + 1 /\ sessionRestarts' = sessionRestarts
    BY <1>10 DEF Reset, tallies
  <2>2. Cardinality(Carried(frame')) = 0 /\ frame'.duplicateBones = 0
    BY <1>4, <2>1, CarriedFacts
  <2>3. Resets' = Resets + 1
    BY <2>1 DEF Resets, TypeOK, ClosingType
  <2>4. /\ Gone = samplesAccepted - SamplesIn(emitted) - Cardinality(Carried(frame))
        /\ Untold = samplesDuplicated - DuplicatesIn(emitted) - frame.duplicateBones
        /\ Losses = framesRefusedOutOfOrder + Resets
    BY DEF Gone, Untold, Losses
  <2>5. /\ Gone' = samplesAccepted - SamplesIn(emitted) /\ Untold' = samplesDuplicated - DuplicatesIn(emitted)
        /\ Losses' = framesRefusedOutOfOrder + Resets + 1
    <3>1. /\ Gone' = samplesAccepted' - SamplesIn(emitted') - Cardinality(Carried(frame'))
          /\ Untold' = samplesDuplicated' - DuplicatesIn(emitted') - frame'.duplicateBones
          /\ Losses' = framesRefusedOutOfOrder' + Resets'
      BY DEF Gone, Untold, Losses, Carried
    <3> QED BY <1>1, <2>1, <2>2, <2>3, <3>1
  <2>6. /\ Gone' = Gone + Cardinality(Carried(frame)) /\ Untold' >= Untold /\ Losses' = Losses + 1
        /\ framesRefusedOutOfOrder' = framesRefusedOutOfOrder + 0 /\ 0 <= Cardinality(Carried(frame))
    BY <1>1, <2>1, <2>4, <2>5
  <2> QED BY <1>1, <2>6 DEF FrameGoes
<1> QED BY <1>6, <1>7, <1>8, <1>9, <1>10 DEF Next

LEMMA SamplesStep == SamplesInv /\ [Next]_vars => SamplesInv'
<1> SUFFICES ASSUME SamplesInv, [Next]_vars PROVE SamplesInv'
  OBVIOUS
<1>1. /\ TypeOK /\ Opened /\ NamesKept /\ EveryMessageCounted /\ FirstsAreAccepted
      /\ SamplesAreInFrames /\ DuplicatesAreInFrames
  BY DEF SamplesInv, SamplesAccounted
<1>2. TypeOK' /\ Opened' /\ NamesKept'
  BY <1>1, StepTypes, OpenedStep, NamesStep
<1>3. EveryMessageCounted' /\ FirstsAreAccepted'
  BY <1>1, CountsStep
<1>4. NoneGoes \/ FrameGoes
  BY <1>1, <1>2, LossesStep
<1>5. sessionRestarts <= session
  BY <1>1 DEF Opened
<1>6. Gone' \in Int /\ Untold' \in Int
  <2>1. Gone \in Int /\ Untold \in Int /\ Cardinality(Slots) \in Nat
    BY <1>1, <1>5, SampleNumbers DEF Gone, Untold
  <2>2. emitted' \in Seq(EmittedFrame) /\ samplesDuplicated' \in Nat /\ frame' \in Frame
    BY <1>2 DEF TypeOK, ClosingType, TallyType
  <2>3. DuplicatesIn(emitted') \in Nat /\ frame'.duplicateBones \in Nat
    BY <2>2, SamplesAreNumbers DEF Frame
  <2>4. Untold' = samplesDuplicated' - DuplicatesIn(emitted') - frame'.duplicateBones
    BY DEF Untold
  <2>5. Gone' \in Int
    BY <1>4, <2>1 DEF NoneGoes, FrameGoes
  <2> QED BY <2>2, <2>3, <2>4, <2>5
<1>7. SamplesAreInFrames' /\ DuplicatesAreInFrames'
  BY <1>1, <1>4, <1>5, <1>6, LossesBound
<1> QED BY <1>2, <1>3, <1>7 DEF SamplesInv, SamplesAccounted

\* FrameAssembler::Push, Flush and Reset, for every rig, every threshold and any
\* sequence of messages, NaN clocks included: every message is in one counter, only
\* what a packet repeats is a duplicate, and the frames handed out hold what the
\* counters say, but for what a refused frame or a Reset took with it.
THEOREM EverySampleAccounted == Spec => []SamplesAccounted
<1>1. Init => SamplesInv
  <2> SUFFICES ASSUME Init PROVE SamplesInv
    OBVIOUS
  <2>1. /\ frame = NoFrame /\ emitted = <<>> /\ samplesAccepted = 0 /\ samplesDuplicated = 0
        /\ framesRefusedOutOfOrder = 0 /\ session = 0 /\ sessionRestarts = 0
        /\ packetSerial = 0 /\ inPacket = FALSE
    BY DEF Init
  <2>2. TypeOK
    BY InitTypes
  <2>3. Cardinality(Carried(frame)) = 0 /\ Carried(frame) = {} /\ frame.duplicateBones = 0
    BY <2>1, <2>2, CarriedFacts, FS_EmptySet
  <2>4. SamplesIn(emitted) = 0 /\ DuplicatesIn(emitted) = 0
    <3>1. [i \in DOMAIN emitted |-> Cardinality(emitted[i].carried)] = <<>>
          /\ [i \in DOMAIN emitted |-> emitted[i].duplicateBones] = <<>>
      BY <2>1
    <3> QED BY <3>1, NothingTotals DEF SamplesIn, DuplicatesIn
  <2>5. Opened
    BY <2>1, <2>3 DEF Opened
  <2>6. NamesKept
    <3>1. \A slot \in Slots : frame.carriedBy[slot] = 0
      BY <2>1, <2>2, ChangedSamples
    <3> QED BY <2>1, <3>1 DEF NamesKept
  <2>7. EveryMessageCounted /\ FirstsAreAccepted
    BY DEF Init, EveryMessageCounted, FirstsAreAccepted
  <2>8. Cardinality(Slots) \in Nat
    BY SlotsAssumption, FS_CardinalityType
  <2>9. SamplesAreInFrames /\ DuplicatesAreInFrames
    BY <2>1, <2>3, <2>4, <2>8 DEF SamplesAreInFrames, DuplicatesAreInFrames, Resets
  <2> QED BY <2>2, <2>5, <2>6, <2>7, <2>9 DEF SamplesInv, SamplesAccounted
<1>2. SamplesInv => SamplesAccounted
  BY DEF SamplesInv
<1> QED BY <1>1, <1>2, SamplesStep, PTL DEF Spec

-----------------------------------------------------------------------------
(* VmcMessage: a message is read as far as its form and its tags agree.      *)

LEMMA GreatestExists ==
  ASSUME NEW n \in Nat, NEW s \in SUBSET (0..n), s # {}
  PROVE  \E h \in s : \A k \in s : k <= h
<1> DEFINE below == {n - k : k \in s}
<1>1. below \in SUBSET Nat /\ below # {}
  <2>1. \A k \in s : k \in Nat /\ n - k \in Nat
    OBVIOUS
  <2> QED BY <2>1
<1>2. PICK l \in below : \A k \in below : l <= k
  <2> HIDE DEF below
  <2> QED BY <1>1, LeastExists
<1>3. PICK h \in s : l = n - h
  OBVIOUS
<1>4. \A k \in s : n - h <= n - k /\ k \in Nat /\ h \in Nat
  <2> SUFFICES ASSUME NEW k \in s PROVE n - h <= n - k /\ k \in Nat /\ h \in Nat
    OBVIOUS
  <2>1. n - k \in below
    OBVIOUS
  <2> HIDE DEF below
  <2> QED BY <1>2, <1>3, <2>1
<1>5. \A k \in s : k <= h
  BY <1>4
<1> QED BY <1>5

\* What it is to begin with a form, or with as much of it.
LEMMA StartsMeans ==
  ASSUME NEW T, NEW t \in Seq(T), NEW f \in Seq(T)
  PROVE  Messages!StartsWith(t, f) <=> Len(f) <= Len(t) /\ \A k \in 1..Len(f) : t[k] = f[k]
<1>1. Len(t) \in Nat /\ Len(f) \in Nat
  OBVIOUS
<1>2. CASE ~(Len(t) >= Len(f))
  BY <1>1, <1>2 DEF Messages!StartsWith
<1>3. CASE Len(t) >= Len(f)
  <2> DEFINE c == SubSeq(t, 1, Len(f))
  <2>1. c \in Seq(T) /\ Len(c) = Len(f) /\ \A k \in 1..Len(f) : c[k] = t[k]
    BY <1>1, <1>3
  <2> HIDE DEF c
  <2>2. c = f <=> \A k \in 1..Len(f) : c[k] = f[k]
    BY <1>1, <2>1
  <2>3. Messages!StartsWith(t, f) <=> c = f
    BY <1>3 DEF Messages!StartsWith, c
  <2> QED BY <1>1, <1>3, <2>1, <2>2, <2>3
<1> QED BY <1>2, <1>3

LEMMA PartialForm ==
  ASSUME NEW T, NEW a \in Seq(T), NEW b \in Seq(T), NEW i \in 0..Len(b)
  PROVE  /\ a \o b \in Seq(T) /\ Len(a \o b) = Len(a) + Len(b)
         /\ a \o SubSeq(b, 1, i) \in Seq(T) /\ Len(a \o SubSeq(b, 1, i)) = Len(a) + i
         /\ \A k \in 1..(Len(a) + i) : (a \o SubSeq(b, 1, i))[k] = (a \o b)[k]
<1> DEFINE c == SubSeq(b, 1, i)
<1>1. c \in Seq(T) /\ Len(c) = i /\ (\A k \in 1..i : c[k] = b[k]) /\ Len(a) \in Nat /\ Len(b) \in Nat /\ i <= Len(b)
  OBVIOUS
<1> HIDE DEF c
<1>2. ASSUME NEW u \in Seq(T), NEW v \in Seq(T)
      PROVE  /\ u \o v \in Seq(T) /\ Len(u \o v) = Len(u) + Len(v)
             /\ \A k \in 1..(Len(u) + Len(v)) : (u \o v)[k] = IF k <= Len(u) THEN u[k] ELSE v[k - Len(u)]
  OBVIOUS
<1>3. \A k \in 1..(Len(a) + i) : (a \o c)[k] = (a \o b)[k]
  <2> SUFFICES ASSUME NEW k \in 1..(Len(a) + i) PROVE (a \o c)[k] = (a \o b)[k]
    OBVIOUS
  <2>1. k \in 1..(Len(a) + Len(b)) /\ k \in 1..(Len(a) + Len(c))
    BY <1>1
  <2>2. (a \o c)[k] = (IF k <= Len(a) THEN a[k] ELSE c[k - Len(a)])
    BY <1>1, <1>2, <2>1
  <2>3. (a \o b)[k] = (IF k <= Len(a) THEN a[k] ELSE b[k - Len(a)])
    BY <1>1, <1>2, <2>1
  <2>4. ~(k <= Len(a)) => k - Len(a) \in 1..i
    BY <1>1
  <2> QED BY <1>1, <2>2, <2>3, <2>4
<1> QED BY <1>1, <1>2, <1>3 DEF c

\* The tags read are the form's, and where the form goes on the next one differs.
ReadsWell(t, form) ==
  LET all == form.required \o form.optional
      read == Messages!ReadTags(t, form)
  IN  /\ read \in Nat /\ read <= Len(t) /\ read <= Len(all)
      /\ \A k \in 1..read : t[k] = all[k]
      /\ read < Len(t) /\ read < Len(all) => t[read + 1] # all[read + 1]

LEMMA ReadFacts ==
  ASSUME NEW T, NEW t \in Seq(T), NEW form, form.required \in Seq(T), form.optional \in Seq(T),
         Messages!StartsWith(t, form.required)
  PROVE  ReadsWell(t, form)
<1> DEFINE all == form.required \o form.optional
           read == Messages!ReadTags(t, form)
           a == form.required
           b == form.optional
           n == Len(a)
           Upto(i) == a \o SubSeq(b, 1, i)
           matching == {i \in 0..Len(b) : Messages!StartsWith(t, Upto(i))}
           most == CHOOSE i \in matching : \A j \in matching : j <= i
<1>0. a \in Seq(T) /\ b \in Seq(T) /\ Messages!StartsWith(t, a) /\ all = a \o b
  OBVIOUS
<1>1. read = n + most
  BY DEF Messages!ReadTags
<1> HIDE DEF a, b, all, read
<1>2. n \in Nat /\ Len(b) \in Nat /\ Len(t) \in Nat /\ all \in Seq(T) /\ Len(all) = n + Len(b)
  <2>1. 0 \in 0..Len(b)
    BY <1>0
  <2> QED BY <1>0, <2>1, PartialForm
<1>3. ASSUME NEW i \in 0..Len(b)
      PROVE  i \in matching <=> n + i <= Len(t) /\ \A k \in 1..(n + i) : t[k] = all[k]
  <2>1. Upto(i) \in Seq(T) /\ Len(Upto(i)) = n + i /\ \A k \in 1..(n + i) : Upto(i)[k] = all[k]
    <3>1. /\ a \o SubSeq(b, 1, i) \in Seq(T) /\ Len(a \o SubSeq(b, 1, i)) = Len(a) + i
          /\ \A k \in 1..(Len(a) + i) : (a \o SubSeq(b, 1, i))[k] = (a \o b)[k]
      BY <1>0, PartialForm
    <3> QED BY <1>0, <3>1
  <2>2. i \in matching <=> Messages!StartsWith(t, Upto(i))
    OBVIOUS
  <2> HIDE DEF matching, Upto, n
  <2>3. Messages!StartsWith(t, Upto(i)) <=> n + i <= Len(t) /\ \A k \in 1..(n + i) : t[k] = Upto(i)[k]
    BY <2>1, StartsMeans
  <2> QED BY <2>1, <2>2, <2>3
<1>4. 0 \in matching
  <2>1. n <= Len(t) /\ \A k \in 1..n : t[k] = a[k]
    BY <1>0, StartsMeans
  <2>2. \A k \in 1..n : all[k] = a[k]
    BY <1>0
  <2>3. 0 \in 0..Len(b) /\ n + 0 = n
    BY <1>2
  <2> HIDE DEF matching, n
  <2> QED BY <1>3, <2>1, <2>2, <2>3
<1>5. matching \in SUBSET (0..Len(b))
  OBVIOUS
<1> HIDE DEF matching
<1>6. \E i \in matching : \A j \in matching : j <= i
  BY <1>2, <1>4, <1>5, GreatestExists
<1>7. most \in matching /\ \A j \in matching : j <= most
  BY <1>6
<1> HIDE DEF most, n
<1>8. most \in 0..Len(b) /\ n + most <= Len(t) /\ \A k \in 1..(n + most) : t[k] = all[k]
  BY <1>3, <1>5, <1>7
<1>9. read \in Nat /\ read <= Len(t) /\ read <= Len(all) /\ \A k \in 1..read : t[k] = all[k]
  <2>1. most \in Nat /\ most <= Len(b)
    BY <1>2, <1>8
  <2>2. read \in Nat /\ read <= Len(t) /\ read <= Len(all)
    BY <1>1, <1>2, <1>8, <2>1
  <2> QED BY <1>1, <1>8, <2>2
<1>10. ASSUME read < Len(t), read < Len(all), t[read + 1] = all[read + 1] PROVE FALSE
  <2>1. most + 1 \in 0..Len(b) /\ n + (most + 1) <= Len(t) /\ n + (most + 1) = read + 1
    BY <1>1, <1>2, <1>8, <1>10
  <2>2. ASSUME NEW k \in 1..(read + 1) PROVE t[k] = all[k]
    <3>1. k = read + 1 \/ k \in 1..read
      BY <1>9
    <3> QED BY <1>9, <1>10, <3>1
  <2>3. most + 1 \in matching
    <3>1. \A k \in 1..(n + (most + 1)) : t[k] = all[k]
      BY <2>1, <2>2
    <3> QED BY <1>3, <2>1, <3>1
  <2>4. most + 1 <= most
    BY <1>7, <2>3
  <2> QED BY <1>8, <2>4
<1> QED BY <1>9, <1>10 DEF ReadsWell, all, read

\* A rotation of zeros has no length.
LEMMA ZeroHasNoLength ==
  ASSUME NEW r, DOMAIN r = 1..4, Len(r) = 4, \A k \in 1..4 : r[k] = 0
  PROVE  Messages!LengthSquared(r) = 0
<1> DEFINE next == [p \in {0} \X (1..4) |-> 0]
           Made(g) == g = [s \in SUBSET (1..4) |-> IF s = {} THEN 0 ELSE g[s \ {Top(s)}] + r[Top(s)] * r[Top(s)]]
           it == CHOOSE g : Made(g)
<1>1. Messages!LengthSquared(r) = it[1..4]
  BY DEF Messages!LengthSquared, Messages!FoldLeft, Messages!MapThenFoldSet, Messages!Max, Top
<1>2. next \in [{0} \X (1..4) -> {0}]
  OBVIOUS
<1>3. PICK h \in [SUBSET (1..4) -> {0}] : Folds(h, 4, 0, next)
  <2> HIDE DEF next
  <2> QED BY <1>2, FoldExists
<1>4. Made(h)
  <2>1. ASSUME NEW s \in SUBSET (1..4), s # {}
        PROVE  h[s] = h[s \ {Top(s)}] + r[Top(s)] * r[Top(s)]
    <3>1. Top(s) \in 1..4
      BY <2>1, TopIsIn
    <3>2. h[s] = 0 /\ h[s \ {Top(s)}] = 0 /\ r[Top(s)] = 0
      BY <3>1
    <3> QED BY <3>2
  <2>2. \A s \in SUBSET (1..4) : s = {} => h[s] = 0
    OBVIOUS
  <2> QED BY <2>1, <2>2
<1>5. Made(it)
  <2> HIDE DEF Made
  <2> QED BY <1>4
<1> HIDE DEF it
<1>6. it = [s \in SUBSET (1..4) |-> IF s = {} THEN 0 ELSE it[s \ {Top(s)}] + r[Top(s)] * r[Top(s)]]
  BY <1>5
<1> DEFINE bad == {m \in 0..4 : it[1..m] # 0}
<1>7. 0 \notin bad
  <2>1. 1..0 \in SUBSET (1..4) /\ 1..0 = {}
    OBVIOUS
  <2> QED BY <1>6, <2>1
<1>8. ASSUME NEW m \in 0..4, m + 1 \in bad PROVE m \in bad
  <2> SUFFICES ASSUME it[1..m] = 0 PROVE FALSE
    OBVIOUS
  <2>1. m + 1 \in 1..4 /\ (m + 1) - 1 = m
    BY <1>8
  <2>2. 1..(m + 1) \in SUBSET (1..4) /\ 1..(m + 1) # {} /\ Top(1..(m + 1)) = m + 1
        /\ (1..(m + 1)) \ {Top(1..(m + 1))} = 1..((m + 1) - 1)
    BY <2>1, Segments
  <2>3. it[1..(m + 1)] = it[(1..(m + 1)) \ {Top(1..(m + 1))}] + r[Top(1..(m + 1))] * r[Top(1..(m + 1))]
    BY <1>6, <2>2
  <2>4. it[1..(m + 1)] = it[1..m] + r[m + 1] * r[m + 1] /\ r[m + 1] = 0
    BY <2>1, <2>2, <2>3
  <2>5. it[1..(m + 1)] = 0
    BY <2>4
  <2> QED BY <1>8, <2>5
<1>9. bad = {}
  <2>1. bad \in SUBSET (0..4)
    OBVIOUS
  <2> HIDE DEF bad
  <2> QED BY <1>7, <1>8, <2>1, NoneBad
<1>10. 4 \in 0..4
  OBVIOUS
<1> QED BY <1>1, <1>9, <1>10

-----------------------------------------------------------------------------
(* What has been decoded of the packet, and mapped.                          *)

FormOf(k) == Forms[vmcPacket[k + 1].address]

\* The message after the k-th is one the decoder accepts.
Accepted(k) ==
  LET m == vmcPacket[k + 1]
  IN  Messages!Agrees(m) /\ Messages!Known(m) /\ Messages!StartsWith(m.tags, FormOf(k).required)

ReadAt(k) ==
  LET m == vmcPacket[k + 1]
      read == Messages!ReadTags(m.tags, FormOf(k))
  IN  [kind |-> FormOf(k).kind, oscIndex |-> k, unread |-> Len(m.arguments) - read,
       fields |-> Messages!Fields(FormOf(k).kind, m, read)]

Readings == {ReadAt(k) : k \in {k \in 0..(index - 1) : Accepted(k)}}

BoneAt(k) == IF FormOf(k).kind = "RootTransform" THEN "" ELSE vmcPacket[k + 1].arguments[1].text

SampleAt(k) ==
  LET m == vmcPacket[k + 1]
  IN  [bone |-> BoneAt(k), rotation |-> Messages!Reals(m, 5, 8), position |-> Messages!Reals(m, 2, 4), from |-> k]

Placed(k) ==
  BoneAt(k) \in VmcBoneNames \cup {""} /\ Messages!LengthSquared(Messages!Reals(vmcPacket[k + 1], 5, 8)) > 0

Mappings == {SampleAt(k) : k \in {k \in 0..(index - 1) : Placed(k)}}

InOrder(told) == \A i \in 1..Len(told) : i > 1 => told[i - 1].oscIndex < told[i].oscIndex

DecodingInv ==
  /\ vmcPacket \in Packets /\ index \in 0..Len(vmcPacket)
  /\ vmcMessages \in Seq(Readings) /\ InOrder(vmcMessages)
  /\ unsupported \in Nat /\ malformed \in Nat /\ Len(vmcMessages) + unsupported + malformed = index
  /\ mapped \in Nat /\ samples \in Seq(Mappings)

LEMMA DecodingInit == Messages!Init => DecodingInv
<1> SUFFICES ASSUME Messages!Init PROVE DecodingInv
  OBVIOUS
<1>1. /\ vmcPacket \in Packets /\ index = 0 /\ vmcMessages = <<>> /\ unsupported = 0 /\ malformed = 0
      /\ mapped = 0 /\ samples = <<>>
  BY DEF Messages!Init, Messages!InitOf
<1>2. Len(vmcPacket) \in Nat
  BY <1>1, MessageAssumption DEF Messages!PacketAssumption
<1>3. \A S : <<>> \in Seq(S) /\ Len(<<>>) = 0
  OBVIOUS
<1>4. vmcMessages \in Seq(Readings) /\ samples \in Seq(Mappings) /\ Len(vmcMessages) = 0
  BY <1>1, <1>3
<1>5. InOrder(vmcMessages)
  BY <1>4 DEF InOrder
<1>6. index \in 0..Len(vmcPacket) /\ Len(vmcMessages) + unsupported + malformed = index
  BY <1>1, <1>2, <1>4
<1> QED BY <1>1, <1>4, <1>5, <1>6 DEF DecodingInv

\* What was read and mapped of a packet stays, whatever more of it is read.
LEMMA ReadOn ==
  ASSUME DecodingInv, vmcPacket' = vmcPacket, index' \in {index, index + 1}
  PROVE  /\ Readings \subseteq Readings' /\ Mappings \subseteq Mappings'
         /\ vmcMessages \in Seq(Readings') /\ samples \in Seq(Mappings')
<1>1. index \in Nat
  BY MessageAssumption DEF DecodingInv, Messages!PacketAssumption
<1>2. \A k \in 0..(index - 1) : k \in 0..(index' - 1)
  <2>1. CASE index' = index
    BY <2>1
  <2>2. CASE index' = index + 1
    BY <1>1, <2>2
  <2> QED BY <2>1, <2>2
<1>3. \A k : FormOf(k)' = FormOf(k)
  BY DEF FormOf
<1>4. Readings \subseteq Readings'
  BY <1>2, <1>3 DEF Readings, ReadAt, Accepted
<1>5. Mappings \subseteq Mappings'
  BY <1>2, <1>3 DEF Mappings, SampleAt, Placed, BoneAt
<1>6. \A S, T, s : S \subseteq T /\ s \in Seq(S) => s \in Seq(T)
  OBVIOUS
<1>7. vmcMessages \in Seq(Readings) /\ samples \in Seq(Mappings)
  BY DEF DecodingInv
<1>8. vmcMessages \in Seq(Readings') /\ samples \in Seq(Mappings')
  BY <1>4, <1>5, <1>6, <1>7
<1> QED BY <1>4, <1>5, <1>8

LEMMA AppendFacts ==
  ASSUME NEW S, NEW s \in Seq(S), NEW e \in S
  PROVE  /\ Append(s, e) \in Seq(S) /\ Len(s) \in Nat /\ Len(Append(s, e)) = Len(s) + 1
         /\ Append(s, e)[Len(s) + 1] = e /\ \A i \in 1..Len(s) : Append(s, e)[i] = s[i]
OBVIOUS

LEMMA DecodeKeeps ==
  ASSUME DecodingInv, Messages!Decode
  PROVE  DecodingInv'
<1>1. /\ vmcPacket' = vmcPacket /\ index' = index + 1 /\ UNCHANGED <<unsupported, malformed, mapped, samples>>
      /\ index < Len(vmcPacket) /\ Accepted(index) /\ vmcMessages' = Append(vmcMessages, ReadAt(index))
  BY DEF Messages!Decode, Messages!Decoding, Messages!OscMessage, Messages!Decoded, Accepted, ReadAt, FormOf
<1>2. /\ vmcPacket \in Packets /\ index \in 0..Len(vmcPacket) /\ Len(vmcPacket) \in Nat /\ InOrder(vmcMessages)
      /\ unsupported \in Nat /\ malformed \in Nat /\ Len(vmcMessages) + unsupported + malformed = index
      /\ mapped \in Nat /\ vmcMessages \in Seq(Readings)
  BY MessageAssumption DEF DecodingInv, Messages!PacketAssumption
<1>3. vmcMessages \in Seq(Readings') /\ samples' \in Seq(Mappings')
  BY <1>1, ReadOn
<1>4. ReadAt(index) \in Readings'
  <2>1. index \in 0..((index + 1) - 1)
    BY <1>2
  <2> QED BY <1>1, <2>1 DEF Readings, ReadAt, Accepted, FormOf
<1>5. /\ vmcMessages' \in Seq(Readings') /\ Len(vmcMessages) \in Nat /\ Len(vmcMessages') = Len(vmcMessages) + 1
      /\ vmcMessages'[Len(vmcMessages) + 1] = ReadAt(index)
      /\ \A i \in 1..Len(vmcMessages) : vmcMessages'[i] = vmcMessages[i]
  BY <1>1, <1>3, <1>4, AppendFacts
<1>6. InOrder(vmcMessages')
  <2> SUFFICES ASSUME NEW i \in 1..(Len(vmcMessages) + 1), i > 1
               PROVE  vmcMessages'[i - 1].oscIndex < vmcMessages'[i].oscIndex
    BY <1>5 DEF InOrder
  <2>1. i - 1 \in 1..Len(vmcMessages) /\ vmcMessages'[i - 1] = vmcMessages[i - 1]
    BY <1>5
  <2>2. CASE i = Len(vmcMessages) + 1
    <3>1. vmcMessages[i - 1] \in Readings
      BY <1>2, <2>1
    <3>2. PICK k \in 0..(index - 1) : vmcMessages[i - 1] = ReadAt(k)
      BY <3>1 DEF Readings
    <3>3. ReadAt(k).oscIndex = k /\ ReadAt(index).oscIndex = index
      BY DEF ReadAt
    <3> QED BY <1>2, <1>5, <2>1, <2>2, <3>2, <3>3
  <2>3. CASE i # Len(vmcMessages) + 1
    <3>1. i \in 1..Len(vmcMessages)
      BY <1>5, <2>3
    <3> QED BY <1>2, <1>5, <2>1, <3>1 DEF InOrder
  <2> QED BY <2>2, <2>3
<1>7. index' \in 0..Len(vmcPacket) /\ Len(vmcMessages') + unsupported + malformed = index'
  BY <1>1, <1>2, <1>5
<1> QED BY <1>1, <1>2, <1>3, <1>5, <1>6, <1>7 DEF DecodingInv, InOrder

\* A message refused, for its tags or for its address.
LEMMA RefusalKeeps ==
  ASSUME DecodingInv, Messages!Malformed \/ Messages!Unsupported
  PROVE  DecodingInv'
<1>1. /\ vmcPacket' = vmcPacket /\ index' = index + 1 /\ index < Len(vmcPacket)
      /\ UNCHANGED <<vmcMessages, mapped, samples>>
  BY DEF Messages!Malformed, Messages!Unsupported, Messages!Skip, Messages!Decoding
<1>2. \/ malformed' = malformed + 1 /\ unsupported' = unsupported
      \/ unsupported' = unsupported + 1 /\ malformed' = malformed
  BY DEF Messages!Malformed, Messages!Unsupported
<1>3. /\ vmcPacket \in Packets /\ index \in 0..Len(vmcPacket) /\ Len(vmcPacket) \in Nat /\ InOrder(vmcMessages)
      /\ unsupported \in Nat /\ malformed \in Nat /\ Len(vmcMessages) + unsupported + malformed = index
      /\ mapped \in Nat /\ vmcMessages \in Seq(Readings)
  BY MessageAssumption DEF DecodingInv, Messages!PacketAssumption
<1>4. vmcMessages' \in Seq(Readings') /\ samples' \in Seq(Mappings') /\ Len(vmcMessages) \in Nat
  BY <1>1, <1>3, ReadOn
<1>5. /\ unsupported' \in Nat /\ malformed' \in Nat /\ index' \in 0..Len(vmcPacket)
      /\ Len(vmcMessages) + unsupported' + malformed' = index'
  BY <1>1, <1>2, <1>3, <1>4
<1> QED BY <1>1, <1>3, <1>4, <1>5 DEF DecodingInv, InOrder

\* What the fields of a transform say.
LEMMA TransformFields ==
  ASSUME NEW kind \in {"RootTransform", "BoneTransform"}, NEW m, NEW read
  PROVE  /\ Messages!Fields(kind, m, read).name = m.arguments[1].text
         /\ Messages!Fields(kind, m, read).position = Messages!Reals(m, 2, 4)
         /\ Messages!Fields(kind, m, read).rotation = Messages!Reals(m, 5, 8)
BY DEF Messages!Fields, Messages!NoFields

LEMMA AvailabilityFields ==
  ASSUME NEW m, NEW read
  PROVE  Messages!Fields("Availability", m, read).numbers = Messages!Reals(m, 1, read)
BY DEF Messages!Fields, Messages!NoFields

\* A transform that passed gives the sample of its own message.
LEMMA MapKeeps ==
  ASSUME DecodingInv, Messages!MapTransform
  PROVE  DecodingInv'
<1> DEFINE d == vmcMessages[mapped + 1]
<1>1. /\ UNCHANGED <<vmcPacket, index, vmcMessages, unsupported, malformed>> /\ mapped' = mapped + 1
      /\ mapped < Len(vmcMessages) /\ d.kind \in {"RootTransform", "BoneTransform"}
      /\ d.kind = "RootTransform" \/ d.fields.name \in VmcBoneNames
      /\ Messages!LengthSquared(d.fields.rotation) > 0
      /\ samples' = Append(samples, [bone |-> IF d.kind = "RootTransform" THEN "" ELSE d.fields.name,
                                     rotation |-> d.fields.rotation, position |-> d.fields.position,
                                     from |-> d.oscIndex])
  BY DEF Messages!MapTransform, Messages!Mapped, Messages!Mapping, Messages!Transform, Messages!Message,
         Messages!Named, Messages!CheckTransform
<1>2. vmcMessages \in Seq(Readings) /\ mapped \in Nat
  BY DEF DecodingInv
<1>3. d \in Readings
  <2>1. Len(vmcMessages) \in Nat
    BY <1>2
  <2>3. mapped < Len(vmcMessages) /\ mapped \in Nat
    BY <1>1, <1>2
  <2>2. mapped + 1 \in 1..Len(vmcMessages)
    BY <2>1, <2>3
  <2> QED BY <1>2, <2>2
<1> HIDE DEF d
<1>4. PICK k \in 0..(index - 1) : Accepted(k) /\ d = ReadAt(k)
  BY <1>3 DEF Readings
<1>5. d.kind = FormOf(k).kind /\ d.oscIndex = k
      /\ d.fields = Messages!Fields(FormOf(k).kind, vmcPacket[k + 1], Messages!ReadTags(vmcPacket[k + 1].tags, FormOf(k)))
  BY <1>4 DEF ReadAt
<1>6. /\ d.fields.name = vmcPacket[k + 1].arguments[1].text
      /\ d.fields.position = Messages!Reals(vmcPacket[k + 1], 2, 4)
      /\ d.fields.rotation = Messages!Reals(vmcPacket[k + 1], 5, 8)
  <2>1. FormOf(k).kind \in {"RootTransform", "BoneTransform"}
    BY <1>1, <1>5
  <2> QED BY <1>5, <2>1, TransformFields
<1>7. samples' = Append(samples, SampleAt(k))
  BY <1>1, <1>5, <1>6 DEF SampleAt, BoneAt
<1>8. Placed(k)
  BY <1>1, <1>5, <1>6 DEF Placed, BoneAt
<1>9. samples \in Seq(Mappings') /\ vmcMessages' \in Seq(Readings') /\ Mappings \subseteq Mappings'
  BY <1>1, ReadOn
<1>10. SampleAt(k) \in Mappings'
  <2>1. SampleAt(k) \in Mappings
    BY <1>8 DEF Mappings
  <2> QED BY <1>9, <2>1
<1>11. samples' \in Seq(Mappings')
  <2> DEFINE S == Mappings'
             e == SampleAt(k)
  <2>1. samples \in Seq(S) /\ e \in S /\ samples' = Append(samples, e)
    BY <1>7, <1>9, <1>10
  <2> HIDE DEF S, e
  <2>2. Append(samples, e) \in Seq(S)
    BY <2>1, AppendFacts
  <2> QED BY <2>1, <2>2 DEF S
<1>12. mapped' \in Nat
  <2>1. mapped' = mapped + 1 /\ mapped \in Nat
    BY <1>1, <1>2
  <2> QED BY <2>1
<1> QED BY <1>1, <1>9, <1>11, <1>12 DEF DecodingInv, InOrder

LEMMA DecodingStep == DecodingInv /\ [Messages!Next]_Messages!vars => DecodingInv'
<1> SUFFICES ASSUME DecodingInv, [Messages!Next]_Messages!vars PROVE DecodingInv'
  OBVIOUS
<1>1. ASSUME UNCHANGED <<vmcPacket, index, vmcMessages, unsupported, malformed, samples>>, mapped' \in {mapped, mapped + 1}
      PROVE  DecodingInv'
  <2>1. vmcMessages \in Seq(Readings') /\ samples \in Seq(Mappings')
    BY <1>1, ReadOn
  <2>2. mapped' \in Nat
    BY <1>1 DEF DecodingInv
  <2> QED BY <1>1, <2>1, <2>2 DEF DecodingInv, InOrder
<1>2. CASE Messages!Malformed \/ Messages!Unsupported
  BY <1>2, RefusalKeeps
<1>3. CASE Messages!Decode
  BY <1>3, DecodeKeeps
<1>4. CASE Messages!UnknownBone \/ Messages!BadTransform \/ Messages!NotATransform
  BY <1>1, <1>4 DEF Messages!UnknownBone, Messages!BadTransform, Messages!NotATransform, Messages!Mapped
<1>5. CASE Messages!MapTransform
  BY <1>5, MapKeeps
<1>6. CASE UNCHANGED Messages!vars
  BY <1>1, <1>6 DEF Messages!vars
<1> QED BY <1>2, <1>3, <1>4, <1>5, <1>6 DEF Messages!Next

\* One message, read as far as its form allows.
LEMMA ReadTrue ==
  ASSUME DecodingInv, NEW k \in 0..(index - 1), Accepted(k)
  PROVE  LET d == ReadAt(k)
             m == vmcPacket[d.oscIndex + 1]
             form == Forms[m.address].required \o Forms[m.address].optional
             read == Len(m.arguments) - d.unread
         IN  /\ \A i \in 1..read : m.arguments[i].tag = form[i]
             /\ d.unread = 0 \/ read = Len(form) \/ m.arguments[read + 1].tag # form[read + 1]
             /\ d.kind = "Availability" => Len(d.fields.numbers) = read
<1> DEFINE m == vmcPacket[k + 1]
           r == Messages!ReadTags(m.tags, FormOf(k))
           form == FormOf(k).required \o FormOf(k).optional
<1>1. /\ m.tags \in Seq(STRING) /\ Len(m.arguments) \in Nat /\ Len(m.tags) = Len(m.arguments)
      /\ \A i \in 1..Len(m.tags) : m.arguments[i].tag = m.tags[i]
  <2>1. vmcPacket \in Packets /\ k + 1 \in 1..Len(vmcPacket)
    BY MessageAssumption DEF DecodingInv, Messages!PacketAssumption
  <2>2. Len(m.tags) = Len(m.arguments)
    BY DEF Accepted, Messages!Agrees
  <2> QED BY <2>1, <2>2, MessageAssumption DEF Messages!PacketAssumption
<1>2. FormOf(k).required \in Seq(STRING) /\ FormOf(k).optional \in Seq(STRING)
      /\ Messages!StartsWith(m.tags, FormOf(k).required)
  BY MessageAssumption DEF Accepted, Messages!Known, FormOf, Messages!FormAssumption
<1>3. /\ r \in Nat /\ r <= Len(m.tags) /\ r <= Len(form)
      /\ \A i \in 1..r : m.tags[i] = form[i]
      /\ r < Len(m.tags) /\ r < Len(form) => m.tags[r + 1] # form[r + 1]
  <2> DEFINE f == FormOf(k)
             t == m.tags
  <2>1. f.required \in Seq(STRING) /\ f.optional \in Seq(STRING) /\ t \in Seq(STRING)
        /\ Messages!StartsWith(t, f.required) /\ r = Messages!ReadTags(t, f) /\ form = f.required \o f.optional
    BY <1>1, <1>2
  <2> HIDE DEF f, t, r, form, m
  <2>3. ReadsWell(t, f)
    BY <2>1, ReadFacts
  <2>2. /\ r \in Nat /\ r <= Len(t) /\ r <= Len(form)
        /\ \A i \in 1..r : t[i] = form[i]
        /\ r < Len(t) /\ r < Len(form) => t[r + 1] # form[r + 1]
    BY <2>1, <2>3 DEF ReadsWell
  <2> QED BY <2>2 DEF t
<1>4. /\ ReadAt(k).oscIndex = k /\ ReadAt(k).kind = FormOf(k).kind /\ ReadAt(k).unread = Len(m.arguments) - r
      /\ ReadAt(k).fields = Messages!Fields(FormOf(k).kind, m, r)
  BY DEF ReadAt
<1>5. FormOf(k).kind = "Availability" => Messages!Fields(FormOf(k).kind, m, r).numbers = Messages!Reals(m, 1, r)
  <2>1. Messages!Fields("Availability", m, r).numbers = Messages!Reals(m, 1, r)
    BY AvailabilityFields
  <2> SUFFICES ASSUME FormOf(k).kind = "Availability"
               PROVE  Messages!Fields(FormOf(k).kind, m, r).numbers = Messages!Reals(m, 1, r)
    OBVIOUS
  <2>2. Messages!Fields(FormOf(k).kind, m, r) = Messages!Fields("Availability", m, r)
    OBVIOUS
  <2> QED BY <2>1, <2>2
<1>6. FormOf(k) = Forms[vmcPacket[k + 1].address] /\ Len(form) \in Nat
  <2>1. \A S, x, y : x \in Seq(S) /\ y \in Seq(S) => Len(x \o y) \in Nat
    OBVIOUS
  <2>2. Len(form) \in Nat
    BY <1>2, <2>1
  <2> QED BY <2>2 DEF FormOf
<1> HIDE DEF m, r, form
<1>7. Len(Messages!Reals(m, 1, r)) = r
  BY <1>3 DEF Messages!Reals
<1>8. Len(m.arguments) - ReadAt(k).unread = r
  BY <1>1, <1>3, <1>4
<1>9. \A i \in 1..r : m.arguments[i].tag = form[i]
  BY <1>1, <1>3
<1>10. ReadAt(k).unread = 0 \/ r = Len(form) \/ m.arguments[r + 1].tag # form[r + 1]
  <2> SUFFICES ASSUME ReadAt(k).unread # 0, r # Len(form) PROVE m.arguments[r + 1].tag # form[r + 1]
    OBVIOUS
  <2>1. r < Len(m.tags) /\ r < Len(form) /\ r + 1 \in 1..Len(m.tags)
    BY <1>1, <1>3, <1>4, <1>6
  <2> QED BY <1>1, <1>3, <2>1
<1>11. ReadAt(k).kind = "Availability" => Len(ReadAt(k).fields.numbers) = r
  BY <1>4, <1>5, <1>7
<1>12. form = Forms[m.address].required \o Forms[m.address].optional /\ m = vmcPacket[ReadAt(k).oscIndex + 1]
  BY <1>4, <1>6 DEF form, m
<1> QED BY <1>8, <1>9, <1>10, <1>11, <1>12

\* A sample placed is turned by something.
LEMMA TurnedBySomething ==
  ASSUME NEW k, Placed(k)
  PROVE  \E i \in 5..8 : Messages!Real(vmcPacket[k + 1], i) # 0
<1> DEFINE r == Messages!Reals(vmcPacket[k + 1], 5, 8)
<1>1. DOMAIN r = 1..4 /\ Len(r) = 4 /\ \A i \in 1..4 : r[i] = Messages!Real(vmcPacket[k + 1], 5 + i - 1)
  BY DEF Messages!Reals
<1>2. Messages!LengthSquared(r) > 0
  BY DEF Placed
<1> HIDE DEF r
<1>3. ~(\A i \in 1..4 : r[i] = 0)
  BY <1>1, <1>2, ZeroHasNoLength
<1>4. PICK i \in 1..4 : r[i] # 0
  BY <1>3
<1>5. 5 + i - 1 \in 5..8
  OBVIOUS
<1> QED BY <1>1, <1>4, <1>5

LEMMA FormsKept == ASSUME DecodingInv PROVE ReadAsTheirForm
<1>1. Len(vmcMessages) + unsupported + malformed = index
  BY DEF DecodingInv
<1>2. vmcMessages \in Seq(Readings) /\ samples \in Seq(Mappings)
  BY DEF DecodingInv
<1>3. ASSUME NEW i \in DOMAIN vmcMessages
      PROVE  LET d == vmcMessages[i]
                 m == vmcPacket[d.oscIndex + 1]
                 form == Forms[m.address].required \o Forms[m.address].optional
                 read == Len(m.arguments) - d.unread
             IN  /\ i > 1 => vmcMessages[i - 1].oscIndex < d.oscIndex
                 /\ \A k \in 1..read : m.arguments[k].tag = form[k]
                 /\ d.unread = 0 \/ read = Len(form) \/ m.arguments[read + 1].tag # form[read + 1]
                 /\ d.kind = "Availability" => Len(d.fields.numbers) = read
  <2>1. PICK k \in 0..(index - 1) : Accepted(k) /\ vmcMessages[i] = ReadAt(k)
    BY <1>2, <1>3 DEF Readings
  <2>2. i > 1 => vmcMessages[i - 1].oscIndex < vmcMessages[i].oscIndex
    <3>1. i \in 1..Len(vmcMessages)
      BY <1>2, <1>3
    <3> QED BY <3>1 DEF DecodingInv, InOrder
  <2> QED BY <2>1, <2>2, ReadTrue
<1>4. ASSUME NEW i \in DOMAIN samples
      PROVE  LET m == vmcPacket[samples[i].from + 1]
             IN  /\ samples[i].rotation = Messages!Reals(m, 5, 8) /\ samples[i].position = Messages!Reals(m, 2, 4)
                 /\ samples[i].bone \in VmcBoneNames \cup {""}
                 /\ \E k \in 5..8 : Messages!Real(m, k) # 0
  <2>1. PICK k \in 0..(index - 1) : Placed(k) /\ samples[i] = SampleAt(k)
    BY <1>2, <1>4 DEF Mappings
  <2>2. /\ samples[i].from = k /\ samples[i].rotation = Messages!Reals(vmcPacket[k + 1], 5, 8)
        /\ samples[i].position = Messages!Reals(vmcPacket[k + 1], 2, 4) /\ samples[i].bone = BoneAt(k)
    BY <2>1 DEF SampleAt
  <2>3. BoneAt(k) \in VmcBoneNames \cup {""}
    BY <2>1 DEF Placed
  <2> QED BY <2>1, <2>2, <2>3, TurnedBySomething
<1> QED BY <1>1, <1>3, <1>4 DEF ReadAsTheirForm, Messages!ReadAsTheirForm

\* Each argument of a message was of the type its form gives the place, reading
\* stops where the form or the tags do, and a sample is the transform of the very
\* message it names: for every form, vocabulary of bones and packet.
THEOREM ReadAsForms == Messages!Spec => []ReadAsTheirForm
<1>1. Messages!Init => DecodingInv
  BY DecodingInit
<1>2. DecodingInv /\ [Messages!Next]_Messages!vars => DecodingInv'
  BY DecodingStep
<1>3. DecodingInv => ReadAsTheirForm
  BY FormsKept
<1> QED BY <1>1, <1>2, <1>3, PTL DEF Messages!Spec
=============================================================================
