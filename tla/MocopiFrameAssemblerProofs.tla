--------------------- MODULE MocopiFrameAssemblerProofs ---------------------
(***************************************************************************)
(* Proofs about MocopiFrameAssembler, for every counter width, threshold   *)
(* and any sequence of packets.                                            *)
(***************************************************************************)
EXTENDS MocopiFrameAssembler, FiniteSetTheorems, WellFoundedInduction, TLAPS

-----------------------------------------------------------------------------
(* Type correctness.                                                        *)

LEMMA NumbersAreNaturals == Numbers \subseteq Nat /\ None \notin Numbers
  BY SizesAssumption, ClocksAssumption DEF Numbers

LEMMA InitTypes == Init => TypeOK
<1> SUFFICES ASSUME Init PROVE TypeOK
  OBVIOUS
<1>1. RigType
  <2>1. rig \in Rigs \cup {None} /\ declared \subseteq Nat \X Rigs
    BY DEF Init
  <2>2. reportedNoRig \in BOOLEAN
    BY DEF Init
  <2>3. dark \in Nat /\ told \in Nat
    BY DEF Init
  <2> QED BY <2>1, <2>2, <2>3 DEF RigType
<1>2. ClockType
  <2>1. /\ lastStreamSeconds \in Nat \cup {None} /\ lastFrameNumber \in Numbers \cup {None}
        /\ sessionEpoch \in Int \cup {None}
    BY DEF Init
  <2>2. pendingNewSession \in BOOLEAN
    BY DEF Init
  <2>3. session \in Nat /\ restarted \subseteq Nat /\ heard \subseteq Numbers \X Nat
    BY DEF Init
  <2> QED BY <2>1, <2>2, <2>3 DEF ClockType
<1>3. TallyType
  BY SizesAssumption DEF Init, TallyType
<1>4. emitted \in Seq(Pose)
  <2>1. emitted = <<>>
    BY DEF Init
  <2> QED BY <2>1
<1> QED BY <1>1, <1>2, <1>3, <1>4 DEF TypeOK

\* What is lost before a frame is a number, whatever the counter did.
LEMMA LostIsNatural ==
  ASSUME TypeOK, NEW frame \in Frames
  PROVE  Lost(frame) \in Nat
<1>1. /\ frame.frameNumber \in Int /\ Width \in Nat \ {0}
      /\ LastNumber(frame) # None => LastNumber(frame) \in Int
  <2>1. frame.frameNumber \in Numbers
    BY DEF Frames
  <2>2. LastNumber(frame) # None => LastNumber(frame) \in Numbers
    <3>1. lastFrameNumber \in Numbers \cup {None}
      BY DEF TypeOK, ClockType
    <3>2. LastNumber(frame) = None \/ LastNumber(frame) = lastFrameNumber
      BY DEF LastNumber
    <3> HIDE DEF Numbers
    <3> QED BY <3>1, <3>2
  <2>3. \A n \in Numbers : n \in Int
    BY NumbersAreNaturals
  <2> QED BY <2>1, <2>2, <2>3, SizesAssumption
<1>2. CASE LastNumber(frame) = None
  BY <1>2 DEF Lost
<1>3. CASE LastNumber(frame) # None
  <2> DEFINE gap == frame.frameNumber - LastNumber(frame) - 1
  <2>1. gap \in Int
    BY <1>1, <1>3
  <2>2. gap % Width \in Nat
    <3> HIDE DEF gap
    <3> QED BY <1>1, <2>1
  <2> QED BY <2>2 DEF Lost
<1> QED BY <1>2, <1>3

LEMMA BeginSessionTypes ==
  ASSUME TypeOK, NEW frame \in Frames, BeginSession(frame)
  PROVE  /\ session' \in Nat /\ restarted' \subseteq Nat /\ heard' \subseteq Numbers \X Nat
         /\ sessionRestarts' \in Nat
<1>1. <<frame.frameNumber, frame.streamSeconds>> \in Numbers \X Nat
  BY ClocksAssumption DEF Frames
<1>2. /\ session \in Nat /\ restarted \subseteq Nat /\ heard \subseteq Numbers \X Nat
      /\ sessionRestarts \in Nat
  BY DEF TypeOK, ClockType, TallyType
<1>3. CASE Restarts(frame)
  <2>1. session' \in Nat /\ sessionRestarts' \in Nat
    BY <1>2, <1>3 DEF BeginSession
  <2>2. restarted' = restarted \cup {session'}
    BY <1>3 DEF BeginSession
  <2>3. heard' = {<<frame.frameNumber, frame.streamSeconds>>}
    BY <1>3 DEF BeginSession
  <2> QED BY <1>1, <1>2, <2>1, <2>2, <2>3
<1>4. CASE ~Restarts(frame)
  BY <1>1, <1>2, <1>4 DEF BeginSession
<1> QED BY <1>3, <1>4

LEMMA ClocksForgotten ==
  ASSUME TypeOK, NEW frame, ForgetClocks(frame)
  PROVE  /\ lastStreamSeconds' \in Nat \cup {None} /\ lastFrameNumber' \in Numbers \cup {None}
         /\ sessionEpoch' \in Int \cup {None}
  BY DEF TypeOK, ClockType, ForgetClocks, clocks

LEMMA EmittedPose ==
  ASSUME TypeOK, NEW frame \in Frames, Emit(frame), session' \in Nat
  PROVE  /\ emitted' \in Seq(Pose) /\ framesLost' \in Nat /\ framesIncomplete' \in Nat
         /\ lastStreamSeconds' \in Nat /\ lastFrameNumber' \in Numbers /\ sessionEpoch' \in Int
<1> DEFINE pose == [timestamp |-> frame.streamSeconds,
                    frameNumber |-> frame.frameNumber,
                    offset |-> frame.offset,
                    clockDrift |-> frame.offset - Epoch(frame),
                    lostFrames |-> Lost(frame),
                    missing |-> Bones \ frame.bones,
                    rig |-> Rig(frame),
                    beginsNewSession |-> BeginsNewSession(frame),
                    session |-> session']
<1>1. frame.streamSeconds \in Nat /\ frame.frameNumber \in Numbers /\ frame.offset \in Int
  BY ClocksAssumption DEF Frames
<1>2. Epoch(frame) \in Int
  BY <1>1 DEF Epoch, TypeOK, ClockType
<1>3. Lost(frame) \in Nat
  BY LostIsNatural
<1>4. Rig(frame) \in Rigs
  BY DEF Emit, Rig, TypeOK, RigType
<1>5. BeginsNewSession(frame) \in BOOLEAN
  BY DEF BeginsNewSession
<1>6. frame.offset - Epoch(frame) \in Int
  BY <1>1, <1>2
<1>7. pose \in Pose
  BY <1>1, <1>3, <1>4, <1>5, <1>6 DEF Pose
<1>8. emitted \in Seq(Pose) /\ emitted' = Append(emitted, pose)
  BY DEF Emit, TypeOK
<1>9. emitted' \in Seq(Pose)
  <2> HIDE DEF pose
  <2> QED BY <1>7, <1>8
<1>10. framesLost' \in Nat
  <2>1. framesLost \in Nat /\ framesLost' = framesLost + Lost(frame)
    BY DEF Emit, TypeOK, TallyType
  <2> QED BY <1>3, <2>1
<1>11. framesIncomplete' \in Nat
  BY DEF Emit, TypeOK, TallyType
<1>12. lastStreamSeconds' \in Nat /\ lastFrameNumber' \in Numbers /\ sessionEpoch' \in Int
  BY <1>1, <1>2 DEF Emit
<1> QED BY <1>9, <1>10, <1>11, <1>12

LEMMA PushFrameTypes == ASSUME TypeOK, NEW frame \in Frames, PushFrame(frame) PROVE TypeOK'
<1>1. /\ session' \in Nat /\ restarted' \subseteq Nat /\ heard' \subseteq Numbers \X Nat
      /\ sessionRestarts' \in Nat
  BY BeginSessionTypes DEF PushFrame
<1>2. packets' \in 0..MaxPackets
  BY SizesAssumption DEF PushFrame, Packet, TypeOK, TallyType
<1>3. declared' \subseteq Nat \X Rigs /\ skeletonsRefused' \in Nat
  BY DEF PushFrame, TypeOK, RigType, TallyType
<1>4. CASE OutOfOrder(frame)
  <2>1. RigType'
    BY <1>3, <1>4 DEF OutOfOrder, rigState, TypeOK, RigType
  <2>2. ClockType'
    BY <1>1, <1>4 DEF OutOfOrder, clocks, TypeOK, ClockType
  <2>3. TallyType' /\ emitted' \in Seq(Pose)
    BY <1>1, <1>2, <1>3, <1>4 DEF OutOfOrder, deliveries, TypeOK, TallyType
  <2> QED BY <2>1, <2>2, <2>3 DEF TypeOK
<1>5. CASE RefuseNoRig(frame)
  <2>1. rig' \in Rigs \cup {None} /\ reportedNoRig' \in BOOLEAN
    BY <1>5 DEF RefuseNoRig
  <2>2. dark' \in Nat /\ told' \in Nat
    BY <1>5 DEF RefuseNoRig, TypeOK, RigType
  <2>3. pendingNewSession' \in BOOLEAN
    BY <1>5 DEF RefuseNoRig
  <2>4. /\ lastStreamSeconds' \in Nat \cup {None} /\ lastFrameNumber' \in Numbers \cup {None}
        /\ sessionEpoch' \in Int \cup {None}
    BY <1>5, ClocksForgotten DEF RefuseNoRig
  <2>5. TallyType' /\ emitted' \in Seq(Pose)
    BY <1>1, <1>2, <1>3, <1>5 DEF RefuseNoRig, deliveries, TypeOK, TallyType
  <2>6. RigType'
    BY <1>3, <2>1, <2>2 DEF RigType
  <2>7. ClockType'
    BY <1>1, <2>3, <2>4 DEF ClockType
  <2> QED BY <2>5, <2>6, <2>7 DEF TypeOK
<1>6. CASE RefuseEmpty(frame)
  <2>1. RigType'
    BY <1>3, <1>6 DEF RefuseEmpty, rigState, TypeOK, RigType
  <2>2. ClockType'
    BY <1>1, <1>6 DEF RefuseEmpty, clocks, TypeOK, ClockType
  <2>3. TallyType' /\ emitted' \in Seq(Pose)
    BY <1>1, <1>2, <1>3, <1>6 DEF RefuseEmpty, deliveries, TypeOK, TallyType
  <2> QED BY <2>1, <2>2, <2>3 DEF TypeOK
<1>7. CASE Emit(frame)
  <2>1. RigType'
    BY <1>3, <1>7 DEF Emit, rigState, TypeOK, RigType
  <2>2. /\ emitted' \in Seq(Pose) /\ framesLost' \in Nat /\ framesIncomplete' \in Nat
        /\ lastStreamSeconds' \in Nat /\ lastFrameNumber' \in Numbers /\ sessionEpoch' \in Int
    BY <1>1, <1>7, EmittedPose
  <2>3. pendingNewSession' \in BOOLEAN
    BY <1>7 DEF Emit
  <2>4. ClockType'
    BY <1>1, <2>2, <2>3 DEF ClockType
  <2>5. TallyType'
    BY <1>1, <1>2, <1>3, <1>7, <2>2 DEF Emit, refusals, TypeOK, TallyType
  <2> QED BY <2>1, <2>2, <2>4, <2>5 DEF TypeOK
<1> QED BY <1>4, <1>5, <1>6, <1>7 DEF PushFrame

LEMMA StepTypes == TypeOK /\ [Next]_vars => TypeOK'
<1> SUFFICES ASSUME TypeOK, [Next]_vars PROVE TypeOK'
  OBVIOUS
<1>1. CASE UNCHANGED vars
  <2>1. UNCHANGED <<rigState, clocks, pendingNewSession, refusals, deliveries, sessionRestarts,
                    skeletonsRefused, history>>
    BY <1>1 DEF vars
  <2>2. RigType' /\ emitted' \in Seq(Pose)
    BY <2>1 DEF rigState, deliveries, history, TypeOK, RigType
  <2>3. ClockType'
    BY <2>1 DEF clocks, history, TypeOK, ClockType
  <2>4. TallyType'
    BY <2>1 DEF refusals, deliveries, history, TypeOK, TallyType
  <2> QED BY <2>2, <2>3, <2>4 DEF TypeOK
<1>2. ASSUME NEW skeleton \in Rigs, SkeletonAccepted(skeleton) PROVE TypeOK'
  <2>1. <<session, skeleton>> \in Nat \X Rigs
    BY DEF TypeOK, ClockType
  <2>2. reportedNoRig' \in BOOLEAN
    BY <1>2 DEF SkeletonAccepted
  <2>3. RigType'
    BY <1>2, <2>1, <2>2 DEF SkeletonAccepted, TypeOK, RigType
  <2>4. ClockType'
    BY <1>2 DEF SkeletonAccepted, clocks, TypeOK, ClockType
  <2>5. TallyType' /\ emitted' \in Seq(Pose)
    BY <1>2, SizesAssumption DEF SkeletonAccepted, Packet, refusals, deliveries, TypeOK, TallyType
  <2> QED BY <2>3, <2>4, <2>5 DEF TypeOK
<1>3. CASE SkeletonRefused
  <2>1. RigType'
    BY <1>3 DEF SkeletonRefused, rigState, TypeOK, RigType
  <2>2. ClockType'
    BY <1>3 DEF SkeletonRefused, clocks, TypeOK, ClockType
  <2>3. TallyType' /\ emitted' \in Seq(Pose)
    BY <1>3, SizesAssumption DEF SkeletonRefused, Packet, refusals, deliveries, TypeOK, TallyType
  <2> QED BY <2>1, <2>2, <2>3 DEF TypeOK
<1>4. CASE Reset
  <2>1. reportedNoRig' \in BOOLEAN /\ pendingNewSession' \in BOOLEAN
    BY <1>4 DEF Reset
  <2>2. RigType'
    BY <1>4, <2>1 DEF Reset, TypeOK, RigType
  <2>3. ClockType'
    BY <1>4, <2>1 DEF Reset, TypeOK, ClockType
  <2>4. TallyType' /\ emitted' \in Seq(Pose)
    BY <1>4 DEF Reset, refusals, deliveries, TypeOK, TallyType
  <2> QED BY <2>2, <2>3, <2>4 DEF TypeOK
<1> QED BY <1>1, <1>2, <1>3, <1>4, PushFrameTypes DEF Next

\* The members of MocopiFrameAssembler and the frames it hands out keep their
\* types; a count of lost frames is never negative, whatever the counter does.
THEOREM TypeCorrect == Spec => []TypeOK
  BY InitTypes, StepTypes, PTL DEF Spec

-----------------------------------------------------------------------------
(* Three shapes of a step, as the safety invariants see it.                 *)

\* The session goes on and nothing is emitted.
Stay ==
  /\ UNCHANGED <<session, restarted, emitted, framesLost, clocks, pendingNewSession>>
  /\ declared \subseteq declared'
  /\ rig' # None => (rig' = rig \/ <<session, rig'>> \in declared')

\* Another session begins, by a restart, which is then pending, or by a Reset.
Begin ==
  /\ session' = session + 1
  /\ \/ restarted' = restarted \cup {session + 1} /\ pendingNewSession' = TRUE
     \/ restarted' = restarted /\ pendingNewSession' = FALSE
  /\ rig' = None /\ lastStreamSeconds' = None /\ lastFrameNumber' = None /\ sessionEpoch' = None
  /\ UNCHANGED <<emitted, framesLost, declared>>

\* A frame is emitted in the session there is.
Deliver(frame) ==
  /\ rig # None /\ ~Restarts(frame)
  /\ lastStreamSeconds # None => frame.streamSeconds > lastStreamSeconds
  /\ \E pose \in Pose :
       /\ emitted' = Append(emitted, pose)
       /\ pose.timestamp = frame.streamSeconds
       /\ pose.session = session /\ pose.rig = rig
       /\ pose.beginsNewSession = pendingNewSession
       /\ pose.offset = frame.offset /\ pose.clockDrift = frame.offset - Epoch(frame)
       /\ pose.frameNumber = frame.frameNumber /\ pose.lostFrames = Lost(frame)
  /\ lastStreamSeconds' = frame.streamSeconds /\ lastFrameNumber' = frame.frameNumber
  /\ framesLost' = framesLost + Lost(frame)
  /\ sessionEpoch' = Epoch(frame)
  /\ pendingNewSession' = FALSE
  /\ UNCHANGED <<session, restarted, declared, rig>>

LEMMA DeliverShape ==
  ASSUME TypeOK, NEW frame \in Frames, PushFrame(frame), Emit(frame)
  PROVE  Deliver(frame)
<1> DEFINE pose == [timestamp |-> frame.streamSeconds,
                    frameNumber |-> frame.frameNumber,
                    offset |-> frame.offset,
                    clockDrift |-> frame.offset - Epoch(frame),
                    lostFrames |-> Lost(frame),
                    missing |-> Bones \ frame.bones,
                    rig |-> Rig(frame),
                    beginsNewSession |-> BeginsNewSession(frame),
                    session |-> session']
<1>1. ~Restarts(frame) /\ Rig(frame) = rig /\ rig # None
  BY DEF Emit, Rig
<1>2. session' = session /\ restarted' = restarted
  BY <1>1 DEF PushFrame, BeginSession
<1>3. BeginsNewSession(frame) = pendingNewSession
  <2>1. pendingNewSession \in BOOLEAN
    BY DEF TypeOK, ClockType
  <2> QED BY <1>1, <2>1 DEF BeginsNewSession
<1>4. frame.streamSeconds \in Nat /\ frame.frameNumber \in Numbers /\ frame.offset \in Int
  BY ClocksAssumption DEF Frames
<1>5. lastStreamSeconds # None => frame.streamSeconds > lastStreamSeconds
  <2>1. ~Regresses(frame)
    BY <1>1 DEF Emit, InOrder
  <2>2. lastStreamSeconds \in Nat \cup {None}
    BY DEF TypeOK, ClockType
  <2> QED BY <1>4, <2>1, <2>2 DEF Regresses
<1>6. pose \in Pose
  <2>1. Epoch(frame) \in Int
    BY <1>4 DEF Epoch, TypeOK, ClockType
  <2>2. Lost(frame) \in Nat
    BY LostIsNatural
  <2>3. Rig(frame) \in Rigs
    BY <1>1 DEF TypeOK, RigType
  <2>4. BeginsNewSession(frame) \in BOOLEAN
    BY DEF BeginsNewSession
  <2>5. session' \in Nat /\ frame.offset - Epoch(frame) \in Int
    BY <1>2, <1>4, <2>1 DEF TypeOK, ClockType
  <2> QED BY <1>4, <2>2, <2>3, <2>4, <2>5 DEF Pose
<1>7. emitted' = Append(emitted, pose)
  BY DEF Emit
<1>8. /\ pose.timestamp = frame.streamSeconds
      /\ pose.session = session /\ pose.rig = rig
      /\ pose.beginsNewSession = pendingNewSession
      /\ pose.offset = frame.offset /\ pose.clockDrift = frame.offset - Epoch(frame)
      /\ pose.frameNumber = frame.frameNumber /\ pose.lostFrames = Lost(frame)
  BY <1>1, <1>2, <1>3
<1>9. \E p \in Pose :
        /\ emitted' = Append(emitted, p)
        /\ p.timestamp = frame.streamSeconds
        /\ p.session = session /\ p.rig = rig
        /\ p.beginsNewSession = pendingNewSession
        /\ p.offset = frame.offset /\ p.clockDrift = frame.offset - Epoch(frame)
        /\ p.frameNumber = frame.frameNumber /\ p.lostFrames = Lost(frame)
  <2> HIDE DEF pose
  <2> QED BY <1>6, <1>7, <1>8
<1>10. /\ lastStreamSeconds' = frame.streamSeconds /\ lastFrameNumber' = frame.frameNumber
       /\ framesLost' = framesLost + Lost(frame) /\ sessionEpoch' = Epoch(frame)
       /\ pendingNewSession' = FALSE
       /\ UNCHANGED <<declared, rig>>
  BY DEF Emit, PushFrame, rigState
<1> QED BY <1>1, <1>2, <1>5, <1>9, <1>10 DEF Deliver

LEMMA PushShape ==
  ASSUME TypeOK, NEW frame \in Frames, PushFrame(frame)
  PROVE  Stay \/ Begin \/ Deliver(frame)
<1>1. declared' = declared
  BY DEF PushFrame
<1>2. CASE OutOfOrder(frame)
  <2>1. session' = session /\ restarted' = restarted
    BY <1>2 DEF OutOfOrder, PushFrame, BeginSession
  <2> QED BY <1>1, <1>2, <2>1 DEF OutOfOrder, Stay, rigState, clocks, deliveries
<1>3. CASE RefuseEmpty(frame)
  <2>1. ~Restarts(frame)
    BY <1>3 DEF RefuseEmpty, Rig
  <2>2. session' = session /\ restarted' = restarted
    BY <2>1 DEF PushFrame, BeginSession
  <2> QED BY <1>1, <1>3, <2>2 DEF RefuseEmpty, Stay, rigState, clocks, deliveries
<1>4. CASE RefuseNoRig(frame) /\ Restarts(frame)
  <2>1. session' = session + 1 /\ restarted' = restarted \cup {session'}
    BY <1>4 DEF PushFrame, BeginSession
  <2>2. lastStreamSeconds' = None /\ lastFrameNumber' = None /\ sessionEpoch' = None
    BY <1>4 DEF RefuseNoRig, ForgetClocks
  <2>3. pendingNewSession' = TRUE
    BY <1>4 DEF RefuseNoRig
  <2> QED BY <1>1, <1>4, <2>1, <2>2, <2>3 DEF RefuseNoRig, Begin, deliveries
<1>5. CASE RefuseNoRig(frame) /\ ~Restarts(frame)
  <2>1. session' = session /\ restarted' = restarted
    BY <1>5 DEF PushFrame, BeginSession
  <2>2. UNCHANGED clocks
    BY <1>5 DEF RefuseNoRig, ForgetClocks
  <2>3. pendingNewSession' = pendingNewSession
    <3>1. pendingNewSession \in BOOLEAN
      BY DEF TypeOK, ClockType
    <3> QED BY <1>5, <3>1 DEF RefuseNoRig
  <2> QED BY <1>1, <1>5, <2>1, <2>2, <2>3 DEF RefuseNoRig, Stay, deliveries
<1>6. CASE Emit(frame)
  BY <1>6, DeliverShape
<1> QED BY <1>2, <1>3, <1>4, <1>5, <1>6 DEF PushFrame

LEMMA Shapes ==
  ASSUME TypeOK, [Next]_vars
  PROVE  Stay \/ Begin \/ \E frame \in Frames : Deliver(frame)
<1>1. CASE UNCHANGED vars
  BY <1>1 DEF vars, rigState, clocks, deliveries, history, Stay
<1>2. ASSUME NEW skeleton \in Rigs, SkeletonAccepted(skeleton) PROVE Stay
  BY <1>2 DEF SkeletonAccepted, clocks, deliveries, Stay
<1>3. CASE SkeletonRefused
  BY <1>3 DEF SkeletonRefused, rigState, clocks, deliveries, Stay
<1>4. CASE Reset
  BY <1>4 DEF Reset, deliveries, Begin
<1> QED BY <1>1, <1>2, <1>3, <1>4, PushShape DEF Next

-----------------------------------------------------------------------------
(* What the members remember of the current session.                        *)

NothingEmitted == \A i \in 1..Len(emitted) : emitted[i].session # session

SessionsInv ==
  /\ \A i \in 1..Len(emitted) : emitted[i].session <= session
  /\ \A s \in restarted : s <= session

OrderInv ==
  /\ StreamAdvances
  /\ \A i \in 1..Len(emitted) :
       emitted[i].session = session =>
         lastStreamSeconds # None /\ emitted[i].timestamp <= lastStreamSeconds

RigInv ==
  /\ RigOfItsSession
  /\ rig # None => <<session, rig>> \in declared

AnnounceInv ==
  /\ RestartsAnnounced
  /\ pendingNewSession <=> (session \in restarted /\ NothingEmitted)

IInv == SessionsInv /\ OrderInv /\ RigInv /\ AnnounceInv

LEMMA InitInv == Init => IInv
<1> SUFFICES ASSUME Init PROVE IInv
  OBVIOUS
<1>1. emitted = <<>> /\ 1..Len(emitted) = {}
  BY DEF Init
<1>2. restarted = {} /\ rig = None
  BY DEF Init
<1>3. pendingNewSession = FALSE
  BY DEF Init
<1>4. SessionsInv
  BY <1>1, <1>2 DEF SessionsInv
<1>5. OrderInv
  BY <1>1 DEF OrderInv, StreamAdvances
<1>6. RigInv
  BY <1>1, <1>2 DEF RigInv, RigOfItsSession
<1>7. AnnounceInv
  BY <1>1, <1>2, <1>3 DEF AnnounceInv, RestartsAnnounced
<1> QED BY <1>4, <1>5, <1>6, <1>7 DEF IInv

LEMMA StayKeeps == ASSUME IInv, Stay PROVE IInv'
<1>1. UNCHANGED <<session, restarted, emitted, lastStreamSeconds>>
  BY DEF Stay, clocks
<1>2. SessionsInv'
  BY <1>1 DEF IInv, SessionsInv
<1>3. OrderInv'
  BY <1>1 DEF IInv, OrderInv, StreamAdvances
<1>4. RigInv'
  <2>1. RigOfItsSession'
    BY <1>1 DEF IInv, RigInv, RigOfItsSession, Stay
  <2>2. rig' # None => <<session, rig'>> \in declared'
    BY DEF IInv, RigInv, Stay
  <2> QED BY <1>1, <2>1, <2>2 DEF RigInv
<1>5. AnnounceInv'
  <2>1. pendingNewSession' = pendingNewSession
    BY DEF Stay
  <2> QED BY <1>1, <2>1 DEF IInv, AnnounceInv, RestartsAnnounced, NothingEmitted
<1> QED BY <1>2, <1>3, <1>4, <1>5 DEF IInv

LEMMA BeginKeeps == ASSUME TypeOK, IInv, Begin PROVE IInv'
<1>1. session \in Nat /\ restarted \subseteq Nat /\ emitted \in Seq(Pose)
  BY DEF TypeOK, ClockType
<1>2. emitted' = emitted /\ session' = session + 1
  BY DEF Begin
<1>3. \A i \in 1..Len(emitted) : emitted[i].session \in Nat /\ emitted[i].session <= session
  <2>1. \A i \in 1..Len(emitted) : emitted[i] \in Pose
    BY <1>1
  <2>2. \A pose \in Pose : pose.session \in Nat
    BY DEF Pose
  <2> QED BY <2>1, <2>2 DEF IInv, SessionsInv
<1>4. NothingEmitted'
  BY <1>1, <1>2, <1>3 DEF NothingEmitted
<1>5. restarted' \subseteq restarted \cup {session + 1}
  BY DEF Begin
<1>6. SessionsInv'
  <2>1. \A s \in restarted' : s <= session + 1
    BY <1>1, <1>5 DEF IInv, SessionsInv
  <2>2. \A i \in 1..Len(emitted) : emitted[i].session <= session + 1
    BY <1>1, <1>3
  <2> QED BY <1>2, <2>1, <2>2 DEF SessionsInv
<1>7. OrderInv'
  <2>1. StreamAdvances'
    BY <1>2 DEF IInv, OrderInv, StreamAdvances
  <2> QED BY <1>4, <2>1 DEF OrderInv, NothingEmitted
<1>8. RigInv'
  <2>1. rig' = None /\ declared' = declared
    BY DEF Begin
  <2> QED BY <1>2, <2>1 DEF IInv, RigInv, RigOfItsSession
<1>9. AnnounceInv'
  <2>1. session + 1 \notin restarted
    BY <1>1 DEF IInv, SessionsInv
  <2>2. pendingNewSession' <=> session' \in restarted'
    BY <1>2, <2>1 DEF Begin
  <2>3. \A j \in 1..Len(emitted) : emitted[j].session \in restarted' <=> emitted[j].session \in restarted
    BY <1>1, <1>3 DEF Begin
  <2>4. RestartsAnnounced'
    BY <1>2, <2>3 DEF IInv, AnnounceInv, RestartsAnnounced
  <2> QED BY <1>4, <2>2, <2>4 DEF AnnounceInv
<1> QED BY <1>6, <1>7, <1>8, <1>9 DEF IInv

LEMMA DeliverKeeps == ASSUME TypeOK, IInv, NEW frame \in Frames, Deliver(frame) PROVE IInv'
<1> DEFINE n == Len(emitted) + 1
<1>1. PICK pose \in Pose :
        /\ emitted' = Append(emitted, pose)
        /\ pose.timestamp = frame.streamSeconds
        /\ pose.session = session /\ pose.rig = rig
        /\ pose.beginsNewSession = pendingNewSession
  BY DEF Deliver
<1>2. session \in Nat /\ emitted \in Seq(Pose) /\ frame.streamSeconds \in Nat
  BY ClocksAssumption DEF TypeOK, ClockType, Frames
<1>3. /\ Len(emitted') = n /\ n \in Nat /\ emitted'[n] = pose
      /\ \A i \in 1..(n - 1) : emitted'[i] = emitted[i] /\ emitted[i] \in Pose
  BY <1>1, <1>2
<1>4. \A i \in 1..n : i = n \/ i \in 1..(n - 1)
  BY <1>3
<1>5. UNCHANGED <<session, restarted, declared, rig>> /\ lastStreamSeconds' = frame.streamSeconds
  BY DEF Deliver
<1>6. 1..Len(emitted) = 1..(n - 1) /\ n \notin 1..(n - 1)
  BY <1>2
<1> HIDE DEF n
<1>7. SessionsInv'
  <2>1. \A i \in 1..n : emitted'[i].session <= session
    BY <1>1, <1>2, <1>3, <1>4, <1>6 DEF IInv, SessionsInv
  <2> QED BY <1>3, <1>5, <2>1 DEF IInv, SessionsInv
<1>8. \A i \in 1..(n - 1) : emitted[i].session = session =>
        emitted[i].timestamp < frame.streamSeconds /\ emitted[i].timestamp \in Nat
  <2> SUFFICES ASSUME NEW i \in 1..(n - 1), emitted[i].session = session
               PROVE  emitted[i].timestamp < frame.streamSeconds /\ emitted[i].timestamp \in Nat
    OBVIOUS
  <2>1. emitted[i].timestamp \in Nat
    BY <1>3 DEF Pose
  <2>2. lastStreamSeconds # None /\ emitted[i].timestamp <= lastStreamSeconds
    BY <1>6 DEF IInv, OrderInv
  <2>3. frame.streamSeconds > lastStreamSeconds /\ lastStreamSeconds \in Nat
    BY <2>2 DEF Deliver, TypeOK, ClockType
  <2> QED BY <1>2, <2>1, <2>2, <2>3
<1>9. OrderInv'
  <2>1. StreamAdvances'
    <3> SUFFICES ASSUME NEW i \in 1..n, NEW j \in 1..n, i < j,
                        emitted'[i].session = emitted'[j].session
                 PROVE  emitted'[i].timestamp < emitted'[j].timestamp
      BY <1>3 DEF StreamAdvances
    <3>1. i \in 1..(n - 1)
      BY <1>3
    <3>2. CASE j = n
      BY <1>1, <1>3, <1>8, <3>1, <3>2
    <3>3. CASE j \in 1..(n - 1)
      BY <1>3, <1>6, <3>1, <3>3 DEF IInv, OrderInv, StreamAdvances
    <3> QED BY <1>4, <3>2, <3>3
  <2>2. \A i \in 1..n : emitted'[i].session = session => emitted'[i].timestamp <= frame.streamSeconds
    <3> SUFFICES ASSUME NEW i \in 1..n, emitted'[i].session = session
                 PROVE  emitted'[i].timestamp <= frame.streamSeconds
      OBVIOUS
    <3>1. CASE i = n
      BY <1>1, <1>2, <1>3, <3>1
    <3>2. CASE i \in 1..(n - 1)
      BY <1>2, <1>3, <1>8, <3>2
    <3> QED BY <1>4, <3>1, <3>2
  <2>3. frame.streamSeconds # None
    BY <1>2, ClocksAssumption
  <2> QED BY <1>3, <1>5, <2>1, <2>2, <2>3 DEF OrderInv
<1>10. RigInv'
  <2>1. <<session, rig>> \in declared
    BY DEF IInv, RigInv, Deliver
  <2>2. \A i \in 1..n : <<emitted'[i].session, emitted'[i].rig>> \in declared
    BY <1>1, <1>3, <1>4, <1>6, <2>1 DEF IInv, RigInv, RigOfItsSession
  <2> QED BY <1>3, <1>5, <2>1, <2>2 DEF RigInv, RigOfItsSession
<1>11. AnnounceInv'
  <2>1. RestartsAnnounced'
    <3> SUFFICES ASSUME NEW j \in 1..n
                 PROVE  emitted'[j].beginsNewSession <=>
                          /\ emitted'[j].session \in restarted
                          /\ \A i \in 1..(j - 1) : emitted'[i].session # emitted'[j].session
      BY <1>3, <1>5 DEF RestartsAnnounced
    <3>1. CASE j = n
      <4>1. NothingEmitted <=> \A i \in 1..(n - 1) : emitted'[i].session # session
        BY <1>3, <1>6 DEF NothingEmitted
      <4> QED BY <1>1, <1>3, <3>1, <4>1 DEF IInv, AnnounceInv
    <3>2. CASE j \in 1..(n - 1)
      <4>1. \A i \in 1..(j - 1) : i \in 1..(n - 1)
        BY <1>3, <3>2
      <4>2. emitted[j].beginsNewSession <=>
              /\ emitted[j].session \in restarted
              /\ \A i \in 1..(j - 1) : emitted[i].session # emitted[j].session
        BY <1>6, <3>2 DEF IInv, AnnounceInv, RestartsAnnounced
      <4> QED BY <1>3, <3>2, <4>1, <4>2
    <3> QED BY <1>4, <3>1, <3>2
  <2>2. ~NothingEmitted'
    <3>1. n \in 1..Len(emitted')
      BY <1>3, <1>2 DEF n
    <3> QED BY <1>1, <1>3, <1>5, <3>1 DEF NothingEmitted
  <2>3. pendingNewSession' = FALSE
    BY DEF Deliver
  <2> QED BY <2>1, <2>2, <2>3 DEF AnnounceInv
<1> QED BY <1>7, <1>9, <1>10, <1>11 DEF IInv

\* What the frames of each session share, and what the members know of it, is
\* inductive: MocopiFrameAssembler::_PushFrame, _PushSkeleton and Reset keep it.
THEOREM InductiveInvariant == Spec => [](TypeOK /\ IInv)
<1>1. TypeOK /\ IInv /\ [Next]_vars => (TypeOK /\ IInv)'
  BY StepTypes, Shapes, StayKeeps, BeginKeeps, DeliverKeeps
<1> QED BY <1>1, InitTypes, InitInv, PTL DEF Spec

\* MocopiFrameAssembler::_PushFrame: within a session no emitted frame repeats or
\* precedes another, whatever the network repeated or reordered.
THEOREM StreamOrder == Spec => []StreamAdvances
<1>1. IInv => StreamAdvances
  BY DEF IInv, OrderInv
<1> QED BY <1>1, InductiveInvariant, PTL

\* _pendingNewSession: a restart is announced on the first frame emitted after it
\* and on no other, however many frames were refused in between.
THEOREM Announcements == Spec => []RestartsAnnounced
<1>1. IInv => RestartsAnnounced
  BY DEF IInv, AnnounceInv
<1> QED BY <1>1, InductiveInvariant, PTL

\* _ForgetSession: no frame is read through the rig of an earlier session.
THEOREM RigsOfSessions == Spec => []RigOfItsSession
<1>1. IInv => RigOfItsSession
  BY DEF IInv, RigInv
<1> QED BY <1>1, InductiveInvariant, PTL

-----------------------------------------------------------------------------
(* The one report of a session without a rig.                               *)

DarkInv ==
  /\ DarkSessionToldOnce
  /\ rig = None => (reportedNoRig <=> dark > 0)

LEMMA RefuseKeepsDark ==
  ASSUME TypeOK, DarkInv, NEW frame, RefuseNoRig(frame)
  PROVE  DarkInv'
<1>1. dark \in Nat /\ told \in Nat
  BY DEF TypeOK, RigType
<1>2. reportedNoRig' = TRUE
  BY DEF RefuseNoRig
<1>3. CASE Restarts(frame)
  <2>1. ReportedNoRig(frame) = FALSE
    BY <1>3 DEF ReportedNoRig
  <2>2. dark' = 1 /\ told' = 1
    BY <1>3, <2>1 DEF RefuseNoRig
  <2> QED BY <1>2, <2>2 DEF DarkInv, DarkSessionToldOnce
<1>4. CASE ~Restarts(frame)
  <2>1. rig = None
    BY <1>4 DEF RefuseNoRig, Rig
  <2>2. ReportedNoRig(frame) <=> dark > 0
    BY <1>4, <2>1 DEF ReportedNoRig, DarkInv
  <2>3. dark' = dark + 1 /\ told' = told + (IF ReportedNoRig(frame) THEN 0 ELSE 1)
    BY <1>4 DEF RefuseNoRig
  <2>4. told = IF dark = 0 THEN 0 ELSE 1
    BY DEF DarkInv, DarkSessionToldOnce
  <2>5. told' = 1 /\ dark' > 0
    BY <1>1, <2>2, <2>3, <2>4
  <2> QED BY <1>1, <1>2, <2>5 DEF DarkInv, DarkSessionToldOnce
<1> QED BY <1>3, <1>4

LEMMA DarkKept ==
  ASSUME TypeOK, DarkInv, UNCHANGED <<rig, reportedNoRig, dark, told>>
  PROVE  DarkInv'
  BY DEF DarkInv, DarkSessionToldOnce

LEMMA DarkStep == TypeOK /\ DarkInv /\ [Next]_vars => DarkInv'
<1> SUFFICES ASSUME TypeOK, DarkInv, [Next]_vars PROVE DarkInv'
  OBVIOUS
<1>1. CASE UNCHANGED vars
  BY <1>1, DarkKept DEF vars, rigState, history
<1>2. ASSUME NEW skeleton \in Rigs, SkeletonAccepted(skeleton) PROVE DarkInv'
  <2>1. rig' # None /\ UNCHANGED <<dark, told>>
    BY <1>2, RigAssumption DEF SkeletonAccepted
  <2> QED BY <2>1 DEF DarkInv, DarkSessionToldOnce
<1>3. CASE SkeletonRefused
  BY <1>3, DarkKept DEF SkeletonRefused, rigState
<1>4. CASE Reset
  <2>1. dark' = 0 /\ told' = 0
    BY <1>4 DEF Reset
  <2>2. reportedNoRig' = FALSE
    BY <1>4 DEF Reset
  <2> QED BY <2>1, <2>2 DEF DarkInv, DarkSessionToldOnce
<1>5. ASSUME NEW frame \in Frames, PushFrame(frame) PROVE DarkInv'
  <2>1. CASE OutOfOrder(frame)
    BY <2>1, DarkKept DEF OutOfOrder, rigState
  <2>2. CASE RefuseNoRig(frame)
    BY <2>2, RefuseKeepsDark
  <2>3. CASE RefuseEmpty(frame)
    BY <2>3, DarkKept DEF RefuseEmpty, rigState
  <2>4. CASE Emit(frame)
    BY <2>4, DarkKept DEF Emit, rigState
  <2> QED BY <1>5, <2>1, <2>2, <2>3, <2>4 DEF PushFrame
<1> QED BY <1>1, <1>2, <1>3, <1>4, <1>5 DEF Next

\* _reportedNoRig: a session that refuses frames for want of a rig says so once,
\* at the first of them, and the next such session says so again.
THEOREM DarkSessions == Spec => []DarkSessionToldOnce
<1>1. Init => DarkInv
  <2> SUFFICES ASSUME Init PROVE DarkInv
    OBVIOUS
  <2>1. dark = 0 /\ told = 0
    BY DEF Init
  <2>2. reportedNoRig = FALSE
    BY DEF Init
  <2> QED BY <2>1, <2>2 DEF DarkInv, DarkSessionToldOnce
<1>2. DarkInv => DarkSessionToldOnce
  BY DEF DarkInv
<1> QED BY <1>1, <1>2, DarkStep, TypeCorrect, PTL DEF Spec

\* The invariant the runs check, whole, for every numbering of the packets.
THEOREM AssemblerSafety == Spec => []AssemblerInvariant
  BY TypeCorrect, StreamOrder, Announcements, RigsOfSessions, DarkSessions, PTL
     DEF AssemblerInvariant
-----------------------------------------------------------------------------
(* Numbers by induction, and folds: a fold of a sequence is a recursive       *)
(* function on the subsets of its domain, the last element first, so that it  *)
(* exists and what it computes is shown for the first m elements, m growing.  *)

\* Every set of numbers has a least one.
LEMMA LeastExists ==
  ASSUME NEW free \in SUBSET Nat, free # {}
  PROVE  \E h \in free : \A k \in free : h <= k
<1> DEFINE Below(h) == {k \in free : k < h}
           Belows == {Below(h) : h \in free}
<1>1. \A h \in free : Below(h) \in FiniteSubsetsOf(Nat)
  <2> SUFFICES ASSUME NEW h \in free PROVE Below(h) \in FiniteSubsetsOf(Nat)
    OBVIOUS
  <2>1. h \in Nat /\ IsFiniteSet(0..h)
    BY FS_Interval
  <2>2. Below(h) \in SUBSET (0..h) /\ Below(h) \in SUBSET Nat
    <3>1. \A k \in free : k \in Nat /\ (k < h => k \in 0..h)
      BY <2>1
    <3> QED BY <3>1
  <2>3. IsFiniteSet(Below(h))
    BY <2>1, <2>2, FS_Subset
  <2> QED BY <2>2, <2>3 DEF FiniteSubsetsOf
<1>2. Belows \subseteq FiniteSubsetsOf(Nat) /\ Belows # {}
  BY <1>1
<1>3. PICK least \in Belows : \A other \in Belows : <<other, least>> \notin StrictSubsetOrdering(Nat)
  <2> HIDE DEF Belows
  <2> QED BY <1>2, WFMin, FS_StrictSubsetOrderingWellFounded
<1>4. PICK h \in free : least = Below(h)
  BY <1>3
<1>5. ASSUME NEW k \in free, k < h PROVE FALSE
  <2>1. k \in Nat /\ h \in Nat
    OBVIOUS
  <2>2. Below(k) \subseteq Below(h) /\ k \in Below(h) /\ k \notin Below(k)
    <3>1. ~(k < k) /\ \A x \in free : x < k => x < h
      BY <1>5, <2>1
    <3> QED BY <1>5, <3>1
  <2>3. Below(k) \in SUBSET Nat /\ Below(h) \in SUBSET Nat /\ Below(k) # Below(h)
    BY <2>2
  <2>4. <<Below(k), Below(h)>> \in StrictSubsetOrdering(Nat)
    <3> HIDE DEF Below
    <3> QED BY <2>2, <2>3 DEF StrictSubsetOrdering
  <2>5. Below(k) \in Belows
    BY <1>5
  <2> QED BY <1>3, <1>4, <2>4, <2>5
<1>6. \A k \in free : h <= k
  BY <1>5
<1> QED BY <1>6

\* The largest of a set of numbers, the one a fold takes last.
Top(s) == CHOOSE x \in s : \A y \in s : x >= y

\* A property of numbers that holds of 0 and is kept by adding one holds of all
\* of them up to n; "bad" is where it does not.
LEMMA NoneBad ==
  ASSUME NEW n \in Nat, NEW bad \in SUBSET (0..n), 0 \notin bad,
         \A m \in 0..n : m + 1 \in bad => m \in bad
  PROVE  bad = {}
<1> SUFFICES ASSUME bad # {} PROVE FALSE
  OBVIOUS
<1>1. bad \in SUBSET Nat
  OBVIOUS
<1>2. PICK h \in bad : \A k \in bad : h <= k
  BY <1>1, LeastExists
<1>3. h \in Nat /\ h # 0 /\ h \in 0..n
  OBVIOUS
<1>4. h - 1 \in 0..n /\ (h - 1) + 1 = h
  BY <1>3
<1>5. h - 1 \in bad
  BY <1>4
<1> QED BY <1>2, <1>3, <1>5

\* h is a fold of the subsets of 1..n, the largest number last.
Folds(h, n, base, next) ==
  \A s \in SUBSET (1..n) : h[s] = IF s = {} THEN base ELSE next[<<h[s \ {Top(s)}], Top(s)>>]

LEMMA FoldExists ==
  ASSUME NEW n \in Nat, NEW V, NEW base \in V, NEW next \in [V \X (1..n) -> V]
  PROVE  \E h \in [SUBSET (1..n) -> V] : Folds(h, n, base, next)
<1> DEFINE Fine(m) == \E h \in [SUBSET (1..m) -> V] : Folds(h, m, base, next)
           bad == {m \in 0..n : ~Fine(m)}
<1>1. Fine(0)
  <2> DEFINE h == [s \in SUBSET (1..0) |-> base]
  <2>1. \A s \in SUBSET (1..0) : s = {}
    OBVIOUS
  <2>2. h \in [SUBSET (1..0) -> V] /\ Folds(h, 0, base, next)
    BY <2>1 DEF Folds
  <2> HIDE DEF h
  <2> QED BY <2>2
<1>2. ASSUME NEW m \in 0..n, m + 1 \in 0..n, Fine(m) PROVE Fine(m + 1)
  <2>1. PICK g \in [SUBSET (1..m) -> V] : Folds(g, m, base, next)
    BY <1>2
  <2> DEFINE last == m + 1
             h == [s \in SUBSET (1..last) |-> IF last \in s THEN next[<<g[s \ {last}], last>>] ELSE g[s]]
  <2>2. /\ last \in 1..n /\ 1..m \subseteq 1..last /\ last \notin 1..m
        /\ \A k \in 1..last : k = last \/ k \in 1..m
        /\ \A k \in 1..last : last >= k /\ (k >= last => k = last)
    BY <1>2
  <2> HIDE DEF last
  <2>3. \A s \in SUBSET (1..last) : last \notin s => s \in SUBSET (1..m)
    BY <2>2
  <2>4. \A s \in SUBSET (1..last) : s \ {last} \in SUBSET (1..m)
    BY <2>2
  <2>5. \A s \in SUBSET (1..last) : last \in s => Top(s) = last
    BY <2>2 DEF Top
  <2>6. h \in [SUBSET (1..last) -> V]
    <3> SUFFICES ASSUME NEW s \in SUBSET (1..last)
                 PROVE  (IF last \in s THEN next[<<g[s \ {last}], last>>] ELSE g[s]) \in V
      OBVIOUS
    <3>1. CASE last \in s
      <4>1. <<g[s \ {last}], last>> \in V \X (1..n)
        BY <2>2, <2>4
      <4> QED BY <3>1, <4>1
    <3>2. CASE last \notin s
      BY <2>3, <3>2
    <3> QED BY <3>1, <3>2
  <2>7. \A s \in SUBSET (1..m) : s \in SUBSET (1..last) /\ last \notin s /\ h[s] = g[s]
    BY <2>2
  <2>8. \A s \in SUBSET (1..last) : last \in s => h[s] = next[<<g[s \ {last}], last>>]
    OBVIOUS
  <2> HIDE DEF h
  <2>9. Folds(h, last, base, next)
    <3> SUFFICES ASSUME NEW s \in SUBSET (1..last)
                 PROVE  h[s] = IF s = {} THEN base ELSE next[<<h[s \ {Top(s)}], Top(s)>>]
      BY DEF Folds
    <3>1. CASE last \in s
      <4>1. s # {} /\ Top(s) = last /\ h[s \ {last}] = g[s \ {last}]
        BY <2>4, <2>5, <2>7, <3>1
      <4> QED BY <2>8, <3>1, <4>1
    <3>2. CASE last \notin s
      <4>1. s \in SUBSET (1..m) /\ s \ {Top(s)} \in SUBSET (1..m)
        BY <2>3, <3>2
      <4>2. g[s] = IF s = {} THEN base ELSE next[<<g[s \ {Top(s)}], Top(s)>>]
        BY <2>1, <4>1 DEF Folds
      <4> QED BY <2>7, <4>1, <4>2
    <3> QED BY <3>1, <3>2
  <2> QED BY <2>6, <2>9 DEF last
<1>3. bad \in SUBSET (0..n) /\ 0 \notin bad /\ \A m \in 0..n : m + 1 \in bad => m \in bad
  <2> HIDE DEF Fine
  <2> QED BY <1>1, <1>2
<1>4. bad = {}
  <2> HIDE DEF bad
  <2> QED BY <1>3, NoneBad
<1> HIDE DEF Fine
<1>5. n \in 0..n
  OBVIOUS
<1> QED BY <1>4, <1>5 DEF Fine

\* The numbers up to m: their largest is m.
LEMMA Segments ==
  ASSUME NEW n \in Nat
  PROVE  \A m \in 1..n : /\ 1..m \in SUBSET (1..n) /\ 1..m # {}
                         /\ Top(1..m) = m /\ (1..m) \ {Top(1..m)} = 1..(m - 1)
<1> SUFFICES ASSUME NEW m \in 1..n
             PROVE  /\ 1..m \in SUBSET (1..n) /\ 1..m # {}
                    /\ Top(1..m) = m /\ (1..m) \ {Top(1..m)} = 1..(m - 1)
  OBVIOUS
<1>1. 1..m \in SUBSET (1..n) /\ 1..m # {} /\ m \in 1..m
  OBVIOUS
<1>2. \A k \in 1..m : m >= k /\ (k >= m => k = m)
  OBVIOUS
<1>3. Top(1..m) = m
  BY <1>1, <1>2 DEF Top
<1>4. (1..m) \ {m} = 1..(m - 1)
  OBVIOUS
<1> QED BY <1>1, <1>3, <1>4

LEMMA TopIsIn ==
  ASSUME NEW n \in Nat, NEW s \in SUBSET (1..n), s # {}
  PROVE  Top(s) \in s
<1> DEFINE over == {u \in 0..n : \A y \in s : u >= y}
<1>1. over \in SUBSET Nat /\ over # {}
  <2>1. n \in over
    OBVIOUS
  <2> QED BY <2>1
<1>2. PICK u \in over : \A k \in over : u <= k
  <2> HIDE DEF over
  <2> QED BY <1>1, LeastExists
<1>3. u \in Nat /\ \A y \in s : u >= y /\ y \in Nat /\ y >= 1
  OBVIOUS
<1>4. u \in s
  <2> SUFFICES ASSUME u \notin s PROVE FALSE
    OBVIOUS
  <2>1. \A y \in s : u - 1 >= y
    BY <1>3
  <2>2. PICK y \in s : TRUE
    OBVIOUS
  <2>3. u - 1 \in over
    BY <1>3, <2>1, <2>2
  <2> QED BY <1>2, <1>3, <2>3
<1> QED BY <1>3, <1>4 DEF Top

\* Total, one number after the other.
LEMMA TotalSteps ==
  ASSUME NEW q \in Seq(Nat)
  PROVE  \E sum \in [0..Len(q) -> Nat] :
           /\ sum[0] = 0 /\ \A m \in 1..Len(q) : sum[m] = sum[m - 1] + q[m]
           /\ Total(q) = sum[Len(q)]
<1> DEFINE n == Len(q)
           next == [p \in Nat \X (1..n) |-> p[1] + q[p[2]]]
           Made(g) == g = [s \in SUBSET (1..n) |-> IF s = {} THEN 0 ELSE g[s \ {Top(s)}] + q[Top(s)]]
           it == CHOOSE g : Made(g)
<1>1. n \in Nat /\ DOMAIN q = 1..n /\ \A i \in 1..n : q[i] \in Nat
  OBVIOUS
<1>2. Total(q) = it[1..n]
  BY <1>1 DEF Total, FoldLeft, MapThenFoldSet, Max, Top
<1> HIDE DEF n
<1>3. next \in [Nat \X (1..n) -> Nat]
  BY <1>1
<1>4. \A v \in Nat, i \in 1..n : next[<<v, i>>] = v + q[i]
  OBVIOUS
<1> HIDE DEF next
<1>5. PICK h \in [SUBSET (1..n) -> Nat] : Folds(h, n, 0, next)
  BY <1>1, <1>3, FoldExists
<1>6. Made(h)
  <2>1. ASSUME NEW s \in SUBSET (1..n), s # {}
        PROVE  h[s] = h[s \ {Top(s)}] + q[Top(s)]
    <3>1. Top(s) \in 1..n /\ h[s \ {Top(s)}] \in Nat
      BY <1>1, <2>1, TopIsIn
    <3>2. h[s] = next[<<h[s \ {Top(s)}], Top(s)>>]
      BY <1>5, <2>1 DEF Folds
    <3> QED BY <1>4, <3>1, <3>2
  <2>2. \A s \in SUBSET (1..n) : s = {} => h[s] = 0
    BY <1>5 DEF Folds
  <2> QED BY <2>1, <2>2
<1>7. Made(it)
  <2> HIDE DEF Made
  <2> QED BY <1>6
<1> HIDE DEF it
<1>8. it[1..0] = 0 /\ \A m \in 1..n : it[1..m] = it[1..(m - 1)] + q[m]
  <2>1. \A s \in SUBSET (1..n) : it[s] = IF s = {} THEN 0 ELSE it[s \ {Top(s)}] + q[Top(s)]
    BY <1>7
  <2>2. 1..0 \in SUBSET (1..n) /\ 1..0 = {}
    OBVIOUS
  <2>3. \A m \in 1..n : 1..m \in SUBSET (1..n) /\ 1..m # {} /\ (1..m) \ {Top(1..m)} = 1..(m - 1) /\ Top(1..m) = m
    BY <1>1, Segments
  <2> HIDE DEF Made
  <2>4. it[1..0] = 0
    BY <2>1, <2>2
  <2>5. ASSUME NEW m \in 1..n PROVE it[1..m] = it[1..(m - 1)] + q[m]
    <3>1. 1..m \in SUBSET (1..n) /\ 1..m # {}
      BY <2>3
    <3>2. it[1..m] = it[(1..m) \ {Top(1..m)}] + q[Top(1..m)]
      BY <2>1, <3>1
    <3>3. Top(1..m) = m /\ (1..m) \ {Top(1..m)} = 1..(m - 1)
      BY <2>3
    <3> QED BY <3>2, <3>3
  <2> QED BY <2>4, <2>5
<1> DEFINE bad == {m \in 0..n : it[1..m] \notin Nat}
<1>9. bad = {}
  <2>1. 0 \notin bad
    BY <1>8
  <2>2. \A m \in 0..n : m + 1 \in bad => m \in bad
    <3> SUFFICES ASSUME NEW m \in 0..n, m + 1 \in bad, it[1..m] \in Nat PROVE FALSE
      OBVIOUS
    <3>1. m + 1 \in 1..n /\ (m + 1) - 1 = m
      BY <1>1
    <3>2. it[1..(m + 1)] = it[1..m] + q[m + 1] /\ q[m + 1] \in Nat
      BY <1>1, <1>8, <3>1
    <3> QED BY <3>2
  <2>3. bad \in SUBSET (0..n)
    OBVIOUS
  <2> HIDE DEF bad
  <2> QED BY <1>1, <2>1, <2>2, <2>3, NoneBad
<1> DEFINE sum == [m \in 0..n |-> it[1..m]]
<1>10. sum \in [0..n -> Nat] /\ \A m \in 0..n : sum[m] = it[1..m]
  BY <1>9
<1> HIDE DEF sum, bad, Made
<1>11. sum[0] = 0 /\ sum[n] = it[1..n]
  BY <1>1, <1>8, <1>10
<1>12. ASSUME NEW m \in 1..n PROVE sum[m] = sum[m - 1] + q[m]
  <2>1. m \in 0..n /\ m - 1 \in 0..n
    BY <1>1
  <2> QED BY <1>8, <1>10, <2>1
<1> QED BY <1>2, <1>10, <1>11, <1>12 DEF n


\* One more number.
LEMMA TotalGrows ==
  ASSUME NEW q \in Seq(Nat), NEW more \in Seq(Nat), Len(more) = Len(q) + 1,
         \A i \in 1..Len(q) : more[i] = q[i]
  PROVE  Total(q) \in Nat /\ Total(more) = Total(q) + more[Len(q) + 1]
<1> DEFINE n == Len(q)
<1>1. n \in Nat /\ \A i \in 1..n : more[i] = q[i]
  <2>1. n \in Nat
    OBVIOUS
  <2>2. \A i \in 1..n : more[i] = q[i]
    BY ZenonT(20)
  <2> QED BY <2>1, <2>2
<1>2. PICK sum \in [0..n -> Nat] :
        /\ sum[0] = 0 /\ \A m \in 1..n : sum[m] = sum[m - 1] + q[m]
        /\ Total(q) = sum[n]
  BY TotalSteps
<1>3. PICK total \in [0..(n + 1) -> Nat] :
        /\ total[0] = 0 /\ \A m \in 1..(n + 1) : total[m] = total[m - 1] + more[m]
        /\ Total(more) = total[n + 1]
  BY TotalSteps
<1> HIDE DEF n
<1> DEFINE bad == {m \in 0..n : sum[m] # total[m]}
<1>4. \A m \in 0..n : m + 1 \in bad => m \in bad
  <2> SUFFICES ASSUME NEW m \in 0..n, m + 1 \in bad, sum[m] = total[m] PROVE FALSE
    OBVIOUS
  <2>1. m + 1 \in 1..n /\ m + 1 \in 1..(n + 1) /\ (m + 1) - 1 = m
    BY <1>1
  <2>2. more[m + 1] = q[m + 1]
    BY <1>1, <2>1
  <2>3. sum[m + 1] = sum[m] + q[m + 1]
    BY <1>2, <2>1
  <2>4. total[m + 1] = total[m] + more[m + 1]
    BY <1>3, <2>1
  <2> QED BY <2>2, <2>3, <2>4
<1>5. 0 \notin bad /\ bad \in SUBSET (0..n)
  BY <1>2, <1>3
<1>6. bad = {}
  <2> HIDE DEF bad
  <2> QED BY <1>1, <1>4, <1>5, NoneBad
<1>7. n \in 0..n /\ n + 1 \in 1..(n + 1) /\ (n + 1) - 1 = n
  BY <1>1
<1>8. sum[n] = total[n] /\ sum[n] \in Nat
  BY <1>6, <1>7
<1>9. total[n + 1] = total[n] + more[n + 1]
  BY <1>3, <1>7
<1> QED BY <1>2, <1>3, <1>8, <1>9 DEF n

LEMMA TotalOfNothing ==
  ASSUME NEW q \in Seq(Nat), \A i \in 1..Len(q) : q[i] = 0
  PROVE  Total(q) = 0
<1> DEFINE n == Len(q)
<1>1. n \in Nat /\ \A i \in 1..n : q[i] = 0
  OBVIOUS
<1>2. PICK sum \in [0..n -> Nat] :
        /\ sum[0] = 0 /\ \A m \in 1..n : sum[m] = sum[m - 1] + q[m]
        /\ Total(q) = sum[n]
  BY TotalSteps
<1> HIDE DEF n
<1> DEFINE bad == {m \in 0..n : sum[m] # 0}
<1>3. \A m \in 0..n : m + 1 \in bad => m \in bad
  <2> SUFFICES ASSUME NEW m \in 0..n, m + 1 \in bad, sum[m] = 0 PROVE FALSE
    OBVIOUS
  <2>1. m + 1 \in 1..n /\ (m + 1) - 1 = m
    BY <1>1
  <2>2. sum[m + 1] = sum[m] + q[m + 1] /\ q[m + 1] = 0
    BY <1>1, <1>2, <2>1
  <2> QED BY <2>2
<1>4. 0 \notin bad /\ bad \in SUBSET (0..n)
  BY <1>2
<1>5. bad = {}
  <2> HIDE DEF bad
  <2> QED BY <1>1, <1>3, <1>4, NoneBad
<1>6. n \in 0..n
  BY <1>1
<1> QED BY <1>2, <1>5, <1>6 DEF n

-----------------------------------------------------------------------------
(* What a pose tells of its stream.                                         *)

\* A function on 1..n is a sequence of length n.
LEMMA Listed ==
  ASSUME NEW n \in Nat, NEW S, NEW q \in [1..n -> S]
  PROVE  q \in Seq(S) /\ Len(q) = n
  OBVIOUS

\* One more pose adds what it lost, and to its own session alone one more than that.
LEMMA PoseAdds ==
  ASSUME TypeOK, NEW pose \in Pose, emitted' = Append(emitted, pose)
  PROVE  /\ Total(Losses)' = Total(Losses) + pose.lostFrames
         /\ \A s : Total(ToldOf(s))' = Total(ToldOf(s))
                     + (IF pose.session = s THEN pose.lostFrames + 1 ELSE 0)
<1> DEFINE n == Len(emitted)
           q == Append(emitted, pose)
<1>1. emitted \in Seq(Pose) /\ pose.lostFrames \in Nat
  BY DEF TypeOK, Pose
<1>2. /\ n \in Nat /\ Len(q) = n + 1 /\ q[n + 1] = pose
      /\ \A i \in 1..n : q[i] = emitted[i] /\ emitted[i] \in Pose /\ i \in 1..(n + 1)
      /\ n + 1 \in 1..(n + 1) /\ \A i \in 1..(n + 1) : i \in 1..n \/ i = n + 1
  BY <1>1
<1> HIDE DEF n, q
<1>3. \A i \in 1..n : emitted[i].lostFrames \in Nat
  BY <1>2 DEF Pose
<1>4. \A i \in 1..(n + 1) : q[i].lostFrames \in Nat
  BY <1>1, <1>2, <1>3
<1> DEFINE lost == [i \in 1..n |-> emitted[i].lostFrames]
           more == [i \in 1..(n + 1) |-> q[i].lostFrames]
<1>5. Losses = lost /\ Losses' = more
  BY <1>2 DEF Losses, n, q
<1>6. lost \in Seq(Nat) /\ Len(lost) = n /\ more \in Seq(Nat) /\ Len(more) = n + 1
  <2>1. lost \in [1..n -> Nat] /\ more \in [1..(n + 1) -> Nat] /\ n + 1 \in Nat
    BY <1>2, <1>3, <1>4
  <2> HIDE DEF lost, more
  <2> QED BY <1>2, <2>1, Listed
<1>7. more[n + 1] = pose.lostFrames /\ \A i \in 1..n : more[i] = lost[i]
  BY <1>2
<1>8. Total(more) = Total(lost) + pose.lostFrames
  <2> HIDE DEF lost, more
  <2> QED BY <1>6, <1>7, TotalGrows
<1>9. ASSUME NEW s
      PROVE  Total(ToldOf(s))' = Total(ToldOf(s)) + (IF pose.session = s THEN pose.lostFrames + 1 ELSE 0)
  <2> DEFINE its == [i \in 1..n |-> IF emitted[i].session = s THEN emitted[i].lostFrames + 1 ELSE 0]
             now == [i \in 1..(n + 1) |-> IF q[i].session = s THEN q[i].lostFrames + 1 ELSE 0]
  <2>1. ToldOf(s) = its /\ ToldOf(s)' = now
    BY <1>2 DEF ToldOf, n, q
  <2>2. its \in Seq(Nat) /\ Len(its) = n /\ now \in Seq(Nat) /\ Len(now) = n + 1
    <3>1. its \in [1..n -> Nat] /\ now \in [1..(n + 1) -> Nat] /\ n + 1 \in Nat
      BY <1>2, <1>3, <1>4
    <3> HIDE DEF its, now
    <3> QED BY <1>2, <3>1, Listed
  <2>3. /\ now[n + 1] = IF pose.session = s THEN pose.lostFrames + 1 ELSE 0
        /\ \A i \in 1..n : now[i] = its[i]
    BY <1>2
  <2> HIDE DEF its, now
  <2>4. Total(now) = Total(its) + now[n + 1]
    BY <2>2, <2>3, TotalGrows
  <2>5. Total(ToldOf(s))' = Total(now)
    BY <2>1
  <2> QED BY <2>1, <2>3, <2>4, <2>5
<1>10. Total(Losses)' = Total(more)
  BY <1>5
<1> QED BY <1>5, <1>8, <1>9, <1>10

\* What the sums are taken of are numbers.
LEMMA ToldTypes ==
  ASSUME TypeOK, NEW s
  PROVE  ToldOf(s) \in Seq(Nat) /\ Total(ToldOf(s)) \in Nat
<1> DEFINE n == Len(emitted)
           its == [i \in 1..n |-> IF emitted[i].session = s THEN emitted[i].lostFrames + 1 ELSE 0]
<1>1. n \in Nat /\ \A i \in 1..n : emitted[i] \in Pose
  BY DEF TypeOK
<1>2. \A i \in 1..n : emitted[i].lostFrames \in Nat
  BY <1>1 DEF Pose
<1>3. its \in [1..n -> Nat]
  BY <1>2
<1>4. ToldOf(s) = its
  BY DEF ToldOf
<1> HIDE DEF n, its
<1>5. its \in Seq(Nat) /\ Len(its) = n
  BY <1>1, <1>3, Listed
<1> QED BY <1>4, <1>5, TotalSteps

\* A session without a frame has lost none.
LEMMA NothingTold ==
  ASSUME TypeOK, NEW s, \A i \in 1..Len(emitted) : emitted[i].session # s
  PROVE  Total(ToldOf(s)) = 0
<1> DEFINE n == Len(emitted)
           its == [i \in 1..n |-> 0]
<1>1. n \in Nat
  BY DEF TypeOK
<1>2. ToldOf(s) = its
  BY DEF ToldOf
<1>3. its \in [1..n -> Nat] /\ \A i \in 1..n : its[i] = 0
  OBVIOUS
<1> HIDE DEF n, its
<1>4. its \in Seq(Nat) /\ Len(its) = n
  BY <1>1, <1>3, Listed
<1> QED BY <1>2, <1>3, <1>4, TotalOfNothing

FirstOfItsSession(i) == \A k \in 1..(i - 1) : emitted[k].session # emitted[i].session

\* What the members remember of the session's first frame and its newest.
Remembered ==
  /\ NothingEmitted => lastFrameNumber = None /\ sessionEpoch = None
  /\ ~NothingEmitted =>
       /\ lastFrameNumber # None /\ sessionEpoch # None
       /\ emitted[Len(emitted)].session = session
       /\ lastFrameNumber = emitted[Len(emitted)].frameNumber
  /\ \A i \in 1..Len(emitted) :
       emitted[i].session = session /\ FirstOfItsSession(i) => sessionEpoch = emitted[i].offset

TellInv == Remembered /\ DriftFromTheFirst /\ LossFillsTheGaps

LEMMA InitTells == Init => TellInv
<1> SUFFICES ASSUME Init PROVE TellInv
  OBVIOUS
<1>1. /\ emitted = <<>> /\ Len(emitted) = 0 /\ 1..Len(emitted) = {}
      /\ lastFrameNumber = None /\ sessionEpoch = None /\ framesLost = 0
  BY DEF Init
<1>2. Losses \in Seq(Nat) /\ Len(Losses) = 0
  <2>1. Losses \in [1..0 -> Nat]
    BY <1>1 DEF Losses
  <2> QED BY <2>1, Listed
<1>3. Total(Losses) = 0
  <2>1. \A i \in 1..0 : Losses[i] = 0
    OBVIOUS
  <2> QED BY <1>2, <2>1, TotalOfNothing
<1>4. \A s : OfSession(s) = {}
  BY <1>1 DEF OfSession
<1> QED BY <1>1, <1>3, <1>4 DEF TellInv, Remembered, NothingEmitted, DriftFromTheFirst, LossFillsTheGaps

LEMMA StayTells == ASSUME TellInv, Stay PROVE TellInv'
<1>1. UNCHANGED <<session, emitted, framesLost, lastFrameNumber, sessionEpoch>>
  BY DEF Stay, clocks
<1>2. Remembered'
  BY <1>1 DEF TellInv, Remembered, NothingEmitted, FirstOfItsSession
<1>3. DriftFromTheFirst'
  BY <1>1 DEF TellInv, DriftFromTheFirst
<1>4. LossFillsTheGaps'
  <2>1. Total(Losses)' = Total(Losses) /\ \A s : Total(ToldOf(s))' = Total(ToldOf(s))
    BY <1>1 DEF Losses, ToldOf
  <2>2. \A s : (RoseIn(s)' <=> RoseIn(s)) /\ OfSession(s)' = OfSession(s)
    BY <1>1 DEF RoseIn, OfSession
  <2> QED BY <1>1, <2>1, <2>2 DEF TellInv, LossFillsTheGaps
<1> QED BY <1>2, <1>3, <1>4 DEF TellInv

LEMMA BeginTells == ASSUME TypeOK, IInv, TellInv, Begin PROVE TellInv'
<1>1. /\ session \in Nat /\ session' = session + 1 /\ UNCHANGED <<emitted, framesLost>>
      /\ lastFrameNumber' = None /\ sessionEpoch' = None
  BY DEF Begin, TypeOK, ClockType
<1>2. \A i \in 1..Len(emitted) : emitted[i].session \in Nat /\ emitted[i].session <= session
  <2>1. \A i \in 1..Len(emitted) : emitted[i] \in Pose
    BY DEF TypeOK
  <2>2. \A pose \in Pose : pose.session \in Nat
    BY DEF Pose
  <2> QED BY <2>1, <2>2 DEF IInv, SessionsInv
<1>3. \A i \in 1..Len(emitted) : emitted[i].session # session + 1
  BY <1>1, <1>2
<1>4. Remembered'
  BY <1>1, <1>3 DEF Remembered, NothingEmitted
<1>5. DriftFromTheFirst'
  BY <1>1 DEF TellInv, DriftFromTheFirst
<1>6. LossFillsTheGaps'
  <2>1. \A s \in 0..(session + 1) : s \in 0..session \/ s = session + 1
    BY <1>1
  <2>2. OfSession(session + 1) = {}
    BY <1>3 DEF OfSession
  <2>3. framesLost' = Total(Losses)'
    BY <1>1 DEF TellInv, LossFillsTheGaps, Losses
  <2>4. /\ \A s : RoseIn(s)' = RoseIn(s) /\ OfSession(s)' = OfSession(s)
        /\ \A s : Total(ToldOf(s))' = Total(ToldOf(s))
    BY <1>1 DEF RoseIn, OfSession, ToldOf
  <2>5. ASSUME NEW s \in 0..(session + 1), RoseIn(s), NEW first \in OfSession(s), NEW last \in OfSession(s),
               \A i \in OfSession(s) : first <= i /\ i <= last
        PROVE  Total(ToldOf(s)) = emitted[last].frameNumber - emitted[first].frameNumber + 1
    BY <2>1, <2>2, <2>5 DEF TellInv, LossFillsTheGaps
  <2> QED BY <1>1, <2>3, <2>4, <2>5 DEF LossFillsTheGaps
<1> QED BY <1>4, <1>5, <1>6 DEF TellInv

\* A counter that rose says how many it passed.
LEMMA RisingLoss ==
  ASSUME TypeOK, NEW frame \in Frames, ~Restarts(frame), lastFrameNumber # None,
         lastFrameNumber < frame.frameNumber
  PROVE  Lost(frame) = frame.frameNumber - lastFrameNumber - 1
<1> DEFINE number == frame.frameNumber
<1>1. /\ number \in Nat /\ lastFrameNumber \in Nat /\ Width \in Nat \ {0}
      /\ number < Width
  <2>1. number \in Numbers /\ lastFrameNumber \in Numbers
    BY DEF Frames, TypeOK, ClockType
  <2> QED BY <2>1, SizesAssumption DEF Numbers
<1>2. \A k \in Nat : k < Width => k % Width = k
  BY <1>1
<1>3. (lastFrameNumber + 1) % Width = lastFrameNumber + 1
  BY <1>1, <1>2
<1>4. (number - lastFrameNumber - 1) % Width = number - lastFrameNumber - 1
  <2>1. number - lastFrameNumber - 1 \in Nat /\ number - lastFrameNumber - 1 < Width
    BY <1>1
  <2> HIDE DEF number
  <2> QED BY <1>2, <2>1
<1>5. LastNumber(frame) = lastFrameNumber
  BY DEF LastNumber
<1> QED BY <1>1, <1>3, <1>4, <1>5 DEF Lost

LEMMA DeliverTells ==
  ASSUME TypeOK, IInv, TellInv, NEW frame \in Frames, Deliver(frame)
  PROVE  TellInv'
<1> DEFINE n == Len(emitted)
<1>1. PICK pose \in Pose :
        /\ emitted' = Append(emitted, pose)
        /\ pose.session = session
        /\ pose.offset = frame.offset /\ pose.clockDrift = frame.offset - Epoch(frame)
        /\ pose.frameNumber = frame.frameNumber /\ pose.lostFrames = Lost(frame)
  BY DEF Deliver
<1>2. /\ emitted \in Seq(Pose) /\ session \in Nat /\ frame.offset \in Int /\ frame.frameNumber \in Nat
      /\ frame.frameNumber # None
  BY ClocksAssumption, NumbersAreNaturals DEF TypeOK, ClockType, Frames
<1>3. /\ n \in Nat /\ Len(emitted') = n + 1 /\ emitted'[n + 1] = pose
      /\ \A i \in 1..n : emitted'[i] = emitted[i] /\ emitted[i] \in Pose /\ i \in 1..(n + 1) /\ i < n + 1
      /\ n + 1 \in 1..(n + 1) /\ \A i \in 1..(n + 1) : i \in 1..n \/ i = n + 1
      /\ \A i \in 1..(n + 1) : \A k \in 1..(i - 1) : k \in 1..n
      /\ n > 0 => n \in 1..n
  BY <1>1, <1>2
<1>4. /\ session' = session /\ lastFrameNumber' = frame.frameNumber
      /\ framesLost' = framesLost + Lost(frame) /\ sessionEpoch' = Epoch(frame)
      /\ ~Restarts(frame)
  BY DEF Deliver
<1>5. Epoch(frame) \in Int /\ Epoch(frame) # None
  <2>1. sessionEpoch \in Int \cup {None}
    BY DEF TypeOK, ClockType
  <2> QED BY <1>2, <2>1, ClocksAssumption DEF Epoch
<1> HIDE DEF n
<1>6. ~NothingEmitted'
  BY <1>1, <1>3, <1>4 DEF NothingEmitted
<1>7. \A i \in 1..n : FirstOfItsSession(i)' = FirstOfItsSession(i)
  BY <1>3 DEF FirstOfItsSession
<1>8. ASSUME NEW i \in 1..(n + 1), i = n + 1 PROVE FirstOfItsSession(i)' <=> NothingEmitted
  <2>1. 1..(i - 1) = 1..n
    BY <1>3, <1>8
  <2>2. NothingEmitted <=> \A k \in 1..n : emitted[k].session # session
    BY DEF NothingEmitted, n
  <2>3. \A k \in 1..n : emitted'[k] = emitted[k]
    BY <1>3
  <2>4. FirstOfItsSession(i)' <=> \A k \in 1..n : emitted'[k].session # emitted'[i].session
    BY <2>1 DEF FirstOfItsSession
  <2> QED BY <1>1, <1>3, <1>8, <2>2, <2>3, <2>4
<1>9. Remembered'
  <2>1. ASSUME NEW i \in 1..(n + 1), emitted'[i].session = session, FirstOfItsSession(i)'
        PROVE  Epoch(frame) = emitted'[i].offset
    <3>1. CASE i = n + 1
      <4>1. NothingEmitted
        BY <1>8, <2>1, <3>1
      <4> QED BY <1>1, <1>3, <3>1, <4>1 DEF TellInv, Remembered, Epoch
    <3>2. CASE i \in 1..n
      <4>1. emitted[i].session = session /\ FirstOfItsSession(i)
        BY <1>3, <1>7, <2>1, <3>2
      <4>2. ~NothingEmitted
        BY <3>2, <4>1 DEF NothingEmitted, n
      <4>3. sessionEpoch # None /\ sessionEpoch = emitted[i].offset
        BY <3>2, <4>1, <4>2 DEF TellInv, Remembered, n
      <4> QED BY <1>3, <3>2, <4>3 DEF Epoch
    <3> QED BY <1>3, <3>1, <3>2
  <2> QED BY <1>1, <1>2, <1>3, <1>4, <1>5, <1>6, <2>1 DEF Remembered
<1>10. DriftFromTheFirst'
  <2> SUFFICES ASSUME NEW i \in 1..(n + 1), NEW j \in 1..(n + 1), i <= j,
                      emitted'[i].session = emitted'[j].session, FirstOfItsSession(i)'
               PROVE  emitted'[j].clockDrift = emitted'[j].offset - emitted'[i].offset
    BY <1>3 DEF DriftFromTheFirst, FirstOfItsSession
  <2>1. CASE j = n + 1
    <3>1. emitted'[i].session = session
      BY <1>1, <1>3, <2>1
    <3>2. Epoch(frame) = emitted'[i].offset
      BY <1>3, <1>4, <1>9, <3>1 DEF Remembered
    <3> QED BY <1>1, <1>3, <2>1, <3>2
  <2>2. CASE j \in 1..n
    <3>1. i \in 1..n
      BY <1>3, <2>2
    <3>2. emitted[i].session = emitted[j].session /\ FirstOfItsSession(i)
      BY <1>3, <1>7, <2>2, <3>1
    <3>3. emitted[j].clockDrift = emitted[j].offset - emitted[i].offset
      BY <2>2, <3>1, <3>2 DEF TellInv, DriftFromTheFirst, FirstOfItsSession, n
    <3> QED BY <1>3, <2>2, <3>1, <3>3
  <2> QED BY <1>3, <2>1, <2>2
<1>11. LossFillsTheGaps'
  <2>1. /\ Total(Losses)' = Total(Losses) + Lost(frame)
        /\ \A s : Total(ToldOf(s))' = Total(ToldOf(s)) + (IF s = session THEN Lost(frame) + 1 ELSE 0)
    BY <1>1, PoseAdds
  <2>2. framesLost' = Total(Losses)'
    BY <1>4, <2>1 DEF TellInv, LossFillsTheGaps
  <2>3. \A s : OfSession(s) \subseteq 1..n
    BY DEF OfSession, n
  <2>4. \A s : OfSession(s)' = OfSession(s) \cup (IF s = session THEN {n + 1} ELSE {})
    BY <1>1, <1>3 DEF OfSession, n
  <2>5. \A s : RoseIn(s)' => RoseIn(s)
    BY <1>3, <2>3, <2>4 DEF RoseIn
  <2>6. \A s \in 0..session : s # session => \A first, last \in OfSession(s) :
          emitted'[first] = emitted[first] /\ emitted'[last] = emitted[last]
    BY <1>3, <2>3
  <2>7. ASSUME NEW s \in 0..session, RoseIn(s)', NEW first \in OfSession(s)', NEW last \in OfSession(s)',
               \A i \in OfSession(s)' : first <= i /\ i <= last
        PROVE  Total(ToldOf(s))' = emitted'[last].frameNumber - emitted'[first].frameNumber + 1
    <3>1. CASE s # session
      <4>1. /\ OfSession(s)' = OfSession(s) /\ RoseIn(s)
            /\ emitted'[first] = emitted[first] /\ emitted'[last] = emitted[last]
        BY <1>3, <2>3, <2>4, <2>5, <2>7, <3>1
      <4>2. ToldOf(s) \in Seq(Nat) /\ Total(ToldOf(s)) \in Nat
        BY ToldTypes
      <4>3. Total(ToldOf(s)) = emitted[last].frameNumber - emitted[first].frameNumber + 1
        BY <2>7, <4>1 DEF TellInv, LossFillsTheGaps
      <4>4. Total(ToldOf(s))' = Total(ToldOf(s))
        BY <2>1, <3>1, <4>2
      <4> QED BY <4>1, <4>3, <4>4
    <3>2. CASE s = session
      <4>1. last = n + 1 /\ emitted'[last] = pose
        <5>1. n + 1 \in OfSession(s)' /\ OfSession(s)' \subseteq 1..(n + 1)
          BY <1>3, <2>3, <2>4, <3>2
        <5> QED BY <1>3, <2>7, <5>1
      <4>2. Lost(frame) \in Nat
        BY LostIsNatural
      <4>3. CASE NothingEmitted
        <5>1. OfSession(s) = {} /\ first = n + 1
          BY <2>4, <3>2, <4>3 DEF OfSession, NothingEmitted
        <5>2. Total(ToldOf(s)) = 0
          BY <3>2, <4>3, NothingTold DEF NothingEmitted
        <5>3. lastFrameNumber = None
          BY <4>3 DEF TellInv, Remembered
        <5>4. Lost(frame) = 0
          BY <1>4, <5>3 DEF Lost, LastNumber
        <5> QED BY <1>1, <1>2, <2>1, <3>2, <4>1, <5>1, <5>2, <5>4, <1>3
      <4>4. CASE ~NothingEmitted
        <5>1. /\ lastFrameNumber # None /\ emitted[n].session = session
              /\ lastFrameNumber = emitted[n].frameNumber
          BY <4>4 DEF TellInv, Remembered, n
        <5>2. n \in 1..n
          <6>1. 1..n # {}
            BY <4>4 DEF NothingEmitted, n
          <6> QED BY <1>3, <6>1
        <5>3. n \in OfSession(s)
          BY <3>2, <5>1, <5>2 DEF OfSession, n
        <5>4. first \in OfSession(s)
          <6>1. n \in OfSession(s)' /\ n < n + 1
            BY <1>3, <2>4, <5>3
          <6>2. first # n + 1
            BY <1>3, <2>7, <6>1
          <6> QED BY <2>4, <3>2, <6>2
        <5>5. \A i \in OfSession(s) : first <= i /\ i <= n
          BY <1>3, <2>3, <2>4, <2>7
        <5>6. Total(ToldOf(s)) = emitted[n].frameNumber - emitted[first].frameNumber + 1
          BY <2>5, <2>7, <5>3, <5>4, <5>5 DEF TellInv, LossFillsTheGaps
        <5>7. emitted[n].frameNumber < frame.frameNumber
          <6>1. n \in OfSession(s)' /\ n + 1 \in OfSession(s)' /\ n < n + 1
            BY <1>3, <2>4, <3>2, <5>3
          <6>2. emitted'[n].frameNumber < emitted'[n + 1].frameNumber
            BY <2>7, <6>1 DEF RoseIn
          <6> QED BY <1>1, <1>3, <5>2, <6>2
        <5>8. Lost(frame) = frame.frameNumber - lastFrameNumber - 1
          BY <1>4, <5>1, <5>7, RisingLoss
        <5>9. emitted[first].frameNumber \in Nat /\ emitted[n].frameNumber \in Nat /\ emitted'[first] = emitted[first]
          <6>1. first \in 1..n
            BY <2>3, <5>4
          <6>2. emitted[first] \in Pose /\ emitted[n] \in Pose /\ emitted'[first] = emitted[first]
            BY <1>3, <5>2, <6>1
          <6>3. \A p \in Pose : p.frameNumber \in Nat
            BY NumbersAreNaturals DEF Pose
          <6> QED BY <6>2, <6>3
        <5>10. Total(ToldOf(s))' = Total(ToldOf(s)) + Lost(frame) + 1
          <6>1. Total(ToldOf(s)) \in Nat
            BY ToldTypes
          <6> QED BY <2>1, <3>2, <4>2, <6>1
        <5>11. emitted'[last].frameNumber = frame.frameNumber
          BY <1>1, <4>1
        <5>12. Total(ToldOf(s))' = frame.frameNumber - emitted[first].frameNumber + 1
          <6> DEFINE now == frame.frameNumber
                     was == emitted[n].frameNumber
                     began == emitted[first].frameNumber
          <6>1. now \in Nat /\ was \in Nat /\ began \in Nat
            BY <1>2, <5>9
          <6>2. Total(ToldOf(s))' = (was - began + 1) + (now - was - 1) + 1
            BY <5>1, <5>6, <5>8, <5>10
          <6> HIDE DEF now, was, began
          <6>3. (was - began + 1) + (now - was - 1) + 1 = now - began + 1
            BY <6>1
          <6> QED BY <6>2, <6>3 DEF now, began
        <5> QED BY <5>9, <5>11, <5>12
      <4> QED BY <4>3, <4>4
    <3> QED BY <3>1, <3>2
  <2> QED BY <1>4, <2>2, <2>7 DEF LossFillsTheGaps
<1> QED BY <1>9, <1>10, <1>11 DEF TellInv

\* _PushFrame: the drift of every frame is measured from the first of its session,
\* and the frames of a session whose counter rose, with those counted lost between
\* them, are the numbers from its first to its last, whatever was refused between.
THEOREM PosesTell == Spec => []PosesTellTheirStream
<1>1. TypeOK /\ IInv /\ TellInv /\ [Next]_vars => TellInv'
  BY Shapes, StayTells, BeginTells, DeliverTells
<1>2. TellInv => PosesTellTheirStream
  BY DEF TellInv, PosesTellTheirStream
<1> QED BY <1>1, <1>2, InitTells, InductiveInvariant, PTL DEF Spec
=============================================================================
