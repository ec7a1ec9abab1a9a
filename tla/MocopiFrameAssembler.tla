------------------------ MODULE MocopiFrameAssembler ------------------------
(***************************************************************************)
(* motionConnectorMocopi's MocopiFrameAssembler (libs/motionConnectorMocopi*)
(* /src/FrameAssembler.cpp).  One datagram is one frame here, so nothing   *)
(* is open between two of them: the class decides whether a frame was      *)
(* delivered twice, goes back, or begins another session, and which rig it *)
(* is read through.  Each Push is one action.                              *)
(*                                                                         *)
(* The decoder refuses a stream clock that is not finite or negative, so   *)
(* clock readings are naturals.  The sender's absolute clock is carried as *)
(* its distance from the stream clock.  A rig stands for the rest offsets  *)
(* MakeSkeletonMap kept; the bones it maps are the same for every rig it   *)
(* accepts.                                                                *)
(***************************************************************************)
EXTENDS Integers, FiniteSets, SequencesExt

CONSTANTS
  Bones,             \* the canonical bones every accepted rig declares
  Formed,            \* the sets of them MapMotionFrame may form from a frame
  Rigs,              \* what accepted skeleton packets declare
  Width,             \* the frame counter is a number modulo Width, 2^32 in the code
  Times,             \* stream clock readings
  Offsets,           \* sender clock less stream clock
  RestartBackwards,  \* restartBackwardsSeconds, 0 is off
  None,              \* an empty std::optional, or no rig
  MaxPackets         \* bound: packets in a behaviour

Numbers == 0..(Width - 1)

ASSUME RigAssumption == Formed \subseteq SUBSET Bones /\ None \notin Rigs
ASSUME ClocksAssumption ==
  Times \subseteq Nat /\ Offsets \subseteq Int /\ RestartBackwards \in Nat /\ None \notin Int
ASSUME SizesAssumption == Width \in Nat \ {0} /\ MaxPackets \in Nat

VARIABLES
  rig,                \* _map and _hasMap
  reportedNoRig,      \* _reportedNoRig
  lastStreamSeconds, lastFrameNumber,
  sessionEpoch,       \* _sessionEpoch
  pendingNewSession,  \* _pendingNewSession
  framesRefusedOutOfOrder, framesRefusedNoRig, framesRefusedEmpty, framesIncomplete,
  framesLost, sessionRestarts, skeletonsRefused,
  emitted,            \* history: the frames appended to `frames`, oldest first
  declared,           \* history: <<session, rig>> of every accepted skeleton
  session,            \* history: restarts and Resets so far
  restarted,          \* history: the sessions a restart began
  heard,              \* history: <<number, time>> of this session's frame packets
  dark,               \* history: frames refused for want of a rig, this session
  told,               \* history: how often that was reported, this session
  packets             \* history: packets so far

rigState == <<rig, reportedNoRig>>
clocks == <<lastStreamSeconds, lastFrameNumber, sessionEpoch>>
refusals == <<framesRefusedOutOfOrder, framesRefusedNoRig, framesRefusedEmpty>>
deliveries == <<framesIncomplete, framesLost, emitted>>
history == <<declared, session, restarted, heard, dark, told, packets>>
vars == <<rigState, clocks, pendingNewSession, refusals, deliveries, sessionRestarts,
          skeletonsRefused, history>>

Init ==
  /\ rig = None /\ reportedNoRig = FALSE
  /\ lastStreamSeconds = None /\ lastFrameNumber = None /\ sessionEpoch = None
  /\ pendingNewSession = FALSE
  /\ framesRefusedOutOfOrder = 0 /\ framesRefusedNoRig = 0 /\ framesRefusedEmpty = 0
  /\ framesIncomplete = 0 /\ framesLost = 0 /\ emitted = <<>>
  /\ sessionRestarts = 0 /\ skeletonsRefused = 0
  /\ declared = {} /\ session = 0 /\ restarted = {} /\ heard = {}
  /\ dark = 0 /\ told = 0 /\ packets = 0

Packet == packets < MaxPackets /\ packets' = packets + 1

-----------------------------------------------------------------------------
(* _PushSkeleton                                                            *)

SkeletonAccepted(skeleton) ==
  /\ Packet
  /\ rig' = skeleton
  /\ reportedNoRig' = FALSE
  /\ declared' = declared \cup {<<session, skeleton>>}
  /\ UNCHANGED <<clocks, pendingNewSession, refusals, deliveries, sessionRestarts,
                 skeletonsRefused, session, restarted, heard, dark, told>>

\* The rig of the session stands.
SkeletonRefused ==
  /\ Packet
  /\ skeletonsRefused' = skeletonsRefused + 1
  /\ UNCHANGED <<rigState, clocks, pendingNewSession, refusals, deliveries, sessionRestarts,
                 declared, session, restarted, heard, dark, told>>

-----------------------------------------------------------------------------
(* _PushFrame.  A frame packet is a record                                  *)
(*   [frameNumber, streamSeconds, offset, bones].                           *)

Repeated(frame) == lastFrameNumber # None /\ frame.frameNumber = lastFrameNumber

\* Fault: an equal clock is taken for an advance.
RegressesStrictly(frame) ==
  lastStreamSeconds # None /\ frame.streamSeconds < lastStreamSeconds

Regresses(frame) == lastStreamSeconds # None /\ frame.streamSeconds <= lastStreamSeconds

CounterBackwards(frame) == lastFrameNumber # None /\ frame.frameNumber < lastFrameNumber

ClockRestarted(frame) ==
  /\ RestartBackwards > 0
  /\ lastStreamSeconds - frame.streamSeconds > RestartBackwards

Restarts(frame) ==
  /\ ~Repeated(frame) /\ Regresses(frame)
  /\ CounterBackwards(frame) \/ ClockRestarted(frame)

\* Fault: the rig survives a restart.
RigSurvives(frame) == rig

\* Fault: the report already made is not looked at.
ReportedNever(frame) == FALSE

\* _ForgetSession, as the rest of _PushFrame sees it.
Rig(frame) == IF Restarts(frame) THEN None ELSE rig
ReportedNoRig(frame) == IF Restarts(frame) THEN FALSE ELSE reportedNoRig
LastNumber(frame) == IF Restarts(frame) THEN None ELSE lastFrameNumber

\* What a restart does, whatever becomes of the frame that showed it.
BeginSession(frame) ==
  IF Restarts(frame)
  THEN /\ sessionRestarts' = sessionRestarts + 1
       /\ session' = session + 1
       /\ restarted' = restarted \cup {session'}
       /\ heard' = {<<frame.frameNumber, frame.streamSeconds>>}
  ELSE /\ heard' = heard \cup {<<frame.frameNumber, frame.streamSeconds>>}
       /\ UNCHANGED <<sessionRestarts, session, restarted>>

ForgetClocks(frame) ==
  IF Restarts(frame)
  THEN lastStreamSeconds' = None /\ lastFrameNumber' = None /\ sessionEpoch' = None
  ELSE UNCHANGED clocks

\* Either a delivery repeated or a clock that does not advance.
OutOfOrder(frame) ==
  /\ Repeated(frame) \/ Regresses(frame)
  /\ ~Restarts(frame)
  /\ framesRefusedOutOfOrder' = framesRefusedOutOfOrder + 1
  /\ UNCHANGED <<rigState, clocks, pendingNewSession, framesRefusedNoRig, framesRefusedEmpty,
                 deliveries, dark, told>>

InOrder(frame) == ~Repeated(frame) /\ (Regresses(frame) => Restarts(frame))

RefuseNoRig(frame) ==
  /\ InOrder(frame) /\ Rig(frame) = None
  /\ framesRefusedNoRig' = framesRefusedNoRig + 1
  /\ rig' = None /\ reportedNoRig' = TRUE
  /\ pendingNewSession' = (pendingNewSession \/ Restarts(frame))
  /\ ForgetClocks(frame)
  /\ dark' = (IF Restarts(frame) THEN 0 ELSE dark) + 1
  /\ told' = (IF Restarts(frame) THEN 0 ELSE told) + (IF ReportedNoRig(frame) THEN 0 ELSE 1)
  /\ UNCHANGED <<framesRefusedOutOfOrder, framesRefusedEmpty, deliveries>>

\* MapMotionFrame formed no bone.
RefuseEmpty(frame) ==
  /\ InOrder(frame) /\ Rig(frame) # None /\ frame.bones = {}
  /\ framesRefusedEmpty' = framesRefusedEmpty + 1
  /\ UNCHANGED <<rigState, clocks, pendingNewSession, framesRefusedOutOfOrder, framesRefusedNoRig,
                 deliveries, dark, told>>

\* Fault: signed arithmetic, and any difference is a gap.
LostUnguarded(frame) ==
  IF lastFrameNumber # None THEN frame.frameNumber - lastFrameNumber - 1 ELSE 0

\* Fault: the frame itself is counted among the lost.
LostInclusive(frame) ==
  IF lastFrameNumber # None /\ frame.frameNumber > (lastFrameNumber + 1) % Width
  THEN (frame.frameNumber - lastFrameNumber) % Width ELSE 0

\* Unsigned arithmetic of the counter's width.
Lost(frame) ==
  IF LastNumber(frame) # None /\ frame.frameNumber > (LastNumber(frame) + 1) % Width
  THEN (frame.frameNumber - LastNumber(frame) - 1) % Width ELSE 0

\* Fault: the drift is measured from the frame before.
EpochOfEachFrame(frame) == frame.offset

\* The first accepted frame of a session fixes the offset of the two clocks.
Epoch(frame) == IF sessionEpoch = None THEN frame.offset ELSE sessionEpoch

\* Fault: only a frame that itself shows the restart begins the session.
BeginsWhenSeen(frame) == Restarts(frame)

BeginsNewSession(frame) == pendingNewSession \/ Restarts(frame)

Emit(frame) ==
  /\ InOrder(frame) /\ Rig(frame) # None /\ frame.bones # {}
  /\ emitted' = Append(emitted, [timestamp |-> frame.streamSeconds,
                                 frameNumber |-> frame.frameNumber,
                                 offset |-> frame.offset,
                                 clockDrift |-> frame.offset - Epoch(frame),
                                 lostFrames |-> Lost(frame),
                                 missing |-> Bones \ frame.bones,
                                 rig |-> Rig(frame),
                                 beginsNewSession |-> BeginsNewSession(frame),
                                 session |-> session'])
  /\ framesLost' = framesLost + Lost(frame)
  /\ framesIncomplete' = IF frame.bones = Bones THEN framesIncomplete ELSE framesIncomplete + 1
  /\ lastStreamSeconds' = frame.streamSeconds
  /\ lastFrameNumber' = frame.frameNumber
  /\ sessionEpoch' = Epoch(frame)
  /\ pendingNewSession' = FALSE
  /\ UNCHANGED <<rigState, refusals, dark, told>>

PushFrame(frame) ==
  /\ Packet
  /\ BeginSession(frame)
  /\ OutOfOrder(frame) \/ RefuseNoRig(frame) \/ RefuseEmpty(frame) \/ Emit(frame)
  /\ UNCHANGED <<declared, skeletonsRefused>>

\* The tallies survive. (The guard leaves out the Resets that change nothing.)
Reset ==
  /\ rig # None \/ reportedNoRig \/ pendingNewSession
  /\ rig' = None /\ reportedNoRig' = FALSE
  /\ lastStreamSeconds' = None /\ lastFrameNumber' = None /\ sessionEpoch' = None
  /\ pendingNewSession' = FALSE
  /\ session' = session + 1
  /\ heard' = {} /\ dark' = 0 /\ told' = 0
  /\ UNCHANGED <<refusals, deliveries, sessionRestarts, skeletonsRefused,
                 declared, restarted, packets>>

Frames == [frameNumber : Numbers, streamSeconds : Times, offset : Offsets,
           bones : Formed]

Next ==
  \/ \E skeleton \in Rigs : SkeletonAccepted(skeleton)
  \/ SkeletonRefused
  \/ \E frame \in Frames : PushFrame(frame)
  \/ Reset

Spec == Init /\ [][Next]_vars

-----------------------------------------------------------------------------

Pose == [timestamp : Nat, frameNumber : Numbers, offset : Int, clockDrift : Int,
         lostFrames : Nat, missing : SUBSET Bones, rig : Rigs,
         beginsNewSession : BOOLEAN, session : Nat]

RigType ==
  /\ rig \in Rigs \cup {None} /\ reportedNoRig \in BOOLEAN
  /\ declared \subseteq Nat \X Rigs
  /\ dark \in Nat /\ told \in Nat

ClockType ==
  /\ lastStreamSeconds \in Nat \cup {None} /\ lastFrameNumber \in Numbers \cup {None}
  /\ sessionEpoch \in Int \cup {None}
  /\ pendingNewSession \in BOOLEAN
  /\ session \in Nat /\ restarted \subseteq Nat
  /\ heard \subseteq Numbers \X Nat

TallyType ==
  /\ framesRefusedOutOfOrder \in Nat /\ framesRefusedNoRig \in Nat
  /\ framesRefusedEmpty \in Nat /\ framesIncomplete \in Nat /\ framesLost \in Nat
  /\ sessionRestarts \in Nat /\ skeletonsRefused \in Nat
  /\ packets \in 0..MaxPackets

\* The members of the assembler, and the frames handed out, keep their types.
TypeOK == RigType /\ ClockType /\ TallyType /\ emitted \in Seq(Pose)

\* Within a session the emitted timestamps strictly increase, whatever was
\* duplicated or reordered on the way (the two refusals of _PushFrame).
StreamAdvances ==
  \A i, j \in 1..Len(emitted) :
    (i < j /\ emitted[i].session = emitted[j].session) =>
      emitted[i].timestamp < emitted[j].timestamp

\* A restart is announced on the first frame emitted after it, however many
\* frames were refused between, on no later one, and never after a Reset.
RestartsAnnounced ==
  \A j \in 1..Len(emitted) :
    emitted[j].beginsNewSession <=>
      /\ emitted[j].session \in restarted
      /\ \A i \in 1..(j - 1) : emitted[i].session # emitted[j].session

\* No frame is read through the rig of an earlier session: what it is measured
\* against was declared by a skeleton packet of its own.
RigOfItsSession ==
  \A i \in 1..Len(emitted) : <<emitted[i].session, emitted[i].rig>> \in declared

\* The drift of a frame is measured from the first frame of its session.
DriftFromTheFirst ==
  \A i, j \in 1..Len(emitted) :
    (/\ i <= j /\ emitted[i].session = emitted[j].session
     /\ \A k \in 1..(i - 1) : emitted[k].session # emitted[j].session) =>
      emitted[j].clockDrift = emitted[j].offset - emitted[i].offset

\* A session without a rig is reported when its first frame is refused, and not
\* again before the next such session.
DarkSessionToldOnce == told = IF dark = 0 THEN 0 ELSE 1

\* What the assembler promises of every state, and is proved to keep.
AssemblerInvariant ==
  /\ TypeOK /\ StreamAdvances /\ RestartsAnnounced /\ RigOfItsSession
  /\ DarkSessionToldOnce

\* Where the counter rose throughout a session, its frames and the ones counted
\* lost between them are exactly the numbers from its first to its last.
OfSession(s) == {i \in 1..Len(emitted) : emitted[i].session = s}

RoseIn(s) == \A i, j \in OfSession(s) : i < j => emitted[i].frameNumber < emitted[j].frameNumber

Total(numbers) == FoldLeft(LAMBDA sum, number : sum + number, 0, numbers)

Losses == [i \in 1..Len(emitted) |-> emitted[i].lostFrames]

\* What each frame accounts for of session s: itself and the ones lost before it.
ToldOf(s) == [i \in 1..Len(emitted) |->
                IF emitted[i].session = s THEN emitted[i].lostFrames + 1 ELSE 0]

LossFillsTheGaps ==
  /\ framesLost = Total(Losses)
  /\ \A s \in 0..session : RoseIn(s) =>
       \A first, last \in OfSession(s) :
         (\A i \in OfSession(s) : first <= i /\ i <= last) =>
           Total(ToldOf(s)) = emitted[last].frameNumber - emitted[first].frameNumber + 1

\* What a pose tells of its stream, its drift and its gap, adds up.
PosesTellTheirStream == DriftFromTheFirst /\ LossFillsTheGaps

-----------------------------------------------------------------------------
(* What the comments say and the code does not do.                          *)

\* The header: lostFrames are "datagrams the transport lost" before the frame.
\* No number counted lost was heard in the session of the frame.
LostWereNeverHeard ==
  [][framesLost' > framesLost =>
       \A number \in (lastFrameNumber + 1)..(lastFrameNumber' - 1) :
         \A h \in heard : h[1] # number]_vars

\* _PushFrame: "a duplicate arriving before any skeleton packet is still reported
\* as a duplicate rather than as a missing rig".
DuplicateBeforeTheRig ==
  [][(framesRefusedNoRig' > framesRefusedNoRig /\ session' = session) => heard' # heard]_vars
=============================================================================
