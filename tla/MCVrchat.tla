------------------------------- MODULE MCVrchat -------------------------------
(***************************************************************************)
(* VRChat OSC trackers from the message to the trace: TrackerMessage decodes,  *)
(* VrchatOscFrameAssembler makes frames, TrackerSolve makes poses of them.     *)
(* Each takes the layer below as an arbitrary input, so a behaviour is one of  *)
(* theirs: the variable part says which, and the others stay as they begin.    *)
(* The assembler is explored twice, with peers and resets ("sessions") and,    *)
(* with one peer that sends more, for its silences ("silence").                *)
(***************************************************************************)
EXTENDS VrchatOscFrameAssembler, SequencesExt

CONSTANTS
  Parts,                                             \* the components a run explores
  Head1, Head2,
  OscPackets, HeadName, Channels, MinTrackerIndex, MaxTrackerIndex, MaxDigits, NaN,
  HumanJointParent, RegionJoint, Unplaceable, Specs, Frames, MaxFrames

VARIABLES
  part,
  packet, seen, decoded, refusals, unsupported,
  spec, authorRootMotion, observed, assignment, solve, sessions, hips, closed, space, frames,
  held

messageVars == <<packet, seen, decoded, refusals, unsupported>>
solveVars == <<spec, authorRootMotion, observed, assignment, solve, sessions, hips, closed,
               space, frames, held>>
mcVars == <<part, vars, messageVars, solveVars>>

-----------------------------------------------------------------------------
(* Packets for the assembler.                                               *)

At(tracker, place) == [tracker |-> tracker, channel |-> "position", value |-> place]
Turned(tracker) == [tracker |-> tracker, channel |-> "rotation", value |-> 0]
Refused(tracker) == [tracker |-> tracker, channel |-> "position", value |-> NotFinite]
Unread(tracker) == [tracker |-> tracker, channel |-> "other", value |-> 0]

\* Absences: one tracker always there, one that comes and goes.
SilencePackets == {<<Turned(Head1)>>, <<Turned(Head1), Turned(Head2)>>}

\* Sessions: packets that open a frame, and ones that carry nothing accepted.
SessionPackets ==
  {<<Turned(Head1), Turned(Head1)>>, <<At(Head1, 0), At(Head2, 0)>>, <<At(Head1, 2), At(Head2, 2)>>,
   <<Refused(Head2), Unread(Head1)>>}

Silences == INSTANCE VrchatOscFrameAssembler
             WITH Packets <- SilencePackets, Peers <- {}, Advances <- {1, 2},
                  MaxPackets <- 6, MaxResets <- 0

-----------------------------------------------------------------------------
(* OSC packets of up to two messages: every segment of up to three characters *)
(* out of 0, 1, 8 and a letter, and every other fault once.                   *)

Messages == INSTANCE TrackerMessage WITH Packets <- OscPackets, messages <- decoded

ASSUME MessageAssumption == Messages!PacketAssumption

HeadSegment == <<17, 14>>

Segments == UNION {[1..n -> {0, 1, 8, 17}] : n \in 0..3}
              \cup {HeadSegment, <<9>>, <<0, 0, 0, 1>>, <<1, 1, 1, 1>>}

Position == <<25>>
Rotation == <<27>>
BothChannels == {Position, Rotation}

Osc(prefix, segments, tags, arguments) ==
  [prefix |-> prefix, segments |-> segments, tags |-> tags, arguments |-> arguments]

F3 == <<"f", "f", "f">>

Good == {Osc(TRUE, <<s, c>>, F3, <<1, 2, 3>>) : s \in Segments, c \in {Position, Rotation}}

Odd == {Osc(FALSE, <<<<1>>, Position>>, F3, <<1, 2, 3>>),
        Osc(TRUE, <<<<1>>>>, F3, <<1, 2, 3>>),
        Osc(TRUE, <<<<1>>, Position, <<>>>>, F3, <<1, 2, 3>>),
        Osc(TRUE, <<<<1>>, <<26>>>>, F3, <<1, 2, 3>>),
        Osc(TRUE, <<<<1>>, Position>>, <<"f", "f">>, <<1, 2>>),
        Osc(TRUE, <<<<1>>, Position>>, <<"f", "f">>, <<1, 2, 3>>),
        Osc(TRUE, <<<<1>>, Position>>, <<"f", "f", "d">>, <<1, 2, 3>>),
        Osc(TRUE, <<<<1>>, Rotation>>, F3, <<1, NaN, 3>>)}

SomePackets ==
  {<<a, b>> : a \in Good \cup Odd, b \in {g \in Good : g.segments[2] = Position} \cup Odd}
  \cup {<<>>}

-----------------------------------------------------------------------------
(* Hips, spine, chest, head; a knee that is no joint; a tracker nobody stated. *)

Solve == INSTANCE TrackerSolve WITH ReopensAfterClose <- FALSE

ASSUME SolveAssumption == Solve!JointAssumption /\ Solve!InputAssumption

Parents == [j \in 0..3 |-> j - 1]
Placement == [r \in {"hips", "chest", "head", "knee"} |->
  CASE r = "hips" -> 0 [] r = "chest" -> 2 [] r = "head" -> 3 [] r = "knee" -> Unplaceable]

State(t, r) == [tracker |-> t, region |-> r]
Rig == <<State("c", "chest"), State("h", "hips"), State("t", "head")>>

Stated(unplaced) == [statements |-> Rig, unplaced |-> unplaced]
SomeSpecs ==
  {Stated(p) : p \in {"refuse", "ignore", "hold"}}
  \cup {[statements |-> <<State("h", "knee"), State("t", "head")>>, unplaced |-> "ignore"],
        [statements |-> <<State("h", "hips"), State("h", "head")>>, unplaced |-> "ignore"]}

Turn == <<2, 1, 3>>
Tilt == <<1, 3, 2>>

\* TrackerSolve's absent and broken halves of an observation.
Neither == <<>>
BadTurn == <<0>>
Nowhere == 0
BadPlace == -1

Tracker(t, r, p) == [tracker |-> t, rotation |-> r, position |-> p]

Hip == {Tracker("h", Turn, Nowhere), Tracker("h", Neither, 3)}
Chest == {Tracker("c", r, Nowhere) : r \in {Neither, Turn}}
Top == Tracker("t", Tilt, Nowhere)

SomeFrames ==
  {<<a, b, Top>> : a \in Hip, b \in Chest} \cup {<<b, Top>> : b \in Chest}
  \cup {<<Top, Tracker("h", Tilt, 3)>>, <<Tracker("h", Turn, 3), Tracker("t", Neither, Nowhere)>>, <<>>}
  \cup {<<Tracker("h", BadTurn, 3)>>,
        <<Tracker("h", Turn, BadPlace), Tracker("c", Turn, Nowhere)>>,
        <<Tracker("h", Turn, 1), Tracker("x", Tilt, 1)>>,
        <<Tracker("h", Turn, 1), Tracker("h", Tilt, 1)>>,
        <<Tracker("", Turn, 1), Tracker("t", Tilt, 1)>>}

-----------------------------------------------------------------------------

MCInit ==
  /\ part \in Parts
  /\ Init
  /\ IF part = "message" THEN Messages!Init ELSE Messages!InitOf(<<>>)
  /\ IF part = "solve" THEN Solve!Init ELSE Solve!InitOf(Stated("refuse"), FALSE)

MCNext ==
  \/ part = "sessions" /\ Next /\ UNCHANGED <<part, messageVars, solveVars>>
  \/ part = "silence" /\ Silences!Next /\ UNCHANGED <<part, messageVars, solveVars>>
  \/ part = "message" /\ Messages!Next /\ UNCHANGED <<part, vars, solveVars>>
  \/ part = "solve" /\ Solve!Next /\ UNCHANGED <<part, vars, messageVars>>

MCSpec == MCInit /\ [][MCNext]_mcVars

-----------------------------------------------------------------------------

\* What a frame lacks and what is stale is what its own session says, and a new
\* peer is announced on the first frame after it and on no other.
SessionsStandAlone == AbsenceIsTheSessions /\ JumpsAreTheSessions /\ RestartsAnnounced

\* A tracker that falls silent is counted once each time it does.
SilencesCountedOnce == CrossingsCountedOnce

\* One tracker has one identity, and no message is dropped without a refusal.
OneIdentityPerTracker == Messages!OneIdentityPerTracker

\* Every bone a frame authors is turned as its own tracker reported, whatever a
\* replaying consumer still holds above it.
HeldPoseIsReported == Solve!HeldPoseIsReported
=============================================================================
