------------------------------- MODULE CAbiFrame -------------------------------
(***************************************************************************)
(* How a caller of the C ABI reads a frame (libs/motionConnectorCAbi/src/  *)
(* MotionConnector.cpp): MakeFrame lays the poses out in arrays beside the *)
(* frame it owns, and every motion_frame_get_* answers with a status and a *)
(* view.  Indices count from 0.  A vector, a name or a value is one model  *)
(* value: only whether it is there matters.                                *)
(***************************************************************************)
EXTENDS Naturals, Sequences

CONSTANTS
  Joints,      \* the joint vocabulary
  Names,       \* names of actors, channels and trackers
  MaxActors, MaxEntries, \* bounds: actors, channels and trackers of an actor
  Absent,      \* std::nullopt, and a null pointer
  Released     \* what a caller holds after motion_frame_release

BoundsAssumption == MaxActors \in Nat /\ MaxEntries \in Nat

VARIABLES
  polled, \* the frame the connector gave up
  frame   \* the motion_frame_t the caller holds, Released once it does not

vars == <<polled, frame>>

UpTo(n, S) == UNION {[1..k -> S] : k \in 0..n}

\* A confidence is stated for every joint or for none.
Poses ==
  [validRotations: SUBSET Joints, confidence: BOOLEAN, root: BOOLEAN, contacts: BOOLEAN,
   channels: UpTo(MaxEntries, Names)]

Trackers == [trackerId: Names, hasPosition: BOOLEAN, hasRotation: BOOLEAN]

Actors == [actor: Names, pose: Poses \union {Absent}, trackers: UpTo(MaxEntries, Trackers)]

AllFrames == [actors: UpTo(MaxActors, Actors), sequence: BOOLEAN]

\* PoseArrays: an absent joint stays zero.
Arrays(pose) ==
  [rotations |-> [joint \in Joints |-> IF joint \in pose.validRotations THEN "stated" ELSE "zero"],
   valid |-> pose.validRotations,
   confidence |-> IF pose.confidence THEN "stated" ELSE "zero"]

\* Fault: one PoseArrays is shared by all actors and filled by the last.
MakeFrameShared(value) ==
  [value |-> value,
   poses |-> LET posed == SelectSeq(value.actors, LAMBDA actor : actor.pose # Absent)
             IN  [i \in DOMAIN value.actors |->
                    IF posed = <<>> THEN Absent ELSE Arrays(posed[Len(posed)].pose)]]

\* poses runs parallel to the actors, null for an actor without one.
MakeFrame(value) ==
  [value |-> value,
   poses |-> [i \in DOMAIN value.actors |->
                IF value.actors[i].pose = Absent THEN Absent ELSE Arrays(value.actors[i].pose)]]

-----------------------------------------------------------------------------
(* The calls.  Each returns a status and, when it is OK, a view.            *)

Status(name) == [status |-> name]

\* WriteOut: a caller built against a smaller struct, whose struct_size is 0
\* here and 1 otherwise, is refused.
WriteOut(size, view) ==
  IF size < 1 THEN Status("UNSUPPORTED_STRUCT") ELSE [status |-> "OK", view |-> view]

\* motion_frame_get_info
GetInfo(held, size) ==
  WriteOut(size, [actor_count |-> Len(held.value.actors), has_sequence |-> held.value.sequence])

\* FindActor
HasActor(held, actor) == actor < Len(held.value.actors)

Actor(held, actor) == held.value.actors[actor + 1]

\* motion_frame_get_actor
GetActor(held, actor, size) ==
  IF ~HasActor(held, actor) THEN Status("OUT_OF_RANGE")
  ELSE LET it == Actor(held, actor)
       IN  WriteOut(size,
             [actor_id |-> it.actor, tracker_count |-> Len(it.trackers),
              has_pose |-> it.pose # Absent,
              channel_count |-> IF it.pose = Absent THEN 0 ELSE Len(it.pose.channels)])

\* motion_frame_get_pose
GetPose(held, actor, size) ==
  IF ~HasActor(held, actor) THEN Status("OUT_OF_RANGE")
  ELSE IF Actor(held, actor).pose = Absent THEN Status("NOT_AVAILABLE")
  ELSE LET pose == Actor(held, actor).pose
           arrays == held.poses[actor + 1]
       IN  WriteOut(size,
             [has_root |-> pose.root, has_contacts |-> pose.contacts,
              local_rotations |-> arrays.rotations, valid_rotations |-> arrays.valid,
              confidence |-> IF pose.confidence THEN arrays.confidence ELSE "NULL"])

\* motion_frame_get_channel
GetChannel(held, actor, channel, size) ==
  IF ~HasActor(held, actor) THEN Status("OUT_OF_RANGE")
  ELSE IF Actor(held, actor).pose = Absent THEN Status("NOT_AVAILABLE")
  ELSE IF channel >= Len(Actor(held, actor).pose.channels) THEN Status("OUT_OF_RANGE")
  ELSE WriteOut(size, Actor(held, actor).pose.channels[channel + 1])

\* motion_frame_get_tracker
GetTracker(held, actor, tracker, size) ==
  IF ~HasActor(held, actor) \/ tracker >= Len(Actor(held, actor).trackers)
  THEN Status("OUT_OF_RANGE")
  ELSE WriteOut(size, Actor(held, actor).trackers[tracker + 1])

-----------------------------------------------------------------------------

InitOf(given) == polled = given /\ frame = MakeFrame(given)

Init == \E given \in AllFrames : InitOf(given)

\* motion_frame_release
Release == frame # Released /\ frame' = Released /\ UNCHANGED polled

Next == Release

Spec == Init /\ [][Next]_vars

-----------------------------------------------------------------------------

\* What a caller puts together who reads the counts and then every index below
\* them, as the header tells it to.
PoseRead(actor) ==
  LET info == GetActor(frame, actor, 1).view
      pose == GetPose(frame, actor, 1)
  IN  IF ~info.has_pose THEN Absent
      ELSE [validRotations |-> {joint \in Joints : /\ joint \in pose.view.valid_rotations
                                                   /\ pose.view.local_rotations[joint] = "stated"},
            confidence |-> pose.view.confidence = "stated",
            root |-> pose.view.has_root, contacts |-> pose.view.has_contacts,
            channels |-> [c \in 1..info.channel_count |-> GetChannel(frame, actor, c - 1, 1).view]]

Reading ==
  [actors |-> [a \in 1..GetInfo(frame, 1).view.actor_count |->
     LET info == GetActor(frame, a - 1, 1).view
     IN  [actor |-> info.actor_id, pose |-> PoseRead(a - 1),
          trackers |-> [t \in 1..info.tracker_count |-> GetTracker(frame, a - 1, t - 1, 1).view]]],
   sequence |-> GetInfo(frame, 1).view.has_sequence]

\* A caller that walks the counts sees the frame the connector gave up, all of
\* it and nothing beside it: no joint, pose, channel or tracker of one actor
\* turns up at another, none is invented where the source stated none, and the
\* first index past a count is refused.
ViewsShowTheFrame ==
  frame # Released =>
    /\ Reading = polled
    /\ GetActor(frame, Len(polled.actors), 1) = Status("OUT_OF_RANGE")
    /\ \A a \in DOMAIN polled.actors :
         LET info == GetActor(frame, a - 1, 1).view
         IN  /\ GetTracker(frame, a - 1, info.tracker_count, 1) = Status("OUT_OF_RANGE")
             /\ GetChannel(frame, a - 1, info.channel_count, 1)
                  = Status(IF info.has_pose THEN "OUT_OF_RANGE" ELSE "NOT_AVAILABLE")
=============================================================================
