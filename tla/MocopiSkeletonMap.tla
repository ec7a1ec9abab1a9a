--------------------------- MODULE MocopiSkeletonMap ---------------------------
(***************************************************************************)
(* The canonical map of a mocopi rig (SkeletonMap.cpp): MakeSkeletonMap takes *)
(* the skeleton packet a session declared, MapMotionFrame one frame's records *)
(* by that map.  A rotation is a name and composition is concatenation; a     *)
(* translation is the sequence of the offsets it adds up, each with the       *)
(* rotations that turn it.                                                    *)
(***************************************************************************)
EXTENDS Integers, Sequences, FiniteSets, SequencesExt

CONSTANTS
  ParentColumn,            \* joint -> its parent, -1 for the root
  MeasuredBones,           \* joint -> canonical bone, or NoBone
  NoBone,
  Skeletons, Frames        \* what packets may carry

\* A skeleton: a sequence of [id, parent, usable, rotation, offset].
\* A frame: a sequence of [id, usable, rotation, offset].

VARIABLES
  map,                     \* SkeletonMap
  skeleton,                \* history: the skeleton map was made of
  frame,                   \* the frame last mapped
  mapping,                 \* FrameMapping
  diagnostics              \* the joints of the last call's diagnostics

vars == <<map, skeleton, frame, mapping, diagnostics>>

Joints == DOMAIN ParentColumn

ParentsPrecedeChildren == \A j \in Joints : ParentColumn[j] \in -1..(j - 1)

RigAssumption ==
  /\ Joints = 0..(Cardinality(Joints) - 1)
  /\ DOMAIN MeasuredBones = Joints
  /\ ParentsPrecedeChildren

Bound(j) == MeasuredBones[j] # NoBone

\* The joints from below j's nearest bound ancestor down to j, root first.
\* Fault: the walk's own order, j first.
PathUp(jointId) ==
  LET path[j \in Joints] ==
        IF ParentColumn[j] < 0 \/ (ParentColumn[j] >= 0 /\ Bound(ParentColumn[j])) THEN <<j>>
        ELSE <<j>> \o path[ParentColumn[j]]
  IN  path[jointId]

Path(jointId) ==
  LET path[j \in Joints] ==
        IF ParentColumn[j] < 0 THEN <<j>>
        ELSE IF Bound(ParentColumn[j]) THEN <<j>>
        ELSE path[ParentColumn[j]] \o <<j>>
  IN  path[jointId]

BoundJoints == {j \in Joints : Bound(j)}

\* The rotations of a path composed, and its offsets each turned by those before.
Composed(path, sample) == [i \in DOMAIN path |-> sample[path[i]].rotation]

Placed(path, sample) ==
  [i \in DOMAIN path |-> <<SubSeq(Composed(path, sample), 1, i - 1), sample[path[i]].offset>>]

-----------------------------------------------------------------------------
NoMap == [jointCount |-> 0, rest |-> [j \in BoundJoints |-> <<>>], placed |-> [j \in BoundJoints |-> <<>>],
          offsets |-> <<>>]

NoMapping == [bones |-> <<>>, hips |-> <<>>, unused |-> 0, dropped |-> 0, missing |-> 0]

Init ==
  /\ map = NoMap /\ skeleton = <<>>
  /\ frame = <<>> /\ mapping = NoMapping /\ diagnostics = <<>>

Rig == Cardinality(Joints)

\* The leading joints are the measured rig exactly.
Measured(declared) ==
  /\ Len(declared) >= Rig
  /\ \A j \in Joints : /\ declared[j + 1].id = j
                       /\ declared[j + 1].parent = ParentColumn[j]
                       /\ declared[j + 1].usable

\* No later joint claims a measured id.
TrailingOk(declared) == \A i \in (Rig + 1)..Len(declared) : declared[i].id \notin Joints

Unmapped(declared) == [i \in 1..(Len(declared) - Rig) |-> declared[Rig + i].id]

MapOf(declared) ==
  LET at == [j \in Joints |-> declared[j + 1]]
  IN  [jointCount |-> Len(declared),
       rest       |-> [j \in BoundJoints |-> Composed(Path(j), at)],
       placed     |-> [j \in BoundJoints |-> Placed(Path(j), at)],
       offsets    |-> [j \in Joints |-> at[j].offset]]

\* A refusal leaves the caller's map, and one diagnostic more than the joints
\* beyond the rig it had already named.
MakeSkeletonMap(declared) ==
  /\ IF Measured(declared) /\ TrailingOk(declared)
     THEN map' = MapOf(declared) /\ skeleton' = declared /\ diagnostics' = Unmapped(declared)
     ELSE diagnostics' = <<-1>> /\ UNCHANGED <<map, skeleton>>
  /\ UNCHANGED <<frame, mapping>>

-----------------------------------------------------------------------------
(* MapMotionFrame                                                           *)

Declared(id) == id \in Joints /\ id < map.jointCount

\* The record kept for a joint: its first usable one.
Kept(records, j) ==
  SelectInSeq(records, LAMBDA r : r.id = j /\ Declared(j) /\ r.usable)

Present(records) == {j \in Joints : Kept(records, j) # 0}

\* Not declared, or a repeat of a joint already kept.
Unused(records) ==
  {i \in DOMAIN records :
     LET id == records[i].id
     IN  ~Declared(id) \/ (Kept(records, id) # 0 /\ Kept(records, id) < i)}

Refused(records) == {i \in DOMAIN records \ Unused(records) : ~records[i].usable}

\* By canonical bone, which is not the joints' order.
InBoneOrder(joints) == SetToSortSeq(joints, LAMBDA a, b : MeasuredBones[a] < MeasuredBones[b])

Complete(records) == {j \in BoundJoints : Range(Path(j)) \subseteq Present(records)}

MapMotionFrame(records) ==
  LET at == [j \in Present(records) |-> records[Kept(records, j)]]
      complete == {j \in Complete(records) : Declared(j)}
      refused == SetToSortSeq(Refused(records), <)
  IN  /\ frame' = records
      /\ mapping' =
           [bones   |-> [i \in 1..Cardinality(complete) |->
                           LET j == InBoneOrder(complete)[i]
                           IN  [joint |-> j, rotation |-> Composed(Path(j), at)]],
            hips    |-> IF 0 \in Present(records) THEN <<at[0].offset>> ELSE <<>>,
            unused  |-> Cardinality(Unused(records)),
            dropped |-> Cardinality({j \in Present(records) \ {0} : at[j].offset # map.offsets[j]}),
            missing |-> Cardinality({j \in BoundJoints : Declared(j)} \ complete)]
      /\ diagnostics' = [i \in DOMAIN refused |-> records[refused[i]].id]
      /\ UNCHANGED <<map, skeleton>>

Declare == \E s \in Skeletons : MakeSkeletonMap(s)
MapFrame == \E f \in Frames : MapMotionFrame(f)

Next == Declare \/ MapFrame

Spec == Init /\ [][Next]_vars

-----------------------------------------------------------------------------
(* Properties                                                               *)

\* The joints above j and j itself, from the root, bound or not.
FromRoot[j \in Joints] == IF ParentColumn[j] < 0 THEN <<j>> ELSE Append(FromRoot[ParentColumn[j]], j)

\* What a consumer of the canonical bones composes: bone by bone from the hips.
Ancestry(j) == SelectSeq(FromRoot[j], LAMBDA k : Bound(k))

World(local, j) == FlattenSeq([i \in DOMAIN Ancestry(j) |-> local[Ancestry(j)[i]]])

\* The offsets it adds up, each turned by the bones above its own.
WorldPlaced(j) ==
  FlattenSeq([i \in DOMAIN Ancestry(j) |->
    LET bone == Ancestry(j)[i]
        above == IF i = 1 THEN <<>> ELSE World(map.rest, Ancestry(j)[i - 1])
    IN  [k \in DOMAIN map.placed[bone] |-> <<above \o map.placed[bone][k][1], map.placed[bone][k][2]>>]])

RestIsTheRigs ==
  map.jointCount > 0 => \A j \in BoundJoints :
    LET chain == FromRoot[j]
    IN  /\ World(map.rest, j) = [i \in DOMAIN chain |-> skeleton[chain[i] + 1].rotation]
        /\ WorldPlaced(j) = [i \in DOMAIN chain |->
             <<[k \in 1..(i - 1) |-> skeleton[chain[k] + 1].rotation], skeleton[chain[i] + 1].offset>>]

MappedJoints == {mapping.bones[i].joint : i \in DOMAIN mapping.bones}

\* A frame whose chain arrived whole poses a bone as the device's joints do,
\* with the samples of one record per joint; and every record is accounted.
FramePosesTheRig ==
  LET local == [j \in MappedJoints |->
                  (CHOOSE i \in DOMAIN mapping.bones : mapping.bones[i].joint = j)]
      rotation == [j \in MappedJoints |-> mapping.bones[local[j]].rotation]
  IN  /\ \A j \in MappedJoints : Range(Ancestry(j)) \subseteq MappedJoints =>
           LET posed == World(rotation, j)
           IN  /\ Len(posed) = Len(FromRoot[j])
               /\ \A i \in DOMAIN posed : \E r \in DOMAIN frame :
                    frame[r].id = FromRoot[j][i] /\ frame[r].usable /\ frame[r].rotation = posed[i]
      /\ \A i, k \in DOMAIN mapping.bones :
           i < k => MeasuredBones[mapping.bones[i].joint] < MeasuredBones[mapping.bones[k].joint]

\* The canonical pose turns and places a bone as the rig's joints do, the
\* joints that carry no bone included: composed from the hips down, the rest
\* pose a session keeps and the pose of a frame both give the rotations of
\* every joint of the chain in the rig's order ("One walk, two callers: the
\* rest pose here and every frame below take the same paths, so they cannot
\* disagree"); bones come out in canonical order.
PosesAreTheRigs == RestIsTheRigs /\ FramePosesTheRig
=============================================================================
