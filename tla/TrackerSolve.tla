----------------------------- MODULE TrackerSolve -----------------------------
(***************************************************************************)
(* A frame of body trackers becomes a pose: AssignTrackers binds trackers to  *)
(* regions by the operator's statement (TrackerAssignment.cpp),               *)
(* SolveTrackerPose turns the rotations of bound trackers into local ones     *)
(* (TrackerSolve.cpp), and TraceCollector keeps one clip for each session     *)
(* (TraceExport.cpp).  A rotation is a permutation, so that composition does  *)
(* not commute.                                                               *)
(***************************************************************************)
EXTENDS Integers, Sequences, FiniteSets, SequencesExt

CONSTANTS
  HumanJointParent,        \* joint -> its parent, -1 for the hips
  RegionJoint,             \* region -> joint, or Unplaceable
  Unplaceable,
  Specs,                   \* what an operator may state: [statements, unplaced]
  Frames,                  \* what arrives: a sequence of observations
  MaxFrames,
  ReopensAfterClose        \* whether the host observes after Close

\* An observation: [tracker, rotation, position]; NoRotation and NoPosition are
\* absent halves, BadRotation and BadPosition values that are not ones.
NoRotation == <<>>
BadRotation == <<0>>
NoPosition == 0
BadPosition == -1
NoIdentity == ""

VARIABLES
  spec, authorRootMotion,  \* TraceCollector::_assignment, _solve
  observed,                \* the frame last solved against
  assignment, solve,       \* what became of it
  sessions,                \* [spaces, roots]: whose frames, and their hips
  hips,                    \* HipsMotion of each session, once closed
  closed,
  space, frames,           \* history: the sender's session, frames so far
  held                     \* a consumer's locals, replaying with hold

vars == <<spec, authorRootMotion, observed, assignment, solve, sessions, hips, closed, space, frames, held>>

Joints == DOMAIN HumanJointParent
Regions == DOMAIN RegionJoint

\* The enumerators are counted from the hips down.
JointAssumption ==
  /\ IsFiniteSet(Joints) /\ Joints = 0..(Cardinality(Joints) - 1)
  /\ \A j \in Joints : HumanJointParent[j] \in {-1} \cup {k \in Joints : k < j}
  /\ \A r \in Regions : RegionJoint[r] \in Joints \cup {Unplaceable}
  /\ \A r, q \in Regions : RegionJoint[r] = RegionJoint[q] /\ r # q => RegionJoint[r] = Unplaceable

Rotations == {r \in [1..3 -> 1..3] : \A i \in 1..3 : \E k \in 1..3 : r[k] = i}

InputAssumption ==
  /\ \A s \in Specs : s.statements \in Seq([tracker : STRING, region : Regions])
  /\ Frames \subseteq Seq([tracker : STRING, rotation : Rotations \cup {NoRotation, BadRotation},
                           position : Int])

Hips == CHOOSE j \in Joints : HumanJointParent[j] = -1

-----------------------------------------------------------------------------
(* AssignTrackers                                                           *)

Identities(frame) == [i \in DOMAIN frame |-> frame[i].tracker]

\* ValidateTrackerAssignmentSpec: each tracker and each region once.
SpecValid(s) ==
  /\ s.statements # <<>>
  /\ \A i \in DOMAIN s.statements : s.statements[i].tracker # NoIdentity
  /\ \A i, j \in DOMAIN s.statements : i # j =>
       /\ s.statements[i].tracker # s.statements[j].tracker
       /\ s.statements[i].region # s.statements[j].region

\* The places of the statements whose tracker is there.
Found(s, names) == {i \in DOMAIN s.statements : s.statements[i].tracker \in ToSet(names)}

Bindings(s, names) ==
  [i \in Found(s, names) |->
     [region |-> s.statements[i].region,
      index  |-> SelectInSeq(names, LAMBDA name : name = s.statements[i].tracker)]]

Absent(s, names) == {s.statements[i].region : i \in DOMAIN s.statements \ Found(s, names)}

\* Every identity named, and none twice.
Distinct(names) == NoIdentity \notin ToSet(names) /\ IsInjective(names)

Unplaced(bound, names) == DOMAIN names \ {bound[i].index : i \in DOMAIN bound}

\* The refusal, the first that applies.
AssignmentRefusal(s, names) ==
  LET bound == Bindings(s, names)
      unplaced == Unplaced(bound, names)
  IN  IF ~Distinct(names) THEN "ObservationInvalid"
      ELSE IF s.unplaced = "hold" /\ (unplaced # {} \/ Absent(s, names) # {}) THEN "Held"
      ELSE IF s.unplaced = "refuse" /\ unplaced # {} THEN "UnplacedTracker"
      ELSE IF DOMAIN bound = {} THEN "NothingPlaced" ELSE "None"

AssignTrackers(s, names) ==
  IF ~SpecValid(s) THEN [refusal |-> "SpecInvalid", bound |-> <<>>, absent |-> {}, trackers |-> <<>>]
  ELSE [refusal |-> AssignmentRefusal(s, names), bound |-> Bindings(s, names), absent |-> Absent(s, names),
        trackers |-> names]

\* ValidateTrackerAssignmentObservation: made from this very array.
Applicable(a, names) == a.trackers = names /\ Distinct(names)

-----------------------------------------------------------------------------
(* SolveTrackerPose                                                         *)

Compose(a, b) == [i \in DOMAIN a |-> a[b[i]]]
Invert(a) == [i \in DOMAIN a |-> CHOOSE k \in DOMAIN a : a[k] = i]
Rest == <<1, 2, 3>>

JointOf(binding) == RegionJoint[binding.region]

\* What was observed of a joint, which at most one region is of.
Observation(a, frame, j) ==
  LET here == {i \in DOMAIN a.bound : JointOf(a.bound[i]) = j}
  IN  IF here = {} THEN <<>> ELSE <<frame[a.bound[CHOOSE i \in here : TRUE].index]>>

WithRotation(a, frame) == {j \in Joints : Observation(a, frame, j) # <<>> /\ Observation(a, frame, j)[1].rotation # NoRotation}

\* Fault: a stated tracker that did not arrive names no joint.
NamedBound(a) == {JointOf(a.bound[i]) : i \in DOMAIN a.bound}

Named(a) == {JointOf(a.bound[i]) : i \in DOMAIN a.bound} \cup {RegionJoint[r] : r \in a.absent}

\* A joint above that the assignment named and this frame cannot orient.
AncestorFellSilent(a, frame, joint) ==
  LET silent[j \in Joints] ==
        HumanJointParent[j] # -1 /\
          LET parent == HumanJointParent[j]
          IN  (parent \in Named(a) /\ parent \notin WithRotation(a, frame)) \/ silent[parent]
  IN  silent[joint]

Placed(a, frame) == {j \in WithRotation(a, frame) : ~AncestorFellSilent(a, frame, j)}

ConsumesPosition(a, frame) ==
  /\ authorRootMotion
  /\ Observation(a, frame, Hips) # <<>> /\ Observation(a, frame, Hips)[1].position # NoPosition

\* Only the values the solve reads.
ValuesOk(a, frame) ==
  /\ \A j \in WithRotation(a, frame) : Observation(a, frame, j)[1].rotation # BadRotation
  /\ ConsumesPosition(a, frame) => Observation(a, frame, Hips)[1].position # BadPosition

SolveRefusal(a, frame) ==
  IF a.refusal # "None" THEN "AssignmentRefused"
  ELSE IF ~Applicable(a, Identities(frame)) THEN "AssignmentUnusable"
  ELSE IF ~ValuesOk(a, frame) THEN "ObservationInvalid"
  ELSE IF Placed(a, frame) = {} /\ ~ConsumesPosition(a, frame) THEN "NothingSolved"
  ELSE "None"

\* ParentWorldRotation, of every joint's chain: one that is not authored adds
\* nothing to its parent's.
Chain(authored, local) ==
  LET above[j \in Joints \cup {-1}] ==
        IF j = -1 THEN Rest
        ELSE IF j \in authored THEN Compose(above[HumanJointParent[j]], local[j])
        ELSE above[HumanJointParent[j]]
  IN  above

\* Parent first, as the enumerators are ordered: a joint's local rotation is
\* its tracker's world rotation seen from what was authored above it.
Locals(a, frame) ==
  LET author[j \in Joints] ==
        Compose(Invert(Chain(Placed(a, frame), author)[HumanJointParent[j]]),
                Observation(a, frame, j)[1].rotation)
  IN  [j \in Placed(a, frame) |-> author[j]]

Refusal(code) == [refusal |-> code, locals |-> <<>>, root |-> NoPosition]

SolveTrackerPose(a, frame) ==
  IF SolveRefusal(a, frame) # "None" THEN Refusal(SolveRefusal(a, frame))
  ELSE [refusal |-> "None", locals |-> Locals(a, frame),
        root |-> IF ConsumesPosition(a, frame) THEN Observation(a, frame, Hips)[1].position ELSE NoPosition]

-----------------------------------------------------------------------------
(* TraceCollector                                                           *)

AtRest == [j \in Joints |-> Rest]

InitOf(given, authored) ==
  /\ spec = given /\ authorRootMotion = authored
  /\ observed = <<>> /\ assignment = AssignTrackers(spec, <<>>) /\ solve = Refusal("AssignmentRefused")
  /\ sessions = <<>> /\ hips = <<>> /\ closed = FALSE
  /\ space = 1 /\ frames = 0 /\ held = AtRest

Init == \E given \in Specs, authored \in BOOLEAN : InitOf(given, authored)

\* A session is opened for a frame that begins one, unless the last is empty.
Opened(begins) ==
  IF sessions = <<>> \/ (begins /\ sessions[Len(sessions)].roots # <<>>)
  THEN Append(sessions, [spaces |-> {}, roots |-> <<>>]) ELSE sessions

\* One frame.  Another host than the recorder may keep an assignment and solve
\* the next array with it.
ObserveFrame(frame, begins, fresh) ==
  /\ frames < MaxFrames /\ frames' = frames + 1
  /\ closed => ReopensAfterClose
  /\ closed' = FALSE
  /\ space' = IF begins THEN space + 1 ELSE space
  /\ observed' = frame
  /\ assignment' = IF fresh THEN AssignTrackers(spec, Identities(frame)) ELSE assignment
  /\ solve' = SolveTrackerPose(assignment', frame)
  /\ LET opened == Opened(begins)
         last == Len(opened)
         new == opened[last].roots = <<>>
     IN  IF solve'.refusal # "None"
         THEN sessions' = opened /\ held' = IF new THEN AtRest ELSE held
         ELSE /\ sessions' = [opened EXCEPT ![last].spaces = @ \cup {space'}, ![last].roots = Append(@, solve'.root)]
              /\ held' = [j \in Joints |-> IF j \in DOMAIN solve'.locals THEN solve'.locals[j]
                                           ELSE IF new THEN Rest ELSE held[j]]
  /\ UNCHANGED <<spec, authorRootMotion, hips>>

Observe == \E frame \in Frames, begins \in BOOLEAN : ObserveFrame(frame, begins, TRUE)
ObserveAgain == \E frame \in Frames : ObserveFrame(frame, FALSE, FALSE)

Abs(n) == IF n < 0 THEN -n ELSE n

\* The hips path over the poses that carry one.
HipsMotion(roots) ==
  LET known == SelectSeq(roots, LAMBDA p : p # NoPosition)
  IN  [without |-> Len(roots) - Len(known),
       path    |-> FoldLeft(+, 0, [i \in 1..(Len(known) - 1) |-> Abs(known[i + 1] - known[i])]),
       net     |-> IF known = <<>> THEN 0 ELSE Abs(known[Len(known)] - known[1])]

\* The places that stay, in their order.
InOrder(stays) ==
  {order \in [1..Cardinality(stays) -> stays] :
     \A i, j \in DOMAIN order : i < j => order[i] < order[j]}

Close ==
  /\ ~closed /\ closed' = TRUE
  /\ \E order \in InOrder({i \in DOMAIN sessions : sessions[i].roots # <<>>}) :
       sessions' = [i \in DOMAIN order |-> sessions[order[i]]]
  /\ hips' = [i \in DOMAIN sessions' |-> HipsMotion(sessions'[i].roots)]
  /\ UNCHANGED <<spec, authorRootMotion, observed, assignment, solve, space, frames, held>>

Next == Observe \/ ObserveAgain \/ Close

Spec == Init /\ [][Next]_vars

-----------------------------------------------------------------------------
(* Properties                                                               *)

\* Every joint turned as it is held.
World(local, joint) == Chain(Joints, local)[joint]

\* A trace is one session ("Accumulates solved frames into one animation per
\* session"): poses observed in different tracking spaces share no clip.
OneSpacePerSession == \A i \in DOMAIN sessions : Cardinality(sessions[i].spaces) <= 1

\* A consumer that replays a session holding what a frame leaves out has every
\* bone the frame authored turned as that bone's own tracker reported, whatever
\* earlier frames left it holding above, in whatever order trackers arrive and
\* drop out ("a bone whose named ancestor could not be oriented in this frame
\* is not authored either"); and what it replays is one session's.
HeldPoseIsReported ==
  /\ solve.refusal = "None" =>
       \A j \in DOMAIN solve.locals : \E s \in ToSet(spec.statements), i \in DOMAIN observed :
         /\ RegionJoint[s.region] = j /\ observed[i].tracker = s.tracker
         /\ World(held, j) = observed[i].rotation
  /\ OneSpacePerSession
=============================================================================
