-------------------------- MODULE MediaPipeConnector --------------------------
(***************************************************************************)
(* The browser's MediaPipeConnector (web/motionConnectorMediaPipe/src/     *)
(* index.js): the caller hands every result of its landmarker to acquire() *)
(* and polls frames.  A call runs to its end before another, so each is    *)
(* one action.  A result has a group of landmarks for every body or hand,  *)
(* or blend shapes for a face.                                             *)
(***************************************************************************)
EXTENDS Naturals, Sequences, FiniteSets, SequencesExt

CONSTANTS
  Count,       \* landmarks of a group: 33 of a body, 21 of a hand
  Scores,      \* of handedness categories
  Shapes,      \* names of face blend shapes
  Capacities,  \* bufferCapacity an open may be given
  MaxAcquires  \* bound: calls of acquire since the open

ConstantsAssumption ==
  /\ Count \in Nat \ {0} /\ Scores \subseteq Nat
  /\ Capacities \subseteq Nat \ {0} /\ MaxAcquires \in Nat

VARIABLES
  part,         \* #part, of the constructor
  state,
  mode, capacity,
  frames,       \* #queue
  stats,        \* #stats; skippedFrames goes with droppedFrames
  diagnostics,  \* #diagnostics: the codes, in order
  number,
  accepted,     \* history: results acquired, each with the actors it became
  acquires

buffer == <<mode, capacity, stats>>
vars == <<part, state, frames, buffer, diagnostics, number, accepted, acquires>>

Modes == {"latest", "ordered", "lossless"}
NoStats == [pushed |-> 0, polled |-> 0, dropped |-> 0, rejected |-> 0]

Detectors == {"body", "hands", "face"}

UpTo(n, S) == UNION {[1..k -> S] : k \in 0..n}

\* A landmark: its position is usable or not, and so is the visibility of one of
\* a body, if it has any.
Points ==
  [position: BOOLEAN, visibility: IF part = "body" THEN {"absent", "invalid", "usable"} ELSE {"absent"}]

Categories == [name: {"Left", "Right", "Other"}, score: Scores]

\* Groups of the right or of another length, and a handedness for each hand.
Groups ==
  [points: [1..Count -> Points] \union {<<>>},
   handedness: IF part = "hands" THEN UpTo(2, Categories) ELSE {<<>>}]

Off == <<"off", <<>>>>

\* A face: its blend shapes are off, or a list of names with a usable score or not.
Faces == {Off} \union {"on"} \X UpTo(2, [name: Shapes, usable: BOOLEAN])

Results == IF part = "face" THEN UpTo(1, Faces) ELSE UpTo(2, Groups)

-----------------------------------------------------------------------------
(* #actors.                                                                 *)

\* A hand is the side with the better score; a tie is no answer.
Valid(handedness) ==
  /\ handedness # <<>>
  /\ \A i \in DOMAIN handedness : handedness[i].name \in {"Left", "Right"}
  /\ \A i, j \in DOMAIN handedness :
       i # j => handedness[i].name # handedness[j].name /\ handedness[i].score # handedness[j].score

Side(handedness) ==
  handedness[CHOOSE i \in DOMAIN handedness :
               \A j \in DOMAIN handedness : handedness[i].score >= handedness[j].score].name

\* Fault: two hands may be of one side.
SidesDifferNot(result) == TRUE

SidesDiffer(result) ==
  \A g, h \in DOMAIN result :
    g # h => Side(result[g].handedness) # Side(result[h].handedness)

Refused(result) ==
  CASE part = "face" -> \E f \in DOMAIN result :
         \/ ~IsInjective([i \in DOMAIN result[f][2] |-> result[f][2][i].name])
         \/ \E i \in DOMAIN result[f][2] : ~result[f][2][i].usable
    [] part = "body" -> Len(result) > 1 \/ \E g \in DOMAIN result : result[g].points = <<>>
    [] part = "hands" -> \/ \E g \in DOMAIN result : result[g].points = <<>>
                         \/ \E g \in DOMAIN result : ~Valid(result[g].handedness)
                         \/ ~SidesDiffer(result)

\* #landmark, as the observation it becomes and what it reports.
Landmark(prefix, index, point) ==
  [id |-> <<prefix, index>>, position |-> point.position,
   confidence |-> point.visibility = "usable"]

Reports(point) ==
  (IF point.position THEN <<>> ELSE <<"POSITION_INVALID">>)
    \o (IF point.visibility = "invalid" THEN <<"CONFIDENCE_INVALID">> ELSE <<>>)

Prefix(group) == IF part = "body" THEN "body" ELSE Side(group.handedness)

Observations(group) == [i \in 1..Count |-> Landmark(Prefix(group), i, group.points[i])]

\* The trackers or the channels of the one actor.
Observed(result) ==
  IF part = "face"
  THEN IF result = <<>> THEN <<>>
       ELSE [i \in DOMAIN result[1][2] |-> result[1][2][i].name]
  ELSE FlattenSeq([g \in DOMAIN result |-> Observations(result[g])])

Told(result) ==
  IF result = <<>> THEN <<"NO_DETECTION">>
  ELSE IF part = "face"
       THEN IF result[1][2] = <<>> THEN <<"BLENDSHAPES_UNAVAILABLE">> ELSE <<>>
       ELSE FlattenSeq([g \in DOMAIN result |->
              FlattenSeq([i \in 1..Count |-> Reports(result[g].points[i])])])

-----------------------------------------------------------------------------

InitOf(given) ==
  /\ part = given
  /\ state = "disconnected" /\ frames = <<>> /\ diagnostics = <<>> /\ number = 0
  /\ mode = "latest" /\ capacity = 1 /\ stats = NoStats
  /\ accepted = <<>> /\ acquires = 0

Init == \E given \in Detectors : InitOf(given)

\* open() closes and forgets before it looks at its arguments.
Forget ==
  /\ frames' = <<>> /\ number' = 0 /\ stats' = NoStats /\ accepted' = <<>> /\ acquires' = 0
  /\ UNCHANGED part

Open ==
  /\ Forget
  /\ mode' \in Modes /\ capacity' \in Capacities
  /\ diagnostics' = <<>> /\ state' = "connecting"

OpenRefused ==
  /\ Forget
  /\ diagnostics' = <<"CONFIG_INVALID">> /\ state' = "error"
  /\ UNCHANGED <<mode, capacity>>

Close ==
  /\ frames' = <<>> /\ state' = "disconnected"
  /\ UNCHANGED <<part, buffer, diagnostics, number, accepted, acquires>>

Acquiring ==
  /\ state \notin {"disconnected", "error"}
  /\ acquires < MaxAcquires /\ acquires' = acquires + 1
  /\ UNCHANGED <<part, mode, capacity>>

Refuse(code) ==
  /\ diagnostics' = <<code>> /\ state' = "degraded"
  /\ UNCHANGED <<frames, number, accepted>>

\* A time that does not advance.
AcquireBadTime == Acquiring /\ Refuse("TIMESTAMP_INVALID") /\ UNCHANGED stats

Full == mode = "lossless" /\ Len(frames) >= capacity

AcquireFull ==
  /\ Acquiring /\ Full
  /\ Refuse("BUFFER_FULL")
  /\ stats' = [stats EXCEPT !.rejected = @ + 1]

Usable == {result \in Results : ~Refused(result)}

\* A result of the wrong shape is refused whole, and what it reported so far is forgotten.
AcquireInvalid ==
  /\ Acquiring /\ ~Full
  /\ ~\A result \in Results : ~Refused(result)
  /\ Refuse("RESULT_INVALID")
  /\ UNCHANGED stats

\* The queue with `frame` in it, as the mode has it.
Pushed(frame) ==
  IF mode = "latest" THEN <<frame>>
  ELSE IF Len(frames) >= capacity THEN Append(Tail(frames), frame)
  ELSE Append(frames, frame)

Acquire ==
  /\ Acquiring /\ ~Full
  /\ \E result \in Usable :
       LET frame == [frameNumber |-> number + 1, actor |-> Observed(result)]
       IN  /\ diagnostics' = Told(result)
           /\ frames' = Pushed(frame)
           /\ stats' = [stats EXCEPT !.pushed = @ + 1,
                                     !.dropped = @ + Len(frames) + 1 - Len(Pushed(frame))]
           /\ accepted' = Append(accepted, [result |-> result, actor |-> Observed(result)])
           /\ state' = IF Told(result) = <<>> THEN "connected" ELSE "degraded"
  /\ number' = number + 1

Poll ==
  /\ frames # <<>>
  /\ frames' = Tail(frames)
  /\ stats' = [stats EXCEPT !.polled = @ + 1]
  /\ UNCHANGED <<part, state, mode, capacity, diagnostics, number, accepted, acquires>>

Next ==
  \/ Open \/ OpenRefused \/ Close
  \/ AcquireBadTime \/ AcquireFull \/ AcquireInvalid \/ Acquire \/ Poll

Spec == Init /\ [][Next]_vars

-----------------------------------------------------------------------------

\* One actor never carries the same observation twice: two hands are told apart
\* by their sides and a face names every channel once; and what a connected
\* connector delivered last has every landmark of its result in place.
ObservationsAreDistinct ==
  \A n \in DOMAIN accepted :
    LET actor == accepted[n].actor
        names == IF part = "face" THEN actor ELSE [i \in DOMAIN actor |-> actor[i].id]
    IN  /\ IsInjective(names)
        /\ part # "face" => Len(actor) = Count * Len(accepted[n].result)
        /\ (n = Len(accepted) /\ state = "connected" /\ part # "face")
             => \A i \in DOMAIN actor : actor[i].position

\* The results accepted since the open are numbered from 1 without a gap, refused
\* acquisitions between them or not; what waits is the newest of them, within
\* the capacity, and what does not was polled or counted as dropped, which is
\* never so in lossless mode, as no other mode rejects.
FramesAreWhole ==
  /\ number = Len(accepted) /\ stats.pushed = number
  /\ \A i \in DOMAIN frames :
       LET n == number - Len(frames) + i
       IN  n \in DOMAIN accepted /\ frames[i] = [frameNumber |-> n, actor |-> accepted[n].actor]
  /\ state # "disconnected" => number = stats.polled + stats.dropped + Len(frames)
  /\ Len(frames) <= (IF mode = "latest" THEN 1 ELSE capacity)
  /\ IF mode = "lossless" THEN stats.dropped = 0 ELSE stats.rejected = 0

DetectionsInvariant == ObservationsAreDistinct /\ FramesAreWhole
=============================================================================
