--------------------------- MODULE OpenXRConnector ---------------------------
(***************************************************************************)
(* OpenXRConnector (libs/motionConnectorOpenXR/src/Connector.cpp): the     *)
(* owner's frame loop calls Acquire, which asks the runtime where every    *)
(* configured input is at one instant, and Poll.  The runtime may fail any *)
(* query, and may answer for the body at another instant than asked.  One  *)
(* thread calls; a hand or body is one joint here.                         *)
(***************************************************************************)
EXTENDS Integers, Sequences

CONSTANTS
  SpaceLists,  \* configured heads, controllers and hands, in Acquire's order
  Capacities,  \* FrameBuffer capacities
  Times,       \* XrTime and receive clock readings
  MaxOpens, MaxAcquires \* bounds: calls of Open and, since the open, of Acquire

ConstantsAssumption ==
  /\ SpaceLists \subseteq Seq(STRING)
  /\ Capacities \subseteq Nat \ {0} /\ Times \subseteq Nat
  /\ MaxOpens \in Nat /\ MaxAcquires \in Nat

Modes == {"Latest", "Ordered", "Lossless"}

VARIABLES
  spaces, hasBody, \* _input: what is configured, not empty
  state, mode, capacity,
  frames,      \* _buffer's
  diagnostics, \* whether the latest Open or Acquire left any
  lastTime, lastReceive, frameNumber,
  accepted,    \* history: frames accepted since the open
  opens, acquires

clock == <<lastTime, lastReceive, frameNumber>>
buffer == <<mode, capacity, frames>>
input == <<spaces, hasBody>>
vars == <<input, state, buffer, diagnostics, clock, accepted, opens, acquires>>

InitOf(list, body) ==
  /\ spaces = list /\ hasBody = body
  /\ state = "Disconnected" /\ mode = "Latest" /\ capacity = 1 /\ frames = <<>>
  /\ diagnostics = FALSE /\ lastTime = 0 /\ lastReceive = 0 /\ frameNumber = 0
  /\ accepted = <<>> /\ opens = 0 /\ acquires = 0

Init ==
  \E list \in SpaceLists, body \in BOOLEAN : (body \/ list # <<>>) /\ InitOf(list, body)

Fresh ==
  /\ opens < MaxOpens /\ opens' = opens + 1
  /\ frames' = <<>> /\ accepted' = <<>> /\ acquires' = 0
  /\ lastTime' = 0 /\ lastReceive' = 0 /\ frameNumber' = 0

\* A configuration refused, or a function the runtime does not supply.
OpenFails ==
  /\ Fresh
  /\ state' = "Error" /\ diagnostics' = TRUE
  /\ UNCHANGED <<input, mode, capacity>>

Open ==
  /\ Fresh
  /\ mode' \in Modes /\ capacity' \in Capacities
  /\ state' = "Connecting" /\ diagnostics' = FALSE
  /\ UNCHANGED input

Close ==
  /\ state' = "Disconnected" /\ frames' = <<>>
  /\ UNCHANGED <<input, mode, capacity, diagnostics, clock, accepted, opens, acquires>>

Poll ==
  /\ frames # <<>>
  /\ frames' = Tail(frames)
  /\ UNCHANGED <<input, state, mode, capacity, diagnostics, clock, accepted, opens, acquires>>

-----------------------------------------------------------------------------
(* Acquire.                                                                 *)

Acquiring ==
  /\ state \notin {"Disconnected", "Error"}
  /\ acquires < MaxAcquires /\ acquires' = acquires + 1
  /\ UNCHANGED <<input, mode, capacity, opens>>

Advances(time, receive) ==
  /\ time > 0 /\ time > lastTime
  /\ frameNumber = 0 \/ receive >= lastReceive

Full == mode = "Lossless" /\ Len(frames) >= capacity

Refuse(outcome) ==
  /\ state' = outcome /\ diagnostics' = TRUE
  /\ UNCHANGED <<frames, clock, accepted>>

\* A time that does not advance, or a full Lossless buffer, is refused before
\* the runtime is asked.
AcquireRefused ==
  /\ Acquiring
  /\ \E time, receive \in Times : ~Advances(time, receive) \/ Full
  /\ Refuse("Degraded")

\* _Result: any query that does not succeed, or an answer that cannot be one.
AcquireFails ==
  /\ Acquiring
  /\ \E time, receive \in Times : Advances(time, receive) /\ ~Full
  /\ Refuse("Error")

\* What the runtime says of a pose: nothing valid, valid but not tracked, both.
Seen == {"invalid", "untracked", "tracked"}

\* _Observe: an invalid pose is kept as an observation without values.
Observation(id, seen, instant) ==
  [id |-> id, available |-> seen # "invalid", whole |-> seen = "tracked", instant |-> instant]

\* Fault: a body at another instant is kept beside the others, and only then.
BodyKeptMixed(others, time, bodyTime) == bodyTime = time \/ others # <<>>

\* A body at another instant than the others is not kept.
BodyKept(others, time, bodyTime) == bodyTime = time \/ others = <<>>

\* The frame's instant is the body's when the body is all there is.
Instant(others, time, active, bodyTime) ==
  IF active /\ others = <<>> THEN bodyTime ELSE time

Pushed(frame) ==
  IF mode = "Latest" THEN <<frame>>
  ELSE IF Len(frames) >= capacity THEN Append(Tail(frames), frame)
  ELSE Append(frames, frame)

\* The runtime answers for every space, any of them without a usable pose, and
\* for the body, which may be inactive or at another instant.
Acquire ==
  /\ Acquiring
  /\ ~Full
  /\ \E time, receive \in Times, seen \in [DOMAIN spaces -> Seen], bodySeen \in Seen,
        active \in BOOLEAN, bodyTime \in Times \ {0} :
       /\ Advances(time, receive)
       /\ LET others == [i \in DOMAIN spaces |-> Observation(spaces[i], seen[i], time)]
              kept == active /\ BodyKept(others, time, bodyTime)
              body == Observation("body", IF kept THEN bodySeen ELSE "invalid", bodyTime)
              trackers == IF hasBody THEN Append(others, body) ELSE others
              frame == [frameNumber |-> frameNumber + 1, receive |-> receive,
                        instant |-> IF hasBody THEN Instant(others, time, active, bodyTime)
                                    ELSE time,
                        trackers |-> trackers]
              degraded == \/ \E i \in DOMAIN trackers : ~trackers[i].whole
                          \/ hasBody /\ active /\ bodyTime # time
          IN  /\ frames' = Pushed(frame)
              /\ accepted' = Append(accepted, frame)
              /\ diagnostics' = degraded
              /\ state' = IF degraded THEN "Degraded" ELSE "Connected"
       /\ lastTime' = time /\ lastReceive' = receive
  /\ frameNumber' = frameNumber + 1

Next == Open \/ OpenFails \/ Close \/ AcquireRefused \/ AcquireFails \/ Acquire \/ Poll

Spec == Init /\ [][Next]_vars

-----------------------------------------------------------------------------

\* Whatever the runtime answers, every pose a frame makes available is of the
\* instant the frame states, and a connector that says Connected has such a
\* frame in which nothing is missing.
FramesDescribeOneInstant ==
  /\ \A n \in DOMAIN accepted : \A i \in DOMAIN accepted[n].trackers :
       accepted[n].trackers[i].available
         => accepted[n].trackers[i].instant = accepted[n].instant
  /\ state = "Connected" =>
       /\ accepted # <<>>
       /\ LET frame == accepted[Len(accepted)]
          IN  \A i \in DOMAIN frame.trackers : frame.trackers[i].whole
=============================================================================
