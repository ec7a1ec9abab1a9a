---------------------------- MODULE WebXRConnector ----------------------------
(***************************************************************************)
(* The browser's WebXRConnector (web/motionConnectorWebXR/src/index.js): a *)
(* borrowed session and reference space, whose events arrive between       *)
(* calls, and acquire(), which the caller runs in its animation callback.  *)
(* JavaScript runs a call to its end before anything else happens, so each *)
(* is one action; acquire() is split into the ways it can return.          *)
(***************************************************************************)
EXTENDS Integers, Sequences, FiniteSets, SequencesExt

CONSTANTS
  Inputs,      \* the session's input sources, objects of the browser
  InputLimit,  \* 8 in the code
  Capacities,  \* what open() may be asked for
  Times,       \* clock readings; -1 stands for one that is not finite or negative
  MaxOpens, MaxAcquires \* bounds: calls of open and, in an epoch, of acquire

ConstantsAssumption ==
  /\ IsFiniteSet(Inputs) /\ InputLimit \in Nat /\ Capacities \subseteq Nat \ {0}
  /\ Times \subseteq Nat /\ MaxOpens \in Nat /\ MaxAcquires \in Nat

Modes == {"latest", "ordered", "lossless"}
None == -1

VARIABLES
  sessionEnded, \* the browser's session, whatever the connector knows of it
  ended, attached, state, mode, capacity,
  queue,        \* #queue: frames, oldest first
  degraded,     \* whether #diagnostics holds anything of the last acquisition
  stats, number, lastSource, lastReceive,
  ids,          \* #ids: 0 for an input that has none
  nextId,
  acquired,     \* history: frames acquired in this epoch, in order
  opens, acquires

session == <<sessionEnded, ended, attached>>
clock == <<number, lastSource, lastReceive>>
naming == <<ids, nextId>>
vars == <<session, state, mode, capacity, queue, degraded, stats, clock, naming, acquired,
          opens, acquires>>

NoStats == [pushed |-> 0, polled |-> 0, dropped |-> 0, skipped |-> 0, rejected |-> 0]

Init ==
  /\ sessionEnded = FALSE /\ ended = FALSE /\ attached = FALSE
  /\ state = "disconnected" /\ mode = "latest" /\ capacity = 1
  /\ queue = <<>> /\ degraded = FALSE /\ stats = NoStats
  /\ number = 0 /\ lastSource = None /\ lastReceive = None
  /\ ids = [input \in Inputs |-> 0] /\ nextId = 0
  /\ acquired = <<>> /\ opens = 0 /\ acquires = 0

-----------------------------------------------------------------------------
(* The browser.                                                             *)

\* The session ends once; a connector hears of it while its listener is there.
SessionEnds ==
  /\ ~sessionEnded
  /\ sessionEnded' = TRUE
  /\ IF attached THEN ended' = TRUE /\ state' = "error" /\ degraded' = TRUE
     ELSE UNCHANGED <<ended, state, degraded>>
  /\ UNCHANGED <<attached, mode, capacity, queue, stats, clock, naming, acquired, opens, acquires>>

ReferenceSpaceReset ==
  /\ attached /\ ~sessionEnded
  /\ state' = "error" /\ degraded' = TRUE
  /\ UNCHANGED <<session, mode, capacity, queue, stats, clock, naming, acquired, opens, acquires>>

-----------------------------------------------------------------------------
(* The caller.                                                              *)

Close ==
  /\ attached' = FALSE /\ queue' = <<>> /\ state' = "disconnected"
  /\ UNCHANGED <<sessionEnded, ended, mode, capacity, degraded, stats, clock, naming, acquired,
                 opens, acquires>>

\* open() closes and starts a fresh epoch before it looks at its arguments.
Forget ==
  /\ queue' = <<>> /\ stats' = NoStats
  /\ number' = 0 /\ lastSource' = None /\ lastReceive' = None
  /\ ids' = [input \in Inputs |-> 0] /\ nextId' = 0
  /\ acquired' = <<>> /\ acquires' = 0

OpenRefused ==
  /\ opens < MaxOpens
  /\ Forget
  /\ attached' = FALSE /\ state' = "error" /\ degraded' = TRUE
  /\ opens' = opens + 1
  /\ UNCHANGED <<sessionEnded, ended, mode, capacity>>

Open ==
  /\ opens < MaxOpens
  /\ ~ended
  /\ Forget
  /\ mode' \in Modes /\ capacity' \in Capacities
  /\ attached' = TRUE /\ state' = "connecting" /\ degraded' = FALSE
  /\ opens' = opens + 1
  /\ UNCHANGED <<sessionEnded, ended>>

Acquiring ==
  /\ state \notin {"disconnected", "error"}
  /\ acquires < MaxAcquires
  /\ acquires' = acquires + 1
  /\ UNCHANGED <<session, mode, capacity, opens>>

Advances(source, receive) ==
  /\ source >= 0 /\ (lastSource = None \/ source > lastSource)
  /\ receive >= 0 /\ (lastReceive = None \/ receive >= lastReceive)

\* Fault: a refused acquisition consumes a frame number.
RefuseNumbered(outcome) ==
  /\ state' = outcome /\ degraded' = TRUE /\ number' = number + 1
  /\ UNCHANGED <<queue, lastSource, lastReceive, acquired>>

Refuse(outcome) ==
  /\ state' = outcome /\ degraded' = TRUE
  /\ UNCHANGED <<queue, clock, acquired>>

AcquireBadTime ==
  /\ Acquiring
  /\ \E source, receive \in Times \union {None} : ~Advances(source, receive)
  /\ Refuse("degraded")
  /\ UNCHANGED <<stats, naming>>

Full == mode = "lossless" /\ Len(queue) >= capacity

\* Refused before the browser is asked anything: the same sample may be retried.
AcquireFull ==
  /\ Acquiring
  /\ \E source, receive \in Times : Advances(source, receive)
  /\ Full
  /\ Refuse("degraded")
  /\ stats' = [stats EXCEPT !.rejected = @ + 1]
  /\ UNCHANGED naming

\* Fault: an input is named after its place among the session's inputs.
NamePlaces(seen) ==
  /\ ids' = [input \in Inputs |-> IF input \in Range(seen)
                                  THEN CHOOSE i \in DOMAIN seen : seen[i] = input
                                  ELSE ids[input]]
  /\ UNCHANGED nextId

\* The inputs an acquisition comes to get their ids, whatever becomes of it:
\* those that have none the next ones, in the order it comes to them.
Name(seen) ==
  LET New(n) == {i \in 1..n : ids[seen[i]] = 0}
  IN  /\ ids' = [input \in Inputs |->
                  IF input \in Range(seen) /\ ids[input] = 0
                  THEN nextId + Cardinality(New(CHOOSE i \in DOMAIN seen : seen[i] = input))
                  ELSE ids[input]]
      /\ nextId' = nextId + Cardinality(New(Len(seen)))

\* session.inputSources: any of the inputs, in any order.
InputSources == UNION {{seq \in [1..n -> Inputs] : IsInjective(seq)} : n \in 0..Cardinality(Inputs)}

\* More inputs than the bound: those up to it have been named.
AcquireInputLimit ==
  /\ Acquiring
  /\ \E source, receive \in Times : Advances(source, receive)
  /\ ~Full
  /\ \E inputs \in InputSources :
       /\ Len(inputs) > InputLimit
       /\ Name(SubSeq(inputs, 1, InputLimit))
  /\ Refuse("degraded")
  /\ UNCHANGED stats

\* A query of the browser throws, at any input or before the first.
AcquireThrows ==
  /\ Acquiring
  /\ \E source, receive \in Times : Advances(source, receive)
  /\ ~Full
  /\ \E inputs \in InputSources : Len(inputs) <= InputLimit /\ Name(inputs)
  /\ Refuse("error")
  /\ UNCHANGED stats

\* Room for `frame`, as the buffer's mode has it.
Pushed(frame) ==
  IF mode = "latest" THEN <<frame>>
  ELSE IF Len(queue) >= capacity THEN Append(Tail(queue), frame)
  ELSE Append(queue, frame)

Acquire ==
  /\ Acquiring
  /\ \E source, receive \in Times, inputs \in InputSources :
       /\ Advances(source, receive)
       /\ Len(inputs) <= InputLimit
       /\ Name(inputs)
       /\ LET frame == [number |-> number + 1, source |-> source, receive |-> receive,
                        trackers |-> [input \in Range(inputs) |-> ids'[input]]]
              dropped == Len(queue) + 1 - Len(Pushed(frame))
          IN  /\ queue' = Pushed(frame)
              /\ stats' = [stats EXCEPT !.pushed = @ + 1, !.dropped = @ + dropped,
                                        !.skipped = @ + dropped]
              /\ acquired' = Append(acquired, frame)
       /\ lastSource' = source /\ lastReceive' = receive
  /\ ~Full
  /\ number' = number + 1
  /\ \E told \in BOOLEAN :  \* whether any pose was unavailable, emulated or invalid
       degraded' = told /\ state' = IF told THEN "degraded" ELSE "connected"

Poll ==
  /\ queue # <<>>
  /\ queue' = Tail(queue)
  /\ stats' = [stats EXCEPT !.polled = @ + 1]
  /\ UNCHANGED <<session, state, mode, capacity, degraded, clock, naming, acquired, opens, acquires>>

AcquireRefused == AcquireBadTime \/ AcquireFull \/ AcquireInputLimit \/ AcquireThrows

Next ==
  \/ SessionEnds \/ ReferenceSpaceReset
  \/ Open \/ OpenRefused \/ Close \/ Acquire \/ AcquireRefused \/ Poll

Spec == Init /\ [][Next]_vars

-----------------------------------------------------------------------------

\* Within an epoch the trackers of an input keep one id, which no other input
\* has, whatever refused, failed or partial acquisitions lie between.
InputsKeepTheirIds ==
  \A a, b \in DOMAIN acquired :
    \A i \in DOMAIN acquired[a].trackers, j \in DOMAIN acquired[b].trackers :
      (i = j) = (acquired[a].trackers[i] = acquired[b].trackers[j])

\* An epoch numbers its frames from 1 without a gap, in advancing source time;
\* what is queued is its newest frames, and the statistics account for the rest.
EpochIsWhole ==
  /\ \A a \in DOMAIN acquired : acquired[a].number = a
  /\ \A a \in 1..(Len(acquired) - 1) :
       /\ acquired[a].source < acquired[a + 1].source
       /\ acquired[a].receive <= acquired[a + 1].receive
  /\ IsSuffix(queue, acquired)
  /\ state # "disconnected" => Len(acquired) = stats.polled + stats.dropped + Len(queue)

\* What an epoch hands out is whole and names every input for good.
EpochInvariant == InputsKeepTheirIds /\ EpochIsWhole

\* README.md: "The session's `end` event makes the connector Error and requires
\* a replacement session/connector."
EndedSessionIsError == sessionEnded => state \in {"disconnected", "error"}
=============================================================================
