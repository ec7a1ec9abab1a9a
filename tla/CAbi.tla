--------------------------------- MODULE CAbi ---------------------------------
(***************************************************************************)
(* The C ABI as its caller meets it: a handle and what it counts            *)
(* (CAbiHandle, "handle"), and a frame it gave up, read through views that   *)
(* outlive the handle (CAbiFrame, "view").  The two share no state.          *)
(***************************************************************************)
EXTENDS Naturals, Sequences

CONSTANTS
  SourceIds, DefaultDiagnosticCapacity, Configs, MaxFrames, MaxRaised, MaxOpens,
  FrameJoints, Names, MaxActors, MaxEntries, Absent, Released

VARIABLES
  handle, lastError, diagnosticCapacity, diagnostics, refusedFrames, droppedDiagnostics, profile,
  state, capacity, frames, polledFrames, call, made, raised, opens, lastRead, read, delivered,
  refused, failure,
  polled, shown

Handle == INSTANCE CAbiHandle
View == INSTANCE CAbiFrame WITH Joints <- FrameJoints, frame <- shown

handleVars == <<handle, lastError, diagnosticCapacity, diagnostics, refusedFrames,
                droppedDiagnostics, profile, state, capacity, frames, polledFrames, call, made,
                raised, opens, lastRead, read, delivered, refused, failure>>
viewVars == <<polled, shown>>

ASSUME HandleAssumptions ==
  Handle!CapacitiesAssumption /\ Handle!ConfigsAssumption /\ Handle!BoundsAssumption

ASSUME ViewAssumption == View!BoundsAssumption

-----------------------------------------------------------------------------
(* Configurations an open honours, and one of each kind it refuses.          *)

Asking(options, bound) ==
  [sized |-> TRUE, modeKnown |-> TRUE, bufferCapacity |-> 2, utf8 |-> TRUE,
   websocket |-> options, diagnosticCapacity |-> bound]

SomeConfigs ==
  {Asking(options, bound) : options \in {"absent", "good"}, bound \in {0, 1}}
  \cup {[Asking("good", 1) EXCEPT !.sized = FALSE], [Asking("good", 1) EXCEPT !.modeKnown = FALSE],
        [Asking("absent", 1) EXCEPT !.bufferCapacity = 0], [Asking("absent", 1) EXCEPT !.utf8 = FALSE],
        Asking("struct_size", 1)}

-----------------------------------------------------------------------------

\* What the handle counts is what happened, and a refused open did not.
HandleKeepsItsBooks == Handle!HandleKeepsItsBooks

\* A caller that walks the counts sees the frame the connector gave up.
ViewsShowTheFrame == View!ViewsShowTheFrame
=============================================================================
