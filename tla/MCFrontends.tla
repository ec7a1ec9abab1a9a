----------------------------- MODULE MCFrontends -----------------------------
(***************************************************************************)
(* The connectors that sample instead of listening - WebXRConnector,        *)
(* OpenXRConnector, MediaPipeConnector - and two at the other end: the       *)
(* Recorder, and PythonConnector, the binding threads share, which sees the  *)
(* C ABI as two steps a call.  They share nothing, so a behaviour is one of  *)
(* theirs: the variable part says which, and the others stay as they begin.  *)
(***************************************************************************)
EXTENDS Recorder, TLC

CONSTANTS
  Parts,                                             \* the components a run explores
  Inputs, InputLimit, XrCapacities, Times, MaxOpens, MaxAcquires,
  SpaceLists, BodyCapacities, MaxBodyAcquires,
  Count, Scores, Shapes, MpCapacities, MaxResults, MaxFed,
  Threads, Daemons, Handles, MaxCalls, Views

VARIABLES
  part,
  sessionEnded, ended, attached, state, mode, capacity, queue, degraded, stats, number,
  lastSource, lastReceive, ids, nextId, acquired, opens, acquires,
  spaces, hasBody, xrState, xrMode, xrCapacity, frames, diagnostics, lastTime, xrReceive,
  frameNumber, accepted, xrOpens, xrAcquires,
  detector, mpState, mpMode, mpCapacity, mpFrames, mpStats, mpDiagnostics, mpNumber, results, mpAcquires,
  lock, at, alive, inside, reason, view, buffered, records, memory, calls, given

webVars == <<sessionEnded, ended, attached, state, mode, capacity, queue, degraded, stats, number,
             lastSource, lastReceive, ids, nextId, acquired, opens, acquires>>
xrVars == <<spaces, hasBody, xrState, xrMode, xrCapacity, frames, diagnostics, lastTime,
            xrReceive, frameNumber, accepted, xrOpens, xrAcquires>>
mpVars == <<detector, mpState, mpMode, mpCapacity, mpFrames, mpStats, mpDiagnostics, mpNumber,
            results, mpAcquires>>
pyVars == <<lock, at, alive, inside, reason, view, buffered, records, memory, calls, given>>
mcVars == <<part, vars, webVars, xrVars, mpVars, pyVars>>

WebXR == INSTANCE WebXRConnector WITH Capacities <- XrCapacities
OpenXR == INSTANCE OpenXRConnector
            WITH Capacities <- BodyCapacities, MaxAcquires <- MaxBodyAcquires, state <- xrState,
                 mode <- xrMode, capacity <- xrCapacity, lastReceive <- xrReceive,
                 opens <- xrOpens, acquires <- xrAcquires
MediaPipe == INSTANCE MediaPipeConnector
               WITH MaxAcquires <- MaxResults, Capacities <- MpCapacities, part <- detector, state <- mpState,
                    mode <- mpMode, capacity <- mpCapacity, stats <- mpStats,
                    frames <- mpFrames, diagnostics <- mpDiagnostics, number <- mpNumber,
                    accepted <- results, acquires <- mpAcquires
\* The same connector fed more results, of the detectors that have few.
Feed == INSTANCE MediaPipeConnector
               WITH MaxAcquires <- MaxFed, Capacities <- MpCapacities, part <- detector, state <- mpState,
                    mode <- mpMode, capacity <- mpCapacity, stats <- mpStats,
                    frames <- mpFrames, diagnostics <- mpDiagnostics, number <- mpNumber,
                    accepted <- results, acquires <- mpAcquires
Python == INSTANCE PythonConnector
            WITH lastError <- reason, text <- view, frames <- buffered, diagnostics <- records,
                 outcome <- given

ASSUME FrontendAssumptions ==
  /\ WebXR!ConstantsAssumption /\ OpenXR!ConstantsAssumption /\ MediaPipe!ConstantsAssumption
  /\ Python!ThreadsAssumption

-----------------------------------------------------------------------------

\* Inputs of a session are alike to the connector and peers to the recorder.  A
\* run gives both the same values: no behaviour has inputs and peers.
Alike == Permutations(Inputs)

\* With and without a space beside the body.
Configured == {<<>>, <<"head">>}

\* Three datagrams pass every bound of the report: two peers, lengths and bytes.
SmallPayloads == {<<>>, <<1, 2>>, <<1, 3, 3>>}

Option(maxDatagrams, duration, idle, dryRun) ==
  [maxDatagrams |-> maxDatagrams, duration |-> duration, idle |-> idle, dryRun |-> dryRun]
SmallOptions == {Option(3, 0, 2, FALSE), Option(2, 2, 1, TRUE), Option(2, 2, 0, FALSE)}

-----------------------------------------------------------------------------

MCInit ==
  /\ part \in Parts
  /\ IF part = "recorder" THEN Init ELSE InitOf(Option(1, 0, 0, TRUE))
  /\ WebXR!Init
  /\ IF part = "openxr" THEN OpenXR!Init ELSE OpenXR!InitOf(<<>>, TRUE)
  /\ CASE part = "mediapipe" -> MediaPipe!Init
       [] part = "feed" -> \E few \in {"body", "face"} : Feed!InitOf(few)
       [] OTHER -> MediaPipe!InitOf("body")
  /\ Python!Init

MCNext ==
  \/ part = "recorder" /\ Next /\ UNCHANGED <<part, webVars, xrVars, mpVars, pyVars>>
  \/ part = "webxr" /\ WebXR!Next /\ UNCHANGED <<part, vars, xrVars, mpVars, pyVars>>
  \/ part = "openxr" /\ OpenXR!Next /\ UNCHANGED <<part, vars, webVars, mpVars, pyVars>>
  \/ part = "mediapipe" /\ MediaPipe!Next /\ UNCHANGED <<part, vars, webVars, xrVars, pyVars>>
  \/ part = "feed" /\ Feed!Next /\ UNCHANGED <<part, vars, webVars, xrVars, pyVars>>
  \/ part = "python" /\ Python!Next /\ UNCHANGED <<part, vars, webVars, xrVars, mpVars>>

MCSpec == MCInit /\ [][MCNext]_mcVars

-----------------------------------------------------------------------------

\* An epoch of a session is whole and names every input for good.
EpochInvariant == WebXR!EpochInvariant

\* Every pose a frame makes available is of the instant the frame states.
FramesDescribeOneInstant == OpenXR!FramesDescribeOneInstant

\* One actor never carries the same observation twice, and frames are numbered
\* without a gap, the newest kept and the others accounted for.
DetectionsInvariant == MediaPipe!DetectionsInvariant

\* A method gives its caller what its own call produced, whatever the threads do.
EveryCallGetsItsOwn == Python!EveryCallGetsItsOwn
=============================================================================
