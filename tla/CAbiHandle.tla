------------------------------ MODULE CAbiHandle ------------------------------
(***************************************************************************)
(* A connector handle of the C ABI (libs/motionConnectorCAbi/src/          *)
(* MotionConnector.cpp): motion_connector_create to _destroy around one    *)
(* source.  One thread at a time uses a handle, so a call is one action,   *)
(* except motion_connector_poll, whose loop is one action a turn.  The     *)
(* source (a connector and its FrameBuffer) is seen through Open, Close,   *)
(* Poll, Push, Flush and TakeDiagnostics only.  A diagnostic is the        *)
(* position in which it was raised.                                        *)
(***************************************************************************)
EXTENDS Naturals, Sequences

CONSTANTS
  SourceIds,           \* Sources[].id; "websocket" takes options of its own
  DefaultDiagnosticCapacity,
  Configs,             \* the motion_connector_config_t a caller may pass
  MaxFrames,           \* bound: frames the source makes
  MaxRaised,           \* bound: diagnostics the source raises
  MaxOpens             \* bound: calls of motion_connector_open

CapacitiesAssumption == DefaultDiagnosticCapacity \in Nat \ {0}
BoundsAssumption == MaxFrames \in Nat /\ MaxRaised \in Nat /\ MaxOpens \in Nat

VARIABLES
  handle,       \* the source a handle was created for, "none" without a handle
  lastError, diagnosticCapacity, diagnostics, refusedFrames, droppedDiagnostics,
  profile,      \* the open that set sourceProfile, 0 before one did
  state,        \* the source's GetState: "Disconnected", "Open" or "Error"
  capacity,     \* of the source's buffer
  frames,       \* in the source's buffer: whether each is UTF-8 throughout
  polledFrames, \* the buffer's statistic, since the open
  call,         \* "Poll" between two turns of motion_connector_poll's loop
  made, raised, opens,      \* history, for the bounds; `raised` numbers diagnostics
  lastRead, read,           \* history: the diagnostic read last, how many were
  delivered, refused,       \* history: frames polled since the open
  failure                   \* history: how the last call that failed did, "" for none yet

queue == <<diagnosticCapacity, diagnostics, droppedDiagnostics>>
source == <<state, capacity, frames, polledFrames>>
reads == <<lastRead, read>>
tally == <<refusedFrames, delivered, refused>>
vars == <<handle, lastError, queue, profile, source, call, made, raised, opens, reads,
          tally, failure>>

\* The source's default buffer, before an open, holds one frame.
Init ==
  /\ handle = "none" /\ lastError = ""
  /\ diagnosticCapacity = DefaultDiagnosticCapacity /\ diagnostics = <<>>
  /\ refusedFrames = 0 /\ droppedDiagnostics = 0 /\ profile = 0
  /\ state = "Disconnected" /\ capacity = 1 /\ frames = <<>> /\ polledFrames = 0
  /\ call = "none" /\ made = 0 /\ raised = 0 /\ opens = 0
  /\ lastRead = 0 /\ read = 0 /\ delivered = 0 /\ refused = 0 /\ failure = ""

Idle == handle # "none" /\ call = "none"

\* What every call that takes a handle does first, and what it returns.
Succeed == lastError' = "" /\ UNCHANGED failure
Refuse(why) == lastError' = why /\ failure' = why

-----------------------------------------------------------------------------
(* The diagnostics of a handle.                                             *)

\* Enqueue of each record: the oldest make room.  A queue an open has shrunk is
\* cut down by the next record, not before.
Lost(bound, records) ==
  IF records = <<>> \/ Len(diagnostics \o records) <= bound THEN 0
  ELSE Len(diagnostics \o records) - bound

\* Fault: the newest record does not get in.
KeptOldest(bound, records) == SubSeq(diagnostics \o records, 1,
  Len(diagnostics \o records) - Lost(bound, records))

Kept(bound, records) ==
  SubSeq(diagnostics \o records, Lost(bound, records) + 1, Len(diagnostics \o records))

Enqueue(bound, records) ==
  /\ diagnostics' = Kept(bound, records)
  /\ droppedDiagnostics' = droppedDiagnostics + Lost(bound, records)

\* The source raises up to two diagnostics during a call of it.
Raised == {[i \in 1..n |-> raised + i] : n \in 0..(IF raised + 2 <= MaxRaised THEN 2 ELSE 0)}

\* DrainDiagnostics, the source having raised `records` since the last one.
Drain(bound, records) == raised' = raised + Len(records) /\ Enqueue(bound, records)

\* Whatever a call of the source raises is drained before the call returns, so
\* the source holds none between two calls.
DrainCall(bound) == \E records \in Raised : Drain(bound, records)

-----------------------------------------------------------------------------
(* The handle.                                                              *)

\* motion_connector_create; an id that is not in Sources makes no handle.
Create ==
  /\ handle = "none"
  /\ handle' \in SourceIds
  /\ UNCHANGED <<lastError, queue, profile, source, call, made, raised, opens, reads,
                 tally, failure>>

\* motion_connector_destroy; what the caller holds already stays its own.
Destroy ==
  /\ Idle
  /\ handle' = "none" /\ lastError' = "" /\ failure' = ""
  /\ diagnosticCapacity' = DefaultDiagnosticCapacity /\ diagnostics' = <<>>
  /\ refusedFrames' = 0 /\ droppedDiagnostics' = 0 /\ profile' = 0
  /\ state' = "Disconnected" /\ capacity' = 1 /\ frames' = <<>> /\ polledFrames' = 0
  /\ raised' = 0
  /\ lastRead' = 0 /\ read' = 0 /\ delivered' = 0 /\ refused' = 0
  /\ UNCHANGED <<call, made, opens>>

\* ReadWebSocketOptions: what is wrong with the options, in the order it looks.
OptionFaults == <<"struct_size", "role", "duration", "origins", "path", "origin">>

Config ==
  [sized: BOOLEAN, modeKnown: BOOLEAN, bufferCapacity: Nat, utf8: BOOLEAN,
   websocket: {"absent", "good"} \union {OptionFaults[i] : i \in DOMAIN OptionFaults},
   diagnosticCapacity: Nat]

ConfigsAssumption == Configs \subseteq Config

\* What motion_connector_open checks, in its order, and the reason it gives.
Checks(config) ==
  << <<config.sized, "struct_size">>, <<config.modeKnown, "mode">>,
     <<config.bufferCapacity # 0, "capacity">>, <<config.utf8, "utf8">>,
     <<config.websocket = "absent" \/ handle = "websocket", "not websocket">>,
     <<config.websocket \in {"absent", "good"}, config.websocket>> >>

\* Why it refuses a configuration, "" when it does not.
Verdict(config) ==
  LET failed == SelectSeq(Checks(config), LAMBDA check : ~check[1])
  IN  IF failed = <<>> THEN "" ELSE Head(failed)[2]

\* The diagnostic capacity a configuration asks for; 0 asks for the default.
Capacity(config) == IF config.diagnosticCapacity = 0 THEN DefaultDiagnosticCapacity
                    ELSE config.diagnosticCapacity

\* Fault: the new capacity is taken before the options are read.
RefusedOpenKeepsNot(config) ==
  /\ diagnosticCapacity' = Capacity(config)
  /\ UNCHANGED <<diagnostics, droppedDiagnostics, profile, source, raised, tally>>

RefusedOpenKeeps(config) == UNCHANGED <<queue, profile, source, raised, tally>>

OpenRefused(config) ==
  /\ Verdict(config) # ""
  /\ Refuse(Verdict(config))
  /\ RefusedOpenKeeps(config)

\* The source closed itself first.  One that refuses the profile keeps its
\* buffer; any other open makes a new one.
OpenSource(config) ==
  /\ Verdict(config) = ""
  /\ diagnosticCapacity' = Capacity(config)
  /\ profile' = opens + 1
  /\ frames' = <<>>
  /\ UNCHANGED refusedFrames
  /\ DrainCall(Capacity(config))
  /\ \/ /\ state' = "Error" /\ Refuse("profile")
        /\ UNCHANGED <<capacity, polledFrames, delivered, refused>>
     \/ /\ \/ state' = "Open" /\ Succeed
           \/ state' = "Error" /\ Refuse("socket")
        /\ capacity' = config.bufferCapacity
        /\ polledFrames' = 0 /\ delivered' = 0 /\ refused' = 0

Open ==
  /\ Idle /\ opens < MaxOpens
  /\ opens' = opens + 1
  /\ \E config \in Configs : OpenRefused(config) \/ OpenSource(config)
  /\ UNCHANGED <<handle, call, made, reads>>

Close ==
  /\ Idle
  /\ state' = "Disconnected" /\ frames' = <<>>
  /\ DrainCall(diagnosticCapacity)
  /\ Succeed
  /\ UNCHANGED <<handle, diagnosticCapacity, profile, capacity, polledFrames, call, made, opens,
                 reads, tally>>

\* The source completes up to two frames; its buffer keeps the newest.
Completes(held) ==
  \E n \in 0..(IF made + 2 <= MaxFrames THEN 2 ELSE 0) : \E new \in [1..n -> BOOLEAN] :
    LET all == frames \o new
    IN  /\ made' = made + n
        /\ held = IF Len(all) <= capacity THEN all
                  ELSE SubSeq(all, Len(all) - capacity + 1, Len(all))

\* motion_connector_push_input with input it takes, and flush_input.
PushInput ==
  /\ Idle
  /\ \E held \in UNION {[1..n -> BOOLEAN] : n \in 0..capacity} :
       frames' = held /\ Completes(held)
  /\ DrainCall(diagnosticCapacity)
  /\ Succeed
  /\ UNCHANGED <<handle, diagnosticCapacity, profile, state, capacity, polledFrames, call, opens,
                 reads, tally>>

\* push_input and flush_input of a timestamp that is not finite, or of no bytes.
PushInputRefused ==
  /\ Idle
  /\ Refuse("input")
  /\ UNCHANGED <<handle, queue, profile, source, call, made, raised, opens, reads, tally>>

-----------------------------------------------------------------------------
(* motion_connector_poll.                                                   *)

\* FindNonUtf8Field and RefuseFrame: a diagnostic of the handle's own, after
\* those of the source.
RefuseFrame(records) ==
  /\ raised' = raised + Len(records) + 1
  /\ Enqueue(diagnosticCapacity, Append(records, raised'))
  /\ refusedFrames' = refusedFrames + 1 /\ refused' = refused + 1
  /\ call' = "Poll"
  /\ UNCHANGED delivered

Deliver(records) ==
  /\ Drain(diagnosticCapacity, records)
  /\ delivered' = delivered + 1
  /\ call' = "none"
  /\ UNCHANGED <<refusedFrames, refused>>

Nothing(records) ==
  /\ Drain(diagnosticCapacity, records)
  /\ call' = "none"
  /\ UNCHANGED tally

\* Fault: a refused frame is put down as never polled.
TakeReadable(head) == polledFrames + (IF head THEN 1 ELSE 0)

Take(head) == polledFrames + 1

\* One turn of the loop: an open source reads its socket, then its buffer gives
\* up its oldest frame.
Poll ==
  /\ handle # "none"
  /\ Succeed
  /\ \E held \in UNION {[1..n -> BOOLEAN] : n \in 0..capacity}, records \in Raised :
       /\ IF state = "Open" THEN Completes(held) ELSE held = frames /\ UNCHANGED made
       /\ IF held = <<>>
          THEN Nothing(records) /\ UNCHANGED <<frames, polledFrames>>
          ELSE /\ frames' = Tail(held)
               /\ polledFrames' = Take(Head(held))
               /\ IF Head(held) THEN Deliver(records) ELSE RefuseFrame(records)
  /\ UNCHANGED <<handle, diagnosticCapacity, profile, state, capacity, opens, reads>>

\* A call that passes NULL for its result, or a configuration: refused before
\* the handle is looked at.
NullArgument ==
  /\ Idle
  /\ failure' = "null argument"
  /\ UNCHANGED <<handle, lastError, queue, profile, source, call, made, raised, opens,
                 reads, tally>>

\* motion_connector_poll_diagnostic
PollDiagnostic ==
  /\ Idle
  /\ IF diagnostics = <<>>
     THEN UNCHANGED <<diagnostics, reads>>
     ELSE lastRead' = Head(diagnostics) /\ read' = read + 1 /\ diagnostics' = Tail(diagnostics)
  /\ Succeed
  /\ UNCHANGED <<handle, diagnosticCapacity, droppedDiagnostics, profile, source, call, made,
                 raised, opens, tally>>

Next ==
  \/ Create \/ Destroy \/ Open \/ Close \/ PushInput \/ PushInputRefused
  \/ Poll \/ NullArgument \/ PollDiagnostic

Spec == Init /\ [][Next]_vars

-----------------------------------------------------------------------------

\* No diagnostic is lost on the way to the caller: each that was raised has been
\* read, was counted in dropped_diagnostics or is still to be read, and they are
\* read in the order they were raised, the latest always among them, whatever
\* opens and closes lie between.
EveryDiagnosticAccounted ==
  /\ raised = read + droppedDiagnostics + Len(diagnostics)
  /\ LET left == <<lastRead>> \o diagnostics
     IN  /\ \A i \in 1..(Len(left) - 1) : left[i] < left[i + 1]
         /\ left[Len(left)] = raised

\* polled_frames counts since the open and refused_frames since the create:
\* what the buffer gave up since the open was delivered or refused.
EveryPolledFrameAccounted ==
  /\ polledFrames = delivered + refused
  /\ refused <= refusedFrames

\* A refused open is as if it had not been called: the source, the frames it
\* holds and every queue stay as they were, only the reason is new.
RefusedOpenChangesNothing ==
  [][opens' > opens /\ lastError' \notin {"", "profile", "socket"}
     => UNCHANGED <<handle, queue, profile, source, tally>>]_vars

\* What the handle counts is what happened, and a refused open did not.
HandleKeepsItsBooks ==
  [](EveryDiagnosticAccounted /\ EveryPolledFrameAccounted) /\ RefusedOpenChangesNothing

\* MotionConnector.h on motion_connector_poll: "Removes at most one frame."
PollRemovesAtMostOne == [][call = "Poll" => polledFrames' = polledFrames]_vars

\* MotionConnector.h on motion_connector_last_error: "The reason for the last
\* failed call on this connector."
LastErrorIsOfTheLastFailure == lastError \in {"", failure}

\* MotionConnector.h on diagnostic_capacity: "The bound on undelivered
\* diagnostics".
UndeliveredAreBounded == Idle => Len(diagnostics) <= diagnosticCapacity
=============================================================================
