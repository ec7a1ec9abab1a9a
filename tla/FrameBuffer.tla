----------------------------- MODULE FrameBuffer -----------------------------
(***************************************************************************)
(* motionConnectorCore's FrameBuffer (libs/motionConnectorCore/src/        *)
(* FrameBuffer.cpp): the bounded buffer every connector delivers through.  *)
(* A producer pushes and a consumer polls, from any threads: each call     *)
(* holds `_mutex` from its first statement to its last, so each is one     *)
(* action.  A frame is the number of the Push call that offered it.        *)
(***************************************************************************)
EXTENDS Naturals, Sequences

CONSTANTS
  RequestedCapacities,  \* what a ConnectorConfig may ask for; 0 is legal
  MaxPushes             \* bound: Push calls in a behaviour

ASSUME CapacityAssumption == RequestedCapacities \subseteq Nat
ASSUME MaxPushesAssumption == MaxPushes \in Nat

BufferMode == {"Latest", "Ordered", "Lossless"}

VARIABLES
  capacity, mode,  \* _capacity and _mode, fixed by the constructor
  frames,          \* _frames, oldest first
  pushedFrames, polledFrames, droppedFrames, skippedFrames, rejectedFrames,
  offered,         \* history: how many times Push was called
  accepted,        \* history: the frames Push accepted, in order
  lastPolled,      \* history: the frame Poll returned last, 0 before the first
  clearedFrames    \* history: frames Clear discarded, which no statistic counts

stats == <<pushedFrames, polledFrames, droppedFrames, skippedFrames, rejectedFrames>>
history == <<offered, accepted, lastPolled, clearedFrames>>
vars == <<capacity, mode, frames, stats, history>>

\* The constructor's reading of a requested capacity.
\* Fault: a requested capacity of 0 is taken as it is.
NormalisedNot(requested) == requested

Normalised(requested) == IF requested = 0 THEN 1 ELSE requested

\* Fault: full one frame too late.
FullTooLate == Len(frames) > capacity

Full == Len(frames) >= capacity

Init ==
  /\ capacity \in {Normalised(requested) : requested \in RequestedCapacities}
  /\ mode \in BufferMode
  /\ frames = <<>>
  /\ pushedFrames = 0 /\ polledFrames = 0 /\ droppedFrames = 0
  /\ skippedFrames = 0 /\ rejectedFrames = 0
  /\ offered = 0
  /\ accepted = <<>>
  /\ lastPolled = 0
  /\ clearedFrames = 0

\* What every accepting Push does once it has made room: `kept` stays, `lost`
\* frames were displaced.
Admit(kept, lost) ==
  /\ frames' = Append(kept, offered + 1)
  /\ pushedFrames' = pushedFrames + 1
  /\ droppedFrames' = droppedFrames + lost
  /\ skippedFrames' = skippedFrames + lost
  /\ accepted' = Append(accepted, offered + 1)
  /\ UNCHANGED <<capacity, mode, polledFrames, rejectedFrames, lastPolled, clearedFrames>>

\* The newest frame replaces whatever is held; the capacity plays no part.
PushLatest == mode = "Latest" /\ Admit(<<>>, Len(frames))

PushRoom == mode # "Latest" /\ ~Full /\ Admit(frames, 0)

\* Fault: overflow drops the newest frame held.
PushOverflowDropsNewest ==
  /\ mode = "Ordered" /\ Full
  /\ Admit(SubSeq(frames, 1, Len(frames) - 1), 1)

PushOverflow == mode = "Ordered" /\ Full /\ Admit(Tail(frames), 1)

\* Fault: a refusal is not counted.
PushBackpressureUncounted ==
  /\ mode = "Lossless" /\ Full
  /\ UNCHANGED <<capacity, mode, frames, stats, accepted, lastPolled, clearedFrames>>

PushBackpressure ==
  /\ mode = "Lossless"
  /\ Full
  /\ rejectedFrames' = rejectedFrames + 1
  /\ UNCHANGED <<capacity, mode, frames, pushedFrames, polledFrames, droppedFrames,
                 skippedFrames, accepted, lastPolled, clearedFrames>>

Push ==
  /\ offered < MaxPushes
  /\ offered' = offered + 1
  /\ PushLatest \/ PushRoom \/ PushOverflow \/ PushBackpressure

\* Fault: a poll takes the newest frame.
PollNewest ==
  /\ frames # <<>>
  /\ lastPolled' = frames[Len(frames)]
  /\ frames' = SubSeq(frames, 1, Len(frames) - 1)
  /\ polledFrames' = polledFrames + 1
  /\ UNCHANGED <<capacity, mode, pushedFrames, droppedFrames, skippedFrames,
                 rejectedFrames, offered, accepted, clearedFrames>>

\* A Poll of an empty buffer returns false and changes nothing.
Poll ==
  /\ frames # <<>>
  /\ lastPolled' = Head(frames)
  /\ frames' = Tail(frames)
  /\ polledFrames' = polledFrames + 1
  /\ UNCHANGED <<capacity, mode, pushedFrames, droppedFrames, skippedFrames,
                 rejectedFrames, offered, accepted, clearedFrames>>

Clear ==
  /\ frames # <<>>
  /\ frames' = <<>>
  /\ clearedFrames' = clearedFrames + Len(frames)
  /\ UNCHANGED <<capacity, mode, stats, offered, accepted, lastPolled>>

Next == Push \/ Poll \/ Clear

Spec == Init /\ [][Next]_vars

-----------------------------------------------------------------------------

TypeOK ==
  /\ capacity \in Nat \ {0}
  /\ mode \in BufferMode
  /\ frames \in Seq(Nat)
  /\ accepted \in Seq(Nat)
  /\ pushedFrames \in Nat /\ polledFrames \in Nat /\ droppedFrames \in Nat
  /\ skippedFrames \in Nat /\ rejectedFrames \in Nat
  /\ offered \in 0..MaxPushes
  /\ lastPolled \in Nat
  /\ clearedFrames \in Nat

\* No frame leaves unaccounted: every Push was accepted or refused, and every
\* accepted frame was polled, counted as dropped, discarded by Clear or is still
\* held.  Relates all five statistics of FrameBufferStats to the contents.
NoSilentLoss ==
  /\ offered = pushedFrames + rejectedFrames
  /\ pushedFrames = polledFrames + droppedFrames + clearedFrames + Len(frames)
  /\ skippedFrames = droppedFrames

\* What is held is the newest of what was accepted, with nothing missing from
\* the middle: overflow takes from the old end only, in every mode.
HeldIsNewestAccepted ==
  /\ Len(frames) <= Len(accepted)
  /\ \A i \in 1..Len(frames) :
       frames[i] = accepted[Len(accepted) - Len(frames) + i]

\* The buffer stays within the bound it declares, and a Lossless one never
\* displaces an accepted frame nor an Ordered one refuses an offered one.
ModeKeepsItsPromise ==
  /\ Len(frames) <= (IF mode = "Latest" THEN 1 ELSE capacity)
  /\ mode = "Lossless" => droppedFrames = 0
  /\ mode # "Lossless" => rejectedFrames = 0

\* What the buffer promises of every state: nothing is lost uncounted, what is
\* held is the newest part of what was accepted, and the mode keeps its bound.
BufferInvariant ==
  TypeOK /\ NoSilentLoss /\ HeldIsNewestAccepted /\ ModeKeepsItsPromise

\* A poll never hands out a frame older than, or the same as, one it handed out
\* before, whatever was pushed, displaced or cleared in between.
PollsAdvance == [][polledFrames' # polledFrames => lastPolled' > lastPolled]_vars

\* A frame is displaced only when the bound forces it: an Ordered buffer with
\* room left keeps everything.
DropsOnlyWhenFull ==
  [][droppedFrames' > droppedFrames => (mode = "Latest" \/ Len(frames) >= capacity)]_vars

\* The buffer implements the order and loss rules of FrameChannel.
Contents == {frames[i] : i \in 1..Len(frames)}

Channel == INSTANCE FrameChannel
             WITH held <- Contents, lastTaken <- lastPolled, dropped <- droppedFrames

ImplementsChannel == Channel!ChannelSpec
=============================================================================
