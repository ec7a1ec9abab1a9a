---------------------------- MODULE BuffersProofs ----------------------------
(***************************************************************************)
(* What frames and datagrams wait in, as MCBuffers composes it: FrameBuffer  *)
(* keeps its books and implements FrameChannel, for every capacity and every *)
(* mode; DatagramQueue (Queue) keeps each datagram two threads pass through  *)
(* it, for every number of consumers, every size and every limit.            *)
(***************************************************************************)
EXTENDS MCBuffers, Integers, FiniteSetTheorems, WellFoundedInduction, TLAPS

Ordering ==
  /\ lastPolled <= offered
  /\ \A i \in 1..Len(frames) : lastPolled < frames[i] /\ frames[i] <= offered
  /\ \A i, j \in 1..Len(frames) : i < j => frames[i] < frames[j]

IInv ==
  /\ TypeOK
  /\ NoSilentLoss
  /\ HeldIsNewestAccepted
  /\ ModeKeepsItsPromise
  /\ Ordering

\* Dropping the oldest and appending the newest, as element-wise facts.
LEMMA TailFacts ==
  ASSUME NEW q \in Seq(Nat), q # <<>>
  PROVE  /\ Head(q) = q[1] /\ Head(q) \in Nat
         /\ Len(q) \in Nat \ {0}
         /\ Tail(q) \in Seq(Nat)
         /\ Len(Tail(q)) = Len(q) - 1
         /\ \A i \in 1..Len(Tail(q)) : Tail(q)[i] = q[i + 1]
  OBVIOUS

LEMMA AppendFacts ==
  ASSUME NEW q \in Seq(Nat), NEW e \in Nat
  PROVE  /\ Append(q, e) \in Seq(Nat)
         /\ Len(Append(q, e)) = Len(q) + 1
         /\ \A i \in 1..Len(q) : Append(q, e)[i] = q[i]
         /\ Append(q, e)[Len(q) + 1] = e
  OBVIOUS

LEMMA InitInvariant == Init => IInv
  BY CapacityAssumption, MaxPushesAssumption
  DEF Init, Normalised, IInv, TypeOK, NoSilentLoss, HeldIsNewestAccepted, ModeKeepsItsPromise,
      Ordering

\* What Admit is given: `kept` is what is left of `frames` once its `lost` oldest
\* are displaced, and the mode allows both.
KeepsNewest(kept, lost) ==
  /\ kept \in Seq(Nat) /\ lost \in Nat
  /\ Len(kept) + lost = Len(frames)
  /\ \A i \in 1..Len(kept) : kept[i] = frames[lost + i]
  /\ Len(kept) + 1 <= (IF mode = "Latest" THEN 1 ELSE capacity)
  /\ mode = "Lossless" => lost = 0

\* The one lemma behind the three accepting pushes: keeping the newest frames
\* and appending the offered one preserves order and accounting.
LEMMA AdmitKeeps ==
  ASSUME IInv, offered < MaxPushes, offered' = offered + 1,
         NEW kept, NEW lost, KeepsNewest(kept, lost), Admit(kept, lost)
  PROVE  IInv'
<1>0. offered \in Nat /\ lost \in Nat /\ MaxPushes \in Nat
  BY MaxPushesAssumption DEF IInv, TypeOK, KeepsNewest
<1>1. frames \in Seq(Nat) /\ accepted \in Seq(Nat) /\ kept \in Seq(Nat)
  BY DEF IInv, TypeOK, KeepsNewest
<1>2. /\ frames' = Append(kept, offered + 1)
      /\ accepted' = Append(accepted, offered + 1)
  BY DEF Admit
<1>3. /\ Len(kept) \in Nat /\ Len(frames) \in Nat /\ Len(accepted) \in Nat
      /\ Len(kept) + lost = Len(frames)
      /\ Len(frames') = Len(kept) + 1
      /\ Len(accepted') = Len(accepted) + 1
  <2>1. Len(kept) + lost = Len(frames)
    BY DEF KeepsNewest
  <2> QED BY <1>0, <1>1, <1>2, <2>1, AppendFacts
<1>4. /\ frames' \in Seq(Nat) /\ accepted' \in Seq(Nat)
      /\ \A i \in 1..Len(kept) : frames'[i] = kept[i]
      /\ frames'[Len(kept) + 1] = offered + 1
      /\ \A i \in 1..Len(accepted) : accepted'[i] = accepted[i]
      /\ accepted'[Len(accepted) + 1] = offered + 1
  BY <1>0, <1>1, <1>2, AppendFacts
<1>5. \A i \in 1..Len(kept) : frames'[i] = frames[lost + i]
  BY <1>4 DEF KeepsNewest
<1>6. TypeOK'
  BY <1>0, <1>4 DEF IInv, TypeOK, Admit
<1>7. NoSilentLoss'
  <2>1. /\ pushedFrames \in Nat /\ polledFrames \in Nat /\ droppedFrames \in Nat
        /\ skippedFrames \in Nat /\ rejectedFrames \in Nat /\ clearedFrames \in Nat
    BY DEF IInv, TypeOK
  <2>2. /\ offered = pushedFrames + rejectedFrames
        /\ pushedFrames = polledFrames + droppedFrames + clearedFrames + Len(frames)
        /\ skippedFrames = droppedFrames
    BY DEF IInv, NoSilentLoss
  <2>3. /\ pushedFrames' = pushedFrames + 1 /\ droppedFrames' = droppedFrames + lost
        /\ skippedFrames' = skippedFrames + lost /\ polledFrames' = polledFrames
        /\ rejectedFrames' = rejectedFrames /\ clearedFrames' = clearedFrames
    BY DEF Admit
  <2> QED BY <1>0, <1>3, <2>1, <2>2, <2>3, SMTT(30) DEF NoSilentLoss
<1>8. HeldIsNewestAccepted'
  <2>1. /\ Len(frames) <= Len(accepted)
        /\ \A i \in 1..Len(frames) :
             frames[i] = accepted[Len(accepted) - Len(frames) + i]
    BY DEF IInv, HeldIsNewestAccepted
  <2>2. Len(frames') <= Len(accepted')
    BY <1>0, <1>3, <2>1
  <2>3. ASSUME NEW i \in 1..Len(frames')
        PROVE  frames'[i] = accepted'[Len(accepted') - Len(frames') + i]
    <3>1. CASE i = Len(kept) + 1
      <4>1. Len(accepted') - Len(frames') + i = Len(accepted) + 1
        BY <3>1, <1>3
      <4> QED BY <4>1, <3>1, <1>4
    <3>2. CASE i \in 1..Len(kept)
      <4> DEFINE place == Len(accepted) - Len(frames) + (lost + i)
      <4>0. Len(frames) <= Len(accepted)
        BY <2>1
      <4>1. /\ lost + i \in 1..Len(frames)
            /\ place \in 1..Len(accepted)
            /\ Len(accepted') - Len(frames') + i = place
        BY <3>2, <1>0, <1>3, <4>0
      <4>2. frames'[i] = frames[lost + i]
        BY <3>2, <1>5
      <4>3. frames[lost + i] = accepted[place]
        BY <4>1, <2>1
      <4>4. accepted'[place] = accepted[place]
        BY <4>1, <1>4
      <4> QED BY <4>1, <4>2, <4>3, <4>4
    <3> QED BY <3>1, <3>2, <1>3
  <2> QED BY <2>2, <2>3 DEF HeldIsNewestAccepted
<1>9. ModeKeepsItsPromise'
  <2>1. /\ mode' = mode /\ capacity' = capacity /\ rejectedFrames' = rejectedFrames
        /\ droppedFrames' = droppedFrames + lost
    BY DEF Admit
  <2>2. /\ Len(frames') <= (IF mode = "Latest" THEN 1 ELSE capacity)
        /\ mode = "Lossless" => lost = 0
    BY <1>3 DEF KeepsNewest
  <2>3. /\ mode = "Lossless" => droppedFrames = 0
        /\ mode # "Lossless" => rejectedFrames = 0
    BY DEF IInv, ModeKeepsItsPromise
  <2> QED BY <2>1, <2>2, <2>3 DEF ModeKeepsItsPromise
<1>10. Ordering'
  <2>1. /\ lastPolled \in Nat /\ lastPolled' = lastPolled
    BY DEF Admit, IInv, TypeOK
  <2>2. /\ lastPolled <= offered
        /\ \A i \in 1..Len(frames) : lastPolled < frames[i] /\ frames[i] <= offered
        /\ \A i, j \in 1..Len(frames) : i < j => frames[i] < frames[j]
    BY DEF IInv, Ordering
  <2>3. ASSUME NEW i \in 1..Len(kept)
        PROVE  /\ lost + i \in 1..Len(frames)
               /\ frames'[i] = frames[lost + i]
               /\ frames'[i] \in Nat
               /\ lastPolled < frames'[i] /\ frames'[i] <= offered
    <3>1. lost + i \in 1..Len(frames)
      BY <1>0, <1>3
    <3> QED BY <3>1, <1>0, <1>1, <1>5, <2>2
  <2>4. ASSUME NEW i \in 1..Len(frames')
        PROVE  lastPolled' < frames'[i] /\ frames'[i] <= offered'
    <3>1. CASE i = Len(kept) + 1
      BY <3>1, <1>0, <1>4, <2>1, <2>2
    <3>2. CASE i \in 1..Len(kept)
      BY <3>2, <1>0, <2>1, <2>3
    <3> QED BY <3>1, <3>2, <1>3
  <2>5. ASSUME NEW i \in 1..Len(frames'), NEW j \in 1..Len(frames'), i < j
        PROVE  frames'[i] < frames'[j]
    <3>1. i \in 1..Len(kept)
      BY <2>5, <1>3
    <3>2. CASE j = Len(kept) + 1
      <4>1. frames'[j] = offered + 1
        BY <3>2, <1>4
      <4>2. frames'[i] \in Nat /\ frames'[i] <= offered
        BY <3>1, <2>3
      <4> QED BY <4>1, <4>2, <1>0
    <3>3. CASE j \in 1..Len(kept)
      <4>1. lost + i < lost + j
        BY <2>5, <1>0, <1>3
      <4> QED BY <4>1, <3>1, <3>3, <2>2, <2>3
    <3> QED BY <3>2, <3>3, <1>3
  <2>6. lastPolled' <= offered'
    BY <1>0, <2>1, <2>2
  <2> QED BY <2>4, <2>5, <2>6 DEF Ordering
<1> QED BY <1>6, <1>7, <1>8, <1>9, <1>10 DEF IInv

LEMMA PushKeeps == ASSUME IInv, Push PROVE IInv'
<1>1. /\ offered < MaxPushes /\ offered' = offered + 1
      /\ frames \in Seq(Nat) /\ capacity \in Nat \ {0}
  BY DEF Push, IInv, TypeOK
<1>2. CASE PushLatest
  <2>1. Len(<<>>) = 0 /\ <<>> \in Seq(Nat) /\ Len(frames) \in Nat
    BY <1>1
  <2>2. KeepsNewest(<<>>, Len(frames))
    BY <1>2, <2>1 DEF KeepsNewest, PushLatest
  <2> QED BY <1>1, <1>2, <2>2, AdmitKeeps DEF PushLatest
<1>3. CASE PushRoom
  <2>1. KeepsNewest(frames, 0)
    BY <1>1, <1>3 DEF KeepsNewest, PushRoom, Full
  <2> QED BY <1>1, <1>3, <2>1, AdmitKeeps DEF PushRoom
<1>4. CASE PushOverflow
  <2>1. frames # <<>> /\ mode = "Ordered" /\ Len(frames) <= capacity
    BY <1>1, <1>4 DEF PushOverflow, Full, IInv, ModeKeepsItsPromise
  <2>2. KeepsNewest(Tail(frames), 1)
    BY <1>1, <2>1, TailFacts DEF KeepsNewest
  <2> QED BY <1>1, <1>4, <2>2, AdmitKeeps DEF PushOverflow
<1>5. CASE PushBackpressure
  <2>1. TypeOK'
    BY <1>1, <1>5, MaxPushesAssumption DEF PushBackpressure, IInv, TypeOK
  <2>2. NoSilentLoss' /\ ModeKeepsItsPromise'
    BY <1>1, <1>5 DEF PushBackpressure, IInv, TypeOK, NoSilentLoss, ModeKeepsItsPromise
  <2>3. HeldIsNewestAccepted'
    BY <1>5 DEF PushBackpressure, IInv, HeldIsNewestAccepted
  <2>4. Ordering'
    BY <1>1, <1>5 DEF PushBackpressure, IInv, TypeOK, Ordering
  <2> QED BY <2>1, <2>2, <2>3, <2>4 DEF IInv
<1> QED BY <1>2, <1>3, <1>4, <1>5 DEF Push

LEMMA PollKeeps == ASSUME IInv, Poll PROVE IInv'
<1> USE DEF IInv, TypeOK
<1>1. /\ Len(frames) \in Nat \ {0}
      /\ lastPolled' = frames[1] /\ lastPolled' \in Nat
      /\ frames' \in Seq(Nat)
      /\ Len(frames') = Len(frames) - 1
      /\ \A i \in 1..Len(frames') : frames'[i] = frames[i + 1]
  BY TailFacts DEF Poll
<1>2. TypeOK' /\ NoSilentLoss' /\ ModeKeepsItsPromise'
  BY <1>1 DEF Poll, NoSilentLoss, ModeKeepsItsPromise
<1>3. HeldIsNewestAccepted'
  <2>1. /\ Len(frames) <= Len(accepted) /\ accepted' = accepted
        /\ \A i \in 1..Len(frames) :
             frames[i] = accepted[Len(accepted) - Len(frames) + i]
    BY DEF Poll, HeldIsNewestAccepted
  <2>2. Len(accepted) \in Nat
    OBVIOUS
  <2>3. ASSUME NEW i \in 1..Len(frames')
        PROVE  frames'[i] = accepted[Len(accepted) - Len(frames') + i]
    <3>1. /\ i + 1 \in 1..Len(frames)
          /\ Len(accepted) - Len(frames) + (i + 1) = Len(accepted) - Len(frames') + i
      BY <1>1, <2>2
    <3> QED BY <3>1, <1>1, <2>1
  <2> QED BY <1>1, <2>1, <2>2, <2>3 DEF HeldIsNewestAccepted
<1>4. Ordering'
  BY <1>1 DEF Poll, Ordering
<1> QED BY <1>2, <1>3, <1>4

LEMMA ClearKeeps == ASSUME IInv, Clear PROVE IInv'
  BY DEF IInv, TypeOK, Clear, stats, NoSilentLoss, HeldIsNewestAccepted,
         ModeKeepsItsPromise, Ordering

LEMMA StepKeeps == IInv /\ [Next]_vars => IInv'
<1> SUFFICES ASSUME IInv, [Next]_vars PROVE IInv'
  OBVIOUS
<1>1. CASE UNCHANGED vars
  BY <1>1 DEF vars, stats, history, IInv, TypeOK, NoSilentLoss, HeldIsNewestAccepted,
              ModeKeepsItsPromise, Ordering, Full
<1> QED BY <1>1, PushKeeps, PollKeeps, ClearKeeps DEF Next

\* The strengthened invariant holds in every reachable state.
THEOREM InductiveInvariant == Spec => []IInv
  BY InitInvariant, StepKeeps, PTL DEF Spec

\* Type correctness of the buffer's state.
THEOREM TypeCorrect == Spec => []TypeOK
  BY InductiveInvariant, PTL DEF IInv

\* Every frame pushed is polled, counted as dropped or rejected, discarded by a
\* Clear or still held: FrameBuffer::Push, Poll and Clear keep the statistics in
\* step with the contents for every capacity and mode.
THEOREM Accounting == Spec => []NoSilentLoss
  BY InductiveInvariant, PTL DEF IInv

\* The held frames are the newest accepted ones, contiguous, in every mode.
THEOREM NewestHeld == Spec => []HeldIsNewestAccepted
  BY InductiveInvariant, PTL DEF IInv

\* Each mode's declared bound and loss rule.
THEOREM ModePromise == Spec => []ModeKeepsItsPromise
  BY InductiveInvariant, PTL DEF IInv

\* The invariant the runs check, whole: the types, the accounting, what is held
\* and each mode's promise, for every capacity and every bound on the history.
THEOREM BufferSafety == Spec => []BufferInvariant
  BY TypeCorrect, Accounting, NewestHeld, ModePromise, PTL DEF BufferInvariant

-----------------------------------------------------------------------------

Elements(q) == {q[i] : i \in 1..Len(q)}

LEMMA ElementsOfAppend ==
  ASSUME NEW q \in Seq(Nat), NEW e \in Nat
  PROVE  Elements(Append(q, e)) = Elements(q) \cup {e}
<1>1. Len(q) \in Nat /\ Len(Append(q, e)) = Len(q) + 1
  OBVIOUS
<1>2. 1..(Len(q) + 1) = (1..Len(q)) \cup {Len(q) + 1}
  BY <1>1
<1>3. /\ \A i \in 1..Len(q) : Append(q, e)[i] = q[i]
      /\ Append(q, e)[Len(q) + 1] = e
  BY AppendFacts
<1> QED BY <1>1, <1>2, <1>3 DEF Elements

\* In an ordered buffer the head is the minimum, and the tail is everything else.
LEMMA OldestLeaves ==
  ASSUME IInv, frames # <<>>
  PROVE  /\ Head(frames) \in Contents
         /\ \A other \in Contents : Head(frames) <= other
         /\ Elements(Tail(frames)) = Contents \ {Head(frames)}
<1>1. /\ frames \in Seq(Nat)
      /\ \A i \in 1..Len(frames), j \in 1..Len(frames) : i < j => frames[i] < frames[j]
  BY DEF IInv, TypeOK, Ordering
<1>2. /\ Head(frames) = frames[1]
      /\ Len(frames) \in Nat \ {0}
      /\ Len(Tail(frames)) = Len(frames) - 1
      /\ \A i \in 1..Len(Tail(frames)) : Tail(frames)[i] = frames[i + 1]
  BY <1>1, TailFacts
<1>3. \A i \in 1..Len(frames) : frames[i] \in Nat
  BY <1>1
<1>4. 1 \in 1..Len(frames)
  BY <1>2
<1>5. \A i \in 2..Len(frames) : frames[1] < frames[i]
  BY <1>1, <1>2, <1>4
<1>6. Head(frames) \in Contents /\ \A other \in Contents : Head(frames) <= other
  <2>1. ASSUME NEW i \in 1..Len(frames) PROVE frames[1] <= frames[i]
    <3>1. CASE i = 1
      BY <3>1, <1>3, <1>4
    <3>2. CASE i \in 2..Len(frames)
      BY <3>2, <1>3, <1>4, <1>5
    <3> QED BY <3>1, <3>2, <1>2
  <2> QED BY <2>1, <1>2, <1>4 DEF Contents
<1>7. Elements(Tail(frames)) \subseteq Contents \ {Head(frames)}
  <2> SUFFICES ASSUME NEW i \in 1..Len(Tail(frames))
               PROVE  Tail(frames)[i] \in Contents \ {Head(frames)}
    BY DEF Elements
  <2>1. i + 1 \in 2..Len(frames) /\ i + 1 \in 1..Len(frames)
    BY <1>2
  <2>2. Tail(frames)[i] = frames[i + 1] /\ frames[1] < frames[i + 1]
    BY <2>1, <1>2, <1>5
  <2> QED BY <2>1, <2>2, <1>2, <1>3, <1>4 DEF Contents
<1>8. Contents \ {Head(frames)} \subseteq Elements(Tail(frames))
  <2> SUFFICES ASSUME NEW i \in 1..Len(frames), frames[i] # Head(frames)
               PROVE  frames[i] \in Elements(Tail(frames))
    BY DEF Contents
  <2>1. i - 1 \in 1..Len(Tail(frames)) /\ (i - 1) + 1 = i
    BY <1>2
  <2>2. Tail(frames)[i - 1] = frames[i]
    BY <2>1, <1>2
  <2> QED BY <2>1, <2>2 DEF Elements
<1> QED BY <1>6, <1>7, <1>8

LEMMA PushRefines == IInv /\ Push => Channel!ChannelNext
<1> SUFFICES ASSUME IInv, Push PROVE Channel!ChannelNext
  OBVIOUS
<1>1. /\ frames \in Seq(Nat) /\ Len(frames) \in Nat /\ offered \in Nat
      /\ capacity \in Nat \ {0} /\ offered' = offered + 1 /\ droppedFrames \in Nat
  BY DEF IInv, TypeOK, Push
<1>2. Contents = Elements(frames) /\ Contents' = Elements(frames')
  BY DEF Contents, Elements
<1>3. ASSUME frames' = Append(frames, offered + 1), lastPolled' = lastPolled,
             droppedFrames' = droppedFrames
      PROVE  Channel!ChannelNext
  <2>1. Contents' = Contents \cup {offered + 1}
    BY <1>1, <1>2, <1>3, ElementsOfAppend
  <2> QED BY <1>1, <1>3, <2>1 DEF Channel!Accept, Channel!ChannelNext
<1>4. ASSUME frames # <<>>, frames' = Append(Tail(frames), offered + 1),
             lastPolled' = lastPolled, droppedFrames' = droppedFrames + 1
      PROVE  Channel!ChannelNext
  <2>1. Tail(frames) \in Seq(Nat)
    BY <1>1, <1>4, TailFacts
  <2>2. Contents' = Elements(Tail(frames)) \cup {offered + 1}
    <3>1. offered + 1 \in Nat
      BY <1>1
    <3>2. Elements(Append(Tail(frames), offered + 1))
            = Elements(Tail(frames)) \cup {offered + 1}
      BY <2>1, <3>1, ElementsOfAppend
    <3> QED BY <3>2, <1>2, <1>4
  <2>3. Contents' = (Contents \ {Head(frames)}) \cup {offered + 1}
    BY <2>2, <1>4, OldestLeaves
  <2>4. /\ Head(frames) \in Contents
        /\ \A other \in Contents : Head(frames) <= other
    BY <1>4, OldestLeaves
  <2> QED BY <1>1, <1>4, <2>3, <2>4 DEF Channel!Displace, Channel!ChannelNext
<1>5. CASE PushLatest
  <2>1. Len(frames) = 0 \/ Len(frames) = 1
    <3>1. Len(frames) <= (IF mode = "Latest" THEN 1 ELSE capacity)
      BY DEF IInv, ModeKeepsItsPromise
    <3>2. mode = "Latest" /\ Len(frames) \in Nat
      BY <1>1, <1>5 DEF PushLatest
    <3>3. Len(frames) <= 1
      BY <3>1, <3>2
    <3> QED BY <3>2, <3>3
  <2>2. /\ frames' = Append(<<>>, offered + 1)
        /\ lastPolled' = lastPolled /\ droppedFrames' = droppedFrames + Len(frames)
    BY <1>5 DEF PushLatest, Admit
  <2>3. CASE Len(frames) = 0
    <3>1. frames = <<>>
      BY <1>1, <2>3
    <3> QED BY <3>1, <2>2, <2>3, <1>1, <1>3
  <2>4. CASE Len(frames) = 1
    <3>0. frames # <<>>
      BY <1>1, <2>4
    <3>1. Tail(frames) = <<>>
      <4> DEFINE rest == Tail(frames)
      <4>1. rest \in Seq(Nat) /\ Len(rest) = 0
        BY <1>1, <2>4, <3>0, TailFacts
      <4> HIDE DEF rest
      <4>2. rest = <<>>
        BY <4>1
      <4> QED BY <4>2 DEF rest
    <3> QED BY <3>0, <3>1, <2>2, <2>4, <1>1, <1>4
  <2> QED BY <2>1, <2>3, <2>4
<1>6. CASE PushRoom
  <2>1. /\ frames' = Append(frames, offered + 1) /\ lastPolled' = lastPolled
        /\ droppedFrames' = droppedFrames + 0
    BY <1>6 DEF PushRoom, Admit
  <2> QED BY <2>1, <1>1, <1>3
<1>7. CASE PushOverflow
  <2>1. /\ frames' = Append(Tail(frames), offered + 1) /\ lastPolled' = lastPolled
        /\ droppedFrames' = droppedFrames + 1
    BY <1>7 DEF PushOverflow, Admit
  <2>2. frames # <<>>
    BY <1>1, <1>7 DEF PushOverflow, Full
  <2> QED BY <2>1, <2>2, <1>4
<1>8. CASE PushBackpressure
  <2>1. /\ frames' = frames /\ lastPolled' = lastPolled /\ droppedFrames' = droppedFrames
    BY <1>8 DEF PushBackpressure
  <2>2. Contents' = Contents
    BY <2>1, <1>2
  <2> QED BY <1>1, <2>1, <2>2 DEF Channel!Refuse, Channel!ChannelNext
<1> QED BY <1>5, <1>6, <1>7, <1>8 DEF Push

LEMMA PollRefines == IInv /\ Poll => Channel!ChannelNext
<1> SUFFICES ASSUME IInv, Poll PROVE Channel!ChannelNext
  OBVIOUS
<1>1. /\ frames # <<>> /\ frames' = Tail(frames) /\ lastPolled' = Head(frames)
      /\ offered' = offered /\ droppedFrames' = droppedFrames
  BY DEF Poll
<1>2. Contents' = Elements(Tail(frames))
  BY <1>1 DEF Contents, Elements
<1>3. /\ Head(frames) \in Contents
      /\ \A other \in Contents : Head(frames) <= other
      /\ Contents' = Contents \ {Head(frames)}
  BY <1>1, <1>2, OldestLeaves
<1> QED BY <1>1, <1>3 DEF Channel!Take, Channel!ChannelNext

LEMMA ClearRefines == Clear => Channel!ChannelNext
<1> SUFFICES ASSUME Clear PROVE Channel!ChannelNext
  OBVIOUS
<1>1. Contents' = {} /\ offered' = offered /\ lastPolled' = lastPolled
      /\ droppedFrames' = droppedFrames
  BY DEF Clear, Contents, stats
<1> QED BY <1>1 DEF Channel!Discard, Channel!ChannelNext

\* The buffer, in each of its modes, is an implementation of FrameChannel: frames
\* leave in order, only the oldest is displaced, and every displacement counts.
THEOREM BufferImplementsChannel == Spec => ImplementsChannel
<1>1. Init => Channel!ChannelInit
  BY DEF Init, Contents, Channel!ChannelInit
<1>2. IInv /\ [Next]_vars => [Channel!ChannelNext]_(Channel!channelVars)
  <2> SUFFICES ASSUME IInv, [Next]_vars
               PROVE  [Channel!ChannelNext]_(Channel!channelVars)
    OBVIOUS
  <2>1. CASE UNCHANGED vars
    BY <2>1 DEF vars, stats, history, Contents, Channel!channelVars
  <2> QED BY <2>1, PushRefines, PollRefines, ClearRefines DEF Next
<1> QED BY <1>1, <1>2, InductiveInvariant, PTL DEF Spec, ImplementsChannel, Channel!ChannelSpec

\* Poll never hands out a frame that is not newer than the one before it.
THEOREM PollOrder == Spec => PollsAdvance
<1>1. IInv /\ [Next]_vars => [polledFrames' # polledFrames => lastPolled' > lastPolled]_vars
  <2> SUFFICES ASSUME IInv, Next, polledFrames' # polledFrames
               PROVE  lastPolled' > lastPolled
    OBVIOUS
  <2>1. Poll
    BY DEF Next, Push, PushLatest, PushRoom, PushOverflow, PushBackpressure, Admit, Clear, stats
  <2>2. /\ frames \in Seq(Nat) /\ frames # <<>> /\ lastPolled' = Head(frames)
    BY <2>1 DEF Poll, IInv, TypeOK
  <2>3. Head(frames) = frames[1] /\ 1 \in 1..Len(frames)
    BY <2>2, TailFacts
  <2>4. lastPolled < frames[1] /\ frames[1] \in Nat /\ lastPolled \in Nat
    BY <2>2, <2>3 DEF IInv, TypeOK, Ordering
  <2> QED BY <2>2, <2>3, <2>4
<1> QED BY <1>1, InductiveInvariant, PTL DEF Spec, PollsAdvance

\* FrameBuffer::Push displaces a frame only in Latest mode or when the capacity
\* forces it: an Ordered buffer with room keeps everything.
THEOREM DropsAreForced == Spec => DropsOnlyWhenFull
<1>1. IInv /\ [Next]_vars =>
        [droppedFrames' > droppedFrames => (mode = "Latest" \/ Len(frames) >= capacity)]_vars
  <2> SUFFICES ASSUME IInv, Next, droppedFrames' > droppedFrames,
                      mode # "Latest", ~(Len(frames) >= capacity)
               PROVE  FALSE
    OBVIOUS
  <2>1. droppedFrames' = droppedFrames
    <3>1. droppedFrames \in Nat
      BY DEF IInv, TypeOK
    <3>2. CASE Push
      BY <3>1, <3>2 DEF Push, PushLatest, PushRoom, PushOverflow, PushBackpressure, Admit, Full
    <3>3. CASE Poll
      BY <3>3 DEF Poll
    <3>4. CASE Clear
      BY <3>4 DEF Clear, stats
    <3> QED BY <3>2, <3>3, <3>4 DEF Next
  <2> QED BY <2>1 DEF IInv, TypeOK
<1> QED BY <1>1, InductiveInvariant, PTL DEF Spec, DropsOnlyWhenFull

-----------------------------------------------------------------------------
(* DatagramQueue: where each datagram is, and in what order.               *)

Ordered(s) == \A i, j \in 1..Len(s) : i < j => s[i].id < s[j].id

Before(older, newer) == \A x \in older, y \in newer : x < y

Held(c) == Queue!Ids(taken[c]) \cup Queue!Ids(out[c])

Gone == displaced \cup discarded

Queues ==
  /\ queued \in Seq(Queue!Datagram)
  /\ taken \in [Consumers -> Seq(Queue!Datagram)]
  /\ out \in [Consumers -> Seq(Queue!Datagram)]
  /\ arrived \in 0..MaxQueued

\* The number of each datagram is in one place.
Places ==
  /\ Queue!Ids(queued) \cup Gone \cup UNION {Held(c) : c \in Consumers} = 1..arrived
  /\ Queue!Ids(queued) \cap Gone = {}
  /\ displaced \cap discarded = {}
  /\ \A c \in Consumers :
       Held(c) \cap (Gone \cup Queue!Ids(queued)) = {} /\ Queue!Ids(taken[c]) \cap Queue!Ids(out[c]) = {}
  /\ \A c \in Consumers : \A other \in Consumers \ {c} : Held(c) \cap Held(other) = {}

\* Every sequence is in order, and what a consumer has is older than the queue.
InOrder ==
  /\ Ordered(queued)
  /\ \A c \in Consumers :
       /\ Ordered(taken[c]) /\ Ordered(out[c])
       /\ Before(Queue!Ids(out[c]), Queue!Ids(taken[c])) /\ Before(Held(c), Queue!Ids(queued))

PlaceInv == Queues /\ Places /\ InOrder

TallyInv ==
  /\ pushed \in Nat /\ drained \in Nat /\ dropped \in Nat /\ window \in Int
  /\ Queue!TallyMatchesTraffic

-----------------------------------------------------------------------------
(* Sequences of datagrams.                                                  *)

LEMMA NumberFacts ==
  ASSUME Queue!BoundsAssumption, NEW s \in Seq(Queue!Datagram)
  PROVE  /\ Len(s) \in Nat
         /\ \A i \in 1..Len(s) : s[i] \in Queue!Datagram /\ s[i].id \in 1..MaxQueued
         /\ Queue!Ids(s) \subseteq 1..MaxQueued
<1>1. \A i \in 1..Len(s) : s[i] \in Queue!Datagram
  OBVIOUS
<1>2. \A d \in Queue!Datagram : d.id \in 1..MaxQueued
  BY DEF Queue!Datagram
<1> QED BY <1>1, <1>2 DEF Queue!Ids

LEMMA NoneFacts == <<>> \in Seq(Queue!Datagram) /\ Queue!Ids(<<>>) = {} /\ Ordered(<<>>)
  BY DEF Queue!Ids, Ordered

LEMMA JoinFacts ==
  ASSUME Queue!BoundsAssumption, NEW s \in Seq(Queue!Datagram), NEW t \in Seq(Queue!Datagram)
  PROVE  /\ s \o t \in Seq(Queue!Datagram)
         /\ Queue!Ids(s \o t) = Queue!Ids(s) \cup Queue!Ids(t)
         /\ Ordered(s) /\ Ordered(t) /\ Before(Queue!Ids(s), Queue!Ids(t)) => Ordered(s \o t)
<1>1. s \o t \in Seq(Queue!Datagram) /\ Len(s \o t) = Len(s) + Len(t) /\ Len(s) \in Nat /\ Len(t) \in Nat
  OBVIOUS
<1>2. \A i \in 1..Len(s) : (s \o t)[i] = s[i]
  OBVIOUS
<1>3. \A i \in 1..Len(t) : (s \o t)[Len(s) + i] = t[i]
  OBVIOUS
<1>4. \A i \in 1..Len(s \o t) :
        i \in 1..Len(s) \/ \E k \in 1..Len(t) : i = Len(s) + k
  <2> SUFFICES ASSUME NEW i \in 1..Len(s \o t), i > Len(s)
               PROVE  \E k \in 1..Len(t) : i = Len(s) + k
    BY <1>1
  <2> i - Len(s) \in 1..Len(t) /\ i = Len(s) + (i - Len(s))
    BY <1>1
  <2> QED OBVIOUS
<1>5. Queue!Ids(s \o t) \subseteq Queue!Ids(s) \cup Queue!Ids(t)
  <2> SUFFICES ASSUME NEW i \in 1..Len(s \o t)
               PROVE  (s \o t)[i].id \in Queue!Ids(s) \cup Queue!Ids(t)
    BY DEF Queue!Ids
  <2>1. CASE i \in 1..Len(s)
    BY <2>1, <1>2 DEF Queue!Ids
  <2>2. CASE \E k \in 1..Len(t) : i = Len(s) + k
    BY <2>2, <1>3 DEF Queue!Ids
  <2> QED BY <2>1, <2>2, <1>4
<1>6. Queue!Ids(s) \cup Queue!Ids(t) \subseteq Queue!Ids(s \o t)
  <2>1. \A i \in 1..Len(s) : i \in 1..Len(s \o t) /\ (s \o t)[i].id = s[i].id
    BY <1>1, <1>2
  <2>2. \A i \in 1..Len(t) : Len(s) + i \in 1..Len(s \o t) /\ (s \o t)[Len(s) + i].id = t[i].id
    BY <1>1, <1>3
  <2>3. Queue!Ids(s) \subseteq Queue!Ids(s \o t)
    <3> SUFFICES ASSUME NEW i \in 1..Len(s) PROVE s[i].id \in Queue!Ids(s \o t)
      BY DEF Queue!Ids
    <3> QED BY <2>1 DEF Queue!Ids
  <2>4. Queue!Ids(t) \subseteq Queue!Ids(s \o t)
    <3> SUFFICES ASSUME NEW i \in 1..Len(t) PROVE t[i].id \in Queue!Ids(s \o t)
      BY DEF Queue!Ids
    <3> QED BY <2>2 DEF Queue!Ids
  <2> QED BY <2>3, <2>4
<1>7. ASSUME Ordered(s), Ordered(t), Before(Queue!Ids(s), Queue!Ids(t))
      PROVE  Ordered(s \o t)
  <2> SUFFICES ASSUME NEW i \in 1..Len(s \o t), NEW j \in 1..Len(s \o t), i < j
               PROVE  (s \o t)[i].id < (s \o t)[j].id
    BY DEF Ordered
  <2>1. CASE i \in 1..Len(s) /\ j \in 1..Len(s)
    BY <2>1, <1>2, <1>7 DEF Ordered
  <2>2. CASE i \in 1..Len(s) /\ \E k \in 1..Len(t) : j = Len(s) + k
    <3> PICK k \in 1..Len(t) : j = Len(s) + k
      BY <2>2
    <3>1. s[i].id \in Queue!Ids(s) /\ t[k].id \in Queue!Ids(t)
      BY <2>2 DEF Queue!Ids
    <3> QED BY <3>1, <2>2, <1>2, <1>3, <1>7 DEF Before
  <2>3. CASE i \notin 1..Len(s)
    <3>1. PICK k \in 1..Len(t) : i = Len(s) + k
      BY <2>3, <1>4
    <3>2. j \notin 1..Len(s)
      BY <2>3, <1>1
    <3>3. PICK l \in 1..Len(t) : j = Len(s) + l
      BY <3>2, <1>4
    <3>4. k < l
      BY <3>1, <3>3, <1>1
    <3> QED BY <3>1, <3>3, <3>4, <1>3, <1>7 DEF Ordered
  <2> QED BY <2>1, <2>2, <2>3, <1>4
<1> QED BY <1>1, <1>5, <1>6, <1>7

LEMMA SplitFacts ==
  ASSUME Queue!BoundsAssumption, NEW s \in Seq(Queue!Datagram), NEW k \in 0..Len(s)
  PROVE  LET oldest == SubSeq(s, 1, k)
             rest == SubSeq(s, k + 1, Len(s))
         IN  /\ oldest \in Seq(Queue!Datagram) /\ rest \in Seq(Queue!Datagram)
             /\ Len(rest) = Len(s) - k
             /\ Queue!Ids(s) = Queue!Ids(oldest) \cup Queue!Ids(rest)
             /\ Ordered(s) => Ordered(rest) /\ Before(Queue!Ids(oldest), Queue!Ids(rest))
<1> DEFINE oldest == SubSeq(s, 1, k)
           rest == SubSeq(s, k + 1, Len(s))
<1>1. /\ oldest \in Seq(Queue!Datagram) /\ rest \in Seq(Queue!Datagram)
      /\ Len(oldest) = k /\ Len(rest) = Len(s) - k /\ Len(s) \in Nat
  OBVIOUS
<1>2. \A i \in 1..k : oldest[i] = s[i]
  OBVIOUS
<1>3. \A i \in 1..(Len(s) - k) : rest[i] = s[k + i]
  OBVIOUS
<1> HIDE DEF oldest, rest
<1>4. Queue!Ids(oldest) = {s[i].id : i \in 1..k}
  BY <1>1, <1>2 DEF Queue!Ids
<1>5. Queue!Ids(rest) = {s[i].id : i \in (k + 1)..Len(s)}
  <2>1. \A i \in 1..Len(rest) : k + i \in (k + 1)..Len(s) /\ rest[i].id = s[k + i].id
    BY <1>1, <1>3
  <2>2. \A i \in (k + 1)..Len(s) : i - k \in 1..Len(rest) /\ rest[i - k].id = s[i].id
    BY <1>1, <1>3
  <2>3. Queue!Ids(rest) = {rest[i].id : i \in 1..Len(rest)}
    BY DEF Queue!Ids
  <2>4. Queue!Ids(rest) \subseteq {s[i].id : i \in (k + 1)..Len(s)}
    BY <2>1, <2>3
  <2>5. {s[i].id : i \in (k + 1)..Len(s)} \subseteq Queue!Ids(rest)
    BY <2>2, <2>3
  <2> QED BY <2>4, <2>5
<1>6. Queue!Ids(s) = Queue!Ids(oldest) \cup Queue!Ids(rest)
  <2>1. 1..Len(s) = 1..k \cup (k + 1)..Len(s)
    BY <1>1
  <2> QED BY <2>1, <1>4, <1>5 DEF Queue!Ids
<1>7. ASSUME Ordered(s)
      PROVE  Ordered(rest) /\ Before(Queue!Ids(oldest), Queue!Ids(rest))
  <2>1. \A i, j \in 1..Len(rest) : i < j => rest[i].id < rest[j].id
    <3> TAKE i, j \in 1..Len(rest)
    <3> HAVE i < j
    <3>1. k + i \in 1..Len(s) /\ k + j \in 1..Len(s) /\ k + i < k + j
      BY <1>1
    <3>2. s[k + i].id < s[k + j].id
      BY <3>1, <1>7 DEF Ordered
    <3> QED BY <3>2, <1>1, <1>3
  <2>2. \A i \in 1..k, j \in (k + 1)..Len(s) : s[i].id < s[j].id
    <3> TAKE i \in 1..k, j \in (k + 1)..Len(s)
    <3>1. i \in 1..Len(s) /\ j \in 1..Len(s) /\ i < j
      BY <1>1
    <3> QED BY <3>1, <1>7 DEF Ordered
  <2>3. Before(Queue!Ids(oldest), Queue!Ids(rest))
    BY <2>2, <1>4, <1>5 DEF Before
  <2> QED BY <2>1, <2>3 DEF Ordered
<1> QED BY <1>1, <1>6, <1>7 DEF oldest, rest

LEMMA ArrivalFacts ==
  ASSUME Queue!BoundsAssumption, NEW s \in Seq(Queue!Datagram), NEW d \in Queue!Datagram
  PROVE  /\ Append(s, d) \in Seq(Queue!Datagram)
         /\ Len(Append(s, d)) = Len(s) + 1
         /\ Queue!Ids(Append(s, d)) = Queue!Ids(s) \cup {d.id}
         /\ Ordered(s) /\ Before(Queue!Ids(s), {d.id}) => Ordered(Append(s, d))
<1>1. /\ Append(s, d) \in Seq(Queue!Datagram) /\ Len(Append(s, d)) = Len(s) + 1 /\ Len(s) \in Nat
      /\ Append(s, d)[Len(s) + 1] = d
  OBVIOUS
<1>2. \A i \in 1..Len(s) : Append(s, d)[i] = s[i]
  OBVIOUS
<1>3. 1..Len(Append(s, d)) = 1..Len(s) \cup {Len(s) + 1}
  BY <1>1
<1>4. Queue!Ids(Append(s, d)) = Queue!Ids(s) \cup {d.id}
  BY <1>1, <1>2, <1>3 DEF Queue!Ids
<1>5. ASSUME Ordered(s), Before(Queue!Ids(s), {d.id})
      PROVE  Ordered(Append(s, d))
  <2> SUFFICES ASSUME NEW i \in 1..Len(Append(s, d)), NEW j \in 1..Len(Append(s, d)), i < j
               PROVE  Append(s, d)[i].id < Append(s, d)[j].id
    BY DEF Ordered
  <2>1. i \in 1..Len(s)
    BY <1>1
  <2>2. CASE j \in 1..Len(s)
    BY <2>1, <2>2, <1>2, <1>5 DEF Ordered
  <2>3. CASE j = Len(s) + 1
    <3>1. s[i].id \in Queue!Ids(s)
      BY <2>1 DEF Queue!Ids
    <3> QED BY <3>1, <2>1, <2>3, <1>1, <1>2, <1>5 DEF Before
  <2> QED BY <2>2, <2>3, <1>3
<1> QED BY <1>1, <1>4, <1>5

-----------------------------------------------------------------------------
(* Each operation leaves every datagram in one place, and each place in order. *)

LEMMA PushStep ==
  ASSUME Queue!BoundsAssumption, Queue!SizesAssumption, PlaceInv, NEW size \in Sizes, Queue!Push(size)
  PROVE  PlaceInv'
<1> DEFINE new == [id |-> arrived + 1, size |-> size]
<1>1. PICK k \in 0..Len(queued) :
        queued' = Queue!Admitted(k, size) /\ displaced' = displaced \cup Queue!Ids(SubSeq(queued, 1, k))
  BY DEF Queue!Push
<1> DEFINE oldest == SubSeq(queued, 1, k)
           rest == SubSeq(queued, k + 1, Len(queued))
<1>2. /\ queued \in Seq(Queue!Datagram) /\ arrived \in 0..MaxQueued /\ arrived < MaxQueued
      /\ arrived' = arrived + 1 /\ MaxQueued \in Nat
      /\ taken' = taken /\ out' = out /\ discarded' = discarded
  BY DEF Queue!Push, PlaceInv, Queues, Queue!BoundsAssumption
<1>3. new \in Queue!Datagram /\ new.id = arrived + 1
  BY <1>2 DEF Queue!Datagram
<1>4. /\ rest \in Seq(Queue!Datagram)
      /\ Queue!Ids(queued) = Queue!Ids(oldest) \cup Queue!Ids(rest)
      /\ Ordered(rest) /\ Before(Queue!Ids(oldest), Queue!Ids(rest))
  BY <1>2, SplitFacts DEF PlaceInv, InOrder
<1>5. Queue!Ids(oldest) \cap Queue!Ids(rest) = {}
  <2> SUFFICES ASSUME NEW x \in Queue!Ids(oldest) \cap Queue!Ids(rest) PROVE FALSE
    OBVIOUS
  <2>1. x \in 1..arrived
    BY <1>4 DEF PlaceInv, Places
  <2>2. x < x
    BY <1>4 DEF Before
  <2> QED BY <2>1, <2>2
<1>6. /\ queued' = Append(rest, new)
      /\ displaced' = displaced \cup Queue!Ids(oldest)
  BY <1>1 DEF Queue!Admitted
<1> HIDE DEF new, oldest, rest
<1>7. \A x \in Queue!Ids(queued) \cup Gone \cup UNION {Held(c) : c \in Consumers} : x \in 1..arrived
  BY DEF PlaceInv, Places
<1>8. /\ queued' \in Seq(Queue!Datagram)
      /\ Queue!Ids(queued') = Queue!Ids(rest) \cup {arrived + 1}
      /\ Ordered(queued')
  <2>1. Before(Queue!Ids(rest), {new.id})
    BY <1>2, <1>3, <1>4, <1>7 DEF Before
  <2> QED BY <2>1, <1>3, <1>4, <1>6, ArrivalFacts
<1>9. /\ \A c \in Consumers : Held(c)' = Held(c)
      /\ Gone' = Gone \cup Queue!Ids(oldest)
  BY <1>2, <1>6 DEF Held, Gone
<1>10. 1..arrived' = 1..arrived \cup {arrived + 1} /\ arrived + 1 \notin 1..arrived
  BY <1>2
<1>11. Queues'
  BY <1>2, <1>8 DEF PlaceInv, Queues
<1>12. Places'
  <2>1. Queue!Ids(queued)' = Queue!Ids(queued')
    BY DEF Queue!Ids
  <2>2. UNION {Held(c) : c \in Consumers}' = UNION {Held(c) : c \in Consumers}
    BY <1>9
  <2>3. (Queue!Ids(queued) \cup Gone \cup UNION {Held(c) : c \in Consumers} = 1..arrived)'
    BY <2>1, <2>2, <1>4, <1>8, <1>9, <1>10 DEF PlaceInv, Places
  <2>4. (Queue!Ids(queued) \cap Gone = {})'
    BY <2>1, <1>4, <1>5, <1>7, <1>8, <1>9, <1>10 DEF PlaceInv, Places
  <2>5. (displaced \cap discarded = {})'
    BY <1>2, <1>4, <1>6 DEF PlaceInv, Places, Gone
  <2>6. \A c \in Consumers :
          (Held(c) \cap (Gone \cup Queue!Ids(queued)) = {} /\ Queue!Ids(taken[c]) \cap Queue!Ids(out[c]) = {})'
    <3> SUFFICES ASSUME NEW c \in Consumers
                 PROVE  (Held(c) \cap (Gone \cup Queue!Ids(queued)) = {} /\ Queue!Ids(taken[c]) \cap Queue!Ids(out[c]) = {})'
      OBVIOUS
    <3>1. Held(c) \cap (Gone \cup Queue!Ids(queued)) = {} /\ Queue!Ids(taken[c]) \cap Queue!Ids(out[c]) = {}
      BY DEF PlaceInv, Places
    <3>2. arrived + 1 \notin Held(c)
      BY <1>7, <1>10
    <3>3. (Queue!Ids(taken[c]) \cap Queue!Ids(out[c]) = {})'
      BY <3>1, <1>2
    <3> QED BY <3>1, <3>2, <3>3, <2>1, <1>4, <1>8, <1>9
  <2>7. \A c \in Consumers : \A other \in Consumers \ {c} : (Held(c) \cap Held(other) = {})'
    BY <1>9 DEF PlaceInv, Places
  <2> QED BY <2>3, <2>4, <2>5, <2>6, <2>7 DEF Places
<1>13. InOrder'
  <2>1. Ordered(queued)'
    BY <1>8 DEF Ordered
  <2> SUFFICES ASSUME NEW c \in Consumers
               PROVE  (/\ Ordered(taken[c]) /\ Ordered(out[c])
                       /\ Before(Queue!Ids(out[c]), Queue!Ids(taken[c])) /\ Before(Held(c), Queue!Ids(queued)))'
    BY <2>1 DEF InOrder
  <2>2. /\ Ordered(taken[c]) /\ Ordered(out[c])
        /\ Before(Queue!Ids(out[c]), Queue!Ids(taken[c])) /\ Before(Held(c), Queue!Ids(queued))
    BY DEF PlaceInv, InOrder
  <2>3. (Ordered(taken[c]) /\ Ordered(out[c]) /\ Before(Queue!Ids(out[c]), Queue!Ids(taken[c])))'
    BY <2>2, <1>2
  <2>4. \A x \in Held(c) : x < arrived + 1
    <3>1. Held(c) \subseteq 1..arrived /\ arrived \in Nat
      BY <1>2, <1>7
    <3> QED BY <3>1
  <2>5. Before(Held(c)', Queue!Ids(queued'))
    BY <2>2, <2>4, <1>4, <1>8, <1>9 DEF Before
  <2>6. Before(Held(c), Queue!Ids(queued))'
    BY <2>5 DEF Before, Held, Queue!Ids
  <2> QED BY <2>3, <2>6
<1> QED BY <1>11, <1>12, <1>13 DEF PlaceInv

LEMMA SwapStep ==
  ASSUME Queue!BoundsAssumption, PlaceInv, NEW c \in Consumers, Queue!DrainSwap(c)
  PROVE  PlaceInv'
<1>1. /\ queued \in Seq(Queue!Datagram) /\ taken \in [Consumers -> Seq(Queue!Datagram)] /\ taken[c] = <<>>
      /\ taken' = [taken EXCEPT ![c] = queued] /\ queued' = <<>>
      /\ out' = out /\ arrived' = arrived /\ displaced' = displaced /\ discarded' = discarded
  BY DEF Queue!DrainSwap, PlaceInv, Queues, Queue!history
<1>2. taken'[c] = queued /\ \A other \in Consumers \ {c} : taken'[other] = taken[other]
  BY <1>1
<1>3. Queue!Ids(<<>>) = {} /\ Ordered(<<>>) /\ <<>> \in Seq(Queue!Datagram)
  BY NoneFacts
<1>4. /\ Held(c)' = Held(c) \cup Queue!Ids(queued)
      /\ \A other \in Consumers \ {c} : Held(other)' = Held(other)
      /\ Gone' = Gone /\ Queue!Ids(queued)' = {}
  BY <1>1, <1>2, <1>3 DEF Held, Gone
<1>5. Queues'
  BY <1>1, <1>3 DEF PlaceInv, Queues
<1>6. Places'
  <2>1. UNION {Held(other) : other \in Consumers}'
          = Queue!Ids(queued) \cup UNION {Held(other) : other \in Consumers}
    BY <1>4
  <2>2. (Queue!Ids(queued) \cup Gone \cup UNION {Held(other) : other \in Consumers} = 1..arrived)'
    BY <2>1, <1>1, <1>4 DEF PlaceInv, Places
  <2>3. (Queue!Ids(queued) \cap Gone = {})' /\ (displaced \cap discarded = {})'
    BY <1>1, <1>4 DEF PlaceInv, Places
  <2>4. \A d \in Consumers :
          (Held(d) \cap (Gone \cup Queue!Ids(queued)) = {} /\ Queue!Ids(taken[d]) \cap Queue!Ids(out[d]) = {})'
    <3> TAKE d \in Consumers
    <3>1. (Held(d) \cap (Gone \cup Queue!Ids(queued)) = {})'
      BY <1>4 DEF PlaceInv, Places
    <3>2. CASE d = c
      <4>1. Queue!Ids(taken'[c]) = Queue!Ids(queued) /\ Queue!Ids(out'[c]) \subseteq Held(c)
        BY <1>1, <1>2 DEF Held
      <4> QED BY <4>1, <3>1, <3>2 DEF PlaceInv, Places
    <3>3. CASE d # c
      BY <3>1, <3>3, <1>1, <1>2 DEF PlaceInv, Places
    <3> QED BY <3>2, <3>3
  <2>5. \A d \in Consumers : \A other \in Consumers \ {d} : (Held(d) \cap Held(other) = {})'
    <3> TAKE d \in Consumers
    <3> TAKE other \in Consumers \ {d}
    <3>1. /\ Held(d) \cap Held(other) = {}
          /\ Held(d) \cap Queue!Ids(queued) = {} /\ Held(other) \cap Queue!Ids(queued) = {}
      BY DEF PlaceInv, Places
    <3>2. CASE d = c
      BY <3>1, <3>2, <1>4
    <3>3. CASE other = c
      BY <3>1, <3>3, <1>4
    <3>4. CASE d # c /\ other # c
      BY <3>1, <3>4, <1>4
    <3> QED BY <3>2, <3>3, <3>4
  <2> QED BY <2>2, <2>3, <2>4, <2>5 DEF Places
<1>7. InOrder'
  <2>1. Ordered(queued)'
    BY <1>1, <1>3
  <2> SUFFICES ASSUME NEW d \in Consumers
               PROVE  (/\ Ordered(taken[d]) /\ Ordered(out[d])
                       /\ Before(Queue!Ids(out[d]), Queue!Ids(taken[d])) /\ Before(Held(d), Queue!Ids(queued)))'
    BY <2>1 DEF InOrder
  <2>2. /\ Ordered(taken[d]) /\ Ordered(out[d]) /\ Ordered(queued)
        /\ Before(Queue!Ids(out[d]), Queue!Ids(taken[d])) /\ Before(Held(d), Queue!Ids(queued))
    BY DEF PlaceInv, InOrder
  <2>3. Before(Held(d), Queue!Ids(queued))'
    BY <1>4 DEF Before
  <2>4. CASE d = c
    <3>1. Before(Queue!Ids(out[c]), Queue!Ids(queued))
      BY <2>2, <2>4 DEF Before, Held
    <3> QED BY <3>1, <2>2, <2>3, <2>4, <1>1, <1>2
  <2>5. CASE d # c
    BY <2>2, <2>3, <2>5, <1>1, <1>2
  <2> QED BY <2>4, <2>5
<1> QED BY <1>5, <1>6, <1>7 DEF PlaceInv

LEMMA MoveStep ==
  ASSUME Queue!BoundsAssumption, PlaceInv, NEW c \in Consumers, Queue!DrainMove(c)
  PROVE  PlaceInv'
<1>1. /\ out \in [Consumers -> Seq(Queue!Datagram)] /\ taken \in [Consumers -> Seq(Queue!Datagram)]
      /\ out' = [out EXCEPT ![c] = out[c] \o taken[c]] /\ taken' = [taken EXCEPT ![c] = <<>>]
      /\ queued' = queued /\ arrived' = arrived
      /\ displaced' = displaced /\ discarded' = discarded
  BY DEF Queue!DrainMove, PlaceInv, Queues, Queue!history
<1>2. /\ taken'[c] = <<>> /\ out'[c] = out[c] \o taken[c]
      /\ \A d \in Consumers \ {c} : taken'[d] = taken[d] /\ out'[d] = out[d]
  BY <1>1
<1>3. Queue!Ids(<<>>) = {} /\ Ordered(<<>>) /\ <<>> \in Seq(Queue!Datagram)
  BY NoneFacts
<1>4. Ordered(taken[c]) /\ Ordered(out[c]) /\ Before(Queue!Ids(out[c]), Queue!Ids(taken[c]))
  BY DEF PlaceInv, InOrder
<1>5. /\ out'[c] \in Seq(Queue!Datagram) /\ Ordered(out'[c])
      /\ Queue!Ids(out'[c]) = Queue!Ids(out[c]) \cup Queue!Ids(taken[c])
  BY <1>1, <1>2, <1>4, JoinFacts
<1>6. /\ \A d \in Consumers : Held(d)' = Held(d)
      /\ Gone' = Gone /\ Queue!Ids(queued)' = Queue!Ids(queued)
  <2>1. Held(c)' = Held(c)
    BY <1>2, <1>3, <1>5 DEF Held
  <2>2. \A d \in Consumers \ {c} : Held(d)' = Held(d)
    BY <1>2 DEF Held
  <2> QED BY <2>1, <2>2, <1>1 DEF Gone
<1>7. Queues'
  BY <1>1, <1>3, <1>5 DEF PlaceInv, Queues
<1>8. Places'
  <2>1. UNION {Held(d) : d \in Consumers}' = UNION {Held(d) : d \in Consumers}
    BY <1>6
  <2>2. \A d \in Consumers : (Queue!Ids(taken[d]) \cap Queue!Ids(out[d]) = {})'
    BY <1>2, <1>3 DEF PlaceInv, Places
  <2> QED BY <2>1, <2>2, <1>1, <1>6 DEF PlaceInv, Places
<1>9. InOrder'
  <2> SUFFICES ASSUME NEW d \in Consumers
               PROVE  (/\ Ordered(taken[d]) /\ Ordered(out[d])
                       /\ Before(Queue!Ids(out[d]), Queue!Ids(taken[d])) /\ Before(Held(d), Queue!Ids(queued)))'
    BY <1>1 DEF InOrder, PlaceInv
  <2>1. /\ Ordered(taken[d]) /\ Ordered(out[d])
        /\ Before(Queue!Ids(out[d]), Queue!Ids(taken[d])) /\ Before(Held(d), Queue!Ids(queued))
    BY DEF PlaceInv, InOrder
  <2>2. Before(Held(d), Queue!Ids(queued))'
    BY <2>1, <1>6 DEF Before
  <2>3. CASE d = c
    <3>1. Before(Queue!Ids(out'[c]), {})
      BY DEF Before
    <3> QED BY <3>1, <2>2, <2>3, <1>2, <1>3, <1>5
  <2>4. CASE d # c
    BY <2>1, <2>2, <2>4, <1>2
  <2> QED BY <2>3, <2>4
<1> QED BY <1>7, <1>8, <1>9 DEF PlaceInv

LEMMA ClearStep ==
  ASSUME Queue!BoundsAssumption, PlaceInv, Queue!Clear
  PROVE  PlaceInv'
<1>1. /\ queued' = <<>> /\ discarded' = discarded \cup Queue!Ids(queued) /\ displaced' = displaced
      /\ taken' = taken /\ out' = out /\ arrived' = arrived
  BY DEF Queue!Clear
<1>2. Queue!Ids(<<>>) = {} /\ Ordered(<<>>) /\ <<>> \in Seq(Queue!Datagram)
  BY NoneFacts
<1>3. /\ \A c \in Consumers : Held(c)' = Held(c)
      /\ Gone' = Gone \cup Queue!Ids(queued) /\ Queue!Ids(queued)' = {}
  BY <1>1, <1>2 DEF Held, Gone
<1>4. Queues'
  BY <1>1, <1>2 DEF PlaceInv, Queues
<1>5. Places'
  <2>1. UNION {Held(c) : c \in Consumers}' = UNION {Held(c) : c \in Consumers}
    BY <1>3
  <2>2. (displaced \cap discarded = {})'
    BY <1>1 DEF PlaceInv, Places, Gone
  <2> QED BY <2>1, <2>2, <1>1, <1>3 DEF PlaceInv, Places
<1>6. InOrder'
  <2> SUFFICES ASSUME NEW c \in Consumers
               PROVE  (/\ Ordered(taken[c]) /\ Ordered(out[c])
                       /\ Before(Queue!Ids(out[c]), Queue!Ids(taken[c])) /\ Before(Held(c), Queue!Ids(queued)))'
    BY <1>1, <1>2 DEF InOrder
  <2>1. Before(Held(c), Queue!Ids(queued))'
    BY <1>3 DEF Before
  <2> QED BY <2>1, <1>1 DEF PlaceInv, InOrder
<1> QED BY <1>4, <1>5, <1>6 DEF PlaceInv

LEMMA PlaceStep ==
  ASSUME Queue!BoundsAssumption, Queue!SizesAssumption, PlaceInv, [Queue!Next]_Queue!vars
  PROVE  PlaceInv'
<1>1. ASSUME NEW size \in Sizes, Queue!Push(size) PROVE PlaceInv'
  BY <1>1, PushStep
<1>2. ASSUME NEW c \in Consumers, Queue!Drain(c) PROVE PlaceInv'
  BY <1>2, SwapStep, MoveStep DEF Queue!Drain
<1>3. CASE Queue!Clear
  BY <1>3, ClearStep
<1>4. CASE Queue!ResetStats \/ UNCHANGED Queue!vars
  <2>1. /\ queued' = queued /\ taken' = taken /\ out' = out /\ arrived' = arrived
        /\ displaced' = displaced /\ discarded' = discarded
    BY <1>4 DEF Queue!ResetStats, Queue!vars, Queue!history
  <2>2. /\ \A c \in Consumers : Held(c)' = Held(c)
        /\ Gone' = Gone /\ Queue!Ids(queued)' = Queue!Ids(queued)
    BY <2>1 DEF Held, Gone
  <2>3. UNION {Held(c) : c \in Consumers}' = UNION {Held(c) : c \in Consumers}
    BY <2>2
  <2>4. Queues'
    BY <2>1 DEF PlaceInv, Queues
  <2>5. Places'
    BY <2>1, <2>2, <2>3 DEF PlaceInv, Places
  <2>6. InOrder'
    BY <2>1, <2>2 DEF PlaceInv, InOrder
  <2> QED BY <2>4, <2>5, <2>6 DEF PlaceInv
<1> QED BY <1>1, <1>2, <1>3, <1>4 DEF Queue!Next

LEMMA TallyStep ==
  ASSUME Queue!BoundsAssumption, Queue!SizesAssumption, PlaceInv, TallyInv, [Queue!Next]_Queue!vars
  PROVE  TallyInv'
<1> USE DEF TallyInv, Queue!TallyMatchesTraffic
<1>0. Len(queued) \in Nat /\ queued \in Seq(Queue!Datagram)
  BY DEF PlaceInv, Queues
<1>1. ASSUME NEW size \in Sizes, Queue!Push(size) PROVE TallyInv'
  <2>1. PICK k \in 0..Len(queued) : queued' = Queue!Admitted(k, size) /\ dropped' = dropped + k
    BY <1>1 DEF Queue!Push
  <2>2. [id |-> arrived + 1, size |-> size] \in Queue!Datagram
    BY <1>1 DEF Queue!Push, Queue!Datagram, PlaceInv, Queues, Queue!BoundsAssumption
  <2>3. Len(queued') = Len(queued) - k + 1
    BY <2>1, <2>2, <1>0, SplitFacts, ArrivalFacts DEF Queue!Admitted
  <2> QED BY <1>0, <1>1, <2>1, <2>3 DEF Queue!Push
<1>2. ASSUME NEW c \in Consumers, Queue!Drain(c) PROVE TallyInv'
  <2>1. CASE Queue!DrainSwap(c)
    <3>1. /\ queued' = <<>> /\ drained' = drained + Len(queued)
          /\ pushed' = pushed /\ dropped' = dropped /\ window' = window
      BY <2>1 DEF Queue!DrainSwap, Queue!history
    <3>2. Len(queued') = 0
      BY <3>1
    <3> QED BY <3>1, <3>2, <1>0
  <2>2. CASE Queue!DrainMove(c)
    BY <2>2, <1>0 DEF Queue!DrainMove, Queue!stats, Queue!history
  <2> QED BY <1>2, <2>1, <2>2 DEF Queue!Drain
<1>3. CASE Queue!Clear
  BY <1>0, <1>3 DEF Queue!Clear, Queue!stats
<1>4. CASE Queue!ResetStats
  BY <1>0, <1>4 DEF Queue!ResetStats
<1>5. CASE UNCHANGED Queue!vars
  BY <1>5 DEF Queue!vars, Queue!stats, Queue!history
<1> QED BY <1>1, <1>2, <1>3, <1>4, <1>5 DEF Queue!Next

-----------------------------------------------------------------------------

\* Push, Drain and Clear: no datagram is lost uncounted or handed out twice,
\* whatever the two sides interleave, for every number of consumers and every
\* limit.
THEOREM OnePlaceEach ==
  ASSUME Queue!BoundsAssumption, Queue!SizesAssumption
  PROVE  Queue!Spec => []Queue!ExactlyOnePlace
<1>1. Queue!Init => PlaceInv
  BY NoneFacts DEF Queue!Init, PlaceInv, Queues, Places, InOrder, Held, Gone, Before, Queue!BoundsAssumption
<1>2. PlaceInv => Queue!ExactlyOnePlace
  <2> SUFFICES ASSUME PlaceInv PROVE Queue!ExactlyOnePlace
    OBVIOUS
  <2>1. UNION Queue!Everywhere = Queue!Ids(queued) \cup Gone \cup UNION {Held(c) : c \in Consumers}
    BY DEF Queue!Everywhere, Gone, Held
  <2>2. UNION Queue!Everywhere = 1..arrived
    BY <2>1 DEF PlaceInv, Places
  <2> QED BY <2>2 DEF PlaceInv, Places, Queue!ExactlyOnePlace, Held, Gone
<1> QED BY <1>1, <1>2, PlaceStep, PTL DEF Queue!Spec

\* Drain's two halves: a consumer's vector, what it is moving out and what is
\* queued are in arrival order, though the second half runs without the lock.
THEOREM ArrivalOrder ==
  ASSUME Queue!BoundsAssumption, Queue!SizesAssumption
  PROVE  Queue!Spec => []Queue!DeliveredInOrder
<1>1. Queue!Init => PlaceInv
  BY NoneFacts DEF Queue!Init, PlaceInv, Queues, Places, InOrder, Held, Gone, Before, Queue!BoundsAssumption
<1>2. PlaceInv => Queue!DeliveredInOrder
  <2> SUFFICES ASSUME PlaceInv, NEW c \in Consumers PROVE Ordered(Queue!Newer(c))
    BY DEF Queue!DeliveredInOrder, Ordered
  <2>1. out[c] \in Seq(Queue!Datagram) /\ taken[c] \in Seq(Queue!Datagram) /\ queued \in Seq(Queue!Datagram)
    BY DEF PlaceInv, Queues
  <2>2. /\ Ordered(taken[c]) /\ Ordered(out[c]) /\ Ordered(queued)
        /\ Before(Queue!Ids(out[c]), Queue!Ids(taken[c])) /\ Before(Held(c), Queue!Ids(queued))
    BY DEF PlaceInv, InOrder
  <2>3. /\ out[c] \o taken[c] \in Seq(Queue!Datagram) /\ Ordered(out[c] \o taken[c])
        /\ Queue!Ids(out[c] \o taken[c]) = Held(c)
    BY <2>1, <2>2, JoinFacts DEF Held
  <2> QED BY <2>1, <2>2, <2>3, JoinFacts DEF Queue!Newer
<1> QED BY <1>1, <1>2, PlaceStep, PTL DEF Queue!Spec

\* DatagramQueueStats: what was pushed was drained, dropped, cleared or is
\* queued, across every ResetStats.
THEOREM TallyKept ==
  ASSUME Queue!BoundsAssumption, Queue!SizesAssumption
  PROVE  Queue!Spec => []Queue!TallyMatchesTraffic
<1>1. Queue!Init => PlaceInv /\ TallyInv
  BY NoneFacts DEF Queue!Init, PlaceInv, Queues, Places, InOrder, Held, Gone, Before, Queue!BoundsAssumption,
                  TallyInv, Queue!TallyMatchesTraffic
<1>2. TallyInv => Queue!TallyMatchesTraffic
  BY DEF TallyInv
<1> QED BY <1>1, <1>2, PlaceStep, TallyStep, PTL DEF Queue!Spec

-----------------------------------------------------------------------------
(* DatagramQueue: the limits.                                              *)

LimitsInv ==
  /\ highWaterMark \in Nat /\ resets \in Nat
  /\ Queue!WithinLimits

LEMMA LimitsStep ==
  ASSUME Queue!BoundsAssumption, Queue!SizesAssumption, Queue!QueueLimitsAssumption,
         PlaceInv, LimitsInv, [Queue!Next]_Queue!vars
  PROVE  LimitsInv'
<1>0. Len(queued) \in Nat /\ queued \in Seq(Queue!Datagram) /\ arrived \in Nat /\ MaxQueued \in Nat
      /\ highWaterMark \in Nat /\ resets \in Nat
  BY DEF PlaceInv, Queues, LimitsInv, Queue!BoundsAssumption
<1>1. ASSUME NEW size \in Sizes, Queue!Push(size)
      PROVE  LimitsInv'
  <2>1. PICK k \in 0..Len(queued) :
          /\ Queue!Fits(k, size) /\ queued' = Queue!Admitted(k, size)
          /\ queuedBytes' = queuedBytes - Queue!FreedBytes(k) + size
    BY <1>1 DEF Queue!Push
  <2>2. [id |-> arrived + 1, size |-> size] \in Queue!Datagram
    BY <1>1 DEF Queue!Push, Queue!Datagram, PlaceInv, Queues, Queue!BoundsAssumption
  <2>3. Len(queued') = Len(queued) - k + 1
    BY <2>1, <2>2, <1>0, SplitFacts, ArrivalFacts DEF Queue!Admitted
  <2>4. Len(queued') <= 1 \/ (Len(queued') <= MaxDatagrams /\ queuedBytes' <= MaxBytes)
    BY <2>1, <2>3, <1>0 DEF Queue!Fits
  <2>5. /\ highWaterMark' = IF Len(queued') > highWaterMark THEN Len(queued') ELSE highWaterMark
        /\ resets' = resets
    BY <1>1 DEF Queue!Push
  <2>6. Len(queued') \in Nat
    BY <2>3, <2>1, <1>0
  <2>7. Len(queued') <= highWaterMark' /\ highWaterMark' \in Nat
    BY <2>5, <2>6, <1>0
  <2> QED BY <2>4, <2>5, <2>7, <1>0 DEF LimitsInv, Queue!WithinLimits
<1>2. CASE (\E c \in Consumers : Queue!DrainSwap(c)) \/ Queue!Clear
  <2>1. queued' = <<>> /\ highWaterMark' = highWaterMark /\ resets' \in Nat
    BY <1>2, <1>0 DEF Queue!DrainSwap, Queue!Clear, Queue!history, Queue!stats
  <2>2. Len(queued') = 0
    BY <2>1
  <2> QED BY <2>1, <2>2, <1>0 DEF LimitsInv, Queue!WithinLimits
<1>3. CASE (\E c \in Consumers : Queue!DrainMove(c)) \/ UNCHANGED Queue!vars
  <2>1. UNCHANGED <<queued, queuedBytes, highWaterMark, resets>>
    BY <1>3 DEF Queue!DrainMove, Queue!vars, Queue!history, Queue!stats
  <2> QED BY <2>1, <1>0 DEF LimitsInv, Queue!WithinLimits
<1>4. CASE Queue!ResetStats
  <2>1. UNCHANGED <<queued, queuedBytes>> /\ highWaterMark' = 0 /\ resets' = resets + 1
    BY <1>4 DEF Queue!ResetStats
  <2> QED BY <2>1, <1>0 DEF LimitsInv, Queue!WithinLimits
<1> QED BY <1>1, <1>2, <1>3, <1>4 DEF Queue!Next, Queue!Drain

\* Push: after every call the queue is within both limits, or holds only the
\* datagram it was just given, and the high-water mark is no lower than what is
\* queued unless the statistics were reset.
THEOREM LimitsKept ==
  ASSUME Queue!BoundsAssumption, Queue!SizesAssumption, Queue!QueueLimitsAssumption
  PROVE  Queue!Spec => []Queue!WithinLimits
<1>1. Queue!Init => PlaceInv /\ LimitsInv
  BY NoneFacts DEF Queue!Init, PlaceInv, Queues, Places, InOrder, Held, Gone, Before, Queue!BoundsAssumption,
                  LimitsInv, Queue!WithinLimits
<1>2. LimitsInv => Queue!WithinLimits
  BY DEF LimitsInv
<1> QED BY <1>1, <1>2, PlaceStep, LimitsStep, PTL DEF Queue!Spec

-----------------------------------------------------------------------------
(* Numbers by induction, and folds: a fold of a sequence is a recursive       *)
(* function on the subsets of its domain, the last element first, so that it  *)
(* exists and what it computes is shown for the first m elements, m growing.  *)

\* Every set of numbers has a least one.
LEMMA LeastExists ==
  ASSUME NEW free \in SUBSET Nat, free # {}
  PROVE  \E h \in free : \A k \in free : h <= k
<1> DEFINE Below(h) == {k \in free : k < h}
           Belows == {Below(h) : h \in free}
<1>1. \A h \in free : Below(h) \in FiniteSubsetsOf(Nat)
  <2> SUFFICES ASSUME NEW h \in free PROVE Below(h) \in FiniteSubsetsOf(Nat)
    OBVIOUS
  <2>1. h \in Nat /\ IsFiniteSet(0..h)
    BY FS_Interval
  <2>2. Below(h) \in SUBSET (0..h) /\ Below(h) \in SUBSET Nat
    <3>1. \A k \in free : k \in Nat /\ (k < h => k \in 0..h)
      BY <2>1
    <3> QED BY <3>1
  <2>3. IsFiniteSet(Below(h))
    BY <2>1, <2>2, FS_Subset
  <2> QED BY <2>2, <2>3 DEF FiniteSubsetsOf
<1>2. Belows \subseteq FiniteSubsetsOf(Nat) /\ Belows # {}
  BY <1>1
<1>3. PICK least \in Belows : \A other \in Belows : <<other, least>> \notin StrictSubsetOrdering(Nat)
  <2> HIDE DEF Belows
  <2> QED BY <1>2, WFMin, FS_StrictSubsetOrderingWellFounded
<1>4. PICK h \in free : least = Below(h)
  BY <1>3
<1>5. ASSUME NEW k \in free, k < h PROVE FALSE
  <2>1. k \in Nat /\ h \in Nat
    OBVIOUS
  <2>2. Below(k) \subseteq Below(h) /\ k \in Below(h) /\ k \notin Below(k)
    <3>1. ~(k < k) /\ \A x \in free : x < k => x < h
      BY <1>5, <2>1
    <3> QED BY <1>5, <3>1
  <2>3. Below(k) \in SUBSET Nat /\ Below(h) \in SUBSET Nat /\ Below(k) # Below(h)
    BY <2>2
  <2>4. <<Below(k), Below(h)>> \in StrictSubsetOrdering(Nat)
    <3> HIDE DEF Below
    <3> QED BY <2>2, <2>3 DEF StrictSubsetOrdering
  <2>5. Below(k) \in Belows
    BY <1>5
  <2> QED BY <1>3, <1>4, <2>4, <2>5
<1>6. \A k \in free : h <= k
  BY <1>5
<1> QED BY <1>6

\* The largest of a set of numbers, the one a fold takes last.
Top(s) == CHOOSE x \in s : \A y \in s : x >= y

\* A property of numbers that holds of 0 and is kept by adding one holds of all
\* of them up to n; "bad" is where it does not.
LEMMA NoneBad ==
  ASSUME NEW n \in Nat, NEW bad \in SUBSET (0..n), 0 \notin bad,
         \A m \in 0..n : m + 1 \in bad => m \in bad
  PROVE  bad = {}
<1> SUFFICES ASSUME bad # {} PROVE FALSE
  OBVIOUS
<1>1. bad \in SUBSET Nat
  OBVIOUS
<1>2. PICK h \in bad : \A k \in bad : h <= k
  BY <1>1, LeastExists
<1>3. h \in Nat /\ h # 0 /\ h \in 0..n
  OBVIOUS
<1>4. h - 1 \in 0..n /\ (h - 1) + 1 = h
  BY <1>3
<1>5. h - 1 \in bad
  BY <1>4
<1> QED BY <1>2, <1>3, <1>5

\* h is a fold of the subsets of 1..n, the largest number last.
Folds(h, n, base, next) ==
  \A s \in SUBSET (1..n) : h[s] = IF s = {} THEN base ELSE next[<<h[s \ {Top(s)}], Top(s)>>]

LEMMA FoldExists ==
  ASSUME NEW n \in Nat, NEW V, NEW base \in V, NEW next \in [V \X (1..n) -> V]
  PROVE  \E h \in [SUBSET (1..n) -> V] : Folds(h, n, base, next)
<1> DEFINE Fine(m) == \E h \in [SUBSET (1..m) -> V] : Folds(h, m, base, next)
           bad == {m \in 0..n : ~Fine(m)}
<1>1. Fine(0)
  <2> DEFINE h == [s \in SUBSET (1..0) |-> base]
  <2>1. \A s \in SUBSET (1..0) : s = {}
    OBVIOUS
  <2>2. h \in [SUBSET (1..0) -> V] /\ Folds(h, 0, base, next)
    BY <2>1 DEF Folds
  <2> HIDE DEF h
  <2> QED BY <2>2
<1>2. ASSUME NEW m \in 0..n, m + 1 \in 0..n, Fine(m) PROVE Fine(m + 1)
  <2>1. PICK g \in [SUBSET (1..m) -> V] : Folds(g, m, base, next)
    BY <1>2
  <2> DEFINE last == m + 1
             h == [s \in SUBSET (1..last) |-> IF last \in s THEN next[<<g[s \ {last}], last>>] ELSE g[s]]
  <2>2. /\ last \in 1..n /\ 1..m \subseteq 1..last /\ last \notin 1..m
        /\ \A k \in 1..last : k = last \/ k \in 1..m
        /\ \A k \in 1..last : last >= k /\ (k >= last => k = last)
    BY <1>2
  <2> HIDE DEF last
  <2>3. \A s \in SUBSET (1..last) : last \notin s => s \in SUBSET (1..m)
    BY <2>2
  <2>4. \A s \in SUBSET (1..last) : s \ {last} \in SUBSET (1..m)
    BY <2>2
  <2>5. \A s \in SUBSET (1..last) : last \in s => Top(s) = last
    BY <2>2 DEF Top
  <2>6. h \in [SUBSET (1..last) -> V]
    <3> SUFFICES ASSUME NEW s \in SUBSET (1..last)
                 PROVE  (IF last \in s THEN next[<<g[s \ {last}], last>>] ELSE g[s]) \in V
      OBVIOUS
    <3>1. CASE last \in s
      <4>1. <<g[s \ {last}], last>> \in V \X (1..n)
        BY <2>2, <2>4
      <4> QED BY <3>1, <4>1
    <3>2. CASE last \notin s
      BY <2>3, <3>2
    <3> QED BY <3>1, <3>2
  <2>7. \A s \in SUBSET (1..m) : s \in SUBSET (1..last) /\ last \notin s /\ h[s] = g[s]
    BY <2>2
  <2>8. \A s \in SUBSET (1..last) : last \in s => h[s] = next[<<g[s \ {last}], last>>]
    OBVIOUS
  <2> HIDE DEF h
  <2>9. Folds(h, last, base, next)
    <3> SUFFICES ASSUME NEW s \in SUBSET (1..last)
                 PROVE  h[s] = IF s = {} THEN base ELSE next[<<h[s \ {Top(s)}], Top(s)>>]
      BY DEF Folds
    <3>1. CASE last \in s
      <4>1. s # {} /\ Top(s) = last /\ h[s \ {last}] = g[s \ {last}]
        BY <2>4, <2>5, <2>7, <3>1
      <4> QED BY <2>8, <3>1, <4>1
    <3>2. CASE last \notin s
      <4>1. s \in SUBSET (1..m) /\ s \ {Top(s)} \in SUBSET (1..m)
        BY <2>3, <3>2
      <4>2. g[s] = IF s = {} THEN base ELSE next[<<g[s \ {Top(s)}], Top(s)>>]
        BY <2>1, <4>1 DEF Folds
      <4> QED BY <2>7, <4>1, <4>2
    <3> QED BY <3>1, <3>2
  <2> QED BY <2>6, <2>9 DEF last
<1>3. bad \in SUBSET (0..n) /\ 0 \notin bad /\ \A m \in 0..n : m + 1 \in bad => m \in bad
  <2> HIDE DEF Fine
  <2> QED BY <1>1, <1>2
<1>4. bad = {}
  <2> HIDE DEF bad
  <2> QED BY <1>3, NoneBad
<1> HIDE DEF Fine
<1>5. n \in 0..n
  OBVIOUS
<1> QED BY <1>4, <1>5 DEF Fine

\* The numbers up to m: their largest is m.
LEMMA Segments ==
  ASSUME NEW n \in Nat
  PROVE  \A m \in 1..n : /\ 1..m \in SUBSET (1..n) /\ 1..m # {}
                         /\ Top(1..m) = m /\ (1..m) \ {Top(1..m)} = 1..(m - 1)
<1> SUFFICES ASSUME NEW m \in 1..n
             PROVE  /\ 1..m \in SUBSET (1..n) /\ 1..m # {}
                    /\ Top(1..m) = m /\ (1..m) \ {Top(1..m)} = 1..(m - 1)
  OBVIOUS
<1>1. 1..m \in SUBSET (1..n) /\ 1..m # {} /\ m \in 1..m
  OBVIOUS
<1>2. \A k \in 1..m : m >= k /\ (k >= m => k = m)
  OBVIOUS
<1>3. Top(1..m) = m
  BY <1>1, <1>2 DEF Top
<1>4. (1..m) \ {m} = 1..(m - 1)
  OBVIOUS
<1> QED BY <1>1, <1>3, <1>4

LEMMA TopIsIn ==
  ASSUME NEW n \in Nat, NEW s \in SUBSET (1..n), s # {}
  PROVE  Top(s) \in s
<1> DEFINE over == {u \in 0..n : \A y \in s : u >= y}
<1>1. over \in SUBSET Nat /\ over # {}
  <2>1. n \in over
    OBVIOUS
  <2> QED BY <2>1
<1>2. PICK u \in over : \A k \in over : u <= k
  <2> HIDE DEF over
  <2> QED BY <1>1, LeastExists
<1>3. u \in Nat /\ \A y \in s : u >= y /\ y \in Nat /\ y >= 1
  OBVIOUS
<1>4. u \in s
  <2> SUFFICES ASSUME u \notin s PROVE FALSE
    OBVIOUS
  <2>1. \A y \in s : u - 1 >= y
    BY <1>3
  <2>2. PICK y \in s : TRUE
    OBVIOUS
  <2>3. u - 1 \in over
    BY <1>3, <2>1, <2>2
  <2> QED BY <1>2, <1>3, <2>3
<1> QED BY <1>3, <1>4 DEF Top

LEMMA QueuedSizes ==
  ASSUME Queue!SizesAssumption, NEW q \in Seq(Queue!Datagram)
  PROVE  Len(q) \in Nat /\ DOMAIN q = 1..Len(q) /\ \A i \in 1..Len(q) : q[i].size \in Nat
<1>1. \A i \in 1..Len(q) : q[i] \in Queue!Datagram
  OBVIOUS
<1>2. ASSUME NEW i \in 1..Len(q) PROVE q[i].size \in Nat
  <2>1. q[i].size \in Sizes
    BY <1>1 DEF Queue!Datagram
  <2> QED BY <2>1 DEF Queue!SizesAssumption
<1>3. Len(q) \in Nat /\ DOMAIN q = 1..Len(q)
  OBVIOUS
<1> QED BY <1>2, <1>3

\* Bytes, one datagram after the other.
LEMMA BytesSteps ==
  ASSUME Queue!SizesAssumption, NEW q \in Seq(Queue!Datagram)
  PROVE  \E sum \in [0..Len(q) -> Nat] :
           /\ sum[0] = 0 /\ \A m \in 1..Len(q) : sum[m] = sum[m - 1] + q[m].size
           /\ Queue!Bytes(q) = sum[Len(q)]
<1> DEFINE n == Len(q)
           next == [p \in Nat \X (1..n) |-> p[1] + q[p[2]].size]
           Made(g) == g = [s \in SUBSET (1..n) |-> IF s = {} THEN 0 ELSE g[s \ {Top(s)}] + q[Top(s)].size]
           it == CHOOSE g : Made(g)
<1>1. n \in Nat /\ DOMAIN q = 1..n /\ \A i \in 1..n : q[i].size \in Nat
  BY QueuedSizes
<1>2. Queue!Bytes(q) = it[1..n]
  BY <1>1 DEF Queue!Bytes, Queue!FoldLeft, Queue!MapThenFoldSet, Queue!Max, Top
<1> HIDE DEF n
<1>3. next \in [Nat \X (1..n) -> Nat]
  BY <1>1
<1>4. \A v \in Nat, i \in 1..n : next[<<v, i>>] = v + q[i].size
  OBVIOUS
<1> HIDE DEF next
<1>5. PICK h \in [SUBSET (1..n) -> Nat] : Folds(h, n, 0, next)
  BY <1>1, <1>3, FoldExists
<1>6. Made(h)
  <2>1. ASSUME NEW s \in SUBSET (1..n), s # {}
        PROVE  h[s] = h[s \ {Top(s)}] + q[Top(s)].size
    <3>1. Top(s) \in 1..n /\ h[s \ {Top(s)}] \in Nat
      BY <1>1, <2>1, TopIsIn
    <3>2. h[s] = next[<<h[s \ {Top(s)}], Top(s)>>]
      BY <1>5, <2>1 DEF Folds
    <3> QED BY <1>4, <3>1, <3>2
  <2>2. \A s \in SUBSET (1..n) : s = {} => h[s] = 0
    BY <1>5 DEF Folds
  <2> QED BY <2>1, <2>2
<1>7. Made(it)
  <2> HIDE DEF Made
  <2> QED BY <1>6
<1> HIDE DEF it
<1>8. it[1..0] = 0 /\ \A m \in 1..n : it[1..m] = it[1..(m - 1)] + q[m].size
  <2>1. \A s \in SUBSET (1..n) : it[s] = IF s = {} THEN 0 ELSE it[s \ {Top(s)}] + q[Top(s)].size
    BY <1>7
  <2>2. 1..0 \in SUBSET (1..n) /\ 1..0 = {}
    OBVIOUS
  <2>3. \A m \in 1..n : 1..m \in SUBSET (1..n) /\ 1..m # {} /\ (1..m) \ {Top(1..m)} = 1..(m - 1) /\ Top(1..m) = m
    BY <1>1, Segments
  <2> HIDE DEF Made
  <2>4. it[1..0] = 0
    BY <2>1, <2>2
  <2>5. ASSUME NEW m \in 1..n PROVE it[1..m] = it[1..(m - 1)] + q[m].size
    <3>1. 1..m \in SUBSET (1..n) /\ 1..m # {}
      BY <2>3
    <3>2. it[1..m] = it[(1..m) \ {Top(1..m)}] + q[Top(1..m)].size
      BY <2>1, <3>1
    <3>3. Top(1..m) = m /\ (1..m) \ {Top(1..m)} = 1..(m - 1)
      BY <2>3
    <3> QED BY <3>2, <3>3
  <2> QED BY <2>4, <2>5
<1> DEFINE bad == {m \in 0..n : it[1..m] \notin Nat}
<1>9. bad = {}
  <2>1. 0 \notin bad
    BY <1>8
  <2>2. \A m \in 0..n : m + 1 \in bad => m \in bad
    <3> SUFFICES ASSUME NEW m \in 0..n, m + 1 \in bad, it[1..m] \in Nat PROVE FALSE
      OBVIOUS
    <3>1. m + 1 \in 1..n /\ (m + 1) - 1 = m
      BY <1>1
    <3>2. it[1..(m + 1)] = it[1..m] + q[m + 1].size /\ q[m + 1].size \in Nat
      BY <1>1, <1>8, <3>1
    <3> QED BY <3>2
  <2>3. bad \in SUBSET (0..n)
    OBVIOUS
  <2> HIDE DEF bad
  <2> QED BY <1>1, <2>1, <2>2, <2>3, NoneBad
<1> DEFINE sum == [m \in 0..n |-> it[1..m]]
<1>10. sum \in [0..n -> Nat] /\ \A m \in 0..n : sum[m] = it[1..m]
  BY <1>9
<1> HIDE DEF sum, bad, Made
<1>11. sum[0] = 0 /\ sum[n] = it[1..n]
  BY <1>1, <1>8, <1>10
<1>12. ASSUME NEW m \in 1..n PROVE sum[m] = sum[m - 1] + q[m].size
  <2>1. m \in 0..n /\ m - 1 \in 0..n
    BY <1>1
  <2> QED BY <1>8, <1>10, <2>1
<1> QED BY <1>2, <1>10, <1>11, <1>12 DEF n

\* What adds up the sizes one by one is Bytes.
LEMMA SumsAre ==
  ASSUME Queue!SizesAssumption, NEW q \in Seq(Queue!Datagram), NEW f \in [0..Len(q) -> Int],
         f[0] = 0, \A m \in 1..Len(q) : f[m] = f[m - 1] + q[m].size
  PROVE  Queue!Bytes(q) = f[Len(q)]
<1> DEFINE n == Len(q)
<1>1. n \in Nat /\ \A i \in 1..n : q[i].size \in Nat
  BY QueuedSizes
<1>2. PICK sum \in [0..n -> Nat] :
        /\ sum[0] = 0 /\ \A m \in 1..n : sum[m] = sum[m - 1] + q[m].size
        /\ Queue!Bytes(q) = sum[n]
  BY BytesSteps
<1> DEFINE bad == {m \in 0..n : sum[m] # f[m]}
<1>3. \A m \in 1..n : f[m] = f[m - 1] + q[m].size
  OBVIOUS
<1> HIDE DEF n
<1>4. \A m \in 0..n : m + 1 \in bad => m \in bad
  <2> SUFFICES ASSUME NEW m \in 0..n, m + 1 \in bad, sum[m] = f[m] PROVE FALSE
    OBVIOUS
  <2>1. m + 1 \in 1..n /\ (m + 1) - 1 = m
    BY <1>1
  <2>2. sum[m + 1] = sum[m] + q[m + 1].size /\ f[m + 1] = f[m] + q[m + 1].size
    BY <1>2, <1>3, <2>1
  <2> QED BY <2>2
<1>5. 0 \notin bad /\ bad \in SUBSET (0..n)
  BY <1>2
<1>6. bad = {}
  <2> HIDE DEF bad
  <2> QED BY <1>1, <1>4, <1>5, NoneBad
<1>7. n \in 0..n
  BY <1>1
<1> QED BY <1>2, <1>6, <1>7 DEF n

\* What is left, and what is added, weigh what they should.
LEMMA BytesAdmitted ==
  ASSUME Queue!SizesAssumption, NEW q \in Seq(Queue!Datagram), NEW k \in 0..Len(q), NEW d \in Queue!Datagram
  PROVE  /\ Queue!Bytes(q) \in Nat /\ Queue!Bytes(SubSeq(q, 1, k)) \in Nat
         /\ Queue!Bytes(SubSeq(q, 1, k)) <= Queue!Bytes(q)
         /\ Queue!Bytes(Append(SubSeq(q, k + 1, Len(q)), d))
              = Queue!Bytes(q) - Queue!Bytes(SubSeq(q, 1, k)) + d.size
<1> DEFINE n == Len(q)
           oldest == SubSeq(q, 1, k)
           rest == SubSeq(q, k + 1, n)
           kept == Append(rest, d)
<1>1. n \in Nat /\ k \in 0..n /\ \A i \in 1..n : q[i].size \in Nat
  BY QueuedSizes
<1>2. d.size \in Nat
  BY DEF Queue!Datagram, Queue!SizesAssumption
<1>3. PICK sum \in [0..n -> Nat] :
        /\ sum[0] = 0 /\ \A m \in 1..n : sum[m] = sum[m - 1] + q[m].size
        /\ Queue!Bytes(q) = sum[n]
  BY BytesSteps
<1>4. /\ oldest \in Seq(Queue!Datagram) /\ Len(oldest) = k /\ \A m \in 1..k : oldest[m] = q[m]
  BY <1>1
<1>5. /\ rest \in Seq(Queue!Datagram) /\ Len(rest) = n - k /\ \A m \in 1..(n - k) : rest[m] = q[k + m]
  BY <1>1
<1> HIDE DEF n, oldest, rest
<1>6. /\ kept \in Seq(Queue!Datagram) /\ Len(kept) = n - k + 1 /\ kept[n - k + 1] = d
      /\ \A m \in 1..(n - k) : kept[m] = q[k + m]
  BY <1>1, <1>5
<1> HIDE DEF kept
<1>7. Queue!Bytes(oldest) = sum[k]
  <2> DEFINE f == [m \in 0..k |-> sum[m]]
  <2>1. f \in [0..Len(oldest) -> Int] /\ f[0] = 0 /\ f[Len(oldest)] = sum[k]
    BY <1>1, <1>3, <1>4
  <2>2. ASSUME NEW m \in 1..Len(oldest) PROVE f[m] = f[m - 1] + oldest[m].size
    <3>1. m \in 1..n /\ m \in 0..k /\ m - 1 \in 0..k /\ oldest[m] = q[m]
      BY <1>1, <1>4
    <3>2. sum[m] = sum[m - 1] + q[m].size
      BY <1>3, <3>1
    <3> QED BY <3>1, <3>2
  <2> HIDE DEF f
  <2> QED BY <1>4, <2>1, <2>2, SumsAre
<1>8. Queue!Bytes(kept) = sum[n] - sum[k] + d.size
  <2> DEFINE f == [m \in 0..(n - k + 1) |-> IF m = n - k + 1 THEN sum[n] - sum[k] + d.size
                                            ELSE sum[k + m] - sum[k]]
  <2>1. \A m \in 0..(n - k) : k + m \in 0..n /\ sum[k + m] \in Nat /\ f[m] = sum[k + m] - sum[k]
    BY <1>1
  <2>2. n - k \in Nat /\ sum[k] \in Nat /\ sum[n] \in Nat /\ f[n - k + 1] = sum[n] - sum[k] + d.size
    BY <1>1
  <2>3. f \in [0..Len(kept) -> Int]
    <3>1. 0..Len(kept) = 0..(n - k + 1)
      BY <1>6
    <3>2. ASSUME NEW m \in 0..(n - k + 1)
          PROVE  (IF m = n - k + 1 THEN sum[n] - sum[k] + d.size ELSE sum[k + m] - sum[k]) \in Int
      <4>1. CASE m = n - k + 1
        BY <1>2, <2>2, <4>1
      <4>2. CASE m # n - k + 1
        <5>1. m \in 0..(n - k)
          BY <2>2, <4>2
        <5>2. sum[k + m] \in Nat
          BY <2>1, <5>1
        <5> QED BY <2>2, <4>2, <5>2
      <4> QED BY <4>1, <4>2
    <3> QED BY <3>1, <3>2
  <2> HIDE DEF f
  <2>4. f[0] = 0
    <3>1. 0 \in 0..(n - k) /\ k + 0 = k
      BY <1>1, <2>2
    <3> QED BY <2>1, <2>2, <3>1
  <2>5. ASSUME NEW m \in 1..Len(kept) PROVE f[m] = f[m - 1] + kept[m].size
    <3>1. CASE m \in 1..(n - k)
      <4>1. m \in 0..(n - k) /\ m - 1 \in 0..(n - k) /\ k + m \in 1..n /\ (k + m) - 1 = k + (m - 1)
        BY <1>1, <3>1
      <4>2. sum[k + m] = sum[k + (m - 1)] + q[k + m].size /\ q[k + m].size \in Nat /\ kept[m] = q[k + m]
        BY <1>1, <1>3, <1>6, <3>1, <4>1
      <4>3. /\ f[m] = sum[k + m] - sum[k] /\ f[m - 1] = sum[k + (m - 1)] - sum[k]
            /\ sum[k + m] \in Nat /\ sum[k + (m - 1)] \in Nat /\ sum[k] \in Nat
        BY <2>1, <2>2, <4>1
      <4> QED BY <4>2, <4>3, SMTT(30)
    <3>2. CASE m = n - k + 1
      <4>1. m - 1 = n - k /\ n - k \in 0..(n - k) /\ k + (n - k) = n
        BY <1>1, <3>2
      <4>2. f[m - 1] = sum[n] - sum[k]
        BY <2>1, <4>1
      <4> QED BY <1>2, <1>6, <2>2, <3>2, <4>2
    <3> QED BY <1>6, <2>2, <3>1, <3>2
  <2>6. f[Len(kept)] = sum[n] - sum[k] + d.size
    BY <1>6, <2>2
  <2> QED BY <1>6, <2>3, <2>4, <2>5, <2>6, SumsAre
<1>9. \A m \in 0..n : sum[m] <= sum[n]
  <2> DEFINE bad == {j \in 0..n : sum[n - j] > sum[n]}
  <2>1. bad \in SUBSET (0..n) /\ 0 \notin bad
    BY <1>1, <1>3
  <2>2. \A j \in 0..n : j + 1 \in bad => j \in bad
    <3> SUFFICES ASSUME NEW j \in 0..n, j + 1 \in bad PROVE j \in bad
      OBVIOUS
    <3>1. n - j \in 1..n /\ n - (j + 1) = (n - j) - 1 /\ n - (j + 1) \in 0..n
      BY <1>1
    <3>2. sum[n - j] = sum[n - (j + 1)] + q[n - j].size /\ q[n - j].size \in Nat
      BY <1>1, <1>3, <3>1
    <3>3. sum[n - j] \in Nat /\ sum[n - (j + 1)] \in Nat /\ sum[n] \in Nat
      <4>1. n - j \in 0..n /\ n \in 0..n
        BY <1>1, <3>1, SMTT(30)
      <4> QED BY <3>1, <4>1
    <3> QED BY <3>2, <3>3
  <2>3. bad = {}
    <3> HIDE DEF bad
    <3> QED BY <1>1, <2>1, <2>2, NoneBad
  <2> SUFFICES ASSUME NEW m \in 0..n PROVE sum[m] <= sum[n]
    OBVIOUS
  <2>4. n - m \in 0..n /\ n - (n - m) = m /\ sum[m] \in Nat /\ sum[n] \in Nat
    BY <1>1
  <2> QED BY <2>3, <2>4
<1>10. k \in 0..n /\ n \in 0..n
  BY <1>1
<1> QED BY <1>3, <1>7, <1>8, <1>9, <1>10 DEF kept, oldest, rest, n

LEMMA NothingWeighs == Queue!SizesAssumption => Queue!Bytes(<<>>) = 0
<1> SUFFICES ASSUME Queue!SizesAssumption PROVE Queue!Bytes(<<>>) = 0
  OBVIOUS
<1>1. <<>> \in Seq(Queue!Datagram) /\ Len(<<>>) = 0
  OBVIOUS
<1> QED BY <1>1, BytesSteps

-----------------------------------------------------------------------------
(* DatagramQueue: the count of its bytes, and the whole of its invariant.    *)

Weighed == queuedBytes = Queue!Bytes(queued)

LEMMA WeighedStep ==
  ASSUME Queue!BoundsAssumption, Queue!SizesAssumption, PlaceInv, Weighed, [Queue!Next]_Queue!vars
  PROVE  Weighed'
<1>1. queued \in Seq(Queue!Datagram) /\ arrived \in Nat /\ MaxQueued \in Nat
  BY DEF PlaceInv, Queues, Queue!BoundsAssumption
<1>2. ASSUME NEW size \in Sizes, Queue!Push(size) PROVE Weighed'
  <2> DEFINE new == [id |-> arrived + 1, size |-> size]
  <2>1. PICK k \in 0..Len(queued) :
          queued' = Queue!Admitted(k, size) /\ queuedBytes' = queuedBytes - Queue!FreedBytes(k) + size
    BY <1>2 DEF Queue!Push
  <2>2. new \in Queue!Datagram /\ new.size = size
    BY <1>1, <1>2 DEF Queue!Push, Queue!Datagram
  <2>3. queued' = Append(SubSeq(queued, k + 1, Len(queued)), new)
    BY <2>1 DEF Queue!Admitted
  <2>4. Queue!Bytes(queued') = Queue!Bytes(queued) - Queue!Bytes(SubSeq(queued, 1, k)) + size
    <3> HIDE DEF new
    <3> QED BY <1>1, <2>2, <2>3, BytesAdmitted
  <2>5. Queue!Bytes(queued)' = Queue!Bytes(queued')
    OBVIOUS
  <2> QED BY <2>1, <2>4, <2>5 DEF Weighed, Queue!FreedBytes
<1>3. CASE (\E c \in Consumers : Queue!DrainSwap(c)) \/ Queue!Clear
  <2>1. queued' = <<>> /\ queuedBytes' = 0
    BY <1>3 DEF Queue!DrainSwap, Queue!Clear
  <2>2. Queue!Bytes(queued)' = Queue!Bytes(queued')
    OBVIOUS
  <2> QED BY <2>1, <2>2, NothingWeighs DEF Weighed
<1>4. CASE (\E c \in Consumers : Queue!DrainMove(c)) \/ Queue!ResetStats \/ UNCHANGED Queue!vars
  <2>1. queued' = queued /\ queuedBytes' = queuedBytes
    BY <1>4 DEF Queue!DrainMove, Queue!ResetStats, Queue!vars
  <2>2. Queue!Bytes(queued)' = Queue!Bytes(queued')
    OBVIOUS
  <2> QED BY <2>1, <2>2 DEF Weighed
<1> QED BY <1>2, <1>3, <1>4 DEF Queue!Next, Queue!Drain

\* The bounds of the history, for the types.
Counted == resets \in 0..MaxResets

LEMMA CountedStep ==
  ASSUME Queue!BoundsAssumption, Counted, [Queue!Next]_Queue!vars
  PROVE  Counted'
<1>1. resets' = resets \/ (resets < MaxResets /\ resets' = resets + 1)
  BY DEF Queue!Next, Queue!Push, Queue!Drain, Queue!DrainSwap, Queue!DrainMove, Queue!Clear,
         Queue!ResetStats, Queue!vars, Queue!history
<1> QED BY <1>1 DEF Counted, Queue!BoundsAssumption

LEMMA QueueTells ==
  ASSUME Queue!BoundsAssumption, Queue!SizesAssumption, PlaceInv, TallyInv, LimitsInv, Weighed, Counted
  PROVE  Queue!TypeOK /\ Queue!Bounded
<1>1. displaced \cup discarded \subseteq 1..MaxQueued
  <2>1. arrived \in 0..MaxQueued /\ MaxQueued \in Nat
    BY DEF PlaceInv, Queues, Queue!BoundsAssumption
  <2>2. 1..arrived \subseteq 1..MaxQueued
    BY <2>1
  <2> QED BY <2>2 DEF PlaceInv, Places, Gone
<1>2. queued \in Seq(Queue!Datagram) /\ Queue!Bytes(queued) \in Nat
  <2>1. queued \in Seq(Queue!Datagram) /\ Len(queued) \in 0..Len(queued)
    BY DEF PlaceInv, Queues
  <2>2. PICK sum \in [0..Len(queued) -> Nat] : Queue!Bytes(queued) = sum[Len(queued)]
    BY <2>1, BytesSteps
  <2> QED BY <2>1, <2>2
<1> QED BY <1>1, <1>2 DEF Queue!TypeOK, Queue!Bounded, PlaceInv, Queues, TallyInv, LimitsInv, Weighed,
           Counted

\* DatagramQueue whole, for every number of consumers, every size and every
\* limit: its byte count is what it holds, its limits hold, each datagram is in
\* one place and in order, and the statistics tell the traffic.
THEOREM QueueSafety == Queue!Spec => []QueueInvariant
<1>1. Queue!BoundsAssumption /\ Queue!SizesAssumption /\ Queue!QueueLimitsAssumption
  BY QueueAssumptions
<1>2. Queue!Init => PlaceInv /\ TallyInv /\ LimitsInv
  BY <1>1, NoneFacts DEF Queue!Init, PlaceInv, Queues, Places, InOrder, Held, Gone, Before,
     Queue!BoundsAssumption, TallyInv, Queue!TallyMatchesTraffic, LimitsInv, Queue!WithinLimits
<1>3. Queue!Init => Weighed /\ Counted
  BY <1>1, NothingWeighs DEF Queue!Init, Weighed, Counted, Queue!BoundsAssumption
<1>4. Queue!Spec => [](PlaceInv /\ TallyInv /\ LimitsInv /\ Weighed /\ Counted)
  BY <1>1, <1>2, <1>3, PlaceStep, TallyStep, LimitsStep, WeighedStep, CountedStep, PTL DEF Queue!Spec
<1>5. PlaceInv /\ TallyInv /\ LimitsInv /\ Weighed /\ Counted => Queue!TypeOK /\ Queue!Bounded
  BY <1>1, QueueTells
<1>6. Queue!Spec => []Queue!ExactlyOnePlace /\ []Queue!DeliveredInOrder /\ []Queue!TallyMatchesTraffic
  BY <1>1, OnePlaceEach, ArrivalOrder, TallyKept
<1>7. QueueInvariant <=> /\ Queue!TypeOK /\ Queue!ExactlyOnePlace /\ Queue!Bounded
                         /\ Queue!DeliveredInOrder /\ Queue!TallyMatchesTraffic
  BY DEF QueueInvariant, Queue!QueueInvariant
<1> QED BY <1>4, <1>5, <1>6, <1>7, PTL

-----------------------------------------------------------------------------
(* Bridge: what RunBridge prints, paces and counts.                         *)

BridgeType ==
  /\ pc \in {"loop", "replay", "forward", "drain", "close", "done"} /\ after \in {"loop", "replay"}
  /\ now \in Nat /\ record \in Nat /\ replayStarted \in Int /\ elapsed \in Int
  /\ finished \in BOOLEAN /\ capture \in Seq(Nat) /\ pushedAt \in Seq(Int)
  /\ forwarded \in Nat /\ sent \in Nat /\ refused \in Nat /\ drainStarted \in Int
  /\ peers \subseteq Endpoints /\ printed \in [Endpoints -> Int]

\* Each peer that is there was told, and nobody else.
Told ==
  \A p \in Endpoints : printed[p] = (IF p \in peers /\ pc # "done" THEN 1 ELSE 0)

\* Only in forward() can the connector's state be newer than the last line.
StateTold == pc # "forward" => lastState = state

Polled ==
  /\ forwarded = sent + refused
  /\ MaxFrames # 0 => forwarded <= MaxFrames

\* The time the loop read is the past when a record is pushed by it.
Paced ==
  /\ record <= Len(capture) /\ Len(pushedAt) = record
  /\ \A i \in 1..record : pushedAt[i] >= capture[i] - capture[1]
  /\ replayStarted # Bridge!Never => elapsed <= now - replayStarted

\* After the flush nothing goes back to the replay.
FlushedOnce ==
  /\ flushed = (IF finished THEN 1 ELSE 0)
  /\ finished => record = Len(capture) /\ pc # "replay" /\ (pc = "forward" => after = "loop")

Waited ==
  pc \in {"close", "done"} /\ (\E p \in peers : messages[p] > 0) => now - drainStarted >= DrainTime

BridgeInv == BridgeType /\ Told /\ StateTold /\ Polled /\ Paced /\ FlushedOnce /\ Waited

LEMMA BridgeInit == Bridge!Init => BridgeInv
<1> SUFFICES ASSUME Bridge!Init PROVE BridgeInv
  OBVIOUS
<1>1. capture \in Seq(Nat) /\ Len(capture) \in Nat
  BY BridgeAssumptions DEF Bridge!Init, Bridge!ReplaysAssumption
<1>2. pushedAt = <<>> /\ record = 0 /\ Len(pushedAt) = 0 /\ pushedAt \in Seq(Int)
  BY DEF Bridge!Init
<1>3. BridgeType
  <2>1. replayStarted = -1 /\ drainStarted = -1
    BY DEF Bridge!Init, Bridge!Never
  <2>2. replayStarted \in Int /\ drainStarted \in Int
    BY <2>1
  <2>3. printed \in [Endpoints -> Int] /\ peers \subseteq Endpoints
    BY DEF Bridge!Init
  <2>4. pc = "loop" /\ after = "loop" /\ finished = FALSE
    BY DEF Bridge!Init
  <2>5. /\ now \in Nat /\ record \in Nat /\ elapsed \in Int
        /\ forwarded \in Nat /\ sent \in Nat /\ refused \in Nat
    BY DEF Bridge!Init
  <2> QED BY <1>1, <1>2, <2>2, <2>3, <2>4, <2>5 DEF BridgeType
<1>4. Told /\ StateTold /\ FlushedOnce /\ Waited
  BY DEF Bridge!Init, Told, StateTold, FlushedOnce, Waited
<1>5. Polled
  BY BridgeAssumptions DEF Bridge!Init, Polled, Bridge!LimitsAssumption
<1>6. Paced
  BY <1>1, <1>2 DEF Bridge!Init, Paced
<1> QED BY <1>3, <1>4, <1>5, <1>6 DEF BridgeInv

\* service() tells of who came and who left.
LEMMA ServiceTells ==
  ASSUME BridgeInv, NEW waiting, Bridge!Service(waiting), pc # "done", pc' # "done"
  PROVE  Told' /\ peers' \subseteq Endpoints /\ printed' \in [Endpoints -> Int] /\ connected' = peers'
<1>1. PICK current \in SUBSET Endpoints :
        /\ connected' = current /\ peers' = current
        /\ printed' = [p \in Endpoints |-> printed[p] + Bridge!Told(current)[p]]
  BY DEF Bridge!Service
<1>2. ASSUME NEW p \in Endpoints
      PROVE  printed'[p] = (IF p \in peers' THEN 1 ELSE 0) /\ printed'[p] \in Int
  <2>1. printed[p] = (IF p \in peers THEN 1 ELSE 0)
    BY DEF BridgeInv, Told
  <2>2. Bridge!Told(current)[p] =
          (IF p \in current \ peers THEN 1 ELSE IF p \in peers \ current THEN -1 ELSE 0)
    BY DEF Bridge!Told
  <2>3. printed'[p] = printed[p] + Bridge!Told(current)[p]
    BY <1>1
  <2> QED BY <1>1, <2>1, <2>2, <2>3
<1> QED BY <1>1, <1>2 DEF Told

\* What no step of the source or of the capture touches.
LEMMA BridgeStep ==
  ASSUME BridgeInv, [Bridge!Next]_Bridge!vars
  PROVE  BridgeInv'
<1> USE DEF BridgeType
<1>0. BridgeType /\ Told /\ StateTold /\ Polled /\ Paced /\ FlushedOnce /\ Waited /\ MaxFrames \in Nat
      /\ DrainTime \in Nat
  BY BridgeAssumptions DEF BridgeInv, Bridge!LimitsAssumption
<1>1. CASE Bridge!OnInterrupt \/ UNCHANGED Bridge!vars
  <2>1. UNCHANGED <<pc, after, now, capture, record, replayStarted, elapsed, finished, state, lastState,
                    messages, peers, forwarded, refused, sent, drainStarted, printed, flushed, pushedAt>>
    BY <1>1 DEF Bridge!OnInterrupt, Bridge!vars, Bridge!local, Bridge!source, Bridge!sender,
                Bridge!totals, Bridge!history
  <2> QED BY <2>1, <1>0 DEF BridgeInv, Told, StateTold, Polled, Paced, FlushedOnce, Waited
<1>2. CASE Bridge!Tick
  <2>1. UNCHANGED <<pc, after, capture, record, replayStarted, elapsed, finished, state, lastState,
                    messages, peers, forwarded, refused, sent, drainStarted, printed, flushed, pushedAt>>
        /\ now' = now + 1
    BY <1>2 DEF Bridge!Tick, Bridge!local, Bridge!source, Bridge!sender, Bridge!totals, Bridge!history
  <2>2. BridgeType' /\ Told' /\ StateTold' /\ Polled' /\ FlushedOnce'
    BY <2>1, <1>0 DEF Told, StateTold, Polled, FlushedOnce
  <2>3. Paced'
    BY <2>1, <1>0 DEF Paced
  <2>4. Waited'
    BY <2>1, <1>0 DEF Waited
  <2> QED BY <2>2, <2>3, <2>4 DEF BridgeInv
<1>3. CASE Bridge!Loop
  <2>1. /\ pc = "loop" /\ ~finished /\ Bridge!Service(messages)
        /\ pc' \in {"replay", "forward"} /\ after' \in {"loop", after}
        /\ (pc' = "forward" => after' = "loop")
        /\ replayStarted' \in {replayStarted, now}
        /\ elapsed' = IF replayStarted' = Bridge!Never THEN Bridge!Never ELSE now - replayStarted'
        /\ UNCHANGED <<now, capture, record, finished, state, lastState, forwarded, refused, sent,
                       drainStarted, flushed, pushedAt>>
    BY <1>3 DEF Bridge!Loop, Bridge!source, Bridge!totals, Bridge!history
  <2>2. Told' /\ peers' \subseteq Endpoints /\ printed' \in [Endpoints -> Int]
    BY <2>1, ServiceTells
  <2>3. BridgeType'
    BY <2>1, <2>2, <1>0 DEF Bridge!Never
  <2>4. StateTold' /\ Polled' /\ FlushedOnce' /\ Waited'
    BY <2>1, <1>0 DEF StateTold, Polled, FlushedOnce, Waited
  <2>5. replayStarted' # Bridge!Never => elapsed' <= now' - replayStarted'
    <3>1. now' = now /\ replayStarted' \in Int /\ now \in Nat /\ elapsed' \in Int
      BY <2>1, <2>3, <1>0
    <3>2. replayStarted' # Bridge!Never => elapsed' = now - replayStarted'
      BY <2>1
    <3>3. replayStarted' # Bridge!Never => elapsed' = now' - replayStarted'
      BY <3>1, <3>2
    <3>4. now' - replayStarted' \in Int
      BY <3>1
    <3> SUFFICES ASSUME replayStarted' # Bridge!Never PROVE elapsed' <= now' - replayStarted'
      OBVIOUS
    <3>5. elapsed' = now' - replayStarted'
      BY <3>3
    <3>6. \A a, b \in Int : a = b => a <= b
      OBVIOUS
    <3> QED BY <3>1, <3>4, <3>5, <3>6
  <2>6. Paced'
    BY <2>1, <2>5, <1>0 DEF Paced
  <2> QED BY <2>2, <2>3, <2>4, <2>6 DEF BridgeInv
<1>4. CASE Bridge!LoopEnds \/ Bridge!ReplayWaits
  <2>1. /\ (pc = "loop" /\ pc' = "drain" /\ drainStarted' = now)
           \/ (pc = "replay" /\ pc' = "loop" /\ drainStarted' = drainStarted)
        /\ UNCHANGED <<after, now, capture, record, replayStarted, elapsed, finished, state, lastState,
                       messages, peers, forwarded, refused, sent, printed, flushed, pushedAt>>
    BY <1>4 DEF Bridge!LoopEnds, Bridge!ReplayWaits, Bridge!local, Bridge!source, Bridge!sender,
                Bridge!totals, Bridge!history
  <2> QED BY <2>1, <1>0 DEF BridgeInv, Told, StateTold, Polled, Paced, FlushedOnce, Waited
<1>5. CASE Bridge!ForwardFrame
  <2>1. /\ pc = "forward" /\ ~Bridge!Stopped /\ forwarded' = forwarded + 1
        /\ (refused' = refused + 1 /\ sent' = sent) \/ (sent' = sent + 1 /\ refused' = refused)
        /\ \E waiting : Bridge!Service(waiting)
        /\ UNCHANGED <<pc, after, now, capture, record, replayStarted, elapsed, finished,
                       drainStarted, flushed, pushedAt>>
    BY <1>5 DEF Bridge!ForwardFrame, Bridge!local, Bridge!history
  <2>2. Told' /\ peers' \subseteq Endpoints /\ printed' \in [Endpoints -> Int]
    BY <2>1, ServiceTells
  <2>3. MaxFrames # 0 => forwarded < MaxFrames
    BY <2>1, <1>0 DEF Bridge!Stopped
  <2>4. Polled'
    BY <2>1, <2>3, <1>0 DEF Polled
  <2>5. StateTold' /\ FlushedOnce' /\ Waited' /\ Paced'
    BY <2>1, <1>0 DEF StateTold, FlushedOnce, Waited, Paced
  <2>6. BridgeType'
    BY <2>1, <2>2, <1>0
  <2> QED BY <2>2, <2>4, <2>5, <2>6 DEF BridgeInv
<1>6. CASE Bridge!ForwardEnds
  <2>1. /\ pc = "forward" /\ pc' = after /\ lastState' = state'
        /\ UNCHANGED <<after, now, capture, record, replayStarted, elapsed, finished,
                       messages, peers, forwarded, refused, sent, drainStarted, printed, flushed, pushedAt>>
    BY <1>6 DEF Bridge!ForwardEnds, Bridge!ReportSource, Bridge!local, Bridge!sender, Bridge!totals,
                Bridge!history
  <2> QED BY <2>1, <1>0 DEF BridgeInv, Told, StateTold, Polled, Paced, FlushedOnce, Waited
<1>7. CASE Bridge!PushReplay
  <2>1. /\ pc = "replay" /\ replayStarted # Bridge!Never /\ Bridge!Due
        /\ record' = record + 1 /\ pushedAt' = Append(pushedAt, now - replayStarted)
        /\ pc' = "forward" /\ after' = "replay"
        /\ UNCHANGED <<now, capture, replayStarted, elapsed, finished, messages, peers,
                       forwarded, refused, sent, drainStarted, printed, flushed>>
    BY <1>7 DEF Bridge!PushReplay, Bridge!sender, Bridge!totals
  <2>2. record < Len(capture) /\ capture[record + 1] - capture[1] <= elapsed /\ Len(capture) \in Nat
    BY <2>1, <1>0 DEF Bridge!Due
  <2>3. now - replayStarted \in Int /\ Len(pushedAt) = record
    BY <1>0 DEF Paced
  <2>4. /\ pushedAt' \in Seq(Int) /\ Len(pushedAt') = record + 1
        /\ \A i \in 1..record : pushedAt'[i] = pushedAt[i]
        /\ pushedAt'[record + 1] = now - replayStarted
    BY <2>1, <2>3, <1>0
  <2>5. capture[1] \in Nat /\ capture[record + 1] \in Nat
    BY <2>2, <1>0
  <2>6. now - replayStarted >= capture[record + 1] - capture[1]
    BY <2>1, <2>2, <2>5, <1>0 DEF Paced
  <2>7. ASSUME NEW i \in 1..record' PROVE pushedAt'[i] >= capture'[i] - capture'[1]
    <3>1. CASE i = record + 1
      BY <3>1, <2>1, <2>4, <2>6
    <3>2. CASE i # record + 1
      <4>1. i \in 1..record
        BY <3>2, <2>1, <1>0
      <4> QED BY <4>1, <2>1, <2>4, <1>0 DEF Paced
    <3> QED BY <3>1, <3>2
  <2>8. Paced'
    BY <2>1, <2>2, <2>4, <2>7, <1>0, SMTT(30) DEF Paced
  <2>9. BridgeType'
    BY <2>1, <2>4, <1>0
  <2>10. Told' /\ StateTold' /\ Polled' /\ FlushedOnce' /\ Waited'
    BY <2>1, <1>0 DEF Told, StateTold, Polled, FlushedOnce, Waited
  <2> QED BY <2>8, <2>9, <2>10 DEF BridgeInv
<1>8. CASE Bridge!FlushReplay
  <2>1. /\ pc = "replay" /\ record = Len(capture) /\ flushed' = flushed + 1 /\ finished' = TRUE
        /\ pc' = "forward" /\ after' = "loop"
        /\ UNCHANGED <<now, capture, record, replayStarted, elapsed, state, lastState, messages, peers,
                       forwarded, refused, sent, drainStarted, printed, pushedAt>>
    BY <1>8 DEF Bridge!FlushReplay, Bridge!sender, Bridge!totals
  <2> QED BY <2>1, <1>0 DEF BridgeInv, Told, StateTold, Polled, Paced, FlushedOnce, Waited
<1>9. CASE Bridge!Drain
  <2>1. /\ pc = "drain" /\ Bridge!Service(messages) /\ pc' \in {"close", "drain"}
        /\ pc' = "close" => (\A p \in connected' : messages'[p] = 0) \/ now - drainStarted >= DrainTime
        /\ UNCHANGED <<after, now, capture, record, replayStarted, elapsed, finished, state, lastState,
                       forwarded, refused, sent, drainStarted, flushed, pushedAt>>
    BY <1>9 DEF Bridge!Drain, Bridge!local, Bridge!source, Bridge!totals, Bridge!history
  <2>2. Told' /\ peers' \subseteq Endpoints /\ printed' \in [Endpoints -> Int] /\ connected' = peers'
    BY <2>1, ServiceTells
  <2>3. Waited'
    BY <2>1, <2>2 DEF Waited
  <2>4. BridgeType' /\ StateTold' /\ Polled' /\ FlushedOnce' /\ Paced'
    BY <2>1, <2>2, <1>0 DEF StateTold, Polled, FlushedOnce, Paced
  <2> QED BY <2>2, <2>3, <2>4 DEF BridgeInv
<1>10. CASE Bridge!Close
  <2>1. /\ pc = "close" /\ pc' = "done" /\ lastState' = state'
        /\ printed' = [p \in Endpoints |-> printed[p] - (IF p \in peers THEN 1 ELSE 0)]
        /\ UNCHANGED <<after, now, capture, record, replayStarted, elapsed, finished, messages, peers,
                       forwarded, refused, sent, drainStarted, flushed, pushedAt>>
    BY <1>10 DEF Bridge!Close, Bridge!ReportSource, Bridge!local, Bridge!totals, Bridge!history
  <2>2. \A p \in Endpoints : printed'[p] = 0
    BY <2>1, <1>0 DEF Told
  <2>3. BridgeType'
    BY <2>1, <2>2, <1>0
  <2> QED BY <2>1, <2>2, <2>3, <1>0 DEF BridgeInv, Told, StateTold, Polled, Paced, FlushedOnce, Waited
<1> QED
  BY <1>1, <1>2, <1>3, <1>4, <1>5, <1>6, <1>7, <1>8, <1>9, <1>10 DEF Bridge!Next

-----------------------------------------------------------------------------

\* RunBridge: wherever the signal lands and whatever the peers and the clock do,
\* what the tool printed, paced and counted is what happened, for every capture,
\* set of endpoints, limit and time.
THEOREM BridgeBooksKept == Bridge!Spec => []BridgeKeepsItsBooks
<1>1. BridgeInv => BridgeKeepsItsBooks
  <2> SUFFICES ASSUME BridgeInv PROVE Bridge!BridgeKeepsItsBooks
    BY DEF BridgeKeepsItsBooks
  <2>1. flushed <= 1 /\ (flushed = 1 => record = Len(capture))
    BY DEF BridgeInv, FlushedOnce
  <2>2. pc = "done" /\ (\E p \in peers : messages[p] > 0) => now - drainStarted >= DrainTime
    BY DEF BridgeInv, Waited
  <2>3. pc \in {"loop", "done"} => lastState = state
    BY DEF BridgeInv, StateTold
  <2> QED BY <2>1, <2>2, <2>3 DEF BridgeInv, Told, Polled, Paced, Bridge!BridgeKeepsItsBooks
<1> QED BY <1>1, BridgeInit, BridgeStep, PTL DEF Bridge!Spec
=============================================================================
