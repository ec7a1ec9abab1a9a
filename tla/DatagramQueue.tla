---------------------------- MODULE DatagramQueue ----------------------------
(***************************************************************************)
(* motionConnectorTransport's DatagramQueue (libs/motionConnectorTransport/*)
(* src/UdpReceiver.cpp): the one object the transport shares between two   *)
(* threads.  The network thread pushes; a consumer's thread drains.  Push, *)
(* Clear, GetStats and ResetStats hold `_mutex` throughout and are single  *)
(* actions.  Drain is two: it swaps the queue away under the lock, and     *)
(* moves what it took into the caller's vector with the lock released.     *)
(*                                                                         *)
(* A datagram is its number, in the order the network thread pushed, and   *)
(* its size in bytes.                                                      *)
(***************************************************************************)
EXTENDS Integers, Sequences, SequencesExt

CONSTANTS
  Consumers,     \* threads that drain
  MaxDatagrams,  \* DatagramQueueConfig::maxDatagrams
  MaxBytes,      \* DatagramQueueConfig::maxBytes
  Sizes,         \* datagram sizes the network delivers
  MaxPushes,     \* bound: datagrams pushed in a behaviour
  MaxResets      \* bound: ResetStats and Clear calls in a behaviour

QueueLimitsAssumption == MaxDatagrams \in Nat /\ MaxBytes \in Nat
SizesAssumption == Sizes \subseteq Nat
BoundsAssumption == MaxPushes \in Nat /\ MaxResets \in Nat

VARIABLES
  queued, queuedBytes,                    \* _queued, _queuedBytes
  pushed, drained, dropped, highWaterMark, \* DatagramQueueStats
  taken,          \* taken[c]: what consumer c swapped away and has not moved out
  out,            \* out[c]: the vector consumer c accumulates, `out` of Drain
  arrived,        \* history: datagrams the network thread pushed
  displaced,      \* history: numbers of the datagrams a push displaced
  discarded,      \* history: numbers of the datagrams Clear threw away
  window,         \* history: what the statistics lost track of, see ResetStats
  resets          \* history: ResetStats and Clear calls so far

stats == <<pushed, drained, dropped, highWaterMark>>
history == <<arrived, displaced, discarded, window, resets>>
vars == <<queued, queuedBytes, stats, taken, out, history>>

Datagram == [id : 1..MaxPushes, size : Sizes]

Bytes(datagrams) == FoldLeft(LAMBDA sum, d : sum + d.size, 0, datagrams)

Ids(datagrams) == {datagrams[i].id : i \in 1..Len(datagrams)}

Init ==
  /\ queued = <<>> /\ queuedBytes = 0
  /\ pushed = 0 /\ drained = 0 /\ dropped = 0 /\ highWaterMark = 0
  /\ taken = [c \in Consumers |-> <<>>]
  /\ out = [c \in Consumers |-> <<>>]
  /\ arrived = 0
  /\ displaced = {} /\ discarded = {}
  /\ window = 0
  /\ resets = 0

\* What the `k` oldest datagrams hold.
\* Fault: a displaced datagram gives its bytes back twice.
FreedBytesTwice(k) == 2 * Bytes(SubSeq(queued, 1, k))

FreedBytes(k) == Bytes(SubSeq(queued, 1, k))

\* Fault: the limit is compared before the arrival is counted.
FitsOneTooMany(k, size) ==
  \/ k = Len(queued)
  \/ /\ Len(queued) - k <= MaxDatagrams
     /\ queuedBytes - FreedBytes(k) + size <= MaxBytes

\* The queue has room for `size` bytes more once its `k` oldest are gone. The
\* loop in Push stops at an empty queue whatever the limits say.
Fits(k, size) ==
  \/ k = Len(queued)
  \/ /\ Len(queued) - k + 1 <= MaxDatagrams
     /\ queuedBytes - FreedBytes(k) + size <= MaxBytes

Admitted(k, size) ==
  Append(SubSeq(queued, k + 1, Len(queued)), [id |-> arrived + 1, size |-> size])

\* Displaces the fewest oldest datagrams that make room, and always keeps the
\* one it was given.
Push(size) ==
  /\ arrived < MaxPushes
  /\ \E k \in 0..Len(queued) :
       /\ Fits(k, size)
       /\ \A fewer \in 0..k - 1 : ~Fits(fewer, size)
       /\ queued' = Admitted(k, size)
       /\ queuedBytes' = queuedBytes - FreedBytes(k) + size
       /\ dropped' = dropped + k
       /\ displaced' = displaced \cup Ids(SubSeq(queued, 1, k))
  /\ pushed' = pushed + 1
  /\ highWaterMark' = IF Len(queued') > highWaterMark THEN Len(queued') ELSE highWaterMark
  /\ arrived' = arrived + 1
  /\ UNCHANGED <<drained, taken, out, discarded, window, resets>>

\* Fault: Drain copies the queue where it should swap it.
DrainCopy(c) ==
  /\ taken[c] = <<>>
  /\ taken' = [taken EXCEPT ![c] = queued]
  /\ drained' = drained + Len(queued)
  /\ UNCHANGED <<queued, queuedBytes, pushed, dropped, highWaterMark, out, history>>

\* Fault: what Drain took is not counted.
DrainUncounted(c) ==
  /\ taken[c] = <<>>
  /\ taken' = [taken EXCEPT ![c] = queued]
  /\ queued' = <<>>
  /\ queuedBytes' = 0
  /\ UNCHANGED <<pushed, drained, dropped, highWaterMark, out, history>>

\* The locked half of Drain. A second Drain by the same thread cannot start
\* before the first has moved its datagrams out.
DrainSwap(c) ==
  /\ taken[c] = <<>>
  /\ taken' = [taken EXCEPT ![c] = queued]
  /\ queued' = <<>>
  /\ queuedBytes' = 0
  /\ drained' = drained + Len(queued)
  /\ UNCHANGED <<pushed, dropped, highWaterMark, out, history>>

\* Fault: Drain hands out the newest first.
DrainMoveReversed(c) ==
  /\ taken[c] # <<>>
  /\ out' = [out EXCEPT ![c] = @ \o Reverse(taken[c])]
  /\ taken' = [taken EXCEPT ![c] = <<>>]
  /\ UNCHANGED <<queued, queuedBytes, stats, history>>

\* Fault: Drain forgets to hand out a single datagram.
DrainMoveOfMany(c) ==
  /\ Len(taken[c]) > 1
  /\ out' = [out EXCEPT ![c] = @ \o taken[c]]
  /\ taken' = [taken EXCEPT ![c] = <<>>]
  /\ UNCHANGED <<queued, queuedBytes, stats, history>>

\* The unlocked half: append to the caller's vector, oldest first.
DrainMove(c) ==
  /\ taken[c] # <<>>
  /\ out' = [out EXCEPT ![c] = @ \o taken[c]]
  /\ taken' = [taken EXCEPT ![c] = <<>>]
  /\ UNCHANGED <<queued, queuedBytes, stats, history>>

Clear ==
  /\ resets < MaxResets
  /\ queued' = <<>>
  /\ queuedBytes' = 0
  /\ discarded' = discarded \cup Ids(queued)
  /\ window' = window - Len(queued)
  /\ resets' = resets + 1
  /\ UNCHANGED <<stats, taken, out, arrived, displaced>>

\* Zeroes the tally and leaves the queue alone: what is queued now will be
\* counted as drained or dropped without ever being counted as pushed.
ResetStats ==
  /\ resets < MaxResets
  /\ pushed' = 0 /\ drained' = 0 /\ dropped' = 0 /\ highWaterMark' = 0
  /\ window' = Len(queued)
  /\ resets' = resets + 1
  /\ UNCHANGED <<queued, queuedBytes, taken, out, arrived, displaced, discarded>>

Drain(c) == DrainSwap(c) \/ DrainMove(c)

Next ==
  \/ \E size \in Sizes : Push(size)
  \/ \E c \in Consumers : Drain(c)
  \/ Clear
  \/ ResetStats

Spec == Init /\ [][Next]_vars

\* A consumer's tick keeps coming: it starts a Drain again and finishes the one
\* it is in. Nothing is assumed of the network thread.
FairSpec == Spec /\ \A c \in Consumers : WF_vars(DrainSwap(c)) /\ WF_vars(DrainMove(c))

-----------------------------------------------------------------------------

TypeOK ==
  /\ queued \in Seq(Datagram)
  /\ queuedBytes \in Nat
  /\ pushed \in Nat /\ drained \in Nat /\ dropped \in Nat /\ highWaterMark \in Nat
  /\ taken \in [Consumers -> Seq(Datagram)]
  /\ out \in [Consumers -> Seq(Datagram)]
  /\ arrived \in 0..MaxPushes
  /\ displaced \subseteq 1..MaxPushes /\ discarded \subseteq 1..MaxPushes
  /\ window \in Int
  /\ resets \in 0..MaxResets

Everywhere == {Ids(queued)} \cup {Ids(taken[c]) : c \in Consumers}
              \cup {Ids(out[c]) : c \in Consumers} \cup {displaced, discarded}

\* No datagram is lost or handed out twice, whatever the threads interleave:
\* each one pushed is in exactly one place -- the queue, a Drain in progress, a
\* consumer's vector, or among those displaced or cleared.
ExactlyOnePlace ==
  /\ UNION Everywhere = 1..arrived
  /\ \A d \in 1..arrived :
       /\ d \in Ids(queued) => d \notin displaced \cup discarded
       /\ d \in displaced => d \notin discarded
       /\ \A c \in Consumers :
            /\ d \in Ids(taken[c]) \cup Ids(out[c]) => d \notin displaced \cup discarded \cup Ids(queued)
            /\ ~(d \in Ids(taken[c]) /\ d \in Ids(out[c]))
            /\ \A other \in Consumers \ {c} :
                 (Ids(taken[c]) \cup Ids(out[c])) \cap (Ids(taken[other]) \cup Ids(out[other])) = {}

\* Both limits of DatagramQueueConfig hold after every call, except that the
\* newest datagram is held even where it breaks one on its own.
WithinLimits ==
  /\ Len(queued) <= 1 \/ (Len(queued) <= MaxDatagrams /\ queuedBytes <= MaxBytes)
  /\ Len(queued) <= highWaterMark \/ resets > 0

Bounded == queuedBytes = Bytes(queued) /\ WithinLimits

\* What a consumer accumulates is in arrival order: an assembler fed from the
\* vector is never given a frame boundary out of order. The queue and a Drain in
\* progress are the newer part of the same order.
Newer(c) == out[c] \o taken[c] \o queued

DeliveredInOrder ==
  \A c \in Consumers :
    \A i, j \in 1..Len(Newer(c)) : i < j => Newer(c)[i].id < Newer(c)[j].id

\* The tally describes the traffic: what was pushed since the last reset, and
\* what the reset found queued, was drained, dropped, cleared or is queued.
TallyMatchesTraffic == pushed + window = drained + dropped + Len(queued)

\* What the queue promises of every state the two sides can interleave to.
QueueInvariant ==
  TypeOK /\ ExactlyOnePlace /\ Bounded /\ DeliveredInOrder /\ TallyMatchesTraffic

\* Each datagram that arrived reaches a consumer's vector unless a later push or
\* a Clear takes it: no wakeup is needed for it to get out.  Both sides of the
\* implication are for good once they hold.
EventuallyHandedOut ==
  \A d \in 1..MaxPushes :
    []<>(d <= arrived => d \in displaced \cup discarded
                           \/ \E c \in Consumers : d \in Ids(out[c]))
=============================================================================
