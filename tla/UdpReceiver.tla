----------------------------- MODULE UdpReceiver -----------------------------
(***************************************************************************)
(* motionConnectorTransport's UdpReceiver (libs/motionConnectorTransport/  *)
(* src/UdpReceiver.cpp): one bound UDP socket, driven by its caller, and   *)
(* the kernel's side of that socket.  Receive is a loop around `poll` and  *)
(* is split at each return of `poll`, where time passes and the network    *)
(* acts; everything the code does between two polls takes no time and is   *)
(* one action.  Times are whole seconds of the receive clock.              *)
(***************************************************************************)
EXTENDS Integers, Sequences

CONSTANTS
  Thresholds,   \* what silenceTimeoutSeconds may be configured to; 0 is off
  Forever,      \* any negative timeout: wait indefinitely
  Timeouts,     \* what callers pass to Receive
  MaxTicks,     \* bound: seconds in a behaviour
  MaxArrivals,  \* bound: things that reach the socket
  MaxCalls,     \* bound: Receive calls
  MaxOpens      \* bound: Open calls, and ResetStats calls

ASSUME ForeverAssumption == Forever \notin Nat
ASSUME ThresholdsAssumption == Thresholds \subseteq Nat
ASSUME TimeoutsAssumption == Timeouts \subseteq Nat \cup {Forever}
ASSUME BoundsAssumption ==
  MaxTicks \in Nat /\ MaxArrivals \in Nat /\ MaxCalls \in Nat /\ MaxOpens \in Nat

\* What can make the socket readable: a datagram within MaxDatagramBytes, one
\* over it (a long read, or WSAEMSGSIZE), one the kernel discards between the
\* poll and the read, an ICMP report, an error nobody classifies as transient.
Arrival == {"datagram", "oversize", "phantom", "icmp", "fatal"}

Counters == {"datagramsReceived", "idleReceives", "receiveErrors",
             "datagramsTruncated", "silenceReports", "firstReceiveTime", "lastReceiveTime"}

VARIABLES
  open,             \* _socket # -1
  threshold,        \* _config.silenceTimeoutSeconds
  now,              \* Now(): seconds since _epoch
  lastTrafficTime, sawTraffic, silenceReported,
  lastError,        \* _lastError: "" or the platform's message
  stats,            \* UdpReceiverStats
  socket,           \* the kernel's receive queue, oldest first
  broken,           \* the descriptor is ready without POLLIN, and stays so
  status,           \* "none", "waiting" inside Receive, or what it returned
  timeout, start, deadline, \* the call's timeout, its start, and when its poll gives up
  before,           \* history: the stats the call found
  lastArrival,      \* history: when a datagram within the limit last reached the socket
  ticks, arrivals, calls, opens \* history, for the bounds

session == <<open, threshold, lastTrafficTime, sawTraffic, silenceReported, lastError, stats>>
call == <<status, timeout, start, deadline, before>>
bounds == <<ticks, arrivals, calls, opens>>
vars == <<session, now, socket, broken, call, lastArrival, bounds>>

NoStats == [counter \in Counters |-> 0]

\* Fault: a counter runs backwards.
CountBackwards(tally, counter) == [tally EXCEPT ![counter] = @ - 1]

Count(tally, counter) == [tally EXCEPT ![counter] = @ + 1]

Waiting == status = "waiting"

Init ==
  /\ open = FALSE /\ threshold = 0 /\ now = 0
  /\ lastTrafficTime = 0 /\ sawTraffic = FALSE /\ silenceReported = FALSE
  /\ lastError = "" /\ stats = NoStats
  /\ socket = <<>> /\ broken = FALSE
  /\ status = "none" /\ timeout = 0 /\ start = 0 /\ deadline = 0 /\ before = NoStats
  /\ lastArrival = 0
  /\ ticks = 0 /\ arrivals = 0 /\ calls = 0 /\ opens = 0

-----------------------------------------------------------------------------
(* The world: time, and the kernel's half of the socket.                    *)

\* A poll that has nothing to report wakes at its deadline, and one that has
\* something wakes at once: no second passes with a wake-up pending.
PollReady == socket # <<>> \/ broken

PollExpired == deadline # Forever /\ now >= deadline

Tick ==
  /\ ticks < MaxTicks
  /\ ~(Waiting /\ (PollReady \/ PollExpired))
  /\ now' = now + 1
  /\ ticks' = ticks + 1
  /\ UNCHANGED <<session, socket, broken, call, lastArrival, arrivals, calls, opens>>

Arrive(what) ==
  /\ open
  /\ arrivals < MaxArrivals
  /\ socket' = Append(socket, what)
  /\ arrivals' = arrivals + 1
  /\ lastArrival' = IF what = "datagram" THEN now ELSE lastArrival
  /\ UNCHANGED <<session, now, broken, call, ticks, calls, opens>>

Break ==
  /\ open
  /\ arrivals < MaxArrivals
  /\ broken' = TRUE
  /\ arrivals' = arrivals + 1
  /\ UNCHANGED <<session, now, socket, call, lastArrival, ticks, calls, opens>>

-----------------------------------------------------------------------------
(* The caller.                                                              *)

\* What Close leaves behind: stats, the error text and the epoch survive it.
Closed ==
  /\ open' = FALSE
  /\ threshold' = 0
  /\ lastTrafficTime' = 0 /\ sawTraffic' = FALSE /\ silenceReported' = FALSE
  /\ socket' = <<>> /\ broken' = FALSE

Close ==
  /\ open
  /\ ~Waiting
  /\ Closed
  /\ status' = "none"
  /\ UNCHANGED <<lastError, stats, now, timeout, start, deadline, before, lastArrival, bounds>>

\* Fault: the tally survives a reopening.
StatsCarriedOver == stats

StatsAtOpen == NoStats

\* A successful Open starts a session: its clock, its stats, its silence.
OpenBound(configured) ==
  /\ opens < MaxOpens
  /\ ~Waiting
  /\ open' = TRUE
  /\ threshold' = configured
  /\ now' = 0
  /\ lastError' = ""
  /\ stats' = StatsAtOpen
  /\ lastTrafficTime' = 0 /\ sawTraffic' = FALSE /\ silenceReported' = FALSE
  /\ socket' = <<>> /\ broken' = FALSE
  /\ status' = "none"
  /\ lastArrival' = 0
  /\ opens' = opens + 1
  /\ UNCHANGED <<timeout, start, deadline, before, ticks, arrivals, calls>>

\* A failed one closes whatever was open and keeps the tally of that session.
OpenRefused ==
  /\ opens < MaxOpens
  /\ ~Waiting
  /\ Closed
  /\ lastError' = "said"
  /\ status' = "none"
  /\ opens' = opens + 1
  /\ UNCHANGED <<stats, now, timeout, start, deadline, before, lastArrival, ticks, arrivals, calls>>

\* Rearms the report with the tally and leaves the wire's facts alone.
ResetStats ==
  /\ opens < MaxOpens
  /\ ~Waiting
  /\ stats' = NoStats
  /\ silenceReported' = FALSE
  /\ status' = "none"
  /\ opens' = opens + 1
  /\ UNCHANGED <<open, threshold, lastTrafficTime, sawTraffic, lastError, now, socket, broken,
                 timeout, start, deadline, before, lastArrival, ticks, arrivals, calls>>

\* The bound on time leaves room for the whole wait it lets begin.
ReceiveBegin(wait) ==
  /\ calls < MaxCalls
  /\ wait # Forever => ticks + wait <= MaxTicks
  /\ ~Waiting
  /\ calls' = calls + 1
  /\ timeout' = wait
  /\ start' = now
  /\ deadline' = IF wait = Forever THEN Forever ELSE now + wait
  /\ before' = stats
  /\ status' = IF open THEN "waiting" ELSE "Closed"
  /\ UNCHANGED <<session, now, socket, broken, lastArrival, ticks, arrivals, opens>>

-----------------------------------------------------------------------------
(* Receive, from a return of its poll to the next poll or to its own return. *)

\* Fault: retries are not charged against the timeout.
RemainingUncharged == timeout

\* `spend`: what of a bounded timeout is left. The next poll waits for it.
Remaining == IF timeout - (now - start) > 0 THEN timeout - (now - start) ELSE 0

\* Fault: a retry never runs out of budget.
HasBudgetAlways == TRUE

HasBudget == timeout # Forever => Remaining > 0

Continue ==
  /\ HasBudget
  /\ deadline' = IF timeout = Forever THEN Forever ELSE now + Remaining
  /\ UNCHANGED status

Return(result) == status' = result /\ UNCHANGED deadline

\* Fault: the episode is not remembered.
SilenceDueEachPoll == threshold > 0 /\ now - lastTrafficTime >= threshold

\* Fault: silence is measured from Open.
SilenceDueSinceOpen == threshold > 0 /\ ~silenceReported /\ now >= threshold

\* Fault: the threshold itself is not yet silence.
SilenceDueLate == threshold > 0 /\ ~silenceReported /\ now - lastTrafficTime > threshold

SilenceDue == threshold > 0 /\ ~silenceReported /\ now - lastTrafficTime >= threshold

\* `quiet`: the exits that mean no traffic arrived.
Quiet ==
  /\ Return("Idle")
  /\ IF SilenceDue
     THEN /\ stats' = Count(Count(stats, "idleReceives"), "silenceReports")
          /\ silenceReported' = TRUE
     ELSE stats' = Count(stats, "idleReceives") /\ UNCHANGED silenceReported
  /\ UNCHANGED <<lastError, lastTrafficTime, sawTraffic>>

\* What every step inside Receive leaves alone.
Loop == UNCHANGED <<open, threshold, now, broken, timeout, start, before, lastArrival, bounds>>

PollTimesOut ==
  /\ Waiting /\ ~PollReady /\ PollExpired
  /\ Quiet
  /\ Loop /\ UNCHANGED socket

\* A signal ends a poll that would have blocked.
PollInterrupted ==
  /\ Waiting /\ ~PollReady /\ timeout # 0
  /\ \/ Continue /\ UNCHANGED <<stats, silenceReported, lastError, lastTrafficTime, sawTraffic>>
     \/ ~HasBudget /\ Quiet
  /\ Loop /\ UNCHANGED socket

\* Fault: a ready descriptor without the readable bit is polled again.
PollSpins ==
  /\ Waiting /\ broken /\ socket = <<>>
  /\ Continue
  /\ Loop /\ UNCHANGED <<socket, stats, silenceReported, lastError, lastTrafficTime, sawTraffic>>

\* Ready without the readable bit: reported, because a read would find nothing
\* and the poll would be ready again at once.
PollFindsErrorCondition ==
  /\ Waiting /\ broken /\ socket = <<>>
  /\ Return("Failed")
  /\ lastError' = "said"
  /\ Loop /\ UNCHANGED <<socket, stats, silenceReported, lastTrafficTime, sawTraffic>>

\* The read takes the oldest thing that is still there: what the kernel has
\* discarded in the meantime is passed over.
Reads(what) ==
  /\ Waiting
  /\ \E k \in 1..Len(socket) :
       /\ socket[k] = what
       /\ \A j \in 1..k - 1 : socket[j] = "phantom"
       /\ socket' = SubSeq(socket, k + 1, Len(socket))

ReadDatagram ==
  /\ Reads("datagram")
  /\ stats' = [stats EXCEPT !.datagramsReceived = @ + 1,
                            !.lastReceiveTime = now,
                            !.firstReceiveTime = IF stats.datagramsReceived = 0 THEN now ELSE @]
  /\ lastTrafficTime' = now
  /\ sawTraffic' = TRUE
  /\ silenceReported' = FALSE
  /\ Return("Received")
  /\ Loop /\ UNCHANGED lastError

\* The poll said readable and the read found nothing at all.
ReadNothing ==
  /\ Waiting /\ socket # <<>>
  /\ \A i \in 1..Len(socket) : socket[i] = "phantom"
  /\ socket' = <<>>
  /\ \/ Continue /\ UNCHANGED <<stats, silenceReported, lastError, lastTrafficTime, sawTraffic>>
     \/ ~HasBudget /\ Quiet
  /\ Loop

\* An over-long datagram or a transient error: counted as what it is, and the
\* wait goes on while there is budget.
Met(what, counter) ==
  /\ Reads(what)
  /\ stats' = Count(stats, counter)
  /\ lastError' = "said"
  /\ Continue \/ (~HasBudget /\ Return("Idle"))
  /\ Loop /\ UNCHANGED <<silenceReported, lastTrafficTime, sawTraffic>>

ReadFails ==
  /\ Reads("fatal")
  /\ Return("Failed")
  /\ lastError' = "said"
  /\ Loop /\ UNCHANGED <<stats, silenceReported, lastTrafficTime, sawTraffic>>

ReceiveStep ==
  \/ PollTimesOut
  \/ PollInterrupted
  \/ PollFindsErrorCondition
  \/ ReadDatagram
  \/ ReadNothing
  \/ Met("oversize", "datagramsTruncated")
  \/ Met("icmp", "receiveErrors")
  \/ ReadFails

Next ==
  \/ Tick
  \/ \E what \in Arrival : Arrive(what)
  \/ Break
  \/ \E configured \in Thresholds : OpenBound(configured)
  \/ OpenRefused
  \/ Close
  \/ ResetStats
  \/ \E wait \in Timeouts : ReceiveBegin(wait)
  \/ ReceiveStep

Spec == Init /\ [][Next]_vars

\* Time passes, and the thread inside Receive is scheduled. Nothing is assumed
\* of the network or of the caller.
FairSpec == Spec /\ WF_vars(Tick) /\ WF_vars(ReceiveStep)

-----------------------------------------------------------------------------

TypeOK ==
  /\ open \in BOOLEAN /\ sawTraffic \in BOOLEAN /\ silenceReported \in BOOLEAN
  /\ broken \in BOOLEAN
  /\ threshold \in Nat /\ now \in Nat /\ lastTrafficTime \in Nat /\ lastArrival \in Nat
  /\ lastError \in {"", "said"}
  /\ stats \in [Counters -> Nat] /\ before \in [Counters -> Nat]
  /\ socket \in Seq(Arrival)
  /\ status \in {"none", "waiting", "Closed", "Idle", "Received", "Failed"}
  /\ timeout \in Nat \cup {Forever} /\ deadline \in Nat \cup {Forever} /\ start \in Nat
  /\ ticks \in 0..MaxTicks /\ arrivals \in 0..MaxArrivals
  /\ calls \in 0..MaxCalls /\ opens \in 0..MaxOpens

\* A session never mixes two clocks: whatever reopenings, failed reopenings and
\* stats resets came before, no recorded time is in the clock's future, and the
\* stats agree with the wire fact the silence check reads.
OneReceiveClock ==
  /\ lastTrafficTime <= now
  /\ stats.datagramsReceived > 0 =>
       /\ stats.firstReceiveTime <= stats.lastReceiveTime
       /\ stats.lastReceiveTime <= now
       /\ open => sawTraffic /\ stats.lastReceiveTime = lastTrafficTime

\* Silence is reported once per episode: a window has at most one report more
\* than it has datagrams to end an episode.
OneReportPerEpisode == stats.silenceReports <= stats.datagramsReceived + 1

\* A report is true of the datagrams a caller could have had: when it is made, no
\* datagram within the size limit has reached the socket for the threshold, and
\* nothing of any kind waits to be read. What was over the limit, and an ICMP
\* report, are no traffic to it: see MetIsNotIdle.
SilenceIsHonest ==
  [][stats'.silenceReports > stats.silenceReports =>
       /\ now - lastArrival >= threshold
       /\ \A i \in 1..Len(socket) : socket[i] = "phantom"]_vars

\* And it is not missed: a call that returns idle with nothing met, after the
\* socket was silent past the threshold, leaves a window that says so -- after a
\* reopening and after a reset in the middle of the episode too.
SilenceIsTold ==
  [][(Waiting /\ status' = "Idle" /\ stats'.idleReceives > stats.idleReceives
      /\ threshold > 0 /\ now - lastTrafficTime >= threshold)
       => stats'.silenceReports > 0]_vars

\* How much a counter moved in the call whose result `status` is.
Moved(counter) == stats[counter] - before[counter]

Encountered == Moved("receiveErrors") + Moved("datagramsTruncated")

\* Whatever a call met, and however often it was woken: it counts one datagram if
\* it hands one out and none else, is idle at most once and only if it says so,
\* and an idle call that is not counted has met something that is. A poll with no
\* time to spend counts one thing.
CallCountsOnce ==
  status \in {"waiting", "Idle", "Received", "Failed", "Closed"} =>
    /\ Moved("datagramsReceived") = (IF status = "Received" THEN 1 ELSE 0)
    /\ Moved("idleReceives") \in (IF status = "Idle" THEN {0, 1} ELSE {0})
    /\ status = "Idle" /\ Moved("idleReceives") = 0 => Encountered > 0
    /\ timeout = 0 /\ status \in {"Idle", "Received"} =>
         Moved("datagramsReceived") + Moved("idleReceives") + Encountered = 1

\* Nobody is told idle early: signals, ICMP reports, over-long and vanished
\* datagrams notwithstanding, the whole timeout has passed, and one without a
\* timeout is never told.
IdleAfterTheWait ==
  [][Waiting /\ status' = "Idle" => timeout # Forever /\ now - start >= timeout]_vars

\* A bounded call does not outlive its budget, whatever wakes its poll early.
WithinBudget == (Waiting /\ timeout # Forever) => now - start <= timeout

\* A bounded call returns; so does any call on a socket that went bad, and any
\* with a datagram to hand out behind whatever else waits there. None of the
\* three passes by itself while the call is in Receive.
CallReturns ==
  []<>~(Waiting /\ \/ broken
                   \/ timeout # Forever
                   \/ \E i \in 1..Len(socket) : socket[i] = "datagram")

\* What the receiver promises of every state: one clock, one report for each
\* episode, and no call beyond its budget.
ReceiverInvariant == TypeOK /\ OneReceiveClock /\ OneReportPerEpisode /\ WithinBudget

\* What a caller may rely on: silence is reported when it is true and whenever
\* it is, a call is tallied once and not idle early, and it comes back.
CallsReportWhatHappened ==
  SilenceIsHonest /\ SilenceIsTold /\ []CallCountsOnce /\ IdleAfterTheWait /\ CallReturns

-----------------------------------------------------------------------------
(* What the header says and the code does not do.                           *)

\* UdpReceiver.h of idleReceives: a call that met a truncated datagram or a
\* transient error and then ran out of budget does not count there, and by
\* UdpReceiver.cpp is no evidence of silence.  That is so when the budget is spent
\* as the thing is met; with some left, the call polls again and times out.
MetIsNotIdle ==
  (status = "Idle" /\ Encountered > 0) =>
    Moved("idleReceives") = 0 /\ Moved("silenceReports") = 0

\* UdpReceiver.h on GetLastErrorText: not cleared by a subsequent success.
ErrorTextSurvivesSuccess == [][lastError # "" => lastError' # ""]_vars
=============================================================================
