---------------------------- MODULE SocketsProofs ----------------------------
(***************************************************************************)
(* What the two socket layers keep, as MCSockets composes them: UdpReceiver *)
(* its session and its accounts, for every threshold, every time-out and    *)
(* every datagram that can arrive, and TcpSockets (Tcp) its descriptors and *)
(* the bytes each carried, for every number of streams and descriptors.     *)
(***************************************************************************)
EXTENDS MCSockets, FiniteSetTheorems, WellFoundedInduction, TLAPS

\* The tally, read as a function on Counters.
LEMMA CountType ==
  ASSUME NEW tally \in [Counters -> Nat], NEW counter \in Counters
  PROVE  Count(tally, counter) \in [Counters -> Nat]
  BY DEF Count

LEMMA CountMoves ==
  ASSUME NEW tally \in [Counters -> Nat], NEW counter \in Counters
  PROVE  Count(tally, counter)[counter] = tally[counter] + 1
  BY DEF Count

LEMMA CountKeeps ==
  ASSUME NEW tally \in [Counters -> Nat], NEW counter \in Counters,
         NEW other \in Counters \ {counter}
  PROVE  Count(tally, counter)[other] = tally[other]
  BY DEF Count

LEMMA NoStatsFacts ==
  NoStats \in [Counters -> Nat] /\ \A counter \in Counters : NoStats[counter] = 0
  BY DEF NoStats

\* What ReadDatagram makes of the tally.
Accepting ==
  [stats EXCEPT !.datagramsReceived = @ + 1,
                !.lastReceiveTime = now,
                !.firstReceiveTime = IF stats.datagramsReceived = 0 THEN now ELSE @]

LEMMA AcceptingFacts ==
  ASSUME stats \in [Counters -> Nat], now \in Nat
  PROVE  /\ Accepting \in [Counters -> Nat]
         /\ Accepting.datagramsReceived = stats.datagramsReceived + 1
         /\ Accepting.silenceReports = stats.silenceReports
         /\ Accepting.lastReceiveTime = now
         /\ Accepting.firstReceiveTime = IF stats.datagramsReceived = 0 THEN now
                                         ELSE stats.firstReceiveTime
<1>1. Accepting \in [Counters -> Nat]
  <2>1. stats.datagramsReceived + 1 \in Nat /\ stats.firstReceiveTime \in Nat
    BY DEF Counters
  <2>2. (IF stats.datagramsReceived = 0 THEN now ELSE stats.firstReceiveTime) \in Nat
    BY <2>1
  <2>3. \A counter \in Counters : Accepting[counter] \in Nat
    BY <2>1, <2>2 DEF Accepting
  <2>4. DOMAIN Accepting = Counters /\ Accepting = [counter \in Counters |-> Accepting[counter]]
    BY DEF Accepting
  <2> QED BY <2>3, <2>4
<1>2. Accepting.datagramsReceived = stats.datagramsReceived + 1
  BY DEF Accepting, Counters
<1>3. Accepting.silenceReports = stats.silenceReports
  BY DEF Accepting, Counters
<1>4. Accepting.lastReceiveTime = now
  BY DEF Accepting, Counters
<1>5. Accepting.firstReceiveTime = IF stats.datagramsReceived = 0 THEN now
                                   ELSE stats.firstReceiveTime
  BY DEF Accepting, Counters
<1> QED BY <1>1, <1>2, <1>3, <1>4, <1>5

\* The tally after a quiet exit: one idle call, and a report if one is due.
QuietTally ==
  IF SilenceDue THEN Count(Count(stats, "idleReceives"), "silenceReports")
  ELSE Count(stats, "idleReceives")

LEMMA QuietFacts ==
  ASSUME stats \in [Counters -> Nat]
  PROVE  /\ QuietTally \in [Counters -> Nat]
         /\ QuietTally.datagramsReceived = stats.datagramsReceived
         /\ QuietTally.firstReceiveTime = stats.firstReceiveTime
         /\ QuietTally.lastReceiveTime = stats.lastReceiveTime
         /\ QuietTally.silenceReports =
              IF SilenceDue THEN stats.silenceReports + 1 ELSE stats.silenceReports
<1> DEFINE once == Count(stats, "idleReceives")
           twice == Count(once, "silenceReports")
<1>1. once \in [Counters -> Nat] /\ twice \in [Counters -> Nat]
  BY CountType DEF Counters
<1>2. /\ once.datagramsReceived = stats.datagramsReceived
      /\ once.firstReceiveTime = stats.firstReceiveTime
      /\ once.lastReceiveTime = stats.lastReceiveTime
      /\ once.silenceReports = stats.silenceReports
  BY CountKeeps DEF Counters
<1> HIDE DEF once
<1>3. /\ twice.datagramsReceived = once.datagramsReceived
      /\ twice.firstReceiveTime = once.firstReceiveTime
      /\ twice.lastReceiveTime = once.lastReceiveTime
      /\ twice.silenceReports = once.silenceReports + 1
  BY <1>1, CountKeeps, CountMoves DEF Counters
<1> HIDE DEF twice
<1>4. CASE SilenceDue
  <2>1. QuietTally = twice
    BY <1>4 DEF QuietTally, once, twice
  <2> QED BY <1>1, <1>2, <1>3, <1>4, <2>1
<1>5. CASE ~SilenceDue
  <2>1. QuietTally = once
    BY <1>5 DEF QuietTally, once
  <2> QED BY <1>1, <1>2, <1>5, <2>1
<1> QED BY <1>4, <1>5

LEMMA MetFacts ==
  ASSUME stats \in [Counters -> Nat], NEW counter \in {"datagramsTruncated", "receiveErrors"}
  PROVE  /\ Count(stats, counter) \in [Counters -> Nat]
         /\ Count(stats, counter).datagramsReceived = stats.datagramsReceived
         /\ Count(stats, counter).firstReceiveTime = stats.firstReceiveTime
         /\ Count(stats, counter).lastReceiveTime = stats.lastReceiveTime
         /\ Count(stats, counter).silenceReports = stats.silenceReports
<1>1. Count(stats, counter) \in [Counters -> Nat]
  BY CountType DEF Counters
<1> QED BY <1>1, CountKeeps DEF Counters

-----------------------------------------------------------------------------
(* One session, one clock.                                                  *)

\* The parts of the state the proof reads, typed.
ClockType ==
  /\ now \in Nat /\ lastTrafficTime \in Nat /\ stats \in [Counters -> Nat]
  /\ open \in BOOLEAN /\ silenceReported \in BOOLEAN

\* Each reporting needs a datagram since the one before, while the socket that
\* would report is open.
Episodes ==
  /\ OneReportPerEpisode
  /\ threshold > 0 => open
  /\ (open /\ ~silenceReported) => stats.silenceReports <= stats.datagramsReceived

ClockInv == ClockType /\ OneReceiveClock /\ Episodes

\* A step of Receive leaves the tally as it is, counts a quiet exit, counts what
\* it met, or counts a datagram: nothing else writes it.
TallyStep ==
  \/ UNCHANGED <<stats, silenceReported, lastTrafficTime, sawTraffic>>
  \/ /\ stats' = QuietTally
     /\ silenceReported' = (silenceReported \/ SilenceDue)
     /\ UNCHANGED <<lastTrafficTime, sawTraffic>>
  \/ /\ \E counter \in {"datagramsTruncated", "receiveErrors"} : stats' = Count(stats, counter)
     /\ UNCHANGED <<silenceReported, lastTrafficTime, sawTraffic>>
  \/ /\ stats' = Accepting
     /\ lastTrafficTime' = now /\ sawTraffic' = TRUE /\ silenceReported' = FALSE

LEMMA QuietIsTallyStep == ASSUME silenceReported \in BOOLEAN, Quiet PROVE TallyStep
<1>1. CASE SilenceDue
  BY <1>1 DEF Quiet, TallyStep, QuietTally
<1>2. CASE ~SilenceDue
  BY <1>2 DEF Quiet, TallyStep, QuietTally
<1> QED BY <1>1, <1>2

LEMMA ReceiveStepFacts ==
  ASSUME ClockType, ReceiveStep
  PROVE  TallyStep /\ UNCHANGED <<open, now, threshold>>
<1>1. silenceReported \in BOOLEAN
  BY DEF ClockType
<1>2. Loop => UNCHANGED <<open, now, threshold>>
  BY DEF Loop
<1>3. CASE PollTimesOut
  BY <1>1, <1>2, <1>3, QuietIsTallyStep DEF PollTimesOut
<1>4. CASE PollInterrupted
  BY <1>1, <1>2, <1>4, QuietIsTallyStep DEF PollInterrupted, TallyStep
<1>5. CASE PollFindsErrorCondition
  BY <1>2, <1>5 DEF PollFindsErrorCondition, TallyStep
<1>6. CASE ReadDatagram
  BY <1>2, <1>6 DEF ReadDatagram, TallyStep, Accepting
<1>7. CASE ReadNothing
  BY <1>1, <1>2, <1>7, QuietIsTallyStep DEF ReadNothing, TallyStep
<1>8. CASE Met("oversize", "datagramsTruncated") \/ Met("icmp", "receiveErrors")
  BY <1>2, <1>8 DEF Met, TallyStep
<1>9. CASE ReadFails
  BY <1>2, <1>9 DEF ReadFails, TallyStep
<1> QED BY <1>3, <1>4, <1>5, <1>6, <1>7, <1>8, <1>9 DEF ReceiveStep

LEMMA TallyStepKeeps ==
  ASSUME ClockInv, TallyStep, UNCHANGED <<open, now, threshold>>
  PROVE  ClockInv'
<1>1. /\ stats \in [Counters -> Nat] /\ now \in Nat /\ lastTrafficTime \in Nat
      /\ open \in BOOLEAN /\ silenceReported \in BOOLEAN
      /\ stats.datagramsReceived \in Nat /\ stats.silenceReports \in Nat
      /\ stats.firstReceiveTime \in Nat /\ stats.lastReceiveTime \in Nat
  BY DEF ClockInv, ClockType, Counters
<1>2. CASE UNCHANGED <<stats, silenceReported, lastTrafficTime, sawTraffic>>
  BY <1>2 DEF ClockInv, ClockType, OneReceiveClock, Episodes, OneReportPerEpisode
<1>3. CASE /\ stats' = QuietTally
           /\ silenceReported' = (silenceReported \/ SilenceDue)
           /\ UNCHANGED <<lastTrafficTime, sawTraffic>>
  <2>1. /\ stats' \in [Counters -> Nat]
        /\ stats'.datagramsReceived = stats.datagramsReceived
        /\ stats'.firstReceiveTime = stats.firstReceiveTime
        /\ stats'.lastReceiveTime = stats.lastReceiveTime
        /\ stats'.silenceReports = IF SilenceDue THEN stats.silenceReports + 1
                                   ELSE stats.silenceReports
    BY <1>1, <1>3, QuietFacts
  <2>2. SilenceDue => ~silenceReported /\ open
    BY DEF SilenceDue, ClockInv, Episodes
  <2>3. silenceReported' \in BOOLEAN /\ (silenceReported' <=> silenceReported \/ SilenceDue)
    BY <1>1, <1>3 DEF SilenceDue
  <2>4. ClockType' /\ OneReceiveClock'
    BY <1>1, <1>3, <2>1, <2>3 DEF ClockInv, ClockType, OneReceiveClock
  <2>5. Episodes'
    BY <1>1, <2>1, <2>2, <2>3 DEF ClockInv, Episodes, OneReportPerEpisode
  <2> QED BY <2>4, <2>5 DEF ClockInv
<1>4. CASE /\ \E counter \in {"datagramsTruncated", "receiveErrors"} :
                stats' = Count(stats, counter)
           /\ UNCHANGED <<silenceReported, lastTrafficTime, sawTraffic>>
  <2>1. /\ stats' \in [Counters -> Nat]
        /\ stats'.datagramsReceived = stats.datagramsReceived
        /\ stats'.firstReceiveTime = stats.firstReceiveTime
        /\ stats'.lastReceiveTime = stats.lastReceiveTime
        /\ stats'.silenceReports = stats.silenceReports
    BY <1>1, <1>4, MetFacts
  <2> QED BY <1>1, <1>4, <2>1
          DEF ClockInv, ClockType, OneReceiveClock, Episodes, OneReportPerEpisode
<1>5. CASE /\ stats' = Accepting
           /\ lastTrafficTime' = now /\ sawTraffic' = TRUE /\ silenceReported' = FALSE
  <2>1. /\ stats' \in [Counters -> Nat]
        /\ stats'.datagramsReceived = stats.datagramsReceived + 1
        /\ stats'.silenceReports = stats.silenceReports
        /\ stats'.lastReceiveTime = now
        /\ stats'.firstReceiveTime = IF stats.datagramsReceived = 0 THEN now
                                     ELSE stats.firstReceiveTime
    BY <1>1, <1>5, AcceptingFacts
  <2>2. ClockType'
    BY <1>1, <1>5, <2>1 DEF ClockType
  <2>3. OneReceiveClock'
    <3>1. stats'.firstReceiveTime <= now
      BY <1>1, <2>1 DEF ClockInv, OneReceiveClock
    <3>2. lastTrafficTime' <= now' /\ now' = now /\ lastTrafficTime' = now /\ sawTraffic'
      BY <1>1, <1>5
    <3> QED BY <2>1, <3>1, <3>2 DEF OneReceiveClock
  <2>4. /\ stats.silenceReports <= stats.datagramsReceived + 1
        /\ threshold > 0 => open
    BY DEF ClockInv, Episodes, OneReportPerEpisode
  <2>5. OneReportPerEpisode'
    BY <1>1, <2>1, <2>4 DEF OneReportPerEpisode
  <2>6. stats'.silenceReports <= stats'.datagramsReceived
    BY <1>1, <2>1, <2>4
  <2>7. threshold' > 0 => open'
    BY <2>4
  <2>8. Episodes'
    BY <2>5, <2>6, <2>7 DEF Episodes
  <2> QED BY <2>2, <2>3, <2>8 DEF ClockInv
<1> QED BY <1>2, <1>3, <1>4, <1>5 DEF TallyStep

LEMMA NewSessionKeeps ==
  ASSUME open' \in BOOLEAN, stats' = NoStats, now' \in Nat, lastTrafficTime' \in Nat,
         lastTrafficTime' <= now', silenceReported' = FALSE,
         threshold' > 0 => open'
  PROVE  ClockInv'
<1>1. /\ stats' \in [Counters -> Nat]
      /\ stats'.datagramsReceived = 0 /\ stats'.silenceReports = 0
  BY NoStatsFacts DEF Counters
<1>2. ClockType'
  BY <1>1 DEF ClockType
<1>3. OneReceiveClock'
  BY <1>1 DEF OneReceiveClock
<1>4. OneReportPerEpisode' /\ stats'.silenceReports <= stats'.datagramsReceived
  BY <1>1 DEF OneReportPerEpisode
<1>5. threshold' > 0 => open'
  OBVIOUS
<1>6. Episodes'
  BY <1>4, <1>5 DEF Episodes
<1> QED BY <1>2, <1>3, <1>6 DEF ClockInv

LEMMA ClosedKeeps ==
  ASSUME ClockInv, Closed, UNCHANGED <<stats, now>>
  PROVE  ClockInv'
<1>1. ClockType'
  BY DEF ClockInv, ClockType, Closed
<1>2. OneReceiveClock'
  BY DEF ClockInv, ClockType, OneReceiveClock, Closed
<1>3. Episodes'
  <2>1. OneReportPerEpisode'
    BY DEF ClockInv, Episodes, OneReportPerEpisode
  <2>2. ~open' /\ ~(threshold' > 0)
    BY DEF Closed
  <2> QED BY <2>1, <2>2 DEF Episodes
<1> QED BY <1>1, <1>2, <1>3 DEF ClockInv

LEMMA ClockInit == Init => ClockInv
<1> SUFFICES ASSUME Init PROVE ClockInv
  OBVIOUS
<1>1. stats \in [Counters -> Nat] /\ stats.datagramsReceived = 0 /\ stats.silenceReports = 0
  BY NoStatsFacts DEF Init, Counters
<1>2. now = 0 /\ lastTrafficTime = 0 /\ threshold = 0 /\ ~open /\ open \in BOOLEAN
      /\ silenceReported \in BOOLEAN
  BY DEF Init
<1>3. ClockType /\ OneReceiveClock
  BY <1>1, <1>2 DEF ClockType, OneReceiveClock
<1>4. Episodes
  BY <1>1, <1>2 DEF Episodes, OneReportPerEpisode
<1> QED BY <1>3, <1>4 DEF ClockInv

LEMMA ClockStep == ClockInv /\ [Next]_vars => ClockInv'
<1> SUFFICES ASSUME ClockInv, [Next]_vars PROVE ClockInv'
  OBVIOUS
<1>1. CASE UNCHANGED <<session, now>>
  BY <1>1 DEF session, ClockInv, ClockType, OneReceiveClock, Episodes, OneReportPerEpisode
<1>2. CASE UNCHANGED vars
  BY <1>1, <1>2 DEF vars
<1>3. CASE Tick
  <2>1. UNCHANGED session /\ now' = now + 1
    BY <1>3 DEF Tick
  <2>2. now \in Nat /\ stats \in [Counters -> Nat]
        /\ (lastTrafficTime <= now => lastTrafficTime <= now + 1)
        /\ (stats.lastReceiveTime <= now => stats.lastReceiveTime <= now + 1)
    BY DEF ClockInv, ClockType, Counters
  <2> QED BY <2>1, <2>2
          DEF session, ClockInv, ClockType, OneReceiveClock, Episodes, OneReportPerEpisode
<1>4. ASSUME NEW what \in Arrival, Arrive(what) PROVE ClockInv'
  BY <1>1, <1>4 DEF Arrive
<1>5. CASE Break
  BY <1>1, <1>5 DEF Break
<1>6. ASSUME NEW configured \in Thresholds, OpenBound(configured) PROVE ClockInv'
  <2>1. /\ stats' = NoStats /\ now' = 0 /\ lastTrafficTime' = 0 /\ open' = TRUE
        /\ silenceReported' = FALSE
    BY <1>6 DEF OpenBound, StatsAtOpen
  <2>2. open' \in BOOLEAN /\ (threshold' > 0 => open')
    BY <2>1
  <2>3. now' \in Nat /\ lastTrafficTime' \in Nat /\ lastTrafficTime' <= now'
    BY <2>1
  <2>4. stats' = NoStats /\ silenceReported' = FALSE
    BY <2>1
  <2> QED BY <2>2, <2>3, <2>4, NewSessionKeeps
<1>7. CASE OpenRefused \/ Close
  BY <1>7, ClosedKeeps DEF OpenRefused, Close
<1>8. CASE ResetStats
  <2>1. /\ now \in Nat /\ lastTrafficTime \in Nat /\ lastTrafficTime <= now /\ open \in BOOLEAN
        /\ threshold > 0 => open
    BY DEF ClockInv, ClockType, OneReceiveClock, Episodes
  <2> QED BY <1>8, <2>1, NewSessionKeeps DEF ResetStats
<1>9. ASSUME NEW lasting \in Timeouts, ReceiveBegin(lasting) PROVE ClockInv'
  BY <1>1, <1>9 DEF ReceiveBegin
<1>10. CASE ReceiveStep
  BY <1>10, ReceiveStepFacts, TallyStepKeeps DEF ClockInv
<1> QED BY <1>2, <1>3, <1>4, <1>5, <1>6, <1>7, <1>8, <1>9, <1>10 DEF Next

\* UdpReceiver::Open, Close, ResetStats and Receive keep every recorded time on
\* the axis of the current session's clock, through any reopenings, refused
\* reopenings and resets, for every threshold and timeout.
THEOREM OneClock == Spec => []OneReceiveClock
<1>1. ClockInv => OneReceiveClock
  BY DEF ClockInv
<1> QED BY <1>1, ClockInit, ClockStep, PTL DEF Spec

\* UdpReceiver::_ReportSilence reports an episode of silence at most once: each
\* further report in a window took a datagram in between.
THEOREM EpisodesReportedOnce == Spec => []OneReportPerEpisode
<1>1. ClockInv => OneReportPerEpisode
  BY DEF ClockInv, Episodes
<1> QED BY <1>1, ClockInit, ClockStep, PTL DEF Spec

-----------------------------------------------------------------------------
(* Types, and the budget of a call.                                         *)

LEMMA RemainingType ==
  ASSUME TypeOK, timeout # Forever PROVE Remaining \in Nat /\ timeout \in Nat
<1>1. timeout \in Nat /\ now \in Nat /\ start \in Nat
  BY DEF TypeOK
<1> QED BY <1>1 DEF Remaining

LEMMA ReadsType ==
  ASSUME TypeOK, NEW what \in Arrival, Reads(what) PROVE socket' \in Seq(Arrival)
<1>1. PICK k \in 1..Len(socket) : socket' = SubSeq(socket, k + 1, Len(socket))
  BY DEF Reads
<1>2. socket \in Seq(Arrival)
  BY DEF TypeOK
<1>3. \A i \in k + 1..Len(socket) : socket[i] \in Arrival
  BY <1>1, <1>2
<1> QED BY <1>1, <1>2, <1>3

\* What a step of Receive can change, typed.
LoopType ==
  /\ socket' \in Seq(Arrival)
  /\ status' \in {"waiting", "Idle", "Received", "Failed"}
  /\ deadline' \in Nat \cup {Forever}
  /\ lastError' \in {"", "said"}
  /\ sawTraffic' \in BOOLEAN
  /\ UNCHANGED <<threshold, broken, timeout, start, before, lastArrival, bounds>>

LEMMA ContinueType ==
  ASSUME TypeOK, Waiting, Continue
  PROVE  status' = "waiting" /\ deadline' \in Nat \cup {Forever}
<1>1. now \in Nat
  BY DEF TypeOK
<1>2. timeout # Forever => deadline' \in Nat
  BY <1>1, RemainingType DEF Continue
<1> QED BY <1>2 DEF Continue, Waiting

LEMMA ReceiveStepType ==
  ASSUME TypeOK, ReceiveStep PROVE LoopType
<1>1. /\ socket \in Seq(Arrival) /\ lastError \in {"", "said"} /\ sawTraffic \in BOOLEAN
      /\ deadline \in Nat \cup {Forever}
  BY DEF TypeOK
<1>2. CASE PollTimesOut
  BY <1>1, <1>2 DEF PollTimesOut, Quiet, Return, Loop, LoopType
<1>3. CASE PollInterrupted
  BY <1>1, <1>3, ContinueType DEF PollInterrupted, Quiet, Return, Loop, LoopType
<1>4. CASE PollFindsErrorCondition
  BY <1>1, <1>4 DEF PollFindsErrorCondition, Return, Loop, LoopType
<1>5. CASE ReadDatagram
  <2>1. socket' \in Seq(Arrival)
    BY <1>5, ReadsType DEF ReadDatagram, Arrival
  <2> QED BY <1>1, <1>5, <2>1 DEF ReadDatagram, Return, Loop, LoopType
<1>6. CASE ReadNothing
  <2>1. socket' \in Seq(Arrival)
    BY <1>6 DEF ReadNothing
  <2> QED BY <1>1, <1>6, <2>1, ContinueType DEF ReadNothing, Quiet, Return, Loop, LoopType
<1>7. ASSUME NEW what \in Arrival, NEW counter \in Counters, Met(what, counter) PROVE LoopType
  <2>1. socket' \in Seq(Arrival) /\ Waiting
    BY <1>7, ReadsType DEF Met, Reads
  <2> QED BY <1>1, <1>7, <2>1, ContinueType DEF Met, Return, Loop, LoopType
<1>8. CASE ReadFails
  <2>1. socket' \in Seq(Arrival)
    BY <1>8, ReadsType DEF ReadFails, Arrival
  <2> QED BY <1>1, <1>8, <2>1 DEF ReadFails, Return, Loop, LoopType
<1> QED BY <1>2, <1>3, <1>4, <1>5, <1>6, <1>7, <1>8 DEF ReceiveStep, Arrival, Counters

\* TypeOK in parts small enough for one obligation each.
FlagsType ==
  open \in BOOLEAN /\ sawTraffic \in BOOLEAN /\ silenceReported \in BOOLEAN /\ broken \in BOOLEAN

TimesType ==
  threshold \in Nat /\ now \in Nat /\ lastTrafficTime \in Nat /\ lastArrival \in Nat

SocketType == socket \in Seq(Arrival)

TallyType ==
  /\ lastError \in {"", "said"}
  /\ stats \in [Counters -> Nat] /\ before \in [Counters -> Nat]

CallType ==
  /\ status \in {"none", "waiting", "Closed", "Idle", "Received", "Failed"}
  /\ timeout \in Nat \cup {Forever} /\ deadline \in Nat \cup {Forever} /\ start \in Nat

BoundsType ==
  /\ ticks \in 0..MaxTicks /\ arrivals \in 0..MaxArrivals
  /\ calls \in 0..MaxCalls /\ opens \in 0..MaxOpens

LEMMA TypeInit == Init => TypeOK
<1> SUFFICES ASSUME Init PROVE TypeOK
  OBVIOUS
<1>1. FlagsType
  BY DEF Init, FlagsType
<1>2. TimesType
  BY DEF Init, TimesType
<1>3. SocketType
  <2>1. socket = <<>>
    BY DEF Init
  <2> QED BY <2>1 DEF SocketType
<1>4. TallyType
  <2>1. lastError = "" /\ stats = NoStats /\ before = NoStats
    BY DEF Init
  <2> QED BY <2>1, NoStatsFacts DEF TallyType
<1>5. CallType
  BY DEF Init, CallType
<1>6. BoundsType
  <2>1. ticks = 0 /\ arrivals = 0 /\ calls = 0 /\ opens = 0
    BY DEF Init
  <2> QED BY <2>1, BoundsAssumption DEF BoundsType
<1> QED BY <1>1, <1>2, <1>3, <1>4, <1>5, <1>6
        DEF TypeOK, FlagsType, TimesType, SocketType, TallyType, CallType, BoundsType

LEMMA TypeOfParts ==
  ASSUME FlagsType', TimesType', SocketType', TallyType', CallType', BoundsType'
  PROVE  TypeOK'
  BY DEF TypeOK, FlagsType, TimesType, SocketType, TallyType, CallType, BoundsType

LEMMA TypeStep == TypeOK /\ [Next]_vars => TypeOK'
<1> SUFFICES ASSUME TypeOK, [Next]_vars PROVE TypeOK'
  OBVIOUS
<1>0. FlagsType /\ TimesType /\ SocketType /\ TallyType /\ CallType /\ BoundsType
  BY DEF TypeOK, FlagsType, TimesType, SocketType, TallyType, CallType, BoundsType
<1>1. CASE UNCHANGED vars
  <2>1. FlagsType'
    BY <1>0, <1>1 DEF vars, session, call, bounds, FlagsType
  <2>2. TimesType'
    BY <1>0, <1>1 DEF vars, session, call, bounds, TimesType
  <2>3. SocketType'
    BY <1>0, <1>1 DEF vars, session, call, bounds, SocketType
  <2>4. TallyType'
    BY <1>0, <1>1 DEF vars, session, call, bounds, TallyType
  <2>5. CallType'
    BY <1>0, <1>1 DEF vars, session, call, bounds, CallType
  <2>6. BoundsType'
    BY <1>0, <1>1, BoundsAssumption DEF vars, session, call, bounds, BoundsType
  <2> QED BY <2>1, <2>2, <2>3, <2>4, <2>5, <2>6, TypeOfParts
<1>2. CASE Tick
  <2>1. FlagsType'
    BY <1>0, <1>2 DEF Tick, session, call, FlagsType
  <2>2. TimesType'
    BY <1>0, <1>2 DEF Tick, session, call, TimesType
  <2>3. SocketType'
    BY <1>0, <1>2 DEF Tick, session, call, SocketType
  <2>4. TallyType'
    BY <1>0, <1>2 DEF Tick, session, call, TallyType
  <2>5. CallType'
    BY <1>0, <1>2 DEF Tick, session, call, CallType
  <2>6. BoundsType'
    BY <1>0, <1>2, BoundsAssumption DEF Tick, session, call, BoundsType
  <2> QED BY <2>1, <2>2, <2>3, <2>4, <2>5, <2>6, TypeOfParts
<1>3. ASSUME NEW what \in Arrival, Arrive(what) PROVE TypeOK'
  <2>1. FlagsType'
    BY <1>0, <1>3 DEF Arrive, session, call, FlagsType
  <2>2. TimesType'
    BY <1>0, <1>3 DEF Arrive, session, call, TimesType
  <2>3. SocketType'
    <3>1. socket' = Append(socket, what)
      BY <1>3 DEF Arrive, session, call
    <3> QED BY <1>0, <3>1 DEF SocketType
  <2>4. TallyType'
    <3>1. UNCHANGED <<lastError, stats, before>>
      BY <1>3 DEF Arrive, session, call
    <3> QED BY <1>0, <3>1 DEF TallyType
  <2>5. CallType'
    BY <1>0, <1>3 DEF Arrive, session, call, CallType
  <2>6. BoundsType'
    BY <1>0, <1>3, BoundsAssumption DEF Arrive, session, call, BoundsType
  <2> QED BY <2>1, <2>2, <2>3, <2>4, <2>5, <2>6, TypeOfParts
<1>4. CASE Break
  <2>1. FlagsType'
    BY <1>0, <1>4 DEF Break, session, call, FlagsType
  <2>2. TimesType'
    BY <1>0, <1>4 DEF Break, session, call, TimesType
  <2>3. SocketType'
    BY <1>0, <1>4 DEF Break, session, call, SocketType
  <2>4. TallyType'
    BY <1>0, <1>4 DEF Break, session, call, TallyType
  <2>5. CallType'
    BY <1>0, <1>4 DEF Break, session, call, CallType
  <2>6. BoundsType'
    BY <1>0, <1>4, BoundsAssumption DEF Break, session, call, BoundsType
  <2> QED BY <2>1, <2>2, <2>3, <2>4, <2>5, <2>6, TypeOfParts
<1>5. ASSUME NEW configured \in Thresholds, OpenBound(configured) PROVE TypeOK'
  <2>1. FlagsType'
    BY <1>0, <1>5 DEF OpenBound, StatsAtOpen, FlagsType
  <2>2. TimesType'
    BY <1>0, <1>5, ThresholdsAssumption DEF OpenBound, StatsAtOpen, TimesType
  <2>3. SocketType'
    <3>1. socket' = <<>>
      BY <1>5 DEF OpenBound, StatsAtOpen
    <3> QED BY <1>0, <3>1 DEF SocketType
  <2>4. TallyType'
    <3>1. lastError' = "" /\ stats' = NoStats /\ UNCHANGED before
      BY <1>5 DEF OpenBound, StatsAtOpen
    <3> QED BY <1>0, <3>1, NoStatsFacts DEF TallyType
  <2>5. CallType'
    BY <1>0, <1>5 DEF OpenBound, StatsAtOpen, CallType
  <2>6. BoundsType'
    <3>1. opens < MaxOpens /\ opens' = opens + 1 /\ UNCHANGED <<ticks, arrivals, calls>>
      BY <1>5 DEF OpenBound
    <3> QED BY <1>0, <3>1, BoundsAssumption DEF BoundsType
  <2> QED BY <2>1, <2>2, <2>3, <2>4, <2>5, <2>6, TypeOfParts
<1>6. CASE OpenRefused
  <2>1. FlagsType'
    BY <1>0, <1>6 DEF OpenRefused, Closed, FlagsType
  <2>2. TimesType'
    BY <1>0, <1>6 DEF OpenRefused, Closed, TimesType
  <2>3. SocketType'
    <3>1. socket' = <<>>
      BY <1>6 DEF OpenRefused, Closed
    <3> QED BY <1>0, <3>1 DEF SocketType
  <2>4. TallyType'
    <3>1. lastError' = "said" /\ UNCHANGED <<stats, before>>
      BY <1>6 DEF OpenRefused, Closed
    <3> QED BY <1>0, <3>1 DEF TallyType
  <2>5. CallType'
    BY <1>0, <1>6 DEF OpenRefused, Closed, CallType
  <2>6. BoundsType'
    BY <1>0, <1>6, BoundsAssumption DEF OpenRefused, Closed, BoundsType
  <2> QED BY <2>1, <2>2, <2>3, <2>4, <2>5, <2>6, TypeOfParts
<1>7. CASE Close
  <2>1. FlagsType'
    BY <1>0, <1>7 DEF Close, Closed, bounds, FlagsType
  <2>2. TimesType'
    BY <1>0, <1>7 DEF Close, Closed, bounds, TimesType
  <2>3. SocketType'
    <3>1. socket' = <<>>
      BY <1>7 DEF Close, Closed
    <3> QED BY <1>0, <3>1 DEF SocketType
  <2>4. TallyType'
    <3>1. UNCHANGED <<lastError, stats, before>>
      BY <1>7 DEF Close, Closed
    <3> QED BY <1>0, <3>1 DEF TallyType
  <2>5. CallType'
    BY <1>0, <1>7 DEF Close, Closed, bounds, CallType
  <2>6. BoundsType'
    BY <1>0, <1>7, BoundsAssumption DEF Close, Closed, bounds, BoundsType
  <2> QED BY <2>1, <2>2, <2>3, <2>4, <2>5, <2>6, TypeOfParts
<1>8. CASE ResetStats
  <2>1. FlagsType'
    BY <1>0, <1>8 DEF ResetStats, FlagsType
  <2>2. TimesType'
    BY <1>0, <1>8 DEF ResetStats, TimesType
  <2>3. SocketType'
    BY <1>0, <1>8, NoStatsFacts DEF ResetStats, SocketType
  <2>4. TallyType'
    BY <1>0, <1>8, NoStatsFacts DEF ResetStats, TallyType
  <2>5. CallType'
    BY <1>0, <1>8 DEF ResetStats, CallType
  <2>6. BoundsType'
    BY <1>0, <1>8, BoundsAssumption DEF ResetStats, BoundsType
  <2> QED BY <2>1, <2>2, <2>3, <2>4, <2>5, <2>6, TypeOfParts
<1>9. ASSUME NEW lasting \in Timeouts, ReceiveBegin(lasting) PROVE TypeOK'
  <2>1. FlagsType'
    BY <1>0, <1>9 DEF ReceiveBegin, session, FlagsType
  <2>2. TimesType'
    BY <1>0, <1>9 DEF ReceiveBegin, session, TimesType
  <2>3. SocketType'
    BY <1>0, <1>9 DEF ReceiveBegin, session, SocketType
  <2>4. TallyType'
    BY <1>0, <1>9 DEF ReceiveBegin, session, TallyType
  <2>5. CallType'
    BY <1>0, <1>9, TimeoutsAssumption DEF ReceiveBegin, session, CallType, TimesType
  <2>6. BoundsType'
    BY <1>0, <1>9, BoundsAssumption DEF ReceiveBegin, session, BoundsType
  <2> QED BY <2>1, <2>2, <2>3, <2>4, <2>5, <2>6, TypeOfParts
<1>10. CASE ReceiveStep
  <2>1. LoopType /\ TallyStep /\ UNCHANGED <<open, now, threshold>>
    <3>1. ClockType
      BY <1>0 DEF TimesType, FlagsType, TallyType, ClockType
    <3> QED BY <1>10, <3>1, ReceiveStepType, ReceiveStepFacts
  <2>2. stats' \in [Counters -> Nat]
    <3>1. stats \in [Counters -> Nat] /\ now \in Nat
      BY <1>0 DEF TallyType, TimesType
    <3> QED BY <2>1, <3>1, QuietFacts, MetFacts, AcceptingFacts DEF TallyStep
  <2>3. silenceReported' \in BOOLEAN
    <3>1. silenceReported \in BOOLEAN /\ (silenceReported \/ SilenceDue) \in BOOLEAN
      BY <1>0 DEF FlagsType
    <3> QED BY <2>1, <3>1 DEF TallyStep
  <2>4. FlagsType'
    BY <1>0, <2>1, <2>3 DEF LoopType, FlagsType
  <2>5. TimesType'
    BY <1>0, <2>1 DEF LoopType, TallyStep, TimesType
  <2>6. SocketType'
    BY <2>1 DEF LoopType, SocketType
  <2>7. TallyType'
    BY <1>0, <2>1, <2>2 DEF LoopType, TallyType
  <2>8. CallType'
    BY <1>0, <2>1 DEF LoopType, CallType
  <2>9. BoundsType'
    BY <1>0, <2>1 DEF LoopType, bounds, BoundsType
  <2> QED BY <2>4, <2>5, <2>6, <2>7, <2>8, <2>9, TypeOfParts
<1> QED BY <1>1, <1>2, <1>3, <1>4, <1>5, <1>6, <1>7, <1>8, <1>9, <1>10 DEF Next

\* UdpReceiver's members keep their types through every call and every failure.
THEOREM TypeCorrect == Spec => []TypeOK
  BY TypeInit, TypeStep, PTL DEF Spec

\* The deadline of the poll a bounded call waits in is always the call's own:
\* `spend` takes from the next wait exactly what the earlier ones used.
BudgetInv ==
  (Waiting /\ timeout # Forever) =>
    deadline = start + timeout /\ start <= now /\ now <= deadline

LEMMA ContinueKeepsBudget ==
  ASSUME TypeOK, BudgetInv, Waiting, Continue, UNCHANGED <<now, timeout, start>>
  PROVE  BudgetInv'
<1> SUFFICES ASSUME timeout # Forever PROVE BudgetInv'
  BY DEF BudgetInv
<1>1. now \in Nat /\ start \in Nat /\ timeout \in Nat
  BY RemainingType DEF TypeOK
<1>2. start <= now /\ deadline = start + timeout
  BY DEF BudgetInv
<1>3. Remaining > 0 /\ deadline' = now + Remaining
  BY DEF Continue, HasBudget
<1>4. deadline' = start + timeout /\ now <= deadline'
  BY <1>1, <1>2, <1>3 DEF Remaining
<1> QED BY <1>2, <1>4 DEF BudgetInv

LEMMA BudgetStep == TypeOK /\ BudgetInv /\ [Next]_vars => BudgetInv'
<1> SUFFICES ASSUME TypeOK, BudgetInv, [Next]_vars PROVE BudgetInv'
  OBVIOUS
<1>1. CASE UNCHANGED <<call, now>>
  BY <1>1 DEF call, BudgetInv, Waiting
<1>2. CASE status' # "waiting"
  BY <1>2 DEF BudgetInv, Waiting
<1>3. CASE UNCHANGED vars
  BY <1>1, <1>3 DEF vars
<1>4. CASE Tick
  <2> SUFFICES ASSUME Waiting, timeout # Forever PROVE BudgetInv'
    BY <1>4 DEF Tick, call, BudgetInv, Waiting
  <2>1. now \in Nat /\ start \in Nat /\ timeout \in Nat
    BY RemainingType DEF TypeOK
  <2>2. deadline = start + timeout /\ start <= now
    BY DEF BudgetInv
  <2>3. deadline \in Nat /\ deadline # Forever
    BY <2>1, <2>2, ForeverAssumption
  <2>4. now < deadline /\ now' = now + 1 /\ UNCHANGED <<timeout, start, deadline>>
    BY <1>4, <2>1, <2>3 DEF Tick, PollExpired, call
  <2>5. start <= now' /\ now' <= deadline'
    BY <2>1, <2>2, <2>3, <2>4
  <2> QED BY <2>2, <2>4, <2>5 DEF BudgetInv
<1>5. ASSUME NEW what \in Arrival, Arrive(what) PROVE BudgetInv'
  BY <1>1, <1>5 DEF Arrive
<1>6. CASE Break
  BY <1>1, <1>6 DEF Break
<1>7. ASSUME NEW configured \in Thresholds, OpenBound(configured) PROVE BudgetInv'
  BY <1>2, <1>7 DEF OpenBound
<1>8. CASE OpenRefused \/ Close \/ ResetStats
  BY <1>2, <1>8 DEF OpenRefused, Close, ResetStats
<1>9. ASSUME NEW lasting \in Timeouts, ReceiveBegin(lasting) PROVE BudgetInv'
  <2> SUFFICES ASSUME lasting # Forever PROVE BudgetInv'
    BY <1>9 DEF ReceiveBegin, BudgetInv
  <2>1. lasting \in Nat /\ now \in Nat
    BY TimeoutsAssumption DEF TypeOK
  <2>2. timeout' = lasting /\ start' = now /\ deadline' = now + lasting /\ now' = now
    BY <1>9 DEF ReceiveBegin
  <2> QED BY <2>1, <2>2 DEF BudgetInv
<1>10. CASE ReceiveStep
  <2>1. Loop /\ Waiting
    BY <1>10 DEF ReceiveStep, PollTimesOut, PollInterrupted, PollFindsErrorCondition,
                 ReadDatagram, ReadNothing, Met, ReadFails, Reads
  <2>2. UNCHANGED <<now, timeout, start>>
    BY <2>1 DEF Loop
  <2>3. CASE Continue
    BY <2>1, <2>2, <2>3, ContinueKeepsBudget
  <2>4. CASE \E result \in {"Idle", "Received", "Failed"} : Return(result)
    BY <1>2, <2>4 DEF Return
  <2>5. Continue \/ \E result \in {"Idle", "Received", "Failed"} : Return(result)
    BY <1>10 DEF ReceiveStep, PollTimesOut, PollInterrupted, PollFindsErrorCondition,
                 ReadDatagram, ReadNothing, Met, ReadFails, Quiet
  <2> QED BY <2>3, <2>4, <2>5
<1> QED BY <1>3, <1>4, <1>5, <1>6, <1>7, <1>8, <1>9, <1>10 DEF Next

\* UdpReceiver::Receive never holds its caller past a bounded timeout, however
\* often its poll is woken early, by a signal, a vanished or an over-long
\* datagram, or an ICMP report.
THEOREM BudgetKept == Spec => []WithinBudget
<1>1. Init => BudgetInv
  BY DEF Init, BudgetInv, Waiting
<1>2. TypeOK /\ BudgetInv => WithinBudget
  <2> SUFFICES ASSUME TypeOK, BudgetInv, Waiting, timeout # Forever
               PROVE  now - start <= timeout
    BY DEF WithinBudget
  <2>1. now \in Nat /\ start \in Nat /\ timeout \in Nat
    BY RemainingType DEF TypeOK
  <2> QED BY <2>1 DEF BudgetInv
<1> QED BY <1>1, <1>2, TypeCorrect, BudgetStep, PTL DEF Spec

\* The invariant the runs check, whole: the types, one clock, one report for an
\* episode of silence and the budget of a call, for every threshold and timeout.
THEOREM ReceiverSafety == Spec => []ReceiverInvariant
  BY TypeCorrect, OneClock, EpisodesReportedOnce, BudgetKept, PTL DEF ReceiverInvariant

-----------------------------------------------------------------------------
(* What a call reports: its tally, its patience and the silence.            *)

OnlyPhantoms == \A i \in 1..Len(socket) : socket[i] = "phantom"

\* The two ways out of a bounded wait.
Spent == ~HasBudget \/ PollExpired

PollsAgain == status' = "waiting" /\ HasBudget /\ (timeout = Forever => deadline' = Forever)

\* A step of Receive is a quiet exit, a poll again or a failure, a thing met, or
\* a datagram handed out.
CallStep ==
  \/ /\ Spent /\ OnlyPhantoms /\ status' = "Idle" /\ stats' = QuietTally
     /\ silenceReported' = (silenceReported \/ SilenceDue)
  \/ /\ PollsAgain \/ status' = "Failed"
     /\ UNCHANGED <<stats, silenceReported>>
  \/ /\ PollsAgain \/ (status' = "Idle" /\ ~HasBudget)
     /\ \E counter \in {"datagramsTruncated", "receiveErrors"} : stats' = Count(stats, counter)
     /\ UNCHANGED silenceReported
  \/ status' = "Received" /\ stats' = Accepting /\ silenceReported' = FALSE

LEMMA QuietExit ==
  ASSUME silenceReported \in BOOLEAN, Quiet, Spent, OnlyPhantoms PROVE CallStep
<1>1. CASE SilenceDue
  BY <1>1 DEF Quiet, Return, CallStep, QuietTally
<1>2. CASE ~SilenceDue
  BY <1>2 DEF Quiet, Return, CallStep, QuietTally
<1> QED BY <1>1, <1>2

LEMMA ReceiveStepIsCallStep ==
  ASSUME silenceReported \in BOOLEAN, ReceiveStep PROVE CallStep /\ Waiting /\ Loop
<1>1. Waiting /\ Loop
  BY DEF ReceiveStep, PollTimesOut, PollInterrupted, PollFindsErrorCondition,
         ReadDatagram, ReadNothing, Met, ReadFails, Reads
<1>2. ~PollReady => OnlyPhantoms
  BY DEF PollReady, OnlyPhantoms
<1>3. Continue => PollsAgain
  BY <1>1 DEF Continue, Waiting, PollsAgain
<1>4. CASE PollTimesOut
  BY <1>2, <1>4, QuietExit DEF PollTimesOut, Spent
<1>5. CASE PollInterrupted
  BY <1>2, <1>3, <1>5, QuietExit DEF PollInterrupted, Spent, CallStep
<1>6. CASE PollFindsErrorCondition
  BY <1>6 DEF PollFindsErrorCondition, Return, CallStep
<1>7. CASE ReadDatagram
  <2>1. status' = "Received" /\ stats' = Accepting /\ silenceReported' = FALSE
    BY <1>7 DEF ReadDatagram, Return, Accepting
  <2> QED BY <1>1, <2>1 DEF CallStep
<1>8. CASE ReadNothing
  BY <1>3, <1>8, QuietExit DEF ReadNothing, Spent, OnlyPhantoms, CallStep
<1>9. CASE Met("oversize", "datagramsTruncated") \/ Met("icmp", "receiveErrors")
  <2>1. /\ PollsAgain \/ (status' = "Idle" /\ ~HasBudget)
        /\ UNCHANGED silenceReported
    BY <1>3, <1>9 DEF Met, Return
  <2>2. stats' = Count(stats, "datagramsTruncated") \/ stats' = Count(stats, "receiveErrors")
    BY <1>9 DEF Met
  <2> QED BY <1>1, <2>1, <2>2 DEF CallStep
<1>10. CASE ReadFails
  <2>1. status' = "Failed" /\ UNCHANGED <<stats, silenceReported>>
    BY <1>10 DEF ReadFails, Return
  <2> QED BY <1>1, <2>1 DEF CallStep
<1> QED BY <1>1, <1>4, <1>5, <1>6, <1>7, <1>8, <1>9, <1>10 DEF ReceiveStep

\* The four counters of a call under each of the four.
LEMMA QuietCounts ==
  ASSUME stats \in [Counters -> Nat]
  PROVE  /\ QuietTally.idleReceives = stats.idleReceives + 1
         /\ QuietTally.receiveErrors = stats.receiveErrors
         /\ QuietTally.datagramsTruncated = stats.datagramsTruncated
<1> DEFINE once == Count(stats, "idleReceives")
           twice == Count(once, "silenceReports")
<1>1. once \in [Counters -> Nat]
  BY CountType DEF Counters
<1>2. /\ once.idleReceives = stats.idleReceives + 1
      /\ once.receiveErrors = stats.receiveErrors
      /\ once.datagramsTruncated = stats.datagramsTruncated
  BY CountKeeps, CountMoves DEF Counters
<1> HIDE DEF once
<1>3. /\ twice.idleReceives = once.idleReceives
      /\ twice.receiveErrors = once.receiveErrors
      /\ twice.datagramsTruncated = once.datagramsTruncated
  BY <1>1, CountKeeps DEF Counters
<1>4. QuietTally = twice \/ QuietTally = once
  BY DEF QuietTally, once
<1> QED BY <1>2, <1>3, <1>4

LEMMA MetCounts ==
  ASSUME stats \in [Counters -> Nat], NEW counter \in {"datagramsTruncated", "receiveErrors"}
  PROVE  /\ Count(stats, counter).idleReceives = stats.idleReceives
         /\ Count(stats, counter).receiveErrors + Count(stats, counter).datagramsTruncated
              = stats.receiveErrors + stats.datagramsTruncated + 1
<1>1. Count(stats, counter).idleReceives = stats.idleReceives
  BY CountKeeps DEF Counters
<1>2. stats.receiveErrors \in Nat /\ stats.datagramsTruncated \in Nat
  BY DEF Counters
<1>3. CASE counter = "receiveErrors"
  <2>1. /\ Count(stats, counter).receiveErrors = stats.receiveErrors + 1
        /\ Count(stats, counter).datagramsTruncated = stats.datagramsTruncated
    BY <1>3, CountKeeps, CountMoves DEF Counters
  <2> QED BY <1>1, <1>2, <2>1
<1>4. CASE counter = "datagramsTruncated"
  <2>1. /\ Count(stats, counter).datagramsTruncated = stats.datagramsTruncated + 1
        /\ Count(stats, counter).receiveErrors = stats.receiveErrors
    BY <1>4, CountKeeps, CountMoves DEF Counters
  <2> QED BY <1>1, <1>2, <2>1
<1> QED BY <1>3, <1>4

LEMMA AcceptingCounts ==
  ASSUME stats \in [Counters -> Nat]
  PROVE  /\ Accepting.idleReceives = stats.idleReceives
         /\ Accepting.receiveErrors = stats.receiveErrors
         /\ Accepting.datagramsTruncated = stats.datagramsTruncated
  BY DEF Accepting, Counters

\* What the tally of a call under way says, beside CallCountsOnce.
UnderWay ==
  Waiting => /\ open
             /\ timeout = Forever => deadline = Forever
             /\ Encountered >= 0
             /\ timeout = 0 => Encountered = 0

\* The silence: a datagram that could have been had was read or is waiting, and
\* an episode that is remembered is in the window.
SilenceInv ==
  /\ lastArrival <= now
  /\ open => lastArrival <= lastTrafficTime \/ \E i \in 1..Len(socket) : socket[i] = "datagram"
  /\ silenceReported => stats.silenceReports > 0

LEMMA SpentIsOver ==
  ASSUME TypeOK, BudgetInv, UnderWay, Waiting, Spent
  PROVE  timeout # Forever /\ now - start >= timeout
<1>1. timeout # Forever
  BY DEF Spent, HasBudget, UnderWay, PollExpired
<1>2. now \in Nat /\ start \in Nat /\ timeout \in Nat
  BY <1>1, RemainingType DEF TypeOK
<1>3. deadline = start + timeout
  BY <1>1 DEF BudgetInv
<1> QED BY <1>1, <1>2, <1>3 DEF Spent, HasBudget, Remaining, PollExpired

LEMMA NoBudgetAtZero ==
  ASSUME TypeOK, BudgetInv, Waiting, timeout = 0
  PROVE  ~HasBudget
<1>1. timeout # Forever
  BY ForeverAssumption
<1>2. now \in Nat /\ start \in Nat /\ start <= now
  BY <1>1 DEF TypeOK, BudgetInv
<1> QED BY <1>1, <1>2 DEF HasBudget, Remaining

\* The counters of the call, and those of the call after a step of it.
LEMMA CallStepCounts ==
  ASSUME TypeOK, BudgetInv, CallCountsOnce, UnderWay, CallStep, Waiting, Loop
  PROVE  CallCountsOnce' /\ UnderWay'
<1> DEFINE met(tally) == tally.receiveErrors + tally.datagramsTruncated
<1>1. /\ stats \in [Counters -> Nat] /\ before \in [Counters -> Nat] /\ now \in Nat
      /\ stats.datagramsReceived \in Nat /\ stats.idleReceives \in Nat
      /\ stats.receiveErrors \in Nat /\ stats.datagramsTruncated \in Nat
      /\ before.datagramsReceived \in Nat /\ before.idleReceives \in Nat
      /\ before.receiveErrors \in Nat /\ before.datagramsTruncated \in Nat
  BY DEF TypeOK, Counters
<1>2. /\ stats.datagramsReceived = before.datagramsReceived
      /\ stats.idleReceives = before.idleReceives
      /\ met(stats) >= met(before) /\ (timeout = 0 => met(stats) = met(before))
      /\ open
  <2>1. /\ Moved("datagramsReceived") = 0 /\ Moved("idleReceives") = 0
    BY DEF CallCountsOnce, Waiting
  <2>2. Encountered >= 0 /\ (timeout = 0 => Encountered = 0) /\ open
    BY DEF UnderWay
  <2>3. Encountered = met(stats) - met(before)
    BY <1>1 DEF Encountered, Moved
  <2>4. /\ stats.datagramsReceived = before.datagramsReceived
        /\ stats.idleReceives = before.idleReceives
    <3>1. /\ stats.datagramsReceived - before.datagramsReceived = 0
          /\ stats.idleReceives - before.idleReceives = 0
      BY <2>1 DEF Moved
    <3>2. /\ stats.datagramsReceived \in Nat /\ before.datagramsReceived \in Nat
          /\ stats.idleReceives \in Nat /\ before.idleReceives \in Nat
      BY <1>1
    <3> QED BY <3>1, <3>2
  <2> QED BY <1>1, <2>2, <2>3, <2>4
<1>3. timeout = 0 => ~HasBudget
  BY NoBudgetAtZero
<1>4. UNCHANGED <<open, timeout, before>>
  BY DEF Loop
<1>5. CASE Spent /\ OnlyPhantoms /\ status' = "Idle" /\ stats' = QuietTally
  <2>1. /\ stats'.datagramsReceived = stats.datagramsReceived
        /\ stats'.idleReceives = stats.idleReceives + 1
        /\ stats'.receiveErrors = stats.receiveErrors
        /\ stats'.datagramsTruncated = stats.datagramsTruncated
    BY <1>1, <1>5, QuietFacts, QuietCounts
  <2> QED BY <1>1, <1>2, <1>4, <1>5, <2>1
          DEF CallCountsOnce, UnderWay, Waiting, Moved, Encountered
<1>6. CASE (PollsAgain \/ status' = "Failed") /\ UNCHANGED stats
  BY <1>1, <1>2, <1>4, <1>6
     DEF CallCountsOnce, UnderWay, Waiting, Moved, Encountered, PollsAgain
<1>7. CASE /\ PollsAgain \/ (status' = "Idle" /\ ~HasBudget)
           /\ \E counter \in {"datagramsTruncated", "receiveErrors"} :
                stats' = Count(stats, counter)
  <2>1. /\ stats'.datagramsReceived = stats.datagramsReceived
        /\ stats'.idleReceives = stats.idleReceives
        /\ met(stats') = met(stats) + 1
        /\ stats' \in [Counters -> Nat]
    BY <1>1, <1>7, MetFacts, MetCounts
  <2>2. stats'.receiveErrors \in Nat /\ stats'.datagramsTruncated \in Nat
    BY <2>1 DEF Counters
  <2> QED BY <1>1, <1>2, <1>3, <1>4, <1>7, <2>1, <2>2
          DEF CallCountsOnce, UnderWay, Waiting, Moved, Encountered, PollsAgain
<1>8. CASE status' = "Received" /\ stats' = Accepting
  <2>1. /\ stats'.datagramsReceived = stats.datagramsReceived + 1
        /\ stats'.idleReceives = stats.idleReceives
        /\ stats'.receiveErrors = stats.receiveErrors
        /\ stats'.datagramsTruncated = stats.datagramsTruncated
    BY <1>1, <1>8, AcceptingFacts, AcceptingCounts
  <2> QED BY <1>1, <1>2, <1>4, <1>8, <2>1
          DEF CallCountsOnce, UnderWay, Waiting, Moved, Encountered
<1> QED BY <1>5, <1>6, <1>7, <1>8 DEF CallStep

LEMMA CallStepOfAny ==
  TypeOK /\ BudgetInv /\ CallCountsOnce /\ UnderWay /\ [Next]_vars
    => CallCountsOnce' /\ UnderWay'
<1> SUFFICES ASSUME TypeOK, BudgetInv, CallCountsOnce, UnderWay, [Next]_vars
             PROVE  CallCountsOnce' /\ UnderWay'
  OBVIOUS
<1>1. CASE UNCHANGED <<call, stats, open>>
  BY <1>1 DEF call, CallCountsOnce, UnderWay, Waiting, Moved, Encountered
<1>2. CASE UNCHANGED vars \/ Tick \/ Break
  BY <1>1, <1>2 DEF vars, session, Tick, Break
<1>3. ASSUME NEW what \in Arrival, Arrive(what) PROVE CallCountsOnce' /\ UnderWay'
  BY <1>1, <1>3 DEF Arrive, session
<1>4. CASE status' = "none"
  BY <1>4 DEF CallCountsOnce, UnderWay, Waiting
<1>5. ASSUME NEW configured \in Thresholds, OpenBound(configured)
      PROVE  CallCountsOnce' /\ UnderWay'
  BY <1>4, <1>5 DEF OpenBound
<1>6. CASE OpenRefused \/ Close \/ ResetStats
  BY <1>4, <1>6 DEF OpenRefused, Close, ResetStats
<1>7. ASSUME NEW lasting \in Timeouts, ReceiveBegin(lasting)
      PROVE  CallCountsOnce' /\ UnderWay'
  <2>1. /\ before' = stats /\ stats' = stats /\ status' = (IF open THEN "waiting" ELSE "Closed")
        /\ open' = open /\ (timeout' = Forever => deadline' = Forever)
    BY <1>7 DEF ReceiveBegin, session
  <2>2. \A counter \in Counters : stats[counter] \in Nat
    BY DEF TypeOK
  <2>3. /\ Moved("datagramsReceived")' = 0 /\ Moved("idleReceives")' = 0
        /\ Moved("receiveErrors")' = 0 /\ Moved("datagramsTruncated")' = 0
    BY <2>1, <2>2 DEF Moved, Counters
  <2>4. Encountered' = 0
    BY <2>3 DEF Encountered
  <2>5. CallCountsOnce'
    BY <2>1, <2>3, <2>4 DEF CallCountsOnce
  <2> QED BY <2>1, <2>4, <2>5 DEF UnderWay, Waiting
<1>8. CASE ReceiveStep
  <2>1. silenceReported \in BOOLEAN
    BY DEF TypeOK
  <2> QED BY <1>8, <2>1, ReceiveStepIsCallStep, CallStepCounts
<1> QED BY <1>2, <1>3, <1>5, <1>6, <1>7, <1>8 DEF Next

\* Reads passes over what is gone and takes one thing: a datagram further back in
\* the queue is still there.
LEMMA ReadsKeepsDatagrams ==
  ASSUME TypeOK, NEW what \in Arrival \ {"datagram"}, Reads(what),
         \E i \in 1..Len(socket) : socket[i] = "datagram"
  PROVE  \E i \in 1..Len(socket') : socket'[i] = "datagram"
<1>1. PICK k \in 1..Len(socket) :
        /\ socket[k] = what /\ \A j \in 1..k - 1 : socket[j] = "phantom"
        /\ socket' = SubSeq(socket, k + 1, Len(socket))
  BY DEF Reads
<1>2. PICK i \in 1..Len(socket) : socket[i] = "datagram"
  OBVIOUS
<1>3. socket \in Seq(Arrival) /\ Len(socket) \in Nat
  <2>1. socket \in Seq(Arrival)
    BY DEF TypeOK
  <2> QED BY <2>1
<1>4. i > k
  BY <1>1, <1>2, <1>3
<1>5. Len(socket') = Len(socket) - k /\ socket'[i - k] = socket[i] /\ i - k \in 1..Len(socket) - k
  BY <1>1, <1>3, <1>4
<1> QED BY <1>2, <1>5

LEMMA SilenceOfReceive ==
  ASSUME TypeOK, SilenceInv, ReceiveStep PROVE SilenceInv'
<1>1. /\ stats \in [Counters -> Nat] /\ now \in Nat /\ lastArrival \in Nat
      /\ lastTrafficTime \in Nat /\ silenceReported \in BOOLEAN /\ stats.silenceReports \in Nat
  BY DEF TypeOK, Counters
<1>2. CallStep /\ Loop
  BY <1>1, ReceiveStepIsCallStep
<1>3. UNCHANGED <<open, now, lastArrival>>
  BY <1>2 DEF Loop
<1>4. silenceReported' => stats'.silenceReports > 0
  <2>1. CASE stats' = QuietTally /\ silenceReported' = (silenceReported \/ SilenceDue)
    BY <1>1, <2>1, QuietFacts DEF SilenceInv
  <2>2. CASE UNCHANGED <<stats, silenceReported>>
    BY <2>2 DEF SilenceInv
  <2>3. CASE /\ \E counter \in {"datagramsTruncated", "receiveErrors"} :
                  stats' = Count(stats, counter)
             /\ UNCHANGED silenceReported
    BY <1>1, <2>3, MetFacts DEF SilenceInv
  <2> QED BY <1>2, <2>1, <2>2, <2>3 DEF CallStep
<1>5. open' => \/ lastArrival' <= lastTrafficTime'
               \/ \E i \in 1..Len(socket') : socket'[i] = "datagram"
  <2>1. CASE ReadDatagram
    BY <1>1, <1>3, <2>1 DEF ReadDatagram, SilenceInv
  <2>2. ASSUME NEW what \in Arrival \ {"datagram"}, Reads(what), UNCHANGED lastTrafficTime
        PROVE  open' => \/ lastArrival' <= lastTrafficTime'
                        \/ \E i \in 1..Len(socket') : socket'[i] = "datagram"
    <3>1. CASE \E i \in 1..Len(socket) : socket[i] = "datagram"
      BY <2>2, <3>1, ReadsKeepsDatagrams
    <3>2. CASE ~ \E i \in 1..Len(socket) : socket[i] = "datagram"
      BY <1>3, <2>2, <3>2 DEF SilenceInv
    <3> QED BY <3>1, <3>2
  <2>3. CASE ReadNothing
    <3>1. UNCHANGED lastTrafficTime /\ ~ \E i \in 1..Len(socket) : socket[i] = "datagram"
      BY <2>3 DEF ReadNothing, Quiet
    <3> QED BY <1>3, <3>1 DEF SilenceInv
  <2>4. CASE UNCHANGED <<socket, lastTrafficTime>>
    BY <1>3, <2>4 DEF SilenceInv
  <2>5. CASE Met("oversize", "datagramsTruncated") \/ Met("icmp", "receiveErrors") \/ ReadFails
    BY <2>2, <2>5 DEF Met, ReadFails, Arrival
  <2>6. CASE PollTimesOut \/ PollInterrupted \/ PollFindsErrorCondition
    BY <2>4, <2>6 DEF PollTimesOut, PollInterrupted, PollFindsErrorCondition, Quiet
  <2> QED BY <2>1, <2>3, <2>5, <2>6 DEF ReceiveStep
<1> QED BY <1>1, <1>3, <1>4, <1>5 DEF SilenceInv

LEMMA SilenceStep == TypeOK /\ SilenceInv /\ [Next]_vars => SilenceInv'
<1> SUFFICES ASSUME TypeOK, SilenceInv, [Next]_vars PROVE SilenceInv'
  OBVIOUS
<1>0. /\ now \in Nat /\ lastArrival \in Nat /\ lastTrafficTime \in Nat /\ socket \in Seq(Arrival)
      /\ lastArrival <= now
  BY DEF TypeOK, SilenceInv
<1>1. CASE UNCHANGED vars
  BY <1>1 DEF vars, session, SilenceInv
<1>2. CASE Tick
  BY <1>0, <1>2 DEF Tick, session, SilenceInv
<1>3. ASSUME NEW what \in Arrival, Arrive(what) PROVE SilenceInv'
  <2>1. /\ socket' = Append(socket, what) /\ UNCHANGED <<open, lastTrafficTime, silenceReported, stats, now>>
        /\ lastArrival' = (IF what = "datagram" THEN now ELSE lastArrival)
    BY <1>3 DEF Arrive, session
  <2>2. /\ Len(socket') = Len(socket) + 1 /\ Len(socket) \in Nat
        /\ socket'[Len(socket) + 1] = what
        /\ \A i \in 1..Len(socket) : socket'[i] = socket[i]
    BY <1>0, <2>1
  <2>3. CASE what = "datagram"
    BY <1>0, <2>1, <2>2, <2>3 DEF SilenceInv
  <2>4. CASE what # "datagram"
    BY <1>0, <2>1, <2>2, <2>4 DEF SilenceInv
  <2> QED BY <2>3, <2>4
<1>4. CASE Break
  BY <1>4 DEF Break, session, SilenceInv
<1>5. ASSUME NEW configured \in Thresholds, OpenBound(configured) PROVE SilenceInv'
  <2>1. now' = 0 /\ lastArrival' = 0 /\ lastTrafficTime' = 0 /\ silenceReported' = FALSE
    BY <1>5 DEF OpenBound
  <2> QED BY <2>1 DEF SilenceInv
<1>6. CASE OpenRefused \/ Close
  BY <1>0, <1>6 DEF OpenRefused, Close, Closed, SilenceInv
<1>7. CASE ResetStats
  BY <1>7 DEF ResetStats, SilenceInv
<1>8. ASSUME NEW lasting \in Timeouts, ReceiveBegin(lasting) PROVE SilenceInv'
  BY <1>8 DEF ReceiveBegin, session, SilenceInv
<1>9. CASE ReceiveStep
  BY <1>9, SilenceOfReceive
<1> QED BY <1>1, <1>2, <1>3, <1>4, <1>5, <1>6, <1>7, <1>8, <1>9 DEF Next

\* Only Receive tells anything: its callers and the world leave what it told.
LEMMA OnlyReceiveTells ==
  ASSUME TypeOK, [Next]_vars
  PROVE  \/ ReceiveStep
         \/ ~(Waiting /\ status' = "Idle") /\ ~(stats'.silenceReports > stats.silenceReports)
<1>1. stats.silenceReports \in Nat
  BY DEF TypeOK, Counters
<1>2. NoStats.silenceReports = 0
  BY NoStatsFacts DEF Counters
<1>3. CASE UNCHANGED vars \/ Tick \/ Break \/ \E what \in Arrival : Arrive(what)
  <2>1. UNCHANGED <<status, stats>>
    BY <1>3 DEF vars, session, call, Tick, Break, Arrive
  <2> QED BY <1>1, <2>1 DEF Waiting
<1>4. CASE OpenRefused \/ Close \/ \E lasting \in Timeouts : ReceiveBegin(lasting)
  <2>1. ~Waiting /\ UNCHANGED stats
    BY <1>4 DEF OpenRefused, Close, ReceiveBegin, session
  <2> QED BY <1>1, <2>1
<1>5. CASE ResetStats \/ \E configured \in Thresholds : OpenBound(configured)
  <2>1. ~Waiting /\ stats' = NoStats
    BY <1>5 DEF ResetStats, OpenBound, StatsAtOpen
  <2> QED BY <1>1, <1>2, <2>1
<1> QED BY <1>3, <1>4, <1>5 DEF Next

CallInv == TypeOK /\ BudgetInv /\ CallCountsOnce /\ UnderWay /\ SilenceInv

LEMMA CallInvHolds == Spec => []CallInv
<1>1. Init => BudgetInv /\ CallCountsOnce /\ UnderWay
  BY DEF Init, BudgetInv, CallCountsOnce, UnderWay, Waiting
<1>2. Init => SilenceInv
  <2>1. Init => lastArrival = 0 /\ now = 0 /\ open = FALSE /\ silenceReported = FALSE
    BY DEF Init
  <2> QED BY <2>1 DEF SilenceInv
<1>3. CallInv /\ [Next]_vars => CallInv'
  BY TypeStep, BudgetStep, CallStepOfAny, SilenceStep DEF CallInv
<1>4. Init => CallInv
  BY TypeInit, <1>1, <1>2 DEF CallInv
<1> QED BY <1>3, <1>4, PTL DEF Spec

\* What Receive tells in one step is true: its silence, its idleness, and its
\* report of an episode that lasts.
LEMMA StepTellsTheTruth ==
  ASSUME CallInv, ReceiveStep
  PROVE  /\ stats'.silenceReports > stats.silenceReports =>
              now - lastArrival >= threshold /\ OnlyPhantoms
         /\ status' = "Idle" => timeout # Forever /\ now - start >= timeout
         /\ (status' = "Idle" /\ stats'.idleReceives > stats.idleReceives
             /\ threshold > 0 /\ now - lastTrafficTime >= threshold)
              => stats'.silenceReports > 0
<1>1. /\ TypeOK /\ stats \in [Counters -> Nat] /\ now \in Nat /\ lastArrival \in Nat
      /\ lastTrafficTime \in Nat /\ threshold \in Nat /\ silenceReported \in BOOLEAN
      /\ stats.silenceReports \in Nat /\ stats.idleReceives \in Nat
  BY DEF CallInv, TypeOK, Counters
<1>2. CallStep /\ Waiting
  BY <1>1, ReceiveStepIsCallStep
<1>3. open /\ BudgetInv /\ UnderWay /\ SilenceInv
  BY <1>2 DEF CallInv, UnderWay
<1>4. Spent => timeout # Forever /\ now - start >= timeout
  BY <1>1, <1>2, <1>3, SpentIsOver
<1>5. CASE Spent /\ OnlyPhantoms /\ status' = "Idle" /\ stats' = QuietTally
  <2>1. stats'.silenceReports = IF SilenceDue THEN stats.silenceReports + 1 ELSE stats.silenceReports
    BY <1>1, <1>5, QuietFacts
  <2>2. lastArrival <= lastTrafficTime
    BY <1>3, <1>5 DEF SilenceInv, OnlyPhantoms
  <2>3. SilenceDue => now - lastTrafficTime >= threshold
    BY DEF SilenceDue
  <2>4. stats'.silenceReports > stats.silenceReports => now - lastArrival >= threshold
    BY <1>1, <2>1, <2>2, <2>3
  <2>5. (threshold > 0 /\ now - lastTrafficTime >= threshold /\ ~SilenceDue) => stats.silenceReports > 0
    BY <1>3 DEF SilenceDue, SilenceInv
  <2> QED BY <1>1, <1>4, <1>5, <2>1, <2>4, <2>5
<1>6. CASE (PollsAgain \/ status' = "Failed") /\ UNCHANGED stats
  BY <1>1, <1>6 DEF PollsAgain
<1>7. CASE /\ PollsAgain \/ (status' = "Idle" /\ ~HasBudget)
           /\ \E counter \in {"datagramsTruncated", "receiveErrors"} :
                stats' = Count(stats, counter)
  <2>1. /\ stats'.silenceReports = stats.silenceReports
        /\ stats'.idleReceives = stats.idleReceives
    BY <1>1, <1>7, MetFacts, MetCounts
  <2> QED BY <1>1, <1>4, <1>7, <2>1 DEF PollsAgain, Spent
<1>8. CASE status' = "Received" /\ stats' = Accepting
  BY <1>1, <1>8, AcceptingFacts
<1> QED BY <1>2, <1>5, <1>6, <1>7, <1>8 DEF CallStep

\* UdpReceiver::Receive tells what happened, the safety half of what a caller may
\* rely on: silence is reported only when no datagram it could have handed out is
\* younger than the threshold or waiting, and is not missed; a call is tallied
\* once, and is not idle before its time, for every threshold, timeout and order
\* of arrivals, errors, signals, reopenings and resets.
THEOREM CallsTellTheTruth ==
  Spec => SilenceIsHonest /\ SilenceIsTold /\ []CallCountsOnce /\ IdleAfterTheWait
<1>1. CallInv => CallCountsOnce
  BY DEF CallInv
<1>2. CallInv /\ [Next]_vars
        => (stats'.silenceReports > stats.silenceReports =>
              /\ now - lastArrival >= threshold
              /\ \A i \in 1..Len(socket) : socket[i] = "phantom")
  BY StepTellsTheTruth, OnlyReceiveTells DEF CallInv, OnlyPhantoms
<1>3. CallInv /\ [Next]_vars
        => ((Waiting /\ status' = "Idle" /\ stats'.idleReceives > stats.idleReceives
             /\ threshold > 0 /\ now - lastTrafficTime >= threshold)
              => stats'.silenceReports > 0)
  BY StepTellsTheTruth, OnlyReceiveTells DEF CallInv
<1>4. CallInv /\ [Next]_vars
        => (Waiting /\ status' = "Idle" => timeout # Forever /\ now - start >= timeout)
  BY StepTellsTheTruth, OnlyReceiveTells DEF CallInv
<1>5. Spec => []CallCountsOnce
  BY <1>1, CallInvHolds, PTL
<1>6. Spec => SilenceIsHonest
  BY <1>2, CallInvHolds, PTL DEF Spec, SilenceIsHonest
<1>7. Spec => SilenceIsTold
  BY <1>3, CallInvHolds, PTL DEF Spec, SilenceIsTold
<1>8. Spec => IdleAfterTheWait
  BY <1>4, CallInvHolds, PTL DEF Spec, IdleAfterTheWait
<1> QED BY <1>5, <1>6, <1>7, <1>8

-----------------------------------------------------------------------------
(* TcpSockets: descriptors, and what a write has sent.                      *)

Outcomes == {"unresolved", "unconfigured", "refused", "Connected", "InProgress"}

Any == Handles \cup {Tcp!Closed}

Kinds ==
  /\ stream \in [Streams -> Any] /\ listener \in Any /\ descriptors \subseteq Handles
  /\ nonBlocking = descriptors /\ bound = (listener # Tcp!Closed)

\* An open descriptor is the listener's or one stream's.
Owned ==
  /\ \A h \in Handles : h \in descriptors <=> (h = listener \/ \E s \in Streams : stream[s] = h)
  /\ \A s, t \in Streams : s # t /\ stream[s] # Tcp!Closed => stream[s] # stream[t]
  /\ \A s \in Streams : stream[s] # Tcp!Closed => stream[s] # listener

OneOwner == Kinds /\ Owned

\* A write under way is of a stream that is open.
Calling ==
  write = <<>> \/ \E s \in Streams, size \in Nat, written \in Nat :
    write = <<[stream |-> s, size |-> size, written |-> written]>> /\ stream[s] # Tcp!Closed

\* What a connection has sent and its caller has not been told of yet.
Untold(h) == IF write # <<>> /\ Tcp!Handle = h THEN write[1].written ELSE 0

Bytes ==
  /\ sentOn \in [Handles -> Seq(Nat)] /\ offered \in [Handles -> Nat]
  /\ \A h \in Handles : \A i \in 1..Len(sentOn[h]) : sentOn[h][i] = i
  /\ \A h \in Handles : Len(sentOn[h]) = offered[h] + Untold(h)

TcpInv == OneOwner /\ Calling /\ Bytes

-----------------------------------------------------------------------------

\* A set of numbers has a least one: those below some member are fewer than
\* those below any other, and a set of sets has one no other is inside of.
LEMMA LeastExists ==
  ASSUME NEW free \in SUBSET Nat, free # {}
  PROVE  \E h \in free : \A k \in free : h <= k
<1> DEFINE Below(h) == {k \in free : k < h}
           Belows == {Below(h) : h \in free}
<1>1. \A h \in free : Below(h) \in FiniteSubsetsOf(Nat)
  <2> SUFFICES ASSUME NEW h \in free PROVE Below(h) \in FiniteSubsetsOf(Nat)
    OBVIOUS
  <2>1. h \in Nat /\ IsFiniteSet(0..h)
    BY FS_Interval
  <2>2. Below(h) \in SUBSET (0..h) /\ Below(h) \in SUBSET Nat
    <3>1. \A k \in free : k \in Nat /\ (k < h => k \in 0..h)
      BY <2>1
    <3> QED BY <3>1
  <2>3. IsFiniteSet(Below(h))
    BY <2>1, <2>2, FS_Subset
  <2> QED BY <2>2, <2>3 DEF FiniteSubsetsOf
<1>2. Belows \subseteq FiniteSubsetsOf(Nat) /\ Belows # {}
  BY <1>1
<1>3. PICK least \in Belows : \A other \in Belows : <<other, least>> \notin StrictSubsetOrdering(Nat)
  <2> HIDE DEF Belows
  <2> QED BY <1>2, WFMin, FS_StrictSubsetOrderingWellFounded
<1>4. PICK h \in free : least = Below(h)
  BY <1>3
<1>5. ASSUME NEW k \in free, k < h PROVE FALSE
  <2>1. k \in Nat /\ h \in Nat
    OBVIOUS
  <2>2. Below(k) \subseteq Below(h) /\ k \in Below(h) /\ k \notin Below(k)
    <3>1. ~(k < k) /\ \A x \in free : x < k => x < h
      BY <1>5, <2>1
    <3> QED BY <1>5, <3>1
  <2>3. Below(k) \in SUBSET Nat /\ Below(h) \in SUBSET Nat /\ Below(k) # Below(h)
    BY <2>2
  <2>4. <<Below(k), Below(h)>> \in StrictSubsetOrdering(Nat)
    <3> HIDE DEF Below
    <3> QED BY <2>2, <2>3 DEF StrictSubsetOrdering
  <2>5. Below(k) \in Belows
    BY <1>5
  <2> QED BY <1>3, <1>4, <2>4, <2>5
<1>6. \A k \in free : h <= k
  BY <1>5
<1> QED BY <1>6

LEMMA LowestIsFree ==
  ASSUME Tcp!HandleAssumption, NEW used \in SUBSET Handles, used # Handles
  PROVE  Tcp!Lowest(used) \in Handles /\ Tcp!Lowest(used) \notin used /\ Tcp!Lowest(used) # Tcp!Closed
<1> DEFINE free == Handles \ used
<1>1. free \in SUBSET Nat /\ free # {}
  BY DEF Tcp!HandleAssumption
<1>2. \E h \in free : \A k \in free : h <= k
  <2> HIDE DEF free
  <2> QED BY <1>1, LeastExists
<1>3. Tcp!Lowest(used) \in free
  BY <1>2 DEF Tcp!Lowest
<1> QED BY <1>3 DEF Tcp!HandleAssumption

\* A stream or the listener gives its descriptor up.
LEMMA GivesUp ==
  ASSUME Tcp!HandleAssumption, OneOwner, NEW s \in Streams
  PROVE  /\ \A h \in Handles : h \in Tcp!Without(descriptors, stream[s]) <=>
              (h = listener \/ \E t \in Streams \ {s} : stream[t] = h)
         /\ Tcp!Without(descriptors, stream[s]) \subseteq Handles
<1>1. \A t \in Streams : stream[t] \in Handles \cup {Tcp!Closed}
  BY DEF OneOwner, Kinds, Any
<1> QED BY <1>1 DEF OneOwner, Kinds, Owned, Tcp!Without, Tcp!HandleAssumption

LEMMA ListenerGivesUp ==
  ASSUME Tcp!HandleAssumption, OneOwner
  PROVE  /\ \A h \in Handles : h \in Tcp!Without(descriptors, listener) <=> \E t \in Streams : stream[t] = h
         /\ Tcp!Without(descriptors, listener) \subseteq Handles
BY DEF OneOwner, Kinds, Owned, Any, Tcp!Without, Tcp!HandleAssumption

\* A stream that takes no descriptor, or one that nobody has.
LEMMA StreamLeft ==
  ASSUME Tcp!HandleAssumption, OneOwner, NEW s \in Streams,
         stream' = [stream EXCEPT ![s] = Tcp!Closed], descriptors' = Tcp!Without(descriptors, stream[s]),
         nonBlocking' = Tcp!Without(nonBlocking, stream[s]), UNCHANGED <<listener, bound>>
  PROVE  OneOwner'
<1>1. /\ \A t \in Streams : t # s => stream'[t] = stream[t]
      /\ stream'[s] = Tcp!Closed /\ stream' \in [Streams -> Any]
  BY DEF OneOwner, Kinds, Any
<1>2. Kinds'
  BY <1>1, GivesUp DEF OneOwner, Kinds
<1>3. Owned'
  BY <1>1, GivesUp DEF OneOwner, Owned, Tcp!HandleAssumption
<1> QED BY <1>2, <1>3 DEF OneOwner

LEMMA StreamTook ==
  ASSUME Tcp!HandleAssumption, OneOwner, NEW s \in Streams, NEW h \in Handles,
         h \notin Tcp!Without(descriptors, stream[s]),
         stream' = [stream EXCEPT ![s] = h], descriptors' = Tcp!Without(descriptors, stream[s]) \cup {h},
         nonBlocking' = Tcp!Without(nonBlocking, stream[s]) \cup {h}, UNCHANGED <<listener, bound>>
  PROVE  OneOwner'
<1>1. /\ \A t \in Streams : t # s => stream'[t] = stream[t]
      /\ stream'[s] = h /\ stream' \in [Streams -> Any]
  BY DEF OneOwner, Kinds, Any
<1>2. Kinds'
  BY <1>1, GivesUp DEF OneOwner, Kinds
<1>3. h # Tcp!Closed /\ h # listener /\ \A t \in Streams : t # s => stream[t] # h
  BY GivesUp DEF Tcp!HandleAssumption
<1>4. Owned'
  BY <1>1, <1>3, GivesUp DEF OneOwner, Owned, Tcp!HandleAssumption
<1> QED BY <1>2, <1>4 DEF OneOwner

LEMMA ListenerChanges ==
  ASSUME Tcp!HandleAssumption, OneOwner, NEW h \in Any, h \notin Tcp!Without(descriptors, listener),
         listener' = h, bound' = (h # Tcp!Closed),
         descriptors' = Tcp!Without(descriptors, listener) \cup ({h} \ {Tcp!Closed}),
         nonBlocking' = Tcp!Without(nonBlocking, listener) \cup ({h} \ {Tcp!Closed}), UNCHANGED stream
  PROVE  OneOwner'
<1>1. Kinds'
  BY ListenerGivesUp DEF OneOwner, Kinds, Any
<1>2. \A t \in Streams : stream[t] # Tcp!Closed => stream[t] \in Handles /\ stream[t] # h
  BY ListenerGivesUp DEF OneOwner, Kinds, Any
<1>3. Owned'
  BY <1>2, ListenerGivesUp DEF OneOwner, Kinds, Owned, Any, Tcp!HandleAssumption
<1> QED BY <1>1, <1>3 DEF OneOwner

\* Nothing a step between two calls changes reaches the bytes of a descriptor
\* but a new connection, which starts afresh.
LEMMA BytesAtRest ==
  ASSUME TcpInv, Tcp!Idle,
         UNCHANGED <<sentOn, offered>> \/ \E h \in Handles : Tcp!NewConnection(h)
  PROVE  Calling' /\ Bytes'
<1>1. write = <<>> /\ write' = <<>>
  BY DEF Tcp!Idle
<1>2. Calling' /\ (\A h \in Handles : Untold(h) = 0) /\ (\A h \in Handles : Untold(h)' = 0)
  BY <1>1 DEF Calling, Untold
<1>3. CASE UNCHANGED <<sentOn, offered>>
  BY <1>2, <1>3 DEF TcpInv, Bytes
<1>4. ASSUME NEW h \in Handles, Tcp!NewConnection(h) PROVE Bytes'
  <2>1. /\ sentOn' \in [Handles -> Seq(Nat)] /\ offered' \in [Handles -> Nat]
        /\ sentOn'[h] = <<>> /\ offered'[h] = 0
        /\ \A k \in Handles \ {h} : sentOn'[k] = sentOn[k] /\ offered'[k] = offered[k]
    BY <1>4 DEF Tcp!NewConnection, TcpInv, Bytes
  <2>2. Len(sentOn'[h]) = 0
    BY <2>1
  <2>3. \A k \in Handles : \A i \in 1..Len(sentOn'[k]) : sentOn'[k][i] = i
    <3>1. ASSUME NEW k \in Handles \ {h} PROVE \A i \in 1..Len(sentOn'[k]) : sentOn'[k][i] = i
      <4>1. sentOn'[k] = sentOn[k]
        BY <2>1
      <4> QED BY <4>1 DEF TcpInv, Bytes
    <3>2. 1..Len(sentOn'[h]) = {}
      BY <2>2
    <3> QED BY <3>1, <3>2
  <2>4. \A k \in Handles : Len(sentOn'[k]) = offered'[k] + Untold(k)'
    BY <1>2, <2>1, <2>2, SMTT(30) DEF TcpInv, Bytes
  <2> QED BY <2>1, <2>3, <2>4 DEF Bytes
<1> QED BY <1>2, <1>3, <1>4

LEMMA StreamSteps ==
  ASSUME Tcp!HandleAssumption, TcpInv, NEW s \in Streams
  PROVE  /\ Tcp!Close(s) => TcpInv'
         /\ \A o \in Outcomes : Tcp!Connect(s, o) => TcpInv'
         /\ \A o : Tcp!FinishConnect(s, o) => TcpInv'
         /\ \A o : Tcp!Accept(s, o) => TcpInv'
<1>1. ASSUME Tcp!Close(s) PROVE TcpInv'
  <2>1. OneOwner'
    BY <1>1, StreamLeft DEF Tcp!Close, TcpInv
  <2> QED BY <1>1, <2>1, BytesAtRest DEF Tcp!Close, TcpInv
<1>2. ASSUME NEW o \in Outcomes, Tcp!Connect(s, o) PROVE TcpInv'
  <2> DEFINE kept == Tcp!Without(descriptors, stream[s])
  <2>1. CASE o \in {"unresolved", "unconfigured", "refused"}
    <3>1. /\ descriptors' = kept /\ nonBlocking' = Tcp!Without(nonBlocking, stream[s])
          /\ stream' = [stream EXCEPT ![s] = Tcp!Closed]
          /\ Tcp!Idle /\ UNCHANGED <<shut, sentOn, offered, listener, bound>>
      BY <1>2, <2>1 DEF Tcp!Connect
    <3>2. OneOwner'
      BY <3>1, StreamLeft DEF TcpInv
    <3> QED BY <3>1, <3>2, BytesAtRest DEF TcpInv
  <2>2. CASE o \in {"Connected", "InProgress"}
    <3>1. /\ descriptors' = kept \cup {Tcp!Lowest(kept)} /\ kept # Handles
          /\ nonBlocking' = Tcp!Without(nonBlocking, stream[s]) \cup {Tcp!Lowest(kept)}
          /\ stream' = [stream EXCEPT ![s] = Tcp!Lowest(kept)]
          /\ Tcp!Idle /\ Tcp!NewConnection(Tcp!Lowest(kept)) /\ UNCHANGED <<listener, bound>>
      BY <1>2, <2>2 DEF Tcp!Connect
    <3>2. Tcp!Lowest(kept) \in Handles /\ Tcp!Lowest(kept) \notin kept
      BY <3>1, GivesUp, LowestIsFree DEF TcpInv
    <3>3. OneOwner'
      BY <3>1, <3>2, StreamTook DEF TcpInv
    <3> QED BY <3>1, <3>2, <3>3, BytesAtRest DEF TcpInv
  <2>3. o \in {"unresolved", "unconfigured", "refused"} \/ o \in {"Connected", "InProgress"}
    BY DEF Outcomes
  <2> QED BY <2>1, <2>2, <2>3
<1>3. ASSUME NEW o, Tcp!FinishConnect(s, o) PROVE TcpInv'
  <2>1. \/ UNCHANGED <<stream, descriptors, nonBlocking>>
        \/ /\ stream' = [stream EXCEPT ![s] = Tcp!Closed]
           /\ descriptors' = Tcp!Without(descriptors, stream[s]) /\ nonBlocking' = Tcp!Without(nonBlocking, stream[s])
    BY <1>3 DEF Tcp!FinishConnect
  <2>2. Tcp!Idle /\ UNCHANGED <<listener, bound, shut, sentOn, offered>>
    BY <1>3 DEF Tcp!FinishConnect
  <2>3. CASE UNCHANGED <<stream, descriptors, nonBlocking>>
    <3>1. OneOwner'
      BY <2>2, <2>3 DEF TcpInv, OneOwner, Kinds, Owned
    <3> QED BY <2>2, <3>1, BytesAtRest DEF TcpInv
  <2>4. CASE /\ stream' = [stream EXCEPT ![s] = Tcp!Closed]
             /\ descriptors' = Tcp!Without(descriptors, stream[s]) /\ nonBlocking' = Tcp!Without(nonBlocking, stream[s])
    <3>1. OneOwner'
      BY <2>2, <2>4, StreamLeft DEF TcpInv
    <3> QED BY <2>2, <3>1, BytesAtRest DEF TcpInv
  <2> QED BY <2>1, <2>3, <2>4
<1>4. ASSUME NEW o, Tcp!Accept(s, o) PROVE TcpInv'
  <2> DEFINE h == Tcp!Lowest(descriptors)
  <2>1. CASE listener # Tcp!Closed /\ descriptors # Handles /\ o = "Accepted"
    <3>1. /\ descriptors' = Tcp!Without(descriptors, stream[s]) \cup {h}
          /\ nonBlocking' = Tcp!Without(nonBlocking, stream[s]) \cup {h}
          /\ stream' = [stream EXCEPT ![s] = h]
          /\ Tcp!Idle /\ Tcp!NewConnection(h) /\ UNCHANGED <<listener, bound>>
      BY <1>4, <2>1 DEF Tcp!Accept, Tcp!Takes
    <3>2. h \in Handles /\ h \notin Tcp!Without(descriptors, stream[s])
      BY <2>1, LowestIsFree DEF TcpInv, OneOwner, Kinds, Tcp!Without
    <3>3. OneOwner'
      BY <3>1, <3>2, StreamTook DEF TcpInv
    <3> QED BY <3>1, <3>2, <3>3, BytesAtRest DEF TcpInv
  <2>2. CASE ~(listener # Tcp!Closed /\ descriptors # Handles /\ o = "Accepted")
    <3>1. Tcp!Idle /\ UNCHANGED <<stream, descriptors, nonBlocking, shut, sentOn, offered, listener, bound>>
      BY <1>4, <2>2 DEF Tcp!Accept
    <3>2. OneOwner'
      BY <3>1 DEF TcpInv, OneOwner, Kinds, Owned
    <3> QED BY <3>1, <3>2, BytesAtRest DEF TcpInv
  <2> QED BY <2>1, <2>2
<1> QED BY <1>1, <1>2, <1>3, <1>4

LEMMA MoveStep ==
  ASSUME Tcp!HandleAssumption, TcpInv, NEW from \in Streams, NEW to \in Streams, Tcp!Move(from, to)
  PROVE  TcpInv'
<1>1. /\ Tcp!Idle /\ from # to /\ UNCHANGED <<listener, bound, shut, sentOn, offered>>
      /\ descriptors' = Tcp!Without(descriptors, stream[to]) /\ nonBlocking' = Tcp!Without(nonBlocking, stream[to])
      /\ stream' = [stream EXCEPT ![to] = stream[from], ![from] = Tcp!Closed]
  BY DEF Tcp!Move
<1>2. /\ stream' \in [Streams -> Any] /\ stream'[to] = stream[from] /\ stream'[from] = Tcp!Closed
      /\ \A t \in Streams : t # to /\ t # from => stream'[t] = stream[t]
  BY <1>1 DEF TcpInv, OneOwner, Kinds, Any
<1>3. Kinds'
  BY <1>1, <1>2, GivesUp DEF TcpInv, OneOwner, Kinds
<1>4. \A h \in Handles : (\E t \in Streams \ {to} : stream[t] = h) <=> \E t \in Streams : stream'[t] = h
  <2> SUFFICES ASSUME NEW h \in Handles
               PROVE  (\E t \in Streams \ {to} : stream[t] = h) <=> \E t \in Streams : stream'[t] = h
    OBVIOUS
  <2>1. h # Tcp!Closed
    BY DEF Tcp!HandleAssumption
  <2>2. ASSUME NEW t \in Streams \ {to}, stream[t] = h PROVE \E u \in Streams : stream'[u] = h
    <3>1. CASE t = from
      BY <1>2, <2>2, <3>1
    <3>2. CASE t # from
      BY <1>2, <2>2, <3>2
    <3> QED BY <3>1, <3>2
  <2>3. ASSUME NEW t \in Streams, stream'[t] = h PROVE \E u \in Streams \ {to} : stream[u] = h
    <3>1. t # from
      BY <1>2, <2>1, <2>3
    <3>2. CASE t = to
      BY <1>1, <1>2, <2>3, <3>2
    <3>3. CASE t # to
      BY <1>2, <2>3, <3>1, <3>3
    <3> QED BY <3>2, <3>3
  <2> QED BY <2>2, <2>3
<1>5. Owned'
  <2>1. \A h \in Handles : h \in descriptors' <=> (h = listener' \/ \E t \in Streams : stream'[t] = h)
    BY <1>1, <1>4, GivesUp DEF TcpInv
  <2>2. \A s, t \in Streams : s # t /\ stream'[s] # Tcp!Closed => stream'[s] # stream'[t]
    BY <1>1, <1>2 DEF TcpInv, OneOwner, Owned
  <2>3. \A s \in Streams : stream'[s] # Tcp!Closed => stream'[s] # listener'
    BY <1>1, <1>2 DEF TcpInv, OneOwner, Owned
  <2> QED BY <2>1, <2>2, <2>3 DEF Owned
<1>6. Calling' /\ Bytes'
  BY <1>1, BytesAtRest
<1> QED BY <1>3, <1>5, <1>6 DEF TcpInv, OneOwner

LEMMA WriteStep ==
  ASSUME TcpInv, Tcp!BytesAssumption, NEW s \in Streams, NEW size \in 1..MaxBytes, Tcp!Write(s, size)
  PROVE  TcpInv'
<1>1. write = <<>> /\ UNCHANGED <<stream, listener, bound, descriptors, nonBlocking, sentOn, offered>>
  BY DEF Tcp!Write, Tcp!streams
<1>2. OneOwner'
  BY <1>1 DEF TcpInv, OneOwner, Kinds, Owned
<1>3. \/ UNCHANGED write
      \/ stream[s] # Tcp!Closed /\ write' = <<[stream |-> s, size |-> size, written |-> 0]>>
  BY DEF Tcp!Write
<1>4. Calling'
  <2>1. CASE UNCHANGED write
    BY <1>1, <2>1 DEF Calling
  <2>2. CASE stream[s] # Tcp!Closed /\ write' = <<[stream |-> s, size |-> size, written |-> 0]>>
    <3>1. size \in Nat /\ 0 \in Nat
      BY DEF Tcp!BytesAssumption
    <3>2. stream'[s] # Tcp!Closed
      BY <1>1, <2>2
    <3> QED BY <2>2, <3>1, <3>2 DEF Calling
  <2> QED BY <1>3, <2>1, <2>2
<1>5. \A h \in Handles : Untold(h) = 0
  BY <1>1 DEF Untold
<1>6. \A h \in Handles : Untold(h)' = 0
  <2>1. CASE UNCHANGED write
    BY <1>1, <2>1 DEF Untold
  <2>2. CASE write' = <<[stream |-> s, size |-> size, written |-> 0]>>
    BY <2>2 DEF Untold
  <2> QED BY <1>3, <2>1, <2>2
<1>7. Bytes'
  BY <1>1, <1>5, <1>6 DEF TcpInv, Bytes
<1> QED BY <1>2, <1>4, <1>7 DEF TcpInv

\* A write under way, and whose it is.
LEMMA WriteUnderWay ==
  ASSUME TcpInv, Tcp!Writing
  PROVE  /\ write[1].stream \in Streams /\ write[1].size \in Nat /\ write[1].written \in Nat
         /\ write = <<[stream |-> write[1].stream, size |-> write[1].size, written |-> write[1].written]>>
         /\ Tcp!Handle \in Handles /\ Tcp!Handle # Tcp!Closed
         /\ UNCHANGED <<stream, listener, bound, descriptors, nonBlocking>>
         /\ OneOwner'
<1>1. PICK s \in Streams, size \in Nat, written \in Nat :
        write = <<[stream |-> s, size |-> size, written |-> written]>> /\ stream[s] # Tcp!Closed
  BY DEF TcpInv, Tcp!Writing, Calling
<1>2. write[1].stream = s /\ write[1].size = size /\ write[1].written = written
  BY <1>1
<1>3. Tcp!Handle = stream[s] /\ stream[s] \in Handles
  BY <1>1, <1>2 DEF Tcp!Handle, TcpInv, OneOwner, Kinds, Any
<1>4. UNCHANGED <<stream, listener, bound, descriptors, nonBlocking>>
  BY DEF Tcp!Writing, Tcp!streams
<1>5. OneOwner'
  BY <1>4 DEF TcpInv, OneOwner, Kinds, Owned
<1> QED BY <1>1, <1>2, <1>3, <1>4, <1>5

LEMMA SendStep ==
  ASSUME TcpInv, Tcp!BytesAssumption, NEW n \in 0..MaxBytes, Tcp!Send(n)
  PROVE  TcpInv'
<1> DEFINE written == write[1].written
<1>0. PICK h \in Handles : h = Tcp!Handle /\ h # Tcp!Closed
  BY WriteUnderWay DEF Tcp!Send
<1>1. /\ write[1].stream \in Streams /\ write[1].size \in Nat /\ written \in Nat
      /\ stream' = stream /\ OneOwner' /\ n \in Nat
  BY WriteUnderWay DEF Tcp!Send, Tcp!BytesAssumption
<1>2. write' = <<[stream |-> write[1].stream, size |-> write[1].size, written |-> written + n]>>
  <2>1. write' = <<[write[1] EXCEPT !.written = @ + n]>>
    BY DEF Tcp!Send
  <2>2. write[1] = [stream |-> write[1].stream, size |-> write[1].size, written |-> write[1].written]
    BY WriteUnderWay DEF Tcp!Send
  <2> QED BY <2>1, <2>2
<1>3. Calling'
  <2>1. written + n \in Nat
    BY <1>1
  <2>2. stream'[write[1].stream] # Tcp!Closed
    BY <1>0, <1>1 DEF Tcp!Handle
  <2> QED BY <1>1, <1>2, <2>1, <2>2 DEF Calling
<1>4. Untold(h) = written /\ Untold(h)' = written + n
  BY <1>0, <1>1, <1>2 DEF Untold, Tcp!Handle, Tcp!Send, Tcp!Writing
<1>5. \A k \in Handles \ {h} : Untold(k) = 0 /\ Untold(k)' = 0
  BY <1>0, <1>1, <1>2 DEF Untold, Tcp!Handle
<1>6. offered' = offered /\ sentOn' = [sentOn EXCEPT ![h] = @ \o Tcp!Data(n)]
  BY <1>0 DEF Tcp!Send
<1>7. /\ Tcp!Data(n) \in Seq(Nat) /\ Len(Tcp!Data(n)) = n
      /\ \A i \in 1..n : Tcp!Data(n)[i] = Len(sentOn[h]) + i
  <2>1. offered[h] \in Nat /\ Len(sentOn[h]) = offered[h] + written
    BY <1>1, <1>4 DEF TcpInv, Bytes
  <2>2. \A i \in 1..n : offered[h] + written + i \in Nat
    BY <1>1, <2>1
  <2>3. Tcp!Data(n) = [i \in 1..n |-> offered[h] + written + i]
    BY <1>0 DEF Tcp!Data
  <2> DEFINE data == Tcp!Data(n)
  <2>4. data = [i \in 1..n |-> offered[h] + written + i] /\ n \in Nat
    BY <1>1, <2>3
  <2>5. data \in Seq(Nat) /\ Len(data) = n /\ \A i \in 1..n : data[i] = offered[h] + written + i
    <3> HIDE DEF data
    <3> QED BY <2>2, <2>4
  <2> QED BY <1>1, <2>1, <2>5
<1>8. sentOn[h] \in Seq(Nat) /\ \A i \in 1..Len(sentOn[h]) : sentOn[h][i] = i
  BY <1>1 DEF TcpInv, Bytes
<1>9. /\ sentOn' \in [Handles -> Seq(Nat)] /\ sentOn'[h] = sentOn[h] \o Tcp!Data(n)
      /\ \A k \in Handles \ {h} : sentOn'[k] = sentOn[k]
  <2>1. sentOn[h] \o Tcp!Data(n) \in Seq(Nat)
    BY <1>7, <1>8
  <2> QED BY <1>1, <1>6, <2>1 DEF TcpInv, Bytes
<1>10. Len(sentOn'[h]) = Len(sentOn[h]) + n /\ \A i \in 1..Len(sentOn'[h]) : sentOn'[h][i] = i
  <2> DEFINE old == sentOn[h]
             new == Tcp!Data(n)
  <2>1. old \in Seq(Nat) /\ new \in Seq(Nat) /\ Len(new) = n /\ Len(old) \in Nat /\ n \in Nat
    BY <1>1, <1>7, <1>8
  <2>2. (\A i \in 1..Len(old) : old[i] = i) /\ (\A i \in 1..n : new[i] = Len(old) + i)
    BY <1>7, <1>8
  <2>3. sentOn'[h] = old \o new
    BY <1>9
  <2> HIDE DEF old, new
  <2>4. Len(old \o new) = Len(old) + n
    BY <2>1, SMTT(30)
  <2>5. ASSUME NEW i \in 1..(Len(old) + n) PROVE (old \o new)[i] = i
    <3>1. CASE i <= Len(old)
      BY <2>1, <2>2, <2>5, <3>1
    <3>2. CASE i > Len(old)
      <4>1. i - Len(old) \in 1..n /\ (old \o new)[i] = new[i - Len(old)]
        BY <2>1, <2>5, <3>2
      <4> QED BY <2>1, <2>2, <2>5, <4>1
    <3> QED BY <2>1, <2>5, <3>1, <3>2
  <2>6. Len(old) = Len(sentOn[h])
    BY DEF old
  <2> QED BY <2>3, <2>4, <2>5, <2>6
<1> HIDE DEF written
<1>11. \A k \in Handles : \A i \in 1..Len(sentOn'[k]) : sentOn'[k][i] = i
  <2>1. ASSUME NEW k \in Handles \ {h} PROVE \A i \in 1..Len(sentOn'[k]) : sentOn'[k][i] = i
    <3>1. sentOn'[k] = sentOn[k]
      BY <1>9
    <3> QED BY <3>1 DEF TcpInv, Bytes
  <2> QED BY <1>10, <2>1
<1>12. \A k \in Handles : Len(sentOn'[k]) = offered'[k] + Untold(k)'
  <2>1. ASSUME NEW k \in Handles \ {h} PROVE Len(sentOn'[k]) = offered'[k] + Untold(k)'
    <3>1. sentOn'[k] = sentOn[k] /\ offered'[k] = offered[k] /\ Untold(k) = 0 /\ Untold(k)' = 0
      BY <1>5, <1>6, <1>9
    <3> QED BY <3>1 DEF TcpInv, Bytes
  <2>2. Len(sentOn'[h]) = offered'[h] + Untold(h)'
    <3>1. Len(sentOn[h]) = offered[h] + written /\ offered[h] \in Nat
      BY <1>1, <1>4 DEF TcpInv, Bytes
    <3> QED BY <1>1, <1>4, <1>6, <1>10, <3>1
  <2> QED BY <2>1, <2>2
<1>13. Bytes'
  BY <1>6, <1>9, <1>11, <1>12 DEF TcpInv, Bytes
<1> QED BY <1>1, <1>3, <1>13 DEF TcpInv

LEMMA ReturnStep ==
  ASSUME TcpInv, NEW outcome, Tcp!Return(outcome)
  PROVE  TcpInv'
<1> DEFINE h == Tcp!Handle
           written == write[1].written
<1>1. written \in Nat /\ h \in Handles /\ OneOwner'
  BY WriteUnderWay DEF Tcp!Return
<1>2. /\ offered' = [offered EXCEPT ![h] = @ + written] /\ write # <<>> /\ write' = <<>> /\ sentOn' = sentOn
  BY DEF Tcp!Return, Tcp!Writing
<1>3. Untold(h) = written /\ \A k \in Handles : k # h => Untold(k) = 0
  BY <1>2 DEF Untold
<1>4. Calling' /\ \A k \in Handles : Untold(k)' = 0
  BY <1>2 DEF Calling, Untold
<1> HIDE DEF h, written
<1>5. /\ offered' \in [Handles -> Nat] /\ offered'[h] = offered[h] + written
      /\ \A k \in Handles : k # h => offered'[k] = offered[k]
  BY <1>1, <1>2 DEF TcpInv, Bytes
<1>6. Bytes'
  <2>1. ASSUME NEW k \in Handles PROVE Len(sentOn'[k]) = offered'[k] + Untold(k)'
    <3>1. Len(sentOn[k]) = offered[k] + Untold(k) /\ offered[k] \in Nat
      BY DEF TcpInv, Bytes
    <3>2. CASE k = h
      BY <1>1, <1>2, <1>3, <1>4, <1>5, <3>1, <3>2
    <3>3. CASE k # h
      BY <1>2, <1>3, <1>4, <1>5, <3>1, <3>3
    <3> QED BY <3>2, <3>3
  <2>2. sentOn' \in [Handles -> Seq(Nat)] /\ \A k \in Handles : \A i \in 1..Len(sentOn'[k]) : sentOn'[k][i] = i
    BY <1>2 DEF TcpInv, Bytes
  <2> QED BY <1>5, <2>1, <2>2 DEF Bytes
<1> QED BY <1>1, <1>4, <1>6 DEF TcpInv

LEMMA ListenerSteps ==
  ASSUME Tcp!HandleAssumption, TcpInv
  PROVE  /\ \A works : Tcp!ListenerOpen(works) => TcpInv'
         /\ Tcp!ListenerClose => TcpInv'
<1>0. Tcp!Closed \in Any /\ Tcp!Closed \notin Tcp!Without(descriptors, listener)
  BY ListenerGivesUp DEF TcpInv, Any, Tcp!HandleAssumption
<1>1. ASSUME NEW works, Tcp!ListenerOpen(works) PROVE TcpInv'
  <2> DEFINE kept == Tcp!Without(descriptors, listener)
             h == Tcp!Lowest(kept)
  <2>1. Tcp!Idle /\ UNCHANGED <<stream, shut, sentOn, offered>>
    BY <1>1 DEF Tcp!ListenerOpen
  <2>2. \/ /\ kept # Handles /\ listener' = h /\ bound' = TRUE
           /\ descriptors' = kept \cup {h} /\ nonBlocking' = Tcp!Without(nonBlocking, listener) \cup {h}
        \/ /\ listener' = Tcp!Closed /\ bound' = FALSE
           /\ descriptors' = kept /\ nonBlocking' = Tcp!Without(nonBlocking, listener)
    BY <1>1 DEF Tcp!ListenerOpen
  <2>3. CASE /\ kept # Handles /\ listener' = h /\ bound' = TRUE
             /\ descriptors' = kept \cup {h} /\ nonBlocking' = Tcp!Without(nonBlocking, listener) \cup {h}
    <3>1. h \in Any /\ h \notin kept /\ {h} \ {Tcp!Closed} = {h} /\ (h # Tcp!Closed) = TRUE
      BY <2>3, ListenerGivesUp, LowestIsFree DEF TcpInv, Any
    <3>2. OneOwner'
      BY <2>1, <2>3, <3>1, ListenerChanges DEF TcpInv
    <3> QED BY <2>1, <3>2, BytesAtRest DEF TcpInv
  <2>4. CASE /\ listener' = Tcp!Closed /\ bound' = FALSE
             /\ descriptors' = kept /\ nonBlocking' = Tcp!Without(nonBlocking, listener)
    <3>1. OneOwner'
      BY <1>0, <2>1, <2>4, ListenerChanges DEF TcpInv
    <3> QED BY <2>1, <3>1, BytesAtRest DEF TcpInv
  <2> QED BY <2>2, <2>3, <2>4
<1>2. ASSUME Tcp!ListenerClose PROVE TcpInv'
  <2>1. OneOwner'
    BY <1>0, <1>2, ListenerChanges DEF Tcp!ListenerClose, TcpInv
  <2> QED BY <1>2, <2>1, BytesAtRest DEF Tcp!ListenerClose, TcpInv
<1> QED BY <1>1, <1>2

LEMMA QuietSteps ==
  ASSUME TcpInv, NEW s \in Streams
  PROVE  /\ Tcp!ShutdownWrite(s) => TcpInv'
         /\ \A o : Tcp!Read(s, o) => TcpInv'
<1>1. ASSUME Tcp!Idle /\ UNCHANGED <<stream, listener, bound, descriptors, nonBlocking, sentOn, offered>>
      PROVE  TcpInv'
  <2>1. OneOwner'
    BY <1>1 DEF TcpInv, OneOwner, Kinds, Owned
  <2> QED BY <1>1, <2>1, BytesAtRest DEF TcpInv
<1>2. Tcp!ShutdownWrite(s) => TcpInv'
  BY <1>1 DEF Tcp!ShutdownWrite
<1>3. ASSUME NEW o, Tcp!Read(s, o) PROVE TcpInv'
  BY <1>1, <1>3 DEF Tcp!Read, Tcp!streams
<1> QED BY <1>2, <1>3

LEMMA TcpStep ==
  ASSUME Tcp!HandleAssumption, Tcp!BytesAssumption, TcpInv, [Tcp!Next]_(Tcp!vars)
  PROVE  TcpInv'
<1>1. ASSUME NEW s \in Streams,
             Tcp!Close(s) \/ (\E o \in Outcomes : Tcp!Connect(s, o)) \/ (\E o : Tcp!FinishConnect(s, o))
               \/ (\E o : Tcp!Accept(s, o))
      PROVE  TcpInv'
  BY <1>1, StreamSteps
<1>2. ASSUME NEW s \in Streams, Tcp!ShutdownWrite(s) \/ (\E o : Tcp!Read(s, o)) PROVE TcpInv'
  BY <1>2, QuietSteps
<1>3. ASSUME NEW from \in Streams, NEW to \in Streams, Tcp!Move(from, to) PROVE TcpInv'
  BY <1>3, MoveStep
<1>4. ASSUME NEW s \in Streams, NEW n \in 1..MaxBytes, Tcp!Write(s, n) PROVE TcpInv'
  BY <1>4, WriteStep
<1>5. ASSUME NEW n \in 0..MaxBytes, Tcp!Send(n) PROVE TcpInv'
  BY <1>5, SendStep
<1>6. ASSUME NEW o, Tcp!Return(o) PROVE TcpInv'
  BY <1>6, ReturnStep
<1>7. ASSUME (\E works : Tcp!ListenerOpen(works)) \/ Tcp!ListenerClose PROVE TcpInv'
  BY <1>7, ListenerSteps
<1>8. CASE UNCHANGED Tcp!vars
  BY <1>8 DEF Tcp!vars, Tcp!streams, TcpInv, OneOwner, Kinds, Owned, Calling, Bytes, Untold, Tcp!Handle
<1> QED BY <1>1, <1>2, <1>3, <1>4, <1>5, <1>6, <1>7, <1>8 DEF Tcp!Next, Outcomes

-----------------------------------------------------------------------------

\* TcpStream and TcpListener: through every failure, move and reuse of a number,
\* every descriptor that is open is one object's and never blocks, and what a
\* connection has sent is what its caller counted, once and in order.
THEOREM StreamsOwn ==
  ASSUME Tcp!HandleAssumption, Tcp!BytesAssumption
  PROVE  Tcp!Spec => []StreamsOwnTheirSockets
<1>1. Tcp!Init => TcpInv
  <2> SUFFICES ASSUME Tcp!Init PROVE TcpInv
    OBVIOUS
  <2>1. OneOwner
    BY DEF Tcp!Init, OneOwner, Kinds, Owned, Any, Tcp!HandleAssumption
  <2>2. Calling /\ \A h \in Handles : Untold(h) = 0
    BY DEF Tcp!Init, Calling, Untold
  <2>3. \A h \in Handles : sentOn[h] = <<>> /\ Len(sentOn[h]) = 0 /\ offered[h] = 0
    BY DEF Tcp!Init
  <2>4. sentOn \in [Handles -> Seq(Nat)] /\ offered \in [Handles -> Nat]
    BY DEF Tcp!Init
  <2>5. Bytes
    BY <2>2, <2>3, <2>4 DEF Bytes
  <2> QED BY <2>1, <2>2, <2>5 DEF TcpInv
<1>2. TcpInv => StreamsOwnTheirSockets
  <2> SUFFICES ASSUME TcpInv PROVE StreamsOwnTheirSockets
    OBVIOUS
  <2>1. \A s \in Tcp!Held : s \in Streams /\ stream[s] \in Handles
    BY DEF Tcp!Held, TcpInv, OneOwner, Kinds, Any
  <2>2. descriptors = {stream[s] : s \in Tcp!Held} \cup ({listener} \ {Tcp!Closed})
    <3>1. descriptors \subseteq Handles /\ listener \in Handles \cup {Tcp!Closed} /\ Tcp!Closed \notin Handles
      BY DEF TcpInv, OneOwner, Kinds, Any, Tcp!HandleAssumption
    <3>2. \A h \in Handles : h \in descriptors <=> (h = listener \/ \E s \in Streams : stream[s] = h)
      BY DEF TcpInv, OneOwner, Owned
    <3>3. \A h \in Handles : (\E s \in Streams : stream[s] = h) <=> h \in {stream[s] : s \in Tcp!Held}
      BY <3>1 DEF Tcp!Held
    <3> QED BY <2>1, <3>1, <3>2, <3>3
  <2>3. /\ \A s, t \in Tcp!Held : s # t => stream[s] # stream[t]
        /\ \A s \in Tcp!Held : stream[s] # listener
    BY DEF Tcp!Held, TcpInv, OneOwner, Owned
  <2>4. nonBlocking = descriptors /\ bound = (listener # Tcp!Closed)
    BY DEF TcpInv, OneOwner, Kinds
  <2>5. ASSUME NEW s \in Tcp!Held
        PROVE  /\ sentOn[stream[s]] = [i \in 1..Len(sentOn[stream[s]]) |-> i]
               /\ write = <<>> => Len(sentOn[stream[s]]) = offered[stream[s]]
    <3> DEFINE sent == sentOn[stream[s]]
    <3>1. sent \in Seq(Nat) /\ \A i \in 1..Len(sent) : sent[i] = i
      BY <2>1 DEF TcpInv, Bytes
    <3>2. sent = [i \in 1..Len(sent) |-> i]
      <4> HIDE DEF sent
      <4> QED BY <3>1
    <3>3. write = <<>> => Untold(stream[s]) = 0
      BY DEF Untold
    <3>4. Len(sent) = offered[stream[s]] + Untold(stream[s]) /\ offered[stream[s]] \in Nat
      BY <2>1 DEF TcpInv, Bytes
    <3> QED BY <3>2, <3>3, <3>4
  <2> QED BY <2>2, <2>3, <2>4, <2>5 DEF StreamsOwnTheirSockets, Tcp!StreamsOwnTheirSockets
<1> QED BY <1>1, <1>2, TcpStep, PTL DEF Tcp!Spec
=============================================================================
