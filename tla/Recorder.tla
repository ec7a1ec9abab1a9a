------------------------------- MODULE Recorder -------------------------------
(***************************************************************************)
(* vrchat_osc_record (tools/vrchatOscRecord/src/main.cpp, SessionReport.cpp): *)
(* RunRecord's loop over a receiver that may fall silent, fail or close, the  *)
(* signal that stops it, the capture it writes and the report it prints, and  *)
(* RunInspect's report of that file.  A tick is kPollSeconds; progress lines  *)
(* and the wording of warnings are left out.                                  *)
(***************************************************************************)
EXTENDS Integers, Sequences, FiniteSets, SequencesExt

CONSTANTS
  Peers,                 \* endpoints a sender may have; NoPeer is a text the platform has none for
  Payloads,              \* what a datagram may carry
  Codes,                 \* codes of the receiver's diagnostics
  MaxNamedPeers, MaxTrackedPeers, MaxTrackedLengths, MaxPrefixBytes,
  Options,               \* [maxDatagrams, duration, idle, dryRun]; 0 is no limit of a time
  MaxTime                \* bound: ticks of a session

NoPeer == "-"
ASSUME BoundsAssumption == MaxNamedPeers \in Nat /\ MaxTrackedPeers \in Nat \ {0, 1} /\ NoPeer \notin Peers

VARIABLES
  options, interrupted,
  pc,                    \* "loop", "stopped" or "done"
  now, lastArrival,      \* the receiver's clock
  capture,               \* [peer, datagrams]
  report,                \* SessionReport
  file,                  \* what is at outputPath: "none", a torn text or a capture
  exit,                  \* 0 or 1 once done
  inspected,             \* what --inspect reports of the file
  arrived                \* history: what the receiver handed over, and why it would not

vars == <<options, interrupted, pc, now, lastArrival, capture, report, file, exit, inspected, arrived>>

Fresh ==
  [datagrams |-> 0, payload |-> 0, empty |-> 0, first |-> 0, last |-> 0,
   sum |-> 0, min |-> 0, max |-> 0, intervals |-> 0,
   peers |-> <<>>, distinctPeers |-> {}, untracked |-> FALSE,
   lengths |-> [l \in {} |-> 0], untallied |-> 0, prefix |-> <<>>, shortest |-> 0,
   diagnostics |-> [c \in Codes |-> 0], firstDiagnostic |-> [c \in Codes |-> 0], stop |-> "EndOfCapture"]

NoFile == [text |-> "none", peer |-> NoPeer, datagrams |-> <<>>]

InitOf(given) ==
  /\ options = given /\ interrupted = FALSE /\ pc = "loop" /\ now = 0 /\ lastArrival = 0
  /\ capture = [peer |-> NoPeer, datagrams |-> <<>>]
  /\ report = [Fresh EXCEPT !.stop = "Interrupted"]
  /\ file = NoFile /\ exit = -1 /\ inspected = Fresh
  /\ arrived = [datagrams |-> <<>>, cut |-> FALSE]

Init == \E given \in Options : InitOf(given)

-----------------------------------------------------------------------------
(* SessionReport                                                            *)

Smaller(a, b) == IF a < b THEN a ELSE b
Larger(a, b) == IF a < b THEN b ELSE a

Agree(a, b) == CHOOSE n \in 0..Smaller(Len(a), Len(b)) :
  /\ SubSeq(a, 1, n) = SubSeq(b, 1, n)
  /\ n < Smaller(Len(a), Len(b)) => a[n + 1] # b[n + 1]

ObservePrefix(r, bytes) ==
  IF bytes = <<>> THEN <<>>
  ELSE IF r.datagrams = 0 THEN SubSeq(bytes, 1, Smaller(Len(bytes), MaxPrefixBytes))
  ELSE SubSeq(r.prefix, 1, Agree(r.prefix, bytes))

\* Whether a peer was counted already.
\* Fault: looked for among the few the report names.
NamedAlready(r, peer) == peer \in ToSet(r.peers)

CountedAlready(r, peer) == peer \in r.distinctPeers

ObservePeer(r, peer) ==
  IF peer = NoPeer \/ CountedAlready(r, peer) THEN r
  ELSE IF Cardinality(r.distinctPeers) >= MaxTrackedPeers THEN [r EXCEPT !.untracked = TRUE]
  ELSE [r EXCEPT !.distinctPeers = @ \cup {peer},
                 !.peers = IF Len(@) < MaxNamedPeers THEN Append(@, peer) ELSE @]

ObserveLength(r, l) ==
  IF l \in DOMAIN r.lengths THEN [r EXCEPT !.lengths[l] = @ + 1]
  ELSE IF Cardinality(DOMAIN r.lengths) < MaxTrackedLengths
  THEN [r EXCEPT !.lengths = [k \in DOMAIN @ \cup {l} |-> IF k = l THEN 1 ELSE @[k]]]
  ELSE [r EXCEPT !.untallied = @ + 1]

ObserveInterval(r, time) ==
  LET interval == time - r.last
  IN  IF r.datagrams = 0 THEN [r EXCEPT !.first = time, !.last = time]
      ELSE [r EXCEPT !.last = time, !.sum = @ + interval, !.intervals = @ + 1,
                     !.min = IF r.intervals = 0 THEN interval ELSE Smaller(@, interval),
                     !.max = IF r.intervals = 0 THEN interval ELSE Larger(@, interval)]

ObserveDatagram(r, peer, d) ==
  LET size == Len(d.bytes)
      counted == [ObserveInterval(r, d.time) EXCEPT
                    !.prefix = ObservePrefix(r, d.bytes),
                    !.shortest = IF r.datagrams = 0 THEN size ELSE Smaller(@, size),
                    !.datagrams = @ + 1, !.payload = @ + size,
                    !.empty = IF size = 0 THEN @ + 1 ELSE @]
  IN  ObservePeer(ObserveLength(counted, size), peer)

ObserveDiagnostics(r, log) ==
  [r EXCEPT !.diagnostics = [c \in Codes |-> IF c \in log THEN @[c] + 1 ELSE @[c]],
            !.firstDiagnostic = [c \in Codes |-> IF c \in log /\ r.diagnostics[c] = 0 THEN now ELSE @[c]]]

-----------------------------------------------------------------------------
(* RunRecord                                                                *)

\* OnInterrupt, whenever the signal comes.
OnInterrupt == pc # "done" /\ ~interrupted /\ interrupted' = TRUE
               /\ UNCHANGED <<options, pc, now, lastArrival, capture, report, file, exit, inspected, arrived>>

LoopInterrupted ==
  /\ pc = "loop" /\ interrupted
  /\ pc' = "stopped" /\ report' = [report EXCEPT !.stop = "Interrupted"]
  /\ UNCHANGED <<options, interrupted, now, lastArrival, capture, file, exit, inspected, arrived>>

\* What ends a turn of the loop, in the order the code asks; "" for nothing.
Reason(status, count, after, last) ==
  IF status = "Closed" THEN "SocketClosed"
  ELSE IF status = "Failed" THEN "ReceiveFailed"
  ELSE IF status = "Received" /\ count >= options.maxDatagrams THEN "MaxDatagrams"
  ELSE IF options.duration > 0 /\ after >= options.duration THEN "Duration"
  ELSE IF options.idle > 0 /\ after - last >= options.idle THEN "IdleTimeout"
  ELSE ""

\* The rest of a turn: the diagnostics of the call, then the times.
EndTurn(status, r, last, log, after) ==
  LET reason == Reason(status, r.datagrams, after, last)
      observed == ObserveDiagnostics(r, log)
  IN  /\ now' = after /\ lastArrival' = last
      /\ report' = IF reason = "" THEN observed ELSE [observed EXCEPT !.stop = reason]
      /\ pc' = IF reason = "" THEN "loop" ELSE "stopped"
      /\ UNCHANGED <<options, interrupted, file, exit, inspected>>

Turn == pc = "loop" /\ ~interrupted

\* Recorded first; the header names the first peer that has a text.
Received(peer, bytes, after) ==
  LET d == [time |-> now, peer |-> peer, bytes |-> bytes]
  IN  /\ Turn
      /\ capture' = [peer |-> IF capture.peer = NoPeer THEN peer ELSE capture.peer,
                     datagrams |-> Append(capture.datagrams, d)]
      /\ arrived' = [arrived EXCEPT !.datagrams = Append(@, d)]
      /\ EndTurn("Received", ObserveDatagram(report, peer, d), now, {}, after)

NotReceived(status, log, after) ==
  /\ Turn
  /\ EndTurn(status, report, lastArrival, log, after)
  /\ arrived' = [arrived EXCEPT !.cut = status # "Idle"] /\ UNCHANGED capture

\* Whether the transport let the session run to its own end.
\* Fault: a socket that was closed is taken for a session that ended.
CompletedWhenOpen(stop) == stop # "ReceiveFailed"

Completed(stop) == stop \notin {"ReceiveFailed", "SocketClosed"}

\* A capture that carries nothing is declined: the reader refuses it.
Finish(disk) ==
  LET writes == ~options.dryRun /\ report.datagrams > 0
      written == options.dryRun \/ (writes /\ disk)
  IN  /\ pc = "stopped"
      /\ file' = IF ~writes THEN file
                 ELSE IF disk THEN [text |-> "capture", peer |-> capture.peer, datagrams |-> capture.datagrams]
                 ELSE [NoFile EXCEPT !.text = "torn"]
      /\ exit' = IF written /\ Completed(report.stop) THEN 0 ELSE 1
      /\ pc' = "done"
      /\ UNCHANGED <<options, interrupted, now, lastArrival, capture, report, inspected, arrived>>

\* RunInspect: a record's own peer, or the header's where it has none.
Inspect ==
  /\ pc = "done" /\ file.text = "capture" /\ inspected.datagrams = 0
  /\ inspected' = FoldLeft(LAMBDA r, d : ObserveDatagram(r, IF d.peer = NoPeer THEN file.peer ELSE d.peer, d),
                           Fresh, file.datagrams)
  /\ UNCHANGED <<options, interrupted, pc, now, lastArrival, capture, report, file, exit, arrived>>

Next ==
  \/ OnInterrupt \/ LoopInterrupted
  \/ \E after \in {now, now + 1} \cap 0..MaxTime :
       \/ \E peer \in Peers \cup {NoPeer}, bytes \in Payloads : Received(peer, bytes, after)
       \/ \E log \in {{}} \cup {{c} : c \in Codes} :
            \/ after > now /\ NotReceived("Idle", log, after)
            \/ \E status \in {"Closed", "Failed"} : NotReceived(status, log, after)
  \/ \E disk \in BOOLEAN : Finish(disk)
  \/ Inspect

Spec == Init /\ [][Next]_vars

-----------------------------------------------------------------------------
(* Properties                                                               *)

Known == SelectSeq([i \in DOMAIN arrived.datagrams |-> arrived.datagrams[i].peer], LAMBDA p : p # NoPeer)

\* Each peer once, in the order they arrived.
Once(s) == FoldLeft(LAMBDA sum, p : IF p \in ToSet(sum) THEN sum ELSE Append(sum, p), <<>>, s)

OfLength(l) == Cardinality({i \in DOMAIN arrived.datagrams : Len(arrived.datagrams[i].bytes) = l})

\* The bytes all of them begin with, as far as the report goes.
Shared(n) == \A i, j \in DOMAIN arrived.datagrams :
  /\ Len(arrived.datagrams[i].bytes) >= n
  /\ SubSeq(arrived.datagrams[i].bytes, 1, n) = SubSeq(arrived.datagrams[j].bytes, 1, n)

Describes(r) ==
  LET d == arrived.datagrams
      n == Len(d)
      distinct == Once(Known)
  IN  /\ r.datagrams = n
      /\ r.peers = SubSeq(distinct, 1, Smaller(Len(distinct), MaxNamedPeers))
      /\ Cardinality(r.distinctPeers) = Smaller(Len(distinct), MaxTrackedPeers)
      /\ r.untracked = (Len(distinct) > MaxTrackedPeers)
      /\ \A l \in DOMAIN r.lengths : r.lengths[l] = OfLength(l)
      /\ r.untallied = Cardinality({i \in 1..n : Len(d[i].bytes) \notin DOMAIN r.lengths})
      /\ n > 0 => /\ r.shortest = CHOOSE l \in {Len(d[i].bytes) : i \in 1..n} : \A i \in 1..n : l <= Len(d[i].bytes)
                  /\ Shared(Len(r.prefix)) /\ r.prefix = SubSeq(d[1].bytes, 1, Len(r.prefix))
                  /\ Len(r.prefix) < MaxPrefixBytes => ~Shared(Len(r.prefix) + 1)
      /\ r.intervals = Larger(n - 1, 0)
      /\ n > 1 => /\ r.sum = d[n].time - d[1].time
                  /\ {r.min, r.max} \subseteq {d[i + 1].time - d[i].time : i \in 1..(n - 1)}
                  /\ \A i \in 1..(n - 1) : d[i + 1].time - d[i].time \in r.min..r.max

\* The report of a live session and the report of its file say the same of the
\* traffic, and the truth: every census that is bounded says when it stopped
\* being whole and only then, the named peers are the first that arrived, the
\* prefix is what every datagram shares, and the first arrival is no interval.
ReportIsTheTraffic ==
  /\ Describes(report)
  /\ inspected.datagrams > 0 => Describes(inspected)

\* A script that wraps the recorder reads one number: 0 only when the transport
\* did not cut the session short and, but for a dry run, the file holds every
\* datagram that arrived, in order, under the first known peer's name.  A
\* session cut short keeps what it had, and a capture without a datagram, which
\* the reader refuses, is never written.
ExitTellsTheTruth ==
  LET whole == /\ file.text = "capture" /\ file.datagrams = arrived.datagrams
               /\ file.peer = (IF Known = <<>> THEN NoPeer ELSE Known[1])
  IN  /\ pc = "done" => (exit = 0) = (~arrived.cut /\ (options.dryRun \/ whole))
      /\ file.text = "capture" => whole /\ file.datagrams # <<>> /\ ~options.dryRun
      /\ Len(arrived.datagrams) <= options.maxDatagrams

\* What a session leaves behind is the truth about it.
SessionInvariant == ReportIsTheTraffic /\ ExitTellsTheTruth
=============================================================================
