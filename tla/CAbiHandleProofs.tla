--------------------------- MODULE CAbiHandleProofs ---------------------------
(***************************************************************************)
(* What a handle of the C ABI counts is what happened, for every capacity  *)
(* an open may ask for, every configuration and every number of calls.     *)
(***************************************************************************)
EXTENDS CAbi, SequenceTheorems, TLAPS

\* A queue in the order its records were raised, all of them after the record
\* `first` and the last of them the record `latest`.
Orderly(first, queued, latest) ==
  /\ \A i \in 1..Len(queued) : first < queued[i]
  /\ \A i, j \in 1..Len(queued) : i < j => queued[i] < queued[j]
  /\ IF queued = <<>> THEN first = latest ELSE queued[Len(queued)] = latest

Kinds ==
  /\ diagnosticCapacity \in Nat \ {0} /\ diagnostics \in Seq(Nat)
  /\ lastRead \in Nat /\ read \in Nat /\ droppedDiagnostics \in Nat /\ raised \in Nat
  /\ refusedFrames \in Nat /\ polledFrames \in Nat /\ delivered \in Nat /\ refused \in Nat
  /\ opens \in Nat

DiagnosticsKept ==
  /\ raised = read + droppedDiagnostics + Len(diagnostics)
  /\ Orderly(lastRead, diagnostics, raised)

HandleInv == Kinds /\ DiagnosticsKept /\ Handle!EveryPolledFrameAccounted

-----------------------------------------------------------------------------
(* The queue.                                                               *)

LEMMA OrderlyReadsInOrder ==
  ASSUME NEW first \in Nat, NEW latest \in Nat, NEW queued \in Seq(Nat),
         Orderly(first, queued, latest)
  PROVE  LET left == <<first>> \o queued
         IN  /\ \A i \in 1..(Len(left) - 1) : left[i] < left[i + 1]
             /\ left[Len(left)] = latest
<1> DEFINE left == <<first>> \o queued
<1>1. <<first>> \in Seq(Nat) /\ Len(<<first>>) = 1 /\ <<first>>[1] = first
  OBVIOUS
<1>2. Len(queued) \in Nat /\ Len(left) = 1 + Len(queued)
  BY <1>1
<1>3. left[1] = first /\ \A i \in 1..Len(queued) : left[i + 1] = queued[i]
  BY <1>1, <1>2
<1>4. \A i \in 1..Len(queued) : queued[i] \in Nat
  OBVIOUS
<1>5. ASSUME NEW i \in 1..(Len(left) - 1) PROVE left[i] < left[i + 1]
  <2>1. CASE i = 1
    BY <1>2, <1>3, <1>5, <2>1 DEF Orderly
  <2>2. CASE i # 1
    <3>1. i - 1 \in 1..Len(queued) /\ i \in 1..Len(queued) /\ i - 1 < i /\ (i - 1) + 1 = i
      BY <1>2, <1>5, <2>2
    <3>2. left[i] = queued[i - 1] /\ left[i + 1] = queued[i]
      BY <1>3, <3>1
    <3> QED BY <3>1, <3>2 DEF Orderly
  <2> QED BY <2>1, <2>2
<1>6. left[Len(left)] = latest
  <2>1. CASE queued = <<>>
    BY <1>2, <1>3, <2>1 DEF Orderly
  <2>2. CASE queued # <<>>
    <3>1. Len(queued) \in 1..Len(queued) /\ Len(left) = Len(queued) + 1
      BY <1>2, <2>2
    <3> QED BY <1>3, <2>2, <3>1 DEF Orderly
  <2> QED BY <2>1, <2>2
<1> HIDE DEF left
<1>7. /\ \A i \in 1..(Len(left) - 1) : left[i] < left[i + 1]
      /\ left[Len(left)] = latest
  BY <1>5, <1>6
<1> QED BY <1>7 DEF left

\* Records raised since the last drain follow those the queue holds.
LEMMA RaisedFollow ==
  ASSUME Kinds, DiagnosticsKept, NEW n \in Nat, NEW records \in Seq(Nat), Len(records) = n,
         \A i \in 1..n : records[i] = raised + i
  PROVE  /\ diagnostics \o records \in Seq(Nat)
         /\ Len(diagnostics \o records) = Len(diagnostics) + n
         /\ Orderly(lastRead, diagnostics \o records, raised + n)
<1> DEFINE all == diagnostics \o records
           d == Len(diagnostics)
<1>1. d \in Nat /\ all \in Seq(Nat) /\ Len(all) = d + n
  BY DEF Kinds
<1>2. \A i \in 1..d : all[i] = diagnostics[i]
  BY DEF Kinds
<1>3. \A i \in (d + 1)..(d + n) : all[i] = raised + (i - d)
  BY DEF Kinds
<1>4. \A i \in 1..d : diagnostics[i] \in Nat /\ lastRead < diagnostics[i] /\ diagnostics[i] <= raised
  <2> SUFFICES ASSUME NEW i \in 1..d
               PROVE  diagnostics[i] \in Nat /\ lastRead < diagnostics[i] /\ diagnostics[i] <= raised
    OBVIOUS
  <2>1. diagnostics # <<>> /\ d \in 1..d /\ diagnostics[d] = raised
    BY <1>1 DEF Orderly, DiagnosticsKept
  <2>2. diagnostics[i] \in Nat /\ lastRead < diagnostics[i]
    BY DEF Orderly, DiagnosticsKept, Kinds
  <2>3. i < d => diagnostics[i] < diagnostics[d]
    BY <2>1 DEF Orderly, DiagnosticsKept
  <2>4. raised \in Nat /\ (i = d \/ i < d)
    BY <1>1 DEF Kinds
  <2> QED BY <2>1, <2>2, <2>3, <2>4
<1>5. lastRead <= raised
  <2>1. CASE d = 0
    BY <2>1 DEF Orderly, DiagnosticsKept, Kinds
  <2>2. CASE d # 0
    <3>1. d \in 1..d
      BY <1>1, <2>2
    <3> QED BY <1>4, <3>1 DEF Kinds
  <2> QED BY <2>1, <2>2
<1>6. \A i \in 1..Len(all) : lastRead < all[i]
  BY <1>1, <1>2, <1>3, <1>4, <1>5 DEF Kinds
<1>7. ASSUME NEW i \in 1..Len(all), NEW j \in 1..Len(all), i < j PROVE all[i] < all[j]
  <2>1. CASE j <= d
    BY <1>1, <1>2, <1>7, <2>1 DEF Orderly, DiagnosticsKept
  <2>2. CASE i > d
    BY <1>1, <1>3, <1>7, <2>2 DEF Kinds
  <2>3. CASE i <= d /\ j > d
    BY <1>1, <1>2, <1>3, <1>4, <1>7, <2>3 DEF Kinds
  <2> QED BY <1>1, <2>1, <2>2, <2>3, SMTT(30)
<1>8. IF all = <<>> THEN lastRead = raised + n ELSE all[Len(all)] = raised + n
  <2>1. CASE n = 0
    <3>1. Len(all) = d /\ raised + n = raised
      BY <1>1, <2>1 DEF Kinds
    <3>2. CASE d = 0
      BY <1>1, <3>1, <3>2 DEF Orderly, DiagnosticsKept, Kinds
    <3>3. CASE d # 0
      <4>1. d \in 1..d /\ diagnostics # <<>> /\ all # <<>>
        BY <1>1, <3>1, <3>3
      <4> QED BY <1>2, <3>1, <4>1 DEF Orderly, DiagnosticsKept
    <3> QED BY <3>2, <3>3
  <2>2. CASE n # 0
    <3>1. all # <<>> /\ Len(all) \in (d + 1)..(d + n) /\ Len(all) - d = n
      BY <1>1, <2>2
    <3> QED BY <1>3, <3>1
  <2> QED BY <2>1, <2>2
<1> HIDE DEF all, d
<1>9. Orderly(lastRead, all, raised + n)
  BY <1>6, <1>7, <1>8 DEF Orderly
<1> QED BY <1>1, <1>9 DEF all, d

\* What Enqueue keeps is the newest, and it counts what it lets go.
LEMMA EnqueueKeeps ==
  ASSUME Kinds, DiagnosticsKept, NEW n \in Nat, NEW records \in Seq(Nat), Len(records) = n,
         \A i \in 1..n : records[i] = raised + i,
         NEW bound \in Nat \ {0}, Handle!Enqueue(bound, records), raised' = raised + n,
         UNCHANGED Handle!reads
  PROVE  /\ diagnostics' \in Seq(Nat) /\ droppedDiagnostics' \in Nat /\ raised' \in Nat
         /\ lastRead' \in Nat /\ read' \in Nat
         /\ DiagnosticsKept'
<1> DEFINE all == diagnostics \o records
           lost == Handle!Lost(bound, records)
           kept == Handle!Kept(bound, records)
<1>1. all \in Seq(Nat) /\ Len(all) = Len(diagnostics) + n /\ Orderly(lastRead, all, raised + n)
  BY RaisedFollow
<1>2. Len(all) \in Nat /\ \A i \in 1..Len(all) : all[i] \in Nat
  BY <1>1
<1>3. lost \in 0..Len(all) /\ (all # <<>> => lost < Len(all))
  <2>1. CASE records = <<>> \/ Len(all) <= bound
    <3>1. lost = 0
      BY <2>1 DEF Handle!Lost
    <3> QED BY <1>1, <1>2, <3>1
  <2>2. CASE ~(records = <<>> \/ Len(all) <= bound)
    <3>1. lost = Len(all) - bound
      BY <2>2 DEF Handle!Lost
    <3> QED BY <1>2, <2>2, <3>1
  <2> QED BY <2>1, <2>2
<1>4. kept = SubSeq(all, lost + 1, Len(all))
  BY DEF Handle!Kept
<1> HIDE DEF all, lost, kept
<1>5. /\ kept \in Seq(Nat)
      /\ Len(kept) = Len(all) - lost
      /\ \A i \in 1..Len(kept) : kept[i] = all[lost + i]
  <2>1. lost + 1 \in Int /\ Len(all) \in Int /\ \A i \in (lost + 1)..Len(all) : all[i] \in Nat
    BY <1>2, <1>3
  <2>2. /\ SubSeq(all, lost + 1, Len(all)) \in Seq(Nat)
        /\ Len(SubSeq(all, lost + 1, Len(all))) =
             IF lost + 1 <= Len(all) THEN Len(all) - (lost + 1) + 1 ELSE 0
        /\ \A i \in 1..(Len(all) - (lost + 1) + 1) :
             SubSeq(all, lost + 1, Len(all))[i] = all[(lost + 1) + i - 1]
    BY <2>1, SubSeqProperties, SMTT(30)
  <2>3. Len(kept) = Len(all) - lost /\ kept \in Seq(Nat)
    BY <1>2, <1>3, <1>4, <2>2
  <2>4. ASSUME NEW i \in 1..Len(kept) PROVE kept[i] = all[lost + i]
    <3>1. i \in 1..(Len(all) - (lost + 1) + 1) /\ (lost + 1) + i - 1 = lost + i
      BY <1>2, <1>3, <2>3, <2>4
    <3> QED BY <1>4, <2>2, <3>1
  <2> QED BY <2>3, <2>4
<1>6. Orderly(lastRead, kept, raised + n)
  <2>1. \A i \in 1..Len(kept) : lost + i \in 1..Len(all)
    BY <1>2, <1>3, <1>5
  <2>2. \A i \in 1..Len(kept) : lastRead < kept[i]
    BY <1>1, <1>5, <2>1 DEF Orderly
  <2>3. ASSUME NEW i \in 1..Len(kept), NEW j \in 1..Len(kept), i < j PROVE kept[i] < kept[j]
    <3>1. lost + i < lost + j
      BY <1>3, <2>3
    <3> QED BY <1>1, <1>5, <2>1, <2>3, <3>1 DEF Orderly
  <2>4. IF kept = <<>> THEN lastRead = raised + n ELSE kept[Len(kept)] = raised + n
    <3>1. CASE all = <<>>
      <4>1. kept = <<>>
        BY <1>2, <1>3, <1>5, <3>1
      <4> QED BY <1>1, <3>1, <4>1 DEF Orderly
    <3>2. CASE all # <<>>
      <4>1. kept # <<>> /\ Len(kept) \in 1..Len(kept) /\ lost + Len(kept) = Len(all)
        BY <1>2, <1>3, <1>5, <3>2
      <4> QED BY <1>1, <1>5, <3>2, <4>1 DEF Orderly
    <3> QED BY <3>1, <3>2
  <2> QED BY <2>2, <2>3, <2>4 DEF Orderly
<1>7. diagnostics' = kept /\ droppedDiagnostics' = droppedDiagnostics + lost
  BY DEF Handle!Enqueue, kept, lost
<1>8. raised' \in Nat /\ droppedDiagnostics' \in Nat /\ lastRead' = lastRead /\ read' = read
  BY <1>2, <1>3, <1>7 DEF Kinds, Handle!reads
<1>9. raised' = read' + droppedDiagnostics' + Len(diagnostics')
  <2>1. Len(diagnostics) \in Nat
    BY DEF Kinds
  <2>2. raised = read + droppedDiagnostics + Len(diagnostics)
    BY DEF DiagnosticsKept
  <2>3. lost \in Nat
    BY <1>2, <1>3
  <2>4. Len(diagnostics') = Len(diagnostics) + n - lost
    <3>1. Len(diagnostics') = Len(kept)
      BY <1>7
    <3>2. Len(kept) = Len(all) - lost
      BY <1>5
    <3>3. Len(all) = Len(diagnostics) + n
      BY <1>1
    <3> QED BY <2>1, <2>3, <3>1, <3>2, <3>3
  <2> QED BY <1>7, <1>8, <2>1, <2>2, <2>3, <2>4 DEF Kinds
<1> QED BY <1>5, <1>6, <1>7, <1>8, <1>9 DEF Kinds, DiagnosticsKept

\* A call of the source with `bound` as the queue's capacity.
LEMMA DrainKeeps ==
  ASSUME Kinds, DiagnosticsKept, NEW bound \in Nat \ {0}, NEW records \in Handle!Raised,
         Handle!Drain(bound, records), UNCHANGED Handle!reads
  PROVE  /\ diagnostics' \in Seq(Nat) /\ droppedDiagnostics' \in Nat /\ raised' \in Nat
         /\ lastRead' \in Nat /\ read' \in Nat
         /\ DiagnosticsKept'
<1>1. PICK n \in Nat : records = [i \in 1..n |-> raised + i]
  BY DEF Handle!Raised
<1>2. \A i \in 1..n : raised + i \in Nat
  BY <1>1 DEF Kinds
<1>3. records \in Seq(Nat) /\ Len(records) = n /\ \A i \in 1..n : records[i] = raised + i
  BY <1>1, <1>2
<1> QED BY <1>3, EnqueueKeeps DEF Handle!Drain

-----------------------------------------------------------------------------
(* The steps.                                                               *)

LEMMA OpenKeeps ==
  ASSUME HandleInv, Handle!CapacitiesAssumption, Handle!ConfigsAssumption, Handle!Open
  PROVE  HandleInv'
<1>1. PICK config \in Configs : Handle!OpenRefused(config) \/ Handle!OpenSource(config)
  BY DEF Handle!Open
<1>2. opens' \in Nat /\ UNCHANGED Handle!reads
  BY DEF Handle!Open, HandleInv, Kinds
<1>3. CASE Handle!OpenRefused(config)
  BY <1>2, <1>3 DEF Handle!OpenRefused, Handle!RefusedOpenKeeps, Handle!queue, Handle!reads,
                    Handle!tally, Handle!source, HandleInv, Kinds,
                    DiagnosticsKept, Handle!EveryPolledFrameAccounted
<1>4. CASE Handle!OpenSource(config)
  <2>1. Handle!Capacity(config) \in Nat \ {0}
    BY DEF Handle!Capacity, Handle!ConfigsAssumption, Handle!CapacitiesAssumption, Handle!Config
  <2>2. PICK records \in Handle!Raised : Handle!Drain(Handle!Capacity(config), records)
    BY <1>4 DEF Handle!OpenSource, Handle!DrainCall
  <2>3. /\ diagnostics' \in Seq(Nat) /\ droppedDiagnostics' \in Nat /\ raised' \in Nat
        /\ lastRead' \in Nat /\ read' \in Nat
        /\ DiagnosticsKept'
    BY <1>2, <2>1, <2>2, DrainKeeps DEF HandleInv
  <2>4. /\ diagnosticCapacity' = Handle!Capacity(config) /\ refusedFrames' = refusedFrames
        /\ \/ UNCHANGED <<polledFrames, delivered, refused>>
           \/ polledFrames' = 0 /\ delivered' = 0 /\ refused' = 0
    BY <1>4 DEF Handle!OpenSource
  <2>5. /\ refusedFrames' \in Nat /\ polledFrames' \in Nat /\ delivered' \in Nat
        /\ refused' \in Nat /\ Handle!EveryPolledFrameAccounted'
    BY <2>4 DEF HandleInv, Kinds, Handle!EveryPolledFrameAccounted
  <2> QED BY <1>2, <2>1, <2>3, <2>4, <2>5 DEF HandleInv, Kinds
<1> QED BY <1>1, <1>3, <1>4

LEMMA CallKeeps ==
  ASSUME HandleInv, Handle!DrainCall(diagnosticCapacity),
         UNCHANGED <<diagnosticCapacity, polledFrames, opens, Handle!reads, Handle!tally>>
  PROVE  HandleInv'
<1>1. PICK records \in Handle!Raised : Handle!Drain(diagnosticCapacity, records)
  BY DEF Handle!DrainCall
<1>2. /\ diagnostics' \in Seq(Nat) /\ droppedDiagnostics' \in Nat /\ raised' \in Nat
      /\ lastRead' \in Nat /\ read' \in Nat
      /\ DiagnosticsKept'
  BY <1>1, DrainKeeps DEF HandleInv, Kinds
<1> QED BY <1>2 DEF HandleInv, Kinds, Handle!tally, Handle!EveryPolledFrameAccounted

LEMMA PollKeeps ==
  ASSUME HandleInv, Handle!Poll
  PROVE  HandleInv'
<1>1. UNCHANGED <<diagnosticCapacity, opens, Handle!reads>>
  BY DEF Handle!Poll
<1>2. PICK records \in Handle!Raised, held \in UNION {[1..n -> BOOLEAN] : n \in 0..capacity} :
        \/ Handle!Nothing(records) /\ UNCHANGED polledFrames
        \/ polledFrames' = Handle!Take(Head(held)) /\ Handle!Deliver(records)
        \/ polledFrames' = Handle!Take(Head(held)) /\ Handle!RefuseFrame(records)
  BY DEF Handle!Poll
<1>3. CASE Handle!Nothing(records) /\ UNCHANGED polledFrames
  <2>1. Handle!DrainCall(diagnosticCapacity) /\ UNCHANGED Handle!tally
    BY <1>3 DEF Handle!Nothing, Handle!DrainCall
  <2> QED BY <1>1, <1>3, <2>1, CallKeeps
<1>4. CASE polledFrames' = Handle!Take(Head(held)) /\ Handle!Deliver(records)
  <2>1. /\ diagnostics' \in Seq(Nat) /\ droppedDiagnostics' \in Nat /\ raised' \in Nat
        /\ lastRead' \in Nat /\ read' \in Nat
        /\ DiagnosticsKept'
    BY <1>1, <1>4, DrainKeeps DEF Handle!Deliver, HandleInv, Kinds
  <2> QED BY <1>1, <1>4, <2>1 DEF Handle!Deliver, Handle!Take, HandleInv, Kinds,
                                  Handle!EveryPolledFrameAccounted
<1>5. CASE polledFrames' = Handle!Take(Head(held)) /\ Handle!RefuseFrame(records)
  <2>1. PICK n \in Nat : records = [i \in 1..n |-> raised + i]
    BY DEF Handle!Raised
  <2>2. /\ \A i \in 1..n : raised + i \in Nat
        /\ raised + n + 1 \in Nat /\ n + 1 \in Nat
    BY <2>1 DEF HandleInv, Kinds
  <2>3. records \in Seq(Nat) /\ Len(records) = n /\ \A i \in 1..n : records[i] = raised + i
    BY <2>1, <2>2
  <2>4. raised' = raised + (n + 1)
    BY <1>5, <2>2, <2>3 DEF Handle!RefuseFrame, HandleInv, Kinds
  <2>5. PICK more : more = Append(records, raised + (n + 1))
    OBVIOUS
  <2>6. more \in Seq(Nat) /\ Len(more) = n + 1 /\ \A i \in 1..(n + 1) : more[i] = raised + i
    <3>1. raised + (n + 1) \in Nat
      BY <2>2 DEF HandleInv, Kinds
    <3>2. more \in Seq(Nat) /\ Len(more) = n + 1
      BY <2>3, <2>5, <3>1
    <3>3. (\A i \in 1..n : more[i] = records[i]) /\ more[n + 1] = raised + (n + 1)
      BY <2>3, <2>5, <3>1
    <3> QED BY <2>3, <3>2, <3>3
  <2>7. Handle!Enqueue(diagnosticCapacity, more)
    BY <1>5, <2>4, <2>5 DEF Handle!RefuseFrame
  <2>8. /\ diagnostics' \in Seq(Nat) /\ droppedDiagnostics' \in Nat /\ raised' \in Nat
        /\ lastRead' \in Nat /\ read' \in Nat
        /\ DiagnosticsKept'
    BY <1>1, <2>2, <2>4, <2>6, <2>7, EnqueueKeeps DEF HandleInv, Kinds
  <2> QED BY <1>1, <1>5, <2>8 DEF Handle!RefuseFrame, Handle!Take, HandleInv, Kinds,
                                  Handle!EveryPolledFrameAccounted
<1> QED BY <1>2, <1>3, <1>4, <1>5

LEMMA PollDiagnosticKeeps ==
  ASSUME HandleInv, Handle!PollDiagnostic
  PROVE  HandleInv'
<1>1. UNCHANGED <<diagnosticCapacity, droppedDiagnostics, raised, opens, polledFrames, Handle!tally>>
  BY DEF Handle!PollDiagnostic, Handle!source
<1>2. CASE diagnostics = <<>>
  BY <1>1, <1>2 DEF Handle!PollDiagnostic, HandleInv, Kinds, DiagnosticsKept,
                    Handle!EveryPolledFrameAccounted,
                    Handle!reads, Handle!tally
<1>3. CASE diagnostics # <<>>
  <2>1. lastRead' = Head(diagnostics) /\ read' = read + 1 /\ diagnostics' = Tail(diagnostics)
    BY <1>3 DEF Handle!PollDiagnostic
  <2>2. /\ diagnostics \in Seq(Nat) /\ Len(diagnostics) \in Nat \ {0}
        /\ lastRead' = diagnostics[1] /\ lastRead' \in Nat
        /\ diagnostics' \in Seq(Nat) /\ Len(diagnostics') = Len(diagnostics) - 1
        /\ \A i \in 1..Len(diagnostics') : diagnostics'[i] = diagnostics[i + 1]
    BY <1>3, <2>1 DEF HandleInv, Kinds
  <2>3. Orderly(lastRead', diagnostics', raised')
    <3>1. \A i \in 1..Len(diagnostics') : i + 1 \in 1..Len(diagnostics) /\ 1 < i + 1
      BY <2>2
    <3>2. 1 \in 1..Len(diagnostics)
      BY <2>2
    <3>3. \A i \in 1..Len(diagnostics') : lastRead' < diagnostics'[i]
      BY <2>2, <3>1, <3>2 DEF HandleInv, DiagnosticsKept, Orderly
    <3>4. ASSUME NEW i \in 1..Len(diagnostics'), NEW j \in 1..Len(diagnostics'), i < j
          PROVE  diagnostics'[i] < diagnostics'[j]
      <4>1. i + 1 < j + 1
        BY <3>4
      <4> QED BY <2>2, <3>1, <3>4, <4>1 DEF HandleInv, DiagnosticsKept, Orderly
    <3>5. diagnostics[Len(diagnostics)] = raised
      BY <1>3 DEF HandleInv, DiagnosticsKept, Orderly
    <3>6. IF diagnostics' = <<>> THEN lastRead' = raised'
          ELSE diagnostics'[Len(diagnostics')] = raised'
      <4>1. CASE diagnostics' = <<>>
        <5>1. Len(diagnostics) = 1
          BY <2>2, <4>1
        <5> QED BY <1>1, <2>2, <3>5, <4>1, <5>1
      <4>2. CASE diagnostics' # <<>>
        <5>1. Len(diagnostics') \in 1..Len(diagnostics') /\ Len(diagnostics') + 1 = Len(diagnostics)
          BY <2>2, <4>2
        <5> QED BY <1>1, <2>2, <3>5, <4>2, <5>1
      <4> QED BY <4>1, <4>2
    <3> QED BY <3>3, <3>4, <3>6 DEF Orderly
  <2>4. raised' = read' + droppedDiagnostics' + Len(diagnostics')
    BY <1>1, <2>1, <2>2 DEF HandleInv, Kinds, DiagnosticsKept
  <2>5. DiagnosticsKept'
    BY <2>3, <2>4 DEF DiagnosticsKept
  <2> QED BY <1>1, <2>1, <2>2, <2>5 DEF HandleInv, Kinds, Handle!EveryPolledFrameAccounted,
                                        Handle!tally
<1> QED BY <1>2, <1>3

LEMMA NoneOrderly == Orderly(0, <<>>, 0) /\ Len(<<>>) = 0 /\ <<>> \in Seq(Nat)
BY DEF Orderly

LEMMA HandleStep ==
  ASSUME Handle!CapacitiesAssumption, Handle!ConfigsAssumption, HandleInv, [Handle!Next]_Handle!vars
  PROVE  HandleInv'
<1>1. CASE Handle!Create
  BY <1>1 DEF Handle!Create, Handle!queue, Handle!source, Handle!reads, Handle!tally, HandleInv,
              Kinds, DiagnosticsKept,
              Handle!EveryPolledFrameAccounted
<1>2. CASE Handle!Destroy
  <2>1. /\ diagnosticCapacity' = DefaultDiagnosticCapacity /\ diagnostics' = <<>>
        /\ refusedFrames' = 0 /\ droppedDiagnostics' = 0 /\ polledFrames' = 0 /\ raised' = 0
        /\ lastRead' = 0 /\ read' = 0 /\ delivered' = 0 /\ refused' = 0 /\ opens' = opens
    BY <1>2 DEF Handle!Destroy
  <2>2. DiagnosticsKept'
    BY <2>1, NoneOrderly DEF DiagnosticsKept
  <2>3. Handle!EveryPolledFrameAccounted'
    BY <2>1 DEF Handle!EveryPolledFrameAccounted
  <2> QED BY <2>1, <2>2, <2>3, NoneOrderly DEF HandleInv, Kinds, Handle!CapacitiesAssumption
<1>3. CASE Handle!Open
  BY <1>3, OpenKeeps
<1>4. CASE Handle!Close
  BY <1>4, CallKeeps DEF Handle!Close
<1>5. CASE Handle!PushInput
  BY <1>5, CallKeeps DEF Handle!PushInput
<1>6. CASE Handle!PushInputRefused
  BY <1>6 DEF Handle!PushInputRefused, Handle!queue, Handle!source, Handle!reads, Handle!tally,
              HandleInv, Kinds, DiagnosticsKept,
              Handle!EveryPolledFrameAccounted
<1>7. CASE Handle!Poll
  BY <1>7, PollKeeps
<1>8. CASE Handle!NullArgument
  BY <1>8 DEF Handle!NullArgument, Handle!queue, Handle!source, Handle!reads, Handle!tally,
              HandleInv, Kinds, DiagnosticsKept,
              Handle!EveryPolledFrameAccounted
<1>9. CASE Handle!PollDiagnostic
  BY <1>9, PollDiagnosticKeeps
<1>10. CASE UNCHANGED Handle!vars
  BY <1>10 DEF Handle!vars, Handle!queue, Handle!source, Handle!reads, Handle!tally, HandleInv,
               Kinds, DiagnosticsKept,
               Handle!EveryPolledFrameAccounted
<1> QED BY <1>1, <1>2, <1>3, <1>4, <1>5, <1>6, <1>7, <1>8, <1>9, <1>10 DEF Handle!Next

-----------------------------------------------------------------------------

LEMMA HandleInvHolds ==
  ASSUME Handle!CapacitiesAssumption, Handle!ConfigsAssumption
  PROVE  Handle!Spec => []HandleInv
<1>1. Handle!Init => HandleInv
  <2> SUFFICES ASSUME Handle!Init PROVE HandleInv
    OBVIOUS
  <2>1. /\ diagnosticCapacity = DefaultDiagnosticCapacity /\ diagnostics = <<>>
        /\ refusedFrames = 0 /\ droppedDiagnostics = 0 /\ polledFrames = 0 /\ raised = 0
        /\ lastRead = 0 /\ read = 0 /\ delivered = 0 /\ refused = 0 /\ opens = 0
    BY DEF Handle!Init
  <2>2. DiagnosticsKept
    BY <2>1, NoneOrderly DEF DiagnosticsKept
  <2>3. Handle!EveryPolledFrameAccounted
    BY <2>1 DEF Handle!EveryPolledFrameAccounted
  <2> QED BY <2>1, <2>2, <2>3, NoneOrderly DEF HandleInv, Kinds, Handle!CapacitiesAssumption
<1> QED BY <1>1, HandleStep, PTL DEF Handle!Spec

\* Enqueue, DrainDiagnostics and motion_connector_poll_diagnostic: no diagnostic
\* is lost uncounted or read out of order, for every capacity that opens ask for.
THEOREM DiagnosticsAccounted ==
  ASSUME Handle!CapacitiesAssumption, Handle!ConfigsAssumption
  PROVE  Handle!Spec => []Handle!EveryDiagnosticAccounted
<1>1. HandleInv => Handle!EveryDiagnosticAccounted
  BY OrderlyReadsInOrder DEF HandleInv, Kinds, DiagnosticsKept, Handle!EveryDiagnosticAccounted
<1> QED BY <1>1, HandleInvHolds, PTL

\* motion_connector_poll: every frame the buffer gave up since the open was
\* delivered or refused, through its loop and through every open.
THEOREM PolledFramesAccounted ==
  ASSUME Handle!CapacitiesAssumption, Handle!ConfigsAssumption
  PROVE  Handle!Spec => []Handle!EveryPolledFrameAccounted
<1>1. HandleInv => Handle!EveryPolledFrameAccounted
  BY DEF HandleInv
<1> QED BY <1>1, HandleInvHolds, PTL

\* motion_connector_open: one that refuses its configuration leaves the handle,
\* its queue and its source as they were.
THEOREM RefusedOpenIsNoOpen ==
  ASSUME Handle!CapacitiesAssumption, Handle!ConfigsAssumption
  PROVE  Handle!Spec => Handle!RefusedOpenChangesNothing
<1> DEFINE Explained == lastError' \notin {"", "profile", "socket"}
           Unchanged == UNCHANGED <<handle, Handle!queue, profile, Handle!source, Handle!tally>>
<1>1. HandleInv /\ [Handle!Next]_Handle!vars => [opens' > opens /\ Explained => Unchanged]_Handle!vars
  <2> SUFFICES ASSUME HandleInv, Handle!Next, opens' > opens, Explained
               PROVE  UNCHANGED <<handle, Handle!queue, profile, Handle!source, Handle!tally>>
    OBVIOUS
  <2>1. opens' # opens
    <3> HIDE DEF Explained
    <3>1. opens \in Nat
      BY DEF HandleInv, Kinds
    <3> QED BY <3>1
  <2>2. Handle!Open
    BY <2>1 DEF Handle!Next, Handle!Create, Handle!Destroy, Handle!Close, Handle!PushInput,
                Handle!PushInputRefused, Handle!Poll, Handle!NullArgument,
                Handle!PollDiagnostic
  <2>3. PICK config \in Configs : Handle!OpenRefused(config) \/ Handle!OpenSource(config)
    BY <2>2 DEF Handle!Open
  <2>4. ~Handle!OpenSource(config)
    BY DEF Handle!OpenSource, Handle!Refuse, Handle!Succeed
  <2> QED BY <2>2, <2>3, <2>4 DEF Handle!Open, Handle!OpenRefused, Handle!RefusedOpenKeeps
<1> QED BY <1>1, HandleInvHolds, PTL DEF Handle!Spec, Handle!RefusedOpenChangesNothing

\* A handle keeps its books: the three together are what a run checks.
THEOREM BooksKept == Handle!Spec => HandleKeepsItsBooks
BY HandleAssumptions, DiagnosticsAccounted, PolledFramesAccounted, RefusedOpenIsNoOpen, PTL
DEF HandleKeepsItsBooks, Handle!HandleKeepsItsBooks
=============================================================================
