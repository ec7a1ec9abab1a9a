----------------------------- MODULE VrchatProofs -----------------------------
(***************************************************************************)
(* What VrchatOscFrameAssembler keeps, for every value of the constants: what *)
(* a frame says is missing, silent or new is what its own session says, and   *)
(* every silence is counted once.  Then what TrackerSolve authors: whatever a *)
(* consumer still holds, a bone turns as its own tracker reported.  Last what *)
(* TrackerMessage decodes: one tracker has one identity.                      *)
(***************************************************************************)
EXTENDS MCVrchat, FiniteSetTheorems, WellFoundedInduction, TLAPS

(***************************************************************************)
(* The kinds of what the assembler holds.                                   *)
(***************************************************************************)

Sent == UNION {{p[i] : i \in 1..Len(p)} : p \in Packets}
Trackers == {message.tracker : message \in Sent}
Values == {message.value : message \in Sent}
Keys == Trackers \X {"position", "rotation"}
Senders == Peers \cup {NoPeer}

\* Functions from some of S to T.
Tables(S, T) == UNION {[R -> T] : R \in SUBSET S}

OpenFrames ==
  [receiveTime : Nat, peer : Senders, beginsNewSession : BOOLEAN,
   channels : Tables(Keys, Nat), position : Tables(Trackers, Values)]

ClosedFrames ==
  [session : Nat, receiveTime : Nat, peer : Senders,
   carried : SUBSET Trackers, position : Tables(Trackers, Values),
   missing : SUBSET Trackers, stale : SUBSET Trackers,
   beginsNewSession : BOOLEAN, followsDiscontinuity : BOOLEAN]

FrameType ==
  /\ frame = NoFrame \/ frame \in OpenFrames
  /\ frame # NoFrame => IsFiniteSet(Carried) /\ lastArrival # None /\ frame.receiveTime <= lastArrival

RigType ==
  /\ lastSeen \in Tables(Trackers, Nat) /\ IsFiniteSet(DOMAIN lastSeen)

StreamType ==
  /\ lastArrival \in Nat \cup {None} /\ from \in Senders /\ packetSerial \in Nat
  /\ messages \in Seq(Sent) /\ (messages # <<>> => lastArrival # None)
  /\ pendingNewSession \in BOOLEAN /\ session \in Nat
  /\ \A s \in restarted : s \in Nat /\ s <= session
  /\ emitted \in Seq(ClosedFrames)
  /\ stalenessCrossings \in Nat

-----------------------------------------------------------------------------
(* What is remembered is what the frames of this session brought.            *)

Current == {j \in 1..Len(emitted) : emitted[j].session = session}

SessionsAdvance ==
  \A i \in 1..Len(emitted) :
    /\ emitted[i].session <= session
    /\ \A j \in 1..i : emitted[j].session <= emitted[i].session

Clocked ==
  \A j \in Current :
    /\ lastArrival # None /\ emitted[j].receiveTime <= lastArrival
    /\ frame # NoFrame => emitted[j].receiveTime <= frame.receiveTime

\* _lastSeen is the newest time a frame of the session carried the tracker.
Remembered ==
  /\ DOMAIN lastSeen = UNION {emitted[j].carried : j \in Current}
  /\ \A t \in DOMAIN lastSeen :
       \E j \in Current : t \in emitted[j].carried /\ lastSeen[t] = emitted[j].receiveTime
  /\ \A j \in Current : \A t \in emitted[j].carried : emitted[j].receiveTime <= lastSeen[t]

\* _lastPosition is where the newest frame of the session that placed it did.
Placed ==
  /\ \A t \in DOMAIN lastPosition :
       \E j \in Current :
         /\ t \in DOMAIN emitted[j].position /\ lastPosition[t] = emitted[j].position[t]
         /\ \A k \in Current : t \in DOMAIN emitted[k].position => k <= j
  /\ \A j \in Current : DOMAIN emitted[j].position \subseteq DOMAIN lastPosition

\* A tracker is marked while the newest frame of the session calls it stale.
Marked ==
  /\ Current = {} => reportedStale = {}
  /\ Current # {} => reportedStale = emitted[Len(emitted)].stale

\* A restart waits for the first frame to open after it.
Announcing ==
  LET due == session \in restarted /\ Current = {}
  IN  /\ frame = NoFrame => (pendingNewSession <=> due)
      /\ frame # NoFrame => ~pendingNewSession /\ (frame.beginsNewSession <=> due)

Counted == IsFiniteSet(Crossings) /\ CrossingsCountedOnce

Told == AbsenceIsTheSessions /\ JumpsAreTheSessions /\ RestartsAnnounced /\ Counted

Held == FrameType /\ RigType /\ Clocked /\ Remembered /\ Placed /\ Marked /\ Announcing

SessionInv == StreamType /\ SessionsAdvance /\ Held /\ Told

-----------------------------------------------------------------------------
(* Closing a frame.                                                         *)

\* What EmitFrame appends.
Closing ==
  [session |-> session, receiveTime |-> frame.receiveTime, peer |-> frame.peer,
   carried |-> Carried, position |-> frame.position,
   missing |-> Missing, stale |-> Stale,
   beginsNewSession |-> frame.beginsNewSession,
   followsDiscontinuity |-> FollowsDiscontinuity]

LEMMA OpenFrameFacts ==
  ASSUME NEW f \in OpenFrames
  PROVE  /\ f.receiveTime \in Nat /\ f.peer \in Senders /\ f.beginsNewSession \in BOOLEAN
         /\ DOMAIN f.channels \subseteq Keys /\ DOMAIN f.position \subseteq Trackers
         /\ f # NoFrame
<1>1. /\ f.receiveTime \in Nat /\ f.peer \in Senders /\ f.beginsNewSession \in BOOLEAN
      /\ f.channels \in Tables(Keys, Nat) /\ f.position \in Tables(Trackers, Values)
  BY DEF OpenFrames
<1>2. NoFrame.receiveTime \notin Nat
  BY InputAssumption DEF NoFrame
<1> QED BY <1>1, <1>2 DEF Tables

LEMMA CarriedFacts ==
  ASSUME FrameType, frame # NoFrame
  PROVE  /\ frame \in OpenFrames /\ IsFiniteSet(Carried) /\ Carried \subseteq Trackers
         /\ frame.receiveTime \in Nat /\ lastArrival # None /\ frame.receiveTime <= lastArrival
<1>1. frame \in OpenFrames
  BY DEF FrameType
<1>2. DOMAIN frame.channels \subseteq Keys /\ frame.receiveTime \in Nat
  BY <1>1, OpenFrameFacts
<1>3. Carried \subseteq Trackers
  BY <1>2 DEF Carried, Keys
<1> QED BY <1>1, <1>2, <1>3 DEF FrameType

LEMMA MissingFacts ==
  ASSUME RigType
  PROVE  /\ Missing \subseteq Trackers /\ IsFiniteSet(Missing) /\ Missing \subseteq DOMAIN lastSeen
         /\ Stale \subseteq Missing /\ IsFiniteSet(Stale)
<1>1. DOMAIN lastSeen \subseteq Trackers /\ IsFiniteSet(DOMAIN lastSeen)
  BY DEF RigType, Tables
<1>2. Missing \subseteq DOMAIN lastSeen /\ Stale \subseteq Missing
  BY DEF Missing, Stale
<1> QED BY <1>1, <1>2, FS_Subset

LEMMA ClosingFacts ==
  ASSUME FrameType, RigType, frame # NoFrame, session \in Nat
  PROVE  Closing \in ClosedFrames
<1>1. /\ frame \in OpenFrames /\ Carried \in SUBSET Trackers
      /\ Missing \in SUBSET Trackers /\ Stale \in SUBSET Trackers
  BY CarriedFacts, MissingFacts
<1>2. /\ frame.receiveTime \in Nat /\ frame.peer \in Senders /\ frame.beginsNewSession \in BOOLEAN
      /\ frame.position \in Tables(Trackers, Values)
  BY <1>1, OpenFrameFacts DEF OpenFrames
<1>3. FollowsDiscontinuity \in BOOLEAN
  BY DEF FollowsDiscontinuity
<1> QED BY <1>1, <1>2, <1>3 DEF Closing, ClosedFrames

\* The step is one that closes the open frame.
Emits ==
  /\ frame # NoFrame
  /\ emitted' = Append(emitted, Closing)
  /\ stalenessCrossings' = stalenessCrossings + Cardinality(Stale \ reportedStale)

LEMMA EmitFrameEmits ==
  ASSUME NEW reason, EmitFrame(reason), frame # NoFrame
  PROVE  Emits
  BY DEF EmitFrame, Emits, Closing

LEMMA EmittedTypes ==
  ASSUME StreamType, NEW i \in 1..Len(emitted)
  PROVE  emitted[i] \in ClosedFrames /\ emitted[i].session \in Nat /\ emitted[i].receiveTime \in Nat
<1>1. emitted[i] \in ClosedFrames
  BY DEF StreamType
<1> QED BY <1>1 DEF ClosedFrames

LEMMA EmittedFacts ==
  ASSUME SessionInv, Emits
  PROVE  /\ emitted' \in Seq(ClosedFrames) /\ Len(emitted) \in Nat /\ Len(emitted') = Len(emitted) + 1
         /\ emitted'[Len(emitted) + 1] = Closing
         /\ \A i \in 1..Len(emitted) : emitted'[i] = emitted[i] /\ emitted[i] \in ClosedFrames
<1>1. emitted \in Seq(ClosedFrames) /\ Closing \in ClosedFrames
  BY ClosingFacts DEF SessionInv, StreamType, Held, Emits
<1> HIDE DEF Closing
<1> QED BY <1>1 DEF Emits

LEMMA BeforeFacts ==
  ASSUME SessionInv, Emits, NEW n, n = Len(emitted) + 1
  PROVE  /\ \A i \in 1..Len(emitted) : Before(i)' = Before(i) /\ Before(i) \subseteq 1..Len(emitted)
         /\ Before(n)' = Current
<1>1. Closing.session = session
  BY DEF Closing
<1>2. ASSUME NEW i \in 1..Len(emitted)
      PROVE  Before(i)' = Before(i) /\ Before(i) \subseteq 1..Len(emitted)
  <2>1. Len(emitted) \in Nat /\ \A j \in 1..Len(emitted) : emitted'[j] = emitted[j]
    BY EmittedFacts
  <2>2. \A j \in 1..(i - 1) : j \in 1..Len(emitted)
    BY <2>1
  <2> QED BY <2>1, <2>2 DEF Before
<1>3. Before(n)' = {j \in 1..Len(emitted) : emitted[j].session = session}
  <2>1. /\ Len(emitted) \in Nat /\ emitted'[n] = Closing
        /\ \A j \in 1..Len(emitted) : emitted'[j] = emitted[j]
    BY EmittedFacts
  <2>2. n - 1 = Len(emitted)
    BY <2>1
  <2>3. Before(n)' = {j \in 1..(n - 1) : emitted'[j].session = emitted'[n].session}
    BY DEF Before
  <2> QED BY <1>1, <2>1, <2>2, <2>3
<1> QED BY <1>2, <1>3 DEF Current

\* The closing frame lacks what the session's frames brought and it did not.
LEMMA AbsenceTold ==
  ASSUME SessionInv, Emits
  PROVE  AbsenceIsTheSessions'
<1>n. PICK n : n = Len(emitted) + 1
  OBVIOUS
<1> DEFINE Seen(i) == UNION {emitted[j].carried : j \in Before(i)}
           Late(i) == {t \in emitted[i].missing :
                        /\ Staleness > 0
                        /\ \A j \in Before(i) : t \in emitted[j].carried =>
                             emitted[i].receiveTime - emitted[j].receiveTime >= Staleness}
           Told1(i) == emitted[i].missing = Seen(i) \ emitted[i].carried /\ emitted[i].stale = Late(i)
<1>1. AbsenceIsTheSessions = \A i \in 1..Len(emitted) : Told1(i)
  BY DEF AbsenceIsTheSessions
<1>2. AbsenceIsTheSessions' = \A i \in 1..Len(emitted') : Told1(i)'
  BY DEF AbsenceIsTheSessions
<1>3. ASSUME NEW i \in 1..Len(emitted)
      PROVE  Told1(i)'
  <2>1. Told1(i)
    BY <1>1 DEF SessionInv, Told
  <2>2. /\ Before(i)' = Before(i) /\ Before(i) \subseteq 1..Len(emitted) /\ emitted'[i] = emitted[i]
        /\ \A j \in Before(i) : emitted'[j] = emitted[j]
    BY <1>n, BeforeFacts, EmittedFacts
  <2>3. Seen(i)' = Seen(i)
    BY <2>2
  <2>4. Late(i)' = Late(i)
    BY <2>2
  <2> HIDE DEF Seen, Late
  <2> QED BY <2>1, <2>2, <2>3, <2>4
<1>4. Told1(n)'
  <2>1. /\ emitted'[n] = Closing /\ Before(n)' = Current /\ Current \subseteq 1..Len(emitted)
        /\ \A j \in Current : emitted'[j] = emitted[j]
    BY <1>n, BeforeFacts, EmittedFacts DEF Current
  <2>2. /\ Closing.missing = Missing /\ Closing.stale = Stale /\ Closing.carried = Carried
        /\ Closing.receiveTime = frame.receiveTime
    BY DEF Closing
  <2>3. Seen(n)' = DOMAIN lastSeen
    <3>1. Seen(n)' = UNION {emitted[j].carried : j \in Current}
      BY <2>1
    <3> QED BY <3>1 DEF SessionInv, Held, Remembered
  <2>4. emitted'[n].missing = Seen(n)' \ emitted'[n].carried
    BY <2>1, <2>2, <2>3 DEF Missing
  <2>5. Late(n)' = Stale
    <3>1. ASSUME NEW t \in Missing
          PROVE  (frame.receiveTime - lastSeen[t] >= Staleness)
                   <=> \A j \in Current : t \in emitted[j].carried =>
                         frame.receiveTime - emitted[j].receiveTime >= Staleness
      <4>1. t \in DOMAIN lastSeen
        BY DEF Missing
      <4>2. PICK k \in Current : t \in emitted[k].carried /\ lastSeen[t] = emitted[k].receiveTime
        BY <4>1 DEF SessionInv, Held, Remembered
      <4>3. \A j \in Current : t \in emitted[j].carried => emitted[j].receiveTime <= lastSeen[t]
        BY DEF SessionInv, Held, Remembered
      <4>4. \A j \in Current : emitted[j].receiveTime \in Nat
        BY <2>1, EmittedFacts DEF ClosedFrames
      <4>5. frame.receiveTime \in Nat /\ Staleness \in Nat
        BY CarriedFacts, ConfigAssumption DEF SessionInv, Held, Emits
      <4> QED BY <4>2, <4>3, <4>4, <4>5
    <3>2. Late(n)' = {t \in Missing :
                        /\ Staleness > 0
                        /\ \A j \in Current : t \in emitted[j].carried =>
                             frame.receiveTime - emitted[j].receiveTime >= Staleness}
      BY <2>1, <2>2
    <3> QED BY <3>1, <3>2 DEF Stale
  <2> HIDE DEF Seen, Late
  <2> QED BY <2>1, <2>2, <2>4, <2>5
<1>5. 1..Len(emitted') = 1..Len(emitted) \cup {n}
  BY <1>n, EmittedFacts
<1> HIDE DEF Told1
<1> QED BY <1>2, <1>3, <1>4, <1>5

\* It follows a recalibration if all it places, of what the session's frames
\* placed, has jumped from where they last did.
LEMMA JumpTold ==
  ASSUME SessionInv, Emits
  PROVE  JumpsAreTheSessions'
<1>n. PICK n : n = Len(emitted) + 1
  OBVIOUS
<1> DEFINE Both(i) == {t \in DOMAIN emitted[i].position : Placing(i, t) # {}}
           Far(i, t) == \A j \in Placing(i, t) :
                          (\A k \in Placing(i, t) : k <= j) =>
                            Distance(emitted[i].position[t], emitted[j].position[t]) > Jump
           Told1(i) == emitted[i].followsDiscontinuity <=>
                         /\ Jump > 0 /\ Cardinality(Both(i)) >= 2
                         /\ \A t \in Both(i) : Far(i, t)
<1>1. JumpsAreTheSessions = \A i \in 1..Len(emitted) : Told1(i)
  BY DEF JumpsAreTheSessions
<1>2. JumpsAreTheSessions' = \A i \in 1..Len(emitted') : Told1(i)'
  BY DEF JumpsAreTheSessions
<1>3. ASSUME NEW i \in 1..Len(emitted)
      PROVE  Told1(i)'
  <2>1. Told1(i)
    BY <1>1 DEF SessionInv, Told
  <2>2. /\ Before(i)' = Before(i) /\ Before(i) \subseteq 1..Len(emitted) /\ emitted'[i] = emitted[i]
        /\ \A j \in Before(i) : emitted'[j] = emitted[j]
    BY <1>n, BeforeFacts, EmittedFacts
  <2>3. \A t : Placing(i, t)' = Placing(i, t) /\ Placing(i, t) \subseteq Before(i)
    BY <2>2 DEF Placing
  <2>4. Both(i)' = Both(i)
    BY <2>2, <2>3
  <2>5. \A t : Far(i, t)' <=> Far(i, t)
    BY <2>2, <2>3
  <2> HIDE DEF Both, Far
  <2> QED BY <2>1, <2>2, <2>4, <2>5
<1>4. Told1(n)'
  <2>1. /\ emitted'[n] = Closing /\ Before(n)' = Current /\ Current \subseteq 1..Len(emitted)
        /\ \A j \in Current : emitted'[j] = emitted[j] /\ j \in Nat
    BY <1>n, BeforeFacts, EmittedFacts DEF Current
  <2>2. Closing.position = frame.position /\ Closing.followsDiscontinuity = FollowsDiscontinuity
    BY DEF Closing
  <2>3. \A t : Placing(n, t)' = {j \in Current : t \in DOMAIN emitted[j].position}
    BY <2>1 DEF Placing
  <2>4. Placed
    BY DEF SessionInv, Held
  <2>5. \A t : Placing(n, t)' # {} <=> t \in DOMAIN lastPosition
    BY <2>3, <2>4 DEF Placed
  <2>6. Both(n)' = Comparable
    BY <2>1, <2>2, <2>5 DEF Comparable
  <2>7. ASSUME NEW t \in Comparable
        PROVE  Far(n, t)' <=> Distance(frame.position[t], lastPosition[t]) > Jump
    <3>1. PICK j \in Current :
            /\ t \in DOMAIN emitted[j].position /\ lastPosition[t] = emitted[j].position[t]
            /\ \A k \in Current : t \in DOMAIN emitted[k].position => k <= j
      BY <2>4 DEF Placed, Comparable
    <3>2. \A i \in Placing(n, t)' : (\A k \in Placing(n, t)' : k <= i) <=> i = j
      BY <2>1, <2>3, <3>1
    <3>3. j \in Placing(n, t)' /\ emitted'[j].position[t] = lastPosition[t]
          /\ emitted'[n].position[t] = frame.position[t]
      BY <2>1, <2>2, <2>3, <3>1
    <3> QED BY <3>2, <3>3
  <2> HIDE DEF Both, Far
  <2> QED BY <2>1, <2>2, <2>6, <2>7 DEF FollowsDiscontinuity
<1>5. 1..Len(emitted') = 1..Len(emitted) \cup {n}
  BY <1>n, EmittedFacts
<1> HIDE DEF Told1
<1> QED BY <1>2, <1>3, <1>4, <1>5

\* It begins a session if it is the first of one that a restart began.
LEMMA RestartTold ==
  ASSUME SessionInv, Emits, restarted' \subseteq restarted \cup {session + 1}, restarted \subseteq restarted'
  PROVE  RestartsAnnounced'
<1>n. PICK n : n = Len(emitted) + 1
  OBVIOUS
<1>1. session \in Nat /\ Len(emitted) \in Nat
  BY EmittedFacts DEF SessionInv, StreamType
<1>2. ASSUME NEW i \in 1..Len(emitted)
      PROVE  emitted'[i].beginsNewSession <=> (emitted'[i].session \in restarted' /\ Before(i)' = {})
  <2>1. emitted[i].session \in Nat /\ emitted[i].session <= session
    BY EmittedFacts DEF SessionInv, SessionsAdvance, ClosedFrames
  <2>2. emitted[i].session \in restarted' <=> emitted[i].session \in restarted
    BY <1>1, <2>1
  <2> QED BY <1>n, <2>2, BeforeFacts, EmittedFacts DEF SessionInv, Told, RestartsAnnounced
<1>3. emitted'[n].beginsNewSession <=> (emitted'[n].session \in restarted' /\ Before(n)' = {})
  <2>1. Closing.session = session /\ Closing.beginsNewSession = frame.beginsNewSession
    BY DEF Closing
  <2>2. session \in restarted' <=> session \in restarted
    BY <1>1
  <2>3. frame.beginsNewSession <=> session \in restarted /\ Current = {}
    BY DEF SessionInv, Held, Announcing, Emits
  <2> QED BY <1>n, <2>1, <2>2, <2>3, BeforeFacts, EmittedFacts
<1>4. 1..Len(emitted') = 1..Len(emitted) \cup {n}
  BY <1>n, EmittedFacts
<1> QED BY <1>2, <1>3, <1>4 DEF RestartsAnnounced

\* A tracker falls silent where the frame before in the session did not say so.
Falls(i, t) ==
  /\ t \in emitted[i].stale
  /\ \A j \in Before(i) : (\A k \in Before(i) : k <= j) => t \notin emitted[j].stale

LEMMA CrossingIs ==
  \A x : x \in Crossings <=> \E i \in 1..Len(emitted) : \E t \in emitted[i].stale : x = <<i, t>> /\ Falls(i, t)
<1> SUFFICES ASSUME NEW x
             PROVE  x \in Crossings
                      <=> \E i \in 1..Len(emitted) : \E t \in emitted[i].stale : x = <<i, t>> /\ Falls(i, t)
  OBVIOUS
<1>1. ASSUME x \in Crossings
      PROVE  \E i \in 1..Len(emitted) : \E t \in emitted[i].stale : x = <<i, t>> /\ Falls(i, t)
  BY <1>1 DEF Crossings, Falls
<1>2. ASSUME NEW i \in 1..Len(emitted), NEW t \in emitted[i].stale, x = <<i, t>>, Falls(i, t)
      PROVE  x \in Crossings
  BY <1>2 DEF Crossings, Falls
<1> QED BY <1>1, <1>2

LEMMA NewestIsLast ==
  ASSUME SessionInv, Current # {}
  PROVE  /\ Len(emitted) \in Nat /\ Len(emitted) \in Current
         /\ \A j \in Current : j <= Len(emitted) /\ j \in Nat
<1>1. Len(emitted) \in Nat /\ session \in Nat
  BY DEF SessionInv, StreamType
<1>2. PICK j \in 1..Len(emitted) : emitted[j].session = session
  BY DEF Current
<1>3. Len(emitted) \in 1..Len(emitted) /\ j \in 1..Len(emitted)
  BY <1>1
<1>4. /\ emitted[Len(emitted)].session <= session
      /\ emitted[j].session <= emitted[Len(emitted)].session
  BY <1>3 DEF SessionInv, SessionsAdvance
<1>5. emitted[Len(emitted)].session \in Nat
  <2>1. emitted[Len(emitted)] \in ClosedFrames
    BY <1>3 DEF SessionInv, StreamType
  <2> QED BY <2>1 DEF ClosedFrames
<1>6. emitted[Len(emitted)].session = session
  BY <1>1, <1>2, <1>4, <1>5
<1> QED BY <1>1, <1>3, <1>6 DEF Current

\* The falls of the closing frame are the trackers that had no mark.
LEMMA NewFalls ==
  ASSUME SessionInv, Emits, NEW n, n = Len(emitted) + 1
  PROVE  \A t : Falls(n, t)' <=> t \in Stale \ reportedStale
<1>1. /\ emitted'[n] = Closing /\ Before(n)' = Current /\ Current \subseteq 1..Len(emitted)
      /\ \A j \in Current : emitted'[j] = emitted[j]
  BY BeforeFacts, EmittedFacts DEF Current
<1>2. Closing.stale = Stale
  BY DEF Closing
<1> SUFFICES ASSUME NEW t PROVE Falls(n, t)' <=> t \in Stale \ reportedStale
  OBVIOUS
<1>3. Falls(n, t)' <=> /\ t \in Stale
                       /\ \A j \in Current : (\A k \in Current : k <= j) => t \notin emitted[j].stale
  BY <1>1, <1>2 DEF Falls
<1>4. CASE Current = {}
  BY <1>3, <1>4 DEF SessionInv, Held, Marked
<1>5. CASE Current # {}
  <2>1. Len(emitted) \in Current /\ \A j \in Current : j <= Len(emitted) /\ j \in Nat
    BY <1>5, NewestIsLast
  <2>2. \A j \in Current : (\A k \in Current : k <= j) => j = Len(emitted)
    BY <2>1
  <2>3. reportedStale = emitted[Len(emitted)].stale
    BY <1>5 DEF SessionInv, Held, Marked
  <2> QED BY <1>3, <2>1, <2>2, <2>3
<1> QED BY <1>4, <1>5

LEMMA SilencesTold ==
  ASSUME SessionInv, Emits
  PROVE  Counted'
<1>n. PICK n : n = Len(emitted) + 1
  OBVIOUS
<1> DEFINE fresh == {n} \X (Stale \ reportedStale)
<1>1. \A i \in 1..Len(emitted) : emitted'[i].stale = emitted[i].stale /\ \A t : Falls(i, t)' <=> Falls(i, t)
  <2> SUFFICES ASSUME NEW i \in 1..Len(emitted)
               PROVE  emitted'[i].stale = emitted[i].stale /\ \A t : Falls(i, t)' <=> Falls(i, t)
    OBVIOUS
  <2>1. /\ Before(i)' = Before(i) /\ emitted'[i] = emitted[i]
        /\ \A j \in Before(i) : emitted'[j] = emitted[j]
    BY <1>n, BeforeFacts, EmittedFacts
  <2> QED BY <2>1 DEF Falls
<1>2. 1..Len(emitted') = 1..Len(emitted) \cup {n} /\ n \notin 1..Len(emitted)
  BY <1>n, EmittedFacts
<1>3. emitted'[n].stale = Stale
  BY <1>n, EmittedFacts DEF Closing
<1>4. \A t : Falls(n, t)' <=> t \in Stale \ reportedStale
  BY <1>n, NewFalls
<1>5. (\A x : x \in Crossings <=> \E i \in 1..Len(emitted) : \E t \in emitted[i].stale :
                                     x = <<i, t>> /\ Falls(i, t))'
  BY CrossingIs, PTL
<1>6. Crossings' = Crossings \cup fresh
  <2>1. \A x : x \in fresh <=> \E t \in Stale : x = <<n, t>> /\ Falls(n, t)'
    BY <1>4
  <2> HIDE DEF fresh
  <2>2. \A x : x \in Crossings' <=> x \in Crossings \/ x \in fresh
    BY <1>1, <1>2, <1>3, <1>5, <2>1, CrossingIs
  <2> QED BY <2>2
<1>7. Crossings \cap fresh = {}
  <2> QED BY <1>2, CrossingIs
<1>8. IsFiniteSet(Stale \ reportedStale)
  BY MissingFacts, FS_Difference DEF SessionInv, Held
<1>9. IsFiniteSet(fresh) /\ Cardinality(fresh) = Cardinality(Stale \ reportedStale)
  <2>1. IsFiniteSet({n}) /\ Cardinality({n}) = 1
    BY FS_Singleton
  <2>2. IsFiniteSet(fresh) /\ Cardinality(fresh) = 1 * Cardinality(Stale \ reportedStale)
    BY <1>8, <2>1, FS_Product
  <2>3. Cardinality(Stale \ reportedStale) \in Nat
    BY <1>8, FS_CardinalityType
  <2> QED BY <2>2, <2>3
<1>10. IsFiniteSet(Crossings) /\ stalenessCrossings = Cardinality(Crossings)
  BY DEF SessionInv, Told, Counted, CrossingsCountedOnce
<1> HIDE DEF fresh
<1>11. IsFiniteSet(Crossings')
       /\ Cardinality(Crossings') = Cardinality(Crossings) + Cardinality(fresh) - Cardinality({})
  BY <1>6, <1>7, <1>9, <1>10, FS_Union
<1>12. Cardinality({}) = 0 /\ Cardinality(fresh) \in Nat /\ Cardinality(Crossings) \in Nat
  BY <1>9, <1>10, FS_EmptySet, FS_CardinalityType
<1>13. stalenessCrossings' = stalenessCrossings + Cardinality(fresh)
  BY <1>9 DEF Emits
<1> QED BY <1>10, <1>11, <1>12, <1>13 DEF Counted, CrossingsCountedOnce

-----------------------------------------------------------------------------
(* The history, when the frame closes, when nothing does, when a session does. *)

NextOf(n) == session' = n /\ restarted \subseteq restarted' /\ restarted' \subseteq restarted \cup {session + 1}

LEMMA HistoryGrows ==
  ASSUME SessionInv, Emits, NextOf(session) \/ NextOf(session + 1)
  PROVE  /\ SessionsAdvance' /\ Told'
         /\ emitted' \in Seq(ClosedFrames) /\ stalenessCrossings' \in Nat
         /\ session' = session => Current' = Current \cup {Len(emitted) + 1}
         /\ session' = session + 1 => Current' = {}
<1>n. PICK n : n = Len(emitted) + 1
  OBVIOUS
<1>1. /\ session \in Nat /\ Len(emitted) \in Nat /\ Len(emitted') = n /\ emitted'[n].session = session
      /\ \A i \in 1..Len(emitted) : emitted'[i] = emitted[i] /\ emitted[i].session \in Nat
  <2>1. Closing.session = session
    BY DEF Closing
  <2> QED BY <1>n, <2>1, EmittedFacts, EmittedTypes DEF SessionInv, StreamType
<1>2. session' = session \/ session' = session + 1
  BY DEF NextOf
<1>3. \A i \in 1..Len(emitted) : emitted[i].session <= session /\ \A j \in 1..i : emitted[j].session <= emitted[i].session
  BY DEF SessionInv, SessionsAdvance
<1>4. SessionsAdvance'
  <2>1. ASSUME NEW i \in 1..n
        PROVE  emitted'[i].session <= session' /\ \A j \in 1..i : emitted'[j].session <= emitted'[i].session
    <3>1. CASE i \in 1..Len(emitted)
      <4>1. \A j \in 1..i : j \in 1..Len(emitted)
        BY <1>1, <3>1
      <4>2. emitted[i].session <= session'
        BY <1>1, <1>2, <1>3, <3>1
      <4> QED BY <1>1, <1>3, <3>1, <4>1, <4>2
    <3>2. CASE i = n
      <4>1. session <= session'
        BY <1>1, <1>2
      <4>2. \A j \in 1..n : j = n \/ j \in 1..Len(emitted)
        BY <1>n, <1>1
      <4>3. \A j \in 1..n : emitted'[j].session <= session
        BY <1>1, <1>3, <4>2
      <4> QED BY <1>1, <3>2, <4>1, <4>3
    <3> QED BY <1>n, <1>1, <3>1, <3>2
  <2> QED BY <1>1, <2>1 DEF SessionsAdvance
<1>5. Told'
  BY AbsenceTold, JumpTold, RestartTold, SilencesTold DEF Told, NextOf
<1>6. stalenessCrossings' \in Nat
  <2>1. IsFiniteSet(Stale \ reportedStale)
    BY MissingFacts, FS_Difference DEF SessionInv, Held
  <2> QED BY <2>1, FS_CardinalityType DEF Emits, SessionInv, StreamType
<1>7. 1..Len(emitted') = 1..Len(emitted) \cup {n} /\ n \notin 1..Len(emitted)
  BY <1>n, <1>1
<1>8. ASSUME session' = session PROVE Current' = Current \cup {n}
  BY <1>1, <1>7, <1>8 DEF Current
<1>9. ASSUME session' = session + 1 PROVE Current' = {}
  <2>1. \A i \in 1..Len(emitted') : emitted'[i].session <= session /\ emitted'[i].session \in Nat
    BY <1>1, <1>3, <1>7
  <2> QED BY <1>1, <1>9, <2>1 DEF Current
<1> QED BY <1>n, <1>4, <1>5, <1>6, <1>8, <1>9, EmittedFacts

LEMMA HistoryStays ==
  ASSUME SessionInv, UNCHANGED <<emitted, stalenessCrossings>>, NextOf(session) \/ NextOf(session + 1)
  PROVE  /\ SessionsAdvance' /\ Told'
         /\ emitted' \in Seq(ClosedFrames) /\ stalenessCrossings' \in Nat
         /\ session' = session => Current' = Current
         /\ session' = session + 1 => Current' = {}
<1>1. /\ session \in Nat /\ Len(emitted) \in Nat
      /\ \A i \in 1..Len(emitted) : emitted[i].session \in Nat /\ emitted[i].session <= session
  BY EmittedTypes DEF SessionInv, StreamType, SessionsAdvance
<1>2. session' = session \/ session' = session + 1
  BY DEF NextOf
<1>3. SessionsAdvance'
  <2>1. \A i \in 1..Len(emitted) : emitted[i].session <= session'
    BY <1>1, <1>2
  <2> QED BY <2>1 DEF SessionInv, SessionsAdvance
<1>4. AbsenceIsTheSessions' /\ JumpsAreTheSessions' /\ Counted'
  <2>1. AbsenceIsTheSessions /\ JumpsAreTheSessions /\ Counted
    BY DEF SessionInv, Told
  <2>2. AbsenceIsTheSessions'
    BY <2>1 DEF AbsenceIsTheSessions, Before
  <2>3. Counted'
    BY <2>1 DEF Counted, CrossingsCountedOnce, Crossings, Before
  <2>4. emitted' = emitted
    OBVIOUS
  <2>5. JumpsAreTheSessions'
    <3> DEFINE Far(i, t) == \A j \in Placing(i, t) :
                              (\A k \in Placing(i, t) : k <= j) =>
                                Distance(emitted[i].position[t], emitted[j].position[t]) > Jump
               Both(i) == {t \in DOMAIN emitted[i].position : Placing(i, t) # {}}
    <3>1. \A i : (\A t : Placing(i, t)' = Placing(i, t) /\ (Far(i, t)' <=> Far(i, t))) /\ Both(i)' = Both(i)
      BY <2>4 DEF Placing, Before
    <3>2. \A i \in 1..Len(emitted) : emitted[i].followsDiscontinuity <=>
            Jump > 0 /\ Cardinality(Both(i)) >= 2 /\ \A t \in Both(i) : Far(i, t)
      BY <2>1 DEF JumpsAreTheSessions
    <3>3. \A i \in 1..Len(emitted') : emitted'[i].followsDiscontinuity <=>
            Jump > 0 /\ Cardinality(Both(i)') >= 2 /\ \A t \in Both(i)' : Far(i, t)'
      <4> HIDE DEF Far, Both
      <4> QED BY <2>4, <3>1, <3>2
    <3> QED BY <3>3 DEF JumpsAreTheSessions
  <2> QED BY <2>2, <2>3, <2>5
<1>5. RestartsAnnounced'
  <2>1. \A i \in 1..Len(emitted) : emitted[i].session \in restarted' <=> emitted[i].session \in restarted
    BY <1>1 DEF NextOf
  <2>2. \A i \in 1..Len(emitted) : Before(i)' = Before(i)
    BY DEF Before
  <2>3. RestartsAnnounced
    BY DEF SessionInv, Told
  <2> QED BY <2>1, <2>2, <2>3 DEF RestartsAnnounced
<1>6. session' = session => Current' = Current
  BY DEF Current
<1>7. session' = session + 1 => Current' = {}
  BY <1>1 DEF Current
<1> QED BY <1>3, <1>4, <1>5, <1>6, <1>7 DEF Told, SessionInv, StreamType

-----------------------------------------------------------------------------
(* What is remembered, when the frame is learnt and when a session is forgotten. *)

Rest == RigType /\ Remembered /\ Placed /\ Marked

LEMMA ForgottenRest ==
  ASSUME lastSeen' = Empty, reportedStale' = {}, lastPosition' = Empty, Current' = {}
  PROVE  Rest'
<1>0. DOMAIN lastPosition' = {}
  BY DEF Empty
<1>1. DOMAIN lastSeen' = {} /\ lastSeen' \in [{} -> Nat]
  BY DEF Empty
<1>2. lastSeen' \in Tables(Trackers, Nat)
  BY <1>1 DEF Tables
<1> QED BY <1>0, <1>1, <1>2, FS_EmptySet DEF Rest, RigType, Remembered, Placed, Marked

LEMMA StillRest ==
  ASSUME SessionInv, UNCHANGED <<rig, emitted>>, Current' = Current
  PROVE  Rest'
<1>1. Rest
  BY DEF SessionInv, Held, Rest
<1>2. RigType' /\ Marked'
  BY <1>1 DEF Rest, RigType, Marked, rig
<1>3. Remembered' /\ Placed'
  BY <1>1 DEF Rest, Remembered, Placed, rig
<1> QED BY <1>2, <1>3 DEF Rest

LEMMA LearntRest ==
  ASSUME SessionInv, Emits, Learn, Current' = Current \cup {Len(emitted) + 1}
  PROVE  Rest'
<1>n. PICK n : n = Len(emitted) + 1
  OBVIOUS
<1>1. /\ emitted'[n] = Closing /\ \A j \in Current : emitted'[j] = emitted[j] /\ emitted[j] \in ClosedFrames
      /\ Current' = Current \cup {n} /\ Len(emitted') = n
  BY <1>n, EmittedFacts DEF Current
<1>2. /\ Closing.carried = Carried /\ Closing.receiveTime = frame.receiveTime
      /\ Closing.stale = Stale /\ Closing.missing = Missing
  BY DEF Closing
<1>3. IsFiniteSet(Carried) /\ Carried \subseteq Trackers /\ frame.receiveTime \in Nat
  BY CarriedFacts DEF SessionInv, Held, Emits
<1>4. /\ DOMAIN lastSeen \subseteq Trackers /\ IsFiniteSet(DOMAIN lastSeen)
      /\ \A t \in DOMAIN lastSeen : lastSeen[t] \in Nat
  BY DEF SessionInv, Held, RigType, Tables
<1>5. /\ DOMAIN lastSeen' = Carried \cup DOMAIN lastSeen
      /\ lastSeen' = [t \in Carried \cup DOMAIN lastSeen |->
                        IF t \in Carried THEN frame.receiveTime ELSE lastSeen[t]]
  BY DEF Learn, Over
<1>6. RigType'
  <2>1. lastSeen' \in [Carried \cup DOMAIN lastSeen -> Nat]
    BY <1>3, <1>4, <1>5
  <2>2. Carried \cup DOMAIN lastSeen \in SUBSET Trackers
    BY <1>3, <1>4
  <2>3. IsFiniteSet(Carried \cup DOMAIN lastSeen)
    BY <1>3, <1>4, FS_Union
  <2> QED BY <1>5, <2>1, <2>2, <2>3 DEF RigType, Tables
<1>7. Remembered'
  <2>1. DOMAIN lastSeen = UNION {emitted[j].carried : j \in Current}
    BY DEF SessionInv, Held, Remembered
  <2>2. /\ \A j \in Current : emitted'[j].carried = emitted[j].carried
                              /\ emitted'[j].receiveTime = emitted[j].receiveTime
        /\ emitted'[n].carried = Carried /\ emitted'[n].receiveTime = frame.receiveTime
    BY <1>1, <1>2
  <2>3. DOMAIN lastSeen' = UNION {emitted'[j].carried : j \in Current'}
    BY <1>1, <1>5, <2>1, <2>2
  <2>4. ASSUME NEW t \in DOMAIN lastSeen'
        PROVE  \E j \in Current' : t \in emitted'[j].carried /\ lastSeen'[t] = emitted'[j].receiveTime
    <3>1. CASE t \in Carried
      BY <1>1, <1>5, <2>2, <3>1
    <3>2. CASE t \notin Carried
      <4>1. PICK j \in Current : t \in emitted[j].carried /\ lastSeen[t] = emitted[j].receiveTime
        BY <1>5, <3>2 DEF SessionInv, Held, Remembered
      <4> QED BY <1>1, <1>5, <2>2, <3>2, <4>1
    <3> QED BY <3>1, <3>2
  <2>5. ASSUME NEW j \in Current', NEW t \in emitted'[j].carried
        PROVE  emitted'[j].receiveTime <= lastSeen'[t]
    <3>1. CASE j = n
      BY <1>3, <1>5, <2>2, <3>1
    <3>2. CASE j \in Current
      <4>1. t \in DOMAIN lastSeen /\ emitted[j].receiveTime <= lastSeen[t]
        BY <2>1, <2>2, <3>2 DEF SessionInv, Held, Remembered
      <4>2. emitted[j].receiveTime <= frame.receiveTime
        BY <3>2 DEF SessionInv, Held, Clocked, Emits
      <4> QED BY <1>5, <2>2, <3>2, <4>1, <4>2
    <3> QED BY <1>1, <3>1, <3>2
  <2> QED BY <2>3, <2>4, <2>5 DEF Remembered
<1>8. Marked'
  <2>1. reportedStale \ Carried \subseteq Stale
    <3>1. CASE Current = {}
      BY <3>1 DEF SessionInv, Held, Marked
    <3>2. CASE Current # {}
      <4> DEFINE last == Len(emitted)
      <4>1. /\ last \in Current /\ last \in 1..Len(emitted) /\ reportedStale = emitted[last].stale
            /\ \A j \in Current : j <= last /\ j \in Nat
        BY <3>2, NewestIsLast DEF SessionInv, Held, Marked, Current
      <4> HIDE DEF last
      <4> SUFFICES ASSUME NEW t \in reportedStale, t \notin Carried PROVE t \in Stale
        OBVIOUS
      <4>2. /\ emitted[last].missing = (UNION {emitted[j].carried : j \in Before(last)}) \ emitted[last].carried
            /\ emitted[last].stale =
                 {u \in emitted[last].missing :
                    /\ Staleness > 0
                    /\ \A j \in Before(last) : u \in emitted[j].carried =>
                         emitted[last].receiveTime - emitted[j].receiveTime >= Staleness}
        <5>1. AbsenceIsTheSessions
          BY DEF SessionInv, Told
        <5> QED BY <4>1, <5>1 DEF AbsenceIsTheSessions
      <4>3. Staleness > 0 /\ t \notin emitted[last].carried /\ t \in emitted[last].missing
        <5>1. t \in emitted[last].stale
          BY <4>1
        <5>2. t \in emitted[last].missing /\ Staleness > 0
          BY <4>2, <5>1
        <5> QED BY <4>2, <5>2
      <4>4. Before(last) = Current \ {last}
        BY <4>1 DEF Before, Current
      <4>5. t \in DOMAIN lastSeen
        BY <4>2, <4>3, <4>4 DEF SessionInv, Held, Remembered
      <4>6. PICK j \in Current : t \in emitted[j].carried /\ lastSeen[t] = emitted[j].receiveTime
        BY <4>5 DEF SessionInv, Held, Remembered
      <4>7. emitted[last].receiveTime - emitted[j].receiveTime >= Staleness
        BY <4>1, <4>2, <4>3, <4>4, <4>6
      <4>8. emitted[last].receiveTime <= frame.receiveTime
        BY <4>1 DEF SessionInv, Held, Clocked, Emits
      <4>9. emitted[last].receiveTime \in Nat /\ emitted[j].receiveTime \in Nat /\ Staleness \in Nat
        BY <1>1, <4>1, ConfigAssumption DEF ClosedFrames
      <4>10. frame.receiveTime - lastSeen[t] >= Staleness
        BY <1>3, <4>6, <4>7, <4>8, <4>9
      <4> QED BY <4>3, <4>5, <4>10 DEF Stale, Missing
    <3> QED BY <3>1, <3>2
  <2>2. reportedStale' = Stale
    BY <2>1 DEF Learn, ReportedAfter
  <2> QED BY <1>1, <1>2, <2>2 DEF Marked
<1>9. Placed'
  <2>1. /\ \A j \in Current : emitted'[j].position = emitted[j].position /\ j <= n /\ j \in Nat
        /\ emitted'[n].position = frame.position /\ n \in Nat
    <3>1. Closing.position = frame.position
      BY DEF Closing
    <3>2. Len(emitted) \in Nat
      BY EmittedFacts
    <3>3. \A j \in Current : j <= n /\ j \in Nat
      BY <1>n, <3>2 DEF Current
    <3> QED BY <1>n, <1>1, <3>1, <3>2, <3>3
  <2>2. /\ DOMAIN lastPosition' = DOMAIN frame.position \cup DOMAIN lastPosition
        /\ \A t \in DOMAIN lastPosition' :
             lastPosition'[t] = IF t \in DOMAIN frame.position THEN frame.position[t]
                                ELSE lastPosition[t]
    BY DEF Learn, Over
  <2>3. Placed
    BY DEF SessionInv, Held
  <2>4. \A j \in Current' : DOMAIN emitted'[j].position \subseteq DOMAIN lastPosition'
    BY <1>1, <2>1, <2>2, <2>3 DEF Placed
  <2>5. ASSUME NEW t \in DOMAIN lastPosition'
        PROVE  \E j \in Current' :
                 /\ t \in DOMAIN emitted'[j].position /\ lastPosition'[t] = emitted'[j].position[t]
                 /\ \A k \in Current' : t \in DOMAIN emitted'[k].position => k <= j
    <3>1. CASE t \in DOMAIN frame.position
      BY <1>1, <2>1, <2>2, <3>1
    <3>2. CASE t \notin DOMAIN frame.position
      <4>1. PICK j \in Current :
              /\ t \in DOMAIN emitted[j].position /\ lastPosition[t] = emitted[j].position[t]
              /\ \A k \in Current : t \in DOMAIN emitted[k].position => k <= j
        BY <2>2, <2>3, <3>2 DEF Placed
      <4> QED BY <1>1, <2>1, <2>2, <3>2, <4>1
    <3> QED BY <3>1, <3>2
  <2> QED BY <2>4, <2>5 DEF Placed
<1> QED BY <1>6, <1>7, <1>8, <1>9 DEF Rest

-----------------------------------------------------------------------------
(* The steps.                                                               *)

LEMMA TablesWritten ==
  ASSUME NEW S, NEW T, NEW old \in Tables(S, T), NEW k \in S, NEW v \in T
  PROVE  /\ Over([x \in {k} |-> v], old) \in Tables(S, T)
         /\ DOMAIN Over([x \in {k} |-> v], old) = {k} \cup DOMAIN old
<1> DEFINE one == [x \in {k} |-> v]
<1>1. PICK R \in SUBSET S : old \in [R -> T]
  BY DEF Tables
<1>2. DOMAIN one = {k} /\ one[k] = v
  OBVIOUS
<1>3. Over(one, old) \in [{k} \cup R -> T] /\ DOMAIN Over(one, old) = {k} \cup DOMAIN old
  BY <1>1, <1>2 DEF Over
<1>4. {k} \cup R \in SUBSET S
  BY <1>1
<1> QED BY <1>3, <1>4 DEF Tables

LEMMA MessageFacts ==
  ASSUME StreamType, messages # <<>>
  PROVE  /\ Message \in Sent /\ Message.tracker \in Trackers /\ Message.value \in Values
         /\ Tail(messages) \in Seq(Sent) /\ lastArrival \in Nat /\ lastArrival # None
         /\ Readable => Key \in Keys
<1>1. messages \in Seq(Sent) /\ lastArrival # None /\ lastArrival \in Nat \cup {None}
  BY DEF StreamType
<1>2. Message \in Sent /\ Tail(messages) \in Seq(Sent)
  BY <1>1 DEF Message
<1>3. Message.tracker \in Trackers /\ Message.value \in Values
  BY <1>2 DEF Trackers, Values
<1> QED BY <1>1, <1>2, <1>3 DEF Readable, Key, Keys

LEMMA PacketFacts ==
  ASSUME NEW p \in Packets
  PROVE  p \in Seq(Sent)
<1>1. p \in Seq({p[i] : i \in 1..Len(p)})
  BY InputAssumption
<1>2. {p[i] : i \in 1..Len(p)} \subseteq Sent
  BY DEF Sent
<1>3. \A i \in 1..Len(p) : p[i] \in Sent
  BY <1>2
<1> QED BY <1>1, <1>3

\* A step that neither opens nor closes a frame and stays in the session.
LEMMA SessionStays ==
  ASSUME SessionInv, UNCHANGED <<frame, rig, emitted, stalenessCrossings>>,
         UNCHANGED <<pendingNewSession, session, restarted>>,
         lastArrival' \in Nat \cup {None}, from' \in Senders, packetSerial' \in Nat,
         messages' \in Seq(Sent), messages' # <<>> => lastArrival' # None,
         lastArrival' = lastArrival \/ (lastArrival' # None /\ (lastArrival # None => lastArrival <= lastArrival'))
  PROVE  SessionInv'
<1>1. /\ SessionsAdvance' /\ Told' /\ emitted' \in Seq(ClosedFrames) /\ stalenessCrossings' \in Nat
      /\ Current' = Current
  BY HistoryStays DEF NextOf
<1>2. Rest'
  BY <1>1, StillRest
<1>3. StreamType'
  BY <1>1 DEF SessionInv, StreamType
<1>4. Announcing'
  BY <1>1 DEF SessionInv, Held, Announcing
<1>5. \A j \in Current : emitted[j].receiveTime \in Nat
  BY EmittedTypes DEF Current, SessionInv
<1>6. FrameType'
  <2>1. CASE frame = NoFrame
    BY <2>1 DEF FrameType
  <2>2. CASE frame # NoFrame
    <3>1. /\ frame \in OpenFrames /\ IsFiniteSet(Carried) /\ frame.receiveTime \in Nat
          /\ lastArrival # None /\ frame.receiveTime <= lastArrival /\ lastArrival \in Nat
      BY <2>2, CarriedFacts DEF SessionInv, Held, StreamType
    <3>2. lastArrival' # None /\ frame.receiveTime <= lastArrival'
      BY <3>1
    <3>3. IsFiniteSet(Carried')
      BY <3>1 DEF Carried
    <3> QED BY <3>1, <3>2, <3>3 DEF FrameType
  <2> QED BY <2>1, <2>2
<1>7. Clocked'
  <2>1. ASSUME NEW j \in Current
        PROVE  /\ lastArrival' # None /\ emitted[j].receiveTime <= lastArrival'
               /\ frame # NoFrame => emitted[j].receiveTime <= frame.receiveTime
    <3>1. /\ lastArrival # None /\ emitted[j].receiveTime <= lastArrival
          /\ frame # NoFrame => emitted[j].receiveTime <= frame.receiveTime
      BY DEF SessionInv, Held, Clocked
    <3>2. lastArrival \in Nat
      BY <3>1 DEF SessionInv, StreamType
    <3> QED BY <1>5, <3>1, <3>2
  <2> QED BY <1>1, <2>1 DEF Clocked
<1> QED BY <1>1, <1>2, <1>3, <1>4, <1>6, <1>7 DEF SessionInv, Held, Rest

\* A frame that is closed and learnt, and none or a new one opens after it, at
\* what the clock now says.
LEMMA FrameCloses ==
  ASSUME SessionInv, Emits, Learn, UNCHANGED <<session, restarted>>,
         lastArrival' \in Nat, lastArrival <= lastArrival',
         from' \in Senders, packetSerial' \in Nat, messages' \in Seq(Sent),
         pendingNewSession' = FALSE, FrameType',
         frame' # NoFrame => frame'.beginsNewSession = FALSE /\ frame'.receiveTime = lastArrival'
  PROVE  SessionInv'
<1>1. /\ SessionsAdvance' /\ Told' /\ emitted' \in Seq(ClosedFrames) /\ stalenessCrossings' \in Nat
      /\ Current' = Current \cup {Len(emitted) + 1}
  BY HistoryGrows DEF NextOf
<1>2. Rest'
  BY <1>1, LearntRest
<1>3. lastArrival' # None
  BY InputAssumption
<1>4. StreamType'
  BY <1>1, <1>3 DEF SessionInv, StreamType
<1>5. Announcing'
  BY <1>1 DEF Announcing
<1>6. Clocked'
  <2>1. /\ emitted'[Len(emitted) + 1].receiveTime = frame.receiveTime
        /\ \A j \in Current : emitted'[j] = emitted[j]
    BY EmittedFacts DEF Closing, Current
  <2>2. frame.receiveTime \in Nat /\ frame.receiveTime <= lastArrival /\ lastArrival \in Nat
    BY CarriedFacts DEF SessionInv, Held, Emits, StreamType
  <2>3. \A j \in Current : emitted[j].receiveTime \in Nat /\ emitted[j].receiveTime <= lastArrival
    BY EmittedTypes DEF Current, SessionInv, Held, Clocked
  <2>4. ASSUME NEW j \in Current'
        PROVE  emitted'[j].receiveTime <= lastArrival'
    <3>1. emitted'[j].receiveTime \in Nat /\ emitted'[j].receiveTime <= lastArrival
      BY <1>1, <2>1, <2>2, <2>3
    <3> QED BY <2>2, <3>1
  <2> QED BY <1>3, <2>4 DEF Clocked
<1> QED BY <1>1, <1>2, <1>4, <1>5, <1>6 DEF SessionInv, Held, Rest

LEMMA ClockAdvances ==
  ASSUME SessionInv, NEW time \in Times
  PROVE  /\ time \in Nat /\ time # None
         /\ lastArrival # None => lastArrival \in Nat /\ lastArrival <= time
<1>1. lastArrival \in Nat \cup {None} /\ Advances \subseteq Nat /\ None \notin Nat
  BY InputAssumption DEF SessionInv, StreamType
<1>2. PICK d \in Advances : time = (IF lastArrival = None THEN 0 ELSE lastArrival) + d
  BY DEF Times
<1> QED BY <1>1, <1>2

\* A session that begins with nothing remembered.
LEMMA SessionBegins ==
  ASSUME SessionInv, Emits \/ UNCHANGED <<emitted, stalenessCrossings>>, NextOf(session + 1),
         frame' = NoFrame, lastSeen' = Empty, reportedStale' = {}, lastPosition' = Empty,
         pendingNewSession' \in BOOLEAN, pendingNewSession' <=> session + 1 \in restarted',
         lastArrival' \in Nat \cup {None}, from' \in Senders, packetSerial' \in Nat,
         messages' \in Seq(Sent), messages' # <<>> => lastArrival' # None
  PROVE  SessionInv'
<1>1. /\ SessionsAdvance' /\ Told' /\ emitted' \in Seq(ClosedFrames) /\ stalenessCrossings' \in Nat
      /\ Current' = {} /\ session' = session + 1
  <2>1. session' = session + 1
    BY DEF NextOf
  <2> QED BY <2>1, HistoryGrows, HistoryStays
<1>2. Rest'
  BY <1>1, ForgottenRest
<1>3. session \in Nat /\ \A s \in restarted : s \in Nat /\ s <= session
  BY DEF SessionInv, StreamType
<1>4. \A s \in restarted' : s \in Nat /\ s <= session'
  BY <1>1, <1>3 DEF NextOf
<1>5. StreamType'
  BY <1>1, <1>3, <1>4 DEF StreamType
<1>6. Announcing' /\ Clocked' /\ FrameType'
  BY <1>1 DEF Announcing, Clocked, FrameType
<1> QED BY <1>1, <1>2, <1>5, <1>6 DEF SessionInv, Held, Rest

LEMMA PushBegins ==
  ASSUME SessionInv, NEW p \in Packets, NEW sender \in Senders, NEW time \in Times,
         PushBegin(p, sender, time)
  PROVE  SessionInv'
<1>1. /\ packetSerial' = packetSerial + 1 /\ messages' = p /\ from' = sender /\ lastArrival' = time
      /\ packetSerial \in Nat /\ p \in Seq(Sent)
  BY PacketFacts DEF PushBegin, SessionInv, StreamType
<1>2. time \in Nat /\ time # None /\ (lastArrival # None => lastArrival \in Nat /\ lastArrival <= time)
  BY ClockAdvances
<1>3. CASE PushRestart
  <2>1. Emits \/ UNCHANGED <<emitted, stalenessCrossings>>
    BY <1>3, EmitFrameEmits DEF PushRestart, closings
  <2>2. /\ frame' = NoFrame /\ lastSeen' = Empty /\ reportedStale' = {} /\ lastPosition' = Empty
        /\ pendingNewSession' = TRUE
        /\ session' = session + 1 /\ restarted' = restarted \cup {session + 1}
    BY <1>3 DEF PushRestart
  <2> QED BY <1>1, <1>2, <2>1, <2>2, SessionBegins DEF NextOf
<1>4. CASE Gap(time) /\ PushLate
  <2>1. frame # NoFrame /\ frame' = NoFrame /\ Learn /\ UNCHANGED <<pendingNewSession, session, restarted>>
    BY <1>4 DEF Gap, PushLate
  <2>2. Emits
    BY <1>4, <2>1, EmitFrameEmits DEF PushLate
  <2>3. ~pendingNewSession
    BY <2>1 DEF SessionInv, Held, Announcing
  <2>4. lastArrival # None
    BY <2>1, CarriedFacts DEF SessionInv, Held
  <2>5. FrameType' /\ pendingNewSession' = FALSE
    BY <2>1, <2>3 DEF FrameType, SessionInv, StreamType
  <2>6. /\ lastArrival' \in Nat /\ lastArrival <= lastArrival' /\ from' \in Senders
        /\ packetSerial' \in Nat /\ messages' \in Seq(Sent)
    BY <1>1, <1>2, <2>4
  <2> QED BY <2>1, <2>2, <2>5, <2>6, FrameCloses
<1>5. CASE UNCHANGED <<frame, rig, closings, sessionRestarts, pendingNewSession, session, restarted>>
  BY <1>1, <1>2, <1>5, SessionStays DEF closings
<1> QED BY <1>3, <1>4, <1>5 DEF PushBegin

LEMMA MessagePasses ==
  ASSUME SessionInv, MessageUnreadable \/ MessageDuplicate \/ (MessageNotFinite /\ ~ComesRound)
  PROVE  SessionInv'
<1>1. /\ messages # <<>> /\ messages' = Tail(messages)
      /\ UNCHANGED <<frame, rig, closings, pendingNewSession, stream, session, restarted>>
  BY DEF MessageUnreadable, MessageDuplicate, MessageNotFinite, MessageDone, CloseOnRepeat
<1>2. Tail(messages) \in Seq(Sent) /\ lastArrival # None
  BY <1>1, MessageFacts DEF SessionInv
<1>3. lastArrival \in Nat \cup {None} /\ from \in Senders /\ packetSerial \in Nat
  BY DEF SessionInv, StreamType
<1> QED BY <1>1, <1>2, <1>3, SessionStays DEF closings, stream

\* The frame that a message comes round in, closed by it.
LEMMA MessageCloses ==
  ASSUME SessionInv, messages # <<>>, ComesRound, CloseOnRepeat
  PROVE  /\ Emits /\ Learn /\ pendingNewSession = FALSE
         /\ frame # NoFrame /\ lastArrival \in Nat
<1>1. frame # NoFrame /\ EmitFrame("repeat") /\ Learn
  BY DEF ComesRound, InFrame, CloseOnRepeat
<1>2. Emits
  BY <1>1, EmitFrameEmits
<1>3. pendingNewSession = FALSE
  BY <1>1 DEF SessionInv, Held, Announcing, StreamType
<1> QED BY <1>1, <1>2, <1>3, MessageFacts DEF SessionInv

LEMMA NotFiniteCloses ==
  ASSUME SessionInv, MessageNotFinite, ComesRound
  PROVE  SessionInv'
<1>1. /\ messages # <<>> /\ messages' = Tail(messages) /\ frame' = NoFrame /\ CloseOnRepeat
      /\ UNCHANGED <<pendingNewSession, stream, session, restarted>>
  BY DEF MessageNotFinite, MessageDone
<1>2. Emits /\ Learn /\ pendingNewSession = FALSE /\ lastArrival \in Nat
  BY <1>1, MessageCloses
<1>3. Tail(messages) \in Seq(Sent)
  BY <1>1, MessageFacts DEF SessionInv
<1>4. from \in Senders /\ packetSerial \in Nat
  BY DEF SessionInv, StreamType
<1>5. FrameType'
  BY <1>1 DEF FrameType
<1>6. /\ lastArrival' \in Nat /\ lastArrival <= lastArrival' /\ from' \in Senders /\ packetSerial' \in Nat
      /\ messages' \in Seq(Sent) /\ UNCHANGED <<session, restarted>> /\ pendingNewSession' = FALSE
  BY <1>1, <1>2, <1>3, <1>4 DEF stream
<1> QED BY <1>1, <1>2, <1>5, <1>6, FrameCloses

\* The frame a message is accepted into.
LEMMA AcceptedInto ==
  ASSUME SessionInv, messages # <<>>, Readable, NEW base \in OpenFrames,
         NEW now, now = [base EXCEPT
                           !.channels = Over([key \in {Key} |-> packetSerial], @),
                           !.position = IF Message.channel = "position"
                                        THEN Over([t \in {Message.tracker} |-> Message.value], @)
                                        ELSE @]
  PROVE  /\ now \in OpenFrames /\ now # NoFrame
         /\ now.receiveTime = base.receiveTime /\ now.beginsNewSession = base.beginsNewSession
         /\ DOMAIN now.channels = {Key} \cup DOMAIN base.channels
<1>1. /\ Key \in Keys /\ Message.tracker \in Trackers /\ Message.value \in Values /\ packetSerial \in Nat
  BY MessageFacts DEF SessionInv, StreamType
<1>2. base.channels \in Tables(Keys, Nat) /\ base.position \in Tables(Trackers, Values)
  BY DEF OpenFrames
<1> DEFINE c == Over([key \in {Key} |-> packetSerial], base.channels)
           q == IF Message.channel = "position"
                THEN Over([t \in {Message.tracker} |-> Message.value], base.position)
                ELSE base.position
<1>3. c \in Tables(Keys, Nat) /\ DOMAIN c = {Key} \cup DOMAIN base.channels
  <2>1. c \in Tables(Keys, Nat)
    BY <1>1, <1>2, TablesWritten
  <2>2. DOMAIN c = {Key} \cup DOMAIN base.channels
    BY DEF Over
  <2> QED BY <2>1, <2>2
<1>4. q \in Tables(Trackers, Values)
  BY <1>1, <1>2, TablesWritten
<1>5. now = [base EXCEPT !.channels = c, !.position = q]
  OBVIOUS
<1> HIDE DEF c, q
<1>6. /\ now.receiveTime = base.receiveTime /\ now.beginsNewSession = base.beginsNewSession
      /\ now.channels = c /\ now \in OpenFrames
  BY <1>3, <1>4, <1>5 DEF OpenFrames
<1> QED BY <1>3, <1>6, OpenFrameFacts

LEMMA OpenedFacts ==
  ASSUME SessionInv, messages # <<>>
  PROVE  /\ Opened \in OpenFrames /\ Opened.receiveTime = lastArrival
         /\ Opened.beginsNewSession = pendingNewSession /\ DOMAIN Opened.channels = {}
<1>1. lastArrival \in Nat /\ from \in Senders /\ pendingNewSession \in BOOLEAN
  BY MessageFacts DEF SessionInv, StreamType
<1>2. DOMAIN Empty = {} /\ Empty \in [{} -> Nat] /\ Empty \in [{} -> Values]
  BY DEF Empty
<1>3. Empty \in Tables(Keys, Nat) /\ Empty \in Tables(Trackers, Values)
  BY <1>2 DEF Tables
<1> QED BY <1>1, <1>2, <1>3 DEF Opened, OpenFrames

LEMMA MessageAccepts ==
  ASSUME SessionInv, MessageAccepted
  PROVE  SessionInv'
<1>1. /\ messages # <<>> /\ Readable /\ CloseOnRepeat /\ messages' = Tail(messages)
      /\ UNCHANGED <<stream, session, restarted>>
  BY DEF MessageAccepted, MessageDone
<1> DEFINE opens == frame = NoFrame \/ ComesRound
<1>2. PICK base : /\ base = IF opens THEN Opened ELSE frame
                  /\ frame' = [base EXCEPT
                                !.channels = Over([key \in {Key} |-> packetSerial], @),
                                !.position = IF Message.channel = "position"
                                             THEN Over([t \in {Message.tracker} |-> Message.value], @)
                                             ELSE @]
                  /\ pendingNewSession' = (pendingNewSession /\ ~opens)
  BY DEF MessageAccepted, PendingAfter
<1>3. base \in OpenFrames
  BY <1>1, <1>2, OpenedFacts DEF SessionInv, Held, FrameType
<1>4. /\ frame' \in OpenFrames /\ frame' # NoFrame
      /\ frame'.receiveTime = base.receiveTime /\ frame'.beginsNewSession = base.beginsNewSession
      /\ DOMAIN frame'.channels = {Key} \cup DOMAIN base.channels
  BY <1>1, <1>2, <1>3, AcceptedInto
<1>5. /\ lastArrival \in Nat /\ lastArrival # None /\ lastArrival' = lastArrival
      /\ from' \in Senders /\ packetSerial' \in Nat /\ Tail(messages) \in Seq(Sent)
      /\ pendingNewSession \in BOOLEAN
  BY <1>1, MessageFacts DEF SessionInv, StreamType, stream
<1>6. Carried' = {Key[1]} \cup {key[1] : key \in DOMAIN base.channels}
  BY <1>4 DEF Carried
<1>7. IsFiniteSet(Carried') /\ frame'.receiveTime <= lastArrival'
  <2>1. CASE opens
    <3>1. base = Opened
      BY <1>2, <2>1
    <3>2. Carried' = {Key[1]} /\ frame'.receiveTime = lastArrival
      BY <1>1, <1>4, <1>6, <3>1, OpenedFacts
    <3>3. IsFiniteSet({Key[1]})
      BY FS_Singleton
    <3>4. IsFiniteSet(Carried')
      BY <3>2, <3>3
    <3>5. frame'.receiveTime <= lastArrival'
      BY <1>5, <3>2
    <3> QED BY <3>4, <3>5
  <2>2. CASE ~opens
    <3>1. base = frame /\ frame # NoFrame
      BY <1>2, <2>2
    <3>2. IsFiniteSet(Carried) /\ frame.receiveTime <= lastArrival
      BY <3>1, CarriedFacts DEF SessionInv, Held
    <3>3. Carried' = Carried \cup {Key[1]}
      BY <1>6, <3>1 DEF Carried
    <3> QED BY <1>4, <1>5, <3>1, <3>2, <3>3, FS_AddElement
  <2> QED BY <2>1, <2>2
<1>8. FrameType'
  BY <1>4, <1>5, <1>7 DEF FrameType
<1>9. CASE ComesRound
  <2>1. Emits /\ Learn /\ pendingNewSession = FALSE
    BY <1>1, <1>9, MessageCloses
  <2>2. frame'.beginsNewSession = FALSE /\ frame'.receiveTime = lastArrival' /\ pendingNewSession' = FALSE
    BY <1>1, <1>2, <1>4, <1>5, <1>9, <2>1, OpenedFacts
  <2>3. lastArrival' \in Nat /\ lastArrival <= lastArrival' /\ messages' \in Seq(Sent)
    BY <1>1, <1>5
  <2>4. UNCHANGED <<session, restarted>>
    BY <1>1
  <2> QED BY <1>5, <1>8, <2>1, <2>2, <2>3, <2>4, FrameCloses
<1>10. CASE ~ComesRound
  <2>1. UNCHANGED <<rig, emitted, stalenessCrossings, session, restarted>>
    BY <1>1, <1>10 DEF CloseOnRepeat, closings
  <2>2. /\ SessionsAdvance' /\ Told' /\ emitted' \in Seq(ClosedFrames) /\ stalenessCrossings' \in Nat
        /\ Current' = Current
    BY <2>1, HistoryStays DEF NextOf
  <2>3. Rest'
    BY <2>1, <2>2, StillRest
  <2>4. StreamType'
    <3>1. pendingNewSession' \in BOOLEAN
      BY <1>2
    <3> QED BY <1>1, <1>5, <2>1, <2>2, <3>1 DEF SessionInv, StreamType
  <2>5. Announcing'
    <3>1. CASE frame = NoFrame
      BY <1>1, <1>2, <1>4, <1>5, <2>1, <2>2, <3>1, OpenedFacts DEF SessionInv, Held, Announcing
    <3>2. CASE frame # NoFrame
      BY <1>2, <1>4, <1>10, <2>1, <2>2, <3>2 DEF SessionInv, Held, Announcing
    <3> QED BY <3>1, <3>2
  <2>6. Clocked'
    <3>1. ASSUME NEW j \in Current
          PROVE  emitted[j].receiveTime <= lastArrival /\ emitted[j].receiveTime <= frame'.receiveTime
      <4>1. /\ emitted[j].receiveTime <= lastArrival
            /\ frame # NoFrame => emitted[j].receiveTime <= frame.receiveTime
        BY DEF SessionInv, Held, Clocked
      <4>2. CASE frame = NoFrame
        BY <1>1, <1>2, <1>4, <4>1, <4>2, OpenedFacts
      <4>3. CASE frame # NoFrame
        BY <1>2, <1>4, <1>10, <4>1, <4>3
      <4> QED BY <4>1, <4>2, <4>3
    <3> QED BY <1>5, <2>1, <2>2, <3>1 DEF Clocked
  <2> QED BY <1>8, <2>2, <2>3, <2>4, <2>5, <2>6 DEF SessionInv, Held, Rest
<1> QED BY <1>9, <1>10

LEMMA Flushes ==
  ASSUME SessionInv, Flush
  PROVE  SessionInv'
<1>1. /\ frame # NoFrame /\ EmitFrame("flush") /\ Learn /\ frame' = NoFrame
      /\ UNCHANGED <<stream, pendingNewSession, messages, session, restarted>>
  BY DEF Flush
<1>2. Emits
  BY <1>1, EmitFrameEmits
<1>3. lastArrival \in Nat
  BY <1>1, CarriedFacts DEF SessionInv, Held, StreamType
<1>4. FrameType'
  BY <1>1 DEF FrameType
<1>5. /\ lastArrival' \in Nat /\ lastArrival <= lastArrival' /\ from' \in Senders
      /\ packetSerial' \in Nat /\ messages' \in Seq(Sent) /\ UNCHANGED <<session, restarted>>
      /\ pendingNewSession' = FALSE
  BY <1>1, <1>3 DEF SessionInv, Held, Announcing, StreamType, stream
<1> QED BY <1>1, <1>2, <1>4, <1>5, FrameCloses

LEMMA Resets ==
  ASSUME SessionInv, Reset
  PROVE  SessionInv'
<1>1. /\ messages = <<>> /\ frame' = NoFrame /\ lastSeen' = Empty /\ reportedStale' = {}
      /\ lastPosition' = Empty /\ lastArrival' = None /\ pendingNewSession' = FALSE /\ session' = session + 1
      /\ UNCHANGED <<packetSerial, from, messages, restarted, emitted, stalenessCrossings>>
  BY DEF Reset, closings
<1>2. session + 1 \notin restarted
  BY DEF SessionInv, StreamType
<1>3. /\ from' \in Senders /\ packetSerial' \in Nat /\ messages' \in Seq(Sent)
      /\ lastArrival' \in Nat \cup {None} /\ messages' = <<>>
  BY <1>1 DEF SessionInv, StreamType
<1> QED BY <1>1, <1>2, <1>3, SessionBegins DEF NextOf

LEMMA SessionStep ==
  ASSUME SessionInv, [Next]_vars
  PROVE  SessionInv'
<1>1. CASE UNCHANGED vars
  <2>1. UNCHANGED <<frame, rig, emitted, stalenessCrossings, pendingNewSession,
                    session, restarted, lastArrival, from, packetSerial, messages>>
    BY <1>1 DEF vars, stream, closings
  <2>2. /\ lastArrival \in Nat \cup {None} /\ from \in Senders /\ packetSerial \in Nat
        /\ messages \in Seq(Sent) /\ (messages # <<>> => lastArrival # None)
    BY DEF SessionInv, StreamType
  <2> QED BY <2>1, <2>2, SessionStays
<1>2. ASSUME NEW p \in Packets, NEW sender \in Peers \cup {NoPeer}, NEW time \in Times,
             PushBegin(p, sender, time)
      PROVE  SessionInv'
  BY <1>2, PushBegins DEF Senders
<1>3. CASE PushMessage
  BY <1>3, MessagePasses, NotFiniteCloses, MessageAccepts DEF PushMessage
<1>4. CASE Flush
  BY <1>4, Flushes
<1>5. CASE Reset
  BY <1>5, Resets
<1> QED BY <1>1, <1>2, <1>3, <1>4, <1>5 DEF Next

LEMMA SessionInit ==
  ASSUME Init
  PROVE  SessionInv
<1>1. /\ Len(emitted) = 0 /\ emitted \in Seq(ClosedFrames) /\ messages \in Seq(Sent)
  BY DEF Init
<1>2. Current = {} /\ SessionsAdvance
  BY <1>1 DEF Current, SessionsAdvance
<1>3. Crossings = {}
  BY <1>1, CrossingIs
<1>4. Told
  BY <1>1, <1>3, FS_EmptySet
  DEF Told, AbsenceIsTheSessions, JumpsAreTheSessions, RestartsAnnounced, Counted,
      CrossingsCountedOnce, Init
<1>5. DOMAIN lastSeen = {} /\ lastSeen \in [{} -> Nat] /\ DOMAIN lastPosition = {}
  BY DEF Init, Empty
<1>6. lastSeen \in Tables(Trackers, Nat)
  BY <1>5 DEF Tables
<1>7. RigType /\ Remembered /\ Placed /\ Marked
  BY <1>2, <1>5, <1>6, FS_EmptySet DEF RigType, Remembered, Placed, Marked, Init
<1>8. FrameType /\ Clocked /\ Announcing
  BY <1>2 DEF FrameType, Clocked, Announcing, Init
<1>9. StreamType
  BY <1>1 DEF StreamType, Init, Senders
<1> QED BY <1>2, <1>4, <1>7, <1>8, <1>9 DEF SessionInv, Held

\* What a session is, for every packet, sender, clock and horizon: what the
\* assembler remembers is what the frames of the session brought.
THEOREM SessionKept == Spec => []SessionInv
<1>1. Init => SessionInv
  BY SessionInit
<1>2. SessionInv /\ [Next]_vars => SessionInv'
  BY SessionStep
<1> QED BY <1>1, <1>2, PTL DEF Spec

\* A frame judges absence and jumps by its own session, and announces a restart
\* on the first frame that opens after a new peer and on no other.
THEOREM AbsenceTrue == Spec => []SessionsStandAlone
<1>1. SessionInv => SessionsStandAlone
  BY DEF SessionInv, Told, SessionsStandAlone
<1> QED BY <1>1, SessionKept, PTL

\* stalenessCrossings counts every tracker that falls silent, once each time.
THEOREM SilencesTrue == Spec => []SilencesCountedOnce
<1>1. SessionInv => SilencesCountedOnce
  BY DEF SessionInv, Told, Counted, SilencesCountedOnce
<1> QED BY <1>1, SessionKept, PTL

-----------------------------------------------------------------------------
(* The tree of joints.                                                       *)

\* Every set of numbers has a least one.
LEMMA LeastExists ==
  ASSUME NEW free \in SUBSET Nat, free # {}
  PROVE  \E h \in free : \A k \in free : h <= k
<1> DEFINE Below(h) == {k \in free : k < h}
           Belows == {Below(h) : h \in free}
<1>1. \A h \in free : Below(h) \in FiniteSubsetsOf(Nat)
  <2> SUFFICES ASSUME NEW h \in free PROVE Below(h) \in FiniteSubsetsOf(Nat)
    OBVIOUS
  <2>1. h \in Nat /\ IsFiniteSet(0..h)
    BY FS_Interval
  <2>2. Below(h) \in SUBSET (0..h) /\ Below(h) \in SUBSET Nat
    <3>1. \A k \in free : k \in Nat /\ (k < h => k \in 0..h)
      BY <2>1
    <3> QED BY <3>1
  <2>3. IsFiniteSet(Below(h))
    BY <2>1, <2>2, FS_Subset
  <2> QED BY <2>2, <2>3 DEF FiniteSubsetsOf
<1>2. Belows \subseteq FiniteSubsetsOf(Nat) /\ Belows # {}
  BY <1>1
<1>3. PICK least \in Belows : \A other \in Belows : <<other, least>> \notin StrictSubsetOrdering(Nat)
  <2> HIDE DEF Belows
  <2> QED BY <1>2, WFMin, FS_StrictSubsetOrderingWellFounded
<1>4. PICK h \in free : least = Below(h)
  BY <1>3
<1>5. ASSUME NEW k \in free, k < h PROVE FALSE
  <2>1. k \in Nat /\ h \in Nat
    OBVIOUS
  <2>2. Below(k) \subseteq Below(h) /\ k \in Below(h) /\ k \notin Below(k)
    <3>1. ~(k < k) /\ \A x \in free : x < k => x < h
      BY <1>5, <2>1
    <3> QED BY <1>5, <3>1
  <2>3. Below(k) \in SUBSET Nat /\ Below(h) \in SUBSET Nat /\ Below(k) # Below(h)
    BY <2>2
  <2>4. <<Below(k), Below(h)>> \in StrictSubsetOrdering(Nat)
    <3> HIDE DEF Below
    <3> QED BY <2>2, <2>3 DEF StrictSubsetOrdering
  <2>5. Below(k) \in Belows
    BY <1>5
  <2> QED BY <1>3, <1>4, <2>4, <2>5
<1>6. \A k \in free : h <= k
  BY <1>5
<1> QED BY <1>6


-----------------------------------------------------------------------------
(* Joints: what holds above the hips and is passed from a parent to its       *)
(* children holds of every joint, and a value handed down the tree exists.    *)

Nodes == Solve!Joints \cup {-1}
Above(j) == HumanJointParent[j]

LEMMA JointCount ==
  Cardinality(Solve!Joints) \in Nat /\ Solve!Joints = 0..(Cardinality(Solve!Joints) - 1)
<1>1. Cardinality(Solve!Joints) \in Nat
  BY SolveAssumption, FS_CardinalityType DEF Solve!JointAssumption, Solve!IsFiniteSet, IsFiniteSet
<1>2. Solve!Joints = 0..(Cardinality(Solve!Joints) - 1)
  BY SolveAssumption DEF Solve!JointAssumption, Solve!Cardinality, Cardinality
<1> QED BY <1>1, <1>2

LEMMA JointsBelow ==
  /\ Solve!Joints \subseteq Nat
  /\ \A j \in Solve!Joints : j # -1 /\ Above(j) \in Nodes /\ Above(j) < j
  /\ \A j \in Solve!Joints : \A k \in 0..j : k \in Solve!Joints
<1>3. \A j \in Solve!Joints : Above(j) \in {-1} \cup {k \in Solve!Joints : k < j}
  BY SolveAssumption DEF Solve!JointAssumption, Above
<1> HIDE DEF Above
<1> DEFINE n == Cardinality(Solve!Joints) - 1
<1>4. n \in Int /\ Solve!Joints = 0..n
  BY JointCount
<1> HIDE DEF n
<1> QED BY <1>3, <1>4 DEF Nodes

LEMMA DownTheTree ==
  ASSUME NEW good, -1 \in good,
         \A j \in Solve!Joints : Above(j) \in good => j \in good
  PROVE  \A j \in Nodes : j \in good
<1> DEFINE bad == {j \in Solve!Joints : j \notin good}
<1>1. bad \subseteq Nat
  BY JointsBelow
<1>2. ASSUME bad # {} PROVE FALSE
  <2>1. PICK h \in bad : \A k \in bad : h <= k
    BY <1>1, <1>2, LeastExists
  <2>2. h \in Nat /\ h \in Solve!Joints /\ h \notin good /\ Above(h) \in Nodes /\ Above(h) < h
    BY <2>1, <1>1, JointsBelow
  <2>3. Above(h) \in good
    <3>1. CASE Above(h) = -1
      BY <3>1
    <3>2. CASE Above(h) \in Solve!Joints
      <4>1. Above(h) \in Nat
        BY <3>2, JointsBelow
      <4>2. ~(h <= Above(h))
        BY <4>1, <2>2
      <4> QED BY <4>2, <2>1, <3>2
    <3> QED BY <2>2, <3>1, <3>2 DEF Nodes
  <2> QED BY <2>2, <2>3
<1> QED BY <1>2 DEF Nodes

\* What is handed down: a node in through adds its own to its parent's, or has
\* its own instead where it is in afresh, and any other has its parent's.
Handed(f, top, through, afresh, own, j) ==
  IF j = -1 THEN top
  ELSE IF j \in through
       THEN IF j \in afresh THEN own[j] ELSE Solve!Compose(f[Above(j)], own[j])
       ELSE f[Above(j)]

Hand(top, through, afresh, own) ==
  CHOOSE f : f = [j \in Nodes |-> Handed(f, top, through, afresh, own, j)]

LEMMA HandExists ==
  ASSUME NEW top, NEW through, NEW afresh, NEW own
  PROVE  Hand(top, through, afresh, own)
           = [j \in Nodes |-> Handed(Hand(top, through, afresh, own), top, through, afresh, own, j)]
<1> DEFINE Whole(f) == f = [j \in Nodes |-> Handed(f, top, through, afresh, own, j)]
<1> DEFINE Reaches(m) == {-1} \cup 0..m
           Is(f, m) == f = [j \in Reaches(m) |-> Handed(f, top, through, afresh, own, j)]
           bad == {m \in Solve!Joints : ~ \E f : Is(f, m)}
<1>1. ASSUME NEW m \in Solve!Joints, NEW f, Is(f, m - 1) PROVE \E g : Is(g, m)
  <2>1. m \in Nat /\ m \notin Reaches(m - 1) /\ Reaches(m) = Reaches(m - 1) \cup {m}
    BY JointsBelow
  <2> DEFINE g == [j \in Reaches(m) |-> IF j = m THEN Handed(f, top, through, afresh, own, m) ELSE f[j]]
  <2>2. ASSUME NEW j \in Reaches(m), j # -1 PROVE Above(j) \in Reaches(m - 1)
    <3>1. j \in Solve!Joints /\ j \in Nat /\ j <= m
      BY <2>1, <2>2, JointsBelow
    <3>2. Above(j) \in Nodes /\ Above(j) < j
      BY <3>1, JointsBelow
    <3>3. Above(j) = -1 \/ Above(j) \in Nat
      BY <3>2, JointsBelow DEF Nodes
    <3> QED BY <3>1, <3>2, <3>3, <2>1
  <2>3. ASSUME NEW j \in Reaches(m) PROVE g[j] = Handed(g, top, through, afresh, own, j)
    <3>1. CASE j = -1
      <4>1. j \in Reaches(m - 1) /\ j # m
        BY <3>1, <2>1
      <4>2. f[j] = Handed(f, top, through, afresh, own, j)
        BY <4>1, <1>1
      <4> QED BY <4>1, <4>2, <3>1 DEF Handed
    <3>2. CASE j # -1
      <4>1. g[Above(j)] = f[Above(j)]
        BY <2>1, <2>2, <3>2
      <4>2. g[j] = Handed(f, top, through, afresh, own, j)
        <5>1. CASE j = m
          BY <5>1
        <5>2. CASE j # m
          <6>1. j \in Reaches(m - 1)
            BY <5>2, <2>1
          <6>2. f[j] = Handed(f, top, through, afresh, own, j)
            BY <6>1, <1>1
          <6> QED BY <5>2, <6>2
        <5> QED BY <5>1, <5>2
      <4> QED BY <4>1, <4>2, <3>2 DEF Handed
    <3> QED BY <3>1, <3>2
  <2>4. Is(g, m)
    <3> HIDE DEF Reaches
    <3> QED BY <2>3
  <2> QED BY <2>4
<1>2. ASSUME bad # {} PROVE FALSE
  <2>1. bad \subseteq Nat
    BY JointsBelow
  <2>2. PICK m \in bad : \A k \in bad : m <= k
    BY <2>1, <1>2, LeastExists
  <2>3. m \in Nat /\ m \in Solve!Joints
    BY <2>1, <2>2
  <2>4. \E f : Is(f, m - 1)
    <3>1. CASE m = 0
      <4> DEFINE f == [j \in Reaches(m - 1) |-> top]
      <4>1. Reaches(m - 1) = {-1}
        BY <3>1
      <4>2. f = [j \in Reaches(m - 1) |-> Handed(f, top, through, afresh, own, j)]
        BY <4>1 DEF Handed
      <4> QED BY <4>2
    <3>2. CASE m # 0
      <4>1. m - 1 \in Nat /\ m - 1 \in 0..m /\ ~(m <= m - 1)
        BY <2>3, <3>2
      <4>2. m - 1 \in Solve!Joints
        BY <4>1, <2>3, JointsBelow
      <4> QED BY <4>1, <4>2, <2>2
    <3> QED BY <3>1, <3>2
  <2>5. PICK f : Is(f, m - 1)
    BY <2>4
  <2>6. \E g : Is(g, m)
    BY <2>3, <2>5, <1>1
  <2> QED BY <2>2, <2>6
<1>3. ASSUME Solve!Joints = {} PROVE \E f : Whole(f)
  <2> DEFINE f == [j \in Nodes |-> top]
  <2>1. Nodes = {-1}
    BY <1>3 DEF Nodes
  <2>2. f = [j \in Nodes |-> Handed(f, top, through, afresh, own, j)]
    BY <2>1 DEF Handed
  <2> QED BY <2>2
<1>4. ASSUME Solve!Joints # {} PROVE \E f : Whole(f)
  <2> DEFINE n == Cardinality(Solve!Joints) - 1
  <2>1. Solve!Joints = 0..n /\ n \in Int
    BY JointCount
  <2>2. n \in Solve!Joints
    <3> HIDE DEF n
    <3> QED BY <2>1, <1>4
  <2>3. PICK f : Is(f, n)
    BY <1>2, <2>2
  <2>4. Nodes = Reaches(n)
    BY <2>1 DEF Nodes
  <2> HIDE DEF Reaches, n
  <2> QED BY <2>3, <2>4
<1> DEFINE f == Hand(top, through, afresh, own)
<1>5. f = CHOOSE g : Whole(g)
  BY DEF Hand
<1>6. Whole(f)
  <2> HIDE DEF Whole, f
  <2> QED BY <1>3, <1>4, <1>5
<1> QED BY <1>6

LEMMA HandedDown ==
  ASSUME NEW top, NEW through, NEW afresh, NEW own
  PROVE  LET f == Hand(top, through, afresh, own)
         IN  /\ f = [j \in Nodes |-> f[j]]
             /\ f[-1] = top
             /\ \A j \in Solve!Joints :
                  f[j] = IF j \in through
                         THEN IF j \in afresh THEN own[j] ELSE Solve!Compose(f[Above(j)], own[j])
                         ELSE f[Above(j)]
<1> DEFINE Is(f) == f = [j \in Nodes |-> Handed(f, top, through, afresh, own, j)]
           f == Hand(top, through, afresh, own)
<1>2. Is(f)
  BY HandExists
<1> HIDE DEF f
<1>3. f = [j \in Nodes |-> f[j]] /\ \A j \in Nodes : f[j] = Handed(f, top, through, afresh, own, j)
  <2> DEFINE g == [j \in Nodes |-> Handed(f, top, through, afresh, own, j)]
  <2>1. g = [j \in Nodes |-> g[j]] /\ \A j \in Nodes : g[j] = Handed(f, top, through, afresh, own, j)
    OBVIOUS
  <2>2. f = g
    BY <1>2
  <2> HIDE DEF g
  <2> QED BY <2>1, <2>2
<1>4. -1 \in Nodes /\ \A j \in Solve!Joints : j # -1 /\ j \in Nodes
  BY JointsBelow DEF Nodes
<1> QED BY <1>3, <1>4 DEF Handed, f

LEMMA ChainUnfolds ==
  ASSUME NEW authored, NEW local
  PROVE  /\ Solve!Chain(authored, local)[-1] = Solve!Rest
         /\ \A j \in Solve!Joints :
              Solve!Chain(authored, local)[j]
                = IF j \in authored THEN Solve!Compose(Solve!Chain(authored, local)[Above(j)], local[j])
                  ELSE Solve!Chain(authored, local)[Above(j)]
<1> DEFINE Is(f) == f = [j \in Solve!Joints \cup {-1} |->
                           IF j = -1 THEN Solve!Rest
                           ELSE IF j \in authored THEN Solve!Compose(f[HumanJointParent[j]], local[j])
                           ELSE f[HumanJointParent[j]]]
<1> DEFINE f == Hand(Solve!Rest, authored, {}, local)
<1>1. /\ f = [j \in Nodes |-> f[j]]
      /\ f[-1] = Solve!Rest
      /\ \A j \in Solve!Joints : f[j] = IF j \in authored THEN Solve!Compose(f[Above(j)], local[j]) ELSE f[Above(j)]
  BY HandedDown
<1> HIDE DEF f
<1>2. Is(f)
  BY <1>1 DEF Nodes, Above
<1>3. Solve!Chain(authored, local) = CHOOSE g : Is(g)
  BY DEF Solve!Chain
<1>4. Is(Solve!Chain(authored, local))
  <2> HIDE DEF Is
  <2> QED BY <1>2, <1>3
<1> DEFINE c == Solve!Chain(authored, local)
<1>5. Is(c)
  BY <1>4
<1> HIDE DEF c
<1>6. c[-1] = Solve!Rest
  BY <1>5
<1>7. ASSUME NEW j \in Solve!Joints
      PROVE  c[j] = IF j \in authored THEN Solve!Compose(c[Above(j)], local[j]) ELSE c[Above(j)]
  <2>1. j # -1
    BY JointsBelow
  <2> QED BY <1>5, <2>1 DEF Above
<1> QED BY <1>6, <1>7 DEF c

LEMMA SilenceUnfolds ==
  ASSUME NEW a, NEW arrived, NEW j \in Solve!Joints
  PROVE  Solve!AncestorFellSilent(a, arrived, j)
           <=> /\ Above(j) \in Solve!Joints
               /\ \/ Above(j) \in Solve!Named(a) /\ Above(j) \notin Solve!WithRotation(a, arrived)
                  \/ Solve!AncestorFellSilent(a, arrived, Above(j))
<1> DEFINE Lost(k) == k \in Solve!Named(a) /\ k \notin Solve!WithRotation(a, arrived)
           under == {k \in Solve!Joints : Above(k) # -1 /\ Lost(Above(k))}
           Is(f) == f = [k \in Solve!Joints |-> HumanJointParent[k] # -1 /\ (Lost(HumanJointParent[k]) \/ f[HumanJointParent[k]])]
<1> DEFINE own == [k \in Solve!Joints |-> 1]
           f == Hand(0, under, under, own)
<1>2. f[-1] = 0 /\ \A k \in Solve!Joints : f[k] = IF k \in under THEN 1 ELSE f[Above(k)]
  <2>1. /\ f[-1] = 0
        /\ \A k \in Solve!Joints : f[k] = IF k \in under
                                          THEN IF k \in under THEN own[k] ELSE Solve!Compose(f[Above(k)], own[k])
                                          ELSE f[Above(k)]
    <3> HIDE DEF under, own
    <3> QED BY HandedDown
  <2>2. \A k \in Solve!Joints : own[k] = 1
    OBVIOUS
  <2> HIDE DEF under, own, f
  <2> QED BY <2>1, <2>2
<1> HIDE DEF f
<1> DEFINE s == [k \in Solve!Joints |-> f[k] = 1]
<1>4. ASSUME NEW k \in Solve!Joints
      PROVE  s[k] = (Above(k) # -1 /\ (Lost(Above(k)) \/ s[Above(k)]))
  <2>1. Above(k) \in Nodes /\ s[k] = (f[k] = 1)
    BY JointsBelow
  <2>2. CASE Above(k) = -1
    <3>1. f[k] = 0
      BY <1>2, <2>2
    <3> HIDE DEF s
    <3> QED BY <2>1, <2>2, <3>1
  <2>3. CASE Above(k) # -1
    <3>1. Above(k) \in Solve!Joints
      BY <2>1, <2>3 DEF Nodes
    <3>2. s[Above(k)] = (f[Above(k)] = 1)
      BY <3>1
    <3>3. f[k] = IF Lost(Above(k)) THEN 1 ELSE f[Above(k)]
      BY <1>2, <2>3
    <3> HIDE DEF s, Lost
    <3> QED BY <2>1, <2>3, <3>2, <3>3
  <2> QED BY <2>2, <2>3
<1>5. Is(s)
  <2> HIDE DEF Lost
  <2>1. \A k \in Solve!Joints : s[k] = (Above(k) # -1 /\ (Lost(Above(k)) \/ s[Above(k)]))
    BY <1>4
  <2>2. s = [k \in Solve!Joints |-> s[k]]
    OBVIOUS
  <2> HIDE DEF s
  <2> QED BY <2>1, <2>2 DEF Above
<1> DEFINE chosen == CHOOSE g : Is(g)
<1>6. Is(chosen)
  <2> HIDE DEF Is
  <2> QED BY <1>5
<1>7. \A k \in Solve!Joints : Solve!AncestorFellSilent(a, arrived, k) = chosen[k]
  BY DEF Solve!AncestorFellSilent
<1> HIDE DEF chosen, Lost
<1>8. chosen[j] = (Above(j) # -1 /\ (Lost(Above(j)) \/ chosen[Above(j)]))
  BY <1>6 DEF Above
<1>9. Above(j) # -1 <=> Above(j) \in Solve!Joints
  BY JointsBelow DEF Nodes
<1> QED BY <1>7, <1>8, <1>9 DEF Lost

-----------------------------------------------------------------------------
(* Rotations: a turn seen from above, and turned with it, is itself.         *)

LEMMA RestTurnsNothing ==
  /\ Solve!Rest \in Solve!Rotations
  /\ \A x \in Solve!Rotations : Solve!Compose(x, Solve!Rest) = x
<1>1. Solve!Rest = [i \in 1..3 |-> i]
  BY DEF Solve!Rest
<1>2. Solve!Rest \in Solve!Rotations
  BY <1>1 DEF Solve!Rotations
<1>3. ASSUME NEW x \in Solve!Rotations PROVE Solve!Compose(x, Solve!Rest) = x
  <2>1. DOMAIN x = 1..3 /\ x = [i \in 1..3 |-> x[i]]
    BY DEF Solve!Rotations
  <2> QED BY <2>1, <1>1 DEF Solve!Compose
<1> QED BY <1>2, <1>3

LEMMA SeenFromAbove ==
  ASSUME NEW x \in Solve!Rotations, NEW r \in Solve!Rotations
  PROVE  Solve!Compose(x, Solve!Compose(Solve!Invert(x), r)) = r
<1>1. DOMAIN x = 1..3 /\ DOMAIN r = 1..3 /\ r = [i \in 1..3 |-> r[i]]
      /\ \A i \in 1..3 : r[i] \in 1..3 /\ \E k \in 1..3 : x[k] = i
  BY DEF Solve!Rotations
<1> DEFINE y == Solve!Invert(x)
<1>2. DOMAIN y = 1..3 /\ \A i \in 1..3 : y[i] = CHOOSE k \in 1..3 : x[k] = i
  BY <1>1 DEF Solve!Invert
<1>3. \A i \in 1..3 : x[y[i]] = i
  BY <1>1, <1>2
<1> HIDE DEF y
<1>4. Solve!Compose(y, r) = [i \in 1..3 |-> y[r[i]]]
  BY <1>2 DEF Solve!Compose
<1>5. Solve!Compose(x, Solve!Compose(y, r)) = [i \in 1..3 |-> x[y[r[i]]]]
  BY <1>1, <1>4 DEF Solve!Compose
<1> QED BY <1>1, <1>3, <1>5 DEF y

-----------------------------------------------------------------------------
(* What the solve authors: locals that turn every placed joint, over what was *)
(* authored above it, as its tracker reported.                                *)

Reported(a, arrived, j) == Solve!Observation(a, arrived, j)[1].rotation

AuthorOf(a, arrived) ==
  CHOOSE author : author =
    [j \in Solve!Joints |->
       Solve!Compose(Solve!Invert(Solve!Chain(Solve!Placed(a, arrived), author)[HumanJointParent[j]]),
                     Solve!Observation(a, arrived, j)[1].rotation)]

LEMMA AuthoredTurnsAsReported ==
  ASSUME NEW a, NEW arrived,
         \A j \in Solve!Placed(a, arrived) : Reported(a, arrived, j) \in Solve!Rotations
  PROVE  LET author == AuthorOf(a, arrived)
             turned == Solve!Chain(Solve!Placed(a, arrived), author)
         IN  /\ Solve!Locals(a, arrived) = [j \in Solve!Placed(a, arrived) |-> author[j]]
             /\ \A j \in Nodes : turned[j] \in Solve!Rotations
             /\ \A j \in Solve!Placed(a, arrived) : turned[j] = Reported(a, arrived, j)
<1> DEFINE P == Solve!Placed(a, arrived)
           R(j) == Reported(a, arrived, j)
           Is(f) == f = [j \in Solve!Joints |->
                           Solve!Compose(Solve!Invert(Solve!Chain(P, f)[HumanJointParent[j]]),
                                         Solve!Observation(a, arrived, j)[1].rotation)]
           own == [j \in Solve!Joints |-> R(j)]
<1>1. P \subseteq Solve!Joints
  BY DEF Solve!Placed, Solve!WithRotation
<1> DEFINE nearest == Hand(Solve!Rest, P, P, own)
<1>3. /\ nearest[-1] = Solve!Rest
      /\ \A j \in Solve!Joints : nearest[j] = IF j \in P THEN R(j) ELSE nearest[Above(j)]
  <2>1. /\ nearest[-1] = Solve!Rest
        /\ \A j \in Solve!Joints : nearest[j] = IF j \in P
                                                THEN IF j \in P THEN own[j] ELSE Solve!Compose(nearest[Above(j)], own[j])
                                                ELSE nearest[Above(j)]
    <3> HIDE DEF own, P
    <3> QED BY HandedDown
  <2>2. \A j \in Solve!Joints : own[j] = R(j)
    OBVIOUS
  <2> HIDE DEF own, R, P, nearest
  <2> QED BY <2>1, <2>2
<1> HIDE DEF nearest
<1>4. \A j \in P : R(j) \in Solve!Rotations
  OBVIOUS
<1> HIDE DEF P, R
<1> DEFINE f == [j \in Solve!Joints |-> Solve!Compose(Solve!Invert(nearest[Above(j)]), R(j))]
<1>5. \A j \in Nodes : Solve!Chain(P, f)[j] = nearest[j] /\ nearest[j] \in Solve!Rotations
  <2> DEFINE c == Solve!Chain(P, f)
             good == {j \in Nodes : c[j] = nearest[j] /\ nearest[j] \in Solve!Rotations}
  <2>1. /\ c[-1] = Solve!Rest
        /\ \A j \in Solve!Joints : c[j] = IF j \in P THEN Solve!Compose(c[Above(j)], f[j]) ELSE c[Above(j)]
    <3> HIDE DEF f
    <3> QED BY ChainUnfolds
  <2>2. \A j \in Solve!Joints : f[j] = Solve!Compose(Solve!Invert(nearest[Above(j)]), R(j))
    OBVIOUS
  <2> HIDE DEF c, f
  <2>3. -1 \in good
    BY <1>3, <2>1, RestTurnsNothing DEF Nodes
  <2>4. ASSUME NEW j \in Solve!Joints, Above(j) \in good PROVE j \in good
    <3>1. j \in Nodes
      BY DEF Nodes
    <3>2. CASE j \in P
      <4>1. c[j] = Solve!Compose(nearest[Above(j)], Solve!Compose(Solve!Invert(nearest[Above(j)]), R(j)))
        BY <2>1, <2>2, <2>4, <3>2
      <4>2. c[j] = R(j)
        BY <4>1, <1>4, <2>4, <3>2, SeenFromAbove
      <4> QED BY <4>2, <1>3, <1>4, <3>1, <3>2
    <3>3. CASE j \notin P
      BY <1>3, <2>1, <2>4, <3>1, <3>3
    <3> QED BY <3>2, <3>3
  <2>5. \A j \in Nodes : j \in good
    <3> HIDE DEF good
    <3> QED BY <2>3, <2>4, DownTheTree
  <2> QED BY <2>5 DEF c
<1>6. Is(f)
  <2>1. \A j \in Solve!Joints : Above(j) \in Nodes
    BY JointsBelow
  <2>2. \A j \in Solve!Joints : f[j] = Solve!Compose(Solve!Invert(Solve!Chain(P, f)[Above(j)]), R(j))
    <3>1. \A j \in Solve!Joints : f[j] = Solve!Compose(Solve!Invert(nearest[Above(j)]), R(j))
      OBVIOUS
    <3> HIDE DEF f
    <3> QED BY <1>5, <2>1, <3>1
  <2>3. f = [j \in Solve!Joints |-> f[j]]
    OBVIOUS
  <2> HIDE DEF f
  <2> QED BY <2>2, <2>3 DEF Above, R, Reported
<1> DEFINE author == AuthorOf(a, arrived)
<1>7. Is(author)
  <2>1. author = CHOOSE g : Is(g)
    BY DEF AuthorOf, P
  <2> HIDE DEF Is, author
  <2> QED BY <1>6, <2>1
<1>8. Solve!Locals(a, arrived) = [j \in P |-> author[j]]
  BY DEF Solve!Locals, AuthorOf, P
<1> HIDE DEF author, f
<1> DEFINE turned == Solve!Chain(P, author)
<1>9. \A j \in Solve!Joints : author[j] = Solve!Compose(Solve!Invert(turned[Above(j)]), R(j))
  BY <1>7 DEF Above, R, Reported
<1>10. /\ turned[-1] = Solve!Rest
       /\ \A j \in Solve!Joints : turned[j] = IF j \in P THEN Solve!Compose(turned[Above(j)], author[j]) ELSE turned[Above(j)]
  BY ChainUnfolds
<1> HIDE DEF turned
<1>11. ASSUME NEW j \in P, turned[Above(j)] \in Solve!Rotations PROVE turned[j] = R(j)
  BY <1>1, <1>4, <1>9, <1>10, <1>11, SeenFromAbove
<1>12. \A j \in Nodes : turned[j] \in Solve!Rotations
  <2> DEFINE good == {j \in Nodes : turned[j] \in Solve!Rotations}
  <2>1. -1 \in good
    BY <1>10, RestTurnsNothing DEF Nodes
  <2>2. \A j \in Solve!Joints : Above(j) \in good => j \in good
    BY <1>4, <1>10, <1>11 DEF Nodes
  <2>3. \A j \in Nodes : j \in good
    <3> HIDE DEF good
    <3> QED BY <2>1, <2>2, DownTheTree
  <2> QED BY <2>3
<1>13. \A j \in P : turned[j] = R(j)
  BY <1>1, <1>11, <1>12, JointsBelow
<1> QED BY <1>8, <1>12, <1>13 DEF P, R, turned, author

-----------------------------------------------------------------------------
(* What was stated: the joints an assignment names are the operator's, and    *)
(* what a solve reads of a joint is the tracker stated of it.                 *)

JointsStated(s) == {RegionJoint[s.statements[i].region] : i \in DOMAIN s.statements}

Sightings ==
  [tracker : STRING, rotation : Solve!Rotations \cup {Solve!NoRotation, Solve!BadRotation}, position : Int]

LEMMA FramesHold ==
  ASSUME NEW arrived \in Frames
  PROVE  /\ arrived \in Seq(Sightings)
         /\ \A i \in DOMAIN arrived :
              /\ arrived[i].tracker \in STRING
              /\ arrived[i].rotation \in Solve!Rotations \cup {Solve!NoRotation, Solve!BadRotation}
              /\ arrived[i].position \in Int
<1>1. arrived \in Seq(Sightings)
  BY SolveAssumption DEF Solve!InputAssumption, Sightings
<1>2. \A i \in DOMAIN arrived : arrived[i] \in Sightings
  BY <1>1
<1>3. \A x \in Sightings : /\ x.tracker \in STRING
                           /\ x.rotation \in Solve!Rotations \cup {Solve!NoRotation, Solve!BadRotation}
                           /\ x.position \in Int
  BY DEF Sightings
<1> QED BY <1>1, <1>2, <1>3

\* The first place of a name.
PlaceOf(names, t) ==
  LET places == {i \in 1..Len(names) : names[i] = t}
  IN  IF places # {} THEN CHOOSE x \in places : \A y \in places : x <= y ELSE 0

LEMMA BindingsAre ==
  ASSUME NEW s, NEW names
  PROVE  Solve!Bindings(s, names)
           = [i \in Solve!Found(s, names) |->
                [region |-> s.statements[i].region, index |-> PlaceOf(names, s.statements[i].tracker)]]
BY DEF Solve!Bindings, Solve!SelectInSeq, Solve!Min, PlaceOf

LEMMA NamedAreStated ==
  ASSUME NEW s, NEW names, Solve!AssignTrackers(s, names).refusal = "None"
  PROVE  Solve!Named(Solve!AssignTrackers(s, names)) = JointsStated(s)
<1> DEFINE a == Solve!AssignTrackers(s, names)
           found == Solve!Found(s, names)
<1>1. a.bound = Solve!Bindings(s, names) /\ a.absent = Solve!Absent(s, names)
  BY DEF Solve!AssignTrackers
<1>2. found \subseteq DOMAIN s.statements
  BY DEF Solve!Found
<1>3. DOMAIN a.bound = found /\ \A i \in found : a.bound[i].region = s.statements[i].region
  BY <1>1, BindingsAre
<1>4. a.absent = {s.statements[i].region : i \in DOMAIN s.statements \ found}
  BY <1>1 DEF Solve!Absent
<1> HIDE DEF a, found
<1>5. Solve!Named(a) = {RegionJoint[s.statements[i].region] : i \in found}
                         \cup {RegionJoint[s.statements[i].region] : i \in DOMAIN s.statements \ found}
  BY <1>3, <1>4 DEF Solve!Named, Solve!JointOf
<1> QED BY <1>2, <1>5 DEF a, JointsStated

LEMMA PlaceFound ==
  ASSUME NEW names \in Seq(STRING), NEW t \in Solve!ToSet(names)
  PROVE  PlaceOf(names, t) \in DOMAIN names /\ names[PlaceOf(names, t)] = t
<1> DEFINE places == {i \in 1..Len(names) : names[i] = t}
<1>1. places # {} /\ places \subseteq Nat
  BY DEF Solve!ToSet
<1>2. PICK h \in places : \A k \in places : h <= k
  BY <1>1, LeastExists
<1>3. PlaceOf(names, t) = CHOOSE x \in places : \A y \in places : x <= y
  BY <1>1 DEF PlaceOf
<1> QED BY <1>2, <1>3

LEMMA ReadAsStated ==
  ASSUME NEW s, NEW arrived \in Frames, NEW j,
         Solve!AssignTrackers(s, Solve!Identities(arrived)).refusal = "None",
         Solve!Observation(Solve!AssignTrackers(s, Solve!Identities(arrived)), arrived, j) # <<>>
  PROVE  \E k \in DOMAIN s.statements, i \in DOMAIN arrived :
           /\ RegionJoint[s.statements[k].region] = j
           /\ arrived[i].tracker = s.statements[k].tracker
           /\ Solve!Observation(Solve!AssignTrackers(s, Solve!Identities(arrived)), arrived, j) = <<arrived[i]>>
<1> DEFINE names == Solve!Identities(arrived)
           a == Solve!AssignTrackers(s, names)
           here == {k \in DOMAIN a.bound : Solve!JointOf(a.bound[k]) = j}
           k == CHOOSE k \in here : TRUE
           i == a.bound[k].index
<1>1. a.bound = Solve!Bindings(s, names)
  BY DEF Solve!AssignTrackers
<1>2. Solve!Observation(a, arrived, j) = IF here = {} THEN <<>> ELSE <<arrived[i]>>
  BY DEF Solve!Observation
<1>3. k \in here
  BY <1>2
<1>5. names \in Seq(STRING) /\ DOMAIN names = DOMAIN arrived /\ \A n \in DOMAIN names : names[n] = arrived[n].tracker
  <2>1. names = [n \in 1..Len(arrived) |-> arrived[n].tracker] /\ DOMAIN arrived = 1..Len(arrived)
    BY FramesHold DEF Solve!Identities
  <2> QED BY <2>1, FramesHold
<1> HIDE DEF names
<1>6. /\ k \in Solve!Found(s, names) /\ k \in DOMAIN s.statements
      /\ s.statements[k].tracker \in Solve!ToSet(names)
  BY <1>1, <1>3, BindingsAre DEF Solve!Found
<1>7. /\ a.bound[k].region = s.statements[k].region
      /\ a.bound[k].index = PlaceOf(names, s.statements[k].tracker)
  BY <1>1, <1>6, BindingsAre
<1>8. i \in DOMAIN names /\ names[i] = s.statements[k].tracker
  <2> HIDE DEF k, a
  <2> QED BY <1>5, <1>6, <1>7, PlaceFound
<1>9. RegionJoint[s.statements[k].region] = j
  BY <1>3, <1>7 DEF Solve!JointOf
<1>10. Solve!Observation(a, arrived, j) = <<arrived[i]>>
  BY <1>2, <1>3
<1> HIDE DEF a, k, i
<1>11. i \in DOMAIN arrived /\ arrived[i].tracker = s.statements[k].tracker
  BY <1>5, <1>8
<1> QED BY <1>6, <1>9, <1>10, <1>11 DEF a, names

-----------------------------------------------------------------------------
(* What a consumer holds: a joint no statement names stays at rest, so the    *)
(* chain above a joint the frame authors turns as the solve saw it.           *)

HoldsStated(s, local) == \A k \in Solve!Joints \ JointsStated(s) : local[k] = Solve!Rest

\* What a frame's locals make of what was held.
Replayed(a, arrived, before) ==
  [j \in Solve!Joints |-> IF j \in Solve!Placed(a, arrived) THEN Solve!Locals(a, arrived)[j] ELSE before[j]]

LEMMA ReplayTurnsAsReported ==
  ASSUME NEW s, NEW arrived \in Frames, NEW before, HoldsStated(s, before),
         Solve!AssignTrackers(s, Solve!Identities(arrived)).refusal = "None",
         Solve!ValuesOk(Solve!AssignTrackers(s, Solve!Identities(arrived)), arrived)
  PROVE  LET a == Solve!AssignTrackers(s, Solve!Identities(arrived))
             after == Replayed(a, arrived, before)
         IN  /\ HoldsStated(s, after)
             /\ DOMAIN Solve!Locals(a, arrived) = Solve!Placed(a, arrived)
             /\ \A j \in Solve!Placed(a, arrived) :
                  \E k \in DOMAIN s.statements, i \in DOMAIN arrived :
                    /\ RegionJoint[s.statements[k].region] = j
                    /\ arrived[i].tracker = s.statements[k].tracker
                    /\ Solve!World(after, j) = arrived[i].rotation
<1> DEFINE a == Solve!AssignTrackers(s, Solve!Identities(arrived))
           after == Replayed(a, arrived, before)
           P == Solve!Placed(a, arrived)
           R(j) == Reported(a, arrived, j)
           author == AuthorOf(a, arrived)
           turned == Solve!Chain(P, author)
           replayed == Solve!Chain(Solve!Joints, after)
           clean(j) == j \in Solve!Joints
                         => /\ ~Solve!AncestorFellSilent(a, arrived, j)
                            /\ j \in Solve!Named(a) => j \in Solve!WithRotation(a, arrived)
<1>1. ASSUME NEW j \in Solve!WithRotation(a, arrived)
      PROVE  /\ j \in Solve!Joints
             /\ \E k \in DOMAIN s.statements, i \in DOMAIN arrived :
                  /\ RegionJoint[s.statements[k].region] = j
                  /\ arrived[i].tracker = s.statements[k].tracker
                  /\ arrived[i].rotation = R(j)
             /\ R(j) \in Solve!Rotations
  <2>1. /\ j \in Solve!Joints /\ Solve!Observation(a, arrived, j) # <<>>
        /\ R(j) # Solve!NoRotation /\ R(j) # Solve!BadRotation
    BY DEF Solve!WithRotation, Solve!ValuesOk, Reported
  <2>2. PICK k \in DOMAIN s.statements, i \in DOMAIN arrived :
          /\ RegionJoint[s.statements[k].region] = j
          /\ arrived[i].tracker = s.statements[k].tracker
          /\ Solve!Observation(a, arrived, j) = <<arrived[i]>>
    BY <2>1, ReadAsStated
  <2>3. R(j) = arrived[i].rotation
    BY <2>2 DEF Reported
  <2>5. arrived[i].rotation \in Solve!Rotations \cup {Solve!NoRotation, Solve!BadRotation}
    BY <2>2, FramesHold
  <2> QED BY <2>1, <2>2, <2>3, <2>5
<1>2. Solve!Named(a) = JointsStated(s)
  BY NamedAreStated
<1>3. \A j \in P : j \in Solve!WithRotation(a, arrived) /\ ~Solve!AncestorFellSilent(a, arrived, j)
  BY DEF Solve!Placed
<1>4. \A j \in Solve!Joints : ~Solve!AncestorFellSilent(a, arrived, j) /\ j \in Solve!WithRotation(a, arrived) => j \in P
  BY DEF Solve!Placed
<1>5. \A j \in Solve!WithRotation(a, arrived) : j \in JointsStated(s)
  BY <1>1 DEF JointsStated
<1>6. /\ Solve!Locals(a, arrived) = [j \in P |-> author[j]]
      /\ \A j \in Nodes : turned[j] \in Solve!Rotations
      /\ \A j \in P : turned[j] = R(j)
  <2>1. \A j \in P : R(j) \in Solve!Rotations
    BY <1>1, <1>3
  <2> QED BY <2>1, AuthoredTurnsAsReported
<1>7. \A j \in Solve!Joints : after[j] = IF j \in P THEN author[j] ELSE before[j]
  BY <1>6 DEF Replayed
<1> HIDE DEF a, after, P, R, author
<1>8. HoldsStated(s, after)
  BY <1>3, <1>5, <1>7 DEF HoldsStated
<1>9. /\ turned[-1] = Solve!Rest
      /\ \A j \in Solve!Joints : turned[j] = IF j \in P THEN Solve!Compose(turned[Above(j)], author[j]) ELSE turned[Above(j)]
  BY ChainUnfolds
<1>10. /\ replayed[-1] = Solve!Rest
       /\ \A j \in Solve!Joints : replayed[j] = Solve!Compose(replayed[Above(j)], after[j])
  BY ChainUnfolds
<1> HIDE DEF turned, replayed
<1>11. \A j \in Solve!Joints : clean(j) => clean(Above(j))
  BY SilenceUnfolds
<1>12. \A j \in Nodes : clean(j) => replayed[j] = turned[j]
  <2> DEFINE good == {j \in Nodes : clean(j) => replayed[j] = turned[j]}
  <2>1. -1 \in good
    BY <1>9, <1>10 DEF Nodes
  <2>2. ASSUME NEW j \in Solve!Joints, Above(j) \in good PROVE j \in good
    <3> SUFFICES ASSUME clean(j) PROVE replayed[j] = turned[j]
      BY DEF Nodes
    <3>1. replayed[Above(j)] = turned[Above(j)] /\ turned[Above(j)] \in Solve!Rotations
      <4> HIDE DEF clean
      <4> QED BY <1>6, <1>11, <2>2
    <3>2. CASE j \in P
      BY <1>7, <1>9, <1>10, <3>1, <3>2
    <3>3. CASE j \notin P
      <4>1. j \notin Solve!Named(a)
        BY <1>4, <3>3
      <4>2. after[j] = Solve!Rest
        BY <1>2, <1>7, <3>3, <4>1 DEF HoldsStated
      <4> QED BY <1>9, <1>10, <3>1, <3>3, <4>2, RestTurnsNothing
    <3> QED BY <3>2, <3>3
  <2>3. \A j \in Nodes : j \in good
    <3> HIDE DEF good
    <3> QED BY <2>1, <2>2, DownTheTree
  <2> QED BY <2>3
<1>13. \A j \in P : Solve!World(after, j) = R(j)
  <2>1. \A j \in P : clean(j) /\ j \in Nodes
    BY <1>1, <1>3 DEF Nodes
  <2>2. \A j \in P : replayed[j] = R(j)
    <3> HIDE DEF clean
    <3> QED BY <1>6, <1>12, <2>1
  <2> QED BY <2>2 DEF Solve!World, replayed
<1>14. \A j \in P : \E k \in DOMAIN s.statements, i \in DOMAIN arrived :
                      /\ RegionJoint[s.statements[k].region] = j
                      /\ arrived[i].tracker = s.statements[k].tracker
                      /\ Solve!World(after, j) = arrived[i].rotation
  BY <1>1, <1>3, <1>13
<1>15. DOMAIN Solve!Locals(a, arrived) = P
  BY <1>6
<1> QED BY <1>8, <1>14, <1>15 DEF a, after, P

-----------------------------------------------------------------------------
(* The trace: one session's frames, each in the space its sender is in.      *)

Clips == [spaces : SUBSET Int, roots : Seq(Int)]

\* The clip that may still grow: empty, or of the space the sender is in.
Grows(clip, where) == IF clip.roots = <<>> THEN clip.spaces = {} ELSE clip.spaces \subseteq {where}

ClipsKept ==
  /\ space \in Nat
  /\ \A i \in DOMAIN sessions : \E n \in Int : sessions[i].spaces \subseteq {n}
  /\ ~closed => /\ sessions \in Seq(Clips)
                /\ sessions # <<>> => Grows(sessions[Len(sessions)], space)

TurnsAsReported ==
  solve.refusal = "None" =>
    \A j \in DOMAIN solve.locals : \E s \in Solve!ToSet(spec.statements), i \in DOMAIN observed :
      /\ RegionJoint[s.region] = j /\ observed[i].tracker = s.tracker
      /\ Solve!World(held, j) = observed[i].rotation

SolveInv ==
  /\ \E names : assignment = Solve!AssignTrackers(spec, names)
  /\ HoldsStated(spec, held)
  /\ TurnsAsReported
  /\ ClipsKept

LEMMA SolvedFrom ==
  ASSUME NEW a, NEW arrived, NEW s, NEW names,
         a = Solve!AssignTrackers(s, names),
         Solve!SolveTrackerPose(a, arrived).refusal = "None"
  PROVE  /\ a = Solve!AssignTrackers(s, Solve!Identities(arrived)) /\ a.refusal = "None"
         /\ Solve!ValuesOk(a, arrived)
         /\ Solve!SolveTrackerPose(a, arrived).locals = Solve!Locals(a, arrived)
         /\ Solve!SolveTrackerPose(a, arrived).root
              = IF Solve!ConsumesPosition(a, arrived)
                THEN Solve!Observation(a, arrived, Solve!Hips)[1].position ELSE Solve!NoPosition
<1>1. Solve!SolveRefusal(a, arrived) = "None"
  BY DEF Solve!SolveTrackerPose, Solve!Refusal
<1>2. a.refusal = "None" /\ Solve!Applicable(a, Solve!Identities(arrived)) /\ Solve!ValuesOk(a, arrived)
  BY <1>1 DEF Solve!SolveRefusal
<1>3. a.trackers = names
  BY <1>2 DEF Solve!AssignTrackers
<1>4. names = Solve!Identities(arrived)
  BY <1>2, <1>3 DEF Solve!Applicable
<1> QED BY <1>1, <1>2, <1>4 DEF Solve!SolveTrackerPose

LEMMA RootIsPlace ==
  ASSUME NEW s, NEW arrived \in Frames,
         Solve!AssignTrackers(s, Solve!Identities(arrived)).refusal = "None",
         Solve!ConsumesPosition(Solve!AssignTrackers(s, Solve!Identities(arrived)), arrived)
  PROVE  Solve!Observation(Solve!AssignTrackers(s, Solve!Identities(arrived)), arrived, Solve!Hips)[1].position \in Int
<1> DEFINE a == Solve!AssignTrackers(s, Solve!Identities(arrived))
<1>1. Solve!Observation(a, arrived, Solve!Hips) # <<>>
  BY DEF Solve!ConsumesPosition
<1>2. PICK i \in DOMAIN arrived : Solve!Observation(a, arrived, Solve!Hips) = <<arrived[i]>>
  BY <1>1, ReadAsStated
<1> QED BY <1>2, FramesHold

LEMMA ReplayKept ==
  ASSUME SolveInv, NEW arrived \in Frames, NEW begins \in BOOLEAN, NEW fresh \in BOOLEAN,
         Solve!ObserveFrame(arrived, begins, fresh)
  PROVE  /\ \E names : assignment' = Solve!AssignTrackers(spec', names)
         /\ HoldsStated(spec', held')
         /\ TurnsAsReported'
         /\ solve'.refusal = "None" => solve'.root \in Int
<1> DEFINE opened == Solve!Opened(begins)
           new == opened[Len(opened)].roots = <<>>
           before == [j \in Solve!Joints |-> IF new THEN Solve!Rest ELSE held[j]]
<1>1. spec' = spec /\ observed' = arrived /\ solve' = Solve!SolveTrackerPose(assignment', arrived)
  BY DEF Solve!ObserveFrame
<1>2. PICK names : assignment' = Solve!AssignTrackers(spec, names)
  <2>1. CASE fresh
    BY <2>1 DEF Solve!ObserveFrame
  <2>2. CASE ~fresh
    BY <2>2 DEF Solve!ObserveFrame, SolveInv
  <2> QED BY <2>1, <2>2
<1>3. HoldsStated(spec, held) /\ HoldsStated(spec, Solve!AtRest)
  BY DEF SolveInv, HoldsStated, Solve!AtRest
<1>4. HoldsStated(spec, before)
  BY <1>3 DEF HoldsStated
<1>5. CASE solve'.refusal # "None"
  <2>1. held' = IF new THEN Solve!AtRest ELSE held
    BY <1>5 DEF Solve!ObserveFrame
  <2> HIDE DEF new
  <2> QED BY <1>1, <1>2, <1>3, <1>5, <2>1 DEF TurnsAsReported
<1>6. CASE solve'.refusal = "None"
  <2> DEFINE a == Solve!AssignTrackers(spec, Solve!Identities(arrived))
  <2>1. /\ assignment' = a /\ a.refusal = "None" /\ Solve!ValuesOk(a, arrived)
        /\ solve'.locals = Solve!Locals(a, arrived)
        /\ solve'.root = IF Solve!ConsumesPosition(a, arrived)
                         THEN Solve!Observation(a, arrived, Solve!Hips)[1].position ELSE Solve!NoPosition
    BY <1>1, <1>2, <1>6, SolvedFrom
  <2>2. held' = [j \in Solve!Joints |-> IF j \in DOMAIN solve'.locals THEN solve'.locals[j]
                                        ELSE IF new THEN Solve!Rest ELSE held[j]]
    BY <1>6 DEF Solve!ObserveFrame
  <2> HIDE DEF a, new
  <2>3. LET after == Replayed(a, arrived, before)
        IN  /\ HoldsStated(spec, after)
            /\ DOMAIN Solve!Locals(a, arrived) = Solve!Placed(a, arrived)
            /\ \A j \in Solve!Placed(a, arrived) :
                 \E k \in DOMAIN spec.statements, i \in DOMAIN arrived :
                   /\ RegionJoint[spec.statements[k].region] = j
                   /\ arrived[i].tracker = spec.statements[k].tracker
                   /\ Solve!World(after, j) = arrived[i].rotation
    <3> HIDE DEF before
    <3> QED BY <1>4, <2>1, ReplayTurnsAsReported DEF a
  <2>4. held' = Replayed(a, arrived, before)
    BY <2>1, <2>2, <2>3 DEF Replayed
  <2> HIDE DEF before
  <2>5. \A j \in DOMAIN solve'.locals : \E s \in Solve!ToSet(spec.statements), i \in DOMAIN arrived :
          /\ RegionJoint[s.region] = j /\ arrived[i].tracker = s.tracker
          /\ Solve!World(held', j) = arrived[i].rotation
    BY <2>1, <2>3, <2>4 DEF Solve!ToSet
  <2>6. solve'.root \in Int
    BY <2>1, RootIsPlace DEF Solve!NoPosition, a
  <2>7. TurnsAsReported'
    BY <1>1, <2>5 DEF TurnsAsReported
  <2> QED BY <1>1, <1>2, <2>3, <2>4, <2>6, <2>7
<1> QED BY <1>5, <1>6

LEMMA ClipOpened ==
  ASSUME ClipsKept, ~closed, NEW begins \in BOOLEAN
  PROVE  LET opened == Solve!Opened(begins)
             where == IF begins THEN space + 1 ELSE space
         IN  /\ opened \in Seq(Clips) /\ opened # <<>>
             /\ \A i \in DOMAIN opened : \E n \in Int : opened[i].spaces \subseteq {n}
             /\ Grows(opened[Len(opened)], where)
<1> DEFINE opened == Solve!Opened(begins)
           clip == [spaces |-> {}, roots |-> <<>>]
           where == IF begins THEN space + 1 ELSE space
<1>1. sessions \in Seq(Clips) /\ clip \in Clips
  BY DEF ClipsKept, Clips
<1>2. CASE sessions = <<>> \/ (begins /\ sessions[Len(sessions)].roots # <<>>)
  <2>1. opened = Append(sessions, clip)
    BY <1>2 DEF Solve!Opened
  <2> HIDE DEF opened, clip
  <2>2. /\ opened \in Seq(Clips) /\ Len(opened) = Len(sessions) + 1 /\ opened # <<>>
        /\ opened[Len(opened)] = clip
        /\ \A i \in DOMAIN opened : i # Len(opened) => i \in DOMAIN sessions /\ opened[i] = sessions[i]
    BY <1>1, <2>1
  <2>3. clip.spaces = {} /\ clip.roots = <<>>
    BY DEF clip
  <2>4. ASSUME NEW i \in DOMAIN opened PROVE \E n \in Int : opened[i].spaces \subseteq {n}
    <3>1. CASE i = Len(opened)
      <4>1. opened[i].spaces \subseteq {0}
        BY <2>2, <2>3, <3>1
      <4> QED BY <4>1
    <3>2. CASE i # Len(opened)
      BY <2>2, <3>2 DEF ClipsKept
    <3> QED BY <3>1, <3>2
  <2> QED BY <2>2, <2>3, <2>4 DEF Grows, opened
<1>3. CASE ~(sessions = <<>> \/ (begins /\ sessions[Len(sessions)].roots # <<>>))
  <2>1. opened = sessions /\ sessions # <<>>
    BY <1>3 DEF Solve!Opened
  <2>2. Grows(sessions[Len(sessions)], where)
    BY <1>3 DEF Grows, ClipsKept
  <2> QED BY <1>1, <2>1, <2>2 DEF ClipsKept
<1> QED BY <1>2, <1>3

LEMMA ClipsObserved ==
  ASSUME ClipsKept, NEW arrived, NEW begins \in BOOLEAN, NEW fresh,
         Solve!ObserveFrame(arrived, begins, fresh),
         solve'.refusal = "None" => solve'.root \in Int
  PROVE  ClipsKept'
<1> DEFINE opened == Solve!Opened(begins)
           last == Len(opened)
           where == IF begins THEN space + 1 ELSE space
<1>1. ~closed /\ closed' = FALSE /\ space' = where
  BY DEF Solve!ObserveFrame
<1>2. /\ opened \in Seq(Clips) /\ opened # <<>>
      /\ \A i \in DOMAIN opened : \E n \in Int : opened[i].spaces \subseteq {n}
      /\ Grows(opened[last], where)
  BY <1>1, ClipOpened
<1>3. space' \in Nat
  BY <1>1 DEF ClipsKept
<1>4. CASE solve'.refusal # "None"
  <2>1. sessions' = opened
    BY <1>4 DEF Solve!ObserveFrame
  <2> HIDE DEF opened, where
  <2> QED BY <1>1, <1>2, <1>3, <2>1 DEF ClipsKept
<1>5. CASE solve'.refusal = "None"
  <2> DEFINE grown == [spaces |-> opened[last].spaces \cup {space'}, roots |-> Append(opened[last].roots, solve'.root)]
  <2>1. sessions' = [opened EXCEPT ![last].spaces = @ \cup {space'}, ![last].roots = Append(@, solve'.root)]
    BY <1>5 DEF Solve!ObserveFrame
  <2> HIDE DEF opened, where
  <2>2. last \in DOMAIN opened /\ DOMAIN opened = 1..last /\ last \in Nat /\ opened[last] \in Clips
    BY <1>2
  <2>3. /\ opened[last] = [spaces |-> opened[last].spaces, roots |-> opened[last].roots]
        /\ opened[last].spaces \in SUBSET Int /\ opened[last].roots \in Seq(Int)
    BY <2>2 DEF Clips
  <2>4. sessions' = [opened EXCEPT ![last] = grown]
    BY <2>1, <2>2, <2>3
  <2>5. grown \in Clips /\ grown.roots # <<>>
    <3>1. Append(opened[last].roots, solve'.root) \in Seq(Int) /\ Append(opened[last].roots, solve'.root) # <<>>
      <4>1. \A q \in Seq(Int), v \in Int : Append(q, v) \in Seq(Int) /\ Len(Append(q, v)) # 0
        OBVIOUS
      <4>2. solve'.root \in Int
        BY <1>5
      <4> QED BY <2>3, <4>1, <4>2
    <3> QED BY <1>3, <2>3, <3>1 DEF Clips
  <2>6. grown.spaces \subseteq {space'}
    BY <1>1, <1>2 DEF Grows
  <2> HIDE DEF grown
  <2>7. /\ sessions' \in Seq(Clips) /\ Len(sessions') = last /\ DOMAIN sessions' = 1..last
        /\ sessions'[last] = grown
        /\ \A i \in DOMAIN opened : i # last => sessions'[i] = opened[i]
    BY <1>2, <2>2, <2>4, <2>5
  <2>8. Grows(sessions'[Len(sessions')], space')
    BY <2>5, <2>6, <2>7 DEF Grows
  <2>9. ASSUME NEW i \in DOMAIN sessions' PROVE \E n \in Int : sessions'[i].spaces \subseteq {n}
    <3>1. CASE i = last
      BY <1>3, <2>6, <2>7, <3>1
    <3>2. CASE i # last
      BY <1>2, <2>2, <2>7, <3>2
    <3> QED BY <3>1, <3>2
  <2> QED BY <1>1, <1>3, <2>7, <2>8, <2>9 DEF ClipsKept
<1> QED BY <1>4, <1>5

LEMMA SolveCloses ==
  ASSUME SolveInv, Solve!Close
  PROVE  SolveInv'
<1>1. /\ spec' = spec /\ assignment' = assignment /\ held' = held /\ solve' = solve /\ observed' = observed
      /\ space' = space /\ closed' = TRUE
  BY DEF Solve!Close
<1>2. PICK order \in Solve!InOrder({i \in DOMAIN sessions : sessions[i].roots # <<>>}) :
        sessions' = [i \in DOMAIN order |-> sessions[order[i]]]
  BY DEF Solve!Close
<1>3. \A i \in DOMAIN order : order[i] \in DOMAIN sessions
  BY DEF Solve!InOrder
<1>4. \A i \in DOMAIN sessions' : \E n \in Int : sessions'[i].spaces \subseteq {n}
  <2>1. \A i \in DOMAIN order : \E n \in Int : sessions[order[i]].spaces \subseteq {n}
    BY <1>3 DEF SolveInv, ClipsKept
  <2> QED BY <1>2, <2>1
<1>5. ClipsKept'
  BY <1>1, <1>4 DEF SolveInv, ClipsKept
<1>6. HoldsStated(spec', held') /\ \E names : assignment' = Solve!AssignTrackers(spec', names)
  BY <1>1 DEF SolveInv
<1>7. TurnsAsReported'
  BY <1>1 DEF SolveInv, TurnsAsReported
<1> QED BY <1>5, <1>6, <1>7 DEF SolveInv

LEMMA SolveInit ==
  ASSUME NEW s, NEW authored, Solve!InitOf(s, authored)
  PROVE  SolveInv
<1>1. /\ assignment = Solve!AssignTrackers(spec, <<>>) /\ held = Solve!AtRest
      /\ solve = Solve!Refusal("AssignmentRefused") /\ sessions = <<>> /\ closed = FALSE /\ space = 1
  BY DEF Solve!InitOf
<1>2. HoldsStated(spec, held)
  BY <1>1 DEF HoldsStated, Solve!AtRest
<1>3. TurnsAsReported
  BY <1>1 DEF TurnsAsReported, Solve!Refusal
<1>4. ClipsKept
  BY <1>1 DEF ClipsKept
<1> QED BY <1>1, <1>2, <1>3, <1>4 DEF SolveInv

LEMMA SolveStep == SolveInv /\ [Solve!Next]_Solve!vars => SolveInv'
<1> SUFFICES ASSUME SolveInv, [Solve!Next]_Solve!vars PROVE SolveInv'
  OBVIOUS
<1>1. CASE UNCHANGED Solve!vars
  <2>1. /\ spec' = spec /\ assignment' = assignment /\ held' = held /\ solve' = solve /\ observed' = observed
        /\ space' = space /\ closed' = closed /\ sessions' = sessions
    BY <1>1 DEF Solve!vars
  <2>2. HoldsStated(spec', held') /\ \E names : assignment' = Solve!AssignTrackers(spec', names)
    BY <2>1 DEF SolveInv
  <2>3. TurnsAsReported' /\ ClipsKept'
    BY <2>1 DEF SolveInv, TurnsAsReported, ClipsKept
  <2> QED BY <2>2, <2>3 DEF SolveInv
<1>2. CASE Solve!Next
  <2>1. ASSUME NEW arrived \in Frames, NEW begins \in BOOLEAN, NEW fresh \in BOOLEAN,
               Solve!ObserveFrame(arrived, begins, fresh)
        PROVE  SolveInv'
    <3>1. /\ \E names : assignment' = Solve!AssignTrackers(spec', names)
          /\ HoldsStated(spec', held')
          /\ TurnsAsReported'
          /\ solve'.refusal = "None" => solve'.root \in Int
      BY <2>1, ReplayKept
    <3>2. ClipsKept'
      BY <2>1, <3>1, ClipsObserved DEF SolveInv
    <3> QED BY <3>1, <3>2 DEF SolveInv
  <2>2. CASE Solve!Observe
    BY <2>1, <2>2 DEF Solve!Observe
  <2>3. CASE Solve!ObserveAgain
    BY <2>1, <2>3 DEF Solve!ObserveAgain
  <2>4. CASE Solve!Close
    BY <2>4, SolveCloses
  <2> QED BY <1>2, <2>2, <2>3, <2>4 DEF Solve!Next
<1> QED BY <1>1, <1>2

LEMMA OneSpaceKept ==
  ASSUME ClipsKept
  PROVE  Solve!OneSpacePerSession
<1> SUFFICES ASSUME NEW i \in DOMAIN sessions PROVE Cardinality(sessions[i].spaces) <= 1
  BY DEF Solve!OneSpacePerSession, Solve!Cardinality, Cardinality
<1>1. PICK n \in Int : sessions[i].spaces \subseteq {n}
  BY DEF ClipsKept
<1>2. sessions[i].spaces = {} \/ sessions[i].spaces = {n}
  BY <1>1
<1>3. Cardinality({}) = 0 /\ Cardinality({n}) = 1
  BY FS_EmptySet, FS_Singleton
<1> QED BY <1>2, <1>3

\* Every bone a frame authors is turned, in what a replaying consumer holds, as
\* its own tracker reported, and a clip is of one tracking space: for every tree
\* of joints, statement of the operator and sequence of frames.
THEOREM HeldPoseTrue == Solve!Spec => []HeldPoseIsReported
<1>1. Solve!Init => SolveInv
  BY SolveInit DEF Solve!Init
<1>2. SolveInv /\ [Solve!Next]_Solve!vars => SolveInv'
  BY SolveStep
<1>3. SolveInv => HeldPoseIsReported
  BY OneSpaceKept DEF SolveInv, TurnsAsReported, HeldPoseIsReported, Solve!HeldPoseIsReported
<1> QED BY <1>1, <1>2, <1>3, PTL DEF Solve!Spec

-----------------------------------------------------------------------------
(* TrackerMessage: the number of a segment, digit by digit.                  *)

\* The largest of a set of numbers, the one a fold takes last.
Highest(s) == CHOOSE x \in s : \A y \in s : x >= y

\* A property of numbers that holds of 0 and is kept by adding one holds of all
\* of them up to n; "bad" is where it does not.
LEMMA NoneBad ==
  ASSUME NEW n \in Nat, NEW bad \in SUBSET (0..n), 0 \notin bad,
         \A m \in 0..n : m + 1 \in bad => m \in bad
  PROVE  bad = {}
<1> SUFFICES ASSUME bad # {} PROVE FALSE
  OBVIOUS
<1>1. bad \in SUBSET Nat
  OBVIOUS
<1>2. PICK h \in bad : \A k \in bad : h <= k
  BY <1>1, LeastExists
<1>3. h \in Nat /\ h # 0 /\ h \in 0..n
  OBVIOUS
<1>4. h - 1 \in 0..n /\ (h - 1) + 1 = h
  BY <1>3
<1>5. h - 1 \in bad
  BY <1>4
<1> QED BY <1>2, <1>3, <1>5

\* h is a fold of the subsets of 1..n, the largest number last.
Folds(h, n, base, next) ==
  \A s \in SUBSET (1..n) : h[s] = IF s = {} THEN base ELSE next[<<h[s \ {Highest(s)}], Highest(s)>>]

LEMMA FoldExists ==
  ASSUME NEW n \in Nat, NEW V, NEW base \in V, NEW next \in [V \X (1..n) -> V]
  PROVE  \E h \in [SUBSET (1..n) -> V] : Folds(h, n, base, next)
<1> DEFINE Fine(m) == \E h \in [SUBSET (1..m) -> V] : Folds(h, m, base, next)
           bad == {m \in 0..n : ~Fine(m)}
<1>1. Fine(0)
  <2> DEFINE h == [s \in SUBSET (1..0) |-> base]
  <2>1. \A s \in SUBSET (1..0) : s = {}
    OBVIOUS
  <2>2. h \in [SUBSET (1..0) -> V] /\ Folds(h, 0, base, next)
    BY <2>1 DEF Folds
  <2> HIDE DEF h
  <2> QED BY <2>2
<1>2. ASSUME NEW m \in 0..n, m + 1 \in 0..n, Fine(m) PROVE Fine(m + 1)
  <2>1. PICK g \in [SUBSET (1..m) -> V] : Folds(g, m, base, next)
    BY <1>2
  <2> DEFINE last == m + 1
             h == [s \in SUBSET (1..last) |-> IF last \in s THEN next[<<g[s \ {last}], last>>] ELSE g[s]]
  <2>2. /\ last \in 1..n /\ 1..m \subseteq 1..last /\ last \notin 1..m
        /\ \A k \in 1..last : k = last \/ k \in 1..m
        /\ \A k \in 1..last : last >= k /\ (k >= last => k = last)
    BY <1>2
  <2> HIDE DEF last
  <2>3. \A s \in SUBSET (1..last) : last \notin s => s \in SUBSET (1..m)
    BY <2>2
  <2>4. \A s \in SUBSET (1..last) : s \ {last} \in SUBSET (1..m)
    BY <2>2
  <2>5. \A s \in SUBSET (1..last) : last \in s => Highest(s) = last
    BY <2>2 DEF Highest
  <2>6. h \in [SUBSET (1..last) -> V]
    <3> SUFFICES ASSUME NEW s \in SUBSET (1..last)
                 PROVE  (IF last \in s THEN next[<<g[s \ {last}], last>>] ELSE g[s]) \in V
      OBVIOUS
    <3>1. CASE last \in s
      <4>1. <<g[s \ {last}], last>> \in V \X (1..n)
        BY <2>2, <2>4
      <4> QED BY <3>1, <4>1
    <3>2. CASE last \notin s
      BY <2>3, <3>2
    <3> QED BY <3>1, <3>2
  <2>7. \A s \in SUBSET (1..m) : s \in SUBSET (1..last) /\ last \notin s /\ h[s] = g[s]
    BY <2>2
  <2>8. \A s \in SUBSET (1..last) : last \in s => h[s] = next[<<g[s \ {last}], last>>]
    OBVIOUS
  <2> HIDE DEF h
  <2>9. Folds(h, last, base, next)
    <3> SUFFICES ASSUME NEW s \in SUBSET (1..last)
                 PROVE  h[s] = IF s = {} THEN base ELSE next[<<h[s \ {Highest(s)}], Highest(s)>>]
      BY DEF Folds
    <3>1. CASE last \in s
      <4>1. s # {} /\ Highest(s) = last /\ h[s \ {last}] = g[s \ {last}]
        BY <2>4, <2>5, <2>7, <3>1
      <4> QED BY <2>8, <3>1, <4>1
    <3>2. CASE last \notin s
      <4>1. s \in SUBSET (1..m) /\ s \ {Highest(s)} \in SUBSET (1..m)
        BY <2>3, <3>2
      <4>2. g[s] = IF s = {} THEN base ELSE next[<<g[s \ {Highest(s)}], Highest(s)>>]
        BY <2>1, <4>1 DEF Folds
      <4> QED BY <2>7, <4>1, <4>2
    <3> QED BY <3>1, <3>2
  <2> QED BY <2>6, <2>9 DEF last
<1>3. bad \in SUBSET (0..n) /\ 0 \notin bad /\ \A m \in 0..n : m + 1 \in bad => m \in bad
  <2> HIDE DEF Fine
  <2> QED BY <1>1, <1>2
<1>4. bad = {}
  <2> HIDE DEF bad
  <2> QED BY <1>3, NoneBad
<1> HIDE DEF Fine
<1>5. n \in 0..n
  OBVIOUS
<1> QED BY <1>4, <1>5 DEF Fine

\* The numbers up to m: their largest is m.
LEMMA Stretches ==
  ASSUME NEW n \in Nat
  PROVE  \A m \in 1..n : /\ 1..m \in SUBSET (1..n) /\ 1..m # {}
                         /\ Highest(1..m) = m /\ (1..m) \ {Highest(1..m)} = 1..(m - 1)
<1> SUFFICES ASSUME NEW m \in 1..n
             PROVE  /\ 1..m \in SUBSET (1..n) /\ 1..m # {}
                    /\ Highest(1..m) = m /\ (1..m) \ {Highest(1..m)} = 1..(m - 1)
  OBVIOUS
<1>1. 1..m \in SUBSET (1..n) /\ 1..m # {} /\ m \in 1..m
  OBVIOUS
<1>2. \A k \in 1..m : m >= k /\ (k >= m => k = m)
  OBVIOUS
<1>3. Highest(1..m) = m
  BY <1>1, <1>2 DEF Highest
<1>4. (1..m) \ {m} = 1..(m - 1)
  OBVIOUS
<1> QED BY <1>1, <1>3, <1>4

LEMMA HighestIsIn ==
  ASSUME NEW n \in Nat, NEW s \in SUBSET (1..n), s # {}
  PROVE  Highest(s) \in s
<1> DEFINE over == {u \in 0..n : \A y \in s : u >= y}
<1>1. over \in SUBSET Nat /\ over # {}
  <2>1. n \in over
    OBVIOUS
  <2> QED BY <2>1
<1>2. PICK u \in over : \A k \in over : u <= k
  <2> HIDE DEF over
  <2> QED BY <1>1, LeastExists
<1>3. u \in Nat /\ \A y \in s : u >= y /\ y \in Nat /\ y >= 1
  OBVIOUS
<1>4. u \in s
  <2> SUFFICES ASSUME u \notin s PROVE FALSE
    OBVIOUS
  <2>1. \A y \in s : u - 1 >= y
    BY <1>3
  <2>2. PICK y \in s : TRUE
    OBVIOUS
  <2>3. u - 1 \in over
    BY <1>3, <2>1, <2>2
  <2> QED BY <1>2, <1>3, <2>3
<1> QED BY <1>3, <1>4 DEF Highest

\* read[m] is the number of the first m digits.
Reads(read, digits) ==
  /\ read[0] = 0
  /\ \A m \in 1..Len(digits) : read[m] = read[m - 1] * 10 + digits[m]

LEMMA NumberRead ==
  ASSUME NEW digits \in Seq(Nat)
  PROVE  \E read \in [0..Len(digits) -> Nat] : Reads(read, digits) /\ Messages!Number(digits) = read[Len(digits)]
<1> DEFINE n == Len(digits)
           next == [p \in Nat \X (1..n) |-> p[1] * 10 + digits[p[2]]]
           Made(g) == g = [s \in SUBSET (1..n) |-> IF s = {} THEN 0 ELSE g[s \ {Highest(s)}] * 10 + digits[Highest(s)]]
           it == CHOOSE g : Made(g)
<1>1. n \in Nat /\ DOMAIN digits = 1..n /\ \A i \in 1..n : digits[i] \in Nat
  OBVIOUS
<1>0. Messages!Number(digits) = it[1..n]
  BY <1>1 DEF Messages!Number, Messages!FoldLeft, Messages!MapThenFoldSet, Messages!Max, Highest
<1> HIDE DEF n
<1>2. next \in [Nat \X (1..n) -> Nat]
  BY <1>1
<1>3. \A v \in Nat, i \in 1..n : next[<<v, i>>] = v * 10 + digits[i]
  OBVIOUS
<1> HIDE DEF next
<1>4. PICK h \in [SUBSET (1..n) -> Nat] : Folds(h, n, 0, next)
  BY <1>1, <1>2, FoldExists
<1>5. Made(h)
  <2>1. ASSUME NEW s \in SUBSET (1..n), s # {}
        PROVE  h[s] = h[s \ {Highest(s)}] * 10 + digits[Highest(s)]
    <3>1. Highest(s) \in 1..n /\ h[s \ {Highest(s)}] \in Nat
      BY <1>1, <2>1, HighestIsIn
    <3>2. h[s] = next[<<h[s \ {Highest(s)}], Highest(s)>>]
      BY <1>4, <2>1 DEF Folds
    <3> QED BY <1>3, <3>1, <3>2
  <2>2. \A s \in SUBSET (1..n) : s = {} => h[s] = 0
    BY <1>4 DEF Folds
  <2> QED BY <2>1, <2>2
<1>6. Made(it)
  <2> HIDE DEF Made
  <2> QED BY <1>5
<1> HIDE DEF it
<1>7. it[1..0] = 0 /\ \A m \in 1..n : it[1..m] = it[1..(m - 1)] * 10 + digits[m]
  <2>1. \A s \in SUBSET (1..n) : it[s] = IF s = {} THEN 0 ELSE it[s \ {Highest(s)}] * 10 + digits[Highest(s)]
    BY <1>6
  <2>2. 1..0 \in SUBSET (1..n) /\ 1..0 = {}
    OBVIOUS
  <2>3. \A m \in 1..n : 1..m \in SUBSET (1..n) /\ 1..m # {} /\ (1..m) \ {Highest(1..m)} = 1..(m - 1) /\ Highest(1..m) = m
    BY <1>1, Stretches
  <2> HIDE DEF Made
  <2>4. it[1..0] = 0
    BY <2>1, <2>2
  <2>5. ASSUME NEW m \in 1..n PROVE it[1..m] = it[1..(m - 1)] * 10 + digits[m]
    <3>1. 1..m \in SUBSET (1..n) /\ 1..m # {}
      BY <2>3
    <3>2. it[1..m] = it[(1..m) \ {Highest(1..m)}] * 10 + digits[Highest(1..m)]
      BY <2>1, <3>1
    <3>3. Highest(1..m) = m /\ (1..m) \ {Highest(1..m)} = 1..(m - 1)
      BY <2>3
    <3> QED BY <3>2, <3>3
  <2> QED BY <2>4, <2>5
<1> DEFINE bad == {m \in 0..n : it[1..m] \notin Nat}
<1>8. 0 \notin bad
  BY <1>7
<1>9. \A m \in 0..n : m + 1 \in bad => m \in bad
  <2> SUFFICES ASSUME NEW m \in 0..n, m + 1 \in bad, it[1..m] \in Nat PROVE FALSE
    OBVIOUS
  <2>1. m + 1 \in 1..n /\ (m + 1) - 1 = m
    BY <1>1
  <2>2. it[1..(m + 1)] = it[1..m] * 10 + digits[m + 1] /\ digits[m + 1] \in Nat
    BY <1>1, <1>7, <2>1
  <2> QED BY <2>2
<1>10. bad = {}
  <2> HIDE DEF bad
  <2>1. bad \in SUBSET (0..n)
    BY DEF bad
  <2> QED BY <1>1, <1>8, <1>9, <2>1, NoneBad
<1> DEFINE read == [m \in 0..n |-> it[1..m]]
<1>11. read \in [0..n -> Nat]
  BY <1>10
<1>12. Reads(read, digits)
  <2>1. read[0] = 0
    BY <1>1, <1>7
  <2>2. ASSUME NEW m \in 1..n PROVE read[m] = read[m - 1] * 10 + digits[m]
    <3>1. m \in 0..n /\ m - 1 \in 0..n
      BY <1>1
    <3> QED BY <1>7, <3>1
  <2> QED BY <2>1, <2>2 DEF Reads, n
<1>13. read[n] = it[1..n]
  BY <1>1
<1> QED BY <1>0, <1>11, <1>12, <1>13 DEF n

Digits == {segment \in Seq(Nat) : Messages!IsNumber(segment)}

\* A number that has no leading zero is not zero, at any digit of it.
LEMMA PositiveRead ==
  ASSUME NEW digits \in Digits, digits[1] # 0,
         NEW read \in [0..Len(digits) -> Nat], Reads(read, digits)
  PROVE  \A m \in 1..Len(digits) : read[m] >= 1
<1> DEFINE n == Len(digits)
           bad == {m \in 0..n : m >= 1 /\ read[m] < 1}
<1>1. n \in Nat /\ \A i \in 1..n : digits[i] \in Nat /\ digits[i] < 10
  BY DEF Digits, Messages!IsNumber
<1>2. 0 \notin bad
  OBVIOUS
<1>3. read[0] = 0 /\ \A m \in 1..n : read[m] = read[m - 1] * 10 + digits[m]
  BY DEF Reads
<1> HIDE DEF n
<1>4. ASSUME NEW m \in 0..n, m + 1 \in bad PROVE m \in bad
  <2>1. m + 1 \in 1..n /\ (m + 1) - 1 = m /\ read[m + 1] < 1 /\ read[m] \in Nat
    BY <1>1, <1>4 DEF n
  <2>2. read[m + 1] = read[m] * 10 + digits[m + 1] /\ digits[m + 1] \in Nat
    BY <1>1, <1>3, <2>1
  <2>3. CASE m = 0
    <3>1. digits[m + 1] >= 1
      BY <2>2, <2>3
    <3> QED BY <2>1, <2>2, <3>1
  <2>4. CASE m # 0
    <3>1. read[m] < 1
      BY <2>1, <2>2
    <3> QED BY <1>1, <2>4, <3>1
  <2> QED BY <2>3, <2>4
<1>5. bad \in SUBSET (0..n)
  OBVIOUS
<1>6. bad = {}
  <2> HIDE DEF bad
  <2> QED BY <1>1, <1>2, <1>4, <1>5, NoneBad
<1>7. \A m \in 1..n : m \in 0..n /\ m \notin bad /\ read[m] \in Nat
  BY <1>1, <1>6 DEF n
<1> QED BY <1>1, <1>7 DEF n

\* Two readings that end in one number agree from their ends back.
LEMMA AgreeBack ==
  ASSUME NEW a \in Digits, NEW b \in Digits, Len(a) <= Len(b),
         NEW r \in [0..Len(a) -> Nat], Reads(r, a),
         NEW s \in [0..Len(b) -> Nat], Reads(s, b),
         r[Len(a)] = s[Len(b)]
  PROVE  /\ \A k \in 0..Len(a) : r[Len(a) - k] = s[Len(b) - k]
         /\ \A k \in 0..(Len(a) - 1) : a[Len(a) - k] = b[Len(b) - k]
<1> DEFINE n == Len(a)
           p == Len(b)
           bad == {k \in 0..n : r[n - k] # s[p - k]}
<1>1. /\ n \in Nat /\ p \in Nat /\ n <= p
      /\ \A i \in 1..n : a[i] \in Nat /\ a[i] < 10
      /\ \A i \in 1..p : b[i] \in Nat /\ b[i] < 10
  BY DEF Digits, Messages!IsNumber
<1>2. /\ \A m \in 1..n : r[m] = r[m - 1] * 10 + a[m]
      /\ \A m \in 1..p : s[m] = s[m - 1] * 10 + b[m]
      /\ \A m \in 0..n : r[m] \in Nat
      /\ \A m \in 0..p : s[m] \in Nat
      /\ r[n] = s[p]
  BY DEF Reads
<1> HIDE DEF n, p
<1>3. 0 \notin bad
  BY <1>1, <1>2
<1>5. ASSUME NEW k \in 0..(n - 1), r[n - k] = s[p - k]
      PROVE  r[n - (k + 1)] = s[p - (k + 1)] /\ a[n - k] = b[p - k]
  <2>1. /\ n - k \in 1..n /\ p - k \in 1..p /\ (n - k) - 1 = n - (k + 1) /\ (p - k) - 1 = p - (k + 1)
        /\ n - (k + 1) \in 0..n /\ p - (k + 1) \in 0..p
    BY <1>1
  <2>2. /\ r[n - k] = r[n - (k + 1)] * 10 + a[n - k] /\ s[p - k] = s[p - (k + 1)] * 10 + b[p - k]
        /\ r[n - (k + 1)] \in Nat /\ s[p - (k + 1)] \in Nat
        /\ a[n - k] \in Nat /\ a[n - k] < 10 /\ b[p - k] \in Nat /\ b[p - k] < 10
    BY <1>1, <1>2, <2>1
  <2> DEFINE u == r[n - (k + 1)]
             v == s[p - (k + 1)]
             x == a[n - k]
             y == b[p - k]
  <2>3. u \in Nat /\ v \in Nat /\ x \in Nat /\ x < 10 /\ y \in Nat /\ y < 10 /\ u * 10 + x = v * 10 + y
    BY <1>5, <2>2
  <2> HIDE DEF u, v, x, y
  <2>4. u = v /\ x = y
    BY <2>3
  <2> QED BY <2>4 DEF u, v, x, y
<1>6. ASSUME NEW k \in 0..n, k + 1 \in bad PROVE k \in bad
  <2>1. k \in 0..(n - 1)
    BY <1>1, <1>6
  <2> QED BY <1>5, <1>6, <2>1
<1>7. bad \in SUBSET (0..n)
  OBVIOUS
<1>8. bad = {}
  <2> HIDE DEF bad
  <2> QED BY <1>1, <1>3, <1>6, <1>7, NoneBad
<1>9. \A k \in 0..n : r[n - k] = s[p - k]
  BY <1>8
<1>10. \A k \in 0..(n - 1) : a[n - k] = b[p - k]
  <2> SUFFICES ASSUME NEW k \in 0..(n - 1) PROVE a[n - k] = b[p - k]
    OBVIOUS
  <2>1. k \in 0..n
    BY <1>1
  <2> QED BY <1>5, <1>9, <2>1
<1> QED BY <1>9, <1>10 DEF n, p

\* Without a leading zero a number has one spelling.
LEMMA OneSpelling ==
  ASSUME NEW a \in Digits, NEW b \in Digits, Messages!Canonical(a), Messages!Canonical(b),
         Messages!Number(a) = Messages!Number(b), Len(a) <= Len(b)
  PROVE  a = b
<1>1. PICK r \in [0..Len(a) -> Nat] : Reads(r, a) /\ Messages!Number(a) = r[Len(a)]
  BY NumberRead DEF Digits
<1>2. PICK s \in [0..Len(b) -> Nat] : Reads(s, b) /\ Messages!Number(b) = s[Len(b)]
  BY NumberRead DEF Digits
<1>3. Len(a) \in Nat /\ Len(b) \in Nat /\ Len(a) >= 1 /\ a \in Seq(Nat) /\ b \in Seq(Nat)
  BY DEF Digits, Messages!IsNumber
<1>4. /\ \A k \in 0..Len(a) : r[Len(a) - k] = s[Len(b) - k]
      /\ \A k \in 0..(Len(a) - 1) : a[Len(a) - k] = b[Len(b) - k]
  <2>1. r[Len(a)] = s[Len(b)]
    BY <1>1, <1>2
  <2> QED BY <1>1, <1>2, <2>1, AgreeBack
<1>5. Len(a) = Len(b)
  <2> SUFFICES ASSUME Len(a) < Len(b) PROVE FALSE
    BY <1>3
  <2>1. b[1] # 0
    BY <1>3 DEF Messages!Canonical
  <2>2. Len(b) - Len(a) \in 1..Len(b) /\ Len(a) \in 0..Len(a) /\ Len(a) - Len(a) = 0
    BY <1>3
  <2>3. s[Len(b) - Len(a)] >= 1
    BY <1>2, <2>1, <2>2, PositiveRead
  <2>4. s[Len(b) - Len(a)] = r[0]
    BY <1>4, <2>2
  <2>5. r[0] = 0
    BY <1>1 DEF Reads
  <2> QED BY <2>3, <2>4, <2>5
<1>6. \A i \in 1..Len(a) : a[i] = b[i]
  <2> SUFFICES ASSUME NEW i \in 1..Len(a) PROVE a[i] = b[i]
    OBVIOUS
  <2>1. Len(a) - i \in 0..(Len(a) - 1) /\ Len(a) - (Len(a) - i) = i
    BY <1>3
  <2> QED BY <1>4, <1>5, <2>1
<1> QED BY <1>3, <1>5, <1>6

-----------------------------------------------------------------------------
(* What DecodeTrackerPacket has decoded, and what it has refused.            *)

\* The tracker message of the k-th OSC message.
Decoding(k) ==
  [tracker |-> Messages!TrackerId(packet[k].segments[1]), channel |-> packet[k].segments[2],
   values |-> packet[k].arguments, from |-> k]

Decodings == {Decoding(k) : k \in {k \in 1..seen : Messages!Verdict(packet[k]) = "Accepted"}}

Verdicts == {Messages!Verdict(packet[k]) : k \in 1..Len(packet)}

Unsupported(told) == {i \in DOMAIN told : told[i] = "UnsupportedAddress"}

MessageInv ==
  /\ packet \in OscPackets /\ seen \in 0..Len(packet)
  /\ decoded \in Seq(Decodings) /\ Len(decoded) + Len(refusals) = seen
  /\ refusals \in Seq(Verdicts) /\ unsupported = Cardinality(Unsupported(refusals))

LEMMA MessageInit == Messages!Init => MessageInv
<1> SUFFICES ASSUME Messages!Init PROVE MessageInv
  OBVIOUS
<1>1. packet \in OscPackets /\ seen = 0 /\ decoded = <<>> /\ refusals = <<>> /\ unsupported = 0
  BY DEF Messages!Init, Messages!InitOf
<1>2. Len(packet) \in Nat
  BY <1>1, MessageAssumption DEF Messages!PacketAssumption
<1>3. Unsupported(refusals) = {}
  BY <1>1 DEF Unsupported
<1>4. Cardinality({}) = 0
  BY FS_EmptySet
<1>5. unsupported = Cardinality(Unsupported(refusals))
  BY <1>1, <1>3, <1>4
<1>6. \A S : <<>> \in Seq(S)
  OBVIOUS
<1>7. decoded \in Seq(Decodings) /\ refusals \in Seq(Verdicts)
  BY <1>1, <1>6
<1>8. Len(decoded) + Len(refusals) = seen /\ seen \in 0..Len(packet)
  BY <1>1, <1>2
<1> QED BY <1>1, <1>5, <1>7, <1>8 DEF MessageInv

\* Appending to a sequence, for what a set of its indices is.
LEMMA TellingMore ==
  ASSUME NEW T, NEW told \in Seq(T), NEW word \in T
  PROVE  Cardinality(Unsupported(Append(told, word)))
           = IF word = "UnsupportedAddress" THEN Cardinality(Unsupported(told)) + 1
             ELSE Cardinality(Unsupported(told))
<1> DEFINE n == Len(told)
           more == Append(told, word)
<1>1. /\ n \in Nat /\ DOMAIN told = 1..n /\ DOMAIN more = 1..(n + 1)
      /\ more[n + 1] = word /\ \A i \in 1..n : more[i] = told[i]
  <2>1. ASSUME NEW S, NEW t \in Seq(S), NEW w \in S
        PROVE  /\ Len(t) \in Nat /\ DOMAIN t = 1..Len(t) /\ DOMAIN Append(t, w) = 1..(Len(t) + 1)
               /\ Append(t, w)[Len(t) + 1] = w /\ \A i \in 1..Len(t) : Append(t, w)[i] = t[i]
    <3>1. Len(t) \in Nat /\ DOMAIN t = 1..Len(t) /\ Append(t, w) \in Seq(S) /\ Len(Append(t, w)) = Len(t) + 1
      OBVIOUS
    <3>2. DOMAIN Append(t, w) = 1..(Len(t) + 1)
      BY <3>1
    <3>3. Append(t, w)[Len(t) + 1] = w
      OBVIOUS
    <3>4. \A i \in 1..Len(t) : Append(t, w)[i] = t[i]
      OBVIOUS
    <3> QED BY <3>1, <3>2, <3>3, <3>4
  <2> QED BY <2>1
<1> HIDE DEF n, more
<1>2. /\ word = "UnsupportedAddress" => Unsupported(more) = Unsupported(told) \cup {n + 1}
      /\ word # "UnsupportedAddress" => Unsupported(more) = Unsupported(told)
  BY <1>1 DEF Unsupported
<1>3. n + 1 \notin Unsupported(told) /\ IsFiniteSet(Unsupported(told))
  <2>1. IsFiniteSet(1..n)
    <3>1. n \in Int /\ 1 \in Int
      BY <1>1
    <3> QED BY <3>1, FS_Interval
  <2>2. Unsupported(told) \subseteq 1..n
    BY <1>1 DEF Unsupported
  <2> QED BY <1>1, <2>1, <2>2, FS_Subset
<1>4. Cardinality(Unsupported(told) \cup {n + 1}) = Cardinality(Unsupported(told)) + 1
  BY <1>3, FS_AddElement
<1>5. Cardinality(Unsupported(more))
        = IF word = "UnsupportedAddress" THEN Cardinality(Unsupported(told)) + 1 ELSE Cardinality(Unsupported(told))
  BY <1>2, <1>4
<1> QED BY <1>5 DEF more

LEMMA MessageStep == MessageInv /\ [Messages!Next]_Messages!vars => MessageInv'
<1> SUFFICES ASSUME MessageInv, [Messages!Next]_Messages!vars PROVE MessageInv'
  OBVIOUS
<1>1. /\ packet \in OscPackets /\ seen \in 0..Len(packet) /\ Len(packet) \in Nat
      /\ decoded \in Seq(Decodings) /\ Len(decoded) \in Nat /\ Len(refusals) \in Nat
      /\ Len(decoded) + Len(refusals) = seen
      /\ refusals \in Seq(Verdicts) /\ unsupported = Cardinality(Unsupported(refusals))
  BY MessageAssumption DEF MessageInv, Messages!PacketAssumption
<1>2. CASE UNCHANGED Messages!vars
  BY <1>2 DEF Messages!vars, MessageInv, Decodings, Decoding, Unsupported, Verdicts
<1>3. ASSUME packet' = packet, seen < Len(packet), seen' = seen + 1
      PROVE  seen' \in 0..Len(packet) /\ Decodings \subseteq Decodings'
  <2>1. seen' \in 0..Len(packet) /\ \A k \in 1..seen : k \in 1..seen'
    BY <1>1, <1>3
  <2> QED BY <1>3, <2>1 DEF Decodings, Decoding
<1>4. CASE Messages!Accept
  <2>1. /\ packet' = packet /\ seen < Len(packet) /\ seen' = seen + 1
        /\ refusals' = refusals /\ unsupported' = unsupported
        /\ Messages!Verdict(packet[seen + 1]) = "Accepted"
        /\ decoded' = Append(decoded, Decoding(seen + 1))
    BY <1>4 DEF Messages!Accept, Messages!Current, Decoding
  <2>2. seen' \in 0..Len(packet) /\ Decodings \subseteq Decodings'
    BY <1>3, <2>1
  <2>3. Decoding(seen + 1) \in Decodings'
    <3>1. seen + 1 \in 1..(seen + 1)
      BY <1>1
    <3> QED BY <2>1, <3>1 DEF Decodings, Decoding
  <2>4. decoded \in Seq(Decodings')
    BY <1>1, <2>2
  <2>5. decoded' \in Seq(Decodings') /\ Len(decoded') = Len(decoded) + 1
    BY <2>1, <2>3, <2>4
  <2>6. Verdicts' = Verdicts /\ unsupported' = Cardinality(Unsupported(refusals'))
    BY <1>1, <2>1 DEF Verdicts
  <2> QED BY <1>1, <2>1, <2>2, <2>5, <2>6 DEF MessageInv
<1>5. CASE Messages!Refuse
  <2> DEFINE word == Messages!Verdict(packet[seen + 1])
  <2>1. /\ packet' = packet /\ seen < Len(packet) /\ seen' = seen + 1 /\ decoded' = decoded
        /\ refusals' = Append(refusals, word)
        /\ unsupported' = IF word = "UnsupportedAddress" THEN unsupported + 1 ELSE unsupported
    BY <1>5 DEF Messages!Refuse, Messages!Current
  <2>2. seen' \in 0..Len(packet) /\ Decodings \subseteq Decodings'
    BY <1>3, <2>1
  <2>3. word \in Verdicts /\ Verdicts' = Verdicts
    <3>1. seen + 1 \in 1..Len(packet)
      BY <1>1, <2>1
    <3> QED BY <2>1, <3>1 DEF Verdicts
  <2> HIDE DEF word
  <2>4. decoded' \in Seq(Decodings')
    BY <1>1, <2>1, <2>2
  <2>5. refusals' \in Seq(Verdicts') /\ Len(refusals') = Len(refusals) + 1
    BY <1>1, <2>1, <2>3
  <2>6. unsupported' = Cardinality(Unsupported(refusals'))
    BY <1>1, <2>1, <2>3, TellingMore
  <2>7. Len(decoded') + Len(refusals') = seen'
    <3>1. Len(decoded') = Len(decoded) /\ Len(refusals') = Len(refusals) + 1 /\ seen' = seen + 1
      BY <2>1, <2>5
    <3> QED BY <1>1, <3>1
  <2> QED BY <1>1, <2>1, <2>2, <2>4, <2>5, <2>6, <2>7 DEF MessageInv
<1> QED BY <1>2, <1>4, <1>5 DEF Messages!Next

LEMMA AcceptedFacts ==
  ASSUME NEW m, Messages!Verdict(m) = "Accepted"
  PROVE  Len(m.arguments) = 3 /\ Len(m.segments) = 2 /\ Messages!Identified(m.segments[1])
<1>1. Len(m.arguments) = Len(m.tags) /\ Len(m.segments) = 2 /\ Messages!Identified(m.segments[1])
      /\ m.tags = <<"f", "f", "f">>
  BY DEF Messages!Verdict
<1> QED BY <1>1

\* Of two identified segments, one index is one spelling.
LEMMA OneTracker ==
  ASSUME NEW a \in Seq(Nat), NEW b \in Seq(Nat), Messages!Identified(a), Messages!Identified(b),
         Messages!TrackerId(a).index = Messages!TrackerId(b).index
  PROVE  a = b
<1>1. /\ Messages!IsNumber(a) => Messages!TrackerId(a).index = <<Messages!Number(a)>>
      /\ ~Messages!IsNumber(a) => Messages!TrackerId(a).index = <<>>
  BY DEF Messages!TrackerId
<1>2. /\ Messages!IsNumber(b) => Messages!TrackerId(b).index = <<Messages!Number(b)>>
      /\ ~Messages!IsNumber(b) => Messages!TrackerId(b).index = <<>>
  BY DEF Messages!TrackerId
<1>3. \A x, y : <<x>> = <<y>> => x = y
  OBVIOUS
<1>4. Messages!IsNumber(a) <=> Messages!IsNumber(b)
  <2>1. CASE Messages!IsNumber(a) /\ ~Messages!IsNumber(b)
    <3>1. <<Messages!Number(a)>> = <<>>
      BY <1>1, <1>2, <2>1
    <3>2. <<Messages!Number(a)>> # <<>>
      OBVIOUS
    <3> QED BY <3>1, <3>2
  <2>2. CASE ~Messages!IsNumber(a) /\ Messages!IsNumber(b)
    <3>1. <<Messages!Number(b)>> = <<>>
      BY <1>1, <1>2, <2>2
    <3>2. <<Messages!Number(b)>> # <<>>
      OBVIOUS
    <3> QED BY <3>1, <3>2
  <2> QED BY <2>1, <2>2
<1>5. CASE ~Messages!IsNumber(a)
  <2>1. Messages!IndexReading(a) = "NotANumber" /\ Messages!IndexReading(b) = "NotANumber"
    BY <1>4, <1>5 DEF Messages!IndexReading
  <2> QED BY <2>1 DEF Messages!Identified
<1>6. CASE Messages!IsNumber(a)
  <2>1. Messages!Number(a) = Messages!Number(b)
    BY <1>1, <1>2, <1>3, <1>4, <1>6
  <2>2. ASSUME NEW c, Messages!IsNumber(c), Messages!Identified(c) PROVE Messages!Canonical(c)
    BY <2>2 DEF Messages!Identified, Messages!IndexReading
  <2>3. a \in Digits /\ b \in Digits /\ Messages!Canonical(a) /\ Messages!Canonical(b)
    BY <1>4, <1>6, <2>2 DEF Digits
  <2>4. Len(a) <= Len(b) \/ Len(b) <= Len(a)
    <3>1. Len(a) \in Nat /\ Len(b) \in Nat
      OBVIOUS
    <3> QED BY <3>1
  <2> QED BY <2>1, <2>3, <2>4, OneSpelling
<1> QED BY <1>5, <1>6

LEMMA IdentityKept == ASSUME MessageInv PROVE OneIdentityPerTracker
<1>1. ASSUME NEW i \in DOMAIN decoded
      PROVE  /\ decoded[i].from \in 1..Len(packet)
             /\ Messages!Verdict(packet[decoded[i].from]) = "Accepted"
             /\ decoded[i] = Decoding(decoded[i].from)
             /\ packet[decoded[i].from].segments \in Seq(Seq(Nat))
  <2>1. decoded[i] \in Decodings
    BY <1>1 DEF MessageInv
  <2>2. PICK k \in 1..seen : Messages!Verdict(packet[k]) = "Accepted" /\ decoded[i] = Decoding(k)
    BY <2>1 DEF Decodings
  <2>3. decoded[i].from = k
    BY <2>2 DEF Decoding
  <2>4. k \in 1..Len(packet)
    BY MessageAssumption DEF MessageInv, Messages!PacketAssumption
  <2> QED BY <2>2, <2>3, <2>4, MessageAssumption DEF MessageInv, Messages!PacketAssumption
<1>2. ASSUME NEW i \in DOMAIN decoded
      PROVE  LET m == packet[decoded[i].from] IN
             /\ decoded[i].tracker = Messages!TrackerId(m.segments[1]) /\ decoded[i].values = m.arguments
             /\ Len(m.arguments) = 3 /\ Messages!Identified(m.segments[1]) /\ m.segments[1] \in Seq(Nat)
  <2>1. /\ decoded[i].tracker = Messages!TrackerId(packet[decoded[i].from].segments[1])
        /\ decoded[i].values = packet[decoded[i].from].arguments
    BY <1>1, <1>2 DEF Decoding
  <2>2. /\ Len(packet[decoded[i].from].arguments) = 3 /\ Len(packet[decoded[i].from].segments) = 2
        /\ Messages!Identified(packet[decoded[i].from].segments[1])
    BY <1>1, <1>2, AcceptedFacts
  <2>3. \A S, s : s \in Seq(S) /\ Len(s) = 2 => s[1] \in S
    OBVIOUS
  <2>4. packet[decoded[i].from].segments[1] \in Seq(Nat)
    BY <1>1, <1>2, <2>2, <2>3
  <2> QED BY <2>1, <2>2, <2>4
<1>3. \A c : Messages!TrackerId(c).segment = c
  BY DEF Messages!TrackerId
<1>4. ASSUME NEW i \in DOMAIN decoded, NEW j \in DOMAIN decoded,
             decoded[i].tracker.index = decoded[j].tracker.index
      PROVE  decoded[i].tracker.segment = decoded[j].tracker.segment
  BY <1>2, <1>3, <1>4, OneTracker
<1>5. /\ Len(decoded) + Len(refusals) = seen
      /\ unsupported = Cardinality({i \in DOMAIN refusals : refusals[i] = "UnsupportedAddress"})
  BY DEF MessageInv, Unsupported
<1>6. \A i \in DOMAIN decoded : Len(decoded[i].values) = 3 /\ decoded[i].values = packet[decoded[i].from].arguments
  BY <1>2
<1> QED BY <1>4, <1>5, <1>6
        DEF OneIdentityPerTracker, Messages!OneIdentityPerTracker, Messages!Cardinality, Cardinality

\* One tracker has one identity, and no message of a packet is dropped without a
\* refusal: for every packet, whatever segments it spells.
THEOREM TrackersHaveOneIdentity == Messages!Spec => []OneIdentityPerTracker
<1>1. Messages!Init => MessageInv
  BY MessageInit
<1>2. MessageInv /\ [Messages!Next]_Messages!vars => MessageInv'
  BY MessageStep
<1>3. MessageInv => OneIdentityPerTracker
  BY IdentityKept
<1> QED BY <1>1, <1>2, <1>3, PTL DEF Messages!Spec
=============================================================================
