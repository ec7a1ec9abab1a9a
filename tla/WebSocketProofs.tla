-------------------------- MODULE WebSocketProofs ---------------------------
(***************************************************************************)
(* What the receiving WebSocket connector promises of its stream, for every *)
(* set of messages, peers and actors, every timeout and every interleaving  *)
(* of events, polls and replayed messages; of WebSocketHandshake             *)
(* (Handshake), for every request and every answer; and of WebSocketEndpoint *)
(* (Endpoint), for every configuration, what sockets take and what arrives.  *)
(***************************************************************************)
EXTENDS MCWebSocket, FiniteSetTheorems, SequenceTheorems, WellFoundedInduction, TLAPS

PosesOf == {heard.poses : heard \in Messages}

\* Lives are counted up, and no frame is of a life to come.
Made == [life : Nat, poses : PosesOf]

Lives ==
  /\ life \in Nat
  /\ made \in Seq(Made)
  /\ \A i \in 1..Len(made) : made[i].life <= life

\* `times` has, for each actor of a pose, a time the pose does not go past.
NotPast(poses, times) == \A a \in DOMAIN poses : a \in DOMAIN times /\ poses[a] <= times[a]

\* What the connector remembers is no earlier than any frame of the sender's
\* present life.
Remembered == \A i \in 1..Len(made) : made[i].life = life => NotPast(made[i].poses, poseTimestamps)

PoseInv == Lives /\ Clocks(poseTimestamps) /\ Remembered /\ PoseTimesAdvance

\* A silence that stands told is on record, and the state shows it.
SilenceInv ==
  /\ silenceReported \in BOOLEAN
  /\ told = IF silenceReported THEN 1 ELSE 0
  /\ silenceReported => state # "Connected"

-----------------------------------------------------------------------------
(* What is remembered.                                                      *)

LEMMA MadeFacts ==
  ASSUME Lives
  PROVE  /\ Len(made) \in Nat
         /\ \A i \in 1..Len(made) : made[i].life \in Nat /\ made[i].poses \in PosesOf
<1>1. made \in Seq(Made)
  BY DEF Lives
<1>2. \A i \in 1..Len(made) : made[i] \in Made
  BY <1>1
<1>3. \A frame \in Made : frame.life \in Nat /\ frame.poses \in PosesOf
  BY DEF Made
<1> QED BY <1>1, <1>2, <1>3

LEMMA EmptyFacts == Clocks(Empty) /\ DOMAIN Empty = {}
  BY DEF Empty, Clocks

LEMMA RememberFacts ==
  ASSUME NEW heard, Clocks(heard.poses), Clocks(TimestampsBefore(heard))
  PROVE  LET before == TimestampsBefore(heard)
             after == Remember(heard)
         IN  /\ Clocks(after)
             /\ DOMAIN after = DOMAIN heard.poses \cup DOMAIN before
             /\ \A a \in DOMAIN heard.poses : after[a] = heard.poses[a]
             /\ \A a \in DOMAIN before \ DOMAIN heard.poses : after[a] = before[a]
<1> DEFINE before == TimestampsBefore(heard)
<1> DEFINE after == Remember(heard)
<1>1. after = [a \in DOMAIN heard.poses \cup DOMAIN before |->
                 IF a \in DOMAIN heard.poses THEN heard.poses[a] ELSE before[a]]
  BY DEF Remember
<1> HIDE DEF before, after
<1>2. /\ DOMAIN after = DOMAIN heard.poses \cup DOMAIN before
      /\ \A a \in DOMAIN heard.poses : after[a] = heard.poses[a]
      /\ \A a \in DOMAIN before \ DOMAIN heard.poses : after[a] = before[a]
  BY <1>1
<1>3. after = [a \in DOMAIN after |-> after[a]]
  BY <1>1
<1>4. ASSUME NEW a \in DOMAIN after PROVE after[a] \in Nat
  BY <1>2, <1>4 DEF Clocks, before
<1> QED BY <1>2, <1>3, <1>4 DEF Clocks, before, after

LEMMA PosesAreClocks ==
  ASSUME NEW heard \in Messages
  PROVE  Clocks(heard.poses) /\ heard.poses \in PosesOf
  BY MessagesAssumption DEF PosesOf

\* A numbering that tells a restart begins a life without frames.
LEMMA NumberingFacts ==
  ASSUME PoseInv, NEW heard \in Messages, Numbering(heard)
  PROVE  /\ life' \in Nat /\ life <= life'
         /\ Clocks(TimestampsBefore(heard))
         /\ \A i \in 1..Len(made) :
              made[i].life = life' => NotPast(made[i].poses, TimestampsBefore(heard))
<1>1. CASE RestartTold(heard)
  <2>1. life' = life + 1 /\ TimestampsBefore(heard) = Empty
    BY <1>1 DEF Numbering, TimestampsBefore
  <2>2. \A i \in 1..Len(made) : made[i].life # life'
    BY <2>1 DEF PoseInv, Lives
  <2> QED BY <2>1, <2>2, EmptyFacts DEF PoseInv, Lives
<1>2. CASE ~RestartTold(heard)
  <2>1. life' = life + 0 /\ TimestampsBefore(heard) = poseTimestamps
    BY <1>2 DEF Numbering, TimestampsBefore
  <2> QED BY <2>1 DEF PoseInv, Lives, Remembered
<1> QED BY <1>1, <1>2

LEMMA DroppedKeeps ==
  ASSUME PoseInv, NEW heard \in Messages, Dropped(heard)
  PROVE  PoseInv'
<1>1. /\ life' \in Nat /\ life <= life' /\ made' = made
      /\ Clocks(poseTimestamps')
      /\ \A i \in 1..Len(made) : made[i].life = life' => NotPast(made[i].poses, poseTimestamps')
  BY NumberingFacts DEF Dropped
<1>2. Lives'
  <2>1. ASSUME NEW i \in 1..Len(made) PROVE made[i].life <= life'
    BY <1>1, MadeFacts DEF PoseInv, Lives
  <2> QED BY <1>1, <2>1 DEF PoseInv, Lives
<1>3. PoseTimesAdvance'
  BY <1>1 DEF PoseInv, PoseTimesAdvance
<1> QED BY <1>1, <1>2, <1>3 DEF PoseInv, Remembered

LEMMA DeliveredKeeps ==
  ASSUME PoseInv, NEW heard \in Messages, Delivered(heard)
  PROVE  PoseInv'
<1> DEFINE before == TimestampsBefore(heard)
<1> DEFINE newest == [life |-> life', poses |-> heard.poses]
<1>1. /\ life' \in Nat /\ life <= life' /\ life \in Nat
      /\ Clocks(before)
      /\ \A i \in 1..Len(made) : made[i].life = life' => NotPast(made[i].poses, before)
  BY NumberingFacts DEF Delivered, PoseInv, Lives
<1>2. Clocks(heard.poses) /\ heard.poses \in PosesOf
  BY PosesAreClocks
<1>3. \A a \in DOMAIN heard.poses \cap DOMAIN before : before[a] < heard.poses[a]
  BY <1>1, <1>2 DEF Delivered, Regressed, Clocks
<1>4. poseTimestamps' = Remember(heard)
  BY DEF Delivered
<1> HIDE DEF before
<1>5. /\ Clocks(poseTimestamps')
      /\ DOMAIN poseTimestamps' = DOMAIN heard.poses \cup DOMAIN before
      /\ \A a \in DOMAIN heard.poses : poseTimestamps'[a] = heard.poses[a]
      /\ \A a \in DOMAIN before \ DOMAIN heard.poses : poseTimestamps'[a] = before[a]
  BY <1>1, <1>2, <1>4, RememberFacts DEF before
<1>6. made \in Seq(Made) /\ \A i \in 1..Len(made) : made[i].life <= life
  BY DEF PoseInv, Lives
<1>7. /\ newest.life = life' /\ made' = Append(made, newest)
      /\ newest \in Made
  BY <1>1, <1>2 DEF Delivered, Made
<1>8. /\ Len(made) \in Nat /\ Len(made') = Len(made) + 1
      /\ made' \in Seq(Made)
      /\ \A i \in 1..Len(made) : made'[i] = made[i]
      /\ made'[Len(made) + 1] = newest
  BY <1>6, <1>7
<1>9. Lives'
  <2>1. ASSUME NEW i \in 1..Len(made') PROVE made'[i].life <= life'
    <3>1. CASE i \in 1..Len(made)
      BY <3>1, <1>1, <1>6, <1>8, MadeFacts DEF PoseInv
    <3>2. CASE i = Len(made) + 1
      BY <3>2, <1>1, <1>7, <1>8
    <3> QED BY <3>1, <3>2, <1>8
  <2> QED BY <2>1, <1>1, <1>8 DEF Lives
<1>10. \A i \in 1..Len(made) : Clocks(made[i].poses)
  <2> SUFFICES ASSUME NEW i \in 1..Len(made) PROVE Clocks(made[i].poses)
    OBVIOUS
  <2>1. made[i].poses \in PosesOf
    BY MadeFacts DEF PoseInv
  <2> QED BY <2>1, MessagesAssumption DEF PosesOf
<1>11. Remembered'
  <2> SUFFICES ASSUME NEW i \in 1..Len(made'), made'[i].life = life',
                      NEW a \in DOMAIN made'[i].poses
               PROVE  a \in DOMAIN poseTimestamps' /\ made'[i].poses[a] <= poseTimestamps'[a]
    BY DEF Remembered, NotPast
  <2>1. CASE i = Len(made) + 1
    <3>1. made'[i].poses = heard.poses
      BY <2>1, <1>8
    <3>2. a \in DOMAIN heard.poses /\ heard.poses[a] \in Nat
      BY <3>1, <1>2 DEF Clocks
    <3> QED BY <3>1, <3>2, <1>5
  <2>2. CASE i \in 1..Len(made)
    <3>1. made'[i] = made[i]
      BY <2>2, <1>8
    <3>2. a \in DOMAIN before /\ made[i].poses[a] <= before[a]
      BY <2>2, <3>1, <1>1 DEF NotPast
    <3>3. made[i].poses[a] \in Nat /\ before[a] \in Nat
      BY <2>2, <3>1, <3>2, <1>1, <1>10 DEF Clocks
    <3>4. CASE a \in DOMAIN heard.poses
      <4>1. before[a] < heard.poses[a] /\ heard.poses[a] \in Nat
        BY <3>2, <3>4, <1>2, <1>3 DEF Clocks
      <4> QED BY <3>1, <3>2, <3>3, <3>4, <4>1, <1>5
    <3>5. CASE a \notin DOMAIN heard.poses
      BY <3>1, <3>2, <3>5, <1>5
    <3> QED BY <3>4, <3>5
  <2> QED BY <2>1, <2>2, <1>8
<1>12. PoseTimesAdvance'
  <2> SUFFICES ASSUME NEW i \in 1..Len(made'), NEW j \in 1..Len(made'), i < j,
                      made'[i].life = made'[j].life,
                      NEW a \in DOMAIN made'[i].poses \cap DOMAIN made'[j].poses
               PROVE  made'[i].poses[a] < made'[j].poses[a]
    BY DEF PoseTimesAdvance
  <2>1. i \in 1..Len(made) /\ made'[i] = made[i]
    BY <1>8
  <2>4. \A b \in DOMAIN made[i].poses : made[i].poses[b] \in Nat
    BY <2>1, <1>10 DEF Clocks
  <2>2. CASE j \in 1..Len(made)
    <3>1. made'[j] = made[j]
      BY <2>2, <1>8
    <3> QED BY <2>1, <2>2, <3>1 DEF PoseInv, PoseTimesAdvance
  <2>3. CASE j = Len(made) + 1
    <3>1. made'[j].poses = heard.poses /\ made'[j].life = life'
      BY <2>3, <1>8
    <3>2. a \in DOMAIN before /\ made[i].poses[a] <= before[a]
      BY <2>1, <3>1, <1>1 DEF NotPast
    <3>3. made[i].poses[a] \in Nat /\ before[a] \in Nat /\ heard.poses[a] \in Nat
      BY <2>1, <2>4, <3>1, <3>2, <1>1, <1>2 DEF Clocks
    <3>4. before[a] < heard.poses[a]
      BY <3>1, <3>2, <1>3
    <3> QED BY <2>1, <3>1, <3>2, <3>3, <3>4
  <2> QED BY <2>2, <2>3, <1>8
<1> QED BY <1>5, <1>9, <1>11, <1>12 DEF PoseInv

LEMMA PoseStays ==
  ASSUME PoseInv, UNCHANGED <<poseTimestamps, made, life>> PROVE PoseInv'
  BY DEF PoseInv, Lives, Remembered, NotPast, PoseTimesAdvance, Clocks

LEMMA PoseBegins ==
  ASSUME made' = <<>>, life' = 0, poseTimestamps' = Empty PROVE PoseInv'
<1>1. Clocks(poseTimestamps')
  BY EmptyFacts
<1>2. Lives' /\ Remembered' /\ PoseTimesAdvance'
  BY DEF Lives, Remembered, PoseTimesAdvance
<1> QED BY <1>1, <1>2 DEF PoseInv

LEMMA AcceptKeeps ==
  ASSUME PoseInv, NEW heard \in Messages \cup {Garbage}, NEW time, AcceptMessage(heard, time)
  PROVE  PoseInv'
<1>1. CASE Undecodable(heard)
  BY <1>1, PoseStays DEF Undecodable
<1>2. CASE Dropped(heard)
  BY <1>2, DroppedKeeps DEF Dropped
<1>3. CASE Delivered(heard)
  BY <1>3, DeliveredKeeps DEF Delivered
<1> QED BY <1>1, <1>2, <1>3 DEF AcceptMessage

LEMMA PoseStep == PoseInv /\ [Next]_vars => PoseInv'
<1> SUFFICES ASSUME PoseInv, [Next]_vars PROVE PoseInv'
  OBVIOUS
<1> USE DEF assembly, sender
<1>1. CASE UNCHANGED vars
  BY <1>1, PoseStays DEF vars
<1>2. CASE Tick
  BY <1>2, PoseStays DEF Tick
<1>3. CASE Close
  BY <1>3, PoseStays DEF Close
<1>4. CASE OpenRefused
  BY <1>4, PoseStays DEF OpenRefused
<1>5. ASSUME NEW requested, NEW chosen, NEW works, Open(requested, chosen, works)
      PROVE  PoseInv'
  BY <1>5, PoseBegins DEF Open
<1>6. CASE PollBuffered
  BY <1>6, PoseStays DEF PollBuffered
<1>7. CASE PollBegin
  BY <1>7, PoseStays DEF PollBegin
<1>8. ASSUME NEW newPeer, PeerOpened(newPeer) PROVE PoseInv'
  BY <1>8, PoseStays DEF PeerOpened
<1>9. ASSUME NEW heard \in Messages \cup {Garbage}, PeerMessage(heard) PROVE PoseInv'
  BY <1>9, AcceptKeeps DEF PeerMessage
<1>10. CASE PeerClosed
  BY <1>10, PoseStays DEF PeerClosed
<1>11. CASE PollReturns
  BY <1>11, PoseStays DEF PollReturns
<1>12. ASSUME NEW from, PushBegin(from) PROVE PoseInv'
  BY <1>12, PoseStays DEF PushBegin
<1>13. ASSUME NEW heard \in Messages \cup {Garbage}, NEW time, PushAccept(heard, time)
       PROVE  PoseInv'
  BY <1>13, AcceptKeeps DEF PushAccept
<1> QED BY <1>1, <1>2, <1>3, <1>4, <1>5, <1>6, <1>7, <1>8, <1>9, <1>10, <1>11, <1>12, <1>13
        DEF Next

-----------------------------------------------------------------------------
(* Silence.                                                                 *)

LEMMA SilenceKept ==
  ASSUME SilenceInv, UNCHANGED <<silenceReported, told>>,
         state' \in {state, "Error", "Disconnected", "Connecting"}
  PROVE  SilenceInv'
  BY DEF SilenceInv

LEMMA HeardEnds ==
  ASSUME NEW time, Heard(time) PROVE SilenceInv'
  BY DEF Heard, SilenceInv

LEMMA SilenceStep == SilenceInv /\ [Next]_vars => SilenceInv'
<1> SUFFICES ASSUME SilenceInv, [Next]_vars PROVE SilenceInv'
  OBVIOUS
<1> USE DEF silence
<1>1. CASE UNCHANGED vars
  BY <1>1, SilenceKept DEF vars
<1>2. CASE Tick
  BY <1>2, SilenceKept DEF Tick
<1>3. CASE Close
  BY <1>3, SilenceKept DEF Close
<1>4. CASE OpenRefused
  BY <1>4, SilenceKept DEF OpenRefused
<1>5. ASSUME NEW requested, NEW chosen, NEW works, Open(requested, chosen, works)
      PROVE  SilenceInv'
  BY <1>5 DEF Open, SilenceInv
<1>6. CASE PollBuffered
  BY <1>6, SilenceKept DEF PollBuffered
<1>7. CASE PollBegin
  BY <1>7, SilenceKept DEF PollBegin
<1>8. ASSUME NEW newPeer, PeerOpened(newPeer) PROVE SilenceInv'
  BY <1>8, HeardEnds DEF PeerOpened
<1>9. ASSUME NEW heard, PeerMessage(heard) PROVE SilenceInv'
  BY <1>9, HeardEnds DEF PeerMessage, AcceptMessage
<1>10. CASE PeerClosed
  BY <1>10, SilenceKept DEF PeerClosed
<1>11. CASE PollReturns
  <2>1. CASE SilenceDue
    <3>1. silenceReported = FALSE /\ silenceReported' = TRUE
      BY <1>11, <2>1 DEF PollReturns, CheckSilence, SilenceDue, SilenceInv
    <3>2. told = 0 /\ told' = told + 1
      BY <1>11, <2>1, <3>1 DEF PollReturns, CheckSilence, SilenceInv
    <3>3. state' # "Connected"
      BY <1>11, <2>1 DEF PollReturns, CheckSilence
    <3> QED BY <3>1, <3>2, <3>3 DEF SilenceInv
  <2>2. CASE ~SilenceDue
    <3>1. silenceReported' = silenceReported
      BY <1>11, <2>2 DEF PollReturns, CheckSilence, SilenceInv
    <3>2. told' = told + 0 /\ told \in Nat /\ state' = state
      BY <1>11, <2>2 DEF PollReturns, CheckSilence, SilenceInv
    <3> QED BY <3>1, <3>2, SilenceKept
  <2> QED BY <2>1, <2>2
<1>12. ASSUME NEW from, PushBegin(from) PROVE SilenceInv'
  BY <1>12, SilenceKept DEF PushBegin
<1>13. ASSUME NEW heard, NEW time, PushAccept(heard, time) PROVE SilenceInv'
  BY <1>13, HeardEnds DEF PushAccept, AcceptMessage
<1> QED BY <1>1, <1>2, <1>3, <1>4, <1>5, <1>6, <1>7, <1>8, <1>9, <1>10, <1>11, <1>12, <1>13
        DEF Next

-----------------------------------------------------------------------------

\* Connector::_AcceptMessage: an actor's timestamps strictly increase from one
\* told restart of the sender to the next, across dropped frames, reconnections
\* and replayed messages, for every set of messages.
THEOREM PoseOrder == Spec => []PoseTimesAdvance
<1>1. Init => PoseInv
  <2> SUFFICES ASSUME Init PROVE PoseInv
    OBVIOUS
  <2>1. made = <<>> /\ life = 0 /\ poseTimestamps = Empty
    BY DEF Init
  <2>2. Clocks(poseTimestamps)
    BY <2>1, EmptyFacts
  <2>3. Lives /\ Remembered /\ PoseTimesAdvance
    BY <2>1 DEF Lives, Remembered, PoseTimesAdvance
  <2> QED BY <2>2, <2>3 DEF PoseInv
<1>2. PoseInv => PoseTimesAdvance
  BY DEF PoseInv
<1> QED BY <1>1, <1>2, PoseStep, PTL DEF Spec

\* Connector::_CheckSilence: a silence is told once until something is heard,
\* and no link is Connected while its silence stands told.
THEOREM SilenceOnce == Spec => []SilenceToldOnce
<1>1. Init => SilenceInv
  BY DEF Init, SilenceInv
<1>2. SilenceInv => SilenceToldOnce
  BY DEF SilenceInv, SilenceToldOnce
<1> QED BY <1>1, <1>2, SilenceStep, PTL DEF Spec

\* What the connector promises of the stream it hands on, whole.
THEOREM StreamHonest == Spec => []StreamIsHonest
  BY PoseOrder, SilenceOnce, PTL DEF StreamIsHonest

-----------------------------------------------------------------------------
(* The opening handshake, for every request, path, list of origins and key. *)

\* Each end is where its own check of what the other sent has put it.
HandshakeInv ==
  /\ server # "handshake" =>
       /\ response = Handshake!AnswerUpgrade(request)
       /\ server = IF response.status = 101 THEN "open" ELSE "ended"
  /\ client # "handshake" =>
       /\ response # Handshake!NoHead
       /\ client = IF Handshake!CheckUpgradeResponse(response) THEN "open" ELSE "ended"

\* What the server writes when it switches is what the client looks for.
LEMMA SwitchingIsAccepted ==
  ASSUME NEW head, Handshake!Find(head, "sec-websocket-key") = <<Key>>
  PROVE  Handshake!CheckUpgradeResponse(Handshake!Switching(head))
<1> DEFINE answer == Handshake!Switching(head)
           lines == <<Handshake!Header("upgrade", <<"websocket">>),
                      Handshake!Header("connection", <<"upgrade">>),
                      Handshake!Header("sec-websocket-accept", <<Key>>),
                      Handshake!Header("sec-websocket-protocol", <<Subprotocol>>)>>
<1>1. answer.wellFormed /\ answer.status = 101 /\ answer.headers = lines
  BY DEF Handshake!Switching
<1>2. /\ DOMAIN lines = 1..4
      /\ lines[1].name = "upgrade" /\ lines[1].tokens = <<"websocket">>
      /\ lines[2].name = "connection" /\ lines[2].tokens = <<"upgrade">>
      /\ lines[3].name = "sec-websocket-accept" /\ lines[3].tokens = <<Key>>
      /\ lines[4].name = "sec-websocket-protocol" /\ lines[4].tokens = <<Subprotocol>>
  BY DEF Handshake!Header
<1> HIDE DEF answer, lines
<1>3. \A i \in DOMAIN lines : i = 1 \/ i = 2 \/ i = 3 \/ i = 4
  BY <1>2
<1>4. 1 \in DOMAIN lines /\ 2 \in DOMAIN lines /\ 3 \in DOMAIN lines /\ 4 \in DOMAIN lines
  BY <1>2
<1>5. /\ Handshake!Named(answer, "upgrade") = {1} /\ Handshake!Named(answer, "connection") = {2}
      /\ Handshake!Named(answer, "sec-websocket-accept") = {3}
      /\ Handshake!Named(answer, "sec-websocket-protocol") = {4}
      /\ Handshake!Named(answer, "sec-websocket-extensions") = {}
  BY <1>1, <1>2, <1>3, <1>4 DEF Handshake!Named
<1>6. ASSUME NEW i \in Nat, NEW name, Handshake!Named(answer, name) = {i}
      PROVE  /\ Handshake!Has(answer, name) /\ Handshake!CountHeader(answer, name) = 1
             /\ Handshake!Find(answer, name) = lines[i].tokens
             /\ \A t : lines[i].tokens = <<t>> => Handshake!ContainsToken(answer, name, t)
  <2>1. Handshake!CountHeader(answer, name) = 1
    <3>1. Handshake!CountHeader(answer, name) = Cardinality({i})
      BY <1>6 DEF Handshake!CountHeader, Handshake!Cardinality, Cardinality
    <3> QED BY <3>1, FS_Singleton
  <2>2. Handshake!Has(answer, name)
    BY <1>6 DEF Handshake!Has
  <2>3. (CHOOSE k \in Handshake!Named(answer, name) : \A j \in Handshake!Named(answer, name) : k <= j) = i
    BY <1>6
  <2>4. Handshake!Find(answer, name) = lines[i].tokens
    BY <1>1, <2>3 DEF Handshake!Find
  <2>5. ASSUME NEW t, lines[i].tokens = <<t>> PROVE Handshake!ContainsToken(answer, name, t)
    <3>1. t \in {lines[i].tokens[k] : k \in DOMAIN lines[i].tokens}
      BY <2>5
    <3> QED BY <1>1, <1>6, <3>1 DEF Handshake!ContainsToken, Handshake!Tokens
  <2> QED BY <2>1, <2>2, <2>4, <2>5
<1>7. Handshake!IsUpgrade(answer)
  BY <1>2, <1>5, <1>6 DEF Handshake!IsUpgrade
<1>8. /\ Handshake!Has(answer, "sec-websocket-accept")
      /\ Handshake!Find(answer, "sec-websocket-accept") = <<Key>>
      /\ Handshake!CountHeader(answer, "sec-websocket-protocol") = 1
      /\ Handshake!Find(answer, "sec-websocket-protocol") = <<Subprotocol>>
  BY <1>2, <1>5, <1>6
<1>9. ~Handshake!Has(answer, "sec-websocket-extensions")
  BY <1>5 DEF Handshake!Has
<1> QED BY <1>1, <1>7, <1>8, <1>9 DEF Handshake!CheckUpgradeResponse, answer

LEMMA AnswersAre ==
  ASSUME NEW head
  PROVE  /\ \A status : Handshake!Refuse(status).status = status
         /\ \/ Handshake!AnswerUpgrade(head) = Handshake!Switching(head)
            \/ \E status \in {400, 403, 404} : Handshake!AnswerUpgrade(head) = Handshake!Refuse(status)
         /\ head.wellFormed /\ ~Handshake!OriginAllowed(head) =>
              Handshake!AnswerUpgrade(head) = Handshake!Refuse(403)
<1>1. \A status : Handshake!Refuse(status).status = status
  BY DEF Handshake!Refuse
<1> QED BY <1>1 DEF Handshake!AnswerUpgrade

LEMMA HandshakeStep == HandshakeInv /\ [Handshake!Next]_Handshake!vars => HandshakeInv'
<1> SUFFICES ASSUME HandshakeInv, [Handshake!Next]_Handshake!vars PROVE HandshakeInv'
  OBVIOUS
<1>1. CASE UNCHANGED Handshake!vars
  BY <1>1 DEF HandshakeInv, Handshake!vars
<1>2. CASE Handshake!Answer
  <2>1. client = "handshake"
    BY <1>2 DEF HandshakeInv, Handshake!Answer
  <2> QED BY <1>2, <2>1 DEF HandshakeInv, Handshake!Answer
<1>3. ASSUME NEW head, Handshake!AnsweredElsewhere(head) PROVE HandshakeInv'
  <2>1. client = "handshake"
    BY <1>3 DEF HandshakeInv, Handshake!AnsweredElsewhere
  <2> QED BY <1>3, <2>1 DEF HandshakeInv, Handshake!AnsweredElsewhere
<1>4. CASE Handshake!Check
  BY <1>4 DEF HandshakeInv, Handshake!Check
<1> QED BY <1>1, <1>2, <1>3, <1>4 DEF Handshake!Next

LEMMA HandshakeTells == HandshakeInv => HandshakeInvariant
<1> SUFFICES ASSUME HandshakeInv PROVE Handshake!StrangersLearnNothing /\ Handshake!OpenTogether
  BY DEF HandshakeInvariant, Handshake!HandshakeInvariant
<1>1. Handshake!StrangersLearnNothing
  BY AnswersAre DEF HandshakeInv, Handshake!StrangersLearnNothing
<1>2. ASSUME server # "handshake", client # "handshake",
             Handshake!Find(request, "sec-websocket-key") = <<Key>>
      PROVE  (server = "open") = (client = "open")
  <2>1. /\ response = Handshake!AnswerUpgrade(request)
        /\ server = IF response.status = 101 THEN "open" ELSE "ended"
        /\ client = IF Handshake!CheckUpgradeResponse(response) THEN "open" ELSE "ended"
    BY <1>2 DEF HandshakeInv
  <2>2. CASE response = Handshake!Switching(request)
    <3>1. response.status = 101
      BY <2>2 DEF Handshake!Switching
    <3>2. Handshake!CheckUpgradeResponse(response)
      BY <1>2, <2>2, SwitchingIsAccepted
    <3> QED BY <2>1, <3>1, <3>2
  <2>3. CASE \E status \in {400, 403, 404} : response = Handshake!Refuse(status)
    <3>1. response.status # 101
      BY <2>3, AnswersAre
    <3>2. ~Handshake!CheckUpgradeResponse(response)
      BY <3>1 DEF Handshake!CheckUpgradeResponse
    <3> QED BY <2>1, <3>1, <3>2
  <2> QED BY <2>1, <2>2, <2>3, AnswersAre
<1>3. Handshake!OpenTogether
  BY <1>2 DEF Handshake!OpenTogether
<1> QED BY <1>1, <1>3

\* Rfc6455.cpp, AnswerUpgrade and CheckUpgradeResponse: a page whose origin is not
\* allowed gets one answer whatever it asks, and the two ends of a handshake with
\* the client's key open together or not at all.
THEOREM HandshakeKept == Handshake!Spec => []HandshakeInvariant
<1>1. Handshake!Init => HandshakeInv
  BY DEF Handshake!Init, Handshake!InitOf, HandshakeInv
<1> QED BY <1>1, HandshakeStep, HandshakeTells, PTL DEF Handshake!Spec

-----------------------------------------------------------------------------
(* Endpoint: how attempts to connect are spaced.                            *)

\* A set with one element more has twice as many subsets.
LEMMA PowersOfTwo ==
  ASSUME NEW n \in Nat
  PROVE  2^n \in Nat /\ 2^n > 0 /\ 2^(n + 1) = 2 * 2^n
<1> DEFINE old == SUBSET (1..n)
<1> DEFINE new == {S \cup {n + 1} : S \in old}
<1> DEFINE f == [S \in old |-> S \cup {n + 1}]
<1>1. /\ IsFiniteSet(1..n) /\ Cardinality(1..n) = n
      /\ IsFiniteSet(1..(n + 1)) /\ Cardinality(1..(n + 1)) = n + 1
  BY FS_Interval
<1>2. /\ IsFiniteSet(old) /\ Cardinality(old) = 2^n
      /\ Cardinality(SUBSET (1..(n + 1))) = 2^(n + 1)
  BY <1>1, FS_SUBSET
<1>3. 2^n \in Nat
  BY <1>2, FS_CardinalityType
<1>4. 2^n > 0
  <2>1. old # {}
    OBVIOUS
  <2>2. Cardinality(old) # 0
    BY <2>1, <1>2, FS_EmptySet
  <2> QED BY <2>2, <1>2, <1>3
<1>5. n + 1 \notin 1..n
  OBVIOUS
<1>6. f \in Bijection(old, new)
  <2>1. f \in [old -> new]
    OBVIOUS
  <2>2. \A S, T \in old : f[S] = f[T] => S = T
    BY <1>5
  <2>3. \A y \in new : \E S \in old : f[S] = y
    OBVIOUS
  <2> HIDE DEF f, old, new
  <2> QED BY <2>1, <2>2, <2>3 DEF Bijection, Injection, Surjection, IsInjective
<1>7. IsFiniteSet(new) /\ Cardinality(new) = 2^n
  <2> HIDE DEF f, old, new
  <2> QED BY <1>2, <1>6, FS_Bijection DEF ExistsBijection
<1>8. old \cap new = {}
  BY <1>5
<1>9. SUBSET (1..(n + 1)) = old \cup new
  <2>1. ASSUME NEW S \in SUBSET (1..(n + 1)) PROVE S \in old \cup new
    <3>1. CASE n + 1 \notin S
      BY <3>1
    <3>2. CASE n + 1 \in S
      <4>1. S \ {n + 1} \in old /\ S = (S \ {n + 1}) \cup {n + 1}
        BY <3>2
      <4> QED BY <4>1
    <3> QED BY <3>1, <3>2
  <2>2. ASSUME NEW S \in old \cup new PROVE S \in SUBSET (1..(n + 1))
    BY <2>2
  <2> QED BY <2>1, <2>2
<1>10. 2^(n + 1) = 2^n + 2^n - 0
  <2> HIDE DEF f, old, new
  <2>1. Cardinality(old \cup new) = Cardinality(old) + Cardinality(new) - Cardinality(old \cap new)
    BY <1>2, <1>7, FS_Union
  <2> QED BY <2>1, <1>2, <1>7, <1>8, <1>9, FS_EmptySet
<1> QED BY <1>3, <1>4, <1>10

\* How far apart the attempts after n + 1 failures are.
Spacing(n) == Endpoint!Least(ReconnectInitial * 2^n, ReconnectMax)

\* What is still to be waited, and what was, are the spacing of the failures so
\* far, and the next failure waits for the doubled one.
SpacedInv ==
  /\ wait \in Nat /\ since \in Nat /\ backoff \in Nat
  /\ failures \in Nat /\ failures <= ReconnectMax
  /\ Endpoint!Role = "Connect" =>
       /\ servicing # "accept"
       /\ backoff >= Spacing(failures)
       /\ failures > 0 => since + wait >= Spacing(failures - 1)

\* What the assumptions say of the one configuration there is.
Configured ==
  /\ Endpoint!Role \in {"Listen", "Connect"}
  /\ Endpoint!ReadBudget \in Nat \ {0}
  /\ PeerLimit \in Nat \ {0}
  /\ Endpoint!Role = "Connect" => PeerLimit = 1
  /\ ReconnectInitial \in Nat \ {0}
  /\ ReconnectMax \in Nat /\ ReconnectMax >= ReconnectInitial
  /\ PeerQueueMessages \in Nat /\ HandshakeTimeout \in Nat /\ LingerTime \in Nat

LEMMA IsConfigured ==
  ASSUME Endpoint!EndpointAssumption, config \in Configs
  PROVE  Configured
<1>1. config \in Endpoint!Config
  BY DEF Endpoint!EndpointAssumption
<1>2. config.role \in {"Listen", "Connect"} /\ config.readBudget \in Nat \ {0}
  BY <1>1 DEF Endpoint!Config
<1> QED BY <1>2 DEF Configured, Endpoint!EndpointAssumption, Endpoint!Role, Endpoint!ReadBudget

LEMMA ConfigStays ==
  ASSUME [Endpoint!Next]_Endpoint!vars
  PROVE  config' = config
BY DEF Endpoint!Next, Endpoint!Tick, Endpoint!Open, Endpoint!Close, Endpoint!Send,
       Endpoint!AcceptPeer, Endpoint!AcceptRefused, Endpoint!Service, Endpoint!ServiceBegin,
       Endpoint!AcceptEnds, Endpoint!ServiceConnecting, Endpoint!ServicePeer,
       Endpoint!ServiceEnd, Endpoint!vars

\* Every Open is given the same configuration.
LEMMA ConfiguredStays ==
  ASSUME Configured, [Endpoint!Next]_Endpoint!vars
  PROVE  Configured'
BY ConfigStays DEF Configured, Endpoint!Role, Endpoint!ReadBudget

LEMMA SpacingFacts ==
  ASSUME Configured
  PROVE  /\ Spacing(0) = ReconnectInitial
         /\ \A n \in Nat : /\ Spacing(n) \in Nat /\ Spacing(n) <= ReconnectMax
                           /\ Spacing(n) <= Spacing(n + 1)
                           /\ Spacing(n + 1) <= 2 * Spacing(n)
<1> DEFINE p(n) == ReconnectInitial * 2^n
<1>1. /\ ReconnectInitial \in Nat /\ ReconnectMax \in Nat /\ ReconnectInitial <= ReconnectMax
  BY DEF Configured
<1>2. Spacing(0) = ReconnectInitial
  <2>1. 2^0 = 1
    OBVIOUS
  <2> QED BY <1>1, <2>1 DEF Spacing, Endpoint!Least
<1>3. ASSUME NEW n \in Nat
      PROVE  /\ Spacing(n) \in Nat /\ Spacing(n) <= ReconnectMax
             /\ Spacing(n) <= Spacing(n + 1)
             /\ Spacing(n + 1) <= 2 * Spacing(n)
  <2>1. 2^n \in Nat /\ 2^(n + 1) = 2 * 2^n
    BY PowersOfTwo
  <2>2. p(n) \in Nat /\ p(n + 1) = 2 * p(n)
    <3> DEFINE q == 2^n
    <3>1. q \in Nat /\ p(n) = ReconnectInitial * q /\ p(n + 1) = ReconnectInitial * (2 * q)
      BY <2>1
    <3> HIDE DEF q
    <3>2. ReconnectInitial * q \in Nat /\ ReconnectInitial * (2 * q) = 2 * (ReconnectInitial * q)
      BY <3>1, <1>1
    <3> HIDE DEF p
    <3> QED BY <3>1, <3>2
  <2>3. /\ Spacing(n) = Endpoint!Least(p(n), ReconnectMax)
        /\ Spacing(n + 1) = Endpoint!Least(p(n + 1), ReconnectMax)
    BY DEF Spacing
  <2> HIDE DEF p
  <2> QED BY <1>1, <2>2, <2>3 DEF Endpoint!Least
<1> QED BY <1>2, <1>3

\* A failure moves to the next spacing.
LEMMA RetrySpaces ==
  ASSUME Configured, SpacedInv, Endpoint!Role = "Connect",
         NEW from \in Nat, NEW before \in Nat, before <= ReconnectMax,
         from >= Spacing(before), Endpoint!Retry(from, before)
  PROVE  /\ wait' \in Nat /\ since' \in Nat /\ backoff' \in Nat
         /\ failures' \in Nat /\ failures' <= ReconnectMax
         /\ backoff' >= Spacing(failures')
         /\ failures' > 0 => since' + wait' >= Spacing(failures' - 1)
<1>1. /\ wait' = from /\ backoff' = Endpoint!Least(2 * from, ReconnectMax)
      /\ since' = 0 /\ failures' = Endpoint!Least(before + 1, ReconnectMax)
  BY DEF Endpoint!Retry
<1>2. ReconnectMax \in Nat \ {0}
  BY DEF Configured
<1>3. CASE before < ReconnectMax
  <2>1. failures' = before + 1
    BY <1>1, <1>2, <1>3 DEF Endpoint!Least
  <2>2. /\ Spacing(before) \in Nat /\ Spacing(before + 1) \in Nat
        /\ Spacing(before + 1) <= ReconnectMax
        /\ Spacing(before + 1) <= 2 * Spacing(before)
    BY SpacingFacts
  <2>3. backoff' \in Nat /\ backoff' >= Spacing(before + 1)
    BY <1>1, <1>2, <2>2 DEF Endpoint!Least
  <2>4. failures' - 1 = before
    BY <2>1
  <2>5. Spacing(failures') = Spacing(before + 1) /\ Spacing(failures' - 1) = Spacing(before)
    BY ONLY <2>1, <2>4
  <2>6. since' + wait' >= Spacing(failures' - 1)
    BY <1>1, <2>2, <2>5
  <2>7. failures' \in Nat /\ failures' <= ReconnectMax
    BY <1>2, <1>3, <2>1
  <2> QED BY <1>1, <2>3, <2>5, <2>6, <2>7
<1>4. CASE before = ReconnectMax
  <2>1. failures' = before
    BY <1>1, <1>2, <1>4 DEF Endpoint!Least
  <2>2. before - 1 \in Nat /\ (before - 1) + 1 = before
    BY <1>2, <1>4
  <2>3. /\ Spacing(before) \in Nat /\ Spacing(before) <= ReconnectMax
        /\ Spacing(before - 1) \in Nat
    BY <2>2, SpacingFacts
  <2>4. Spacing(before - 1) <= Spacing(before)
    BY <2>2, SpacingFacts
  <2>5. backoff' \in Nat /\ backoff' >= Spacing(before)
    BY <1>1, <1>2, <2>3 DEF Endpoint!Least
  <2>6. Spacing(failures') = Spacing(before) /\ Spacing(failures' - 1) = Spacing(before - 1)
    BY ONLY <2>1
  <2>7. since' + wait' >= Spacing(failures' - 1)
    BY <1>1, <2>3, <2>4, <2>6
  <2> QED BY <1>1, <1>2, <1>4, <2>1, <2>5, <2>6, <2>7
<1> QED BY <1>2, <1>3, <1>4

\* Only the beginning of a turn, a peer's turn and the clock touch the spacing.
LEMMA BeginSpaces ==
  ASSUME Configured, Endpoint!Role' = Endpoint!Role, SpacedInv, Endpoint!ServiceBegin
  PROVE  SpacedInv'
<1>1. CASE Endpoint!Role = "Listen"
  BY <1>1 DEF Endpoint!ServiceBegin, Endpoint!ConnectFailed, Endpoint!dialling, SpacedInv
<1>2. CASE Endpoint!Role = "Connect"
  <2>1. servicing' = "peers"
    BY <1>2 DEF Endpoint!ServiceBegin
  <2>2. CASE UNCHANGED Endpoint!dialling
    BY <1>2, <2>1, <2>2 DEF Endpoint!dialling, SpacedInv
  <2>3. CASE Endpoint!ConnectFailed
    BY <1>2, <2>1, <2>3, RetrySpaces DEF Endpoint!ConnectFailed, SpacedInv
  <2> QED BY <1>2, <2>2, <2>3 DEF Endpoint!ServiceBegin
<1> QED BY <1>1, <1>2 DEF Configured

LEMMA EndsSpaces ==
  ASSUME Configured, Endpoint!Role' = Endpoint!Role, SpacedInv, NEW reading, NEW linger, NEW more,
         Endpoint!Ends(reading, linger, more), servicing' = servicing
  PROVE  SpacedInv'
<1>1. Endpoint!Retry(Endpoint!BackoffAfter(reading), IF reading.opened THEN 0 ELSE failures)
  BY DEF Endpoint!Ends
<1>2. CASE Endpoint!Role = "Connect"
  <2>1. CASE reading.opened
    <3>1. Endpoint!Retry(ReconnectInitial, 0)
      BY <1>1, <1>2, <2>1 DEF Endpoint!BackoffAfter
    <3>2. ReconnectInitial \in Nat /\ ReconnectInitial >= Spacing(0) /\ 0 <= ReconnectMax
      BY SpacingFacts DEF Configured
    <3> QED BY <1>2, <3>1, <3>2, RetrySpaces DEF SpacedInv
  <2>2. CASE ~reading.opened
    <3>1. Endpoint!Retry(backoff, failures)
      BY <1>1, <2>2 DEF Endpoint!BackoffAfter
    <3> QED BY <1>2, <3>1, RetrySpaces DEF SpacedInv
  <2> QED BY <2>1, <2>2
<1>3. CASE Endpoint!Role # "Connect"
  <2>1. UNCHANGED <<wait, backoff, since, failures>>
    BY <1>1, <1>3 DEF Endpoint!Retry
  <2> QED BY <1>3, <2>1 DEF SpacedInv
<1> QED BY <1>2, <1>3

LEMMA StaysSpaces ==
  ASSUME Configured, Endpoint!Role' = Endpoint!Role, SpacedInv, NEW reading, Endpoint!Stays(reading),
         servicing' = servicing
  PROVE  SpacedInv'
<1>1. /\ backoff' = Endpoint!BackoffAfter(reading)
      /\ wait' = wait /\ since' = since
      /\ failures' = IF reading.opened THEN 0 ELSE failures
  BY DEF Endpoint!Stays
<1>2. ReconnectInitial \in Nat /\ ReconnectMax \in Nat
  BY DEF Configured
<1>3. CASE reading.opened
  <2>1. failures' = 0
    BY <1>1, <1>3
  <2>2. Endpoint!Role = "Connect" => backoff' = ReconnectInitial /\ backoff' >= Spacing(0)
    BY <1>1, <1>2, <1>3, SpacingFacts DEF Endpoint!BackoffAfter
  <2> QED BY <1>1, <1>2, <2>1, <2>2 DEF SpacedInv, Endpoint!BackoffAfter
<1>4. CASE ~reading.opened
  BY <1>1, <1>4 DEF SpacedInv, Endpoint!BackoffAfter
<1> QED BY <1>3, <1>4

LEMMA ServicePeerSpaces ==
  ASSUME Configured, Endpoint!Role' = Endpoint!Role, SpacedInv, NEW batch, Endpoint!ServicePeer(batch)
  PROVE  SpacedInv'
<1> DEFINE reading == Endpoint!Reading(Endpoint!Made(peers[turn]), batch)
<1>1. servicing' = servicing
  BY DEF Endpoint!ServicePeer
<1>2. \/ \E linger, more : Endpoint!Ends(reading, linger, more)
      \/ Endpoint!Stays(reading)
  BY DEF Endpoint!ServicePeer
<1> HIDE DEF reading
<1> QED BY <1>1, <1>2, EndsSpaces, StaysSpaces

LEMMA TickSpaces ==
  ASSUME Configured, Endpoint!Role' = Endpoint!Role, SpacedInv, Endpoint!Tick
  PROVE  SpacedInv'
<1>1. /\ wait' = IF wait = 0 THEN 0 ELSE wait - 1
      /\ since' = IF Endpoint!Role = "Connect" THEN Endpoint!Least(since + 1, ReconnectMax) ELSE since
      /\ UNCHANGED <<backoff, failures, servicing>>
  BY DEF Endpoint!Tick
<1>2. ReconnectMax \in Nat
  BY DEF Configured
<1>3. wait' \in Nat /\ since' \in Nat
  BY <1>1, <1>2 DEF SpacedInv, Endpoint!Least
<1>4. ASSUME Endpoint!Role = "Connect", failures > 0 PROVE since' + wait' >= Spacing(failures - 1)
  <2>1. failures - 1 \in Nat
    BY <1>4 DEF SpacedInv
  <2>2. Spacing(failures - 1) \in Nat /\ Spacing(failures - 1) <= ReconnectMax
    BY <2>1, SpacingFacts
  <2>3. since + wait >= Spacing(failures - 1) /\ since \in Nat /\ wait \in Nat
    BY <1>4 DEF SpacedInv
  <2> QED BY <1>1, <1>2, <1>4, <2>2, <2>3 DEF Endpoint!Least
<1> QED BY <1>1, <1>3, <1>4 DEF SpacedInv

LEMMA ConnectingSpaces ==
  ASSUME Configured, Endpoint!Role' = Endpoint!Role, SpacedInv, Endpoint!ServiceConnecting
  PROVE  SpacedInv'
<1>1. servicing' = servicing
  BY DEF Endpoint!ServiceConnecting
<1>2. CASE UNCHANGED Endpoint!dialling
  BY <1>1, <1>2 DEF Endpoint!dialling, SpacedInv
<1>3. CASE Endpoint!ConnectFailed
  <2>1. Endpoint!Retry(backoff, failures)
    BY <1>3 DEF Endpoint!ConnectFailed
  <2>2. CASE Endpoint!Role = "Connect"
    BY <1>1, <2>1, <2>2, RetrySpaces DEF SpacedInv
  <2>3. CASE Endpoint!Role # "Connect"
    BY <1>1, <2>1, <2>3 DEF Endpoint!Retry, SpacedInv
  <2> QED BY <2>2, <2>3
<1> QED BY <1>2, <1>3 DEF Endpoint!ServiceConnecting

LEMMA EndpointStepSpaces ==
  ASSUME Configured, SpacedInv, [Endpoint!Next]_Endpoint!vars
  PROVE  SpacedInv'
<1>1. Endpoint!Role' = Endpoint!Role
  BY ConfigStays DEF Endpoint!Role
<1>2. CASE Endpoint!Tick
  BY <1>1, <1>2, TickSpaces
<1>3. ASSUME NEW possible \in BOOLEAN, Endpoint!Open(possible) PROVE SpacedInv'
  <2>1. /\ wait' = 0 /\ backoff' = ReconnectInitial /\ since' = 0 /\ failures' = 0
        /\ servicing' = "none"
    BY <1>3 DEF Endpoint!Open, Endpoint!Clear
  <2>2. ReconnectInitial \in Nat /\ ReconnectMax \in Nat
    BY DEF Configured
  <2> QED BY <1>1, <2>1, <2>2, SpacingFacts DEF SpacedInv
<1>4. CASE Endpoint!Close
  BY <1>1, <1>4 DEF Endpoint!Close, Endpoint!Clear, Endpoint!dialling, SpacedInv
<1>5. CASE Endpoint!Send
  BY <1>1, <1>5 DEF Endpoint!Send, Endpoint!dialling, SpacedInv
<1>6. CASE Endpoint!AcceptPeer
  BY <1>1, <1>6 DEF Endpoint!AcceptPeer, Endpoint!dialling, SpacedInv
<1>7. CASE Endpoint!AcceptRefused
  BY <1>1, <1>7 DEF Endpoint!AcceptRefused, Endpoint!dialling, SpacedInv
<1>8. CASE Endpoint!ServiceBegin
  BY <1>1, <1>8, BeginSpaces
<1>9. CASE Endpoint!AcceptEnds
  BY <1>1, <1>9 DEF Endpoint!AcceptEnds, Endpoint!dialling, SpacedInv
<1>10. CASE Endpoint!ServiceConnecting
  BY <1>1, <1>10, ConnectingSpaces
<1>11. ASSUME NEW batch, Endpoint!ServicePeer(batch) PROVE SpacedInv'
  BY <1>1, <1>11, ServicePeerSpaces
<1>12. ASSUME NEW taken, NEW gone, Endpoint!ServiceEnd(taken, gone) PROVE SpacedInv'
  BY <1>1, <1>12 DEF Endpoint!ServiceEnd, Endpoint!dialling, SpacedInv
<1>13. CASE UNCHANGED Endpoint!vars
  BY <1>1, <1>13 DEF Endpoint!vars, Endpoint!dialling, SpacedInv
<1> QED BY <1>2, <1>3, <1>4, <1>5, <1>6, <1>7, <1>8, <1>9, <1>10, <1>11, <1>12, <1>13
        DEF Endpoint!Next, Endpoint!Service

\* Only an attempt of the connect role makes a connection.
LEMMA AttemptWaited ==
  ASSUME Configured, SpacedInv, [Endpoint!Next]_Endpoint!vars,
         Endpoint!Role = "Connect", accepts' # accepts, failures > 0
  PROVE  since >= Spacing(failures - 1)
<1>1. servicing # "accept"
  BY DEF SpacedInv
<1>2. Endpoint!ServiceBegin
  <2>1. ~Endpoint!AcceptPeer
    BY <1>1 DEF Endpoint!AcceptPeer
  <2>2. /\ ~Endpoint!Tick /\ ~Endpoint!Close /\ ~Endpoint!Send /\ ~Endpoint!AcceptRefused
        /\ \A possible : ~Endpoint!Open(possible)
    BY DEF Endpoint!Tick, Endpoint!Close, Endpoint!Send, Endpoint!AcceptRefused, Endpoint!Open
  <2>3. /\ ~Endpoint!AcceptEnds /\ ~Endpoint!ServiceConnecting
        /\ \A batch : ~Endpoint!ServicePeer(batch)
        /\ \A taken, gone : ~Endpoint!ServiceEnd(taken, gone)
    BY DEF Endpoint!AcceptEnds, Endpoint!ServiceConnecting, Endpoint!ServicePeer,
           Endpoint!ServiceEnd
  <2>4. ~(UNCHANGED Endpoint!vars)
    BY DEF Endpoint!vars
  <2> QED BY <2>1, <2>2, <2>3, <2>4 DEF Endpoint!Next, Endpoint!Service
<1>3. wait = 0
  BY <1>2 DEF Endpoint!ServiceBegin
<1> QED BY <1>3 DEF SpacedInv

\* Between two completed handshakes the attempts of a connect role are spaced by
\* the doubled backoff, for every backoff and every order of failures.
THEOREM AttemptsWait ==
  ASSUME Endpoint!EndpointAssumption
  PROVE  Endpoint!Spec => AttemptsSpaced
<1>1. Endpoint!Init => Configured /\ SpacedInv
  <2> SUFFICES ASSUME Endpoint!Init PROVE Configured /\ SpacedInv
    OBVIOUS
  <2>1. Configured
    BY IsConfigured DEF Endpoint!Init, Endpoint!InitOf
  <2>2. ReconnectInitial \in Nat /\ ReconnectMax \in Nat
    BY <2>1 DEF Configured
  <2> QED BY <2>1, <2>2, SpacingFacts DEF Endpoint!Init, Endpoint!InitOf, SpacedInv
<1>2. (Configured /\ SpacedInv) /\ [Endpoint!Next]_Endpoint!vars => (Configured /\ SpacedInv)'
  BY ConfiguredStays, EndpointStepSpaces
<1>3. (Configured /\ SpacedInv) /\ [Endpoint!Next]_Endpoint!vars
        => [(Endpoint!Role = "Connect" /\ accepts' # accepts /\ failures > 0) =>
              since >= Endpoint!Least(ReconnectInitial * 2^(failures - 1), ReconnectMax)]_Endpoint!vars
  BY AttemptWaited DEF Spacing
<1> QED BY <1>1, <1>2, <1>3, PTL DEF Endpoint!Spec, AttemptsSpaced, Endpoint!AttemptsSpaced

-----------------------------------------------------------------------------
(* Endpoint: what a socket takes, and what waits for it.                    *)

\* What is on a wire.
Kinds == {"request", "answer", "refusal", "pong", "close", "text"}
Unit == [frame : [kind : Kinds, number : Nat], part : {1, 2}]

\* The last frame of s is there whole.
Whole(s) == s = <<>> \/ s[Len(s)].part = 2

\* No close frame, no text from n on, none before n.
NoClose(s) == \A i \in 1..Len(s) : s[i].frame # Endpoint!CloseFrame
TextsBelow(s, n) == \A i \in 1..Len(s) : s[i].frame.kind = "text" => s[i].frame.number < n
TextsFrom(s, n) == \A i \in 1..Len(s) : s[i].frame.kind = "text" => s[i].frame.number >= n

LEMMA UnitFacts ==
  ASSUME NEW s \in Seq(Unit)
  PROVE  /\ Len(s) \in Nat /\ DOMAIN s = 1..Len(s)
         /\ \A i \in 1..Len(s) : /\ s[i] \in Unit /\ s[i].part \in {1, 2}
                                 /\ s[i].frame.number \in Nat
<1>1. /\ Len(s) \in Nat /\ DOMAIN s = 1..Len(s)
      /\ \A i \in 1..Len(s) : s[i] \in Unit
  OBVIOUS
<1>2. \A u \in Unit : u.part \in {1, 2} /\ u.frame.number \in Nat
  BY DEF Unit
<1> QED BY <1>1, <1>2

LEMMA FramesAt ==
  ASSUME NEW s \in Seq(Unit), Endpoint!WholeFrames(s), NEW i \in 1..Len(s)
  PROVE  /\ i = 1 => s[i].part = 1
         /\ i > 1 => s[i].part = 3 - s[i - 1].part
         /\ s[i].part = 2 => i > 1 /\ s[i].frame = s[i - 1].frame
         /\ s[i].part = 1 =>
              \A j \in 1..(i - 1) :
                /\ s[j].frame # Endpoint!CloseFrame
                /\ (s[i].frame.kind = "text" /\ s[j].frame.kind = "text") =>
                     s[j].frame.number < s[i].frame.number
<1>1. i \in DOMAIN s
  BY UnitFacts
<1>2. i = 1 => s[i].part = 1
  BY <1>1 DEF Endpoint!WholeFrames
<1>3. i > 1 => s[i].part = 3 - s[i - 1].part
  BY <1>1 DEF Endpoint!WholeFrames
<1>4. i = 1 \/ i > 1
  OBVIOUS
<1>5. s[i].part = 2 => i > 1 /\ s[i].frame = s[i - 1].frame
  BY <1>1, <1>2, <1>4 DEF Endpoint!WholeFrames
<1> QED BY <1>1, <1>2, <1>3, <1>5 DEF Endpoint!WholeFrames

LEMMA FramesAre ==
  ASSUME NEW s \in Seq(Unit),
         \A i \in 1..Len(s) :
           /\ i = 1 => s[i].part = 1
           /\ i > 1 => s[i].part = 3 - s[i - 1].part
           /\ s[i].part = 2 => s[i].frame = s[i - 1].frame
           /\ s[i].part = 1 =>
                \A j \in 1..(i - 1) :
                  /\ s[j].frame # Endpoint!CloseFrame
                  /\ (s[i].frame.kind = "text" /\ s[j].frame.kind = "text") =>
                       s[j].frame.number < s[i].frame.number
  PROVE  Endpoint!WholeFrames(s)
<1>1. DOMAIN s = 1..Len(s) /\ \A i \in 1..Len(s) : i = 1 \/ i > 1
  BY UnitFacts
<1> QED BY <1>1 DEF Endpoint!WholeFrames

\* Whole frames followed by frames with later texts.
LEMMA FramesJoin ==
  ASSUME NEW a \in Seq(Unit), NEW b \in Seq(Unit), NEW n \in Nat,
         Endpoint!WholeFrames(a), Whole(a), NoClose(a), TextsBelow(a, n),
         Endpoint!WholeFrames(b), TextsFrom(b, n)
  PROVE  /\ a \o b \in Seq(Unit)
         /\ Endpoint!WholeFrames(a \o b)
         /\ Whole(b) => Whole(a \o b)
<1> DEFINE s == a \o b
<1>1. /\ s \in Seq(Unit) /\ Len(s) = Len(a) + Len(b) /\ Len(a) \in Nat /\ Len(b) \in Nat
      /\ \A i \in 1..Len(a) : s[i] = a[i]
      /\ \A i \in 1..Len(b) : s[Len(a) + i] = b[i]
      /\ b = <<>> => s = a
  BY ConcatProperties, ConcatEmptySeq
<1>2. \A i \in 1..Len(s) : s[i].part \in {1, 2} /\ s[i].frame.number \in Nat
  BY <1>1, UnitFacts
<1> HIDE DEF s
<1>3. ASSUME NEW i \in 1..Len(s)
      PROVE  /\ i = 1 => s[i].part = 1
             /\ i > 1 => s[i].part = 3 - s[i - 1].part
             /\ s[i].part = 2 => s[i].frame = s[i - 1].frame
             /\ s[i].part = 1 =>
                  \A j \in 1..(i - 1) :
                    /\ s[j].frame # Endpoint!CloseFrame
                    /\ (s[i].frame.kind = "text" /\ s[j].frame.kind = "text") =>
                         s[j].frame.number < s[i].frame.number
  <2>1. CASE i \in 1..Len(a)
    <3>1. s[i] = a[i] /\ \A j \in 1..(i - 1) : s[j] = a[j]
      BY <1>1, <2>1
    <3>2. i > 1 => s[i - 1] = a[i - 1]
      BY <1>1, <2>1
    <3>3. /\ i = 1 => a[i].part = 1
          /\ i > 1 => a[i].part = 3 - a[i - 1].part
          /\ a[i].part = 2 => i > 1 /\ a[i].frame = a[i - 1].frame
          /\ a[i].part = 1 =>
               \A j \in 1..(i - 1) :
                 /\ a[j].frame # Endpoint!CloseFrame
                 /\ (a[i].frame.kind = "text" /\ a[j].frame.kind = "text") =>
                      a[j].frame.number < a[i].frame.number
      BY <2>1, FramesAt
    <3> QED BY <3>1, <3>2, <3>3
  <2>2. CASE i \notin 1..Len(a)
    <3> DEFINE k == i - Len(a)
    <3>1. k \in 1..Len(b) /\ i = Len(a) + k
      BY <1>1, <2>2
    <3>2. s[i] = b[k]
      BY <1>1, <3>1
    <3>3. k > 1 => s[i - 1] = b[k - 1]
      <4> SUFFICES ASSUME k > 1 PROVE s[i - 1] = b[k - 1]
        OBVIOUS
      <4>1. k - 1 \in 1..Len(b) /\ i - 1 = Len(a) + (k - 1)
        BY <1>1, <3>1
      <4> QED BY <1>1, <4>1
    <3>4. k = 1 /\ i > 1 => s[i - 1] = a[Len(a)] /\ a # <<>>
      <4> SUFFICES ASSUME k = 1, i > 1 PROVE s[i - 1] = a[Len(a)] /\ a # <<>>
        OBVIOUS
      <4>1. i - 1 = Len(a) /\ Len(a) \in 1..Len(a)
        BY <1>1, <3>1
      <4>2. a # <<>>
        BY <4>1
      <4> QED BY <1>1, <4>1, <4>2
    <3>5. /\ k = 1 => b[k].part = 1
          /\ k > 1 => b[k].part = 3 - b[k - 1].part
          /\ b[k].part = 2 => k > 1 /\ b[k].frame = b[k - 1].frame
          /\ b[k].part = 1 =>
               \A j \in 1..(k - 1) :
                 /\ b[j].frame # Endpoint!CloseFrame
                 /\ (b[k].frame.kind = "text" /\ b[j].frame.kind = "text") =>
                      b[j].frame.number < b[k].frame.number
      BY <3>1, FramesAt
    <3>6. k = 1 \/ k > 1
      BY <3>1
    <3> HIDE DEF k
    <3>7. i = 1 => s[i].part = 1
      <4>1. i = 1 => k = 1
        BY <1>1, <3>1
      <4> QED BY <3>2, <3>5, <4>1
    <3>8. i > 1 => s[i].part = 3 - s[i - 1].part
      <4>1. CASE k > 1
        BY <3>2, <3>3, <3>5, <4>1
      <4>2. CASE k = 1
        BY <3>2, <3>4, <3>5, <4>2 DEF Whole
      <4> QED BY <3>6, <4>1, <4>2
    <3>9. s[i].part = 2 => s[i].frame = s[i - 1].frame
      BY <3>2, <3>3, <3>5
    <3>10. ASSUME s[i].part = 1, NEW j \in 1..(i - 1)
          PROVE  /\ s[j].frame # Endpoint!CloseFrame
                 /\ (s[i].frame.kind = "text" /\ s[j].frame.kind = "text") =>
                      s[j].frame.number < s[i].frame.number
      <4>1. CASE j \in 1..Len(a)
        <5>1. s[j] = a[j] /\ s[j].frame # Endpoint!CloseFrame
          BY <1>1, <4>1 DEF NoClose
        <5>2. s[j].frame.kind = "text" => s[j].frame.number < n
          BY <4>1, <5>1 DEF TextsBelow
        <5>3. s[i].frame.kind = "text" => s[i].frame.number >= n
          BY <3>1, <3>2 DEF TextsFrom
        <5>4. s[i].frame.number \in Nat /\ s[j].frame.number \in Nat
          BY <1>1, <1>2, <4>1
        <5> QED BY <5>1, <5>2, <5>3, <5>4
      <4>2. CASE j \notin 1..Len(a)
        <5>1. j - Len(a) \in 1..(k - 1) /\ j = Len(a) + (j - Len(a)) /\ j - Len(a) \in 1..Len(b)
          BY <1>1, <3>1, <4>2
        <5>2. s[j] = b[j - Len(a)]
          BY <1>1, <5>1
        <5> QED BY <3>2, <3>5, <3>10, <5>1, <5>2
      <4> QED BY <4>1, <4>2
    <3> QED BY <3>7, <3>8, <3>9, <3>10
  <2> QED BY <2>1, <2>2
<1>4. Endpoint!WholeFrames(s)
  BY <1>1, <1>3, FramesAre
<1>5. Whole(b) => Whole(s)
  <2>1. CASE b = <<>>
    BY <1>1, <2>1
  <2>2. CASE b # <<>>
    <3>1. Len(b) \in 1..Len(b) /\ Len(s) = Len(a) + Len(b)
      BY <1>1, <2>2, EmptySeq
    <3>2. s[Len(s)] = b[Len(b)]
      BY <1>1, <3>1
    <3> QED BY <2>2, <3>2 DEF Whole
  <2> QED BY <2>1, <2>2
<1> QED BY <1>1, <1>4, <1>5 DEF s

LEMMA FramesBegin ==
  ASSUME NEW a \in Seq(Unit), NEW b \in Seq(Unit), Endpoint!WholeFrames(a \o b)
  PROVE  Endpoint!WholeFrames(a)
<1> DEFINE s == a \o b
<1>1. /\ s \in Seq(Unit) /\ Len(s) = Len(a) + Len(b) /\ Len(a) \in Nat /\ Len(b) \in Nat
      /\ \A i \in 1..Len(a) : s[i] = a[i]
  BY ConcatProperties
<1>2. Endpoint!WholeFrames(s)
  OBVIOUS
<1> HIDE DEF s
<1>3. ASSUME NEW i \in 1..Len(a)
      PROVE  /\ i = 1 => a[i].part = 1
             /\ i > 1 => a[i].part = 3 - a[i - 1].part
             /\ a[i].part = 2 => a[i].frame = a[i - 1].frame
             /\ a[i].part = 1 =>
                  \A j \in 1..(i - 1) :
                    /\ a[j].frame # Endpoint!CloseFrame
                    /\ (a[i].frame.kind = "text" /\ a[j].frame.kind = "text") =>
                         a[j].frame.number < a[i].frame.number
  <2>1. i \in 1..Len(s) /\ s[i] = a[i] /\ \A j \in 1..(i - 1) : s[j] = a[j]
    BY <1>1
  <2>2. i > 1 => s[i - 1] = a[i - 1]
    BY <1>1
  <2>3. /\ i = 1 => s[i].part = 1
        /\ i > 1 => s[i].part = 3 - s[i - 1].part
        /\ s[i].part = 2 => i > 1 /\ s[i].frame = s[i - 1].frame
        /\ s[i].part = 1 =>
             \A j \in 1..(i - 1) :
               /\ s[j].frame # Endpoint!CloseFrame
               /\ (s[i].frame.kind = "text" /\ s[j].frame.kind = "text") =>
                    s[j].frame.number < s[i].frame.number
    BY <1>1, <1>2, <2>1, FramesAt
  <2> QED BY <2>1, <2>2, <2>3
<1> QED BY <1>3, FramesAre

\* What follows the head of a frame, with it.
LEMMA FramesEnd ==
  ASSUME NEW s \in Seq(Unit), NEW p \in 1..Len(s), s[p].part = 1, Endpoint!WholeFrames(s)
  PROVE  LET t == SubSeq(s, p, Len(s))
         IN  /\ t \in Seq(Unit) /\ Len(t) = Len(s) - p + 1
             /\ \A i \in 1..Len(t) : t[i] = s[p + i - 1]
             /\ Endpoint!WholeFrames(t)
<1> DEFINE t == SubSeq(s, p, Len(s))
<1>1. /\ Len(s) \in Nat /\ t \in Seq(Unit) /\ Len(t) = Len(s) - p + 1
      /\ \A i \in 1..Len(t) : t[i] = s[p + i - 1]
  OBVIOUS
<1> HIDE DEF t
<1>2. ASSUME NEW i \in 1..Len(t)
      PROVE  /\ i = 1 => t[i].part = 1
             /\ i > 1 => t[i].part = 3 - t[i - 1].part
             /\ t[i].part = 2 => t[i].frame = t[i - 1].frame
             /\ t[i].part = 1 =>
                  \A j \in 1..(i - 1) :
                    /\ t[j].frame # Endpoint!CloseFrame
                    /\ (t[i].frame.kind = "text" /\ t[j].frame.kind = "text") =>
                         t[j].frame.number < t[i].frame.number
  <2> DEFINE k == p + i - 1
  <2>1. k \in 1..Len(s) /\ t[i] = s[k]
    BY <1>1
  <2>2. i > 1 => k > 1 /\ t[i - 1] = s[k - 1]
    <3> SUFFICES ASSUME i > 1 PROVE k > 1 /\ t[i - 1] = s[k - 1]
      OBVIOUS
    <3>1. i - 1 \in 1..Len(t) /\ p + (i - 1) - 1 = k - 1 /\ k > 1
      BY <1>1
    <3> QED BY <1>1, <3>1
  <2>3. ASSUME NEW j \in 1..(i - 1) PROVE p + j - 1 \in 1..(k - 1) /\ t[j] = s[p + j - 1]
    <3>1. j \in 1..Len(t) /\ p + j - 1 \in 1..(k - 1)
      BY <1>1
    <3> QED BY <1>1, <3>1
  <2>4. (i = 1 => k = p) /\ (i = 1 \/ i > 1)
    OBVIOUS
  <2>5. /\ k > 1 => s[k].part = 3 - s[k - 1].part
        /\ s[k].part = 2 => k > 1 /\ s[k].frame = s[k - 1].frame
        /\ s[k].part = 1 =>
             \A j \in 1..(k - 1) :
               /\ s[j].frame # Endpoint!CloseFrame
               /\ (s[k].frame.kind = "text" /\ s[j].frame.kind = "text") =>
                    s[j].frame.number < s[k].frame.number
    BY <2>1, FramesAt
  <2> HIDE DEF k
  <2>6. i = 1 => t[i].part = 1
    BY <2>1, <2>4
  <2>7. i > 1 => t[i].part = 3 - t[i - 1].part
    BY <2>1, <2>2, <2>5
  <2>8. t[i].part = 2 => t[i].frame = t[i - 1].frame
    BY <2>1, <2>2, <2>4, <2>5, <2>6
  <2>9. ASSUME t[i].part = 1, NEW j \in 1..(i - 1)
        PROVE  /\ t[j].frame # Endpoint!CloseFrame
               /\ (t[i].frame.kind = "text" /\ t[j].frame.kind = "text") =>
                    t[j].frame.number < t[i].frame.number
    <3>1. p + j - 1 \in 1..(k - 1) /\ t[j] = s[p + j - 1]
      BY <2>3
    <3> QED BY <2>1, <2>5, <2>9, <3>1
  <2> QED BY <2>6, <2>7, <2>8, <2>9
<1>3. Endpoint!WholeFrames(t)
  BY <1>1, <1>2, FramesAre
<1> QED BY <1>1, <1>3 DEF t

\* Every set of numbers has a least one.
LEMMA LeastExists ==
  ASSUME NEW free \in SUBSET Nat, free # {}
  PROVE  \E h \in free : \A k \in free : h <= k
<1> DEFINE Below(h) == {k \in free : k < h}
           Belows == {Below(h) : h \in free}
<1>1. \A h \in free : Below(h) \in FiniteSubsetsOf(Nat)
  <2> SUFFICES ASSUME NEW h \in free PROVE Below(h) \in FiniteSubsetsOf(Nat)
    OBVIOUS
  <2>1. h \in Nat /\ IsFiniteSet(0..h)
    BY FS_Interval
  <2>2. Below(h) \in SUBSET (0..h) /\ Below(h) \in SUBSET Nat
    <3>1. \A k \in free : k \in Nat /\ (k < h => k \in 0..h)
      BY <2>1
    <3> QED BY <3>1
  <2>3. IsFiniteSet(Below(h))
    BY <2>1, <2>2, FS_Subset
  <2> QED BY <2>2, <2>3 DEF FiniteSubsetsOf
<1>2. Belows \subseteq FiniteSubsetsOf(Nat) /\ Belows # {}
  BY <1>1
<1>3. PICK least \in Belows : \A other \in Belows : <<other, least>> \notin StrictSubsetOrdering(Nat)
  <2> HIDE DEF Belows
  <2> QED BY <1>2, WFMin, FS_StrictSubsetOrderingWellFounded
<1>4. PICK h \in free : least = Below(h)
  BY <1>3
<1>5. ASSUME NEW k \in free, k < h PROVE FALSE
  <2>1. k \in Nat /\ h \in Nat
    OBVIOUS
  <2>2. Below(k) \subseteq Below(h) /\ k \in Below(h) /\ k \notin Below(k)
    <3>1. ~(k < k) /\ \A x \in free : x < k => x < h
      BY <1>5, <2>1
    <3> QED BY <1>5, <3>1
  <2>3. Below(k) \in SUBSET Nat /\ Below(h) \in SUBSET Nat /\ Below(k) # Below(h)
    BY <2>2
  <2>4. <<Below(k), Below(h)>> \in StrictSubsetOrdering(Nat)
    <3> HIDE DEF Below
    <3> QED BY <2>2, <2>3 DEF StrictSubsetOrdering
  <2>5. Below(k) \in Belows
    BY <1>5
  <2> QED BY <1>3, <1>4, <2>4, <2>5
<1>6. \A k \in free : h <= k
  BY <1>5
<1> QED BY <1>6

\* The largest of a set of numbers, the one a fold takes last.
Top(s) == CHOOSE x \in s : \A y \in s : x >= y

\* A property of numbers that holds of 0 and is kept by adding one holds of all
\* of them up to n; "bad" is where it does not.
LEMMA NoneBad ==
  ASSUME NEW n \in Nat, NEW bad \in SUBSET (0..n), 0 \notin bad,
         \A m \in 0..n : m + 1 \in bad => m \in bad
  PROVE  bad = {}
<1> SUFFICES ASSUME bad # {} PROVE FALSE
  OBVIOUS
<1>1. bad \in SUBSET Nat
  OBVIOUS
<1>2. PICK h \in bad : \A k \in bad : h <= k
  BY <1>1, LeastExists
<1>3. h \in Nat /\ h # 0 /\ h \in 0..n
  OBVIOUS
<1>4. h - 1 \in 0..n /\ (h - 1) + 1 = h
  BY <1>3
<1>5. h - 1 \in bad
  BY <1>4
<1> QED BY <1>2, <1>3, <1>5

\* h is a fold of the subsets of 1..n, the largest number last.
Folds(h, n, base, step) ==
  \A s \in SUBSET (1..n) : h[s] = IF s = {} THEN base ELSE step[<<h[s \ {Top(s)}], Top(s)>>]

LEMMA FoldExists ==
  ASSUME NEW n \in Nat, NEW V, NEW base \in V, NEW step \in [V \X (1..n) -> V]
  PROVE  \E h \in [SUBSET (1..n) -> V] : Folds(h, n, base, step)
<1> DEFINE Fine(m) == \E h \in [SUBSET (1..m) -> V] : Folds(h, m, base, step)
           bad == {m \in 0..n : ~Fine(m)}
<1>1. Fine(0)
  <2> DEFINE h == [s \in SUBSET (1..0) |-> base]
  <2>1. \A s \in SUBSET (1..0) : s = {}
    OBVIOUS
  <2>2. h \in [SUBSET (1..0) -> V] /\ Folds(h, 0, base, step)
    BY <2>1 DEF Folds
  <2> HIDE DEF h
  <2> QED BY <2>2
<1>2. ASSUME NEW m \in 0..n, m + 1 \in 0..n, Fine(m) PROVE Fine(m + 1)
  <2>1. PICK g \in [SUBSET (1..m) -> V] : Folds(g, m, base, step)
    BY <1>2
  <2> DEFINE last == m + 1
             h == [s \in SUBSET (1..last) |-> IF last \in s THEN step[<<g[s \ {last}], last>>] ELSE g[s]]
  <2>2. /\ last \in 1..n /\ 1..m \subseteq 1..last /\ last \notin 1..m
        /\ \A k \in 1..last : k = last \/ k \in 1..m
        /\ \A k \in 1..last : last >= k /\ (k >= last => k = last)
    BY <1>2
  <2> HIDE DEF last
  <2>3. \A s \in SUBSET (1..last) : last \notin s => s \in SUBSET (1..m)
    BY <2>2
  <2>4. \A s \in SUBSET (1..last) : s \ {last} \in SUBSET (1..m)
    BY <2>2
  <2>5. \A s \in SUBSET (1..last) : last \in s => Top(s) = last
    BY <2>2 DEF Top
  <2>6. h \in [SUBSET (1..last) -> V]
    <3> SUFFICES ASSUME NEW s \in SUBSET (1..last)
                 PROVE  (IF last \in s THEN step[<<g[s \ {last}], last>>] ELSE g[s]) \in V
      OBVIOUS
    <3>1. CASE last \in s
      <4>1. <<g[s \ {last}], last>> \in V \X (1..n)
        BY <2>2, <2>4
      <4> QED BY <3>1, <4>1
    <3>2. CASE last \notin s
      BY <2>3, <3>2
    <3> QED BY <3>1, <3>2
  <2>7. \A s \in SUBSET (1..m) : s \in SUBSET (1..last) /\ last \notin s /\ h[s] = g[s]
    BY <2>2
  <2>8. \A s \in SUBSET (1..last) : last \in s => h[s] = step[<<g[s \ {last}], last>>]
    OBVIOUS
  <2> HIDE DEF h
  <2>9. Folds(h, last, base, step)
    <3> SUFFICES ASSUME NEW s \in SUBSET (1..last)
                 PROVE  h[s] = IF s = {} THEN base ELSE step[<<h[s \ {Top(s)}], Top(s)>>]
      BY DEF Folds
    <3>1. CASE last \in s
      <4>1. s # {} /\ Top(s) = last /\ h[s \ {last}] = g[s \ {last}]
        BY <2>4, <2>5, <2>7, <3>1
      <4> QED BY <2>8, <3>1, <4>1
    <3>2. CASE last \notin s
      <4>1. s \in SUBSET (1..m) /\ s \ {Top(s)} \in SUBSET (1..m)
        BY <2>3, <3>2
      <4>2. g[s] = IF s = {} THEN base ELSE step[<<g[s \ {Top(s)}], Top(s)>>]
        BY <2>1, <4>1 DEF Folds
      <4> QED BY <2>7, <4>1, <4>2
    <3> QED BY <3>1, <3>2
  <2> QED BY <2>6, <2>9 DEF last
<1>3. bad \in SUBSET (0..n) /\ 0 \notin bad /\ \A m \in 0..n : m + 1 \in bad => m \in bad
  <2> HIDE DEF Fine
  <2> QED BY <1>1, <1>2
<1>4. bad = {}
  <2> HIDE DEF bad
  <2> QED BY <1>3, NoneBad
<1> HIDE DEF Fine
<1>5. n \in 0..n
  OBVIOUS
<1> QED BY <1>4, <1>5 DEF Fine

\* The numbers up to m: their largest is m.
LEMMA Segments ==
  ASSUME NEW n \in Nat
  PROVE  \A m \in 1..n : /\ 1..m \in SUBSET (1..n) /\ 1..m # {}
                         /\ Top(1..m) = m /\ (1..m) \ {Top(1..m)} = 1..(m - 1)
<1> SUFFICES ASSUME NEW m \in 1..n
             PROVE  /\ 1..m \in SUBSET (1..n) /\ 1..m # {}
                    /\ Top(1..m) = m /\ (1..m) \ {Top(1..m)} = 1..(m - 1)
  OBVIOUS
<1>1. 1..m \in SUBSET (1..n) /\ 1..m # {} /\ m \in 1..m
  OBVIOUS
<1>2. \A k \in 1..m : m >= k /\ (k >= m => k = m)
  OBVIOUS
<1>3. Top(1..m) = m
  BY <1>1, <1>2 DEF Top
<1>4. (1..m) \ {m} = 1..(m - 1)
  OBVIOUS
<1> QED BY <1>1, <1>3, <1>4

LEMMA TopIsIn ==
  ASSUME NEW n \in Nat, NEW s \in SUBSET (1..n), s # {}
  PROVE  Top(s) \in s /\ \A y \in s : Top(s) >= y
<1> DEFINE over == {u \in 0..n : \A y \in s : u >= y}
<1>1. over \in SUBSET Nat /\ over # {}
  <2>1. n \in over
    OBVIOUS
  <2> QED BY <2>1
<1>2. PICK u \in over : \A k \in over : u <= k
  <2> HIDE DEF over
  <2> QED BY <1>1, LeastExists
<1>3. u \in Nat /\ \A y \in s : u >= y /\ y \in Nat /\ y >= 1
  OBVIOUS
<1>4. u \in s
  <2> SUFFICES ASSUME u \notin s PROVE FALSE
    OBVIOUS
  <2>1. \A y \in s : u - 1 >= y
    BY <1>3
  <2>2. PICK y \in s : TRUE
    OBVIOUS
  <2>3. u - 1 \in over
    BY <1>3, <2>1, <2>2
  <2> QED BY <1>2, <1>3, <2>3
<1> QED BY <1>3, <1>4 DEF Top

\* The last element that passes a test.
LEMMA LastHead ==
  ASSUME NEW wire \in Seq(Unit)
  PROVE  LET last == Endpoint!SelectLastInSeq(wire, LAMBDA u : u.part = 1)
             text == Endpoint!SelectLastInSeq(wire, LAMBDA u : u.part = 1 /\ u.frame.kind = "text")
         IN  /\ last \in 0..Len(wire) /\ text \in 0..last
             /\ last > 0 => wire[last].part = 1
             /\ text > 0 => wire[text].part = 1 /\ wire[text].frame.kind = "text"
             /\ last = 0 => \A i \in 1..Len(wire) : wire[i].part # 1
<1> DEFINE heads == {i \in 1..Len(wire) : wire[i].part = 1}
           texts == {i \in 1..Len(wire) : wire[i].part = 1 /\ wire[i].frame.kind = "text"}
           last == Endpoint!SelectLastInSeq(wire, LAMBDA u : u.part = 1)
           text == Endpoint!SelectLastInSeq(wire, LAMBDA u : u.part = 1 /\ u.frame.kind = "text")
<1>1. /\ last = IF heads # {} THEN Top(heads) ELSE 0
      /\ text = IF texts # {} THEN Top(texts) ELSE 0
  BY DEF Endpoint!SelectLastInSeq, Endpoint!Max, Top
<1>2. Len(wire) \in Nat /\ heads \in SUBSET (1..Len(wire)) /\ texts \in SUBSET heads
  OBVIOUS
<1>3. heads # {} => Top(heads) \in heads
  <2> HIDE DEF heads
  <2> QED BY <1>2, TopIsIn
<1>4. texts # {} => Top(texts) \in texts
  <2>1. texts \in SUBSET (1..Len(wire))
    BY <1>2
  <2> HIDE DEF texts
  <2> QED BY <1>2, <2>1, TopIsIn
<1>5. heads # {} => \A y \in heads : Top(heads) >= y
  <2> HIDE DEF heads
  <2> SUFFICES ASSUME heads # {} PROVE \A y \in heads : Top(heads) >= y
    OBVIOUS
  <2> QED BY <1>2, TopIsIn
<1> HIDE DEF last, text
<1>6. last \in 0..Len(wire) /\ (last > 0 => last \in heads)
  BY <1>1, <1>2, <1>3
<1>7. text > 0 => text \in texts
  BY <1>1, <1>4
<1>8. text \in 0..last
  <2>1. CASE texts = {}
    BY <1>1, <1>6, <2>1
  <2>2. CASE texts # {}
    <3>1. heads # {} /\ text \in texts /\ text \in heads
      BY <1>1, <1>2, <1>4, <2>2
    <3>2. last >= text /\ text \in Nat
      BY <1>1, <1>2, <1>5, <3>1
    <3> QED BY <1>6, <3>2
  <2> QED BY <2>1, <2>2
<1>9. last = 0 => \A i \in 1..Len(wire) : wire[i].part # 1
  <2> SUFFICES ASSUME last = 0 PROVE heads = {}
    OBVIOUS
  <2> HIDE DEF heads
  <2> QED BY <1>1, <1>2, <1>3
<1> QED BY <1>6, <1>7, <1>8, <1>9 DEF last, text

\* Every unit of r is one of s.
Within(r, s) == \A i \in 1..Len(r) : \E j \in 1..Len(s) : r[i] = s[j]

LEMMA Associates ==
  ASSUME NEW S, NEW a \in Seq(S), NEW b \in Seq(S), NEW c \in Seq(S)
  PROVE  (a \o b) \o c = a \o (b \o c)
<1> DEFINE l == (a \o b) \o c
           r == a \o (b \o c)
           na == Len(a)
           nb == Len(b)
<1>1. /\ a \o b \in Seq(S) /\ Len(a \o b) = na + nb
      /\ \A i \in 1..(na + nb) : (a \o b)[i] = IF i <= na THEN a[i] ELSE b[i - na]
  BY ConcatProperties
<1>2. /\ b \o c \in Seq(S) /\ Len(b \o c) = nb + Len(c)
      /\ \A i \in 1..(nb + Len(c)) : (b \o c)[i] = IF i <= nb THEN b[i] ELSE c[i - nb]
  BY ConcatProperties
<1>3. /\ l \in Seq(S) /\ Len(l) = Len(a \o b) + Len(c)
      /\ \A i \in 1..(Len(a \o b) + Len(c)) :
           l[i] = IF i <= Len(a \o b) THEN (a \o b)[i] ELSE c[i - Len(a \o b)]
  BY <1>1, ConcatProperties
<1>4. /\ r \in Seq(S) /\ Len(r) = na + Len(b \o c)
      /\ \A i \in 1..(na + Len(b \o c)) : r[i] = IF i <= na THEN a[i] ELSE (b \o c)[i - na]
  BY <1>2, ConcatProperties
<1>5. na \in Nat /\ nb \in Nat /\ Len(c) \in Nat
  BY LenProperties
<1> HIDE DEF l, r, na, nb
<1>6. Len(l) = Len(r)
  BY <1>1, <1>2, <1>3, <1>4, <1>5
<1>7. ASSUME NEW i \in 1..Len(l) PROVE l[i] = r[i]
  <2>1. i \in Nat /\ i >= 1 /\ i <= na + nb + Len(c)
    BY <1>1, <1>3, <1>5
  <2>2. CASE i <= na
    <3>1. l[i] = (a \o b)[i] /\ (a \o b)[i] = a[i]
      BY <1>1, <1>3, <1>5, <2>1, <2>2
    <3> QED BY <1>2, <1>4, <1>5, <2>1, <2>2, <3>1
  <2>3. CASE i > na /\ i <= na + nb
    <3>1. l[i] = (a \o b)[i] /\ (a \o b)[i] = b[i - na]
      BY <1>1, <1>3, <1>5, <2>1, <2>3
    <3>2. i - na \in 1..(nb + Len(c)) /\ i - na <= nb
      BY <1>5, <2>1, <2>3
    <3>3. r[i] = (b \o c)[i - na] /\ (b \o c)[i - na] = b[i - na]
      BY <1>2, <1>4, <1>5, <2>1, <2>3, <3>2
    <3> QED BY <3>1, <3>3
  <2>4. CASE i > na + nb
    <3>1. l[i] = c[i - (na + nb)]
      BY <1>1, <1>3, <1>5, <2>1, <2>4
    <3>2. i - na \in 1..(nb + Len(c)) /\ i - na > nb /\ (i - na) - nb = i - (na + nb)
      BY <1>5, <2>1, <2>4
    <3>3. r[i] = (b \o c)[i - na] /\ (b \o c)[i - na] = c[(i - na) - nb]
      BY <1>2, <1>4, <1>5, <2>1, <2>4, <3>2
    <3> QED BY <3>1, <3>2, <3>3
  <2> QED BY <1>5, <2>1, <2>2, <2>3, <2>4
<1>8. l = r
  BY <1>3, <1>4, <1>6, <1>7, SeqEqual
<1> QED BY <1>8 DEF l, r

LEMMA UnitsAssociate ==
  \A a, b, c \in Seq(Unit) : (a \o b) \o c = a \o (b \o c)
BY Associates

\* A frame's two units at the text, and from the last head on.
LEMMA PairThenTail ==
  ASSUME NEW s \in Seq(Unit), NEW text \in 1..Len(s), NEW last \in (text + 1)..Len(s),
         s[last].part = 1, s[text].part = 1, s[text].frame.kind = "text",
         Endpoint!WholeFrames(s)
  PROVE  LET r == SubSeq(s, text, text + 1) \o SubSeq(s, last, Len(s))
         IN  r \in Seq(Unit) /\ Endpoint!WholeFrames(r) /\ Within(r, s) /\ (Whole(s) => Whole(r))
<1> DEFINE pair == SubSeq(s, text, text + 1)
           tail == SubSeq(s, last, Len(s))
           n == s[text].frame.number + 1
<1>1. /\ Len(s) \in Nat
      /\ \A i \in 1..Len(s) : s[i] \in Unit /\ s[i].part \in {1, 2} /\ s[i].frame.number \in Nat
  BY UnitFacts
<1>2. text + 1 \in 1..Len(s) /\ text + 1 < last
  <2>1. text + 1 \in 1..Len(s) /\ text + 1 > 1 /\ (text + 1) - 1 = text
    BY <1>1
  <2>2. s[text + 1].part = 3 - s[text].part
    BY <2>1, FramesAt
  <2>3. text + 1 # last
    BY <2>2
  <2> QED BY <1>1, <2>1, <2>3
<1>3. s[text + 1].part = 2 /\ s[text + 1].frame = s[text].frame
  <2>1. text + 1 > 1 /\ (text + 1) - 1 = text
    BY <1>1
  <2>2. s[text + 1].part = 3 - s[text].part
    BY <1>2, <2>1, FramesAt
  <2>3. s[text + 1].part = 2
    BY <2>2
  <2> QED BY <1>2, <2>1, <2>3, FramesAt
<1>4. /\ pair \in Seq(Unit) /\ Len(pair) = 2
      /\ pair[1] = s[text] /\ pair[2] = s[text + 1]
  <2>1. \A i \in text..(text + 1) : s[i] \in Unit
    BY <1>1, <1>2
  <2>2. /\ pair \in Seq(Unit) /\ Len(pair) = text + 1 - text + 1
        /\ \A i \in 1..(text + 1 - text + 1) : pair[i] = s[text + i - 1]
    BY <1>1, <2>1, SubSeqProperties
  <2>3. /\ text + 1 - text + 1 = 2 /\ 1 \in 1..2 /\ 2 \in 1..2
        /\ text + 1 - 1 = text /\ text + 2 - 1 = text + 1
    BY <1>1
  <2> HIDE DEF pair
  <2>4. \A i \in 1..2 : pair[i] = s[text + i - 1]
    BY <2>2, <2>3
  <2> QED BY <2>2, <2>3, <2>4
<1>5. /\ tail \in Seq(Unit) /\ Len(tail) = Len(s) - last + 1
      /\ \A i \in 1..Len(tail) : tail[i] = s[last + i - 1]
      /\ Endpoint!WholeFrames(tail)
  <2>1. last \in 1..Len(s)
    BY <1>1
  <2> QED BY <2>1, FramesEnd
<1> HIDE DEF pair, tail
<1>6. Endpoint!WholeFrames(pair) /\ Whole(pair) /\ NoClose(pair) /\ TextsBelow(pair, n)
  <2>1. \A i \in 1..Len(pair) : i = 1 \/ i = 2
    BY <1>4
  <2>2. pair[1].part = 1 /\ pair[2].part = 2 /\ pair[1].frame = pair[2].frame /\ pair[1].frame.kind = "text"
    BY <1>3, <1>4
  <2>3. Endpoint!WholeFrames(pair)
    <3>1. ASSUME NEW i \in 1..Len(pair)
          PROVE  /\ i = 1 => pair[i].part = 1
                 /\ i > 1 => pair[i].part = 3 - pair[i - 1].part
                 /\ pair[i].part = 2 => pair[i].frame = pair[i - 1].frame
                 /\ pair[i].part = 1 => \A j \in 1..(i - 1) : FALSE
      <4>1. CASE i = 1
        BY <2>2, <4>1
      <4>2. CASE i = 2
        BY <2>2, <4>2
      <4> QED BY <2>1, <4>1, <4>2
    <3> QED BY <1>4, <3>1, FramesAre
  <2>4. Whole(pair)
    BY <1>4, <2>2 DEF Whole
  <2>5. NoClose(pair)
    <3>1. Endpoint!CloseFrame.kind = "close"
      BY DEF Endpoint!CloseFrame, Endpoint!Frame
    <3> QED BY <2>1, <2>2, <3>1 DEF NoClose
  <2>6. TextsBelow(pair, n)
    <3>1. \A i \in 1..Len(pair) : pair[i].frame.number = s[text].frame.number
      BY <1>4, <2>1, <2>2
    <3> QED BY <1>1, <3>1 DEF TextsBelow
  <2> QED BY <2>3, <2>4, <2>5, <2>6
<1>7. TextsFrom(tail, n)
  <2> SUFFICES ASSUME NEW i \in 1..Len(tail), tail[i].frame.kind = "text"
               PROVE  tail[i].frame.number >= n
    BY DEF TextsFrom
  <2> DEFINE k == last + i - 1
  <2>1. k \in 1..Len(s) /\ tail[i] = s[k] /\ k >= last
    BY <1>1, <1>5
  <2> HIDE DEF k
  <2>2. PICK h \in 1..Len(s) : h >= last /\ s[h].part = 1 /\ s[h].frame = s[k].frame
    <3>1. CASE s[k].part = 1
      BY <2>1, <3>1
    <3>2. CASE s[k].part = 2
      <4>1. k > 1 /\ s[k].frame = s[k - 1].frame /\ s[k].part = 3 - s[k - 1].part
        BY <2>1, <3>2, FramesAt
      <4>2. k # last
        BY <3>2
      <4>3. k - 1 \in 1..Len(s) /\ k - 1 >= last
        BY <1>1, <2>1, <4>1, <4>2
      <4>4. s[k - 1].part = 1
        BY <1>1, <3>2, <4>1, <4>3
      <4> QED BY <4>1, <4>3, <4>4
    <3> QED BY <1>1, <2>1, <3>1, <3>2
  <2>3. text \in 1..(h - 1)
    BY <1>1, <2>2
  <2>4. s[text].frame.number < s[h].frame.number
    BY <2>1, <2>2, <2>3, FramesAt
  <2>5. s[text].frame.number \in Nat /\ s[h].frame.number \in Nat
    BY <1>1
  <2> QED BY <2>1, <2>2, <2>4, <2>5
<1>8. n \in Nat
  BY <1>1
<1> HIDE DEF n
<1>9. /\ pair \o tail \in Seq(Unit) /\ Endpoint!WholeFrames(pair \o tail)
      /\ Whole(tail) => Whole(pair \o tail)
  BY <1>4, <1>5, <1>6, <1>7, <1>8, FramesJoin
<1>10. Whole(s) => Whole(tail)
  <2>1. Len(tail) \in 1..Len(tail) /\ last + Len(tail) - 1 = Len(s)
    BY <1>1, <1>5
  <2>2. tail[Len(tail)] = s[Len(s)]
    BY <1>5, <2>1
  <2>3. s # <<>>
    BY <1>1
  <2> QED BY <2>2, <2>3 DEF Whole
<1>11. Within(pair \o tail, s)
  <2> SUFFICES ASSUME NEW i \in 1..Len(pair \o tail) PROVE \E j \in 1..Len(s) : (pair \o tail)[i] = s[j]
    BY DEF Within
  <2>1. /\ Len(pair \o tail) = Len(pair) + Len(tail)
        /\ \A k \in 1..(Len(pair) + Len(tail)) :
             (pair \o tail)[k] = IF k <= Len(pair) THEN pair[k] ELSE tail[k - Len(pair)]
    BY <1>4, <1>5, ConcatProperties
  <2>4. Len(tail) \in Nat /\ i \in 1..(Len(pair) + Len(tail))
    BY <1>5, <2>1, LenProperties
  <2>2. CASE i <= 2
    <3>1. i = 1 \/ i = 2
      BY <2>2
    <3>2. (pair \o tail)[i] = pair[i]
      BY <1>4, <2>1, <2>2, <2>4
    <3> QED BY <1>2, <1>4, <3>1, <3>2
  <2>3. CASE i > 2
    <3>1. i - 2 \in 1..Len(tail) /\ (pair \o tail)[i] = tail[i - 2]
      BY <1>4, <2>1, <2>3, <2>4
    <3>2. tail[i - 2] = s[last + (i - 2) - 1] /\ last + (i - 2) - 1 \in 1..Len(s)
      BY <1>1, <1>5, <3>1
    <3> QED BY <3>1, <3>2
  <2> QED BY <2>2, <2>3, <2>4, <1>4
<1> QED BY <1>9, <1>10, <1>11 DEF pair, tail

\* A socket that takes u, and what is left after it: what its history drops
\* leaves whole frames.
LEMMA TookKeeps ==
  ASSUME NEW wire \in Seq(Unit), NEW u \in Seq(Unit), NEW v \in Seq(Unit),
         Endpoint!WholeFrames(wire \o (u \o v))
  PROVE  LET s == wire \o (u \o v)
             r == Endpoint!Took(wire, u)
         IN  /\ r \in Seq(Unit) /\ r \o v \in Seq(Unit)
             /\ Endpoint!WholeFrames(r \o v) /\ Within(r \o v, s)
             /\ Whole(s) => Whole(r \o v)
<1> DEFINE more == u \o v
           s == wire \o more
           r == Endpoint!Took(wire, u)
           last == Endpoint!SelectLastInSeq(wire, LAMBDA x : x.part = 1)
           text == Endpoint!SelectLastInSeq(wire, LAMBDA x : x.part = 1 /\ x.frame.kind = "text")
           kept == SubSeq(wire, Endpoint!Greatest(last, 1), Len(wire))
           pair == SubSeq(wire, text, text + 1)
<1> SUFFICES /\ r \in Seq(Unit) /\ r \o v \in Seq(Unit)
             /\ Endpoint!WholeFrames(r \o v) /\ Within(r \o v, s)
             /\ Whole(s) => Whole(r \o v)
  OBVIOUS
<1>1. r = IF u = <<>> THEN wire
          ELSE (IF text \in {0, last} THEN kept ELSE pair \o kept) \o u
  BY DEF Endpoint!Took
<1>2. /\ last \in 0..Len(wire) /\ text \in 0..last
      /\ last > 0 => wire[last].part = 1
      /\ text > 0 => wire[text].part = 1 /\ wire[text].frame.kind = "text"
      /\ last = 0 => \A i \in 1..Len(wire) : wire[i].part # 1
  BY LastHead
<1> HIDE DEF last, text, r
<1>3. /\ more \in Seq(Unit) /\ s \in Seq(Unit) /\ Len(wire) \in Nat /\ Len(more) \in Nat
      /\ Len(s) = Len(wire) + Len(more)
      /\ \A i \in 1..Len(wire) : s[i] = wire[i] /\ wire[i] \in Unit
      /\ \A i \in 1..Len(more) : s[Len(wire) + i] = more[i] /\ more[i] \in Unit
  BY ConcatProperties, ElementOfSeq, LenProperties
<1>4. Endpoint!WholeFrames(s)
  OBVIOUS
<1>within. Within(s, s)
  BY DEF Within
<1>more. more = u \o v /\ s = wire \o more
  OBVIOUS
<1> HIDE DEF s, more
<1>5. CASE u = <<>>
  <2>1. r = wire /\ more = v
    BY <1>1, <1>5, <1>more, ConcatEmptySeq
  <2>2. r \o v = s
    BY <2>1, <1>more
  <2> QED BY <1>3, <1>4, <2>1, <2>2, <1>within
<1>6. CASE u # <<>> /\ wire = <<>>
  <2>1. last = 0 /\ text = 0 /\ Len(wire) = 0
    BY <1>2, <1>6
  <2>2. Endpoint!Greatest(last, 1) = 1
    BY <2>1 DEF Endpoint!Greatest
  <2>3. kept = <<>>
    BY <2>1, <2>2, SubSeqEmpty
  <2>4. r = u
    BY <1>1, <1>6, <2>1, <2>3, ConcatEmptySeq
  <2>5. s = more
    BY <1>3, <1>6, <1>more, ConcatEmptySeq
  <2> QED BY <1>3, <1>4, <2>4, <2>5, <1>within, <1>more
<1>7. CASE u # <<>> /\ wire # <<>>
  <2>1. Len(wire) \in Nat \ {0} /\ 1 \in 1..Len(wire) /\ 1 \in 1..Len(s)
    BY <1>3, <1>7, EmptySeq
  <2>2. wire[1].part = 1
    <3>1. s[1].part = 1
      BY <1>3, <1>4, <2>1, FramesAt
    <3> QED BY <1>3, <2>1, <3>1
  <2>3. last \in 1..Len(wire) /\ wire[last].part = 1
    BY <1>2, <2>1, <2>2
  <2>4. Endpoint!Greatest(last, 1) = last
    BY <2>3 DEF Endpoint!Greatest
  <2>5. kept = SubSeq(wire, last, Len(wire))
    BY <2>4
  <2> HIDE DEF kept
  <2>6. kept \in Seq(Unit)
    BY <1>3, <2>3, <2>5, SubSeqProperties
  <2>7. kept \o more = SubSeq(s, last, Len(s))
    <3> DEFINE tail == SubSeq(s, last, Len(s))
    <3>1. /\ Len(kept) = Len(wire) - last + 1
          /\ \A i \in 1..(Len(wire) - last + 1) : kept[i] = wire[last + i - 1]
      BY <1>3, <2>3, <2>5, SubSeqProperties
    <3>2. \A i \in last..Len(s) : s[i] \in Unit
      BY <1>3, <2>3, ElementOfSeq
    <3>3. /\ tail \in Seq(Unit) /\ Len(tail) = Len(s) - last + 1
          /\ \A i \in 1..(Len(s) - last + 1) : tail[i] = s[last + i - 1]
      BY <1>3, <2>3, <3>2, SubSeqProperties
    <3>4. /\ kept \o more \in Seq(Unit) /\ Len(kept \o more) = Len(kept) + Len(more)
          /\ \A i \in 1..(Len(kept) + Len(more)) :
               (kept \o more)[i] = IF i <= Len(kept) THEN kept[i] ELSE more[i - Len(kept)]
      BY <1>3, <2>6, ConcatProperties
    <3>5. Len(kept \o more) = Len(tail)
      BY <1>3, <3>1, <3>3, <3>4
    <3> HIDE DEF tail
    <3>6. ASSUME NEW i \in 1..Len(tail) PROVE (kept \o more)[i] = tail[i]
      <4>1. tail[i] = s[last + i - 1]
        BY <3>3
      <4>2. CASE i <= Len(kept)
        <5>1. last + i - 1 \in 1..Len(wire) /\ i \in 1..(Len(wire) - last + 1)
          BY <1>3, <2>3, <3>1, <4>2
        <5>2. s[last + i - 1] = wire[last + i - 1] /\ kept[i] = wire[last + i - 1]
          BY <1>3, <3>1, <5>1
        <5> QED BY <3>4, <3>5, <4>1, <4>2, <5>2
      <4>3. CASE i > Len(kept)
        <5>1. i - Len(kept) \in 1..Len(more) /\ last + i - 1 = Len(wire) + (i - Len(kept))
          BY <1>3, <2>3, <3>1, <3>3, <4>3
        <5>2. s[last + i - 1] = more[i - Len(kept)]
          BY <1>3, <5>1
        <5> QED BY <3>1, <3>4, <3>5, <4>1, <4>3, <5>2
      <4>4. Len(kept) \in Nat /\ i \in Nat
        BY <2>6, <3>3, LenProperties
      <4>5. i <= Len(kept) \/ i > Len(kept)
        BY <4>4
      <4> QED BY <4>2, <4>3, <4>5
    <3> QED BY <3>3, <3>4, <3>5, <3>6, SeqEqual DEF tail
  <2>8. last \in 1..Len(s) /\ s[last].part = 1
    BY <1>3, <2>3
  <2>9. (kept \o u) \o v = kept \o more
    BY <2>6, <1>more, UnitsAssociate
  <2>10. CASE text \in {0, last}
    <3>1. r \o v = SubSeq(s, last, Len(s)) /\ r \in Seq(Unit)
      BY <1>1, <1>7, <2>6, <2>7, <2>9, <2>10, ConcatProperties
    <3> DEFINE tail == SubSeq(s, last, Len(s))
    <3>2. /\ tail \in Seq(Unit) /\ Len(tail) = Len(s) - last + 1
          /\ \A i \in 1..Len(tail) : tail[i] = s[last + i - 1]
          /\ Endpoint!WholeFrames(tail)
      BY <1>3, <1>4, <2>8, FramesEnd
    <3> HIDE DEF tail
    <3>3. Within(tail, s)
      <4> SUFFICES ASSUME NEW i \in 1..Len(tail) PROVE \E j \in 1..Len(s) : tail[i] = s[j]
        BY DEF Within
      <4>1. last + i - 1 \in 1..Len(s)
        BY <1>3, <2>8, <3>2
      <4> QED BY <3>2, <4>1
    <3>4. Whole(s) => Whole(tail)
      <4>1. Len(tail) \in 1..Len(tail) /\ last + Len(tail) - 1 = Len(s)
        BY <1>3, <2>8, <3>2
      <4>2. tail[Len(tail)] = s[Len(s)]
        BY <3>2, <4>1
      <4>3. s # <<>>
        BY <1>3, <2>8
      <4> QED BY <4>2, <4>3 DEF Whole
    <3> QED BY <3>1, <3>2, <3>3, <3>4 DEF tail
  <2>11. CASE text \notin {0, last}
    <3>1. /\ text \in 1..Len(s) /\ last \in (text + 1)..Len(s)
          /\ text + 1 \in 1..Len(wire) /\ text \in 1..Len(wire)
      BY <1>2, <1>3, <2>3, <2>8, <2>11
    <3>2. s[text].part = 1 /\ s[text].frame.kind = "text"
      BY <1>2, <1>3, <3>1
    <3>3. pair \in Seq(Unit) /\ pair = SubSeq(s, text, text + 1)
      <4> DEFINE same == SubSeq(s, text, text + 1)
      <4>1. \A i \in text..(text + 1) : s[i] = wire[i] /\ wire[i] \in Unit /\ s[i] \in Unit
        <5> SUFFICES ASSUME NEW i \in text..(text + 1)
                     PROVE  s[i] = wire[i] /\ wire[i] \in Unit
          OBVIOUS
        <5>1. i \in 1..Len(wire)
          BY <1>3, <3>1
        <5> QED BY <1>3, <5>1
      <4>2. /\ pair \in Seq(Unit) /\ Len(pair) = text + 1 - text + 1
            /\ \A i \in 1..(text + 1 - text + 1) : pair[i] = wire[text + i - 1]
        BY <3>1, <4>1, SubSeqProperties
      <4>3. /\ same \in Seq(Unit) /\ Len(same) = text + 1 - text + 1
            /\ \A i \in 1..(text + 1 - text + 1) : same[i] = s[text + i - 1]
        BY <3>1, <4>1, SubSeqProperties
      <4> HIDE DEF pair, same
      <4>4. \A i \in 1..Len(pair) : pair[i] = same[i]
        <5> SUFFICES ASSUME NEW i \in 1..Len(pair) PROVE pair[i] = same[i]
          OBVIOUS
        <5>1. text + i - 1 \in text..(text + 1)
          BY <3>1, <4>2
        <5> QED BY <4>1, <4>2, <4>3, <5>1
      <4>5. pair = same
        BY <4>2, <4>3, <4>4, SeqEqual
      <4> QED BY <4>2, <4>5 DEF same
    <3>pair. pair \in Seq(Unit)
      BY <3>3
    <3> HIDE DEF pair
    <3>4. r = (pair \o kept) \o u
      BY <1>1, <1>7, <2>11
    <3>5. pair \o kept \in Seq(Unit) /\ r \in Seq(Unit)
      BY <2>6, <3>3, <3>4, ConcatProperties
    <3>rest. more \in Seq(Unit)
      BY <1>3
    <3>6. r \o v = (pair \o kept) \o more
      <4>1. ((pair \o kept) \o u) \o v = (pair \o kept) \o (u \o v)
        <5> DEFINE head == pair \o kept
        <5>1. head \in Seq(Unit)
          BY <3>5
        <5> HIDE DEF head
        <5>2. (head \o u) \o v = head \o (u \o v)
          BY <5>1, Associates
        <5> QED BY <5>2 DEF head
      <4> QED BY <3>4, <4>1, <1>more
    <3>7. (pair \o kept) \o more = pair \o (kept \o more)
      BY <2>6, <3>pair, <3>rest, Associates
    <3>8. r \o v = SubSeq(s, text, text + 1) \o SubSeq(s, last, Len(s))
      BY <2>7, <3>3, <3>6, <3>7
    <3>9. LET t == SubSeq(s, text, text + 1) \o SubSeq(s, last, Len(s))
          IN  t \in Seq(Unit) /\ Endpoint!WholeFrames(t) /\ Within(t, s) /\ (Whole(s) => Whole(t))
      BY <1>3, <1>4, <2>8, <3>1, <3>2, PairThenTail
    <3> QED BY <3>5, <3>8, <3>9
  <2> QED BY <2>10, <2>11
<1> QED BY <1>5, <1>6, <1>7

\* What a frame may be.
Wireable == [kind : Kinds, number : Nat]

LEMMA UnitsFacts ==
  ASSUME NEW frame \in Wireable
  PROVE  LET u == Endpoint!Units(frame)
         IN  /\ u \in Seq(Unit) /\ Len(u) = 2
             /\ u[1].part = 1 /\ u[2].part = 2 /\ u[1].frame = frame /\ u[2].frame = frame
             /\ Endpoint!WholeFrames(u) /\ Whole(u)
             /\ frame # Endpoint!CloseFrame => NoClose(u)
             /\ \A n : frame.kind # "text" => TextsBelow(u, n) /\ TextsFrom(u, n)
<1> DEFINE u == Endpoint!Units(frame)
<1>1. u = <<[frame |-> frame, part |-> 1], [frame |-> frame, part |-> 2]>>
  BY DEF Endpoint!Units
<1>2. [frame |-> frame, part |-> 1] \in Unit /\ [frame |-> frame, part |-> 2] \in Unit
  BY DEF Unit, Wireable
<1> HIDE DEF u
<1>3. /\ u \in Seq(Unit) /\ Len(u) = 2
      /\ u[1].part = 1 /\ u[2].part = 2 /\ u[1].frame = frame /\ u[2].frame = frame
  BY <1>1, <1>2
<1>4. \A i \in 1..Len(u) : i = 1 \/ i = 2
  BY <1>3
<1>5. Endpoint!WholeFrames(u)
  <2>1. ASSUME NEW i \in 1..Len(u)
        PROVE  /\ i = 1 => u[i].part = 1
               /\ i > 1 => u[i].part = 3 - u[i - 1].part
               /\ u[i].part = 2 => u[i].frame = u[i - 1].frame
               /\ u[i].part = 1 => \A j \in 1..(i - 1) : FALSE
    <3>1. CASE i = 1
      BY <1>3, <3>1
    <3>2. CASE i = 2
      BY <1>3, <3>2
    <3> QED BY <1>4, <3>1, <3>2
  <2> QED BY <1>3, <2>1, FramesAre
<1>6. \A i \in 1..Len(u) : u[i].frame = frame
  BY <1>3, <1>4
<1>7. Whole(u)
  BY <1>3 DEF Whole
<1> QED BY <1>3, <1>5, <1>6, <1>7 DEF u, NoClose, TextsBelow, TextsFrom

LEMMA TextsMore ==
  ASSUME NEW s \in Seq(Unit), NEW n \in Int, NEW m \in Int, n <= m, TextsBelow(s, n)
  PROVE  TextsBelow(s, m)
<1>1. \A i \in 1..Len(s) : s[i].frame.number \in Nat
  BY UnitFacts
<1> QED BY <1>1 DEF TextsBelow

\* One frame more, no text.
LEMMA OneMore ==
  ASSUME NEW a \in Seq(Unit), NEW frame \in Wireable, NEW n \in Nat, frame.kind # "text",
         Endpoint!WholeFrames(a), Whole(a), NoClose(a), TextsBelow(a, n)
  PROVE  LET s == a \o Endpoint!Units(frame)
         IN  /\ s \in Seq(Unit) /\ Endpoint!WholeFrames(s) /\ Whole(s) /\ TextsBelow(s, n)
             /\ frame # Endpoint!CloseFrame => NoClose(s)
<1> DEFINE u == Endpoint!Units(frame)
           s == a \o u
<1>1. /\ u \in Seq(Unit) /\ Endpoint!WholeFrames(u) /\ Whole(u) /\ TextsFrom(u, n) /\ TextsBelow(u, n)
      /\ frame # Endpoint!CloseFrame => NoClose(u)
  BY UnitsFacts
<1> HIDE DEF u
<1>2. s \in Seq(Unit) /\ Endpoint!WholeFrames(s) /\ Whole(s)
  BY <1>1, FramesJoin
<1>3. /\ Len(s) = Len(a) + Len(u) /\ Len(a) \in Nat /\ Len(u) \in Nat
      /\ \A i \in 1..(Len(a) + Len(u)) : s[i] = IF i <= Len(a) THEN a[i] ELSE u[i - Len(a)]
  BY <1>1, ConcatProperties, LenProperties
<1> HIDE DEF s
<1>4. ASSUME NEW i \in 1..Len(s)
      PROVE  (i \in 1..Len(a) /\ s[i] = a[i]) \/ (i - Len(a) \in 1..Len(u) /\ s[i] = u[i - Len(a)])
  BY <1>3
<1>5. TextsBelow(s, n)
  BY <1>1, <1>4 DEF TextsBelow
<1>6. frame # Endpoint!CloseFrame => NoClose(s)
  BY <1>1, <1>4 DEF NoClose
<1> QED BY <1>2, <1>5, <1>6 DEF s, u

\* The frame the i-th unit of a queue is of.
FrameOf(i) == (i + 1) \div 2

PartOf(i) == i + 2 - 2 * FrameOf(i)

LEMMA FrameAndPart ==
  ASSUME NEW i \in Nat, i >= 1
  PROVE  /\ FrameOf(i) \in Nat /\ FrameOf(i) >= 1
         /\ PartOf(i) \in {1, 2} /\ PartOf(i) \in Nat
         /\ i = 2 * FrameOf(i) - 2 + PartOf(i)
<1> DEFINE h == (i + 1) \div 2
<1>1. h \in Int /\ 2 * h <= i + 1 /\ i + 1 < 2 * h + 2
  OBVIOUS
<1> HIDE DEF h
<1>2. i + 2 - 2 * h = 1 \/ i + 2 - 2 * h = 2
  BY <1>1
<1>3. FrameOf(i) = h /\ PartOf(i) = i + 2 - 2 * h
  BY DEF FrameOf, PartOf, h
<1>4. h \in Nat /\ h >= 1
  BY <1>1
<1> QED BY <1>1, <1>2, <1>3, <1>4

LEMMA TextFacts ==
  ASSUME NEW n \in Nat
  PROVE  /\ Endpoint!Text(n) \in Wireable
         /\ Endpoint!Text(n).kind = "text" /\ Endpoint!Text(n).number = n
         /\ Endpoint!Text(n) # Endpoint!CloseFrame
<1>1. Endpoint!Text(n) = [kind |-> "text", number |-> n]
  BY DEF Endpoint!Text, Endpoint!Frame
<1>2. Endpoint!CloseFrame.kind = "close"
  BY DEF Endpoint!CloseFrame, Endpoint!Frame
<1> QED BY <1>1, <1>2 DEF Wireable, Kinds

LEMMA QueueUnitsAre ==
  ASSUME NEW q \in Seq(Nat)
  PROVE  LET u == Endpoint!QueueUnits(q)
         IN  /\ u \in Seq(Unit) /\ Len(u) = 2 * Len(q)
             /\ \A i \in 1..(2 * Len(q)) :
                  /\ FrameOf(i) \in 1..Len(q)
                  /\ u[i].part = PartOf(i)
                  /\ u[i].frame = Endpoint!Text(q[FrameOf(i)])
<1> DEFINE u == Endpoint!QueueUnits(q)
           m == 2 * Len(q)
<1>1. Len(q) \in Nat /\ m \in Nat
  OBVIOUS
<1>2. u = [i \in 1..m |-> Endpoint!Units(Endpoint!Text(q[FrameOf(i)]))[PartOf(i)]]
  BY DEF Endpoint!QueueUnits, FrameOf, PartOf
<1> HIDE DEF u
<1>3. ASSUME NEW i \in 1..m
      PROVE  /\ FrameOf(i) \in 1..Len(q)
             /\ u[i] \in Unit
             /\ u[i].part = PartOf(i)
             /\ u[i].frame = Endpoint!Text(q[FrameOf(i)])
  <2>1. i \in Nat /\ i >= 1 /\ i <= m
    BY <1>1
  <2>2. /\ FrameOf(i) \in Nat /\ FrameOf(i) >= 1
        /\ PartOf(i) \in {1, 2} /\ PartOf(i) \in Nat
        /\ i = 2 * FrameOf(i) - 2 + PartOf(i)
    BY <2>1, FrameAndPart
  <2>3. FrameOf(i) \in 1..Len(q)
    BY <1>1, <2>1, <2>2
  <2> DEFINE f == Endpoint!Text(q[FrameOf(i)])
             pair == Endpoint!Units(f)
  <2>4. f \in Wireable
    <3>1. q[FrameOf(i)] \in Nat
      BY <2>3
    <3> QED BY <3>1, TextFacts
  <2>5. u[i] = pair[PartOf(i)]
    BY <1>2
  <2> HIDE DEF f
  <2>6. /\ pair \in Seq(Unit) /\ Len(pair) = 2
        /\ pair[1].part = 1 /\ pair[2].part = 2 /\ pair[1].frame = f /\ pair[2].frame = f
    BY <2>4, UnitsFacts
  <2> HIDE DEF pair
  <2>7. pair[1] \in Unit /\ pair[2] \in Unit
    <3>1. 1 \in 1..Len(pair) /\ 2 \in 1..Len(pair)
      BY <2>6
    <3>2. pair \in Seq(Unit)
      BY <2>6
    <3> QED BY <3>1, <3>2, ElementOfSeq
  <2>8. CASE PartOf(i) = 1
    <3>1. u[i] = pair[1]
      BY <2>5, <2>8
    <3>2. u[i].part = 1 /\ u[i].frame = f /\ u[i] \in Unit
      BY <2>6, <2>7, <3>1
    <3> QED BY <2>3, <2>8, <3>2 DEF f
  <2>9. CASE PartOf(i) = 2
    <3>1. u[i] = pair[2]
      BY <2>5, <2>9
    <3>2. u[i].part = 2 /\ u[i].frame = f /\ u[i] \in Unit
      BY <2>6, <2>7, <3>1
    <3> QED BY <2>3, <2>9, <3>2 DEF f
  <2> QED BY <2>2, <2>8, <2>9
<1>4. u \in Seq(Unit) /\ Len(u) = m
  <2>1. u \in [1..m -> Unit]
    <3>1. u = [i \in 1..m |-> u[i]]
      BY <1>2
    <3> QED BY <1>3, <3>1
  <2> HIDE DEF m
  <2> QED BY <1>1, <2>1, SeqDef
<1> QED BY <1>3, <1>4 DEF u

\* A queue of consecutive messages is whole frames, in order.
LEMMA QueueFrames ==
  ASSUME NEW q \in Seq(Nat), NEW base \in Nat, \A k \in 1..Len(q) : q[k] = base + k
  PROVE  LET u == Endpoint!QueueUnits(q)
         IN  /\ u \in Seq(Unit) /\ Len(u) = 2 * Len(q)
             /\ Endpoint!WholeFrames(u) /\ Whole(u) /\ NoClose(u)
             /\ TextsFrom(u, base + 1) /\ TextsBelow(u, base + Len(q) + 1)
<1> DEFINE u == Endpoint!QueueUnits(q)
           m == 2 * Len(q)
<1>1. /\ u \in Seq(Unit) /\ Len(u) = m /\ Len(q) \in Nat /\ m \in Nat
      /\ \A i \in 1..m :
           /\ FrameOf(i) \in 1..Len(q)
           /\ u[i].part = PartOf(i)
           /\ u[i].frame = Endpoint!Text(q[FrameOf(i)])
  BY QueueUnitsAre, LenProperties
<1> HIDE DEF u
<1>2. ASSUME NEW i \in 1..m
      PROVE  /\ i \in Nat /\ i >= 1
             /\ FrameOf(i) \in 1..Len(q) /\ FrameOf(i) \in Nat
             /\ PartOf(i) \in {1, 2} /\ PartOf(i) \in Nat
             /\ i = 2 * FrameOf(i) - 2 + PartOf(i)
             /\ u[i].part = PartOf(i)
             /\ u[i].frame = Endpoint!Text(base + FrameOf(i))
             /\ u[i].frame.kind = "text" /\ u[i].frame.number = base + FrameOf(i)
             /\ u[i].frame # Endpoint!CloseFrame
  <2>1. i \in Nat /\ i >= 1
    BY <1>1
  <2>2. /\ PartOf(i) \in {1, 2} /\ PartOf(i) \in Nat
        /\ i = 2 * FrameOf(i) - 2 + PartOf(i)
    BY <2>1, FrameAndPart
  <2>3. FrameOf(i) \in 1..Len(q) /\ FrameOf(i) \in Nat
    BY <1>1
  <2>4. q[FrameOf(i)] = base + FrameOf(i) /\ base + FrameOf(i) \in Nat
    BY <1>1, <2>3
  <2>5. u[i].frame = Endpoint!Text(base + FrameOf(i))
    BY <1>1, <2>4
  <2>6. u[i].frame.kind = "text" /\ u[i].frame.number = base + FrameOf(i) /\ u[i].frame # Endpoint!CloseFrame
    BY <2>4, <2>5, TextFacts
  <2> QED BY <1>1, <2>1, <2>2, <2>3, <2>5, <2>6
<1>3. Endpoint!WholeFrames(u)
  <2>1. ASSUME NEW i \in 1..Len(u)
        PROVE  /\ i = 1 => u[i].part = 1
               /\ i > 1 => u[i].part = 3 - u[i - 1].part
               /\ u[i].part = 2 => u[i].frame = u[i - 1].frame
               /\ u[i].part = 1 =>
                    \A j \in 1..(i - 1) :
                      /\ u[j].frame # Endpoint!CloseFrame
                      /\ (u[i].frame.kind = "text" /\ u[j].frame.kind = "text") =>
                           u[j].frame.number < u[i].frame.number
    <3>1. i \in 1..m
      BY <1>1
    <3>2. /\ i \in Nat /\ i >= 1
          /\ FrameOf(i) \in Nat
          /\ PartOf(i) \in {1, 2} /\ PartOf(i) \in Nat
          /\ i = 2 * FrameOf(i) - 2 + PartOf(i)
          /\ u[i].part = PartOf(i)
          /\ u[i].frame = Endpoint!Text(base + FrameOf(i))
          /\ u[i].frame.number = base + FrameOf(i)
      BY <1>2, <3>1
    <3>3. i = 1 => u[i].part = 1
      BY <3>2
    <3>4. ASSUME i > 1
          PROVE  u[i].part = 3 - u[i - 1].part /\ (u[i].part = 2 => u[i].frame = u[i - 1].frame)
      <4> DEFINE j == i - 1
      <4>1. j \in 1..m
        BY <1>1, <3>1, <3>4
      <4> HIDE DEF j
      <4>2. /\ j \in Nat /\ j >= 1
            /\ FrameOf(j) \in Nat
            /\ PartOf(j) \in {1, 2} /\ PartOf(j) \in Nat
            /\ j = 2 * FrameOf(j) - 2 + PartOf(j)
            /\ u[j].part = PartOf(j)
            /\ u[j].frame = Endpoint!Text(base + FrameOf(j))
        BY <1>2, <4>1
      <4>3. i = j + 1
        BY <3>2 DEF j
      <4>4. CASE PartOf(i) = 1
        <5>1. PartOf(j) = 2
          BY <3>2, <4>2, <4>3, <4>4
        <5>2. u[j].part = 2 /\ u[i].part = 1
          BY <3>2, <4>2, <4>4, <5>1
        <5> QED BY <5>2 DEF j
      <4>5. CASE PartOf(i) = 2
        <5>1. PartOf(j) = 1
          BY <3>2, <4>2, <4>3, <4>5
        <5>2. FrameOf(i) = FrameOf(j)
          <6>1. i = 2 * FrameOf(i) - 2 + 2 /\ j = 2 * FrameOf(j) - 2 + 1
            BY <3>2, <4>2, <4>5, <5>1
          <6>2. FrameOf(i) \in Nat /\ FrameOf(j) \in Nat
            BY <3>2, <4>2
          <6> QED BY <4>3, <6>1, <6>2
        <5>3. u[j].part = 1 /\ u[i].part = 2
          BY <3>2, <4>2, <4>5, <5>1
        <5>4. u[i].frame = u[j].frame
          BY <3>2, <4>2, <5>2
        <5> QED BY <5>3, <5>4 DEF j
      <4> QED BY <3>2, <4>4, <4>5
    <3>5. u[i].part = 2 => i > 1
      BY <3>2, <3>3
    <3>6. ASSUME u[i].part = 1, NEW j \in 1..(i - 1)
          PROVE  u[j].frame # Endpoint!CloseFrame /\ u[j].frame.number < u[i].frame.number
      <4>1. j \in 1..m /\ j <= i - 1
        BY <1>1, <3>1
      <4>2. /\ j \in Nat
            /\ FrameOf(j) \in Nat
            /\ PartOf(j) \in {1, 2} /\ PartOf(j) \in Nat
            /\ j = 2 * FrameOf(j) - 2 + PartOf(j)
            /\ u[j].frame.number = base + FrameOf(j)
            /\ u[j].frame # Endpoint!CloseFrame
        BY <1>2, <4>1
      <4>3. PartOf(i) = 1
        BY <3>2, <3>6
      <4>4. FrameOf(j) < FrameOf(i)
        <5>1. i = 2 * FrameOf(i) - 2 + 1 /\ FrameOf(i) \in Nat
          BY <3>2, <4>3
        <5>2. j >= 2 * FrameOf(j) - 2 + 1 /\ FrameOf(j) \in Nat /\ j \in Nat
          BY <4>2
        <5> QED BY <4>1, <5>1, <5>2
      <4> QED BY <3>2, <4>2, <4>4
    <3> QED BY <3>3, <3>4, <3>5, <3>6
  <2> QED BY <1>1, <2>1, FramesAre
<1>4. Whole(u)
  <2> SUFFICES ASSUME u # <<>> PROVE u[m].part = 2
    BY <1>1 DEF Whole
  <2>1. m # 0
    BY <1>1, EmptySeq
  <2>2. m \in 1..m
    BY <1>1, <2>1
  <2>3. PartOf(m) = 2
    <3>1. PartOf(m) \in {1, 2} /\ m = 2 * FrameOf(m) - 2 + PartOf(m) /\ FrameOf(m) \in Nat
      BY <1>2, <2>2
    <3>2. PartOf(m) # 1
      <4> SUFFICES ASSUME PartOf(m) = 1 PROVE FALSE
        OBVIOUS
      <4>1. 2 * Len(q) = 2 * FrameOf(m) - 1
        BY <3>1
      <4> QED BY <1>1, <3>1, <4>1
    <3> QED BY <3>1, <3>2
  <2>4. u[m].part = PartOf(m)
    BY <1>1, <2>2
  <2> QED BY <2>3, <2>4
<1>5. NoClose(u)
  BY <1>1, <1>2 DEF NoClose
<1>6. TextsFrom(u, base + 1) /\ TextsBelow(u, base + Len(q) + 1)
  <2>1. ASSUME NEW i \in 1..Len(u)
        PROVE  u[i].frame.number >= base + 1 /\ u[i].frame.number < base + Len(q) + 1
    <3>1. u[i].frame.number = base + FrameOf(i) /\ FrameOf(i) \in 1..Len(q)
      BY <1>1, <1>2
    <3> QED BY <1>1, <3>1
  <2> QED BY <2>1 DEF TextsFrom, TextsBelow
<1> QED BY <1>1, <1>3, <1>4, <1>5, <1>6 DEF u

\* The units of the first k messages come first.
LEMMA QueueBegins ==
  ASSUME NEW q \in Seq(Nat), NEW k \in 0..Len(q)
  PROVE  LET first == SubSeq(q, 1, k)
             u == Endpoint!QueueUnits(q)
         IN  /\ first \in Seq(Nat) /\ Len(first) = k
             /\ \A i \in 1..k : first[i] = q[i]
             /\ \A i \in 1..(2 * k) : Endpoint!QueueUnits(first)[i] = u[i]
<1> DEFINE first == SubSeq(q, 1, k)
           u == Endpoint!QueueUnits(q)
           v == Endpoint!QueueUnits(first)
<1>1. /\ first \in Seq(Nat) /\ Len(first) = k /\ Len(q) \in Nat /\ k \in Nat /\ k <= Len(q)
      /\ \A i \in 1..k : first[i] = q[i]
  OBVIOUS
<1> HIDE DEF first
<1>2. /\ u \in Seq(Unit) /\ Len(u) = 2 * Len(q)
      /\ \A i \in 1..(2 * Len(q)) :
           /\ u[i].part = PartOf(i)
           /\ u[i].frame = Endpoint!Text(q[FrameOf(i)])
  BY QueueUnitsAre
<1>3. /\ v \in Seq(Unit) /\ Len(v) = 2 * k
      /\ \A i \in 1..(2 * k) :
           /\ FrameOf(i) \in 1..k
           /\ v[i].part = PartOf(i)
           /\ v[i].frame = Endpoint!Text(first[FrameOf(i)])
  BY <1>1, QueueUnitsAre
<1> HIDE DEF u, v
<1>4. ASSUME NEW i \in 1..(2 * k) PROVE v[i] = u[i]
  <2>1. i \in 1..(2 * Len(q)) /\ i \in 1..Len(v) /\ i \in 1..Len(u)
    BY <1>1, <1>2, <1>3
  <2>2. v[i].part = u[i].part
    BY <1>2, <1>3, <2>1
  <2>3. v[i].frame = u[i].frame
    BY <1>1, <1>2, <1>3, <2>1
  <2>4. v[i] \in Unit /\ u[i] \in Unit
    BY <1>2, <1>3, <2>1, UnitFacts
  <2> QED BY <2>2, <2>3, <2>4 DEF Unit
<1> QED BY <1>1, <1>4 DEF first, u, v

Event == [kind : {"PeerOpened", "Message", "PeerClosed"}, id : Nat]

Peer == [id : Nat, connecting : BOOLEAN, age : Nat, phase : {"Handshake", "Open", "Ended"},
         open : BOOLEAN, out : Seq(Unit), queue : Seq(Nat), sent : Nat, dropped : Nat,
         done : BOOLEAN, joined : Nat, wire : Seq(Unit)]

\* All that has started for a peer: what its socket took and what it is owed.
Stream(p) == p.wire \o p.out

\* QueueIsTheNewest of an open peer, when total frames were given to Enqueue.
Newest(p, total) ==
  /\ Len(p.queue) <= Endpoint!QueueBound
  /\ \A k \in 1..Len(p.queue) : p.queue[k] = total - Len(p.queue) + k
  /\ p.sent + p.dropped + Len(p.queue) = total - p.joined

\* Every text that has started for p has a lower number.
Reach(p, total) == IF p.open THEN total - Len(p.queue) + 1 ELSE 0

\* What has started is whole frames, none later than the queue, and no close
\* before the session ended.
Core(p, total) ==
  /\ Endpoint!WholeFrames(Stream(p)) /\ Whole(Stream(p))
  /\ TextsBelow(Stream(p), Reach(p, total))
  /\ IF p.open THEN Newest(p, total) ELSE p.queue = <<>> /\ p.sent = 0 /\ p.dropped = 0
  /\ p.phase # "Ended" => NoClose(Stream(p)) /\ (p.phase = "Open" <=> p.open)

\* A peer that is served.
Live(p, total) == p \in Peer /\ ~p.done /\ Core(p, total)

\* What a reading of the peer p reports: an opening first, if p was not open.
Tells(said, p, now) ==
  /\ \A i \in 1..Len(said) :
       /\ said[i].id = p.id
       /\ said[i].kind = IF i = 1 /\ ~p.open THEN "PeerOpened" ELSE "Message"
  /\ p.open => now.open
  /\ ~now.open => said = <<>>
  /\ (~p.open /\ now.open) => said # <<>>

\* What Reading makes of a peer and a batch, for a peer p as it was before.
Readings == [peer : Peer, events : Seq(Event), opened : BOOLEAN, refused : Nat]

Reads(r, p, total) ==
  /\ Live(r.peer, total)
  /\ r.peer.id = p.id /\ ~r.peer.connecting /\ r.peer.wire = p.wire
  /\ Tells(r.events, p, r.peer)

LEMMA ReachIs ==
  ASSUME NEW total \in Nat, NEW p \in Peer, Core(p, total)
  PROVE  Reach(p, total) \in Nat
<1>1. Len(p.queue) \in Nat /\ p.open \in BOOLEAN /\ p.sent \in Nat /\ p.dropped \in Nat /\ p.joined \in Nat
  BY LenProperties DEF Peer
<1>2. CASE p.open
  <2>1. p.sent + p.dropped + Len(p.queue) = total - p.joined
    BY <1>2 DEF Core, Newest
  <2>2. Reach(p, total) = total - Len(p.queue) + 1
    BY <1>2 DEF Reach
  <2> QED BY <1>1, <2>1, <2>2
<1>3. CASE ~p.open
  BY <1>3 DEF Reach
<1> QED BY <1>1, <1>2, <1>3

\* A peer that owes one frame more, no text.
LEMMA OwesMore ==
  ASSUME NEW total \in Nat, NEW p, Live(p, total), p.phase # "Ended",
         NEW frame \in Wireable, frame.kind # "text"
  PROVE  LET q == [p EXCEPT !.out = @ \o Endpoint!Units(frame)]
             e == Endpoint!Ended(p, Endpoint!Units(frame))
         IN  /\ frame # Endpoint!CloseFrame => Live(q, total)
             /\ Live(e, total)
<1> DEFINE u == Endpoint!Units(frame)
           out == p.out \o u
           s == p.wire \o out
           q == [p EXCEPT !.out = p.out \o u]
           e == [p EXCEPT !.phase = "Ended", !.out = p.out \o u]
           n == Reach(p, total)
<1>1. /\ p \in Peer /\ ~p.done /\ Core(p, total) /\ p.wire \in Seq(Unit) /\ p.out \in Seq(Unit)
  BY DEF Live, Peer
<1>2. n \in Nat
  BY <1>1, ReachIs
<1>3. u \in Seq(Unit)
  BY UnitsFacts
<1> HIDE DEF u, n
<1>4. out \in Seq(Unit)
  BY <1>1, <1>3, ConcatProperties
<1>5. s = Stream(p) \o u /\ Stream(p) \in Seq(Unit)
  BY <1>1, <1>3, UnitsAssociate, ConcatProperties DEF Stream
<1>6. /\ Endpoint!WholeFrames(s) /\ Whole(s) /\ TextsBelow(s, n)
      /\ frame # Endpoint!CloseFrame => NoClose(s)
  <2>1. /\ Endpoint!WholeFrames(Stream(p)) /\ Whole(Stream(p)) /\ TextsBelow(Stream(p), n)
        /\ NoClose(Stream(p))
    BY <1>1 DEF Core, n
  <2> QED BY <1>2, <1>5, <2>1, OneMore DEF u
<1> HIDE DEF out
<1>7. /\ q \in Peer /\ q.out = out /\ q.wire = p.wire /\ q.open = p.open /\ q.queue = p.queue
      /\ q.sent = p.sent /\ q.dropped = p.dropped /\ q.joined = p.joined /\ q.phase = p.phase
      /\ q.done = p.done
  BY <1>1, <1>4 DEF Peer, out
<1>8. /\ e \in Peer /\ e.out = out /\ e.wire = p.wire /\ e.open = p.open /\ e.queue = p.queue
      /\ e.sent = p.sent /\ e.dropped = p.dropped /\ e.joined = p.joined /\ e.phase = "Ended"
      /\ e.done = p.done
  BY <1>1, <1>4 DEF Peer, out
<1> HIDE DEF q, e
<1>9. Stream(q) = s /\ Stream(e) = s
  BY <1>7, <1>8 DEF Stream
<1>10. Reach(q, total) = n /\ Reach(e, total) = n
  BY <1>7, <1>8 DEF Reach, n
<1>11. IF p.open THEN Newest(p, total) ELSE p.queue = <<>> /\ p.sent = 0 /\ p.dropped = 0
  BY <1>1 DEF Core
<1>12. (p.open => Newest(q, total) /\ Newest(e, total))
  BY <1>7, <1>8, <1>11 DEF Newest
<1>13. p.phase = "Open" <=> p.open
  BY <1>1 DEF Core
<1>14. Core(e, total)
  BY <1>6, <1>8, <1>9, <1>10, <1>11, <1>12 DEF Core
<1>15. frame # Endpoint!CloseFrame => Core(q, total)
  BY <1>6, <1>7, <1>9, <1>10, <1>11, <1>12, <1>13 DEF Core
<1>16. Endpoint!Ended(p, Endpoint!Units(frame)) = e
  BY DEF Endpoint!Ended, e, u
<1>17. [p EXCEPT !.out = @ \o Endpoint!Units(frame)] = q
  BY DEF q, u
<1> QED BY <1>1, <1>7, <1>8, <1>14, <1>15, <1>16, <1>17 DEF Live

\* A peer that ends without a word.
LEMMA EndsSilent ==
  ASSUME NEW total \in Nat, NEW p, Live(p, total)
  PROVE  Live(Endpoint!Ended(p, <<>>), total)
<1> DEFINE e == [p EXCEPT !.phase = "Ended"]
<1>1. /\ p \in Peer /\ ~p.done /\ Core(p, total) /\ p.wire \in Seq(Unit) /\ p.out \in Seq(Unit)
  BY DEF Live, Peer
<1>2. Endpoint!Ended(p, <<>>) = e
  <2>1. p.out \o <<>> = p.out
    BY <1>1, ConcatEmptySeq
  <2>2. Endpoint!Ended(p, <<>>) = [p EXCEPT !.phase = "Ended", !.out = p.out \o <<>>]
    BY DEF Endpoint!Ended
  <2>3. [p EXCEPT !.phase = "Ended", !.out = p.out] = e
    BY <1>1 DEF Peer
  <2> QED BY <2>1, <2>2, <2>3
<1>3. /\ e \in Peer /\ e.out = p.out /\ e.wire = p.wire /\ e.open = p.open /\ e.queue = p.queue
      /\ e.sent = p.sent /\ e.dropped = p.dropped /\ e.joined = p.joined /\ e.phase = "Ended"
      /\ e.done = p.done
  BY <1>1 DEF Peer
<1> HIDE DEF e
<1>4. Stream(e) = Stream(p) /\ Reach(e, total) = Reach(p, total)
  BY <1>3 DEF Stream, Reach
<1>5. p.open => (Newest(p, total) => Newest(e, total))
  BY <1>3 DEF Newest
<1>6. Core(e, total)
  BY <1>1, <1>3, <1>4, <1>5 DEF Core
<1> QED BY <1>1, <1>2, <1>3, <1>6 DEF Live

\* A handshake that completes: everything queued is still to come.
LEMMA OpensNow ==
  ASSUME Configured, NEW total \in Nat, NEW p, Live(p, total), p.phase = "Handshake"
  PROVE  LET q == [p EXCEPT !.phase = "Open", !.open = TRUE, !.joined = total]
         IN  Live(q, total) /\ q.phase = "Open"
<1> DEFINE q == [p EXCEPT !.phase = "Open", !.open = TRUE, !.joined = total]
<1>1. /\ p \in Peer /\ ~p.done /\ Core(p, total) /\ p.wire \in Seq(Unit) /\ p.out \in Seq(Unit)
  BY DEF Live, Peer
<1>2. ~p.open
  BY <1>1 DEF Core
<1>3. /\ q \in Peer /\ q.out = p.out /\ q.wire = p.wire /\ q.open = TRUE /\ q.queue = p.queue
      /\ q.sent = p.sent /\ q.dropped = p.dropped /\ q.joined = total /\ q.phase = "Open" /\ q.done = p.done
  BY <1>1 DEF Peer
<1> HIDE DEF q
<1>4. p.queue = <<>> /\ p.sent = 0 /\ p.dropped = 0 /\ Reach(p, total) = 0
  BY <1>1, <1>2 DEF Core, Reach
<1>5. Len(q.queue) = 0
  BY <1>3, <1>4
<1>6. Newest(q, total)
  <2>1. 0 <= Endpoint!QueueBound
    BY DEF Configured, Endpoint!QueueBound, Endpoint!Greatest
  <2> QED BY <1>3, <1>4, <1>5, <2>1 DEF Newest
<1>7. Stream(q) = Stream(p) /\ Reach(q, total) = total + 1
  BY <1>3, <1>5 DEF Stream, Reach
<1>8. Stream(p) \in Seq(Unit)
  BY <1>1, ConcatProperties DEF Stream
<1>9. /\ Endpoint!WholeFrames(Stream(p)) /\ Whole(Stream(p)) /\ NoClose(Stream(p))
      /\ TextsBelow(Stream(p), 0)
  BY <1>1, <1>4 DEF Core
<1>10. TextsBelow(Stream(p), total + 1)
  BY <1>8, <1>9, TextsMore
<1>11. Core(q, total)
  BY <1>3, <1>6, <1>7, <1>9, <1>10 DEF Core
<1> QED BY <1>1, <1>3, <1>11 DEF Live, q

LEMMA FixedFrames ==
  /\ Endpoint!Request \in Wireable /\ Endpoint!Request.kind # "text"
  /\ Endpoint!Request # Endpoint!CloseFrame
  /\ Endpoint!Answer \in Wireable /\ Endpoint!Answer.kind # "text"
  /\ Endpoint!Answer # Endpoint!CloseFrame
  /\ Endpoint!Refusal \in Wireable /\ Endpoint!Refusal.kind # "text"
  /\ Endpoint!Refusal # Endpoint!CloseFrame
  /\ Endpoint!Pong \in Wireable /\ Endpoint!Pong.kind # "text"
  /\ Endpoint!Pong # Endpoint!CloseFrame
  /\ Endpoint!CloseFrame \in Wireable /\ Endpoint!CloseFrame.kind # "text"
<1>1. \A kind \in Kinds : /\ Endpoint!Frame(kind, 0) \in Wireable
                          /\ Endpoint!Frame(kind, 0).kind = kind
  BY DEF Endpoint!Frame, Wireable
<1> QED
  BY <1>1 DEF Endpoint!Request, Endpoint!Answer, Endpoint!Refusal, Endpoint!Pong,
              Endpoint!CloseFrame, Kinds

LEMMA EventFacts ==
  ASSUME NEW said \in Seq(Event), NEW event \in Event
  PROVE  LET more == Append(said, event)
         IN  /\ more \in Seq(Event) /\ Len(more) = Len(said) + 1 /\ more # <<>>
             /\ Len(said) \in Nat
             /\ \A i \in 1..Len(said) : more[i] = said[i]
             /\ more[Len(said) + 1] = event
<1>1. Len(said) \in Nat
  BY LenProperties
<1>2. /\ Append(said, event) \in Seq(Event) /\ Len(Append(said, event)) = Len(said) + 1
      /\ \A i \in 1..Len(said) : Append(said, event)[i] = said[i]
      /\ Append(said, event)[Len(said) + 1] = event
  OBVIOUS
<1>3. Append(said, event) # <<>>
  BY <1>1, <1>2
<1> QED BY <1>1, <1>2, <1>3

LEMMA HandshakeReads ==
  ASSUME Configured, sends \in Nat,
         NEW p, NEW r \in Readings, Reads(r, p, sends),
         r.peer.phase = "Handshake", NEW item
  PROVE  Endpoint!Handshake(r, item) \in Readings /\ Reads(Endpoint!Handshake(r, item), p, sends)
<1> DEFINE now == r.peer
           h == Endpoint!Handshake(r, item)
<1>1. /\ now \in Peer /\ Live(now, sends) /\ r.events \in Seq(Event) /\ r.refused \in Nat
      /\ r.opened \in BOOLEAN
      /\ now.id = p.id /\ ~now.connecting /\ now.wire = p.wire
      /\ Tells(r.events, p, now)
  BY DEF Reads, Readings
<1>2. ~now.open
  BY <1>1 DEF Live, Core
<1>3. r.events = <<>> /\ ~p.open
  BY <1>1, <1>2 DEF Tells
<1>4. CASE item = "hello"
  <2> DEFINE q == [now EXCEPT !.phase = "Open", !.open = TRUE, !.joined = sends]
             a == [q EXCEPT !.out = @ \o Endpoint!Units(Endpoint!Answer)]
             new == IF Endpoint!Role = "Listen" THEN a ELSE q
             event == [kind |-> "PeerOpened", id |-> now.id]
             more == Append(r.events, event)
             pp == [now EXCEPT !.phase = "Open", !.open = TRUE, !.joined = sends,
                                !.out = IF Endpoint!Role = "Listen" THEN @ \o Endpoint!Units(Endpoint!Answer)
                                        ELSE @]
  <2>1. Live(q, sends) /\ q.phase = "Open"
    BY <1>1, OpensNow
  <2>2. Live(a, sends)
    <3> HIDE DEF q
    <3> QED BY <2>1, OwesMore, FixedFrames
  <2>3. /\ q.id = p.id /\ ~q.connecting /\ q.wire = p.wire /\ q.open
        /\ a.id = p.id /\ ~a.connecting /\ a.wire = p.wire /\ a.open
    BY <1>1 DEF Peer
  <2>4. pp = new
    BY <1>1 DEF Peer
  <2>5. h = [r EXCEPT !.peer = pp, !.events = more, !.opened = TRUE, !.refused = 0]
    BY <1>4 DEF Endpoint!Handshake
  <2> HIDE DEF pp, h
  <2>6. /\ Live(new, sends) /\ new.id = p.id /\ ~new.connecting /\ new.wire = p.wire /\ new.open
    BY <2>1, <2>2, <2>3
  <2> HIDE DEF new
  <2>7. new \in Peer
    BY <2>6 DEF Live
  <2>8. event \in Event /\ event.id = p.id /\ event.kind = "PeerOpened"
    BY <1>1 DEF Event, Peer
  <2> HIDE DEF event
  <2>9. /\ more \in Seq(Event) /\ Len(more) = 1 /\ more # <<>> /\ more[1] = event
    BY <1>1, <1>3, <2>8, EventFacts
  <2> HIDE DEF more
  <2>10. h \in Readings /\ h.peer = new /\ h.events = more
    BY <1>1, <2>4, <2>5, <2>7, <2>9 DEF Readings
  <2>11. Tells(more, p, new)
    BY <1>3, <2>6, <2>8, <2>9 DEF Tells
  <2> QED BY <2>6, <2>10, <2>11 DEF Reads, h
<1>5. ASSUME item # "hello"
      PROVE  \/ h = r
             \/ \E e : /\ Live(e, sends) /\ e.id = p.id /\ ~e.connecting /\ e.wire = p.wire /\ ~e.open
                       /\ h = [r EXCEPT !.peer = e, !.refused = @ + 1]
  <2> DEFINE e0 == Endpoint!Ended(now, <<>>)
             e1 == Endpoint!Ended(now, Endpoint!Units(Endpoint!Refusal))
  <2>1. Live(e0, sends)
    BY <1>1, EndsSilent
  <2>2. Live(e1, sends)
    BY <1>1, OwesMore, FixedFrames
  <2>3. /\ e0.id = p.id /\ ~e0.connecting /\ e0.wire = p.wire /\ ~e0.open
        /\ e1.id = p.id /\ ~e1.connecting /\ e1.wire = p.wire /\ ~e1.open
    BY <1>1, <1>2 DEF Peer, Endpoint!Ended
  <2>4. CASE item = "badhello"
    <3>1. h = [r EXCEPT !.peer = Endpoint!Ended(now, IF Endpoint!Role = "Listen"
                                                     THEN Endpoint!Units(Endpoint!Refusal) ELSE <<>>),
                        !.refused = @ + 1]
      BY <2>4 DEF Endpoint!Handshake
    <3>2. h = [r EXCEPT !.peer = e1, !.refused = @ + 1] \/ h = [r EXCEPT !.peer = e0, !.refused = @ + 1]
      BY <3>1
    <3> HIDE DEF h, e0, e1, now
    <3> QED BY <2>1, <2>2, <2>3, <3>2
  <2>5. CASE item = "longhead"
    <3>1. h = [r EXCEPT !.peer = e0, !.refused = @ + 1]
      BY <2>5 DEF Endpoint!Handshake
    <3> HIDE DEF h, e0, e1, now
    <3> QED BY <2>1, <2>3, <3>1
  <2>6. CASE item # "badhello" /\ item # "longhead"
    BY <1>5, <2>6 DEF Endpoint!Handshake
  <2> QED BY <2>4, <2>5, <2>6
<1>6. CASE item # "hello"
  <2>1. CASE h = r
    BY <2>1
  <2>2. ASSUME NEW e, Live(e, sends), e.id = p.id, ~e.connecting, e.wire = p.wire, ~e.open,
               h = [r EXCEPT !.peer = e, !.refused = @ + 1]
        PROVE  h \in Readings /\ Reads(h, p, sends)
    <3> HIDE DEF h, now
    <3>1. e \in Peer
      BY <2>2 DEF Live
    <3>2. h \in Readings /\ h.peer = e /\ h.events = r.events
      <4> DEFINE more == r.refused + 1
      <4>1. more \in Nat /\ h = [r EXCEPT !.peer = e, !.refused = more]
        BY <1>1, <2>2
      <4> HIDE DEF more
      <4> QED BY <3>1, <4>1 DEF Readings
    <3>3. Tells(h.events, p, e)
      BY <1>3, <2>2, <3>2 DEF Tells
    <3> QED BY <2>2, <3>2, <3>3 DEF Reads
  <2> QED BY <1>5, <1>6, <2>1, <2>2
<1> QED BY <1>4, <1>6

LEMMA FramingReads ==
  ASSUME sends \in Nat, NEW p, NEW r \in Readings, Reads(r, p, sends),
         r.peer.phase = "Open", NEW item
  PROVE  Endpoint!Framing(r, item) \in Readings /\ Reads(Endpoint!Framing(r, item), p, sends)
<1> DEFINE now == r.peer
           h == Endpoint!Framing(r, item)
<1>1. /\ now \in Peer /\ Live(now, sends) /\ r.events \in Seq(Event) /\ r.refused \in Nat
      /\ r.opened \in BOOLEAN
      /\ now.id = p.id /\ ~now.connecting /\ now.wire = p.wire
      /\ Tells(r.events, p, now)
  BY DEF Reads, Readings
<1>2. now.open /\ now.id \in Nat
  BY <1>1 DEF Live, Core, Peer
<1>3. CASE item = "text"
  <2> DEFINE event == [kind |-> "Message", id |-> now.id]
             more == Append(r.events, event)
  <2>1. h = [r EXCEPT !.events = more]
    BY <1>3 DEF Endpoint!Framing
  <2>2. event \in Event /\ event.id = p.id /\ event.kind = "Message"
    BY <1>1, <1>2 DEF Event
  <2> HIDE DEF event, h
  <2>3. /\ more \in Seq(Event) /\ Len(more) = Len(r.events) + 1 /\ more # <<>>
        /\ Len(r.events) \in Nat
        /\ \A i \in 1..Len(r.events) : more[i] = r.events[i]
        /\ more[Len(r.events) + 1] = event
    BY <1>1, <2>2, EventFacts
  <2> HIDE DEF more
  <2>4. h \in Readings /\ h.peer = now /\ h.events = more
    BY <1>1, <2>1, <2>3 DEF Readings
  <2>5. ~p.open => Len(r.events) # 0
    <3>1. ~p.open => r.events # <<>>
      BY <1>1, <1>2 DEF Tells
    <3> QED BY <1>1, <3>1, EmptySeq
  <2>6. ASSUME NEW i \in 1..Len(more)
        PROVE  /\ more[i].id = p.id
               /\ more[i].kind = IF i = 1 /\ ~p.open THEN "PeerOpened" ELSE "Message"
    <3>1. i \in 1..Len(r.events) \/ i = Len(r.events) + 1
      BY <2>3
    <3>2. CASE i \in 1..Len(r.events)
      BY <1>1, <2>3, <3>2 DEF Tells
    <3>3. CASE i = Len(r.events) + 1
      <4>1. more[i] = event
        BY <2>3, <3>3
      <4>2. ~(i = 1 /\ ~p.open)
        BY <2>3, <2>5, <3>3
      <4> QED BY <2>2, <4>1, <4>2
    <3> QED BY <3>1, <3>2, <3>3
  <2>7. Tells(more, p, now)
    BY <1>1, <1>2, <2>3, <2>6 DEF Tells
  <2> QED BY <1>1, <2>4, <2>7 DEF Reads, h
<1>4. ASSUME item # "text"
      PROVE  \/ h = r
             \/ \E e : /\ Live(e, sends) /\ e.id = p.id /\ ~e.connecting /\ e.wire = p.wire /\ e.open
                       /\ h = [r EXCEPT !.peer = e]
  <2> DEFINE e0 == [now EXCEPT !.out = @ \o Endpoint!Units(Endpoint!Pong)]
             e1 == Endpoint!Ended(now, Endpoint!Units(Endpoint!CloseFrame))
  <2>1. Live(e0, sends) /\ Live(e1, sends)
    BY <1>1, OwesMore, FixedFrames
  <2>2. /\ e0.id = p.id /\ ~e0.connecting /\ e0.wire = p.wire /\ e0.open
        /\ e1.id = p.id /\ ~e1.connecting /\ e1.wire = p.wire /\ e1.open
    BY <1>1, <1>2 DEF Peer, Endpoint!Ended
  <2>3. CASE item = "ping"
    <3>1. h = [r EXCEPT !.peer = e0]
      BY <2>3 DEF Endpoint!Framing
    <3> HIDE DEF h, e0, e1, now
    <3> QED BY <2>1, <2>2, <3>1
  <2>4. CASE item \in {"close", "fault"}
    <3>1. h = [r EXCEPT !.peer = e1]
      BY <2>4 DEF Endpoint!Framing
    <3> HIDE DEF h, e0, e1, now
    <3> QED BY <2>1, <2>2, <3>1
  <2>5. CASE item # "ping" /\ item \notin {"close", "fault"}
    BY <1>4, <2>5 DEF Endpoint!Framing
  <2> QED BY <2>3, <2>4, <2>5
<1>5. CASE item # "text"
  <2>1. CASE h = r
    BY <2>1
  <2>2. ASSUME NEW e, Live(e, sends), e.id = p.id, ~e.connecting, e.wire = p.wire, e.open,
               h = [r EXCEPT !.peer = e]
        PROVE  h \in Readings /\ Reads(h, p, sends)
    <3> HIDE DEF h, now
    <3>1. e \in Peer
      BY <2>2 DEF Live
    <3>2. h \in Readings /\ h.peer = e /\ h.events = r.events
      BY <1>1, <2>2, <3>1 DEF Readings
    <3>3. Tells(h.events, p, e)
      BY <1>1, <1>2, <2>2, <3>2 DEF Tells, now
    <3> QED BY <2>2, <3>2, <3>3 DEF Reads
  <2> QED BY <1>4, <1>5, <2>1, <2>2
<1> QED BY <1>3, <1>5

LEMMA ReceiveReads ==
  ASSUME Configured, sends \in Nat,
         NEW p, NEW r \in Readings, Reads(r, p, sends), NEW item
  PROVE  Endpoint!Receive(r, item) \in Readings /\ Reads(Endpoint!Receive(r, item), p, sends)
<1>1. CASE r.peer.phase = "Handshake"
  BY <1>1, HandshakeReads DEF Endpoint!Receive
<1>2. CASE r.peer.phase = "Open"
  BY <1>2, FramingReads DEF Endpoint!Receive
<1>3. CASE r.peer.phase # "Handshake" /\ r.peer.phase # "Open"
  BY <1>3 DEF Endpoint!Receive
<1> QED BY <1>1, <1>2, <1>3

LEMMA ReadingReads ==
  ASSUME Configured, sends \in Nat,
         NEW p, Live(p, sends), p.phase # "Ended", ~p.connecting,
         NEW n \in Nat, NEW batch \in [1..n -> Endpoint!Arrivals]
  PROVE  Endpoint!Reading(p, batch) \in Readings /\ Reads(Endpoint!Reading(p, batch), p, sends)
<1> DEFINE V == {r \in Readings : Reads(r, p, sends)}
           base == [peer |-> p, events |-> <<>>, opened |-> FALSE, refused |-> 0]
           step == [q \in V \X (1..n) |-> Endpoint!Receive(q[1], batch[q[2]])]
           Chosen(g) == g = [s \in SUBSET (1..n) |->
                           IF s = {} THEN base ELSE Endpoint!Receive(g[s \ {Top(s)}], batch[Top(s)])]
           it == CHOOSE g : Chosen(g)
<1>1. base \in V
  <2>1. p \in Peer
    BY DEF Live
  <2>2. base \in Readings /\ base.peer = p /\ base.events = <<>>
    BY <2>1 DEF Readings
  <2> HIDE DEF base
  <2>3. Tells(<<>>, p, p)
    BY DEF Tells
  <2> QED BY <2>2, <2>3 DEF Reads
<1>2. step \in [V \X (1..n) -> V]
  BY ReceiveReads
<1>3. \A v \in V, i \in 1..n : step[<<v, i>>] = Endpoint!Receive(v, batch[i])
  OBVIOUS
<1>4. DOMAIN batch = 1..n
  OBVIOUS
<1>5. Endpoint!Reading(p, batch) = it[1..n]
  BY <1>4 DEF Endpoint!Reading, Endpoint!FoldLeft, Endpoint!MapThenFoldSet, Endpoint!Max, Top
<1> HIDE DEF V, base, step
<1>6. PICK h \in [SUBSET (1..n) -> V] : Folds(h, n, base, step)
  BY <1>1, <1>2, FoldExists
<1>7. Chosen(h)
  <2>1. ASSUME NEW s \in SUBSET (1..n), s # {}
        PROVE  h[s] = Endpoint!Receive(h[s \ {Top(s)}], batch[Top(s)])
    <3>1. Top(s) \in 1..n /\ h[s \ {Top(s)}] \in V
      BY <1>6, <2>1, TopIsIn
    <3>2. h[s] = step[<<h[s \ {Top(s)}], Top(s)>>]
      BY <1>6, <2>1 DEF Folds
    <3> QED BY <1>3, <3>1, <3>2
  <2>2. \A s \in SUBSET (1..n) : s = {} => h[s] = base
    BY <1>6 DEF Folds
  <2> QED BY <2>1, <2>2
<1>8. Chosen(it)
  <2> HIDE DEF Chosen
  <2> QED BY <1>7
<1> HIDE DEF it
<1>9. it[1..0] = base /\ \A m \in 1..n : it[1..m] = Endpoint!Receive(it[1..(m - 1)], batch[m])
  <2>1. \A s \in SUBSET (1..n) :
          it[s] = IF s = {} THEN base ELSE Endpoint!Receive(it[s \ {Top(s)}], batch[Top(s)])
    BY <1>8
  <2>2. 1..0 \in SUBSET (1..n) /\ 1..0 = {}
    OBVIOUS
  <2>3. \A m \in 1..n :
          1..m \in SUBSET (1..n) /\ 1..m # {} /\ (1..m) \ {Top(1..m)} = 1..(m - 1) /\ Top(1..m) = m
    BY Segments
  <2> HIDE DEF Chosen
  <2>4. it[1..0] = base
    BY <2>1, <2>2
  <2>5. ASSUME NEW m \in 1..n PROVE it[1..m] = Endpoint!Receive(it[1..(m - 1)], batch[m])
    <3>1. 1..m \in SUBSET (1..n) /\ 1..m # {}
      BY <2>3
    <3>2. it[1..m] = Endpoint!Receive(it[(1..m) \ {Top(1..m)}], batch[Top(1..m)])
      BY <2>1, <3>1
    <3>3. Top(1..m) = m /\ (1..m) \ {Top(1..m)} = 1..(m - 1)
      BY <2>3
    <3> QED BY <3>2, <3>3
  <2> QED BY <2>4, <2>5
<1> DEFINE bad == {m \in 0..n : it[1..m] \notin V}
<1> HIDE DEF Chosen
<1>10. bad = {}
  <2>1. 0 \notin bad
    BY <1>1, <1>9
  <2>2. \A m \in 0..n : m + 1 \in bad => m \in bad
    <3> SUFFICES ASSUME NEW m \in 0..n, m + 1 \in bad, it[1..m] \in V PROVE FALSE
      OBVIOUS
    <3>1. m + 1 \in 1..n /\ (m + 1) - 1 = m
      OBVIOUS
    <3>2. it[1..(m + 1)] = Endpoint!Receive(it[1..m], batch[m + 1])
      BY <1>9, <3>1
    <3>3. it[1..(m + 1)] \in V
      BY <3>2, ReceiveReads DEF V
    <3> QED BY <3>3
  <2> QED BY <2>1, <2>2, NoneBad
<1>11. it[1..n] \in V
  BY <1>10
<1> QED BY <1>5, <1>11 DEF V

LEMMA SplitUnits ==
  ASSUME NEW x \in Seq(Unit), NEW n \in 0..Len(x)
  PROVE  LET u == SubSeq(x, 1, n)
             v == SubSeq(x, n + 1, Len(x))
         IN  u \in Seq(Unit) /\ v \in Seq(Unit) /\ Len(v) = Len(x) - n /\ x = u \o v
<1> DEFINE u == SubSeq(x, 1, n)
           v == SubSeq(x, n + 1, Len(x))
<1>1. Len(x) \in Nat /\ n \in Nat /\ n <= Len(x)
  OBVIOUS
<1>2. u \in Seq(Unit) /\ Len(u) = n /\ \A i \in 1..n : u[i] = x[i]
  BY <1>1
<1>3. v \in Seq(Unit) /\ Len(v) = Len(x) - n /\ \A i \in 1..(Len(x) - n) : v[i] = x[n + i]
  <2>1. v \in Seq(Unit)
    BY <1>1
  <2>2. Len(v) = Len(x) - n
    BY <1>1
  <2>3. \A i \in 1..(Len(x) - n) : v[i] = x[n + 1 + i - 1]
    BY <1>1
  <2> QED BY <1>1, <2>1, <2>2, <2>3
<1> HIDE DEF u, v
<1>4. /\ u \o v \in Seq(Unit) /\ Len(u \o v) = Len(x)
      /\ \A i \in 1..Len(x) : (u \o v)[i] = IF i <= n THEN u[i] ELSE v[i - n]
  BY <1>1, <1>2, <1>3, ConcatProperties
<1>5. \A i \in 1..Len(x) : x[i] = (u \o v)[i]
  <2> TAKE i \in 1..Len(x)
  <2>1. i \in Nat /\ (i <= n \/ i > n)
    BY <1>1
  <2>2. CASE i <= n
    BY <1>1, <1>2, <1>4, <2>1, <2>2
  <2>3. CASE i > n
    <3>1. i - n \in 1..(Len(x) - n) /\ n + (i - n) = i
      BY <1>1, <2>1, <2>3
    <3>2. (u \o v)[i] = v[i - n] /\ v[i - n] = x[n + (i - n)]
      BY <1>1, <1>3, <1>4, <2>1, <2>3, <3>1
    <3> QED BY <3>1, <3>2
  <2> QED BY <2>1, <2>2, <2>3
<1>6. x = u \o v
  BY <1>4, <1>5, SeqEqual
<1> QED BY <1>2, <1>3, <1>6 DEF u, v

LEMMA JoinUnits ==
  ASSUME NEW a \in Seq(Unit), NEW b \in Seq(Unit)
  PROVE  /\ a \o b \in Seq(Unit) /\ Len(a \o b) = Len(a) + Len(b)
         /\ Len(a) \in Nat /\ Len(b) \in Nat
         /\ \A i \in 1..(Len(a) + Len(b)) : (a \o b)[i] = IF i <= Len(a) THEN a[i] ELSE b[i - Len(a)]
  BY ConcatProperties, LenProperties

LEMMA DropSome ==
  ASSUME NEW q \in Seq(Nat), NEW k \in 0..Len(q)
  PROVE  LET rest == SubSeq(q, k + 1, Len(q))
         IN  /\ rest \in Seq(Nat) /\ Len(rest) = Len(q) - k
             /\ \A j \in 1..(Len(q) - k) : rest[j] = q[k + j]
<1>1. Len(q) \in Nat /\ k \in Nat /\ k <= Len(q)
  OBVIOUS
<1>2. SubSeq(q, k + 1, Len(q)) \in Seq(Nat)
  BY <1>1
<1>3. Len(SubSeq(q, k + 1, Len(q))) = Len(q) - k
  BY <1>1
<1>4. \A j \in 1..(Len(q) - k) : SubSeq(q, k + 1, Len(q))[j] = q[k + 1 + j - 1]
  BY <1>1
<1>5. \A j \in 1..(Len(q) - k) : k + 1 + j - 1 = k + j
  BY <1>1
<1> QED BY <1>2, <1>3, <1>4, <1>5

LEMMA WithinKeeps ==
  ASSUME NEW r, NEW s, Within(r, s)
  PROVE  /\ NoClose(s) => NoClose(r)
         /\ \A n : TextsBelow(s, n) => TextsBelow(r, n)
  BY DEF Within, NoClose, TextsBelow

\* What a peer owes.
LEMMA OwedIs ==
  ASSUME NEW p \in Peer
  PROVE  LET o == Endpoint!Owed(p)
             a == Endpoint!QueueUnits(p.queue)
         IN  /\ o \in Seq(Unit) /\ Len(o) \in Nat /\ Len(p.out) \in Nat /\ Len(p.queue) \in Nat
             /\ p.open => Len(o) = Len(p.out) + 2 * Len(p.queue)
             /\ ~p.open => Len(o) = Len(p.out)
             /\ \A i \in 1..Len(o) : o[i] = IF i <= Len(p.out) THEN p.out[i] ELSE a[i - Len(p.out)]
<1> DEFINE o == Endpoint!Owed(p)
           a == Endpoint!QueueUnits(p.queue)
           l == Len(p.out)
           m == Len(p.queue)
<1>1. p.out \in Seq(Unit) /\ p.queue \in Seq(Nat) /\ l \in Nat /\ m \in Nat /\ p.open \in BOOLEAN
  BY LenProperties DEF Peer
<1>2. a \in Seq(Unit) /\ Len(a) = 2 * m
  BY <1>1, QueueUnitsAre
<1>3. CASE p.open
  <2>1. o = p.out \o a
    BY <1>3 DEF Endpoint!Owed
  <2> HIDE DEF o, a
  <2>2. /\ o \in Seq(Unit) /\ Len(o) = l + Len(a)
        /\ \A i \in 1..(l + Len(a)) : o[i] = IF i <= l THEN p.out[i] ELSE a[i - l]
    BY <1>1, <1>2, <2>1, JoinUnits
  <2> HIDE DEF l, m
  <2>3. Len(o) = l + 2 * m /\ Len(o) \in Nat
    BY <1>1, <1>2, <2>2
  <2>4. \A i \in 1..Len(o) : o[i] = IF i <= l THEN p.out[i] ELSE a[i - l]
    BY <2>2
  <2> QED BY <1>1, <1>3, <2>2, <2>3, <2>4 DEF o, a, l, m
<1>4. CASE ~p.open
  <2>1. o = p.out \o <<>>
    BY <1>4 DEF Endpoint!Owed
  <2>2. o = p.out
    BY <1>1, <2>1, ConcatEmptySeq
  <2>3. \A i \in 1..l : i <= l
    BY <1>1
  <2> HIDE DEF o, a
  <2> QED BY <1>1, <1>4, <2>2, <2>3 DEF o, a
<1> QED BY <1>1, <1>3, <1>4

LEMMA StartedIs ==
  ASSUME NEW p \in Peer, NEW n \in 0..Len(Endpoint!Owed(p))
  PROVE  LET k == Endpoint!Started(p, n)
         IN  /\ k \in 0..Len(p.queue) /\ n <= Len(p.out) + 2 * k
             /\ ~p.open => k = 0
<1> DEFINE k == Endpoint!Started(p, n)
           o == Endpoint!Owed(p)
           l == Len(p.out)
           m == Len(p.queue)
<1>1. /\ l \in Nat /\ m \in Nat /\ p.open \in BOOLEAN /\ Len(o) \in Nat
      /\ p.open => Len(o) = l + 2 * m
      /\ ~p.open => Len(o) = l
  <2>1. p.open \in BOOLEAN
    BY DEF Peer
  <2> QED BY <2>1, OwedIs
<1>3. n \in Nat /\ n <= Len(o)
  <2> HIDE DEF o
  <2> QED BY <1>1 DEF o
<1>4. k = IF n < l \/ ~p.open THEN 0 ELSE Endpoint!Least((n - l) \div 2 + 1, m)
  BY DEF Endpoint!Started
<1> HIDE DEF k, o, l, m
<1>5. CASE n < l \/ ~p.open
  <2>1. k = 0
    BY <1>4, <1>5
  <2>2. n <= l + 2 * k /\ k \in 0..m
    BY <1>1, <1>3, <1>5, <2>1
  <2> QED BY <2>1, <2>2 DEF k, l, m
<1>6. CASE ~(n < l \/ ~p.open)
  <2> DEFINE d == n - l
             h == d \div 2
  <2>1. d \in Nat /\ d <= 2 * m /\ n = l + d
    BY <1>1, <1>3, <1>6
  <2>2. h \in Nat /\ d < 2 * h + 2
    <3> HIDE DEF d
    <3> QED BY <2>1
  <2>3. k = Endpoint!Least(h + 1, m)
    BY <1>4, <1>6
  <2> HIDE DEF h, d
  <2>4. k \in 0..m /\ d <= 2 * k
    BY <1>1, <2>1, <2>2, <2>3 DEF Endpoint!Least
  <2>5. n <= l + 2 * k
    BY <1>1, <2>1, <2>4
  <2> QED BY <1>6, <2>4, <2>5 DEF k, l, m
<1> QED BY <1>5, <1>6

\* What a peer owes, with the messages that start, of its queue.
LEMMA StartedUnits ==
  ASSUME NEW total \in Nat, NEW p, Live(p, total), p.phase # "Ended", NEW k \in 0..Len(p.queue),
         ~p.open => k = 0
  PROVE  LET x == p.out \o Endpoint!QueueUnits(SubSeq(p.queue, 1, k))
             s == p.wire \o x
         IN  /\ x \in Seq(Unit) /\ Len(x) = Len(p.out) + 2 * k
             /\ \A i \in 1..Len(x) : i <= Len(Endpoint!Owed(p)) /\ Endpoint!Owed(p)[i] = x[i]
             /\ s \in Seq(Unit) /\ Endpoint!WholeFrames(s) /\ Whole(s) /\ NoClose(s)
             /\ TextsBelow(s, IF p.open THEN total - (Len(p.queue) - k) + 1 ELSE 0)
<1> DEFINE first == SubSeq(p.queue, 1, k)
           b == Endpoint!QueueUnits(first)
           a == Endpoint!QueueUnits(p.queue)
           x == p.out \o b
           s == p.wire \o x
           o == Endpoint!Owed(p)
           l == Len(p.out)
           m == Len(p.queue)
           base == total - m
<1>1. /\ p \in Peer /\ Core(p, total) /\ p.out \in Seq(Unit) /\ p.wire \in Seq(Unit)
      /\ p.queue \in Seq(Nat) /\ l \in Nat /\ m \in Nat /\ p.open \in BOOLEAN
      /\ k \in Nat /\ k <= m
  BY LenProperties DEF Live, Peer
<1>2. /\ first \in Seq(Nat) /\ Len(first) = k
      /\ \A i \in 1..k : first[i] = p.queue[i]
      /\ \A i \in 1..(2 * k) : b[i] = a[i]
  BY <1>1, QueueBegins
<1>3. a \in Seq(Unit) /\ Len(a) = 2 * m /\ b \in Seq(Unit) /\ Len(b) = 2 * k
  BY <1>1, <1>2, QueueUnitsAre
<1> HIDE DEF first, a, l, m
<1>4. /\ x \in Seq(Unit) /\ Len(x) = l + 2 * k
      /\ \A i \in 1..Len(x) : x[i] = IF i <= l THEN p.out[i] ELSE b[i - l]
  <2> HIDE DEF b
  <2>1. /\ x \in Seq(Unit) /\ Len(x) = l + Len(b)
        /\ \A i \in 1..(l + Len(b)) : x[i] = IF i <= l THEN p.out[i] ELSE b[i - l]
    BY <1>1, <1>3, JoinUnits DEF l
  <2> HIDE DEF x
  <2> QED BY <1>3, <2>1
<1>5. /\ Len(o) \in Nat
      /\ p.open => Len(o) = l + 2 * m
      /\ ~p.open => Len(o) = l
      /\ \A i \in 1..Len(o) : o[i] = IF i <= l THEN p.out[i] ELSE a[i - l]
  BY <1>1, OwedIs DEF a, l, m
<1> HIDE DEF x, o, b
<1>6. ASSUME NEW i \in 1..Len(x) PROVE i <= Len(o) /\ o[i] = x[i]
  <2>1. i \in 1..Len(o) /\ i \in Nat /\ (i <= l \/ i > l)
    BY <1>1, <1>4, <1>5
  <2>2. CASE i <= l
    BY <1>4, <1>5, <2>1, <2>2
  <2>3. CASE i > l
    <3>1. i - l \in 1..(2 * k)
      BY <1>1, <1>4, <2>1, <2>3
    <3> QED BY <1>2, <1>4, <1>5, <2>1, <2>3, <3>1
  <2> QED BY <2>1, <2>2, <2>3
<1>7. s = Stream(p) \o b /\ Stream(p) \in Seq(Unit)
  BY <1>1, <1>3, UnitsAssociate, ConcatProperties DEF Stream, x
<1>8. /\ Endpoint!WholeFrames(Stream(p)) /\ Whole(Stream(p)) /\ NoClose(Stream(p))
      /\ TextsBelow(Stream(p), Reach(p, total))
  BY <1>1 DEF Core
<1> HIDE DEF s
<1>9. CASE p.open
  <2>1. /\ m <= Endpoint!QueueBound
        /\ \A j \in 1..m : p.queue[j] = total - m + j
        /\ p.sent + p.dropped + m = total - p.joined
    BY <1>1, <1>9 DEF Core, Newest, m
  <2>2. base \in Nat
    <3>1. p.sent \in Nat /\ p.dropped \in Nat /\ p.joined \in Nat
      BY <1>1 DEF Peer
    <3> QED BY <1>1, <2>1, <3>1
  <2>3. \A j \in 1..Len(first) : first[j] = base + j
    <3> TAKE j \in 1..Len(first)
    <3>1. j \in 1..k /\ j \in 1..m /\ j \in Nat
      BY <1>1, <1>2
    <3>2. first[j] = p.queue[j] /\ p.queue[j] = total - m + j
      BY <1>2, <2>1, <3>1
    <3> QED BY <3>2
  <2>4. Reach(p, total) = base + 1
    BY <1>9 DEF Reach, m
  <2> HIDE DEF base
  <2>5. /\ Endpoint!WholeFrames(b) /\ Whole(b) /\ NoClose(b)
        /\ TextsFrom(b, base + 1) /\ TextsBelow(b, base + k + 1)
    BY <1>2, <2>2, <2>3, QueueFrames DEF b
  <2>6. Endpoint!WholeFrames(s) /\ Whole(s) /\ s \in Seq(Unit)
    BY <1>3, <1>7, <1>8, <2>2, <2>4, <2>5, FramesJoin
  <2>7. TextsBelow(Stream(p), base + k + 1)
    BY <1>1, <1>7, <1>8, <2>2, <2>4, TextsMore
  <2>8. ASSUME NEW i \in 1..Len(s)
        PROVE  \/ i \in 1..Len(Stream(p)) /\ s[i] = Stream(p)[i]
               \/ i - Len(Stream(p)) \in 1..Len(b) /\ s[i] = b[i - Len(Stream(p))]
    BY <1>3, <1>7, ConcatProperties
  <2>9. NoClose(s)
    BY <1>8, <2>5, <2>8 DEF NoClose
  <2>10. TextsBelow(s, base + k + 1)
    BY <2>5, <2>7, <2>8 DEF TextsBelow
  <2>11. base + k + 1 = total - (m - k) + 1
    BY <1>1 DEF base
  <2> QED BY <1>4, <1>6, <1>9, <2>6, <2>9, <2>10, <2>11 DEF l, m, b, s, x, o, first
<1>10. CASE ~p.open
  <2>1. b = <<>>
    <3>1. Len(b) = 0
      BY <1>3, <1>10
    <3> QED BY <1>3, <3>1, EmptySeq
  <2>2. s = Stream(p)
    BY <1>7, <2>1, ConcatEmptySeq
  <2>3. Reach(p, total) = 0
    BY <1>10 DEF Reach
  <2> QED BY <1>4, <1>6, <1>7, <1>8, <1>10, <2>2, <2>3 DEF l, m, b, s, x, o, first
<1> QED BY <1>1, <1>9, <1>10

\* A flush of a peer whose session goes on keeps what it promises.
LEMMA FlushedLives ==
  ASSUME Configured, NEW total \in Nat, NEW p, Live(p, total), p.phase # "Ended",
         NEW n \in 0..Len(Endpoint!Owed(p))
  PROVE  LET q == Endpoint!Flushed(p, n)
         IN  /\ Live(q, total) /\ q.phase = p.phase
             /\ q.id = p.id /\ q.connecting = p.connecting /\ q.open = p.open
<1> DEFINE k == Endpoint!Started(p, n)
           m == Len(p.queue)
           x == p.out \o Endpoint!QueueUnits(SubSeq(p.queue, 1, k))
           s == p.wire \o x
           u == SubSeq(x, 1, n)
           v == SubSeq(x, n + 1, Len(x))
           r == Endpoint!Took(p.wire, u)
           rest == SubSeq(p.queue, k + 1, m)
           sent == p.sent + k
           q == [p EXCEPT !.out = v, !.queue = rest, !.sent = sent, !.wire = r]
<1>1. /\ p \in Peer /\ Core(p, total) /\ ~p.done /\ p.out \in Seq(Unit) /\ p.wire \in Seq(Unit)
      /\ p.queue \in Seq(Nat) /\ Len(p.out) \in Nat /\ m \in Nat /\ p.open \in BOOLEAN
      /\ p.sent \in Nat /\ p.dropped \in Nat /\ p.joined \in Nat
  BY LenProperties DEF Live, Peer
<1>2. /\ k \in 0..m /\ n <= Len(p.out) + 2 * k
      /\ ~p.open => k = 0
      /\ Len(Endpoint!Owed(p)) \in Nat
  BY <1>1, StartedIs, OwedIs
<1> HIDE DEF k
<1>3. /\ x \in Seq(Unit) /\ Len(x) = Len(p.out) + 2 * k
      /\ \A i \in 1..Len(x) : i <= Len(Endpoint!Owed(p)) /\ Endpoint!Owed(p)[i] = x[i]
      /\ s \in Seq(Unit) /\ Endpoint!WholeFrames(s) /\ Whole(s) /\ NoClose(s)
      /\ TextsBelow(s, IF p.open THEN total - (m - k) + 1 ELSE 0)
  BY <1>1, <1>2, StartedUnits
<1>4. n \in Nat /\ n <= Len(Endpoint!Owed(p)) /\ n \in 0..Len(x) /\ k \in Nat /\ k <= m
  <2> HIDE DEF m, x
  <2>1. n \in Nat /\ n <= Len(Endpoint!Owed(p))
    BY <1>2
  <2>2. k \in Nat /\ k <= m
    BY <1>1, <1>2
  <2>3. n <= Len(x) /\ Len(x) \in Nat
    <3>1. Len(x) = Len(p.out) + 2 * k
      BY <1>3
    <3>2. n <= Len(p.out) + 2 * k /\ Len(p.out) \in Nat
      BY <1>1, <1>2
    <3>3. Len(x) \in Nat
      BY <1>3, LenProperties
    <3>4. n <= Len(x)
      BY <3>1, <3>2
    <3> QED BY <3>3, <3>4
  <2> QED BY <2>1, <2>2, <2>3
<1>5. SubSeq(Endpoint!Owed(p), 1, n) = u
  <2> HIDE DEF x
  <2>1. SubSeq(Endpoint!Owed(p), 1, n) = [i \in 1..n |-> Endpoint!Owed(p)[i]]
    BY <1>4 DEF SubSeq
  <2>2. u = [i \in 1..n |-> x[i]]
    BY <1>4 DEF SubSeq
  <2>3. \A i \in 1..n : Endpoint!Owed(p)[i] = x[i]
    <3> TAKE i \in 1..n
    <3>1. i \in 1..Len(x)
      BY <1>4
    <3> QED BY <1>3, <3>1
  <2> QED BY <2>1, <2>2, <2>3
<1>6. Endpoint!Flushed(p, n) = q
  <2>1. Endpoint!Flushed(p, n) =
          [p EXCEPT !.out = SubSeq(x, n + 1, Len(p.out) + 2 * k), !.queue = SubSeq(p.queue, k + 1, m),
                    !.sent = p.sent + k, !.wire = Endpoint!Took(p.wire, SubSeq(Endpoint!Owed(p), 1, n))]
    BY DEF Endpoint!Flushed, k
  <2> QED BY <1>3, <1>5, <2>1
<1> HIDE DEF x
<1>7. u \in Seq(Unit) /\ v \in Seq(Unit) /\ x = u \o v
  BY <1>3, <1>4, SplitUnits
<1> HIDE DEF u, v
<1>8. /\ r \in Seq(Unit) /\ r \o v \in Seq(Unit)
      /\ Endpoint!WholeFrames(r \o v) /\ Within(r \o v, s) /\ Whole(r \o v)
  BY <1>1, <1>3, <1>7, TookKeeps
<1> HIDE DEF r
<1>9. /\ rest \in Seq(Nat) /\ Len(rest) = m - k
      /\ \A j \in 1..(m - k) : rest[j] = p.queue[k + j]
  BY <1>1, <1>2, DropSome
<1> HIDE DEF rest
<1>10. /\ q \in Peer /\ q.out = v /\ q.wire = r /\ q.queue = rest /\ q.sent = sent
       /\ q.open = p.open /\ q.dropped = p.dropped /\ q.joined = p.joined /\ q.phase = p.phase
       /\ q.done = p.done /\ q.id = p.id /\ q.connecting = p.connecting
  <2>1. sent \in Nat
    BY <1>1, <1>4
  <2> HIDE DEF sent
  <2> QED BY <1>1, <1>7, <1>8, <1>9, <2>1 DEF Peer
<1> HIDE DEF q
<1>11. Stream(q) = r \o v
  BY <1>10 DEF Stream
<1> HIDE DEF s
<1>12. NoClose(Stream(q))
  BY <1>3, <1>8, <1>11, WithinKeeps
<1>13. TextsBelow(Stream(q), Reach(q, total))
  <2>1. Reach(q, total) = IF p.open THEN total - (m - k) + 1 ELSE 0
    BY <1>9, <1>10 DEF Reach
  <2> QED BY <1>3, <1>8, <1>11, <2>1, WithinKeeps
<1>14. CASE p.open
  <2>1. /\ m <= Endpoint!QueueBound
        /\ \A j \in 1..m : p.queue[j] = total - m + j
        /\ p.sent + p.dropped + m = total - p.joined
    BY <1>1, <1>14 DEF Core, Newest
  <2> HIDE DEF m
  <2>2. Len(q.queue) = m - k /\ m - k <= m
    BY <1>1, <1>4, <1>9, <1>10
  <2>3. \A j \in 1..(m - k) : q.queue[j] = total - (m - k) + j
    <3> TAKE j \in 1..(m - k)
    <3>1. k + j \in 1..m
      BY <1>1, <1>4
    <3>2. q.queue[j] = p.queue[k + j] /\ p.queue[k + j] = total - m + (k + j)
      BY <1>9, <1>10, <2>1, <3>1
    <3> QED BY <1>1, <1>4, <3>2
  <2>4. q.sent + q.dropped + (m - k) = total - q.joined
    BY <1>1, <1>4, <1>10, <2>1
  <2>5. m - k <= Endpoint!QueueBound
    <3>1. Endpoint!QueueBound \in Nat
      BY DEF Configured, Endpoint!QueueBound, Endpoint!Greatest
    <3> QED BY <1>1, <1>4, <2>1, <2>2, <3>1
  <2>6. Newest(q, total)
    BY <2>2, <2>3, <2>4, <2>5 DEF Newest
  <2>7. p.phase = "Open" <=> p.open
    BY <1>1 DEF Core
  <2>8. Core(q, total)
    BY <1>8, <1>10, <1>11, <1>12, <1>13, <1>14, <2>6, <2>7 DEF Core
  <2> QED BY <1>1, <1>6, <1>10, <2>8 DEF Live
<1>15. CASE ~p.open
  <2>1. p.queue = <<>> /\ p.sent = 0 /\ p.dropped = 0 /\ (p.phase = "Open" <=> p.open)
    BY <1>1, <1>15 DEF Core
  <2>2. k = 0 /\ m = 0
    BY <1>2, <1>15, <2>1
  <2>3. q.queue = <<>> /\ q.sent = 0 /\ q.dropped = 0
    BY <1>9, <1>10, <2>1, <2>2, EmptySeq
  <2>4. Core(q, total)
    BY <1>8, <1>10, <1>11, <1>12, <1>13, <1>15, <2>1, <2>3 DEF Core
  <2> QED BY <1>1, <1>6, <1>10, <2>4 DEF Live
<1> QED BY <1>1, <1>14, <1>15

Entry == [id : Nat, out : Seq(Unit), left : Nat, wire : Seq(Unit)]

\* A connection that is only owed its last answer.
EntryOk(e) == e \in Entry /\ Endpoint!WholeFrames(Stream(e))

\* A peer between two turns: one that is done stays until ServiceEnd, and no peer
\* is left with its session ended.
PeerOk(p, total) ==
  /\ p \in Peer
  /\ p.connecting => ~p.open
  /\ IF p.done THEN ~p.open /\ Endpoint!WholeFrames(p.wire)
     ELSE Live(p, total) /\ p.phase # "Ended"

\* What does not tell a peer apart.
LEMMA SameLives ==
  ASSUME NEW total \in Nat, NEW p, Live(p, total), NEW q \in Peer,
         q.out = p.out, q.wire = p.wire, q.open = p.open, q.queue = p.queue, q.sent = p.sent,
         q.dropped = p.dropped, q.joined = p.joined, q.phase = p.phase, q.done = p.done
  PROVE  Live(q, total)
<1>1. Stream(q) = Stream(p) /\ Reach(q, total) = Reach(p, total)
  BY DEF Stream, Reach
<1>2. Newest(p, total) => Newest(q, total)
  BY DEF Newest
<1>3. Core(p, total) /\ ~p.done
  BY DEF Live
<1>4. Core(q, total)
  BY <1>1, <1>2, <1>3 DEF Core
<1> QED BY <1>3, <1>4 DEF Live

LEMMA NewPeerLives ==
  ASSUME NEW id \in Nat, NEW connecting \in BOOLEAN, NEW total \in Nat
  PROVE  LET p == Endpoint!NewPeer(id, connecting)
         IN  PeerOk(p, total) /\ p.id = id /\ ~p.done /\ ~p.open
<1> DEFINE p == Endpoint!NewPeer(id, connecting)
           out == IF Endpoint!Role = "Connect" THEN Endpoint!Units(Endpoint!Request) ELSE <<>>
<1>1. /\ out \in Seq(Unit) /\ Endpoint!WholeFrames(out) /\ Whole(out) /\ NoClose(out)
      /\ TextsBelow(out, 0)
  <2>1. CASE Endpoint!Role = "Connect"
    BY <2>1, UnitsFacts, FixedFrames
  <2>2. CASE Endpoint!Role # "Connect"
    <3>1. out = <<>>
      BY <2>2
    <3> HIDE DEF out
    <3> QED BY <3>1 DEF Endpoint!WholeFrames, Whole, NoClose, TextsBelow
  <2> QED BY <2>1, <2>2
<1>2. p = [id |-> id, connecting |-> connecting, age |-> 0, phase |-> "Handshake", open |-> FALSE,
           out |-> out, queue |-> <<>>, sent |-> 0, dropped |-> 0, done |-> FALSE, joined |-> 0,
           wire |-> <<>>]
  BY DEF Endpoint!NewPeer
<1> HIDE DEF p, out
<1>3. /\ p.id = id /\ p.connecting = connecting /\ p.phase = "Handshake" /\ p.open = FALSE
      /\ p.out = out /\ p.queue = <<>> /\ p.sent = 0 /\ p.dropped = 0 /\ p.done = FALSE /\ p.wire = <<>>
  BY <1>2
<1>4. p \in Peer
  BY <1>1, <1>2 DEF Peer
<1>5. Stream(p) = out
  BY <1>1, <1>3, ConcatEmptySeq DEF Stream
<1>6. Reach(p, total) = 0
  BY <1>3 DEF Reach
<1>7. Core(p, total)
  BY <1>1, <1>3, <1>5, <1>6 DEF Core
<1> QED BY <1>3, <1>4, <1>7 DEF Live, PeerOk, p

LEMMA MadeLives ==
  ASSUME NEW total \in Nat, NEW p, PeerOk(p, total), ~p.done
  PROVE  LET q == Endpoint!Made(p)
         IN  /\ Live(q, total) /\ q.phase # "Ended" /\ ~q.connecting
             /\ q.id = p.id /\ q.open = p.open /\ q.out = p.out
<1>1. Live(p, total) /\ p \in Peer /\ p.phase # "Ended"
  BY DEF PeerOk
<1>2. CASE p.connecting
  <2> DEFINE q == [p EXCEPT !.connecting = FALSE, !.age = 0]
  <2>1. /\ q \in Peer /\ q.out = p.out /\ q.wire = p.wire /\ q.open = p.open /\ q.queue = p.queue
        /\ q.sent = p.sent /\ q.dropped = p.dropped /\ q.joined = p.joined /\ q.phase = p.phase
        /\ q.done = p.done /\ q.id = p.id /\ q.connecting = FALSE
    BY <1>1 DEF Peer
  <2>2. Endpoint!Made(p) = q
    BY <1>2 DEF Endpoint!Made
  <2> HIDE DEF q
  <2>3. Live(q, total)
    BY <1>1, <2>1, SameLives
  <2> QED BY <1>1, <2>1, <2>2, <2>3
<1>3. CASE ~p.connecting
  <2>1. Endpoint!Made(p) = p
    BY <1>3 DEF Endpoint!Made
  <2> QED BY <1>1, <1>3, <2>1
<1> QED BY <1>2, <1>3

\* An open peer is given the next message.
LEMMA QueuedLives ==
  ASSUME Configured, NEW total \in Nat, NEW p, Live(p, total), p.open,
         p.phase # "Ended"
  PROVE  LET q == Endpoint!Queued(p, total + 1)
         IN  /\ Live(q, total + 1) /\ q.phase = p.phase
             /\ q.id = p.id /\ q.connecting = p.connecting /\ q.open = p.open
<1> DEFINE m == Len(p.queue)
           bound == Endpoint!QueueBound
           lost == IF m < bound THEN 0 ELSE m - bound + 1
           rest == SubSeq(p.queue, lost + 1, m)
           queue == Append(rest, total + 1)
           dropped == p.dropped + lost
           q == [p EXCEPT !.queue = queue, !.dropped = dropped]
<1>1. /\ p \in Peer /\ Core(p, total) /\ ~p.done /\ p.out \in Seq(Unit) /\ p.wire \in Seq(Unit)
      /\ p.queue \in Seq(Nat) /\ m \in Nat
      /\ p.sent \in Nat /\ p.dropped \in Nat /\ p.joined \in Nat
  BY LenProperties DEF Live, Peer
<1>2. bound \in Nat /\ bound >= 1
  BY DEF Configured, Endpoint!QueueBound, Endpoint!Greatest
<1>3. Endpoint!Queued(p, total + 1) = q
  BY DEF Endpoint!Queued
<1>4. /\ m <= bound
      /\ \A j \in 1..m : p.queue[j] = total - m + j
      /\ p.sent + p.dropped + m = total - p.joined
  BY <1>1 DEF Core, Newest
<1> HIDE DEF bound
<1>5. /\ lost \in 0..m /\ lost \in Nat /\ lost <= m /\ m - lost + 1 <= bound
  <2> HIDE DEF m
  <2>1. CASE m < bound
    BY <1>1, <1>2, <2>1
  <2>2. CASE ~(m < bound)
    <3>1. m = bound /\ lost = 1
      BY <1>1, <1>2, <1>4, <2>2
    <3> QED BY <1>1, <1>2, <3>1
  <2> QED BY <2>1, <2>2
<1> HIDE DEF lost
<1>6. /\ rest \in Seq(Nat) /\ Len(rest) = m - lost
      /\ \A j \in 1..(m - lost) : rest[j] = p.queue[lost + j]
  BY <1>1, <1>5, DropSome
<1> HIDE DEF rest
<1>7. queue \in Seq(Nat) /\ Len(queue) = m - lost + 1
  <2>1. queue \in Seq(Nat) /\ Len(queue) = Len(rest) + 1
    BY <1>6
  <2> QED BY <1>6, <2>1
<1>8. \A j \in 1..(m - lost + 1) : queue[j] = IF j <= m - lost THEN rest[j] ELSE total + 1
  <2>1. \A j \in 1..Len(rest) + 1 : queue[j] = IF j <= Len(rest) THEN rest[j] ELSE total + 1
    BY <1>6
  <2> QED BY <1>6, <2>1
<1> HIDE DEF queue, m
<1>9. /\ q \in Peer /\ q.out = p.out /\ q.wire = p.wire /\ q.queue = queue /\ q.sent = p.sent
      /\ q.open = p.open /\ q.dropped = dropped /\ q.joined = p.joined /\ q.phase = p.phase
      /\ q.done = p.done /\ q.id = p.id /\ q.connecting = p.connecting
  <2>1. dropped \in Nat
    BY <1>1, <1>5
  <2> HIDE DEF dropped
  <2> QED BY <1>1, <1>7, <2>1 DEF Peer
<1> HIDE DEF q
<1>10. ASSUME NEW j \in 1..(m - lost + 1)
       PROVE  queue[j] = (total + 1) - (m - lost + 1) + j
  <2>1. j \in Nat /\ (j <= m - lost \/ j = m - lost + 1)
    BY <1>1, <1>5
  <2>2. CASE j <= m - lost
    <3>1. lost + j \in 1..m /\ j \in 1..(m - lost)
      BY <1>1, <1>5, <2>1, <2>2
    <3>2. queue[j] = p.queue[lost + j]
      BY <1>6, <1>8, <2>2, <3>1
    <3>3. p.queue[lost + j] = total - m + (lost + j)
      BY <1>4, <3>1
    <3> QED BY <1>1, <1>5, <2>1, <3>2, <3>3
  <2>3. CASE j = m - lost + 1
    <3>1. queue[j] = total + 1
      BY <1>1, <1>5, <1>8, <2>3
    <3> QED BY <1>1, <1>5, <2>3, <3>1
  <2> QED BY <2>1, <2>2, <2>3
<1>11. Newest(q, total + 1)
  <2>1. Len(q.queue) = m - lost + 1
    BY <1>7, <1>9
  <2>2. q.sent + q.dropped + (m - lost + 1) = (total + 1) - q.joined
    <3>1. p.sent + (p.dropped + lost) + (m - lost + 1) = (total + 1) - p.joined
      <4>1. p.sent + p.dropped + m = total - p.joined
        BY <1>4
      <4>2. p.sent \in Nat /\ p.dropped \in Nat /\ p.joined \in Nat /\ m \in Nat /\ lost \in Nat
        BY <1>1, <1>5
      <4> QED BY <4>1, <4>2
    <3> QED BY <1>9, <3>1
  <2> QED BY <1>5, <1>9, <1>10, <2>1, <2>2 DEF Newest, bound
<1>12. Stream(q) = Stream(p) /\ Stream(p) \in Seq(Unit)
  BY <1>1, <1>9, ConcatProperties DEF Stream
<1>13. TextsBelow(Stream(p), Reach(q, total + 1))
  <2>1. Reach(p, total) = total - m + 1
    BY DEF Reach, m
  <2>2. Reach(q, total + 1) = (total + 1) - (m - lost + 1) + 1
    BY <1>7, <1>9 DEF Reach
  <2>3. Reach(p, total) <= Reach(q, total + 1) /\ Reach(p, total) \in Int /\ Reach(q, total + 1) \in Int
    BY <1>1, <1>5, <2>1, <2>2
  <2>4. TextsBelow(Stream(p), Reach(p, total))
    BY <1>1 DEF Core
  <2> QED BY <1>12, <2>3, <2>4, TextsMore
<1>14. Core(q, total + 1)
  BY <1>1, <1>9, <1>11, <1>12, <1>13 DEF Core
<1> QED BY <1>1, <1>3, <1>9, <1>14 DEF Live

LEMMA QuietLives ==
  ASSUME NEW total \in Nat, NEW p, Live(p, total), ~p.open
  PROVE  Live(p, total + 1)
<1>1. Reach(p, total + 1) = Reach(p, total)
  BY DEF Reach
<1> QED BY <1>1 DEF Live, Core

\* A peer that is over.
LEMMA RetiredIsOk ==
  ASSUME NEW total \in Nat, NEW p, Live(p, total), ~p.connecting
  PROVE  LET q == [p EXCEPT !.open = FALSE, !.done = TRUE, !.out = <<>>]
         IN  PeerOk(q, total) /\ q.done /\ ~q.open /\ q.id = p.id
<1> DEFINE q == [p EXCEPT !.open = FALSE, !.done = TRUE, !.out = <<>>]
<1>1. /\ p \in Peer /\ Core(p, total) /\ p.out \in Seq(Unit) /\ p.wire \in Seq(Unit)
  BY DEF Live, Peer
<1>2. /\ q \in Peer /\ q.wire = p.wire /\ q.open = FALSE /\ q.done = TRUE /\ q.id = p.id
      /\ q.connecting = p.connecting
  <2> DEFINE none == <<>>
  <2>1. none \in Seq(Unit) /\ q = [p EXCEPT !.open = FALSE, !.done = TRUE, !.out = none]
    OBVIOUS
  <2> HIDE DEF none, q
  <2> QED BY <1>1, <2>1 DEF Peer
<1> HIDE DEF q
<1>3. Endpoint!WholeFrames(p.wire)
  BY <1>1, FramesBegin DEF Core, Stream
<1> QED BY <1>2, <1>3 DEF PeerOk, q

\* What a lingering connection's socket takes, and what is left.
LEMMA TakesOk ==
  ASSUME NEW e, EntryOk(e), NEW n \in 0..Len(e.out)
  PROVE  EntryOk([e EXCEPT !.out = SubSeq(@, n + 1, Len(@)),
                           !.wire = Endpoint!Took(@, SubSeq(e.out, 1, n))])
<1> DEFINE u == SubSeq(e.out, 1, n)
           v == SubSeq(e.out, n + 1, Len(e.out))
           r == Endpoint!Took(e.wire, u)
           f == [e EXCEPT !.out = v, !.wire = r]
<1>1. e \in Entry /\ e.out \in Seq(Unit) /\ e.wire \in Seq(Unit) /\ Endpoint!WholeFrames(e.wire \o e.out)
  BY DEF EntryOk, Entry, Stream
<1>2. u \in Seq(Unit) /\ v \in Seq(Unit) /\ e.out = u \o v
  BY <1>1, SplitUnits
<1> HIDE DEF u, v
<1>3. r \in Seq(Unit) /\ Endpoint!WholeFrames(r \o v)
  BY <1>1, <1>2, TookKeeps
<1> HIDE DEF r
<1>4. f \in Entry /\ f.out = v /\ f.wire = r
  BY <1>1, <1>2, <1>3 DEF Entry
<1>5. EntryOk(f)
  <2> HIDE DEF f
  <2> QED BY <1>3, <1>4 DEF EntryOk, Stream
<1> QED BY <1>5 DEF f, u, v, r

\* The invariant of the peers; those that are done are behind the turn.
CarriedInv ==
  /\ sends \in Nat /\ turn \in Nat /\ accepts \in Nat /\ (servicing # "none" => turn >= 1)
  /\ peers \in Seq(Peer) /\ lingering \in Seq(Entry)
  /\ \A i \in 1..Len(peers) :
       PeerOk(peers[i], sends) /\ (peers[i].done => servicing = "peers" /\ i < turn)
  /\ \A i \in 1..Len(lingering) : EntryOk(lingering[i])

LEMMA PeersAre ==
  ASSUME CarriedInv
  PROVE  /\ Len(peers) \in Nat /\ DOMAIN peers = 1..Len(peers)
         /\ \A i \in 1..Len(peers) : /\ peers[i] \in Peer /\ PeerOk(peers[i], sends)
                                     /\ peers[i].done => servicing = "peers" /\ i < turn
         /\ Len(lingering) \in Nat /\ DOMAIN lingering = 1..Len(lingering)
         /\ \A i \in 1..Len(lingering) : lingering[i] \in Entry /\ EntryOk(lingering[i])
<1>1. peers \in Seq(Peer) /\ lingering \in Seq(Entry)
  BY DEF CarriedInv
<1>2. /\ Len(peers) \in Nat /\ DOMAIN peers = 1..Len(peers)
      /\ \A i \in 1..Len(peers) : peers[i] \in Peer
  BY <1>1
<1>3. /\ Len(lingering) \in Nat /\ DOMAIN lingering = 1..Len(lingering)
      /\ \A i \in 1..Len(lingering) : lingering[i] \in Entry
  BY <1>1
<1> QED BY <1>2, <1>3 DEF CarriedInv

LEMMA ServedIs ==
  ASSUME CarriedInv, NEW q \in Peer, turn \in 1..Len(peers), Endpoint!Served(q)
  PROVE  /\ peers' \in Seq(Peer) /\ Len(peers') = Len(peers)
         /\ peers'[turn] = q
         /\ \A i \in 1..Len(peers) : i # turn => peers'[i] = peers[i]
<1>1. peers \in Seq(Peer)
  BY DEF CarriedInv
<1>2. peers' = [peers EXCEPT ![turn] = q]
  BY DEF Endpoint!Served
<1> QED BY <1>1, <1>2

LEMMA AppendIs ==
  ASSUME NEW S, NEW s \in Seq(S), NEW e \in S
  PROVE  /\ Append(s, e) \in Seq(S) /\ Len(Append(s, e)) = Len(s) + 1 /\ Len(s) \in Nat
         /\ \A i \in 1..Len(s) : Append(s, e)[i] = s[i]
         /\ Append(s, e)[Len(s) + 1] = e
  OBVIOUS

LEMMA LingersOn ==
  ASSUME CarriedInv, Configured,
         NEW id \in Nat, NEW out \in Seq(Unit), NEW wire \in Seq(Unit),
         Endpoint!WholeFrames(wire \o out),
         lingering' = Endpoint!Lingering(id, out, wire)
  PROVE  /\ lingering' \in Seq(Entry)
         /\ \A i \in 1..Len(lingering') : EntryOk(lingering'[i])
<1> DEFINE e == [id |-> id, out |-> out, left |-> LingerTime, wire |-> wire]
<1>1. e \in Entry /\ e.wire = wire /\ e.out = out
  BY DEF Entry, Configured
<1>2. EntryOk(e)
  <2> HIDE DEF e
  <2> QED BY <1>1 DEF EntryOk, Stream
<1>3. lingering' = lingering \/ lingering' = Append(lingering, e)
  BY DEF Endpoint!Lingering
<1> HIDE DEF e
<1>4. lingering \in Seq(Entry) /\ \A i \in 1..Len(lingering) : EntryOk(lingering[i])
  BY PeersAre DEF CarriedInv
<1>5. CASE lingering' = Append(lingering, e)
  <2>1. /\ lingering' \in Seq(Entry) /\ Len(lingering') = Len(lingering) + 1 /\ Len(lingering) \in Nat
        /\ \A i \in 1..Len(lingering) : lingering'[i] = lingering[i]
        /\ lingering'[Len(lingering) + 1] = e
    BY <1>1, <1>4, <1>5, AppendIs
  <2> QED BY <1>2, <1>4, <2>1
<1> QED BY <1>3, <1>4, <1>5

LEMMA CarriedInit ==
  ASSUME Endpoint!Init
  PROVE  CarriedInv
<1>1. /\ peers = <<>> /\ lingering = <<>> /\ servicing = "none" /\ turn = 0 /\ sends = 0 /\ accepts = 0
  BY DEF Endpoint!Init, Endpoint!InitOf
<1>2. /\ peers \in Seq(Peer) /\ Len(peers) = 0
  BY <1>1
<1>3. /\ lingering \in Seq(Entry) /\ Len(lingering) = 0
  BY <1>1
<1> QED BY <1>1, <1>2, <1>3 DEF CarriedInv

LEMMA CarriedCleared ==
  ASSUME CarriedInv, Endpoint!Clear, sends' = sends, accepts' = accepts
  PROVE  CarriedInv'
<1>1. /\ peers' = <<>> /\ lingering' = <<>> /\ servicing' = "none" /\ turn' = 0
  BY DEF Endpoint!Clear
<1>2. /\ peers' \in Seq(Peer) /\ Len(peers') = 0
  BY <1>1
<1>3. /\ lingering' \in Seq(Entry) /\ Len(lingering') = 0
  BY <1>1
<1>4. sends \in Nat /\ accepts \in Nat
  BY DEF CarriedInv
<1> QED BY <1>1, <1>2, <1>3, <1>4 DEF CarriedInv

LEMMA CarriedTick ==
  ASSUME CarriedInv, Configured, Endpoint!Tick
  PROVE  CarriedInv'
<1> DEFINE older(p) == [p EXCEPT !.age = Endpoint!Least(p.age + 1, HandshakeTimeout + 1)]
           sooner(e) == [e EXCEPT !.left = IF e.left = 0 THEN 0 ELSE e.left - 1]
<1>1. /\ peers' = [i \in DOMAIN peers |-> older(peers[i])]
      /\ lingering' = [i \in DOMAIN lingering |-> sooner(lingering[i])]
      /\ sends' = sends /\ turn' = turn /\ accepts' = accepts /\ servicing' = servicing
  BY DEF Endpoint!Tick
<1>2. \A p \in Peer : /\ older(p) \in Peer
                      /\ \A total \in Nat : PeerOk(p, total) => PeerOk(older(p), total)
                      /\ older(p).done = p.done
  <2> TAKE p \in Peer
  <2> DEFINE q == older(p)
             age == Endpoint!Least(p.age + 1, HandshakeTimeout + 1)
  <2>1. age \in Nat
    BY DEF Endpoint!Least, Configured, Peer
  <2>2. q = [p EXCEPT !.age = age]
    OBVIOUS
  <2> HIDE DEF age, q
  <2>3. /\ q \in Peer /\ q.out = p.out /\ q.wire = p.wire /\ q.open = p.open /\ q.queue = p.queue
        /\ q.sent = p.sent /\ q.dropped = p.dropped /\ q.joined = p.joined /\ q.phase = p.phase
        /\ q.done = p.done /\ q.connecting = p.connecting
    BY <2>1, <2>2 DEF Peer
  <2>4. ASSUME NEW total \in Nat, PeerOk(p, total) PROVE PeerOk(q, total)
    <3>1. Live(p, total) => Live(q, total)
      BY <2>3, SameLives
    <3> QED BY <2>3, <2>4, <3>1 DEF PeerOk
  <2> QED BY <2>3, <2>4 DEF q
<1>3. \A e \in Entry : sooner(e) \in Entry /\ (EntryOk(e) => EntryOk(sooner(e)))
  <2> TAKE e \in Entry
  <2> DEFINE left == IF e.left = 0 THEN 0 ELSE e.left - 1
             f == sooner(e)
  <2>1. left \in Nat
    BY DEF Entry
  <2>2. f = [e EXCEPT !.left = left]
    OBVIOUS
  <2> HIDE DEF left, f
  <2>3. f \in Entry /\ f.out = e.out /\ f.wire = e.wire
    BY <2>1, <2>2 DEF Entry
  <2> QED BY <2>3 DEF EntryOk, Stream, f
<1> HIDE DEF older, sooner
<1>4. /\ peers \in Seq(Peer) /\ lingering \in Seq(Entry) /\ sends \in Nat /\ turn \in Nat
      /\ accepts \in Nat /\ (servicing # "none" => turn >= 1)
  BY DEF CarriedInv
<1>5. /\ peers' \in Seq(Peer) /\ Len(peers') = Len(peers)
      /\ \A i \in 1..Len(peers) : peers'[i] = older(peers[i])
  <2>1. DOMAIN peers = 1..Len(peers) /\ Len(peers) \in Nat /\ \A i \in 1..Len(peers) : peers[i] \in Peer
    BY PeersAre
  <2>2. peers' \in [1..Len(peers) -> Peer]
    BY <1>1, <1>2, <2>1
  <2> QED BY <1>1, <2>1, <2>2, SeqDef
<1>6. /\ lingering' \in Seq(Entry) /\ Len(lingering') = Len(lingering)
      /\ \A i \in 1..Len(lingering) : lingering'[i] = sooner(lingering[i])
  <2>1. DOMAIN lingering = 1..Len(lingering) /\ Len(lingering) \in Nat
        /\ \A i \in 1..Len(lingering) : lingering[i] \in Entry
    BY PeersAre
  <2>2. lingering' \in [1..Len(lingering) -> Entry]
    BY <1>1, <1>3, <2>1
  <2> QED BY <1>1, <2>1, <2>2, SeqDef
<1>7. \A i \in 1..Len(peers') : /\ PeerOk(peers'[i], sends')
                                /\ peers'[i].done => servicing' = "peers" /\ i < turn'
  BY <1>1, <1>2, <1>4, <1>5, PeersAre
<1>8. \A i \in 1..Len(lingering') : EntryOk(lingering'[i])
  BY <1>3, <1>6, PeersAre
<1> QED BY <1>1, <1>4, <1>5, <1>6, <1>7, <1>8 DEF CarriedInv

LEMMA CarriedSend ==
  ASSUME CarriedInv, Configured, Endpoint!Send
  PROVE  CarriedInv'
<1> DEFINE given(p) == IF p.open /\ ~p.done THEN Endpoint!Queued(p, sends + 1) ELSE p
<1>1. /\ sends' = sends + 1 /\ servicing = "none"
      /\ peers' = [i \in DOMAIN peers |-> given(peers[i])]
      /\ lingering' = lingering /\ turn' = turn /\ accepts' = accepts /\ servicing' = servicing
  BY DEF Endpoint!Send, Endpoint!Idle
<1>2. /\ peers \in Seq(Peer) /\ lingering \in Seq(Entry) /\ sends \in Nat /\ turn \in Nat
      /\ accepts \in Nat /\ (servicing # "none" => turn >= 1)
      /\ \A i \in 1..Len(lingering) : EntryOk(lingering[i])
  BY DEF CarriedInv
<1>3. ASSUME NEW i \in 1..Len(peers)
      PROVE  /\ given(peers[i]) \in Peer /\ PeerOk(given(peers[i]), sends + 1)
             /\ ~given(peers[i]).done
  <2> DEFINE p == peers[i]
  <2>1. p \in Peer /\ PeerOk(p, sends) /\ ~p.done
    BY <1>1, PeersAre
  <2>2. Live(p, sends) /\ p.phase # "Ended" /\ (p.connecting => ~p.open)
    BY <2>1 DEF PeerOk
  <2> HIDE DEF p
  <2>3. CASE p.open
    <3> DEFINE q == Endpoint!Queued(p, sends + 1)
    <3>1. given(p) = q
      BY <2>1, <2>3
    <3>2. Live(q, sends + 1) /\ q.phase = p.phase /\ q.connecting = p.connecting /\ q.open = p.open
      BY <1>2, <2>2, <2>3, QueuedLives
    <3> HIDE DEF q, given
    <3>3. q \in Peer /\ ~q.done
      BY <3>2 DEF Live
    <3>4. PeerOk(q, sends + 1)
      BY <2>2, <3>2, <3>3 DEF PeerOk
    <3> QED BY <3>1, <3>3, <3>4 DEF p
  <2>4. CASE ~p.open
    <3>1. given(p) = p
      BY <2>4
    <3>2. Live(p, sends + 1)
      BY <1>2, <2>2, <2>4, QuietLives
    <3> HIDE DEF given
    <3> QED BY <2>1, <2>2, <3>1, <3>2 DEF PeerOk, p
  <2> QED BY <2>3, <2>4
<1> HIDE DEF given
<1>4. /\ peers' \in Seq(Peer) /\ Len(peers') = Len(peers)
      /\ \A i \in 1..Len(peers) : peers'[i] = given(peers[i])
  <2>1. DOMAIN peers = 1..Len(peers) /\ Len(peers) \in Nat
    BY PeersAre
  <2>2. peers' \in [1..Len(peers) -> Peer]
    BY <1>1, <1>3, <2>1
  <2> QED BY <1>1, <2>1, <2>2, SeqDef
<1>5. \A i \in 1..Len(peers') : PeerOk(peers'[i], sends') /\ ~peers'[i].done
  BY <1>1, <1>3, <1>4
<1>6. sends' \in Nat
  BY <1>1, <1>2
<1> QED BY <1>1, <1>2, <1>4, <1>5, <1>6 DEF CarriedInv

LEMMA CarriedJoin ==
  ASSUME CarriedInv, NEW connecting \in BOOLEAN, Endpoint!Join(connecting),
         \A i \in 1..Len(peers) : ~peers[i].done
  PROVE  /\ accepts' \in Nat /\ peers' \in Seq(Peer)
         /\ \A i \in 1..Len(peers') : PeerOk(peers'[i], sends) /\ ~peers'[i].done
<1> DEFINE p == Endpoint!NewPeer(accepts + 1, connecting)
<1>1. accepts' = accepts + 1 /\ peers' = Append(peers, p)
  BY DEF Endpoint!Join
<1>2. accepts \in Nat /\ sends \in Nat /\ peers \in Seq(Peer) /\ accepts + 1 \in Nat
  BY DEF CarriedInv
<1>3. PeerOk(p, sends) /\ ~p.done
  BY <1>2, NewPeerLives
<1>4. p \in Peer
  BY <1>3 DEF PeerOk
<1> HIDE DEF p
<1>5. /\ peers' \in Seq(Peer) /\ Len(peers') = Len(peers) + 1 /\ Len(peers) \in Nat
      /\ \A i \in 1..Len(peers) : peers'[i] = peers[i]
      /\ peers'[Len(peers) + 1] = p
  BY <1>1, <1>2, <1>4, AppendIs
<1>6. ASSUME NEW i \in 1..Len(peers') PROVE PeerOk(peers'[i], sends) /\ ~peers'[i].done
  <2>1. i \in 1..Len(peers) \/ i = Len(peers) + 1
    BY <1>5
  <2> QED BY <1>3, <1>5, <2>1, PeersAre
<1> QED BY <1>1, <1>2, <1>5, <1>6

LEMMA CarriedBegin ==
  ASSUME CarriedInv, Endpoint!ServiceBegin
  PROVE  CarriedInv'
<1>1. /\ servicing = "none" /\ turn' = 1 /\ lingering' = lingering /\ sends' = sends
      /\ servicing' # "none"
  BY DEF Endpoint!ServiceBegin, Endpoint!Idle
<1>2. /\ peers \in Seq(Peer) /\ lingering \in Seq(Entry) /\ sends \in Nat /\ accepts \in Nat
      /\ \A i \in 1..Len(lingering) : EntryOk(lingering[i])
      /\ \A i \in 1..Len(peers) : PeerOk(peers[i], sends) /\ ~peers[i].done
  BY <1>1 DEF CarriedInv
<1>3. /\ accepts' \in Nat /\ peers' \in Seq(Peer)
      /\ \A i \in 1..Len(peers') : PeerOk(peers'[i], sends) /\ ~peers'[i].done
  <2>1. CASE accepts' = accepts /\ peers' = peers
    BY <1>2, <2>1
  <2>2. CASE \E connecting \in BOOLEAN : Endpoint!Join(connecting)
    BY <1>2, <2>2, CarriedJoin
  <2> QED BY <2>1, <2>2 DEF Endpoint!ServiceBegin
<1> QED BY <1>1, <1>2, <1>3 DEF CarriedInv

LEMMA CarriedAccept ==
  ASSUME CarriedInv, Configured,
         Endpoint!AcceptPeer \/ Endpoint!AcceptRefused \/ Endpoint!AcceptEnds
  PROVE  CarriedInv'
<1>1. servicing = "accept" /\ sends' = sends
  BY DEF Endpoint!AcceptPeer, Endpoint!AcceptRefused, Endpoint!AcceptEnds
<1>2. /\ peers \in Seq(Peer) /\ lingering \in Seq(Entry) /\ sends \in Nat /\ accepts \in Nat
      /\ turn \in Nat /\ turn >= 1
      /\ \A i \in 1..Len(lingering) : EntryOk(lingering[i])
      /\ \A i \in 1..Len(peers) : PeerOk(peers[i], sends) /\ ~peers[i].done
  BY <1>1 DEF CarriedInv
<1>3. CASE Endpoint!AcceptPeer
  <2>1. Endpoint!Join(FALSE) /\ turn' = turn + 1 /\ lingering' = lingering /\ servicing' = servicing
    BY <1>3 DEF Endpoint!AcceptPeer
  <2>2. /\ accepts' \in Nat /\ peers' \in Seq(Peer)
        /\ \A i \in 1..Len(peers') : PeerOk(peers'[i], sends) /\ ~peers'[i].done
    BY <1>2, <2>1, CarriedJoin
  <2>3. turn' \in Nat /\ turn' >= 1
    BY <1>2, <2>1
  <2> QED BY <1>1, <1>2, <2>1, <2>2, <2>3 DEF CarriedInv
<1>4. CASE Endpoint!AcceptRefused
  <2> DEFINE none == <<>>
             out == Endpoint!Units(Endpoint!Refusal)
  <2>1. /\ lingering' = Endpoint!Lingering(0, out, none) /\ turn' = turn + 1
        /\ peers' = peers /\ accepts' = accepts /\ servicing' = servicing
    BY <1>4 DEF Endpoint!AcceptRefused
  <2>2. out \in Seq(Unit) /\ Endpoint!WholeFrames(out)
    BY UnitsFacts, FixedFrames
  <2> HIDE DEF out
  <2>3. none \in Seq(Unit) /\ none \o out = out
    BY <2>2, ConcatEmptySeq
  <2> HIDE DEF none
  <2>4. /\ lingering' \in Seq(Entry) /\ \A i \in 1..Len(lingering') : EntryOk(lingering'[i])
    BY <2>1, <2>2, <2>3, LingersOn
  <2>5. turn' \in Nat /\ turn' >= 1
    BY <1>2, <2>1
  <2> QED BY <1>1, <1>2, <2>1, <2>4, <2>5 DEF CarriedInv
<1>5. CASE Endpoint!AcceptEnds
  <2>1. /\ turn' = 1 /\ peers' = peers /\ lingering' = lingering /\ accepts' = accepts
    BY <1>5 DEF Endpoint!AcceptEnds
  <2> QED BY <1>1, <1>2, <2>1 DEF CarriedInv
<1> QED BY <1>3, <1>4, <1>5

\* What the turn's service leaves: its peer as q, the others as they were.
LEMMA CarriedServed ==
  ASSUME CarriedInv, servicing = "peers", servicing' = "peers", turn \in 1..Len(peers), turn' = turn + 1,
         sends' = sends, accepts' = accepts,
         NEW q, PeerOk(q, sends), Endpoint!Served(q),
         lingering' \in Seq(Entry), \A i \in 1..Len(lingering') : EntryOk(lingering'[i])
  PROVE  CarriedInv'
<1>1. q \in Peer
  BY DEF PeerOk
<1>2. /\ peers' \in Seq(Peer) /\ Len(peers') = Len(peers)
      /\ peers'[turn] = q
      /\ \A i \in 1..Len(peers) : i # turn => peers'[i] = peers[i]
  BY <1>1, ServedIs
<1>3. sends \in Nat /\ accepts \in Nat /\ turn \in Nat /\ turn >= 1
  BY DEF CarriedInv
<1>4. ASSUME NEW i \in 1..Len(peers')
      PROVE  PeerOk(peers'[i], sends) /\ (peers'[i].done => i < turn')
  <2>1. CASE i = turn
    BY <1>2, <1>3, <2>1
  <2>2. CASE i # turn
    <3>1. i \in 1..Len(peers) /\ i \in Nat /\ peers'[i] = peers[i]
      BY <1>2, <2>2
    <3>2. PeerOk(peers[i], sends) /\ (peers[i].done => i < turn)
      BY <3>1, PeersAre
    <3> QED BY <1>3, <3>1, <3>2
  <2> QED BY <2>1, <2>2
<1>5. turn' \in Nat /\ turn' >= 1
  BY <1>3
<1> QED BY <1>2, <1>3, <1>4, <1>5 DEF CarriedInv

LEMMA CarriedConnecting ==
  ASSUME CarriedInv, Endpoint!ServiceConnecting
  PROVE  CarriedInv'
<1>1. /\ servicing = "peers" /\ turn <= Len(peers) /\ peers[turn].connecting /\ turn' = turn + 1
      /\ servicing' = servicing /\ sends' = sends /\ accepts' = accepts /\ lingering' = lingering
  BY DEF Endpoint!ServiceConnecting
<1>2. /\ sends \in Nat /\ accepts \in Nat /\ turn \in Nat /\ turn >= 1 /\ turn \in 1..Len(peers)
      /\ lingering \in Seq(Entry) /\ peers \in Seq(Peer)
      /\ \A i \in 1..Len(lingering) : EntryOk(lingering[i])
  BY <1>1, PeersAre DEF CarriedInv
<1>3. CASE peers' = peers
  <2>1. ASSUME NEW i \in 1..Len(peers)
        PROVE  PeerOk(peers[i], sends) /\ (peers[i].done => i < turn')
    <3>1. i \in Nat /\ PeerOk(peers[i], sends) /\ (peers[i].done => i < turn)
      BY PeersAre
    <3> QED BY <1>1, <1>2, <3>1
  <2>2. turn' \in Nat /\ turn' >= 1
    BY <1>1, <1>2
  <2> QED BY <1>1, <1>2, <1>3, <2>1, <2>2 DEF CarriedInv
<1>4. CASE Endpoint!Served([peers[turn] EXCEPT !.done = TRUE])
  <2> DEFINE p == peers[turn]
             q == [p EXCEPT !.done = TRUE]
  <2>1. p \in Peer /\ PeerOk(p, sends) /\ ~p.open
    BY <1>1, <1>2, PeersAre DEF PeerOk
  <2>2. Endpoint!Served(q)
    BY <1>4
  <2> HIDE DEF p
  <2>3. Endpoint!WholeFrames(p.wire)
    <3>1. CASE p.done
      BY <2>1, <3>1 DEF PeerOk
    <3>2. CASE ~p.done
      <4>1. Endpoint!WholeFrames(p.wire \o p.out)
        BY <2>1, <3>2 DEF PeerOk, Live, Core, Stream
      <4> QED BY <2>1, <4>1, FramesBegin DEF Peer
    <3> QED BY <3>1, <3>2
  <2>4. q \in Peer /\ q.done /\ ~q.open /\ q.wire = p.wire
    BY <2>1 DEF Peer
  <2> HIDE DEF q
  <2>5. PeerOk(q, sends)
    BY <2>3, <2>4 DEF PeerOk
  <2> QED BY <1>1, <1>2, <2>2, <2>5, CarriedServed
<1> QED BY <1>3, <1>4 DEF Endpoint!ServiceConnecting

\* What a peer's turn is about: a reading of a peer that is not over.
LEMMA TurnReads ==
  ASSUME CarriedInv, Configured, NEW batch \in Endpoint!Batches,
         Endpoint!ServicePeer(batch)
  PROVE  LET p == Endpoint!Made(peers[turn])
             r == Endpoint!Reading(p, batch)
         IN  /\ turn \in 1..Len(peers) /\ servicing = "peers"
             /\ p.id = peers[turn].id /\ p.open = peers[turn].open
             /\ r \in Readings /\ Reads(r, p, sends)
<1>1. servicing = "peers" /\ turn <= Len(peers)
  BY DEF Endpoint!ServicePeer
<1>2. sends \in Nat /\ turn \in Nat /\ turn >= 1 /\ turn \in 1..Len(peers)
  BY <1>1, PeersAre DEF CarriedInv
<1>3. PeerOk(peers[turn], sends) /\ ~peers[turn].done
  BY <1>2, PeersAre
<1> DEFINE p == Endpoint!Made(peers[turn])
<1>4. /\ Live(p, sends) /\ p.phase # "Ended" /\ ~p.connecting
      /\ p.id = peers[turn].id /\ p.open = peers[turn].open
  BY <1>2, <1>3, MadeLives
<1> HIDE DEF p
<1>5. PICK n \in 0..Endpoint!ReadBudget : batch \in [1..n -> Endpoint!Arrivals]
  BY DEF Endpoint!Batches
<1>6. n \in Nat
  BY <1>5 DEF Configured
<1>7. /\ Endpoint!Reading(p, batch) \in Readings
      /\ Reads(Endpoint!Reading(p, batch), p, sends)
  BY <1>2, <1>4, <1>5, <1>6, ReadingReads
<1> QED BY <1>1, <1>2, <1>4, <1>7 DEF p

\* The two ways a turn ends.
LEMMA TurnEnds ==
  ASSUME NEW batch, Endpoint!ServicePeer(batch)
  PROVE  LET r == Endpoint!Reading(Endpoint!Made(peers[turn]), batch)
         IN  /\ turn' = turn + 1 /\ servicing' = servicing /\ sends' = sends /\ accepts' = accepts
             /\ isOpen' = isOpen
             /\ \/ \E linger \in BOOLEAN : Endpoint!Retire(r, linger)
                \/ /\ r.peer.phase # "Ended"
                   /\ \E n \in 0..Len(Endpoint!Owed(r.peer)) : Endpoint!Served(Endpoint!Flushed(r.peer, n))
                   /\ Endpoint!Report(r.events) /\ lingering' = lingering
<1> DEFINE r == Endpoint!Reading(Endpoint!Made(peers[turn]), batch)
<1>1. /\ turn' = turn + 1 /\ servicing' = servicing /\ sends' = sends /\ accepts' = accepts
      /\ isOpen' = isOpen
  BY DEF Endpoint!ServicePeer
<1>2. \/ \E linger \in BOOLEAN, more \in {0, 1, Endpoint!Unopened(r.peer)} : Endpoint!Ends(r, linger, more)
      \/ /\ r.peer.phase # "Ended"
         /\ \E n \in 0..Len(Endpoint!Owed(r.peer)) : Endpoint!Served(Endpoint!Flushed(r.peer, n))
         /\ Endpoint!Stays(r)
  BY DEF Endpoint!ServicePeer
<1> HIDE DEF r
<1> QED BY <1>1, <1>2 DEF Endpoint!Ends, Endpoint!Stays, r

LEMMA CarriedService ==
  ASSUME CarriedInv, Configured, NEW batch \in Endpoint!Batches,
         Endpoint!ServicePeer(batch)
  PROVE  CarriedInv'
<1> DEFINE p == Endpoint!Made(peers[turn])
           r == Endpoint!Reading(p, batch)
<1>1. /\ turn \in 1..Len(peers) /\ servicing = "peers"
      /\ r \in Readings /\ Reads(r, p, sends)
  BY TurnReads
<1>2. /\ turn' = turn + 1 /\ servicing' = servicing /\ sends' = sends /\ accepts' = accepts
      /\ \/ \E linger \in BOOLEAN : Endpoint!Retire(r, linger)
         \/ /\ r.peer.phase # "Ended"
            /\ \E n \in 0..Len(Endpoint!Owed(r.peer)) : Endpoint!Served(Endpoint!Flushed(r.peer, n))
            /\ lingering' = lingering
  BY TurnEnds
<1> HIDE DEF r, p
<1>3. sends \in Nat /\ lingering \in Seq(Entry) /\ \A i \in 1..Len(lingering) : EntryOk(lingering[i])
  BY DEF CarriedInv
<1>4. Live(r.peer, sends) /\ ~r.peer.connecting /\ r.peer \in Peer
  BY <1>1 DEF Reads, Readings
<1>5. ASSUME NEW linger \in BOOLEAN, Endpoint!Retire(r, linger)
      PROVE  CarriedInv'
  <2> DEFINE q == [r.peer EXCEPT !.open = FALSE, !.done = TRUE, !.out = <<>>]
  <2>1. PeerOk(q, sends)
    BY <1>3, <1>4, RetiredIsOk
  <2>2. Endpoint!Served(q)
    BY <1>5 DEF Endpoint!Retire
  <2> HIDE DEF q
  <2>3. \/ lingering' = lingering
        \/ lingering' = Endpoint!Lingering(r.peer.id, r.peer.out, r.peer.wire)
    BY <1>5 DEF Endpoint!Retire
  <2>4. /\ lingering' \in Seq(Entry) /\ \A i \in 1..Len(lingering') : EntryOk(lingering'[i])
    <3>1. CASE lingering' = lingering
      BY <1>3, <3>1
    <3>2. CASE lingering' = Endpoint!Lingering(r.peer.id, r.peer.out, r.peer.wire)
      <4>1. Endpoint!WholeFrames(r.peer.wire \o r.peer.out)
        BY <1>4 DEF Live, Core, Stream
      <4>2. r.peer.id \in Nat /\ r.peer.out \in Seq(Unit) /\ r.peer.wire \in Seq(Unit)
        BY <1>4 DEF Peer
      <4> QED BY <3>2, <4>1, <4>2, LingersOn
    <3> QED BY <2>3, <3>1, <3>2
  <2> QED BY <1>1, <1>2, <2>1, <2>2, <2>4, CarriedServed
<1>6. ASSUME r.peer.phase # "Ended", NEW n \in 0..Len(Endpoint!Owed(r.peer)),
             Endpoint!Served(Endpoint!Flushed(r.peer, n)), lingering' = lingering
      PROVE  CarriedInv'
  <2> DEFINE q == Endpoint!Flushed(r.peer, n)
  <2>1. Live(q, sends) /\ q.phase = r.peer.phase /\ q.connecting = r.peer.connecting
    BY <1>3, <1>4, <1>6, FlushedLives
  <2>2. Endpoint!Served(q)
    BY <1>6
  <2> HIDE DEF q
  <2>3. PeerOk(q, sends)
    BY <1>4, <1>6, <2>1 DEF PeerOk, Live
  <2> QED BY <1>1, <1>2, <1>3, <1>6, <2>2, <2>3, CarriedServed
<1> QED BY <1>2, <1>5, <1>6

\* What stays of a sequence, in order.
LEMMA KeptAre ==
  ASSUME NEW n \in Nat, NEW stays \in SUBSET (1..n), NEW order \in Endpoint!InOrder(stays)
  PROVE  /\ Cardinality(stays) \in Nat /\ DOMAIN order = 1..Cardinality(stays)
         /\ \A i \in 1..Cardinality(stays) : order[i] \in stays
<1>1. IsFiniteSet(stays)
  <2>1. IsFiniteSet(1..n)
    BY FS_Interval
  <2> QED BY <2>1, FS_Subset
<1>2. order \in [1..Cardinality(stays) -> stays]
  <2>1. order \in [1..Endpoint!Cardinality(stays) -> stays]
    BY DEF Endpoint!InOrder
  <2>2. Endpoint!Cardinality(stays) = Cardinality(stays)
    BY DEF Endpoint!Cardinality, Cardinality
  <2> QED BY <2>1, <2>2
<1> QED BY <1>1, <1>2, FS_CardinalityType

LEMMA CarriedEnd ==
  ASSUME CarriedInv, NEW taken \in Endpoint!LingeringTakes, NEW gone,
         Endpoint!ServiceEnd(taken, gone)
  PROVE  CarriedInv'
<1> DEFINE kept(i) == [lingering[i] EXCEPT !.out = SubSeq(@, taken[i] + 1, Len(@)),
                                           !.wire = Endpoint!Took(@, SubSeq(lingering[i].out, 1, taken[i]))]
           open == {i \in DOMAIN peers : ~peers[i].done}
           staying == {i \in DOMAIN lingering : ~Endpoint!Due(lingering[i]) /\ i \notin gone}
<1>1. /\ servicing' = "none" /\ turn' = 0 /\ sends' = sends /\ accepts' = accepts
      /\ \E order \in Endpoint!InOrder(open) : peers' = [i \in DOMAIN order |-> peers[order[i]]]
      /\ \E order \in Endpoint!InOrder(staying) : lingering' = [i \in DOMAIN order |-> kept(order[i])]
  BY DEF Endpoint!ServiceEnd
<1>2. sends \in Nat /\ accepts \in Nat
  BY DEF CarriedInv
<1>3. /\ DOMAIN peers = 1..Len(peers) /\ Len(peers) \in Nat
      /\ DOMAIN lingering = 1..Len(lingering) /\ Len(lingering) \in Nat
  BY PeersAre
<1>4. /\ peers' \in Seq(Peer)
      /\ \A i \in 1..Len(peers') : PeerOk(peers'[i], sends) /\ ~peers'[i].done
  <2>1. PICK order \in Endpoint!InOrder(open) : peers' = [i \in DOMAIN order |-> peers[order[i]]]
    BY <1>1
  <2>2. open \in SUBSET (1..Len(peers))
    BY <1>3
  <2> DEFINE m == Cardinality(open)
  <2>3. m \in Nat /\ DOMAIN order = 1..m /\ \A i \in 1..m : order[i] \in open
    BY <1>3, <2>1, <2>2, KeptAre
  <2> HIDE DEF m
  <2>4. \A i \in 1..m : peers[order[i]] \in Peer /\ PeerOk(peers[order[i]], sends) /\ ~peers[order[i]].done
    BY <1>3, <2>3, PeersAre
  <2>5. peers' \in [1..m -> Peer]
    BY <2>1, <2>3, <2>4
  <2>6. peers' \in Seq(Peer) /\ Len(peers') = m
    BY <2>3, <2>5, SeqDef
  <2> QED BY <2>1, <2>3, <2>4, <2>6
<1>5. \A i \in 1..Len(lingering) : kept(i) \in Entry /\ EntryOk(kept(i))
  <2> TAKE i \in 1..Len(lingering)
  <2> DEFINE e == lingering[i]
  <2>1. e \in Entry /\ EntryOk(e)
    BY PeersAre
  <2>2. taken[i] \in {0, Endpoint!Least(1, Len(e.out)), Len(e.out)}
    BY <1>3 DEF Endpoint!LingeringTakes
  <2>3. Len(e.out) \in Nat
    BY <2>1, LenProperties DEF Entry
  <2> DEFINE n == taken[i]
             f == [e EXCEPT !.out = SubSeq(@, n + 1, Len(@)),
                            !.wire = Endpoint!Took(@, SubSeq(e.out, 1, n))]
  <2>4. kept(i) = f
    OBVIOUS
  <2> HIDE DEF e, n
  <2>5. n \in 0..Len(e.out)
    BY <2>2, <2>3 DEF Endpoint!Least, n
  <2>6. EntryOk(f)
    BY <2>1, <2>5, TakesOk
  <2> HIDE DEF f
  <2> QED BY <2>4, <2>6 DEF EntryOk
<1> HIDE DEF kept
<1>6. /\ lingering' \in Seq(Entry)
      /\ \A i \in 1..Len(lingering') : EntryOk(lingering'[i])
  <2>1. PICK order \in Endpoint!InOrder(staying) : lingering' = [i \in DOMAIN order |-> kept(order[i])]
    BY <1>1
  <2>2. staying \in SUBSET (1..Len(lingering))
    BY <1>3
  <2> DEFINE m == Cardinality(staying)
  <2>3. m \in Nat /\ DOMAIN order = 1..m /\ \A i \in 1..m : order[i] \in staying
    BY <1>3, <2>1, <2>2, KeptAre
  <2> HIDE DEF m
  <2>4. \A i \in 1..m : kept(order[i]) \in Entry /\ EntryOk(kept(order[i]))
    BY <1>5, <2>2, <2>3
  <2>5. lingering' \in [1..m -> Entry]
    BY <2>1, <2>3, <2>4
  <2>6. lingering' \in Seq(Entry) /\ Len(lingering') = m
    BY <2>3, <2>5, SeqDef
  <2> QED BY <2>1, <2>3, <2>4, <2>6
<1> QED BY <1>1, <1>2, <1>4, <1>6 DEF CarriedInv

LEMMA CarriedStep ==
  ASSUME CarriedInv, Configured, [Endpoint!Next]_Endpoint!vars
  PROVE  CarriedInv'
<1>1. CASE Endpoint!Tick
  BY <1>1, CarriedTick
<1>2. CASE \E possible \in BOOLEAN : Endpoint!Open(possible)
  BY <1>2, CarriedCleared DEF Endpoint!Open
<1>3. CASE Endpoint!Close
  BY <1>3, CarriedCleared DEF Endpoint!Close
<1>4. CASE Endpoint!Send
  BY <1>4, CarriedSend
<1>5. CASE Endpoint!AcceptPeer \/ Endpoint!AcceptRefused \/ Endpoint!AcceptEnds
  BY <1>5, CarriedAccept
<1>6. CASE Endpoint!ServiceBegin
  BY <1>6, CarriedBegin
<1>7. CASE Endpoint!ServiceConnecting
  BY <1>7, CarriedConnecting
<1>8. CASE \E batch \in Endpoint!Batches : Endpoint!ServicePeer(batch)
  BY <1>8, CarriedService
<1>9. CASE \E taken \in Endpoint!LingeringTakes, gone \in SUBSET DOMAIN lingering :
             Endpoint!ServiceEnd(taken, gone)
  BY <1>9, CarriedEnd
<1>10. CASE UNCHANGED Endpoint!vars
  BY <1>10 DEF Endpoint!vars, CarriedInv
<1> QED BY <1>1, <1>2, <1>3, <1>4, <1>5, <1>6, <1>7, <1>8, <1>9, <1>10
        DEF Endpoint!Next, Endpoint!Service

LEMMA CarriedTells ==
  ASSUME CarriedInv
  PROVE  Endpoint!PeersGetTheirFrames
<1>1. Endpoint!WireIsWholeFrames
  <2>1. ASSUME NEW i \in DOMAIN peers PROVE Endpoint!WholeFrames(peers[i].wire)
    <3> DEFINE p == peers[i]
    <3>1. p \in Peer /\ PeerOk(p, sends)
      BY PeersAre
    <3> HIDE DEF p
    <3>2. CASE p.done
      BY <3>1, <3>2 DEF PeerOk, p
    <3>3. CASE ~p.done
      <4>1. Endpoint!WholeFrames(p.wire \o p.out)
        BY <3>1, <3>3 DEF PeerOk, Live, Core, Stream
      <4>2. Endpoint!WholeFrames(p.wire)
        BY <3>1, <4>1, FramesBegin DEF Peer
      <4> QED BY <4>2 DEF p
    <3> QED BY <3>2, <3>3
  <2>2. ASSUME NEW i \in DOMAIN lingering PROVE Endpoint!WholeFrames(lingering[i].wire)
    <3>1. lingering[i] \in Entry /\ EntryOk(lingering[i])
      BY PeersAre
    <3> QED BY <3>1, FramesBegin DEF Entry, EntryOk, Stream
  <2> QED BY <2>1, <2>2 DEF Endpoint!WireIsWholeFrames
<1>2. Endpoint!QueueIsTheNewest
  <2> SUFFICES ASSUME NEW i \in DOMAIN peers, peers[i].open
               PROVE  /\ Len(peers[i].queue) <= Endpoint!QueueBound
                      /\ \A k \in DOMAIN peers[i].queue : peers[i].queue[k] = sends - Len(peers[i].queue) + k
                      /\ peers[i].sent + peers[i].dropped + Len(peers[i].queue) = sends - peers[i].joined
    BY DEF Endpoint!QueueIsTheNewest
  <2> DEFINE p == peers[i]
  <2>1. p \in Peer /\ PeerOk(p, sends)
    BY PeersAre
  <2>2. Newest(p, sends)
    <3> HIDE DEF p
    <3>1. p.open
      BY DEF p
    <3> QED BY <2>1, <3>1 DEF PeerOk, Live, Core
  <2>3. DOMAIN p.queue = 1..Len(p.queue)
    BY <2>1 DEF Peer
  <2> QED BY <2>2, <2>3 DEF Newest
<1> QED BY <1>1, <1>2 DEF Endpoint!PeersGetTheirFrames

\* What a socket took is whole frames in order, and what waits for an open peer is
\* the newest messages since it joined: Enqueue, _Flush, _Retire and _Linger, for
\* every number of peers, queue bound, message and part of a write.
THEOREM WholeFramesReachPeers ==
  ASSUME Endpoint!EndpointAssumption
  PROVE  Endpoint!Spec => []PeersGetTheirFrames
<1>1. Endpoint!Init => Configured /\ CarriedInv
  BY CarriedInit, IsConfigured DEF Endpoint!Init, Endpoint!InitOf
<1>2. (Configured /\ CarriedInv) /\ [Endpoint!Next]_Endpoint!vars => (Configured /\ CarriedInv)'
  BY ConfiguredStays, CarriedStep
<1>3. CarriedInv => PeersGetTheirFrames
  BY CarriedTells DEF PeersGetTheirFrames
<1> QED BY <1>1, <1>2, <1>3, PTL DEF Endpoint!Spec

-----------------------------------------------------------------------------
(* Endpoint: what is reported of one peer at a time.                        *)

\* An opening follows an end, and what is not an opening its own session.
Nests(s) ==
  \A i \in 1..Len(s) :
    i > 1 =>
      IF s[i].kind = "PeerOpened" THEN s[i - 1].kind = "PeerClosed"
      ELSE s[i - 1].kind # "PeerClosed" /\ s[i - 1].id = s[i].id

\* A session is on, and it is id's, or none is.
Session(s, open, id) ==
  IF open THEN s # <<>> /\ s[Len(s)].kind # "PeerClosed" /\ s[Len(s)].id = id
  ELSE s = <<>> \/ s[Len(s)].kind = "PeerClosed"

\* With a limit of one there is no second.
OpenNow(all) == all # <<>> /\ all[1].open

\* What was reported last is of the session that is on, or ends the last one.
NestedInv ==
  /\ reports \in Seq(Event) /\ Nests(reports)
  /\ Len(peers) <= 1
  /\ isOpen => Session(reports, OpenNow(peers), peers[1].id)
  /\ ~isOpen => peers = <<>> /\ servicing = "none"

LEMMA EventsAre ==
  ASSUME NEW s \in Seq(Event)
  PROVE  /\ Len(s) \in Nat /\ DOMAIN s = 1..Len(s)
         /\ \A i \in 1..Len(s) : s[i] \in Event
         /\ s = <<>> <=> Len(s) = 0
         /\ s # <<>> => Len(s) \in 1..Len(s)
<1>1. Len(s) \in Nat /\ DOMAIN s = 1..Len(s) /\ \A i \in 1..Len(s) : s[i] \in Event
  OBVIOUS
<1>2. s = <<>> <=> Len(s) = 0
  BY EmptySeq
<1> QED BY <1>1, <1>2

\* What one turn reports goes on from what was reported.
LEMMA SessionGoesOn ==
  ASSUME NEW t \in Seq(Event), NEW e \in Seq(Event), NEW p, NEW q, p.open \in BOOLEAN, q.open \in BOOLEAN,
         Nests(t), Session(t, p.open, p.id), Tells(e, p, q)
  PROVE  /\ t \o e \in Seq(Event) /\ Nests(t \o e)
         /\ Session(t \o e, q.open, p.id)
<1> DEFINE s == t \o e
           l == Len(t)
           m == Len(e)
<1>1. l \in Nat /\ m \in Nat
  BY EventsAre
<1>2. /\ s \in Seq(Event) /\ Len(s) = l + m
      /\ \A i \in 1..(l + m) : s[i] = IF i <= l THEN t[i] ELSE e[i - l]
  BY ConcatProperties
<1>3. /\ \A i \in 1..m : e[i].id = p.id /\ e[i].kind = IF i = 1 /\ ~p.open THEN "PeerOpened" ELSE "Message"
      /\ p.open => q.open
      /\ ~q.open => e = <<>>
      /\ (~p.open /\ q.open) => e # <<>>
  BY DEF Tells
<1>4. /\ p.open => t # <<>> /\ t[l].kind # "PeerClosed" /\ t[l].id = p.id
      /\ ~p.open => t = <<>> \/ t[l].kind = "PeerClosed"
  BY DEF Session
<1>5. \A i \in 1..l : i > 1 => IF t[i].kind = "PeerOpened" THEN t[i - 1].kind = "PeerClosed"
                               ELSE t[i - 1].kind # "PeerClosed" /\ t[i - 1].id = t[i].id
  BY DEF Nests
<1>6. t = <<>> <=> l = 0
  BY EventsAre
<1>7. e = <<>> <=> m = 0
  BY EventsAre
<1> HIDE DEF s, l, m
<1>8. Nests(s)
  <2> SUFFICES ASSUME NEW i \in 1..(l + m), i > 1
               PROVE  IF s[i].kind = "PeerOpened" THEN s[i - 1].kind = "PeerClosed"
                      ELSE s[i - 1].kind # "PeerClosed" /\ s[i - 1].id = s[i].id
    BY <1>2 DEF Nests
  <2>1. i \in Nat /\ (i <= l \/ i = l + 1 \/ i > l + 1) /\ i - 1 \in 1..(l + m)
    BY <1>1
  <2>2. CASE i <= l
    <3>1. s[i] = t[i] /\ s[i - 1] = t[i - 1] /\ i \in 1..l
      BY <1>1, <1>2, <2>1, <2>2
    <3> QED BY <1>5, <3>1
  <2>3. CASE i = l + 1
    <3>1. i - 1 = l /\ i - 1 <= l /\ ~(i <= l) /\ i - l = 1 /\ 1 \in 1..m /\ l # 0
      BY <1>1, <2>1, <2>3
    <3>2. s[i] = e[1]
      BY <1>2, <3>1
    <3>3. s[i - 1] = t[l]
      BY <1>2, <2>1, <3>1
    <3>4. e[1].id = p.id /\ e[1].kind = IF ~p.open THEN "PeerOpened" ELSE "Message"
      BY <1>3, <3>1
    <3>5. t # <<>>
      BY <1>6, <3>1
    <3> QED BY <1>4, <3>2, <3>3, <3>4, <3>5
  <2>4. CASE i > l + 1
    <3> DEFINE j == i - l
    <3>1. j \in 1..m /\ j - 1 \in 1..m /\ j # 1 /\ ~(i <= l) /\ ~(i - 1 <= l) /\ (i - 1) - l = j - 1
      BY <1>1, <2>1, <2>4
    <3>2. s[i] = e[j]
      BY <1>2, <3>1
    <3>3. s[i - 1] = e[j - 1]
      BY <1>2, <2>1, <3>1
    <3> HIDE DEF j
    <3>4. e[j].id = p.id /\ e[j].kind = "Message"
      BY <1>3, <3>1
    <3>5. e[j - 1].id = p.id /\ e[j - 1].kind # "PeerClosed"
      BY <1>3, <3>1
    <3> QED BY <3>2, <3>3, <3>4, <3>5
  <2> QED BY <2>1, <2>2, <2>3, <2>4
<1>9. Session(s, q.open, p.id)
  <2>1. CASE e = <<>>
    <3>1. s = t
      BY <2>1, ConcatEmptySeq DEF s
    <3>2. p.open = q.open
      BY <1>3, <2>1
    <3> QED BY <3>1, <3>2
  <2>2. CASE e # <<>>
    <3>1. m # 0 /\ m \in 1..m /\ l + m \in 1..(l + m) /\ ~(l + m <= l) /\ (l + m) - l = m
      BY <1>1, <1>7, <2>2
    <3>2. s[l + m] = e[m]
      BY <1>2, <3>1
    <3>3. e[m].id = p.id /\ e[m].kind # "PeerClosed"
      BY <1>3, <3>1
    <3>4. q.open
      BY <1>3, <2>2
    <3>5. s # <<>>
      BY <1>1, <1>2, <3>1, EventsAre
    <3> QED BY <1>2, <3>2, <3>3, <3>4, <3>5 DEF Session
  <2> QED BY <2>1, <2>2
<1> QED BY <1>2, <1>8, <1>9 DEF s

\* The end of a session.
LEMMA SessionEnds ==
  ASSUME NEW s \in Seq(Event), NEW id \in Nat, Nests(s), Session(s, TRUE, id)
  PROVE  LET closed == [kind |-> "PeerClosed", id |-> id]
         IN  /\ <<closed>> \in Seq(Event)
             /\ s \o <<closed>> \in Seq(Event) /\ Nests(s \o <<closed>>)
             /\ Session(s \o <<closed>>, FALSE, id)
<1> DEFINE closed == [kind |-> "PeerClosed", id |-> id]
           c == <<closed>>
           r == s \o c
           l == Len(s)
<1>1. closed \in Event /\ closed.kind = "PeerClosed" /\ closed.id = id
  BY DEF Event
<1> HIDE DEF closed
<1>2. c \in Seq(Event) /\ Len(c) = 1 /\ c[1] = closed
  BY <1>1
<1> HIDE DEF c
<1>3. l \in Nat /\ (s = <<>> <=> l = 0)
  BY EventsAre
<1>4. /\ r \in Seq(Event) /\ Len(r) = l + 1
      /\ \A i \in 1..(l + 1) : r[i] = IF i <= l THEN s[i] ELSE c[i - l]
  <2>1. /\ r \in Seq(Event) /\ Len(r) = l + Len(c)
        /\ \A i \in 1..(l + Len(c)) : r[i] = IF i <= l THEN s[i] ELSE c[i - l]
    BY <1>2, ConcatProperties
  <2> HIDE DEF r, l
  <2> QED BY <1>2, <2>1
<1>5. \A i \in 1..l : i > 1 => IF s[i].kind = "PeerOpened" THEN s[i - 1].kind = "PeerClosed"
                               ELSE s[i - 1].kind # "PeerClosed" /\ s[i - 1].id = s[i].id
  BY DEF Nests
<1>6. s # <<>> /\ s[l].kind # "PeerClosed" /\ s[l].id = id
  BY DEF Session
<1> HIDE DEF r, l
<1>7. r[l + 1] = closed
  <2>1. l + 1 \in 1..(l + 1) /\ ~(l + 1 <= l) /\ (l + 1) - l = 1
    BY <1>3
  <2> QED BY <1>2, <1>4, <2>1
<1>8. Nests(r)
  <2> SUFFICES ASSUME NEW i \in 1..(l + 1), i > 1
               PROVE  IF r[i].kind = "PeerOpened" THEN r[i - 1].kind = "PeerClosed"
                      ELSE r[i - 1].kind # "PeerClosed" /\ r[i - 1].id = r[i].id
    BY <1>4 DEF Nests
  <2>1. i \in Nat /\ (i <= l \/ i = l + 1) /\ i - 1 \in 1..(l + 1) /\ i - 1 <= l
    BY <1>3
  <2>2. r[i - 1] = s[i - 1]
    BY <1>4, <2>1
  <2>3. CASE i <= l
    <3>1. r[i] = s[i] /\ i \in 1..l
      BY <1>3, <1>4, <2>1, <2>3
    <3> QED BY <1>5, <2>2, <3>1
  <2>4. CASE i = l + 1
    <3>1. i - 1 = l
      BY <1>3, <2>4
    <3> QED BY <1>1, <1>6, <1>7, <2>2, <2>4, <3>1
  <2> QED BY <2>1, <2>3, <2>4
<1>9. Session(r, FALSE, id)
  BY <1>1, <1>4, <1>7 DEF Session
<1> QED BY <1>2, <1>4, <1>8, <1>9 DEF r, c, closed

\* Report keeps the last event before.
LEMMA LastIsKept ==
  ASSUME NEW s \in Seq(Event), Nests(s)
  PROVE  LET t == SubSeq(s, Endpoint!Greatest(1, Len(s)), Len(s))
         IN  /\ t \in Seq(Event) /\ Nests(t)
             /\ \A open \in BOOLEAN : \A id : Session(s, open, id) => Session(t, open, id)
<1> DEFINE l == Len(s)
           g == Endpoint!Greatest(1, l)
           t == SubSeq(s, g, l)
<1>1. l \in Nat /\ (s = <<>> <=> l = 0)
  BY EventsAre
<1>2. CASE l = 0
  <2>1. g = 1
    BY <1>2 DEF Endpoint!Greatest
  <2>2. s = <<>>
    BY <1>1, <1>2
  <2>3. t = <<>>
    <3>1. t = SubSeq(s, 1, 0)
      BY <1>2, <2>1
    <3> HIDE DEF t, l, g
    <3>2. t = [i \in 1..0 |-> s[1 + i - 1]]
      BY <3>1 DEF SubSeq
    <3>3. 1..0 = {}
      OBVIOUS
    <3> QED BY <3>2, <3>3
  <2> HIDE DEF t
  <2>4. t = s
    BY <2>2, <2>3
  <2> QED BY <2>4 DEF t, l, g
<1>3. CASE l # 0
  <2>1. g = l
    BY <1>1, <1>3 DEF Endpoint!Greatest
  <2>2. t = SubSeq(s, l, l)
    BY <2>1
  <2> HIDE DEF t
  <2>3. l \in 1..l
    BY <1>1, <1>3
  <2>4. t \in Seq(Event)
    BY <1>1, <1>3, <2>2
  <2>5. Len(t) = 1
    BY <1>1, <1>3, <2>2
  <2>6. t[1] = s[l]
    BY <1>1, <1>3, <2>2
  <2>7. t # <<>> /\ s # <<>>
    <3>1. s # <<>>
      BY <1>1, <1>3
    <3>2. t # <<>>
      <4> SUFFICES ASSUME t = <<>> PROVE FALSE
        OBVIOUS
      <4>1. Len(t) = 0
        OBVIOUS
      <4> QED BY <2>5, <4>1
    <3> QED BY <3>1, <3>2
  <2>8. Nests(t)
    BY <2>5 DEF Nests
  <2>9. \A open \in BOOLEAN : \A id : Session(s, open, id) => Session(t, open, id)
    BY <2>5, <2>6, <2>7 DEF Session
  <2> QED BY <2>4, <2>8, <2>9 DEF t, l, g
<1> QED BY <1>2, <1>3

LEMMA NestedFacts ==
  ASSUME CarriedInv, NestedInv
  PROVE  /\ peers \in Seq(Peer) /\ Len(peers) \in {0, 1} /\ Len(peers) \in Nat
         /\ peers = <<>> <=> Len(peers) = 0
         /\ OpenNow(peers) \in BOOLEAN
         /\ reports \in Seq(Event) /\ Nests(reports)
<1>1. peers \in Seq(Peer) /\ Len(peers) \in Nat
  BY PeersAre DEF CarriedInv
<1>2. peers = <<>> <=> Len(peers) = 0
  BY <1>1, EmptySeq
<1>3. Len(peers) \in {0, 1} /\ reports \in Seq(Event) /\ Nests(reports)
  <2>1. Len(peers) <= 1 /\ reports \in Seq(Event) /\ Nests(reports)
    BY DEF NestedInv
  <2> DEFINE n == Len(peers)
  <2>2. n \in {0, 1}
    <3>1. n \in Nat /\ n <= 1
      BY <1>1, <2>1
    <3> HIDE DEF n
    <3> QED BY <3>1
  <2> QED BY <2>1, <2>2
<1>4. OpenNow(peers) \in BOOLEAN
  <2>1. peers # <<>> => peers[1] \in Peer
    BY <1>1, <1>2, <1>3
  <2> QED BY <2>1 DEF OpenNow, Peer
<1> QED BY <1>1, <1>2, <1>3, <1>4

\* The same peers, as far as what is reported goes.
LEMMA NestedSame ==
  ASSUME CarriedInv, NestedInv, CarriedInv', reports' = reports, isOpen' = isOpen,
         servicing' = servicing \/ isOpen,
         Len(peers') = Len(peers),
         \A i \in 1..Len(peers) : peers'[i].open = peers[i].open /\ peers'[i].id = peers[i].id
  PROVE  NestedInv'
<1>1. /\ Len(peers) \in {0, 1} /\ (peers = <<>> <=> Len(peers) = 0)
      /\ reports \in Seq(Event) /\ Nests(reports)
  BY NestedFacts
<1>2. peers' = <<>> <=> Len(peers') = 0
  <2>1. peers' \in Seq(Peer)
    BY DEF CarriedInv
  <2> QED BY <2>1, EmptySeq
<1>3. isOpen' => Session(reports', OpenNow(peers'), peers'[1].id)
  <2>1. CASE peers = <<>>
    BY <1>1, <1>2, <2>1 DEF NestedInv, OpenNow, Session
  <2>2. CASE peers # <<>>
    <3>1. 1 \in 1..Len(peers)
      BY <1>1, <2>2
    <3>2. OpenNow(peers') = OpenNow(peers) /\ peers'[1].id = peers[1].id
      BY <1>1, <1>2, <2>2, <3>1 DEF OpenNow
    <3> QED BY <3>2 DEF NestedInv
  <2> QED BY <2>1, <2>2
<1>4. ~isOpen' => peers' = <<>> /\ servicing' = "none"
  BY <1>1, <1>2 DEF NestedInv
<1> QED BY <1>1, <1>3, <1>4 DEF NestedInv

\* No peers, and nothing reported but sessions that are over.
LEMMA NestedCleared ==
  ASSUME NestedInv, Endpoint!Clear,
         (reports' = reports /\ ~isOpen') \/ reports' = <<>>
  PROVE  NestedInv'
<1>1. peers' = <<>> /\ servicing' = "none" /\ Len(peers') = 0
  BY DEF Endpoint!Clear
<1>2. ~OpenNow(peers')
  BY <1>1 DEF OpenNow
<1>3. CASE reports' = reports /\ ~isOpen'
  BY <1>1, <1>3 DEF NestedInv
<1>4. CASE reports' = <<>>
  <2>1. reports' \in Seq(Event) /\ Nests(reports')
    BY <1>4 DEF Nests
  <2>2. Session(reports', OpenNow(peers'), peers'[1].id)
    BY <1>2, <1>4 DEF Session
  <2> QED BY <1>1, <2>1, <2>2 DEF NestedInv
<1> QED BY <1>3, <1>4

LEMMA NestedJoin ==
  ASSUME CarriedInv, NestedInv, NEW connecting \in BOOLEAN, Endpoint!Join(connecting), peers = <<>>,
         reports' = reports, isOpen' = isOpen, isOpen
  PROVE  NestedInv'
<1> DEFINE p == Endpoint!NewPeer(accepts + 1, connecting)
<1>1. peers' = Append(peers, p)
  BY DEF Endpoint!Join
<1>2. ~p.open
  BY DEF Endpoint!NewPeer
<1> HIDE DEF p
<1>3. peers' = <<p>>
  BY <1>1
<1>4. Len(peers') = 1 /\ peers'[1] = p
  BY <1>3
<1>5. OpenNow(peers') = FALSE /\ OpenNow(peers) = FALSE
  BY <1>2, <1>4 DEF OpenNow
<1>6. Session(reports, FALSE, peers'[1].id)
  <2>1. Session(reports, FALSE, peers[1].id)
    BY <1>5 DEF NestedInv
  <2> QED BY <2>1 DEF Session
<1>7. Session(reports', OpenNow(peers'), peers'[1].id)
  BY <1>5, <1>6
<1> QED BY <1>4, <1>7 DEF NestedInv

LEMMA NestedTick ==
  ASSUME CarriedInv, NestedInv, CarriedInv', Endpoint!Tick
  PROVE  NestedInv'
<1> DEFINE older(p) == [p EXCEPT !.age = Endpoint!Least(p.age + 1, HandshakeTimeout + 1)]
<1>1. /\ peers' = [i \in DOMAIN peers |-> older(peers[i])]
      /\ servicing' = servicing /\ reports' = reports /\ isOpen' = isOpen
  BY DEF Endpoint!Tick
<1>2. \A p \in Peer : older(p).open = p.open /\ older(p).id = p.id
  BY DEF Peer
<1> HIDE DEF older
<1>3. DOMAIN peers = 1..Len(peers) /\ \A i \in 1..Len(peers) : peers[i] \in Peer
  BY PeersAre
<1>4. \A i \in 1..Len(peers) : peers'[i].open = peers[i].open /\ peers'[i].id = peers[i].id
  BY <1>1, <1>2, <1>3
<1>5. Len(peers') = Len(peers)
  <2>1. DOMAIN peers' = 1..Len(peers) /\ Len(peers) \in Nat /\ peers' \in Seq(Peer)
    BY <1>1, <1>3, PeersAre DEF CarriedInv
  <2> QED BY <2>1, LenProperties
<1> QED BY <1>1, <1>4, <1>5, NestedSame

LEMMA NestedSend ==
  ASSUME CarriedInv, NestedInv, CarriedInv', Endpoint!Send
  PROVE  NestedInv'
<1> DEFINE given(p) == IF p.open /\ ~p.done THEN Endpoint!Queued(p, sends') ELSE p
<1>1. /\ peers' = [i \in DOMAIN peers |-> given(peers[i])]
      /\ servicing' = servicing /\ reports' = reports /\ isOpen' = isOpen
  BY DEF Endpoint!Send
<1>2. \A p \in Peer : given(p).open = p.open /\ given(p).id = p.id
  <2> TAKE p \in Peer
  <2>1. Endpoint!Queued(p, sends').open = p.open /\ Endpoint!Queued(p, sends').id = p.id
    BY DEF Peer, Endpoint!Queued
  <2> QED BY <2>1
<1> HIDE DEF given
<1>3. DOMAIN peers = 1..Len(peers) /\ \A i \in 1..Len(peers) : peers[i] \in Peer
  BY PeersAre
<1>4. \A i \in 1..Len(peers) : peers'[i].open = peers[i].open /\ peers'[i].id = peers[i].id
  BY <1>1, <1>2, <1>3
<1>5. Len(peers') = Len(peers)
  <2>1. DOMAIN peers' = 1..Len(peers) /\ Len(peers) \in Nat /\ peers' \in Seq(Peer)
    BY <1>1, <1>3, PeersAre DEF CarriedInv
  <2> QED BY <2>1, LenProperties
<1> QED BY <1>1, <1>4, <1>5, NestedSame

LEMMA NestedConnecting ==
  ASSUME CarriedInv, NestedInv, CarriedInv', Endpoint!ServiceConnecting
  PROVE  NestedInv'
<1>1. /\ servicing' = servicing /\ reports' = reports /\ isOpen' = isOpen /\ turn <= Len(peers)
      /\ servicing = "peers"
  BY DEF Endpoint!ServiceConnecting
<1>2. turn \in 1..Len(peers)
  BY <1>1, PeersAre DEF CarriedInv
<1>3. CASE peers' = peers
  BY <1>1, <1>3, NestedSame
<1>4. CASE Endpoint!Served([peers[turn] EXCEPT !.done = TRUE])
  <2> DEFINE q == [peers[turn] EXCEPT !.done = TRUE]
  <2>1. q \in Peer /\ q.open = peers[turn].open /\ q.id = peers[turn].id
    <3>1. peers[turn] \in Peer
      BY <1>2, PeersAre
    <3> QED BY <3>1 DEF Peer
  <2>2. Endpoint!Served(q)
    BY <1>4
  <2> HIDE DEF q
  <2>3. /\ Len(peers') = Len(peers) /\ peers'[turn] = q
        /\ \A i \in 1..Len(peers) : i # turn => peers'[i] = peers[i]
    BY <1>2, <2>1, <2>2, ServedIs
  <2>4. \A i \in 1..Len(peers) : peers'[i].open = peers[i].open /\ peers'[i].id = peers[i].id
    BY <2>1, <2>3
  <2> QED BY <1>1, <2>3, <2>4, NestedSame
<1> QED BY <1>3, <1>4 DEF Endpoint!ServiceConnecting

\* A turn's reports, and the peer it leaves.
LEMMA NestedServed ==
  ASSUME CarriedInv, NestedInv, turn \in 1..Len(peers), servicing = "peers", isOpen' = isOpen,
         NEW q \in Peer, Endpoint!Served(q), q.id = peers[turn].id,
         reports' \in Seq(Event), Nests(reports'), Session(reports', q.open, q.id)
  PROVE  NestedInv'
<1>1. Len(peers) \in {0, 1}
  BY NestedFacts
<1>2. turn = 1 /\ Len(peers) = 1
  BY <1>1
<1>3. peers' \in Seq(Peer) /\ Len(peers') = 1 /\ peers'[1] = q
  BY <1>2, ServedIs
<1>4. peers' # <<>>
  <2> SUFFICES ASSUME peers' = <<>> PROVE FALSE
    OBVIOUS
  <2>1. Len(peers') = 0
    OBVIOUS
  <2> QED BY <1>3, <2>1
<1>5. OpenNow(peers') = q.open
  BY <1>3, <1>4 DEF OpenNow, Peer
<1>6. isOpen
  BY DEF NestedInv
<1> QED BY <1>3, <1>5, <1>6 DEF NestedInv

LEMMA NestedService ==
  ASSUME CarriedInv, NestedInv, Configured, NEW batch \in Endpoint!Batches,
         Endpoint!ServicePeer(batch)
  PROVE  NestedInv'
<1> DEFINE p == Endpoint!Made(peers[turn])
           r == Endpoint!Reading(p, batch)
           t == SubSeq(reports, Endpoint!Greatest(1, Len(reports)), Len(reports))
<1>1. /\ turn \in 1..Len(peers) /\ servicing = "peers"
      /\ p.id = peers[turn].id /\ p.open = peers[turn].open
      /\ r \in Readings /\ Reads(r, p, sends)
  BY TurnReads
<1>2. /\ isOpen' = isOpen
      /\ \/ \E linger \in BOOLEAN : Endpoint!Retire(r, linger)
         \/ /\ r.peer.phase # "Ended"
            /\ \E n \in 0..Len(Endpoint!Owed(r.peer)) : Endpoint!Served(Endpoint!Flushed(r.peer, n))
            /\ Endpoint!Report(r.events)
  BY TurnEnds
<1> HIDE DEF r, p
<1>3. isOpen /\ sends \in Nat
  BY <1>1 DEF NestedInv, CarriedInv
<1>4. turn = 1 /\ peers # <<>> /\ peers[1] \in Peer
  <2>1. turn = 1 /\ peers # <<>> /\ 1 \in 1..Len(peers)
    BY <1>1, NestedFacts
  <2> QED BY <2>1, PeersAre
<1>5. /\ r.peer \in Peer /\ r.events \in Seq(Event) /\ r.peer.open \in BOOLEAN /\ r.peer.id = p.id
      /\ Live(r.peer, sends) /\ p.open \in BOOLEAN /\ p.id \in Nat /\ Tells(r.events, p, r.peer)
  BY <1>1, <1>4 DEF Readings, Reads, Peer
<1>6. reports \in Seq(Event) /\ Nests(reports) /\ Session(reports, p.open, p.id)
  <2>1. OpenNow(peers) = p.open /\ peers[1].id = p.id
    BY <1>1, <1>4 DEF OpenNow, Peer
  <2>2. reports \in Seq(Event) /\ Nests(reports) /\ Session(reports, OpenNow(peers), peers[1].id)
    BY <1>3 DEF NestedInv
  <2> QED BY <2>1, <2>2
<1>7. t \in Seq(Event) /\ Nests(t) /\ Session(t, p.open, p.id)
  BY <1>5, <1>6, LastIsKept
<1> HIDE DEF t
<1>8. t \o r.events \in Seq(Event) /\ Nests(t \o r.events) /\ Session(t \o r.events, r.peer.open, p.id)
  BY <1>5, <1>7, SessionGoesOn
<1>9. ASSUME NEW linger \in BOOLEAN, Endpoint!Retire(r, linger)
      PROVE  NestedInv'
  <2> DEFINE q == [r.peer EXCEPT !.open = FALSE, !.done = TRUE, !.out = <<>>]
             none == <<>>
             closed == [kind |-> "PeerClosed", id |-> p.id]
  <2>1. Endpoint!Served(q)
    BY <1>9 DEF Endpoint!Retire
  <2>2. q \in Peer /\ ~q.open /\ q.id = p.id /\ q.open = FALSE
    <3> DEFINE empty == <<>>
    <3>1. empty \in Seq(Unit) /\ q = [r.peer EXCEPT !.open = FALSE, !.done = TRUE, !.out = empty]
      OBVIOUS
    <3> HIDE DEF empty, q
    <3> QED BY <1>5, <3>1 DEF Peer
  <2> HIDE DEF q
  <2>3. Endpoint!Report(r.events \o (IF r.peer.open THEN <<closed>> ELSE none))
    BY <1>5, <1>9 DEF Endpoint!Retire
  <2>4. /\ reports' \in Seq(Event) /\ Nests(reports') /\ Session(reports', FALSE, p.id)
    <3>1. CASE r.peer.open
      <4>1. reports' = t \o (r.events \o <<closed>>)
        BY <2>3, <3>1 DEF Endpoint!Report, t
      <4>2. Session(t \o r.events, TRUE, p.id)
        BY <1>5, <1>8, <3>1
      <4>3. /\ <<closed>> \in Seq(Event)
            /\ (t \o r.events) \o <<closed>> \in Seq(Event)
            /\ Nests((t \o r.events) \o <<closed>>)
            /\ Session((t \o r.events) \o <<closed>>, FALSE, p.id)
        BY <1>5, <1>8, <4>2, SessionEnds
      <4> DEFINE c == <<closed>>
      <4> HIDE DEF c, closed
      <4>4. c \in Seq(Event)
        BY <4>3 DEF c
      <4>5. (t \o r.events) \o c = t \o (r.events \o c)
        <5> DEFINE e == r.events
        <5>1. e \in Seq(Event)
          BY <1>5
        <5> HIDE DEF e
        <5>2. (t \o e) \o c = t \o (e \o c)
          BY <1>7, <4>4, <5>1, Associates
        <5> QED BY <5>2 DEF e
      <4> QED BY <4>1, <4>3, <4>5 DEF c
    <3>2. CASE ~r.peer.open
      <4>1. reports' = t \o (r.events \o none)
        BY <2>3, <3>2 DEF Endpoint!Report, t
      <4>2. r.events \o none = r.events
        BY <1>5, ConcatEmptySeq
      <4>3. r.peer.open = FALSE
        BY <1>5, <3>2
      <4> QED BY <1>8, <4>1, <4>2, <4>3
    <3> QED BY <3>1, <3>2
  <2> QED BY <1>1, <1>2, <2>1, <2>2, <2>4, NestedServed
<1>10. ASSUME r.peer.phase # "Ended", NEW n \in 0..Len(Endpoint!Owed(r.peer)),
              Endpoint!Served(Endpoint!Flushed(r.peer, n)), Endpoint!Report(r.events)
       PROVE  NestedInv'
  <2> DEFINE q == Endpoint!Flushed(r.peer, n)
  <2>1. Live(q, sends) /\ q.id = p.id /\ q.open = r.peer.open
    BY <1>3, <1>5, <1>10, FlushedLives
  <2>2. Endpoint!Served(q)
    BY <1>10
  <2> HIDE DEF q
  <2>3. q \in Peer
    BY <2>1 DEF Live
  <2>4. reports' = t \o r.events
    BY <1>10 DEF Endpoint!Report, t
  <2> QED BY <1>1, <1>2, <1>8, <2>1, <2>2, <2>3, <2>4, NestedServed
<1> QED BY <1>2, <1>9, <1>10

LEMMA NestedEnd ==
  ASSUME CarriedInv, NestedInv, CarriedInv', NEW taken, NEW gone, Endpoint!ServiceEnd(taken, gone)
  PROVE  NestedInv'
<1> DEFINE stay == {i \in DOMAIN peers : ~peers[i].done}
<1>1. /\ servicing = "peers" /\ reports' = reports /\ isOpen' = isOpen
      /\ \E order \in Endpoint!InOrder(stay) : peers' = [i \in DOMAIN order |-> peers[order[i]]]
  BY DEF Endpoint!ServiceEnd
<1>2. isOpen
  BY <1>1 DEF NestedInv
<1>3. /\ DOMAIN peers = 1..Len(peers) /\ Len(peers) \in {0, 1} /\ (peers = <<>> <=> Len(peers) = 0)
      /\ reports \in Seq(Event) /\ Nests(reports)
  BY PeersAre, NestedFacts
<1>4. PICK order \in Endpoint!InOrder(stay) : peers' = [i \in DOMAIN order |-> peers[order[i]]]
  BY <1>1
<1>5. stay \in SUBSET (1..Len(peers))
  BY <1>3
<1> DEFINE m == Cardinality(stay)
<1>6. m \in Nat /\ DOMAIN order = 1..m /\ \A i \in 1..m : order[i] \in stay
  BY <1>3, <1>4, <1>5, KeptAre
<1>7. peers' \in Seq(Peer) /\ DOMAIN peers' = 1..m /\ Len(peers') = m
  <2>1. peers' \in Seq(Peer)
    BY DEF CarriedInv
  <2>2. DOMAIN peers' = 1..m
    BY <1>4, <1>6
  <2> QED BY <1>6, <2>1, <2>2, LenProperties
<1>8. CASE stay = {}
  <2>1. m = 0
    BY <1>8, FS_EmptySet
  <2>2. peers' = <<>>
    BY <1>7, <2>1, EmptySeq
  <2>3. ~OpenNow(peers)
    <3>1. CASE peers = <<>>
      BY <3>1 DEF OpenNow
    <3>2. CASE peers # <<>>
      <4>1. 1 \in 1..Len(peers) /\ peers[1].done
        BY <1>3, <1>8, <3>2
      <4>2. PeerOk(peers[1], sends)
        BY <4>1, PeersAre
      <4> QED BY <4>1, <4>2 DEF PeerOk, OpenNow
    <3> QED BY <3>1, <3>2
  <2>4. OpenNow(peers') = FALSE /\ OpenNow(peers) = FALSE
    BY <2>2, <2>3 DEF OpenNow
  <2>5. Session(reports', OpenNow(peers'), peers'[1].id)
    <3>1. Session(reports, FALSE, peers[1].id)
      BY <1>2, <2>4 DEF NestedInv
    <3> QED BY <1>1, <2>4, <3>1 DEF Session
  <2>6. Len(peers') <= 1
    BY <1>7, <2>1
  <2> QED BY <1>1, <1>2, <1>3, <2>5, <2>6 DEF NestedInv
<1>9. CASE stay # {}
  <2>1. Len(peers) = 1 /\ stay = {1}
    BY <1>3, <1>5, <1>9
  <2>2. m = 1
    BY <2>1, FS_Singleton
  <2>3. order[1] = 1
    BY <1>6, <2>1, <2>2
  <2>4. peers'[1] = peers[1]
    BY <1>4, <1>6, <2>2, <2>3
  <2>5. Len(peers') = Len(peers)
    BY <1>7, <2>1, <2>2
  <2>6. \A i \in 1..Len(peers) : peers'[i].open = peers[i].open /\ peers'[i].id = peers[i].id
    BY <2>1, <2>4
  <2> QED BY <1>1, <1>2, <2>5, <2>6, NestedSame
<1> QED BY <1>8, <1>9

LEMMA NestedBegin ==
  ASSUME CarriedInv, NestedInv, CarriedInv', Endpoint!ServiceBegin
  PROVE  NestedInv'
<1>1. isOpen /\ isOpen' = isOpen /\ reports' = reports
  BY DEF Endpoint!ServiceBegin
<1>2. CASE peers' = peers
  BY <1>1, <1>2, NestedSame
<1>3. CASE peers = <<>> /\ \E connecting \in BOOLEAN : Endpoint!Join(connecting)
  BY <1>1, <1>3, NestedJoin
<1> QED BY <1>2, <1>3 DEF Endpoint!ServiceBegin

LEMMA NestedAccept ==
  ASSUME CarriedInv, NestedInv, CarriedInv', PeerLimit = 1,
         Endpoint!AcceptPeer \/ Endpoint!AcceptRefused \/ Endpoint!AcceptEnds
  PROVE  NestedInv'
<1>1. servicing = "accept" /\ isOpen' = isOpen /\ reports' = reports
  BY DEF Endpoint!AcceptPeer, Endpoint!AcceptRefused, Endpoint!AcceptEnds
<1>2. isOpen
  BY <1>1 DEF NestedInv
<1>3. CASE Endpoint!AcceptPeer
  <2>1. Endpoint!Join(FALSE) /\ ~(Len(peers) >= 1)
    BY <1>3 DEF Endpoint!AcceptPeer, Endpoint!Full
  <2>2. peers = <<>>
    BY <2>1, NestedFacts
  <2> QED BY <1>1, <1>2, <2>1, <2>2, NestedJoin
<1>4. CASE Endpoint!AcceptRefused \/ Endpoint!AcceptEnds
  <2>1. peers' = peers
    BY <1>4 DEF Endpoint!AcceptRefused, Endpoint!AcceptEnds
  <2> QED BY <1>1, <1>2, <2>1, NestedSame
<1> QED BY <1>3, <1>4

LEMMA NestedStep ==
  ASSUME CarriedInv, NestedInv, CarriedInv', Configured, PeerLimit = 1,
         [Endpoint!Next]_Endpoint!vars
  PROVE  NestedInv'
<1>1. CASE Endpoint!Tick
  BY <1>1, NestedTick
<1>2. CASE \E possible \in BOOLEAN : Endpoint!Open(possible)
  BY <1>2, NestedCleared DEF Endpoint!Open
<1>3. CASE Endpoint!Close
  BY <1>3, NestedCleared DEF Endpoint!Close
<1>4. CASE Endpoint!Send
  BY <1>4, NestedSend
<1>5. CASE Endpoint!AcceptPeer \/ Endpoint!AcceptRefused \/ Endpoint!AcceptEnds
  BY <1>5, NestedAccept
<1>6. CASE Endpoint!ServiceBegin
  BY <1>6, NestedBegin
<1>7. CASE Endpoint!ServiceConnecting
  BY <1>7, NestedConnecting
<1>8. CASE \E batch \in Endpoint!Batches : Endpoint!ServicePeer(batch)
  BY <1>8, NestedService
<1>9. CASE \E taken \in Endpoint!LingeringTakes, gone \in SUBSET DOMAIN lingering :
             Endpoint!ServiceEnd(taken, gone)
  BY <1>9, NestedEnd
<1>10. CASE UNCHANGED Endpoint!vars
  BY <1>10 DEF Endpoint!vars, NestedInv, OpenNow
<1> QED BY <1>1, <1>2, <1>3, <1>4, <1>5, <1>6, <1>7, <1>8, <1>9, <1>10
        DEF Endpoint!Next, Endpoint!Service

LEMMA NestedInit ==
  ASSUME Endpoint!Init
  PROVE  NestedInv
<1>1. peers = <<>> /\ reports = <<>> /\ servicing = "none" /\ Len(peers) = 0 /\ ~isOpen
  BY DEF Endpoint!Init, Endpoint!InitOf
<1>2. reports \in Seq(Event) /\ Nests(reports)
  BY <1>1 DEF Nests
<1> QED BY <1>1, <1>2 DEF NestedInv

LEMMA NestedTells ==
  ASSUME NestedInv
  PROVE  Endpoint!EventsNest
<1>1. DOMAIN reports = 1..Len(reports)
  BY EventsAre DEF NestedInv
<1> QED BY <1>1 DEF NestedInv, Nests, Endpoint!EventsNest

\* A receiving endpoint has one peer, and reports its opening, its messages and its
\* end before another opening, whatever arrives and whenever a read or a write
\* fails in Service.
THEOREM SessionsNest ==
  ASSUME Endpoint!EndpointAssumption, PeerLimit = 1
  PROVE  Endpoint!Spec => []EventsNest
<1> DEFINE Inv == Configured /\ CarriedInv /\ NestedInv
<1>1. Endpoint!Init => Inv
  BY CarriedInit, NestedInit, IsConfigured DEF Endpoint!Init, Endpoint!InitOf
<1>2. Inv /\ [Endpoint!Next]_Endpoint!vars => Inv'
  BY ConfiguredStays, CarriedStep, NestedStep
<1>3. Inv => EventsNest
  BY NestedTells DEF EventsNest
<1> HIDE DEF Inv
<1> QED BY <1>1, <1>2, <1>3, PTL DEF Endpoint!Spec
=============================================================================
