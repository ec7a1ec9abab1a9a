---------------------------- MODULE FrontendsProofs ----------------------------
(***************************************************************************)
(* What the components of MCFrontends keep, for every value of the constants: *)
(* PythonConnector (Python) gives every caller its own while no thread is a   *)
(* daemon; OpenXRConnector (OpenXR) hands out frames that are each of one     *)
(* instant; WebXRConnector (WebXR) keeps an epoch whole; MediaPipeConnector    *)
(* (MediaPipe) names no observation twice.                                    *)
(***************************************************************************)
EXTENDS MCFrontends, FiniteSetTheorems, WellFoundedInduction, TLAPS

(***************************************************************************)
(* Python.  The lock is held from the call to what is read of it; a frame or   *)
(* a diagnostic is copied after it, from memory one thread holds.              *)
(***************************************************************************)

Phases == {"out", "waiting", "calling", "failed", "viewing", "copying"}

Ops == Python!Operations \cup {"none"}

ThreadRecord ==
  [phase : Phases, op : Ops, loop : BOOLEAN, call : Nat,
   handle : Handles \cup {0}, seen : Seq(Nat), wanted : Nat]

PythonType ==
  /\ lock \in Threads \cup {"free"} /\ at \in [Threads -> ThreadRecord]
  /\ alive \in BOOLEAN /\ inside \subseteq Threads
  /\ reason \in Nat /\ view \in Nat /\ calls \in Nat
  /\ buffered \in Seq(Nat \ {0}) /\ records \in Seq(Nat \ {0})
  /\ memory \in [Handles -> Nat]

\* A thread that called and has not read all its call left behind has the lock;
\* nothing is destroyed while a thread is in a method.
Locked(t) ==
  /\ at[t].phase \in {"calling", "failed", "viewing"} <=> lock = t
  /\ at[t].phase = "calling" <=> t \in inside
  /\ at[t].phase = "calling" => at[t].call # 0
  /\ at[t].phase # "copying" => at[t].seen = <<>>
  /\ alive \/ at[t].phase = "out"

\* What a thread is about to read is still what its own call wrote.
Viewed(t) ==
  /\ at[t].phase = "failed" => at[t].op \in Python!Reasoned /\ at[t].call = reason
  /\ at[t].phase = "viewing" => at[t].wanted = Python!Content(at[t].op)

Copied(t) ==
  at[t].phase = "copying" =>
    /\ at[t].handle \in Handles /\ at[t].wanted # 0
    /\ memory[at[t].handle] = at[t].wanted
    /\ \A i \in 1..Len(at[t].seen) : at[t].seen[i] = at[t].wanted

Holds(t, h) == at[t].phase = "copying" /\ at[t].handle = h

\* A handle is one thread's, and every handle in use is some thread's.
Handed ==
  /\ \A t, u \in Threads, h \in Handles : Holds(t, h) /\ Holds(u, h) => t = u
  /\ \A h \in Handles : memory[h] # 0 => \E t \in Threads : Holds(t, h)

PythonInv ==
  /\ PythonType
  /\ \A t \in Threads : Locked(t) /\ Viewed(t) /\ Copied(t)
  /\ Handed
  /\ given.got = given.wanted

LEMMA PythonAssumed == "free" \notin Threads /\ Views \in Nat \ {0}
  BY FrontendAssumptions DEF Python!ThreadsAssumption

LEMMA PythonInit == Python!Init => PythonInv
  BY PythonAssumed
  DEF Python!Init, Python!Out, Python!Nobody, PythonInv, PythonType, ThreadRecord, Phases, Locked,
      Viewed, Copied, Handed, Holds, Ops, Python!Operations, Python!Reasoned, Python!Taking, Python!Texts
LEMMA OpFacts ==
  /\ "none" \in Ops /\ Python!Operations \subseteq Ops
  /\ Python!Reasoned \subseteq Ops /\ Python!Taking \subseteq Ops /\ Python!Texts \subseteq Ops
  /\ \A op \in Python!Reasoned : op # "source_profile"
  BY DEF Ops, Python!Operations, Python!Reasoned, Python!Taking, Python!Texts

LEMMA OutRecord == Python!Out \in ThreadRecord
  BY OpFacts DEF Python!Out, ThreadRecord, Phases

\* A step of thread t leaves the records of the others alone.
LEMMA OthersStay ==
  ASSUME PythonType, NEW t \in Threads, NEW r \in ThreadRecord, at' = [at EXCEPT ![t] = r]
  PROVE  /\ at' \in [Threads -> ThreadRecord] /\ at'[t] = r
         /\ \A u \in Threads : u # t => at'[u] = at[u]
  BY DEF PythonType

\* What the threads besides t keep, when t has the lock or nothing they read changes.
LEMMA OthersKeep ==
  ASSUME PythonInv, NEW t \in Threads,
         \A u \in Threads : u # t => at'[u] = at[u],
         (lock' = lock) \/ (lock \in {t, "free"} /\ lock' \in {t, "free"}),
         \A u \in Threads : u # t => (u \in inside' <=> u \in inside),
         alive' = alive,
         lock = t \/ (reason' = reason /\ view' = view),
         \A u \in Threads : u # t /\ at[u].phase = "copying" => memory'[at[u].handle] = memory[at[u].handle]
  PROVE  \A u \in Threads : u # t => Locked(u)' /\ Viewed(u)' /\ Copied(u)'
<1> SUFFICES ASSUME NEW u \in Threads, u # t PROVE Locked(u)' /\ Viewed(u)' /\ Copied(u)'
  OBVIOUS
<1>1. u # "free" /\ Locked(u) /\ Viewed(u) /\ Copied(u) /\ Locked(t) /\ at'[u] = at[u]
  BY PythonAssumed DEF PythonInv
<1>2. Locked(u)'
  BY <1>1 DEF Locked
<1>3. Viewed(u)'
  BY <1>1 DEF Viewed, Locked, Python!Content
<1>4. Copied(u)'
  BY <1>1 DEF Copied
<1> QED BY <1>2, <1>3, <1>4

\* Handles stay handed out when no copy begins or ends and the memory stays.
LEMMA HandedStays ==
  ASSUME PythonInv, memory' = memory,
         \A u \in Threads : /\ at'[u].phase = "copying" <=> at[u].phase = "copying"
                            /\ at[u].phase = "copying" => at'[u].handle = at[u].handle
  PROVE  Handed'
  BY DEF PythonInv, Handed, Holds

LEMMA PythonEnter ==
  ASSUME PythonInv, NEW t \in Threads, NEW op \in Python!Operations, NEW loop \in BOOLEAN,
         Python!Enter(t, op, loop)
  PROVE  PythonInv'
<1> DEFINE r == [Python!Out EXCEPT !.phase = "waiting", !.op = op, !.loop = loop]
<1>1. r.phase = "waiting" /\ r.seen = <<>>
  BY DEF Python!Out
<1>2. r \in ThreadRecord
  <2>1. "waiting" \in Phases /\ op \in Ops
    BY OpFacts DEF Phases
  <2> QED BY <2>1, OutRecord DEF ThreadRecord
<1>3. /\ at' = [at EXCEPT ![t] = r] /\ at[t].phase = "out" /\ alive
      /\ UNCHANGED <<lock, inside, alive, reason, view, buffered, records, memory, calls, given>>
  BY DEF Python!Enter, Python!library
<1>4. /\ at' \in [Threads -> ThreadRecord] /\ at'[t] = r
      /\ \A u \in Threads : u # t => at'[u] = at[u]
  BY <1>2, <1>3, OthersStay DEF PythonInv
<1>5. PythonType'
  BY <1>3, <1>4 DEF PythonInv, PythonType
<1>6. \A u \in Threads : u # t => Locked(u)' /\ Viewed(u)' /\ Copied(u)'
  BY <1>3, <1>4, OthersKeep
<1>7. Locked(t)' /\ Viewed(t)' /\ Copied(t)'
  BY <1>1, <1>3, <1>4 DEF PythonInv, Locked, Viewed, Copied
<1>8. Handed'
  BY <1>1, <1>3, <1>4, HandedStays
<1> QED BY <1>3, <1>5, <1>6, <1>7, <1>8 DEF PythonInv

LEMMA PythonCall ==
  ASSUME PythonInv, NEW t \in Threads, Python!Call(t)
  PROVE  PythonInv'
<1> DEFINE r == [at[t] EXCEPT !.phase = "calling", !.call = calls + 1]
<1>1. /\ at[t] \in ThreadRecord /\ calls \in Nat /\ lock = "free" /\ lock' = t
      /\ at[t].phase = "waiting"
      /\ inside' = inside \cup {t} /\ calls' = calls + 1 /\ t # "free"
      /\ UNCHANGED <<alive, reason, view, buffered, records, memory, given>>
  BY PythonAssumed DEF PythonInv, PythonType, Python!Call, Python!library, Python!Nobody
<1>2. /\ r \in ThreadRecord /\ r.phase = "calling" /\ r.call = calls + 1
      /\ r.seen = at[t].seen
  <2>1. calls + 1 \in Nat /\ "calling" \in Phases
    BY <1>1 DEF Phases
  <2> QED BY <1>1, <2>1 DEF ThreadRecord
<1>3. at' = [at EXCEPT ![t] = r]
  BY DEF Python!Call, PythonInv, PythonType
<1>4. /\ at' \in [Threads -> ThreadRecord] /\ at'[t] = r
      /\ \A u \in Threads : u # t => at'[u] = at[u]
  BY <1>2, <1>3, OthersStay DEF PythonInv
<1> HIDE DEF r
<1>5. PythonType'
  BY <1>1, <1>4 DEF PythonInv, PythonType
<1>6. \A u \in Threads : u # t => Locked(u)' /\ Viewed(u)' /\ Copied(u)'
  BY <1>1, <1>4, OthersKeep
<1>7. Locked(t)' /\ Viewed(t)' /\ Copied(t)'
  BY <1>1, <1>2, <1>4 DEF PythonInv, Locked, Viewed, Copied
<1>8. Handed'
  BY <1>1, <1>2, <1>4, HandedStays
<1> QED BY <1>1, <1>5, <1>6, <1>7, <1>8 DEF PythonInv

\* A call that returns to a thread that then leaves the method.
LEMMA Leaving ==
  ASSUME PythonInv, NEW t \in Threads, Python!Returning(t), Python!Leave(t),
         memory' = memory, given' = given,
         reason' \in Nat, view' \in Nat,
         buffered' \in Seq(Nat \ {0}), records' \in Seq(Nat \ {0})
  PROVE  PythonInv'
<1> DEFINE r == Python!Out
<1>1. r.phase = "out" /\ r.seen = <<>>
  BY DEF Python!Out
<1>2. r \in ThreadRecord
  BY OutRecord
<1>3. /\ at[t].phase = "calling" /\ inside' = inside \ {t} /\ alive' = alive /\ calls' = calls
      /\ lock' = "free" /\ at' = [at EXCEPT ![t] = r] /\ lock = t /\ t # "free"
  BY PythonAssumed DEF PythonInv, Locked, Python!Returning, Python!Leave, Python!Nobody
<1>4. /\ at' \in [Threads -> ThreadRecord] /\ at'[t] = r
      /\ \A u \in Threads : u # t => at'[u] = at[u]
  BY <1>2, <1>3, OthersStay DEF PythonInv
<1>5. PythonType'
  BY <1>3, <1>4 DEF PythonInv, PythonType
<1>6. \A u \in Threads : u # t => Locked(u)' /\ Viewed(u)' /\ Copied(u)'
  BY <1>3, <1>4, OthersKeep
<1>7. Locked(t)' /\ Viewed(t)' /\ Copied(t)'
  BY <1>1, <1>3, <1>4 DEF PythonInv, Locked, Viewed, Copied
<1>8. Handed'
  BY <1>1, <1>3, <1>4, HandedStays
<1> QED BY <1>5, <1>6, <1>7, <1>8 DEF PythonInv

LEMMA PythonReturns ==
  ASSUME PythonInv, NEW t \in Threads,
         Python!Opens(t) \/ Python!Closes(t) \/ Python!Pushes(t) \/ Python!Queries(t) \/ Python!Empty(t)
  PROVE  PythonInv'
<1>1. /\ at[t] \in ThreadRecord /\ buffered \in Seq(Nat \ {0}) /\ records \in Seq(Nat \ {0})
      /\ reason \in Nat /\ view \in Nat
  BY DEF PythonInv, PythonType
<1>2. Python!Returning(t) => at[t].call \in Nat \ {0}
  BY <1>1 DEF PythonInv, Locked, Python!Returning, ThreadRecord
<1>3. /\ \A q \in Seq(Nat \ {0}), n \in Nat \ {0} : Append(q, n) \in Seq(Nat \ {0})
      /\ <<>> \in Seq(Nat \ {0})
  OBVIOUS
<1>4. CASE Python!Opens(t)
  BY <1>1, <1>2, <1>3, <1>4, Leaving DEF Python!Opens, Python!SourceOpens, Python!Adds
<1>5. CASE Python!Closes(t)
  BY <1>1, <1>2, <1>3, <1>5, Leaving DEF Python!Closes, Python!Adds
<1>6. CASE Python!Pushes(t)
  BY <1>1, <1>2, <1>3, <1>6, Leaving DEF Python!Pushes, Python!Adds
<1>7. CASE Python!Queries(t)
  BY <1>1, <1>7, Leaving DEF Python!Queries
<1>8. CASE Python!Empty(t)
  BY <1>1, <1>8, Leaving DEF Python!Empty
<1> QED BY <1>4, <1>5, <1>6, <1>7, <1>8

\* The lock is kept for the reason, or for the text of a view.
LEMMA PythonKeeps ==
  ASSUME PythonInv, NEW t \in Threads, Python!Fails(t) \/ Python!View(t)
  PROVE  PythonInv'
<1> DEFINE failed == [at[t] EXCEPT !.phase = "failed"]
           viewing == [at[t] EXCEPT !.phase = "viewing", !.wanted = Python!Content(at[t].op)]
<1>1. /\ at[t] \in ThreadRecord /\ at \in [Threads -> ThreadRecord] /\ reason \in Nat /\ view \in Nat
      /\ at[t].phase = "calling" /\ lock = t /\ inside' = inside \ {t} /\ t # "free"
      /\ alive' = alive /\ calls' = calls /\ lock' = t
      /\ UNCHANGED <<memory, given>>
  BY PythonAssumed DEF PythonInv, PythonType, Locked, Python!Returning, Python!Fails, Python!View,
     Python!KeptForTheReason
<1>0. view' \in Nat /\ buffered' \in Seq(Nat \ {0}) /\ records' \in Seq(Nat \ {0})
  <2>1. at[t].call \in Nat \ {0} /\ buffered \in Seq(Nat \ {0}) /\ records \in Seq(Nat \ {0})
    BY <1>1 DEF PythonInv, PythonType, Locked, ThreadRecord
  <2>2. Append(records, at[t].call) \in Seq(Nat \ {0}) /\ <<>> \in Seq(Nat \ {0})
    BY <2>1
  <2>3. CASE UNCHANGED <<view, buffered, records>>
    BY <1>1, <2>1, <2>3
  <2>4. CASE Python!SourceOpens(t)
    BY <2>1, <2>2, <2>4 DEF Python!SourceOpens, Python!Adds
  <2> QED BY <2>3, <2>4 DEF Python!Fails, Python!View
<1>2. CASE Python!Fails(t)
  <2>1. failed \in ThreadRecord /\ failed.phase = "failed" /\ failed.op = at[t].op /\ failed.call = at[t].call
        /\ failed.seen = at[t].seen
    BY <1>1 DEF ThreadRecord, Phases
  <2>2. at' = [at EXCEPT ![t] = failed] /\ at[t].op \in Python!Reasoned /\ reason' = at[t].call
    BY <1>1, <1>2 DEF Python!Fails
  <2>3. /\ at' \in [Threads -> ThreadRecord] /\ at'[t] = failed
        /\ \A u \in Threads : u # t => at'[u] = at[u]
    BY <2>1, <2>2, OthersStay DEF PythonInv
  <2> HIDE DEF failed
  <2>4. at[t].call \in Nat
    BY <1>1 DEF ThreadRecord
  <2>5. PythonType'
    BY <1>0, <1>1, <2>2, <2>3, <2>4 DEF PythonInv, PythonType
  <2>6. \A u \in Threads : u # t => Locked(u)' /\ Viewed(u)' /\ Copied(u)'
    BY <1>1, <2>3, OthersKeep
  <2>7. Locked(t)' /\ Viewed(t)' /\ Copied(t)'
    BY <1>1, <2>1, <2>2, <2>3 DEF PythonInv, Locked, Viewed, Copied
  <2>8. Handed'
    BY <1>1, <2>1, <2>3, HandedStays
  <2> QED BY <1>1, <2>5, <2>6, <2>7, <2>8 DEF PythonInv
<1>3. CASE Python!View(t)
  <2>1. Python!Content(at[t].op) \in Nat /\ reason' = reason /\ view' = view
    BY <1>1, <1>3 DEF Python!Content, Python!View
  <2>2. /\ viewing \in ThreadRecord /\ viewing.phase = "viewing" /\ viewing.op = at[t].op
        /\ viewing.wanted = Python!Content(at[t].op) /\ viewing.seen = at[t].seen
    BY <1>1, <2>1 DEF ThreadRecord, Phases
  <2>3. at' = [at EXCEPT ![t] = viewing]
    BY <1>1, <1>3 DEF Python!View
  <2>4. /\ at' \in [Threads -> ThreadRecord] /\ at'[t] = viewing
        /\ \A u \in Threads : u # t => at'[u] = at[u]
    BY <2>2, <2>3, OthersStay DEF PythonInv
  <2> HIDE DEF viewing
  <2>5. PythonType'
    BY <1>0, <1>1, <2>1, <2>4 DEF PythonInv, PythonType
  <2>6. \A u \in Threads : u # t => Locked(u)' /\ Viewed(u)' /\ Copied(u)'
    BY <1>1, <2>1, <2>4, OthersKeep
  <2>7. Locked(t)' /\ Viewed(t)' /\ Copied(t)'
    BY <1>1, <2>1, <2>2, <2>4 DEF PythonInv, Locked, Viewed, Copied, Python!Content
  <2>8. Handed'
    BY <1>1, <2>2, <2>4, HandedStays
  <2> QED BY <1>1, <2>5, <2>6, <2>7, <2>8 DEF PythonInv
<1> QED BY <1>2, <1>3

\* The reason's view, of a thread that kept the lock for it; then the text.
LEMMA PythonViewReason ==
  ASSUME PythonInv, NEW t \in Threads, Python!ViewReason(t)
  PROVE  PythonInv'
<1> DEFINE r == [at[t] EXCEPT !.phase = "viewing", !.wanted = at[t].call]
<1>1. /\ at[t] \in ThreadRecord /\ at \in [Threads -> ThreadRecord] /\ t # "free"
      /\ at[t].phase = "failed" /\ lock = t /\ at[t].call = reason /\ at[t].op # "source_profile"
      /\ UNCHANGED <<lock, inside, alive, reason, view, buffered, records, memory, calls, given>>
  BY PythonAssumed, OpFacts DEF PythonInv, PythonType, Locked, Viewed, Python!ViewReason, Python!library
<1>2. r \in ThreadRecord /\ r.phase = "viewing" /\ r.op = at[t].op /\ r.wanted = at[t].call
      /\ r.seen = at[t].seen
  BY <1>1 DEF ThreadRecord, Phases
<1>3. at' = [at EXCEPT ![t] = r]
  BY <1>1 DEF Python!ViewReason
<1>4. /\ at' \in [Threads -> ThreadRecord] /\ at'[t] = r
      /\ \A u \in Threads : u # t => at'[u] = at[u]
  BY <1>2, <1>3, OthersStay DEF PythonInv
<1> HIDE DEF r
<1>5. PythonType'
  BY <1>1, <1>4 DEF PythonInv, PythonType
<1>6. \A u \in Threads : u # t => Locked(u)' /\ Viewed(u)' /\ Copied(u)'
  BY <1>1, <1>4, OthersKeep
<1>7. Locked(t)' /\ Viewed(t)' /\ Copied(t)'
  BY <1>1, <1>2, <1>4 DEF PythonInv, Locked, Viewed, Copied, Python!Content
<1>8. Handed'
  BY <1>1, <1>2, <1>4, HandedStays
<1> QED BY <1>1, <1>5, <1>6, <1>7, <1>8 DEF PythonInv

LEMMA PythonText ==
  ASSUME PythonInv, NEW t \in Threads, Python!Text(t)
  PROVE  PythonInv'
<1> DEFINE r == Python!Out
<1>1. /\ at[t].phase = "viewing" /\ lock = t /\ lock' = "free" /\ t # "free"
      /\ at[t].wanted = Python!Content(at[t].op)
      /\ given' = [wanted |-> at[t].wanted, got |-> Python!Content(at[t].op)]
      /\ at' = [at EXCEPT ![t] = r]
      /\ UNCHANGED <<inside, alive, reason, view, buffered, records, memory, calls>>
  BY PythonAssumed DEF PythonInv, Locked, Viewed, Python!Text, Python!Leave, Python!Nobody, Python!library
<1>2. r.phase = "out" /\ r.seen = <<>> /\ given'.got = given'.wanted
  BY <1>1 DEF Python!Out
<1>3. /\ at' \in [Threads -> ThreadRecord] /\ at'[t] = r
      /\ \A u \in Threads : u # t => at'[u] = at[u]
  BY <1>1, OutRecord, OthersStay DEF PythonInv
<1> HIDE DEF r
<1>4. PythonType'
  BY <1>1, <1>3 DEF PythonInv, PythonType
<1>5. \A u \in Threads : u # t => Locked(u)' /\ Viewed(u)' /\ Copied(u)'
  BY <1>1, <1>3, OthersKeep
<1>6. Locked(t)' /\ Viewed(t)' /\ Copied(t)'
  BY <1>1, <1>2, <1>3 DEF PythonInv, Locked, Viewed, Copied
<1>7. Handed'
  BY <1>1, <1>2, <1>3, HandedStays
<1> QED BY <1>2, <1>4, <1>5, <1>6, <1>7 DEF PythonInv

\* A handle is taken from those nobody has.
LEMMA PythonTakes ==
  ASSUME PythonInv, NEW t \in Threads, Python!Takes(t)
  PROVE  PythonInv'
<1> DEFINE pending == Python!Pending(at[t].op)
<1>1. /\ at[t] \in ThreadRecord /\ at \in [Threads -> ThreadRecord] /\ memory \in [Handles -> Nat]
      /\ at[t].phase = "calling" /\ lock = t /\ inside' = inside \ {t} /\ t # "free"
      /\ alive' = alive /\ calls' = calls /\ lock' = "free" /\ reason' = 0
      /\ pending # <<>> /\ pending \in Seq(Nat \ {0})
      /\ UNCHANGED <<view, given>>
  BY PythonAssumed DEF PythonInv, PythonType, Locked, Python!Returning, Python!Takes, Python!Nobody,
     Python!Pending
<1>2. Head(pending) \in Nat \ {0}
  BY <1>1
<1>3. buffered' \in Seq(Nat \ {0}) /\ records' \in Seq(Nat \ {0})
  <2>1. Tail(pending) \in Seq(Nat \ {0})
    BY <1>1
  <2> QED BY <1>1, <2>1 DEF PythonInv, PythonType, Python!Takes, Python!Pending
<1>4. PICK h \in Handles :
        /\ memory[h] = 0
        /\ memory' = [memory EXCEPT ![h] = Head(pending)]
        /\ at' = [at EXCEPT ![t].phase = "copying", ![t].handle = h, ![t].wanted = Head(pending)]
  BY DEF Python!Takes
<1> DEFINE r == [at[t] EXCEPT !.phase = "copying", !.handle = h, !.wanted = Head(pending)]
<1> HIDE DEF pending
<1>5. /\ r \in ThreadRecord /\ r.phase = "copying" /\ r.handle = h /\ r.wanted = Head(pending)
      /\ r.seen = at[t].seen
  BY <1>1, <1>2, <1>4 DEF ThreadRecord, Phases
<1>6. at' = [at EXCEPT ![t] = r]
  BY <1>1, <1>4
<1>7. /\ at' \in [Threads -> ThreadRecord] /\ at'[t] = r
      /\ \A u \in Threads : u # t => at'[u] = at[u]
  BY <1>5, <1>6, OthersStay DEF PythonInv
<1> HIDE DEF r
<1>8. /\ memory' \in [Handles -> Nat] /\ memory'[h] = Head(pending)
      /\ \A k \in Handles : k # h => memory'[k] = memory[k]
  BY <1>1, <1>2, <1>4
<1>9. \A u \in Threads : u # t /\ at[u].phase = "copying" => at[u].handle \in Handles /\ at[u].handle # h
  BY <1>4 DEF PythonInv, Copied
<1>10. PythonType'
  BY <1>1, <1>3, <1>7, <1>8 DEF PythonInv, PythonType
<1>11. \A u \in Threads : u # t => Locked(u)' /\ Viewed(u)' /\ Copied(u)'
  BY <1>1, <1>7, <1>8, <1>9, OthersKeep
<1>12. at[t].seen = <<>>
  BY <1>1 DEF PythonInv, Locked
<1>13. Locked(t)' /\ Viewed(t)' /\ Copied(t)'
  BY <1>1, <1>2, <1>4, <1>5, <1>7, <1>8, <1>12 DEF PythonInv, Locked, Viewed, Copied
<1>14. Handed'
  BY <1>1, <1>4, <1>5, <1>7, <1>8, <1>9 DEF PythonInv, Handed, Holds
<1> QED BY <1>1, <1>10, <1>11, <1>13, <1>14 DEF PythonInv

LEMMA PythonCopy ==
  ASSUME PythonInv, NEW t \in Threads, Python!Copy(t)
  PROVE  PythonInv'
<1> DEFINE read == memory[at[t].handle]
           r == [at[t] EXCEPT !.seen = Append(@, read)]
<1>1. /\ at[t] \in ThreadRecord /\ at \in [Threads -> ThreadRecord] /\ memory \in [Handles -> Nat]
      /\ at[t].phase = "copying" /\ Copied(t) /\ Locked(t)
      /\ at[t].handle \in Handles /\ read = at[t].wanted /\ read \in Nat
      /\ \A i \in 1..Len(at[t].seen) : at[t].seen[i] = at[t].wanted
      /\ UNCHANGED <<lock, inside, alive, reason, view, buffered, records, memory, calls, given>>
  BY DEF PythonInv, PythonType, Copied, Python!Copy, Python!library
<1>2. at' = [at EXCEPT ![t] = r]
  BY <1>1 DEF Python!Copy
<1> HIDE DEF read
<1>3. at[t].seen \in Seq(Nat)
  BY <1>1 DEF ThreadRecord
<1>4. /\ Append(at[t].seen, read) \in Seq(Nat)
      /\ \A i \in 1..Len(Append(at[t].seen, read)) : Append(at[t].seen, read)[i] = at[t].wanted
  BY <1>1, <1>3
<1>5. /\ r \in ThreadRecord /\ r.phase = "copying" /\ r.handle = at[t].handle
      /\ r.wanted = at[t].wanted /\ r.seen = Append(at[t].seen, read)
  BY <1>1, <1>4 DEF ThreadRecord
<1>6. /\ at' \in [Threads -> ThreadRecord] /\ at'[t] = r
      /\ \A u \in Threads : u # t => at'[u] = at[u]
  BY <1>2, <1>5, OthersStay DEF PythonInv
<1> HIDE DEF r
<1>7. PythonType'
  BY <1>1, <1>6 DEF PythonInv, PythonType
<1>8. \A u \in Threads : u # t => Locked(u)' /\ Viewed(u)' /\ Copied(u)'
  BY <1>1, <1>6, OthersKeep
<1>9. Copied(t)'
  BY <1>1, <1>4, <1>5, <1>6 DEF Copied
<1>10. Locked(t)' /\ Viewed(t)'
  BY <1>1, <1>5, <1>6 DEF Locked, Viewed
<1>11. Handed'
  BY <1>1, <1>5, <1>6, HandedStays
<1> QED BY <1>1, <1>7, <1>8, <1>9, <1>10, <1>11 DEF PythonInv

\* A whole copy is what the frame was; the handle goes back either way.
LEMMA PythonRelease ==
  ASSUME PythonInv, NEW t \in Threads, Python!Release(t)
  PROVE  PythonInv'
<1> DEFINE whole == Len(at[t].seen) = Views
           again == [Python!Out EXCEPT !.phase = "waiting", !.op = at[t].op, !.loop = TRUE]
           r == IF whole /\ at[t].loop THEN again ELSE Python!Out
           h == at[t].handle
<1>1. /\ at[t] \in ThreadRecord /\ at \in [Threads -> ThreadRecord] /\ memory \in [Handles -> Nat]
      /\ at[t].phase = "copying" /\ Locked(t) /\ h \in Handles /\ alive
      /\ \A i \in 1..Len(at[t].seen) : at[t].seen[i] = at[t].wanted
      /\ memory' = [memory EXCEPT ![h] = 0] /\ at' = [at EXCEPT ![t] = r]
      /\ UNCHANGED <<lock, inside, alive, reason, view, buffered, records, calls>>
  BY DEF PythonInv, PythonType, Copied, Locked, Python!Release, Python!MemoryFreed
<1>2. at[t].op \in Ops /\ at[t].seen \in Seq(Nat) /\ at[t].wanted \in Nat
  BY <1>1 DEF ThreadRecord
<1>3. again \in ThreadRecord /\ again.phase = "waiting" /\ again.seen = <<>>
  <2>1. "waiting" \in Phases
    BY DEF Phases
  <2>2. again \in ThreadRecord
    BY <1>2, <2>1, OutRecord DEF ThreadRecord
  <2>3. Python!Out.seen = <<>> /\ Python!Out \in ThreadRecord
    BY OutRecord DEF Python!Out
  <2> QED BY <2>2, <2>3 DEF ThreadRecord
<1>4. r \in ThreadRecord /\ r.phase \in {"waiting", "out"} /\ r.seen = <<>>
  <2>1. Python!Out.phase = "out" /\ Python!Out.seen = <<>>
    BY DEF Python!Out
  <2> QED BY <1>3, <2>1, OutRecord
<1>5. given'.got = given'.wanted
  <2>1. CASE ~whole
    BY <2>1 DEF Python!Release, PythonInv
  <2>2. CASE whole
    <3>1. \A i \in 1..Views : at[t].seen[i] = at[t].wanted
      BY <1>1, <2>2
    <3>2. 1 \in 1..Views
      BY PythonAssumed
    <3>3. given' = [wanted |-> at[t].wanted,
                    got |-> IF \A i \in 1..Views : at[t].seen[i] = at[t].seen[1]
                            THEN at[t].seen[1] ELSE -1]
      BY <2>2 DEF Python!Release
    <3> QED BY <3>1, <3>2, <3>3
  <2> QED BY <2>1, <2>2
<1>6. /\ at' \in [Threads -> ThreadRecord] /\ at'[t] = r
      /\ \A u \in Threads : u # t => at'[u] = at[u]
  BY <1>1, <1>4, OthersStay DEF PythonInv
<1> HIDE DEF r, again, whole
<1>7. /\ memory' \in [Handles -> Nat] /\ memory'[h] = 0
      /\ \A k \in Handles : k # h => memory'[k] = memory[k]
  BY <1>1
<1>8. \A u \in Threads : u # t /\ at[u].phase = "copying" => at[u].handle \in Handles /\ at[u].handle # h
  BY <1>1 DEF PythonInv, Handed, Holds, Copied
<1>9. PythonType'
  BY <1>1, <1>6, <1>7 DEF PythonInv, PythonType
<1>10. \A u \in Threads : u # t => Locked(u)' /\ Viewed(u)' /\ Copied(u)'
  BY <1>1, <1>6, <1>7, <1>8, OthersKeep
<1>11. Locked(t)' /\ Viewed(t)' /\ Copied(t)'
  BY <1>1, <1>4, <1>6 DEF PythonInv, Locked, Viewed, Copied
<1>12. Handed'
  BY <1>1, <1>4, <1>6, <1>7, <1>8 DEF PythonInv, Handed, Holds
<1> QED BY <1>5, <1>9, <1>10, <1>11, <1>12 DEF PythonInv

\* The finalizer runs when no thread is in a method, if all are waited for.
LEMMA PythonFinalize ==
  ASSUME PythonInv, Daemons = {}, Python!Finalize
  PROVE  PythonInv'
<1>1. /\ \A t \in Threads : at[t].phase = "out"
      /\ UNCHANGED <<lock, at, inside, reason, view, buffered, records, memory, calls, given>>
      /\ alive' = FALSE
  BY DEF Python!Finalize
<1>2. PythonType'
  BY <1>1 DEF PythonInv, PythonType
<1>3. \A t \in Threads : Locked(t)' /\ Viewed(t)' /\ Copied(t)'
  BY <1>1 DEF PythonInv, Locked, Viewed, Copied, Python!Content
<1>4. Handed'
  BY <1>1 DEF PythonInv, Handed, Holds
<1> QED BY <1>1, <1>2, <1>3, <1>4 DEF PythonInv

\* The inductive step, one action at a time.
LEMMA PythonStep ==
  ASSUME PythonInv, Daemons = {}, [Python!Next]_(Python!vars)
  PROVE  PythonInv'
<1>1. CASE UNCHANGED Python!vars
  BY <1>1 DEF Python!vars, Python!library, PythonInv, PythonType, Locked, Viewed, Copied, Handed, Holds,
     Python!Content
<1>2. CASE \E t \in Threads :
        \/ \E op \in Python!Operations, loop \in BOOLEAN : Python!Enter(t, op, loop)
        \/ Python!Call(t) \/ Python!Fails(t) \/ Python!Opens(t) \/ Python!Closes(t)
        \/ Python!Pushes(t) \/ Python!Queries(t) \/ Python!Empty(t) \/ Python!Takes(t)
        \/ Python!Copy(t) \/ Python!Release(t) \/ Python!View(t) \/ Python!ViewReason(t)
        \/ Python!Text(t)
  BY <1>2, PythonEnter, PythonCall, PythonReturns, PythonKeeps, PythonTakes, PythonCopy,
     PythonRelease, PythonViewReason, PythonText
<1>3. CASE Python!Finalize
  BY <1>3, PythonFinalize
<1> QED BY <1>1, <1>2, <1>3 DEF Python!Next

\* The same operator, by the name the instance gives it.
LEMMA SameCardinality ==
  ASSUME NEW S
  PROVE  Python!Cardinality(S) = Cardinality(S)
  BY DEF Python!Cardinality, Cardinality

\* What the invariant says to a caller.
LEMMA PythonTells == PythonInv => EveryCallGetsItsOwn
<1> SUFFICES ASSUME PythonInv PROVE EveryCallGetsItsOwn
  OBVIOUS
<1>1. inside = {} \/ \E t \in Threads : inside = {t}
  BY SMTT(30) DEF PythonInv, PythonType, Locked
<1>2. Cardinality(inside) = 0 \/ Cardinality(inside) = 1
  BY <1>1, FS_EmptySet, FS_Singleton
<1>3. ~alive => inside = {}
  BY DEF PythonInv, PythonType, Locked
<1>4. ASSUME NEW h \in Handles
      PROVE  memory[h] # 0 <=>
               Cardinality({t \in Threads : at[t].phase = "copying" /\ at[t].handle = h}) = 1
  <2> DEFINE S == {t \in Threads : at[t].phase = "copying" /\ at[t].handle = h}
  <2>1. CASE memory[h] # 0
    <3>1. PICK t \in Threads : Holds(t, h)
      BY <2>1 DEF PythonInv, Handed
    <3>2. S = {t}
      BY <3>1 DEF PythonInv, Handed, Holds
    <3> QED BY <2>1, <3>2, FS_Singleton
  <2>2. CASE memory[h] = 0
    <3>1. S = {}
      BY <2>2 DEF PythonInv, Copied
    <3> QED BY <2>2, <3>1, FS_EmptySet
  <2> QED BY <2>1, <2>2
<1>5. Cardinality(inside) <= 1
  BY <1>2
<1> QED BY <1>3, <1>4, <1>5, SameCardinality
  DEF PythonInv, EveryCallGetsItsOwn, Python!EveryCallGetsItsOwn, Python!OneThreadInTheHandle

\* Whatever the threads interleave, each gets what its own call produced and no
\* two are in the library at once, while every thread is one the interpreter
\* waits for: with daemons the run MCPythonConnectorExit finds otherwise.
THEOREM CallersServed ==
  ASSUME Daemons = {}
  PROVE  Python!Spec => []EveryCallGetsItsOwn
<1>1. Python!Init => PythonInv
  BY PythonInit
<1>2. PythonInv /\ [Python!Next]_(Python!vars) => PythonInv'
  BY PythonStep
<1>3. PythonInv => EveryCallGetsItsOwn
  BY PythonTells
<1> QED BY <1>1, <1>2, <1>3, PTL DEF Python!Spec

(***************************************************************************)
(* OpenXR.  The body is kept beside the others only at their instant, and a    *)
(* frame of the body alone states the body's.                                  *)
(***************************************************************************)

\* A tracker a frame makes available is of the instant the frame states.
OfItsInstant(frame) ==
  \A i \in DOMAIN frame.trackers :
    frame.trackers[i].available => frame.trackers[i].instant = frame.instant

Whole(frame) == \A i \in DOMAIN frame.trackers : frame.trackers[i].whole

OpenXRInv ==
  /\ spaces \in Seq(STRING)
  /\ accepted \in Seq({accepted[n] : n \in DOMAIN accepted})
  /\ \A n \in DOMAIN accepted : OfItsInstant(accepted[n])
  /\ xrState = "Connected" => accepted # <<>> /\ Whole(accepted[Len(accepted)])

\* A frame appended: what held of the others holds still.
LEMMA AcceptedGrows ==
  ASSUME OpenXRInv, NEW frame, accepted' = Append(accepted, frame), OfItsInstant(frame),
         xrState' = "Connected" => Whole(frame), spaces' = spaces
  PROVE  OpenXRInv'
<1> DEFINE S == {accepted[n] : n \in DOMAIN accepted} \cup {frame}
<1>1. accepted \in Seq(S) /\ frame \in S
  BY DEF OpenXRInv
<1>2. /\ accepted' \in Seq(S) /\ Len(accepted') = Len(accepted) + 1 /\ Len(accepted) \in Nat
      /\ \A n \in 1..Len(accepted) : accepted'[n] = accepted[n]
      /\ accepted'[Len(accepted')] = frame /\ accepted' # <<>>
      /\ DOMAIN accepted' = 1..Len(accepted') /\ DOMAIN accepted = 1..Len(accepted)
  BY <1>1
<1>3. accepted' \in Seq({accepted'[n] : n \in DOMAIN accepted'})
  BY <1>2
<1>4. \A n \in DOMAIN accepted' : n \in DOMAIN accepted \/ n = Len(accepted')
  BY <1>2
<1>5. \A n \in DOMAIN accepted' : OfItsInstant(accepted'[n])
  BY <1>2, <1>4 DEF OpenXRInv
<1>6. xrState' = "Connected" => accepted' # <<>> /\ Whole(accepted'[Len(accepted')])
  BY <1>2
<1> QED BY <1>3, <1>5, <1>6 DEF OpenXRInv

\* The frame Acquire makes of the runtime's answers.
Answered(seen, time) == [i \in DOMAIN spaces |-> OpenXR!Observation(spaces[i], seen[i], time)]

BodyPose(others, time, bodySeen, active, bodyTime) ==
  OpenXR!Observation("body", IF active /\ OpenXR!BodyKept(others, time, bodyTime) THEN bodySeen
                             ELSE "invalid", bodyTime)

FrameOf(others, body, time, receive, active, bodyTime) ==
  [frameNumber |-> frameNumber + 1, receive |-> receive,
   instant |-> IF hasBody THEN OpenXR!Instant(others, time, active, bodyTime) ELSE time,
   trackers |-> IF hasBody THEN Append(others, body) ELSE others]

LEMMA AcquiredFrame ==
  ASSUME spaces \in Seq(STRING), NEW seen, NEW time, NEW receive, NEW bodySeen,
         NEW active \in BOOLEAN, NEW bodyTime, NEW others, others = Answered(seen, time)
  PROVE  OfItsInstant(FrameOf(others, BodyPose(others, time, bodySeen, active, bodyTime),
                              time, receive, active, bodyTime))
<1> DEFINE body == BodyPose(others, time, bodySeen, active, bodyTime)
           frame == FrameOf(others, body, time, receive, active, bodyTime)
           S == {others[i] : i \in DOMAIN spaces} \cup {body}
<1>1. others \in Seq(S) /\ body \in S /\ DOMAIN others = 1..Len(others) /\ Len(others) \in Nat
  BY DEF Answered
<1>2. \A i \in DOMAIN others : others[i].instant = time
  BY DEF Answered, OpenXR!Observation
<1>3. others # <<>> => frame.instant = time
  BY DEF OpenXR!Instant, FrameOf
<1>4. body.instant = bodyTime /\ (body.available => active /\ OpenXR!BodyKept(others, time, bodyTime))
  BY DEF OpenXR!Observation, BodyPose
<1>5. frame.trackers = IF hasBody THEN Append(others, body) ELSE others
  BY DEF FrameOf
<1>6. frame.instant = IF hasBody THEN OpenXR!Instant(others, time, active, bodyTime) ELSE time
  BY DEF FrameOf
<1> HIDE DEF body, frame, S
<1>7. ASSUME NEW i \in DOMAIN frame.trackers, frame.trackers[i].available
      PROVE  frame.trackers[i].instant = frame.instant
  <2>1. CASE ~hasBody
    BY <1>2, <1>5, <1>6, <1>7, <2>1
  <2>2. CASE hasBody
    <3>1. frame.trackers = Append(others, body)
      BY <1>5, <2>2
    <3>2. \/ i \in 1..Len(others) /\ frame.trackers[i] = others[i]
          \/ frame.trackers[i] = body
      BY <1>1, <1>7, <3>1
    <3>3. CASE i \in 1..Len(others) /\ frame.trackers[i] = others[i]
      <4>1. others # <<>>
        BY <1>1, <3>3
      <4> QED BY <1>1, <1>2, <1>3, <3>3, <4>1
    <3>4. CASE frame.trackers[i] = body
      BY <1>4, <1>6, <1>7, <2>2, <3>4 DEF OpenXR!BodyKept, OpenXR!Instant
    <3> QED BY <3>2, <3>3, <3>4
  <2> QED BY <2>1, <2>2
<1> QED BY <1>7 DEF OfItsInstant, frame, body

LEMMA OpenXRAcquire ==
  ASSUME OpenXRInv, OpenXR!Acquire
  PROVE  OpenXRInv'
<1>1. PICK time \in Times, receive \in Times, seen \in [DOMAIN spaces -> OpenXR!Seen],
           bodySeen \in OpenXR!Seen, active \in BOOLEAN, bodyTime \in Times \ {0} :
       /\ OpenXR!Advances(time, receive)
       /\ LET others == [i \in DOMAIN spaces |-> OpenXR!Observation(spaces[i], seen[i], time)]
              kept == active /\ OpenXR!BodyKept(others, time, bodyTime)
              body == OpenXR!Observation("body", IF kept THEN bodySeen ELSE "invalid", bodyTime)
              trackers == IF hasBody THEN Append(others, body) ELSE others
              frame == [frameNumber |-> frameNumber + 1, receive |-> receive,
                        instant |-> IF hasBody THEN OpenXR!Instant(others, time, active, bodyTime)
                                    ELSE time,
                        trackers |-> trackers]
              lacks == \/ \E i \in DOMAIN trackers : ~trackers[i].whole
                       \/ hasBody /\ active /\ bodyTime # time
          IN  /\ frames' = OpenXR!Pushed(frame)
              /\ accepted' = Append(accepted, frame)
              /\ diagnostics' = lacks
              /\ xrState' = IF lacks THEN "Degraded" ELSE "Connected"
       /\ lastTime' = time /\ xrReceive' = receive
  BY DEF OpenXR!Acquire
<1> DEFINE others == Answered(seen, time)
           frame == FrameOf(others, BodyPose(others, time, bodySeen, active, bodyTime),
                            time, receive, active, bodyTime)
<1>2. /\ accepted' = Append(accepted, frame)
      /\ xrState' = "Connected" => \A i \in DOMAIN frame.trackers : frame.trackers[i].whole
  BY <1>1 DEF Answered, BodyPose, FrameOf
<1>3. spaces' = spaces /\ spaces \in Seq(STRING)
  BY DEF OpenXR!Acquire, OpenXR!Acquiring, OpenXR!input, OpenXRInv
<1>4. OfItsInstant(frame)
  BY <1>3, AcquiredFrame
<1> HIDE DEF frame
<1> QED BY <1>2, <1>3, <1>4, AcceptedGrows DEF Whole

LEMMA OpenXRInit == OpenXR!Init => OpenXRInv
<1> SUFFICES ASSUME OpenXR!Init PROVE OpenXRInv
  OBVIOUS
<1>1. spaces \in Seq(STRING)
  BY FrontendAssumptions DEF OpenXR!Init, OpenXR!InitOf, OpenXR!ConstantsAssumption
<1>2. accepted = <<>> /\ xrState = "Disconnected"
  BY DEF OpenXR!Init, OpenXR!InitOf
<1> QED BY <1>1, <1>2 DEF OpenXRInv

LEMMA OpenXRStep ==
  ASSUME OpenXRInv, [OpenXR!Next]_(OpenXR!vars)
  PROVE  OpenXRInv'
<1>1. CASE spaces' = spaces /\ accepted' = <<>> /\ xrState' # "Connected"
  BY <1>1 DEF OpenXRInv
<1>2. CASE UNCHANGED <<spaces, accepted>> /\ xrState' \in {xrState, "Disconnected", "Degraded", "Error"}
  BY <1>2 DEF OpenXRInv
<1>3. CASE OpenXR!Acquire
  BY <1>3, OpenXRAcquire
<1>4. CASE OpenXR!Open \/ OpenXR!OpenFails
  BY <1>1, <1>4 DEF OpenXR!Open, OpenXR!OpenFails, OpenXR!Fresh, OpenXR!input
<1>5. CASE OpenXR!Close \/ OpenXR!Poll \/ UNCHANGED OpenXR!vars
  BY <1>2, <1>5 DEF OpenXR!Close, OpenXR!Poll, OpenXR!vars, OpenXR!input
<1>6. CASE OpenXR!AcquireRefused \/ OpenXR!AcquireFails
  BY <1>2, <1>6 DEF OpenXR!AcquireRefused, OpenXR!AcquireFails, OpenXR!Refuse, OpenXR!Acquiring, OpenXR!input
<1> QED BY <1>3, <1>4, <1>5, <1>6 DEF OpenXR!Next

\* Every pose a frame makes available is of the instant the frame states, and a
\* connector that says Connected has accepted a frame in which all is whole,
\* for every configuration, every clock and whatever the runtime answers.
THEOREM InstantsAgree == OpenXR!Spec => []FramesDescribeOneInstant
<1>1. OpenXR!Init => OpenXRInv
  BY OpenXRInit
<1>2. OpenXRInv /\ [OpenXR!Next]_(OpenXR!vars) => OpenXRInv'
  BY OpenXRStep
<1>3. OpenXRInv => FramesDescribeOneInstant
  BY DEF OpenXRInv, OfItsInstant, Whole, FramesDescribeOneInstant, OpenXR!FramesDescribeOneInstant
<1> QED BY <1>1, <1>2, <1>3, PTL DEF OpenXR!Spec

(***************************************************************************)
(* WebXR.  Ids are given in order and never twice, so they count the inputs    *)
(* that have one; frames are numbered as they are acquired, and the queue is   *)
(* the end of the epoch.                                                       *)
(***************************************************************************)

Trackers == UNION {[S -> Nat] : S \in SUBSET Inputs}

WebFrames == [number : Nat, source : Nat, receive : Nat, trackers : Trackers]

WebStats == [pushed : Nat, polled : Nat, dropped : Nat, skipped : Nat, rejected : Nat]

WebType ==
  /\ ids \in [Inputs -> Nat] /\ nextId \in Nat
  /\ acquired \in Seq(WebFrames) /\ queue \in Seq(WebFrames) /\ stats \in WebStats
  /\ number \in Nat /\ lastSource \in Int /\ lastReceive \in Int /\ capacity \in Nat \ {0}

\* No two inputs have one id.
Distinguished(table, last) ==
  /\ \A i, j \in Inputs : table[i] # 0 /\ table[i] = table[j] => i = j
  /\ \A i \in Inputs : table[i] <= last

\* What a frame called an input is the input's id still.
Called ==
  \A a \in DOMAIN acquired : \A i \in DOMAIN acquired[a].trackers :
    i \in Inputs /\ acquired[a].trackers[i] = ids[i] /\ ids[i] # 0

\* Frames are numbered and timed as they came, and the clocks are the last one's.
Timed ==
  /\ number = Len(acquired)
  /\ \A a \in DOMAIN acquired : acquired[a].number = a
  /\ \A a \in 1..(Len(acquired) - 1) :
       /\ acquired[a].source < acquired[a + 1].source
       /\ acquired[a].receive <= acquired[a + 1].receive
  /\ acquired = <<>> => lastSource = -1 /\ lastReceive = -1
  /\ acquired # <<>> => /\ lastSource = acquired[Len(acquired)].source
                        /\ lastReceive = acquired[Len(acquired)].receive

\* The last of `whole` are those of `tail`.
EndOf(tail, whole) ==
  /\ Len(tail) <= Len(whole)
  /\ \A k \in 1..Len(tail) : tail[k] = whole[Len(whole) - Len(tail) + k]

Accounted ==
  /\ state # "disconnected" => Len(acquired) = stats.polled + stats.dropped + Len(queue)
  /\ attached => state # "disconnected"

WebInv ==
  /\ WebType /\ Distinguished(ids, nextId) /\ Called /\ Timed
  /\ EndOf(queue, acquired) /\ Accounted

LEMMA SuffixIsEnd ==
  ASSUME NEW S, NEW tail \in Seq(S), NEW whole \in Seq(S), EndOf(tail, whole)
  PROVE  WebXR!IsSuffix(tail, whole)
<1> DEFINE r == WebXR!Reverse(tail)
           w == WebXR!Reverse(whole)
<1>1. r = [i \in 1..Len(tail) |-> tail[(Len(tail) - i) + 1]] /\ Len(tail) \in Nat
  BY DEF WebXR!Reverse
<1>2. w = [i \in 1..Len(whole) |-> whole[(Len(whole) - i) + 1]] /\ Len(whole) \in Nat
  BY DEF WebXR!Reverse
<1>3. \A i \in 1..Len(tail) : tail[(Len(tail) - i) + 1] = whole[(Len(whole) - i) + 1]
  <2> SUFFICES ASSUME NEW i \in 1..Len(tail)
               PROVE  tail[(Len(tail) - i) + 1] = whole[(Len(whole) - i) + 1]
    OBVIOUS
  <2>1. (Len(tail) - i) + 1 \in 1..Len(tail)
    BY <1>1
  <2>2. Len(whole) - Len(tail) + ((Len(tail) - i) + 1) = (Len(whole) - i) + 1
    BY <1>1, <1>2
  <2> QED BY <2>1, <2>2, SMTT(30) DEF EndOf
<1>4. r \in Seq(S) /\ Len(r) = Len(tail) /\ w \in Seq(S) /\ Len(w) = Len(whole)
  BY <1>1, <1>2
<1>5. Len(tail) <= Len(whole) /\ \A i \in 1..Len(tail) : r[i] = w[i]
  BY <1>1, <1>2, <1>3 DEF EndOf
<1> HIDE DEF r, w
<1>6. SubSeq(r, 1, Len(r)) = SubSeq(w, 1, Len(r))
  <2>1. /\ SubSeq(r, 1, Len(r)) \in Seq(S) /\ Len(SubSeq(r, 1, Len(r))) = Len(r)
        /\ \A i \in 1..Len(r) : SubSeq(r, 1, Len(r))[i] = r[i]
    BY <1>4
  <2>2. /\ SubSeq(w, 1, Len(r)) \in Seq(S) /\ Len(SubSeq(w, 1, Len(r))) = Len(r)
        /\ \A i \in 1..Len(r) : SubSeq(w, 1, Len(r))[i] = w[i]
    BY <1>1, <1>4, <1>5
  <2> QED BY <1>4, <1>5, <2>1, <2>2
<1> QED BY <1>4, <1>5, <1>6 DEF WebXR!IsSuffix, WebXR!IsPrefix, r, w

LEMMA SameWebCardinality ==
  ASSUME NEW S
  PROVE  WebXR!Cardinality(S) = Cardinality(S)
  BY DEF WebXR!Cardinality, Cardinality

\* New names: those without one among the first n.
Nameless(seen, n) == {i \in 1..n : ids[seen[i]] = 0}

LEMMA NamelessFinite ==
  ASSUME NEW seen, NEW n \in Nat
  PROVE  /\ IsFiniteSet(Nameless(seen, n))
         /\ Cardinality(Nameless(seen, n)) \in Nat
<1>1. IsFiniteSet(1..n) /\ Nameless(seen, n) \in SUBSET (1..n)
  <2>1. 1 \in Int /\ n \in Int
    OBVIOUS
  <2> QED BY <2>1, FS_Interval DEF Nameless
<1>2. IsFiniteSet(Nameless(seen, n))
  BY <1>1, FS_Subset
<1> QED BY <1>2, FS_CardinalityType

\* The number of the nameless grows with each of them.
LEMMA NamelessGrow ==
  ASSUME NEW seen, NEW m \in Nat, NEW n \in Nat, m <= n
  PROVE  /\ Cardinality(Nameless(seen, m)) <= Cardinality(Nameless(seen, n))
         /\ m < n /\ ids[seen[n]] = 0 => Cardinality(Nameless(seen, m)) < Cardinality(Nameless(seen, n))
<1>1. Nameless(seen, m) \in SUBSET Nameless(seen, n)
  BY DEF Nameless
<1>2. /\ IsFiniteSet(Nameless(seen, n)) /\ Cardinality(Nameless(seen, n)) \in Nat
      /\ Cardinality(Nameless(seen, m)) \in Nat
  BY NamelessFinite
<1>3. /\ Cardinality(Nameless(seen, m)) <= Cardinality(Nameless(seen, n))
      /\ Cardinality(Nameless(seen, n)) = Cardinality(Nameless(seen, m))
           => Nameless(seen, n) = Nameless(seen, m)
  BY <1>1, <1>2, FS_Subset
<1>4. ASSUME m < n, ids[seen[n]] = 0
      PROVE  n \in Nameless(seen, n) /\ n \notin Nameless(seen, m)
  BY <1>4 DEF Nameless
<1> QED BY <1>2, <1>3, <1>4

\* What Name makes of the table: whatever had an id keeps it, whatever is seen
\* has one, and no two are one.
LEMMA NameNames ==
  ASSUME WebType, Distinguished(ids, nextId),
         NEW seen \in Seq(Inputs), \A i, j \in DOMAIN seen : seen[i] = seen[j] => i = j,
         WebXR!Name(seen)
  PROVE  /\ ids' \in [Inputs -> Nat] /\ nextId' \in Nat
         /\ Distinguished(ids', nextId')
         /\ \A i \in Inputs : ids[i] # 0 => ids'[i] = ids[i]
         /\ \A k \in DOMAIN seen : ids'[seen[k]] # 0
<1> DEFINE place(input) == CHOOSE i \in DOMAIN seen : seen[i] = input
           count(n) == Cardinality(Nameless(seen, n))
           news == {i \in Inputs : (\E k \in DOMAIN seen : seen[k] = i) /\ ids[i] = 0}
<1>1. /\ ids' = [i \in Inputs |-> IF i \in news THEN nextId + count(place(i)) ELSE ids[i]]
      /\ nextId' = nextId + count(Len(seen))
  BY SameWebCardinality DEF WebXR!Name, WebXR!Range, Nameless
<1>2. DOMAIN seen = 1..Len(seen) /\ Len(seen) \in Nat /\ ids \in [Inputs -> Nat] /\ nextId \in Nat
  BY DEF WebType
<1>3. \A i \in news : place(i) \in 1..Len(seen) /\ seen[place(i)] = i
  BY <1>2
<1>4. \A n \in Nat : count(n) \in Nat
  BY NamelessFinite
<1> HIDE DEF place
<1>5. \A m, n \in Nat : /\ m <= n => count(m) <= count(n)
                        /\ m < n /\ ids[seen[n]] = 0 => count(m) < count(n)
  BY NamelessGrow
<1> HIDE DEF count
<1>6. \A i \in news : 0 < count(place(i)) /\ count(place(i)) <= count(Len(seen))
  <2> SUFFICES ASSUME NEW i \in news
               PROVE  0 < count(place(i)) /\ count(place(i)) <= count(Len(seen))
    OBVIOUS
  <2>1. place(i) \in Nat /\ 0 < place(i) /\ place(i) <= Len(seen) /\ ids[seen[place(i)]] = 0 /\ 0 \in Nat
    BY <1>2, <1>3
  <2>2. count(0) < count(place(i)) /\ count(0) \in Nat /\ count(place(i)) \in Nat
    BY <1>4, <1>5, <2>1
  <2>3. count(place(i)) <= count(Len(seen))
    BY <1>2, <1>5, <2>1
  <2> QED BY <2>2, <2>3
<1>7. \A i, j \in news : count(place(i)) = count(place(j)) => i = j
  <2> SUFFICES ASSUME NEW i \in news, NEW j \in news, i # j
               PROVE  count(place(i)) # count(place(j))
    OBVIOUS
  <2>1. /\ place(i) \in Nat /\ place(j) \in Nat /\ place(i) # place(j)
        /\ ids[seen[place(i)]] = 0 /\ ids[seen[place(j)]] = 0
    BY <1>2, <1>3
  <2>2. count(place(i)) \in Nat /\ count(place(j)) \in Nat
    BY <1>4, <2>1
  <2>3. CASE place(i) < place(j)
    <3>1. count(place(i)) < count(place(j))
      BY <1>5, <2>1, <2>3
    <3> QED BY <2>2, <3>1
  <2>4. CASE place(j) < place(i)
    <3>1. count(place(j)) < count(place(i))
      BY <1>5, <2>1, <2>4
    <3> QED BY <2>2, <3>1
  <2> QED BY <2>1, <2>3, <2>4
<1>8. \A i \in Inputs : IF i \in news THEN ids'[i] = nextId + count(place(i)) ELSE ids'[i] = ids[i]
  BY <1>1
<1>9. \A i \in news : count(place(i)) \in Nat
  <2> SUFFICES ASSUME NEW i \in news PROVE count(place(i)) \in Nat
    OBVIOUS
  <2> HIDE DEF news
  <2>1. place(i) \in Nat
    BY <1>2, <1>3
  <2> QED BY <1>4, <2>1
<1>10. nextId' \in Nat /\ count(Len(seen)) \in Nat
  <2>1. count(Len(seen)) \in Nat /\ nextId' = nextId + count(Len(seen))
    BY <1>1, <1>2, <1>4
  <2> HIDE DEF news
  <2> QED BY <1>2, <2>1
<1>11. ids' \in [Inputs -> Nat]
  BY <1>1, <1>2, <1>9
<1>12. \A i \in Inputs : ids[i] # 0 => ids'[i] = ids[i]
  BY <1>8
<1>13. \A k \in DOMAIN seen : ids'[seen[k]] # 0
  <2> SUFFICES ASSUME NEW k \in DOMAIN seen PROVE ids'[seen[k]] # 0
    OBVIOUS
  <2>1. seen[k] \in Inputs
    OBVIOUS
  <2>2. CASE ids[seen[k]] # 0
    BY <1>12, <2>1, <2>2
  <2>3. CASE ids[seen[k]] = 0
    <3>1. seen[k] \in news
      BY <2>1, <2>3
    <3> HIDE DEF news
    <3> QED BY <1>2, <1>6, <1>8, <1>9, <2>1, <3>1
  <2> QED BY <2>2, <2>3
<1>14. \A i \in Inputs : ids'[i] <= nextId'
  <2> SUFFICES ASSUME NEW i \in Inputs PROVE ids'[i] <= nextId'
    OBVIOUS
  <2>1. ids[i] \in Nat /\ ids[i] <= nextId
    BY <1>2 DEF Distinguished
  <2>2. CASE i \in news
    BY <1>1, <1>2, <1>6, <1>8, <1>9, <1>10, <2>2
  <2>3. CASE i \notin news
    BY <1>1, <1>2, <1>8, <1>10, <2>1, <2>3
  <2> QED BY <2>2, <2>3
<1>15. \A i, j \in Inputs : ids'[i] # 0 /\ ids'[i] = ids'[j] => i = j
  <2> SUFFICES ASSUME NEW i \in Inputs, NEW j \in Inputs, ids'[i] # 0, ids'[i] = ids'[j]
               PROVE  i = j
    OBVIOUS
  <2>1. /\ ids[i] \in Nat /\ ids[i] <= nextId /\ ids[j] \in Nat /\ ids[j] <= nextId
    BY <1>2 DEF Distinguished
  <2> HIDE DEF news
  <2>2. CASE i \in news /\ j \in news
    BY <1>2, <1>7, <1>8, <1>9, <2>2
  <2>3. CASE i \in news /\ j \notin news
    BY <1>2, <1>6, <1>8, <1>9, <2>1, <2>3
  <2>4. CASE i \notin news /\ j \in news
    BY <1>2, <1>6, <1>8, <1>9, <2>1, <2>4
  <2>5. CASE i \notin news /\ j \notin news
    BY <1>8, <2>5 DEF Distinguished
  <2> QED BY <2>2, <2>3, <2>4, <2>5
<1> QED BY <1>10, <1>11, <1>12, <1>13, <1>14, <1>15 DEF Distinguished

LEMMA InputSourcesAre ==
  ASSUME NEW inputs \in WebXR!InputSources
  PROVE  /\ inputs \in Seq(Inputs)
         /\ \A i, j \in DOMAIN inputs : inputs[i] = inputs[j] => i = j
<1>1. WebXR!Cardinality(Inputs) \in Nat
  <2>1. IsFiniteSet(Inputs)
    BY FrontendAssumptions DEF WebXR!ConstantsAssumption, WebXR!IsFiniteSet, IsFiniteSet
  <2> QED BY <2>1, FS_CardinalityType, SameWebCardinality
<1>2. PICK n \in 0..WebXR!Cardinality(Inputs) :
        inputs \in [1..n -> Inputs] /\ WebXR!IsInjective(inputs)
  BY DEF WebXR!InputSources
<1>3. n \in Nat
  BY <1>1
<1> QED BY <1>2, <1>3 DEF WebXR!IsInjective

\* An acquisition that names what it comes to, whatever becomes of it.
LEMMA AcquisitionNames ==
  ASSUME WebInv, NEW inputs \in WebXR!InputSources,
         WebXR!Name(inputs) \/ (Len(inputs) > InputLimit /\ WebXR!Name(SubSeq(inputs, 1, InputLimit)))
  PROVE  /\ ids' \in [Inputs -> Nat] /\ nextId' \in Nat /\ Distinguished(ids', nextId')
         /\ \A i \in Inputs : ids[i] # 0 => ids'[i] = ids[i]
         /\ WebXR!Name(inputs) => \A k \in DOMAIN inputs : ids'[inputs[k]] # 0
<1>1. inputs \in Seq(Inputs) /\ \A i, j \in DOMAIN inputs : inputs[i] = inputs[j] => i = j
  BY InputSourcesAre
<1>2. WebType /\ Distinguished(ids, nextId)
  BY DEF WebInv
<1>3. CASE WebXR!Name(inputs)
  BY <1>1, <1>2, <1>3, NameNames
<1>4. CASE ~WebXR!Name(inputs)
  <2> DEFINE few == SubSeq(inputs, 1, InputLimit)
  <2>1. InputLimit \in Nat /\ Len(inputs) > InputLimit /\ WebXR!Name(few)
    BY <1>4, FrontendAssumptions DEF WebXR!ConstantsAssumption
  <2>2. few \in Seq(Inputs) /\ DOMAIN few = 1..InputLimit /\ \A i \in 1..InputLimit : few[i] = inputs[i]
    BY <1>1, <2>1
  <2> HIDE DEF few
  <2>3. \A i \in 1..InputLimit : i \in DOMAIN inputs
    BY <1>1, <2>1
  <2>4. \A i, j \in DOMAIN few : few[i] = few[j] => i = j
    BY <1>1, <2>2, <2>3
  <2>5. /\ ids' \in [Inputs -> Nat] /\ nextId' \in Nat /\ Distinguished(ids', nextId')
        /\ \A i \in Inputs : ids[i] # 0 => ids'[i] = ids[i]
    BY <1>2, <2>1, <2>2, <2>4, NameNames
  <2> QED BY <1>4, <2>5
<1> QED BY <1>3, <1>4

\* The table that grows calls the inputs of old frames what they were called.
LEMMA CalledStill ==
  ASSUME WebInv, acquired' = acquired, \A i \in Inputs : ids[i] # 0 => ids'[i] = ids[i]
  PROVE  Called'
  BY DEF WebInv, Called

\* A step that acquires nothing and leaves the queue and the clocks.
LEMMA WebRefusal ==
  ASSUME WebInv, UNCHANGED <<acquired, queue, number, lastSource, lastReceive, attached, capacity>>,
         ids' \in [Inputs -> Nat], nextId' \in Nat, Distinguished(ids', nextId'),
         \A i \in Inputs : ids[i] # 0 => ids'[i] = ids[i],
         stats' \in WebStats, stats'.polled = stats.polled, stats'.dropped = stats.dropped,
         state' # "disconnected" /\ (state # "disconnected" \/ attached)
  PROVE  WebInv'
<1>1. WebType'
  BY DEF WebInv, WebType
<1>2. Called'
  BY CalledStill
<1>3. Timed'
  BY DEF WebInv, Timed
<1>4. EndOf(queue, acquired)' /\ Accounted'
  BY DEF WebInv, EndOf, Accounted
<1> QED BY <1>1, <1>2, <1>3, <1>4 DEF WebInv

LEMMA WebStatsRejected ==
  ASSUME stats \in WebStats
  PROVE  LET more == [stats EXCEPT !.rejected = @ + 1]
         IN  more \in WebStats /\ more.polled = stats.polled /\ more.dropped = stats.dropped
  BY DEF WebStats

LEMMA WebStatsPolled ==
  ASSUME stats \in WebStats
  PROVE  LET more == [stats EXCEPT !.polled = @ + 1]
         IN  more \in WebStats /\ more.polled = stats.polled + 1 /\ more.dropped = stats.dropped
  BY DEF WebStats

LEMMA WebStatsPushed ==
  ASSUME stats \in WebStats, NEW lost \in Nat
  PROVE  LET more == [stats EXCEPT !.pushed = @ + 1, !.dropped = @ + lost, !.skipped = @ + lost]
         IN  more \in WebStats /\ more.polled = stats.polled /\ more.dropped = stats.dropped + lost
<1> DEFINE one == [stats EXCEPT !.pushed = @ + 1]
           two == [one EXCEPT !.dropped = @ + lost]
           three == [two EXCEPT !.skipped = @ + lost]
<1>1. one \in WebStats /\ one.polled = stats.polled /\ one.dropped = stats.dropped
  BY DEF WebStats
<1> HIDE DEF one
<1>2. two \in WebStats /\ two.polled = stats.polled /\ two.dropped = stats.dropped + lost
  BY <1>1 DEF WebStats
<1> HIDE DEF two
<1>3. three \in WebStats /\ three.polled = stats.polled /\ three.dropped = stats.dropped + lost
  BY <1>2 DEF WebStats
<1>4. three = [stats EXCEPT !.pushed = @ + 1, !.dropped = @ + lost, !.skipped = @ + lost]
  BY DEF one, two, three, WebStats
<1> QED BY <1>3, <1>4

LEMMA WebRefused ==
  ASSUME WebInv, WebXR!AcquireRefused \/ WebXR!SessionEnds \/ WebXR!ReferenceSpaceReset
  PROVE  WebInv'
<1>1. /\ ids \in [Inputs -> Nat] /\ nextId \in Nat /\ Distinguished(ids, nextId) /\ stats \in WebStats
      /\ (attached => state # "disconnected")
  BY DEF WebInv, WebType, Accounted
<1>2. CASE WebXR!SessionEnds
  <2>1. CASE attached
    BY <1>1, <1>2, <2>1, WebRefusal DEF WebXR!SessionEnds, WebXR!clock, WebXR!naming
  <2>2. CASE ~attached
    BY <1>2, <2>2 DEF WebXR!SessionEnds, WebXR!clock, WebXR!naming,
       WebInv, WebType, Called, Timed, EndOf, Accounted
  <2> QED BY <2>1, <2>2
<1>3. CASE WebXR!ReferenceSpaceReset
  BY <1>1, <1>3, WebRefusal DEF WebXR!ReferenceSpaceReset, WebXR!clock, WebXR!naming, WebXR!session
<1>4. CASE WebXR!AcquireBadTime
  BY <1>1, <1>4, WebRefusal DEF WebXR!AcquireBadTime, WebXR!Acquiring, WebXR!Refuse, WebXR!clock,
     WebXR!naming, WebXR!session
<1>5. CASE WebXR!AcquireFull
  BY <1>1, <1>5, WebRefusal, WebStatsRejected DEF WebXR!AcquireFull, WebXR!Acquiring, WebXR!Refuse,
     WebXR!clock, WebXR!naming, WebXR!session
<1>6. CASE WebXR!AcquireInputLimit
  <2>1. PICK inputs \in WebXR!InputSources :
          Len(inputs) > InputLimit /\ WebXR!Name(SubSeq(inputs, 1, InputLimit))
    BY <1>6 DEF WebXR!AcquireInputLimit
  <2>2. /\ ids' \in [Inputs -> Nat] /\ nextId' \in Nat /\ Distinguished(ids', nextId')
        /\ \A i \in Inputs : ids[i] # 0 => ids'[i] = ids[i]
    BY <2>1, AcquisitionNames
  <2> QED BY <1>1, <1>6, <2>2, WebRefusal DEF WebXR!AcquireInputLimit, WebXR!Acquiring, WebXR!Refuse,
          WebXR!clock, WebXR!session
<1>7. CASE WebXR!AcquireThrows
  <2>1. PICK inputs \in WebXR!InputSources : WebXR!Name(inputs)
    BY <1>7 DEF WebXR!AcquireThrows
  <2>2. /\ ids' \in [Inputs -> Nat] /\ nextId' \in Nat /\ Distinguished(ids', nextId')
        /\ \A i \in Inputs : ids[i] # 0 => ids'[i] = ids[i]
    BY <2>1, AcquisitionNames
  <2> QED BY <1>1, <1>7, <2>2, WebRefusal DEF WebXR!AcquireThrows, WebXR!Acquiring, WebXR!Refuse,
          WebXR!clock, WebXR!session
<1> QED BY <1>2, <1>3, <1>4, <1>5, <1>6, <1>7 DEF WebXR!AcquireRefused

\* An epoch begins: nothing is acquired and nobody has an id.
LEMMA WebFresh ==
  ASSUME ids' = [input \in Inputs |-> 0], nextId' = 0, acquired' = <<>>, queue' = <<>>,
         stats' = WebXR!NoStats, number' = 0, lastSource' = -1, lastReceive' = -1,
         capacity' \in Nat \ {0}, attached' => state' # "disconnected"
  PROVE  WebInv'
<1>1. stats' \in WebStats /\ stats'.polled = 0 /\ stats'.dropped = 0
  BY DEF WebStats, WebXR!NoStats
<1>2. acquired' \in Seq(WebFrames) /\ queue' \in Seq(WebFrames) /\ Len(acquired') = 0 /\ Len(queue') = 0
  OBVIOUS
<1>3. WebType'
  BY <1>1, <1>2 DEF WebType
<1>4. Distinguished(ids, nextId)'
  BY DEF Distinguished
<1>5. Called' /\ Timed' /\ EndOf(queue, acquired)'
  BY <1>2 DEF Called, Timed, EndOf
<1>6. Accounted'
  BY <1>1, <1>2 DEF Accounted
<1> QED BY <1>3, <1>4, <1>5, <1>6 DEF WebInv

LEMMA WebOpens ==
  ASSUME WebInv, WebXR!Open \/ WebXR!OpenRefused
  PROVE  WebInv'
<1>1. capacity' \in Nat \ {0} /\ (attached' => state' # "disconnected")
  BY FrontendAssumptions DEF WebXR!Open, WebXR!OpenRefused, WebXR!ConstantsAssumption, WebInv, WebType
<1> QED BY <1>1, WebFresh DEF WebXR!Open, WebXR!OpenRefused, WebXR!Forget, WebXR!None

LEMMA WebInit == WebXR!Init => WebInv
<1> SUFFICES ASSUME WebXR!Init PROVE WebInv
  OBVIOUS
<1>1. /\ stats \in WebStats /\ acquired = <<>> /\ queue = <<>> /\ Len(acquired) = 0 /\ Len(queue) = 0
      /\ acquired \in Seq(WebFrames) /\ queue \in Seq(WebFrames)
  BY DEF WebXR!Init, WebXR!NoStats, WebStats
<1>2. WebType
  BY <1>1 DEF WebXR!Init, WebXR!None, WebType
<1>3. Distinguished(ids, nextId) /\ Called /\ Timed /\ EndOf(queue, acquired) /\ Accounted
  BY <1>1 DEF WebXR!Init, WebXR!None, Distinguished, Called, Timed, EndOf, Accounted
<1> QED BY <1>2, <1>3 DEF WebInv

\* Polling takes from the front, closing takes all: what is left is the end.
LEMMA WebTakes ==
  ASSUME WebInv, WebXR!Poll \/ WebXR!Close
  PROVE  WebInv'
<1>1. /\ queue \in Seq(WebFrames) /\ acquired \in Seq(WebFrames) /\ stats \in WebStats
      /\ Len(queue) \in Nat /\ Len(acquired) \in Nat
  BY DEF WebInv, WebType
<1>2. CASE WebXR!Poll
  <2>1. /\ queue # <<>> /\ queue' = Tail(queue) /\ stats' = [stats EXCEPT !.polled = @ + 1]
        /\ UNCHANGED <<attached, state, capacity, number, lastSource, lastReceive, ids, nextId, acquired>>
    BY <1>2 DEF WebXR!Poll, WebXR!session, WebXR!clock, WebXR!naming
  <2>2. /\ Tail(queue) \in Seq(WebFrames) /\ Len(Tail(queue)) = Len(queue) - 1
        /\ \A k \in 1..Len(Tail(queue)) : Tail(queue)[k] = queue[k + 1]
    BY <1>1, <2>1
  <2>3. stats' \in WebStats /\ stats'.polled = stats.polled + 1 /\ stats'.dropped = stats.dropped
    BY <1>1, <2>1, WebStatsPolled
  <2>4. stats.polled \in Nat /\ stats.dropped \in Nat
    BY <1>1 DEF WebStats
  <2>5. WebType'
    BY <2>1, <2>2, <2>3 DEF WebInv, WebType
  <2>6. EndOf(queue, acquired)'
    <3>1. Len(queue) <= Len(acquired) /\ \A k \in 1..Len(queue) : queue[k] = acquired[Len(acquired) - Len(queue) + k]
      BY DEF WebInv, EndOf
    <3>2. ASSUME NEW k \in 1..Len(Tail(queue))
          PROVE  Tail(queue)[k] = acquired[Len(acquired) - Len(Tail(queue)) + k]
      <4>1. k + 1 \in 1..Len(queue)
        BY <1>1, <2>2
      <4>2. Len(acquired) - Len(queue) + (k + 1) = Len(acquired) - Len(Tail(queue)) + k
        BY <1>1, <2>2
      <4> QED BY <2>2, <3>1, <4>1, <4>2
    <3> QED BY <1>1, <2>1, <2>2, <3>1, <3>2 DEF EndOf
  <2>7. Accounted'
    BY <1>1, <2>1, <2>2, <2>3, <2>4 DEF WebInv, Accounted
  <2>8. Distinguished(ids, nextId)' /\ Called' /\ Timed'
    BY <2>1 DEF WebInv, Distinguished, Called, Timed
  <2> QED BY <2>5, <2>6, <2>7, <2>8 DEF WebInv
<1>3. CASE WebXR!Close
  <2>1. /\ queue' = <<>> /\ state' = "disconnected" /\ attached' = FALSE
        /\ UNCHANGED <<capacity, number, lastSource, lastReceive, ids, nextId, acquired, stats>>
    BY <1>3 DEF WebXR!Close, WebXR!clock, WebXR!naming
  <2>2. queue' \in Seq(WebFrames) /\ Len(queue') = 0
    BY <2>1
  <2>3. WebType' /\ Distinguished(ids, nextId)' /\ Called' /\ Timed' /\ Accounted'
    BY <2>1, <2>2 DEF WebInv, WebType, Distinguished, Called, Timed, Accounted
  <2>4. EndOf(queue, acquired)'
    BY <1>1, <2>1, <2>2 DEF EndOf
  <2> QED BY <2>3, <2>4 DEF WebInv
<1> QED BY <1>2, <1>3

\* The room a mode makes leaves the newest.
LEMMA PushedIsEnd ==
  ASSUME WebType, EndOf(queue, acquired), NEW frame \in WebFrames, ~WebXR!Full
  PROVE  LET pushed == WebXR!Pushed(frame)
         IN  /\ pushed \in Seq(WebFrames) /\ Len(pushed) \in Nat /\ Len(pushed) <= Len(queue) + 1
             /\ EndOf(pushed, Append(acquired, frame))
<1> DEFINE pushed == WebXR!Pushed(frame)
           longer == Append(acquired, frame)
<1> SUFFICES /\ pushed \in Seq(WebFrames) /\ Len(pushed) \in Nat /\ Len(pushed) <= Len(queue) + 1
             /\ EndOf(pushed, longer)
  OBVIOUS
<1>1. /\ queue \in Seq(WebFrames) /\ acquired \in Seq(WebFrames) /\ capacity \in Nat \ {0}
      /\ Len(queue) \in Nat /\ Len(acquired) \in Nat /\ Len(queue) <= Len(acquired)
      /\ \A k \in 1..Len(queue) : queue[k] = acquired[Len(acquired) - Len(queue) + k]
  BY DEF WebType, EndOf
<1>2. /\ longer \in Seq(WebFrames) /\ Len(longer) = Len(acquired) + 1 /\ longer[Len(acquired) + 1] = frame
      /\ \A k \in 1..Len(acquired) : longer[k] = acquired[k]
  BY <1>1
<1>6. \/ pushed = <<frame>> \/ pushed = Append(queue, frame)
      \/ pushed = Append(Tail(queue), frame) /\ Len(queue) >= capacity
  BY DEF WebXR!Pushed
<1> HIDE DEF longer, pushed
<1>3. CASE pushed = <<frame>>
  <2>1. pushed \in Seq(WebFrames) /\ Len(pushed) = 1 /\ pushed[1] = frame
    BY <1>3
  <2> QED BY <1>1, <1>2, <2>1 DEF EndOf
<1>4. CASE pushed = Append(queue, frame)
  <2>1. /\ Append(queue, frame) \in Seq(WebFrames) /\ Len(Append(queue, frame)) = Len(queue) + 1
        /\ Append(queue, frame)[Len(queue) + 1] = frame
        /\ \A k \in 1..Len(queue) : Append(queue, frame)[k] = queue[k]
    BY <1>1
  <2>2. ASSUME NEW k \in 1..(Len(queue) + 1)
        PROVE  Append(queue, frame)[k] = longer[Len(longer) - (Len(queue) + 1) + k]
    <3>1. CASE k = Len(queue) + 1
      BY <1>1, <1>2, <2>1, <3>1
    <3>2. CASE k \in 1..Len(queue)
      <4>1. Len(acquired) - Len(queue) + k \in 1..Len(acquired)
        BY <1>1, <3>2
      <4>2. Len(longer) - (Len(queue) + 1) + k = Len(acquired) - Len(queue) + k
        BY <1>1, <1>2, <3>2
      <4> QED BY <1>1, <1>2, <2>1, <3>2, <4>1, <4>2
    <3> QED BY <1>1, <3>1, <3>2
  <2> QED BY <1>1, <1>2, <1>4, <2>1, <2>2 DEF EndOf
<1>5. CASE pushed = Append(Tail(queue), frame) /\ Len(queue) >= capacity
  <2> DEFINE rest == Tail(queue)
  <2>1. /\ rest \in Seq(WebFrames) /\ Len(rest) = Len(queue) - 1 /\ Len(queue) # 0
        /\ \A k \in 1..Len(rest) : rest[k] = queue[k + 1]
    BY <1>1, <1>5
  <2> HIDE DEF rest
  <2>2. /\ Append(rest, frame) \in Seq(WebFrames) /\ Len(Append(rest, frame)) = Len(queue)
        /\ Append(rest, frame)[Len(queue)] = frame
        /\ \A k \in 1..Len(rest) : Append(rest, frame)[k] = rest[k]
    BY <1>1, <2>1
  <2>3. ASSUME NEW k \in 1..Len(queue)
        PROVE  Append(rest, frame)[k] = longer[Len(longer) - Len(queue) + k]
    <3>1. CASE k = Len(queue)
      BY <1>1, <1>2, <2>2, <3>1
    <3>2. CASE k \in 1..Len(rest)
      <4>1. k + 1 \in 1..Len(queue) /\ Len(acquired) - Len(queue) + (k + 1) \in 1..Len(acquired)
        BY <1>1, <2>1, <3>2
      <4>2. Len(longer) - Len(queue) + k = Len(acquired) - Len(queue) + (k + 1)
        BY <1>1, <1>2, <3>2
      <4> QED BY <1>1, <1>2, <2>1, <2>2, <3>2, <4>1, <4>2, SMTT(30)
    <3> QED BY <1>1, <2>1, <3>1, <3>2
  <2>4. pushed = Append(rest, frame)
    BY <1>5 DEF rest
  <2>5. pushed \in Seq(WebFrames) /\ Len(pushed) = Len(queue)
    BY <2>2, <2>4
  <2>6. \A k \in 1..Len(queue) : pushed[k] = longer[Len(longer) - Len(queue) + k]
    BY <2>3, <2>4
  <2>7. EndOf(pushed, longer)
    BY <1>1, <1>2, <2>5, <2>6 DEF EndOf
  <2> QED BY <1>1, <2>5, <2>7
<1> QED BY <1>3, <1>4, <1>5, <1>6

LEMMA WebAcquires ==
  ASSUME WebInv, WebXR!Acquire
  PROVE  WebInv'
<1>1. PICK source \in Times, receive \in Times, inputs \in WebXR!InputSources :
       /\ WebXR!Advances(source, receive)
       /\ Len(inputs) <= InputLimit
       /\ WebXR!Name(inputs)
       /\ LET frame == [number |-> number + 1, source |-> source, receive |-> receive,
                        trackers |-> [input \in WebXR!Range(inputs) |-> ids'[input]]]
              dropped == Len(queue) + 1 - Len(WebXR!Pushed(frame))
          IN  /\ queue' = WebXR!Pushed(frame)
              /\ stats' = [stats EXCEPT !.pushed = @ + 1, !.dropped = @ + dropped,
                                        !.skipped = @ + dropped]
              /\ acquired' = Append(acquired, frame)
       /\ lastSource' = source /\ lastReceive' = receive
  BY DEF WebXR!Acquire
<1> DEFINE named == [input \in WebXR!Range(inputs) |-> ids'[input]]
           frame == [number |-> number + 1, source |-> source, receive |-> receive, trackers |-> named]
           pushed == WebXR!Pushed(frame)
           dropped == Len(queue) + 1 - Len(pushed)
<1>2. /\ queue' = pushed /\ acquired' = Append(acquired, frame)
      /\ stats' = [stats EXCEPT !.pushed = @ + 1, !.dropped = @ + dropped, !.skipped = @ + dropped]
      /\ lastSource' = source /\ lastReceive' = receive /\ number' = number + 1
      /\ ~WebXR!Full /\ state \notin {"disconnected", "error"}
      /\ attached' = attached /\ capacity' = capacity /\ state' # "disconnected"
  BY <1>1 DEF WebXR!Acquire, WebXR!Acquiring, WebXR!session
<1>3. /\ source \in Nat /\ receive \in Nat
      /\ lastSource = -1 \/ source > lastSource
      /\ lastReceive = -1 \/ receive >= lastReceive
  BY <1>1, FrontendAssumptions DEF WebXR!ConstantsAssumption, WebXR!Advances, WebXR!None
<1>4. /\ ids' \in [Inputs -> Nat] /\ nextId' \in Nat /\ Distinguished(ids', nextId')
      /\ \A i \in Inputs : ids[i] # 0 => ids'[i] = ids[i]
      /\ \A k \in DOMAIN inputs : ids'[inputs[k]] # 0
      /\ inputs \in Seq(Inputs)
  BY <1>1, AcquisitionNames, InputSourcesAre
<1>5. /\ acquired \in Seq(WebFrames) /\ queue \in Seq(WebFrames) /\ stats \in WebStats /\ number \in Nat
      /\ number = Len(acquired) /\ Len(queue) \in Nat
  BY DEF WebInv, WebType, Timed
<1>6. /\ named \in Trackers
      /\ \A i \in DOMAIN named : i \in Inputs /\ named[i] = ids'[i] /\ ids'[i] # 0
  <2>1. WebXR!Range(inputs) \in SUBSET Inputs
    BY <1>4 DEF WebXR!Range
  <2>2. named \in [WebXR!Range(inputs) -> Nat]
    BY <1>4, <2>1
  <2>3. named \in Trackers
    BY <2>1, <2>2 DEF Trackers
  <2>4. ASSUME NEW i \in WebXR!Range(inputs) PROVE i \in Inputs /\ named[i] = ids'[i] /\ ids'[i] # 0
    <3>1. PICK k \in DOMAIN inputs : inputs[k] = i
      BY DEF WebXR!Range
    <3> QED BY <1>4, <2>1, <3>1
  <2> QED BY <2>2, <2>3, <2>4
<1>7. frame \in WebFrames /\ frame.number = number + 1 /\ frame.source = source /\ frame.receive = receive
      /\ frame.trackers = named
  BY <1>3, <1>5, <1>6 DEF WebFrames
<1> HIDE DEF named, frame
<1>8. /\ pushed \in Seq(WebFrames) /\ Len(pushed) \in Nat /\ Len(pushed) <= Len(queue) + 1
      /\ EndOf(pushed, Append(acquired, frame))
  BY <1>2, <1>7, PushedIsEnd DEF WebInv
<1> HIDE DEF pushed
<1>9. /\ acquired' \in Seq(WebFrames) /\ Len(acquired') = Len(acquired) + 1
      /\ acquired'[Len(acquired) + 1] = frame /\ acquired' # <<>>
      /\ \A a \in 1..Len(acquired) : acquired'[a] = acquired[a]
      /\ DOMAIN acquired' = 1..(Len(acquired) + 1) /\ DOMAIN acquired = 1..Len(acquired)
      /\ Len(acquired) \in Nat
  BY <1>2, <1>5, <1>7
<1>10. /\ stats' \in WebStats /\ stats'.polled = stats.polled /\ stats'.dropped = stats.dropped + dropped
       /\ stats.polled \in Nat /\ stats.dropped \in Nat
  <2>1. dropped \in Nat
    BY <1>5, <1>8
  <2>2. stats.polled \in Nat /\ stats.dropped \in Nat
    BY <1>5 DEF WebStats
  <2> HIDE DEF dropped
  <2> QED BY <1>2, <1>5, <2>1, <2>2, WebStatsPushed
<1>11. WebType'
  BY <1>2, <1>3, <1>4, <1>5, <1>8, <1>9, <1>10, SMTT(30) DEF WebInv, WebType
<1>12. Called'
  <2> SUFFICES ASSUME NEW a \in DOMAIN acquired', NEW i \in DOMAIN acquired'[a].trackers
               PROVE  i \in Inputs /\ acquired'[a].trackers[i] = ids'[i] /\ ids'[i] # 0
    BY DEF Called
  <2>1. CASE a \in 1..Len(acquired)
    <3>1. acquired'[a] = acquired[a] /\ a \in DOMAIN acquired
      BY <1>9, <2>1
    <3>2. i \in Inputs /\ acquired[a].trackers[i] = ids[i] /\ ids[i] # 0
      BY <3>1 DEF WebInv, Called
    <3> QED BY <1>4, <3>1, <3>2
  <2>2. CASE a = Len(acquired) + 1
    BY <1>6, <1>7, <1>9, <2>2
  <2> QED BY <1>9, <2>1, <2>2
<1>13. Timed'
  <2>1. \A a \in DOMAIN acquired' : acquired'[a].number = a
    <3> SUFFICES ASSUME NEW a \in DOMAIN acquired' PROVE acquired'[a].number = a
      OBVIOUS
    <3>1. CASE a \in 1..Len(acquired)
      BY <1>9, <3>1 DEF WebInv, Timed
    <3>2. CASE a = Len(acquired) + 1
      BY <1>5, <1>7, <1>9, <3>2
    <3> QED BY <1>9, <3>1, <3>2
  <2>2. ASSUME NEW a \in 1..(Len(acquired') - 1)
        PROVE  /\ acquired'[a].source < acquired'[a + 1].source
               /\ acquired'[a].receive <= acquired'[a + 1].receive
    <3>1. CASE a \in 1..(Len(acquired) - 1)
      <4>1. a \in 1..Len(acquired) /\ a + 1 \in 1..Len(acquired)
        BY <1>9, <3>1
      <4> QED BY <1>9, <3>1, <4>1 DEF WebInv, Timed
    <3>2. CASE a = Len(acquired)
      <4>1. a \in 1..Len(acquired) /\ acquired # <<>>
        BY <1>9, <3>2
      <4>2. lastSource = acquired[a].source /\ lastReceive = acquired[a].receive /\ acquired[a] \in WebFrames
        BY <1>5, <3>2, <4>1 DEF WebInv, Timed
      <4>3. acquired[a].source \in Nat /\ acquired[a].receive \in Nat
        BY <4>2 DEF WebFrames
      <4>4. acquired'[a] = acquired[a] /\ acquired'[a + 1] = frame
        BY <1>9, <3>2, <4>1
      <4>5. acquired[a].source # -1 /\ acquired[a].receive # -1
        BY <4>3
      <4>6. source > acquired[a].source /\ receive >= acquired[a].receive
        BY <1>3, <4>2, <4>5
      <4>7. acquired[a].source < source /\ acquired[a].receive <= receive
        BY <1>3, <4>3, <4>6
      <4>8. /\ acquired'[a].source = acquired[a].source /\ acquired'[a].receive = acquired[a].receive
            /\ acquired'[a + 1].source = source /\ acquired'[a + 1].receive = receive
        BY <1>7, <4>4
      <4> QED BY <4>7, <4>8
    <3>3. a \in 1..(Len(acquired) - 1) \/ a = Len(acquired)
      <4>1. Len(acquired') - 1 = Len(acquired) /\ Len(acquired) \in Nat
        BY <1>9
      <4>2. a \in 1..Len(acquired)
        BY <4>1
      <4> QED BY <4>1, <4>2
    <3> QED BY <3>1, <3>2, <3>3
  <2> QED BY <1>2, <1>5, <1>7, <1>9, <2>1, <2>2 DEF Timed
<1>14. EndOf(queue, acquired)'
  BY <1>2, <1>8
<1>15. Accounted'
  BY <1>2, <1>5, <1>8, <1>9, <1>10 DEF WebInv, Accounted
<1> QED BY <1>4, <1>11, <1>12, <1>13, <1>14, <1>15 DEF WebInv

LEMMA WebStep ==
  ASSUME WebInv, [WebXR!Next]_(WebXR!vars)
  PROVE  WebInv'
<1>1. CASE UNCHANGED WebXR!vars
  BY <1>1 DEF WebXR!vars, WebXR!session, WebXR!clock, WebXR!naming, WebInv, WebType, Distinguished,
     Called, Timed, EndOf, Accounted
<1>2. CASE WebXR!Next
  BY <1>2, WebRefused, WebOpens, WebTakes, WebAcquires DEF WebXR!Next
<1> QED BY <1>1, <1>2

LEMMA WebTells == WebInv => EpochInvariant
<1> SUFFICES ASSUME WebInv PROVE EpochInvariant
  OBVIOUS
<1>1. WebXR!InputsKeepTheirIds
  <2> SUFFICES ASSUME NEW a \in DOMAIN acquired, NEW b \in DOMAIN acquired,
                      NEW i \in DOMAIN acquired[a].trackers, NEW j \in DOMAIN acquired[b].trackers
               PROVE  (i = j) = (acquired[a].trackers[i] = acquired[b].trackers[j])
    BY DEF WebXR!InputsKeepTheirIds
  <2>1. /\ i \in Inputs /\ acquired[a].trackers[i] = ids[i] /\ ids[i] # 0
        /\ j \in Inputs /\ acquired[b].trackers[j] = ids[j]
    BY DEF WebInv, Called
  <2>2. (i = j) <=> (acquired[a].trackers[i] = acquired[b].trackers[j])
    BY <2>1 DEF WebInv, Distinguished
  <2> QED BY <2>2
<1>2. WebXR!IsSuffix(queue, acquired)
  BY SuffixIsEnd DEF WebInv, WebType
<1> QED BY <1>1, <1>2 DEF WebInv, Timed, Accounted, EpochInvariant, WebXR!EpochInvariant, WebXR!EpochIsWhole

\* Within an epoch an input has one id that is no other's, and its frames are
\* numbered without a gap, in advancing time, and every one of them is queued,
\* polled or counted as dropped: for every number of inputs, every limit, every
\* mode and whatever refused or failed acquisitions come between.
THEOREM EpochsKept == WebXR!Spec => []EpochInvariant
<1>1. WebXR!Init => WebInv
  BY WebInit
<1>2. WebInv /\ [WebXR!Next]_(WebXR!vars) => WebInv'
  BY WebStep
<1>3. WebInv => EpochInvariant
  BY WebTells
<1> QED BY <1>1, <1>2, <1>3, PTL DEF WebXR!Spec

-----------------------------------------------------------------------------
(* MediaPipe.  What a result becomes is read off the result: its groups one    *)
(* after the other, each with a name of its own.                              *)

\* Every set of numbers has a least one.
LEMMA LeastExists ==
  ASSUME NEW free \in SUBSET Nat, free # {}
  PROVE  \E h \in free : \A k \in free : h <= k
<1> DEFINE Below(h) == {k \in free : k < h}
           Belows == {Below(h) : h \in free}
<1>1. \A h \in free : Below(h) \in FiniteSubsetsOf(Nat)
  <2> SUFFICES ASSUME NEW h \in free PROVE Below(h) \in FiniteSubsetsOf(Nat)
    OBVIOUS
  <2>1. h \in Nat /\ IsFiniteSet(0..h)
    BY FS_Interval
  <2>2. Below(h) \in SUBSET (0..h) /\ Below(h) \in SUBSET Nat
    <3>1. \A k \in free : k \in Nat /\ (k < h => k \in 0..h)
      BY <2>1
    <3> QED BY <3>1
  <2>3. IsFiniteSet(Below(h))
    BY <2>1, <2>2, FS_Subset
  <2> QED BY <2>2, <2>3 DEF FiniteSubsetsOf
<1>2. Belows \subseteq FiniteSubsetsOf(Nat) /\ Belows # {}
  BY <1>1
<1>3. PICK least \in Belows : \A other \in Belows : <<other, least>> \notin StrictSubsetOrdering(Nat)
  <2> HIDE DEF Belows
  <2> QED BY <1>2, WFMin, FS_StrictSubsetOrderingWellFounded
<1>4. PICK h \in free : least = Below(h)
  BY <1>3
<1>5. ASSUME NEW k \in free, k < h PROVE FALSE
  <2>1. k \in Nat /\ h \in Nat
    OBVIOUS
  <2>2. Below(k) \subseteq Below(h) /\ k \in Below(h) /\ k \notin Below(k)
    <3>1. ~(k < k) /\ \A x \in free : x < k => x < h
      BY <1>5, <2>1
    <3> QED BY <1>5, <3>1
  <2>3. Below(k) \in SUBSET Nat /\ Below(h) \in SUBSET Nat /\ Below(k) # Below(h)
    BY <2>2
  <2>4. <<Below(k), Below(h)>> \in StrictSubsetOrdering(Nat)
    <3> HIDE DEF Below
    <3> QED BY <2>2, <2>3 DEF StrictSubsetOrdering
  <2>5. Below(k) \in Belows
    BY <1>5
  <2> QED BY <1>3, <1>4, <2>4, <2>5
<1>6. \A k \in free : h <= k
  BY <1>5
<1> QED BY <1>6

\* A sequence of sequences, put together up to its i-th.
Joined(seqs, f, n) == f = [i \in 1..n |-> IF i = 1 THEN seqs[i] ELSE f[i - 1] \o seqs[i]]

LEMMA JoinedExists ==
  ASSUME NEW seqs, NEW n \in Nat \ {0}
  PROVE  \E f : Joined(seqs, f, n)
<1> DEFINE bad == {m \in Nat \ {0} : ~ \E f : Joined(seqs, f, m)}
<1>1. ASSUME bad # {} PROVE FALSE
  <2>1. PICK m \in bad : \A k \in bad : m <= k
    BY <1>1, LeastExists
  <2>2. m \in Nat \ {0} /\ ~ \E f : Joined(seqs, f, m)
    BY <2>1
  <2>3. CASE m = 1
    <3> DEFINE g == [i \in 1..m |-> seqs[i]]
    <3>1. g = [i \in 1..m |-> IF i = 1 THEN seqs[i] ELSE g[i - 1] \o seqs[i]]
      BY <2>3
    <3> QED BY <2>2, <3>1 DEF Joined
  <2>4. CASE m # 1
    <3>1. m - 1 \in Nat \ {0} /\ ~(m <= m - 1)
      BY <2>2, <2>4
    <3>2. PICK f : Joined(seqs, f, m - 1)
      BY <2>1, <3>1
    <3> DEFINE g == [i \in 1..m |-> IF i = m THEN f[m - 1] \o seqs[m] ELSE f[i]]
    <3>3. f = [i \in 1..(m - 1) |-> IF i = 1 THEN seqs[i] ELSE f[i - 1] \o seqs[i]]
      BY <3>2 DEF Joined
    <3>4. ASSUME NEW i \in 1..m PROVE g[i] = IF i = 1 THEN seqs[i] ELSE g[i - 1] \o seqs[i]
      <4>1. CASE i = m
        <5>1. g[i - 1] = f[m - 1] /\ i # 1
          BY <3>1, <4>1, <2>4
        <5> QED BY <4>1, <5>1
      <4>2. CASE i # m
        <5>1. i \in 1..(m - 1) /\ g[i] = f[i] /\ (i # 1 => g[i - 1] = f[i - 1])
          BY <2>2, <4>2
        <5>2. f[i] = IF i = 1 THEN seqs[i] ELSE f[i - 1] \o seqs[i]
          BY <3>3, <5>1
        <5> HIDE DEF g
        <5> QED BY <5>1, <5>2
      <4> QED BY <4>1, <4>2
    <3>5. Joined(seqs, g, m)
      <4>1. g = [i \in 1..m |-> g[i]]
        OBVIOUS
      <4> HIDE DEF g
      <4> QED BY <3>4, <4>1 DEF Joined
    <3> QED BY <2>2, <3>5
  <2> QED BY <2>3, <2>4
<1> QED BY <1>1

LEMMA FlattenUnfolds ==
  ASSUME NEW S, NEW seqs \in Seq(S), Len(seqs) # 0
  PROVE  \E f : /\ f[1] = seqs[1]
                /\ \A i \in 1..Len(seqs) : i # 1 => f[i] = f[i - 1] \o seqs[i]
                /\ MediaPipe!FlattenSeq(seqs) = f[Len(seqs)]
<1> DEFINE n == Len(seqs)
           Is(f) == Joined(seqs, f, n)
           chosen == CHOOSE f : Is(f)
<1>1. n \in Nat \ {0}
  OBVIOUS
<1>2. \E f : Is(f)
  BY <1>1, JoinedExists
<1>3. Is(chosen)
  <2> HIDE DEF Is
  <2> QED BY <1>2
<1>4. MediaPipe!FlattenSeq(seqs) = chosen[n]
  BY <1>1 DEF MediaPipe!FlattenSeq, Joined
<1> HIDE DEF chosen
<1>5. chosen = [i \in 1..n |-> IF i = 1 THEN seqs[i] ELSE chosen[i - 1] \o seqs[i]]
  BY <1>3 DEF Joined
<1>6. \A i \in 1..n : chosen[i] = IF i = 1 THEN seqs[i] ELSE chosen[i - 1] \o seqs[i]
  <2> HIDE DEF n
  <2> QED BY <1>5
<1>7. chosen[1] = seqs[1] /\ \A i \in 1..n : i # 1 => chosen[i] = chosen[i - 1] \o seqs[i]
  <2>1. 1 \in 1..n
    BY <1>1
  <2> HIDE DEF n
  <2> QED BY <1>6, <2>1
<1> QED BY <1>4, <1>7

\* One group is itself, two are one after the other.
LEMMA FlattenFew ==
  ASSUME NEW S, NEW seqs \in Seq(S)
  PROVE  /\ Len(seqs) = 0 => MediaPipe!FlattenSeq(seqs) = <<>>
         /\ Len(seqs) = 1 => MediaPipe!FlattenSeq(seqs) = seqs[1]
         /\ Len(seqs) = 2 => MediaPipe!FlattenSeq(seqs) = seqs[1] \o seqs[2]
<1>1. Len(seqs) = 0 => MediaPipe!FlattenSeq(seqs) = <<>>
  BY DEF MediaPipe!FlattenSeq
<1>2. ASSUME Len(seqs) = 1 \/ Len(seqs) = 2
      PROVE  \E f : /\ f[1] = seqs[1]
                    /\ 2 \in 1..Len(seqs) => f[2] = f[1] \o seqs[2]
                    /\ MediaPipe!FlattenSeq(seqs) = f[Len(seqs)]
  <2>1. Len(seqs) # 0
    BY <1>2
  <2>2. PICK f : /\ f[1] = seqs[1]
                 /\ \A i \in 1..Len(seqs) : i # 1 => f[i] = f[i - 1] \o seqs[i]
                 /\ MediaPipe!FlattenSeq(seqs) = f[Len(seqs)]
    BY <2>1, FlattenUnfolds
  <2>3. 2 - 1 = 1 /\ 2 # 1
    OBVIOUS
  <2>4. 2 \in 1..Len(seqs) => f[2] = f[1] \o seqs[2]
    BY <2>2, <2>3
  <2> QED BY <2>2, <2>4
<1>3. CASE Len(seqs) = 1
  BY <1>2, <1>3
<1>4. CASE Len(seqs) = 2
  <2>1. 2 \in 1..Len(seqs)
    BY <1>4
  <2>2. PICK f : /\ f[1] = seqs[1]
                 /\ 2 \in 1..Len(seqs) => f[2] = f[1] \o seqs[2]
                 /\ MediaPipe!FlattenSeq(seqs) = f[Len(seqs)]
    BY <1>2, <1>4
  <2>3. MediaPipe!FlattenSeq(seqs) = f[2] /\ f[2] = seqs[1] \o seqs[2]
    BY <1>4, <2>1, <2>2
  <2> QED BY <1>4, <2>3
<1> QED BY <1>1, <1>3, <1>4

LEMMA FlattenTyped ==
  ASSUME NEW X, NEW seqs \in Seq(Seq(X))
  PROVE  /\ MediaPipe!FlattenSeq(seqs) \in Seq(X)
         /\ MediaPipe!FlattenSeq(seqs) = <<>> => \A i \in DOMAIN seqs : seqs[i] = <<>>
<1>1. CASE Len(seqs) = 0
  BY <1>1 DEF MediaPipe!FlattenSeq
<1>2. CASE Len(seqs) # 0
  <2>1. PICK f : /\ f[1] = seqs[1]
                 /\ \A i \in 1..Len(seqs) : i # 1 => f[i] = f[i - 1] \o seqs[i]
                 /\ MediaPipe!FlattenSeq(seqs) = f[Len(seqs)]
    BY <1>2, FlattenUnfolds
  <2> DEFINE Good(m) == f[m] \in Seq(X) /\ (f[m] = <<>> => \A i \in 1..m : seqs[i] = <<>>)
             bad == {m \in 1..Len(seqs) : ~Good(m)}
  <2>2. Len(seqs) \in Nat \ {0} /\ \A i \in 1..Len(seqs) : seqs[i] \in Seq(X)
    BY <1>2
  <2>3. Good(1)
    <3>1. f[1] = seqs[1] /\ seqs[1] \in Seq(X) /\ \A i \in 1..1 : i = 1
      BY <2>1, <2>2
    <3> QED BY <3>1
  <2>4. ASSUME NEW m \in 1..Len(seqs), m # 1, Good(m - 1) PROVE Good(m)
    <3>1. f[m] = f[m - 1] \o seqs[m] /\ seqs[m] \in Seq(X) /\ f[m - 1] \in Seq(X)
      BY <2>1, <2>2, <2>4
    <3>2. \A a, b \in Seq(X) : a \o b \in Seq(X) /\ (a \o b = <<>> => a = <<>> /\ b = <<>>)
      <4> SUFFICES ASSUME NEW a \in Seq(X), NEW b \in Seq(X)
                   PROVE  a \o b \in Seq(X) /\ (a \o b = <<>> => a = <<>> /\ b = <<>>)
        OBVIOUS
      <4>1. a \o b \in Seq(X) /\ Len(a \o b) = Len(a) + Len(b) /\ Len(a) \in Nat /\ Len(b) \in Nat
        OBVIOUS
      <4> QED BY <4>1
    <3>3. f[m] \in Seq(X) /\ (f[m] = <<>> => f[m - 1] = <<>> /\ seqs[m] = <<>>)
      BY <3>1, <3>2
    <3>4. \A i \in 1..m : i = m \/ i \in 1..(m - 1)
      BY <2>2
    <3> QED BY <2>4, <3>3, <3>4
  <2>5. ASSUME bad # {} PROVE FALSE
    <3>1. bad \subseteq Nat
      OBVIOUS
    <3>2. PICK m \in bad : \A k \in bad : m <= k
      BY <3>1, <2>5, LeastExists
    <3>3. m \in 1..Len(seqs) /\ ~Good(m)
      BY <3>2
    <3> HIDE DEF Good
    <3>4. m # 1
      BY <2>3, <3>3
    <3>5. m - 1 \in 1..Len(seqs) /\ ~(m <= m - 1)
      BY <2>2, <3>3, <3>4
    <3>6. Good(m - 1)
      BY <3>2, <3>5
    <3> QED BY <2>4, <3>3, <3>4, <3>6
  <2>6. Good(Len(seqs))
    <3>1. Len(seqs) \in 1..Len(seqs)
      BY <2>2
    <3> HIDE DEF Good
    <3> QED BY <2>5, <3>1
  <2>7. DOMAIN seqs = 1..Len(seqs)
    OBVIOUS
  <2> QED BY <2>1, <2>6, <2>7
<1> QED BY <1>1, <1>2

\* What one landmark becomes.
Sightings == [id : {MediaPipe!Prefix(group) : group \in MediaPipe!Groups} \X (1..Count),
              position : BOOLEAN, confidence : BOOLEAN]

LEMMA MediaPipeAssumed == Count \in Nat \ {0}
BY FrontendAssumptions DEF MediaPipe!ConstantsAssumption

\* A result that is not refused has at most two groups, each with its landmarks.
LEMMA GroupsOf ==
  ASSUME detector \in MediaPipe!Detectors, detector # "face", NEW r \in MediaPipe!Usable
  PROVE  /\ r \in Seq(MediaPipe!Groups) /\ Len(r) \in 0..2
         /\ \A g \in 1..Len(r) : r[g].points \in [1..Count -> MediaPipe!Points]
         /\ \A g, h \in 1..Len(r) : g # h
                                      => MediaPipe!Prefix(r[g]) # MediaPipe!Prefix(r[h])
<1>1. r \in MediaPipe!UpTo(2, MediaPipe!Groups) /\ ~MediaPipe!Refused(r)
  BY DEF MediaPipe!Usable, MediaPipe!Results
<1>2. PICK k \in 0..2 : r \in [1..k -> MediaPipe!Groups]
  BY <1>1 DEF MediaPipe!UpTo
<1>3. r \in Seq(MediaPipe!Groups) /\ Len(r) = k /\ DOMAIN r = 1..k
  BY <1>2
<1>4. ASSUME NEW g \in 1..Len(r), NEW h \in 1..Len(r), g # h
      PROVE  MediaPipe!Prefix(r[g]) # MediaPipe!Prefix(r[h])
  <2>1. CASE detector = "body"
    <3>1. Len(r) <= 1
      BY <1>1, <1>3, <2>1 DEF MediaPipe!Refused
    <3> QED BY <1>3, <1>4, <3>1
  <2>2. CASE detector = "hands"
    <3>1. MediaPipe!SidesDiffer(r)
      BY <1>1, <2>2 DEF MediaPipe!Refused
    <3> QED BY <1>3, <1>4, <2>2, <3>1 DEF MediaPipe!SidesDiffer, MediaPipe!Prefix
  <2> QED BY <2>1, <2>2 DEF MediaPipe!Detectors
<1>5. ASSUME NEW g \in 1..Len(r)
      PROVE  r[g].points # <<>>
  <2>1. CASE detector = "body"
    BY <1>1, <1>3, <2>1 DEF MediaPipe!Refused
  <2>2. CASE detector = "hands"
    BY <1>1, <1>3, <2>2 DEF MediaPipe!Refused
  <2> QED BY <2>1, <2>2 DEF MediaPipe!Detectors
<1>6. \A group \in MediaPipe!Groups : group.points \in [1..Count -> MediaPipe!Points] \cup {<<>>}
  BY DEF MediaPipe!Groups
<1>7. \A g \in 1..Len(r) : r[g] \in MediaPipe!Groups
  BY <1>3
<1> QED BY <1>2, <1>3, <1>4, <1>5, <1>6, <1>7

LEMMA ObservationsOf ==
  ASSUME NEW group \in MediaPipe!Groups, group.points \in [1..Count -> MediaPipe!Points]
  PROVE  /\ MediaPipe!Observations(group) \in Seq(Sightings)
         /\ Len(MediaPipe!Observations(group)) = Count
         /\ \A i \in 1..Count :
              /\ MediaPipe!Observations(group)[i].id = <<MediaPipe!Prefix(group), i>>
              /\ MediaPipe!Observations(group)[i].position = group.points[i].position
<1> DEFINE o == MediaPipe!Observations(group)
<1>1. o = [i \in 1..Count |-> [id |-> <<MediaPipe!Prefix(group), i>>, position |-> group.points[i].position,
                               confidence |-> group.points[i].visibility = "usable"]]
  BY DEF MediaPipe!Observations, MediaPipe!Landmark
<1>2. \A i \in 1..Count : group.points[i].position \in BOOLEAN
  BY DEF MediaPipe!Points
<1> HIDE DEF o
<1>3. \A i \in 1..Count : /\ o[i] \in Sightings
                          /\ o[i].id = <<MediaPipe!Prefix(group), i>>
                          /\ o[i].position = group.points[i].position
  BY <1>1, <1>2 DEF Sightings
<1>4. o \in [1..Count -> Sightings]
  BY <1>1, <1>3
<1>5. o \in Seq(Sightings) /\ Len(o) = Count
  BY <1>4, MediaPipeAssumed
<1> QED BY <1>3, <1>5 DEF o

\* The landmarks of an actor are those of its first group, then of its second.
LEMMA ActorOf ==
  ASSUME detector \in MediaPipe!Detectors, detector # "face", NEW r \in MediaPipe!Usable
  PROVE  LET actor == MediaPipe!Observed(r)
         IN  /\ actor \in Seq(Sightings) /\ Len(actor) = Count * Len(r)
             /\ \A i \in 1..Len(actor) : \E g \in 1..Len(r), k \in 1..Count :
                  /\ i = (g - 1) * Count + k
                  /\ actor[i].id = <<MediaPipe!Prefix(r[g]), k>>
                  /\ actor[i].position = r[g].points[k].position
<1> DEFINE actor == MediaPipe!Observed(r)
           parts == [g \in DOMAIN r |-> MediaPipe!Observations(r[g])]
<1>1. /\ r \in Seq(MediaPipe!Groups) /\ Len(r) \in 0..2 /\ DOMAIN r = 1..Len(r)
      /\ \A g \in 1..Len(r) : r[g] \in MediaPipe!Groups /\ r[g].points \in [1..Count -> MediaPipe!Points]
  BY GroupsOf
<1>2. actor = MediaPipe!FlattenSeq(parts)
  BY DEF MediaPipe!Observed
<1>3. \A g \in 1..Len(r) :
        /\ parts[g] \in Seq(Sightings) /\ Len(parts[g]) = Count
        /\ \A i \in 1..Count : /\ parts[g][i].id = <<MediaPipe!Prefix(r[g]), i>>
                               /\ parts[g][i].position = r[g].points[i].position
  BY <1>1, ObservationsOf
<1> DEFINE S == Seq(Sightings)
<1>4. parts \in Seq(S) /\ Len(parts) = Len(r)
  <2> HIDE DEF S
  <2>1. \A g \in 1..Len(r) : MediaPipe!Observations(r[g]) \in S
    BY <1>1, <1>3 DEF S
  <2> QED BY <1>1, <2>1
<1> HIDE DEF actor, parts
<1>5. Count \in Nat \ {0}
  BY MediaPipeAssumed
<1>6. CASE Len(r) = 0
  <2>1. actor = <<>>
    <3> HIDE DEF S
    <3> QED BY <1>2, <1>4, <1>6, FlattenFew
  <2> QED BY <1>5, <1>6, <2>1 DEF actor
<1>7. CASE Len(r) = 1
  <2>1. actor = parts[1]
    <3> HIDE DEF S
    <3> QED BY <1>2, <1>4, <1>7, FlattenFew
  <2>2. actor \in Seq(Sightings) /\ Len(actor) = Count
        /\ \A i \in 1..Count : /\ actor[i].id = <<MediaPipe!Prefix(r[1]), i>>
                               /\ actor[i].position = r[1].points[i].position
    BY <1>3, <1>7, <2>1
  <2>3. Len(actor) = Count * Len(r) /\ 1 \in 1..Len(r) /\ \A i \in 1..Count : i = (1 - 1) * Count + i
    BY <1>5, <1>7, <2>2
  <2> QED BY <2>2, <2>3 DEF actor
<1>8. CASE Len(r) = 2
  <2>1. actor = parts[1] \o parts[2]
    <3> HIDE DEF S
    <3> QED BY <1>2, <1>4, <1>8, FlattenFew
  <2>2. /\ parts[1] \in Seq(Sightings) /\ parts[2] \in Seq(Sightings)
        /\ Len(parts[1]) = Count /\ Len(parts[2]) = Count
    BY <1>3, <1>8
  <2>3. /\ actor \in Seq(Sightings) /\ Len(actor) = Count + Count
        /\ \A i \in 1..(Count + Count) : actor[i] = IF i <= Count THEN parts[1][i] ELSE parts[2][i - Count]
    <3>1. \A a, b \in Seq(Sightings) :
            /\ a \o b \in Seq(Sightings) /\ Len(a \o b) = Len(a) + Len(b)
            /\ \A i \in 1..(Len(a) + Len(b)) : (a \o b)[i] = IF i <= Len(a) THEN a[i] ELSE b[i - Len(a)]
      <4> SUFFICES ASSUME NEW a \in Seq(Sightings), NEW b \in Seq(Sightings)
                   PROVE  /\ a \o b \in Seq(Sightings) /\ Len(a \o b) = Len(a) + Len(b)
                          /\ \A i \in 1..(Len(a) + Len(b)) :
                               (a \o b)[i] = IF i <= Len(a) THEN a[i] ELSE b[i - Len(a)]
        OBVIOUS
      <4>1. a \o b \in Seq(Sightings) /\ Len(a \o b) = Len(a) + Len(b)
        OBVIOUS
      <4>2. ASSUME NEW i \in 1..(Len(a) + Len(b))
            PROVE  (a \o b)[i] = IF i <= Len(a) THEN a[i] ELSE b[i - Len(a)]
        OBVIOUS
      <4> QED BY <4>1, <4>2
    <3>2. /\ actor \in Seq(Sightings) /\ Len(actor) = Len(parts[1]) + Len(parts[2])
          /\ \A i \in 1..(Len(parts[1]) + Len(parts[2])) :
               actor[i] = IF i <= Len(parts[1]) THEN parts[1][i] ELSE parts[2][i - Len(parts[1])]
      <4> DEFINE a == parts[1]
                 b == parts[2]
      <4>1. a \in Seq(Sightings) /\ b \in Seq(Sightings) /\ actor = a \o b
        BY <2>1, <2>2
      <4> HIDE DEF a, b
      <4>2. /\ actor \in Seq(Sightings) /\ Len(actor) = Len(a) + Len(b)
            /\ \A i \in 1..(Len(a) + Len(b)) : actor[i] = IF i <= Len(a) THEN a[i] ELSE b[i - Len(a)]
        BY <3>1, <4>1
      <4> QED BY <4>2 DEF a, b
    <3> QED BY <2>2, <3>2
  <2>4. Len(actor) = Count * Len(r)
    BY <1>5, <1>8, <2>3
  <2>5. ASSUME NEW i \in 1..Len(actor)
        PROVE  \E g \in 1..Len(r), k \in 1..Count :
                 /\ i = (g - 1) * Count + k
                 /\ actor[i].id = <<MediaPipe!Prefix(r[g]), k>>
                 /\ actor[i].position = r[g].points[k].position
    <3>1. CASE i <= Count
      <4>1. i \in 1..Count /\ 1 \in 1..Len(r) /\ i = (1 - 1) * Count + i /\ actor[i] = parts[1][i]
        BY <1>5, <1>8, <2>3, <3>1
      <4>2. /\ parts[1][i].id = <<MediaPipe!Prefix(r[1]), i>>
            /\ parts[1][i].position = r[1].points[i].position
        BY <1>3, <4>1
      <4> QED BY <4>1, <4>2
    <3>2. CASE ~(i <= Count)
      <4> DEFINE k == i - Count
      <4>1. k \in 1..Count /\ 2 \in 1..Len(r) /\ i = (2 - 1) * Count + k /\ actor[i] = parts[2][k]
        BY <1>5, <1>8, <2>3, <3>2
      <4> HIDE DEF k
      <4>2. /\ parts[2][k].id = <<MediaPipe!Prefix(r[2]), k>>
            /\ parts[2][k].position = r[2].points[k].position
        BY <1>3, <4>1
      <4> QED BY <4>1, <4>2
    <3> QED BY <3>1, <3>2
  <2> QED BY <2>3, <2>4, <2>5 DEF actor
<1>9. Len(r) = 0 \/ Len(r) = 1 \/ Len(r) = 2
  BY <1>1
<1> QED BY <1>6, <1>7, <1>8, <1>9

\* What holds of what a result that is not refused becomes.
LEMMA ObservedIsDistinct ==
  ASSUME detector \in MediaPipe!Detectors, NEW r \in MediaPipe!Usable
  PROVE  LET actor == MediaPipe!Observed(r)
             names == IF detector = "face" THEN actor ELSE [i \in DOMAIN actor |-> actor[i].id]
         IN  /\ MediaPipe!IsInjective(names)
             /\ detector # "face" => Len(actor) = Count * Len(r)
             /\ detector # "face" /\ MediaPipe!Told(r) = <<>> => \A i \in DOMAIN actor : actor[i].position
<1> DEFINE actor == MediaPipe!Observed(r)
           names == IF detector = "face" THEN actor ELSE [i \in DOMAIN actor |-> actor[i].id]
<1>1. CASE detector = "face"
  <2>1. r \in MediaPipe!UpTo(1, MediaPipe!Faces) /\ ~MediaPipe!Refused(r)
    BY <1>1 DEF MediaPipe!Usable, MediaPipe!Results
  <2>2. PICK k \in 0..1 : r \in [1..k -> MediaPipe!Faces]
    BY <2>1 DEF MediaPipe!UpTo
  <2>3. CASE r = <<>>
    <3>1. actor = <<>>
      BY <1>1, <2>3 DEF MediaPipe!Observed
    <3> QED BY <1>1, <3>1 DEF MediaPipe!IsInjective
  <2>4. CASE r # <<>>
    <3>1. 1 \in DOMAIN r
      <4>1. k = 1
        BY <2>2, <2>4
      <4> QED BY <2>2, <4>1
    <3>2. actor = [i \in DOMAIN r[1][2] |-> r[1][2][i].name]
      BY <1>1, <2>4 DEF MediaPipe!Observed
    <3>3. MediaPipe!IsInjective([i \in DOMAIN r[1][2] |-> r[1][2][i].name])
      BY <1>1, <2>1, <3>1 DEF MediaPipe!Refused
    <3> QED BY <1>1, <3>2, <3>3
  <2> QED BY <1>1, <2>3, <2>4
<1>2. CASE detector # "face"
  <2>1. /\ actor \in Seq(Sightings) /\ Len(actor) = Count * Len(r)
        /\ \A i \in 1..Len(actor) : \E g \in 1..Len(r), k \in 1..Count :
             /\ i = (g - 1) * Count + k
             /\ actor[i].id = <<MediaPipe!Prefix(r[g]), k>>
             /\ actor[i].position = r[g].points[k].position
    BY <1>2, ActorOf
  <2>2. /\ r \in Seq(MediaPipe!Groups) /\ Len(r) \in 0..2 /\ DOMAIN r = 1..Len(r)
        /\ \A g \in 1..Len(r) : r[g].points \in [1..Count -> MediaPipe!Points]
        /\ \A g, h \in 1..Len(r) : g # h => MediaPipe!Prefix(r[g]) # MediaPipe!Prefix(r[h])
    BY <1>2, GroupsOf
  <2> HIDE DEF actor
  <2>3. DOMAIN actor = 1..Len(actor)
    BY <2>1
  <2>4. ASSUME NEW i \in DOMAIN actor, NEW j \in DOMAIN actor, actor[i].id = actor[j].id PROVE i = j
    <3>1. PICK g \in 1..Len(r), k \in 1..Count :
            i = (g - 1) * Count + k /\ actor[i].id = <<MediaPipe!Prefix(r[g]), k>>
      BY <2>1, <2>3
    <3>2. PICK h \in 1..Len(r), l \in 1..Count :
            j = (h - 1) * Count + l /\ actor[j].id = <<MediaPipe!Prefix(r[h]), l>>
      BY <2>1, <2>3
    <3>3. k = l /\ MediaPipe!Prefix(r[g]) = MediaPipe!Prefix(r[h])
      BY <2>4, <3>1, <3>2
    <3>4. g = h
      BY <2>2, <3>3
    <3> QED BY <3>1, <3>2, <3>3, <3>4
  <2>5. MediaPipe!IsInjective(names)
    <3>1. names = [i \in DOMAIN actor |-> actor[i].id]
      BY <1>2
    <3> HIDE DEF names
    <3> QED BY <2>4, <3>1 DEF MediaPipe!IsInjective
  <2>6. ASSUME MediaPipe!Told(r) = <<>>, NEW i \in DOMAIN actor PROVE actor[i].position
    <3>1. PICK g \in 1..Len(r), k \in 1..Count : actor[i].position = r[g].points[k].position
      BY <2>1, <2>3
    <3> DEFINE Codes3 == {"POSITION_INVALID", "CONFIDENCE_INVALID"}
               S == Seq(Codes3)
               told(q) == [n \in 1..Count |-> MediaPipe!Reports(r[q].points[n])]
               all == [q \in DOMAIN r |-> MediaPipe!FlattenSeq(told(q))]
    <3>2. \A point : MediaPipe!Reports(point) \in S
      <4>1. <<>> \in S /\ <<"POSITION_INVALID">> \in S /\ <<"CONFIDENCE_INVALID">> \in S
        OBVIOUS
      <4>2. \A a, b \in S : a \o b \in S
        OBVIOUS
      <4> HIDE DEF S
      <4> QED BY <4>1, <4>2 DEF MediaPipe!Reports
    <3> HIDE DEF S
    <3>3. \A q \in 1..Len(r) : told(q) \in Seq(S)
      <4> SUFFICES ASSUME NEW q \in 1..Len(r) PROVE told(q) \in Seq(S)
        OBVIOUS
      <4>1. \A n \in 1..Count : MediaPipe!Reports(r[q].points[n]) \in S
        BY <3>2
      <4>2. Count \in Nat
        BY MediaPipeAssumed
      <4> QED BY <4>1, <4>2
    <3>4. \A q \in 1..Len(r) : /\ MediaPipe!FlattenSeq(told(q)) \in S
                               /\ MediaPipe!FlattenSeq(told(q)) = <<>> => \A n \in DOMAIN told(q) : told(q)[n] = <<>>
      <4> HIDE DEF told
      <4> QED BY <3>3, FlattenTyped DEF S
    <3>5. all \in Seq(S) /\ DOMAIN all = 1..Len(r) /\ \A q \in 1..Len(r) : all[q] = MediaPipe!FlattenSeq(told(q))
      <4> HIDE DEF told
      <4> QED BY <2>2, <3>4
    <3>6. r # <<>>
      BY <2>2, <3>1
    <3>7. MediaPipe!Told(r) = MediaPipe!FlattenSeq(all)
      BY <1>2, <3>6 DEF MediaPipe!Told
    <3>8. \A q \in DOMAIN all : all[q] = <<>>
      <4> HIDE DEF all
      <4> QED BY <2>6, <3>5, <3>7, FlattenTyped DEF S
    <3>9. told(g)[k] = <<>>
      <4>1. all[g] = <<>> /\ all[g] = MediaPipe!FlattenSeq(told(g))
        BY <3>5, <3>8
      <4>2. k \in DOMAIN told(g)
        OBVIOUS
      <4> HIDE DEF told, all
      <4> QED BY <3>4, <4>1, <4>2
    <3>10. MediaPipe!Reports(r[g].points[k]) = <<>>
      BY <3>9
    <3>11. r[g].points[k].position
      <4> SUFFICES ASSUME ~r[g].points[k].position PROVE FALSE
        OBVIOUS
      <4>1. MediaPipe!Reports(r[g].points[k])
              = <<"POSITION_INVALID">> \o (IF r[g].points[k].visibility = "invalid" THEN <<"CONFIDENCE_INVALID">> ELSE <<>>)
        BY DEF MediaPipe!Reports
      <4>2. MediaPipe!Reports(r[g].points[k]) # <<>>
        BY <4>1
      <4> QED BY <3>10, <4>2
    <3> QED BY <3>1, <3>11
  <2> QED BY <1>2, <2>1, <2>5, <2>6 DEF actor
<1> QED BY <1>1, <1>2

Taken == {[result |-> r, actor |-> MediaPipe!Observed(r)] : r \in MediaPipe!Usable}

\* What waits in the queue.
Waiting == [frameNumber : Nat, actor : {MediaPipe!Observed(r) : r \in MediaPipe!Usable}]

MediaPipeType ==
  /\ detector \in MediaPipe!Detectors /\ mpMode \in MediaPipe!Modes /\ mpCapacity \in Nat \ {0}
  /\ mpNumber \in Nat /\ mpFrames \in Seq(Waiting) /\ results \in Seq(Taken)
  /\ mpStats \in [pushed : Nat, polled : Nat, dropped : Nat, rejected : Nat]

\* Frames in a row that end with the newest of `whole`, which is the `n`-th.
Newest(tail, whole, n) ==
  \A i \in 1..Len(tail) :
    LET k == n - Len(tail) + i
    IN  k \in 1..Len(whole) /\ tail[i] = [frameNumber |-> k, actor |-> whole[k].actor]

MediaPipeInv ==
  /\ MediaPipeType
  /\ mpState = "connected" => results # <<>> /\ MediaPipe!Told(results[Len(results)].result) = <<>>
  /\ mpNumber = Len(results) /\ mpStats.pushed = mpNumber
  /\ Newest(mpFrames, results, mpNumber)
  /\ mpState # "disconnected" => mpNumber = mpStats.polled + mpStats.dropped + Len(mpFrames)
  /\ Len(mpFrames) <= (IF mpMode = "latest" THEN 1 ELSE mpCapacity)
  /\ IF mpMode = "lossless" THEN mpStats.dropped = 0 ELSE mpStats.rejected = 0

LEMMA MediaPipeInit == MediaPipe!Init => MediaPipeInv
<1> SUFFICES ASSUME MediaPipe!Init PROVE MediaPipeInv
  OBVIOUS
<1>1. /\ detector \in MediaPipe!Detectors /\ mpState = "disconnected" /\ mpMode = "latest" /\ mpCapacity = 1
      /\ mpNumber = 0 /\ mpFrames = <<>> /\ results = <<>> /\ mpStats = MediaPipe!NoStats
  BY DEF MediaPipe!Init, MediaPipe!InitOf
<1>2. MediaPipeType
  BY <1>1 DEF MediaPipeType, MediaPipe!Modes, MediaPipe!NoStats
<1>3. Newest(mpFrames, results, mpNumber)
  BY <1>1 DEF Newest
<1> QED BY <1>1, <1>2, <1>3 DEF MediaPipeInv, MediaPipe!NoStats

\* The frame of a result joins the queue as the mode has it.
LEMMA MediaPipePushes ==
  ASSUME MediaPipeInv, ~MediaPipe!Full, NEW r \in MediaPipe!Usable,
         NEW frame, frame = [frameNumber |-> mpNumber + 1, actor |-> MediaPipe!Observed(r)],
         NEW taken \in Taken, taken.actor = MediaPipe!Observed(r)
  PROVE  LET pushed == MediaPipe!Pushed(frame)
         IN  /\ pushed \in Seq(Waiting) /\ Len(pushed) \in 0..(Len(mpFrames) + 1)
             /\ Newest(pushed, Append(results, taken), mpNumber + 1)
             /\ Len(pushed) <= (IF mpMode = "latest" THEN 1 ELSE mpCapacity)
             /\ mpMode = "lossless" => Len(pushed) = Len(mpFrames) + 1
<1> DEFINE pushed == MediaPipe!Pushed(frame)
           longer == Append(results, taken)
<1>1. /\ mpFrames \in Seq(Waiting) /\ results \in Seq(Taken) /\ mpNumber \in Nat /\ mpNumber = Len(results)
      /\ mpMode \in MediaPipe!Modes /\ mpCapacity \in Nat \ {0} /\ Len(mpFrames) \in Nat
      /\ Newest(mpFrames, results, mpNumber)
      /\ Len(mpFrames) <= (IF mpMode = "latest" THEN 1 ELSE mpCapacity)
  BY DEF MediaPipeInv, MediaPipeType
<1>2. frame \in Waiting
  BY <1>1 DEF Waiting
<1>3. /\ Len(longer) = mpNumber + 1 /\ longer[mpNumber + 1] = taken
      /\ \A k \in 1..mpNumber : longer[k] = results[k]
  BY <1>1
<1>4. longer[mpNumber + 1].actor = frame.actor /\ frame = [frameNumber |-> mpNumber + 1, actor |-> taken.actor]
  BY <1>3
<1> HIDE DEF longer, pushed
<1>5. CASE mpMode = "latest"
  <2>1. pushed = <<frame>>
    BY <1>5 DEF pushed, MediaPipe!Pushed
  <2>2. pushed \in Seq(Waiting) /\ Len(pushed) = 1 /\ pushed[1] = frame
    BY <1>2, <2>1
  <2>3. Newest(pushed, longer, mpNumber + 1)
    <3>1. ASSUME NEW i \in 1..Len(pushed)
          PROVE  /\ (mpNumber + 1) - Len(pushed) + i \in 1..Len(longer)
                 /\ pushed[i] = [frameNumber |-> (mpNumber + 1) - Len(pushed) + i,
                                 actor |-> longer[(mpNumber + 1) - Len(pushed) + i].actor]
      <4>1. i = 1 /\ (mpNumber + 1) - Len(pushed) + i = mpNumber + 1 /\ mpNumber + 1 \in 1..(mpNumber + 1)
        BY <1>1, <2>2
      <4> QED BY <1>3, <1>4, <2>2, <4>1
    <3> QED BY <3>1 DEF Newest
  <2>4. Len(pushed) \in 0..(Len(mpFrames) + 1) /\ Len(pushed) <= 1 /\ mpMode # "lossless"
    BY <1>1, <1>5, <2>2
  <2>5. Len(pushed) <= (IF mpMode = "latest" THEN 1 ELSE mpCapacity)
    BY <1>5, <2>4
  <2> QED BY <2>2, <2>3, <2>4, <2>5 DEF longer, pushed
<1>6. CASE mpMode # "latest" /\ Len(mpFrames) >= mpCapacity
  <2>1. pushed = Append(Tail(mpFrames), frame) /\ mpMode # "lossless"
    BY <1>6 DEF pushed, MediaPipe!Pushed, MediaPipe!Full
  <2>2. mpFrames # <<>> /\ Len(mpFrames) >= 1
    BY <1>1, <1>6
  <2>3. /\ Tail(mpFrames) \in Seq(Waiting) /\ Len(Tail(mpFrames)) = Len(mpFrames) - 1
        /\ \A i \in 1..(Len(mpFrames) - 1) : Tail(mpFrames)[i] = mpFrames[i + 1]
    BY <1>1, <2>2
  <2>4. /\ pushed \in Seq(Waiting) /\ Len(pushed) = Len(mpFrames) /\ pushed[Len(mpFrames)] = frame
        /\ \A i \in 1..(Len(mpFrames) - 1) : pushed[i] = mpFrames[i + 1]
    BY <1>1, <1>2, <2>1, <2>2, <2>3
  <2>5. Newest(pushed, longer, mpNumber + 1)
    <3>1. ASSUME NEW i \in 1..Len(pushed)
          PROVE  /\ (mpNumber + 1) - Len(pushed) + i \in 1..Len(longer)
                 /\ pushed[i] = [frameNumber |-> (mpNumber + 1) - Len(pushed) + i,
                                 actor |-> longer[(mpNumber + 1) - Len(pushed) + i].actor]
      <4> DEFINE k == mpNumber - Len(mpFrames) + (i + 1)
      <4>1. (mpNumber + 1) - Len(pushed) + i = k /\ i \in 1..Len(mpFrames)
        BY <1>1, <2>4
      <4>2. CASE i = Len(mpFrames)
        <5>1. k = mpNumber + 1 /\ k \in 1..(mpNumber + 1)
          BY <1>1, <4>2
        <5> QED BY <1>3, <1>4, <2>4, <4>1, <4>2, <5>1
      <4>3. CASE i # Len(mpFrames)
        <5>1. i \in 1..(Len(mpFrames) - 1) /\ i + 1 \in 1..Len(mpFrames)
          BY <1>1, <4>1, <4>3
        <5>2. k \in 1..mpNumber /\ mpFrames[i + 1] = [frameNumber |-> k, actor |-> results[k].actor]
          BY <1>1, <5>1 DEF Newest
        <5> HIDE DEF k
        <5>3. k \in 1..(mpNumber + 1) /\ longer[k] = results[k]
          BY <1>1, <1>3, <5>2
        <5> QED BY <1>3, <2>4, <4>1, <5>1, <5>2, <5>3
      <4> QED BY <4>2, <4>3
    <3> QED BY <3>1 DEF Newest
  <2> QED BY <1>1, <1>6, <2>1, <2>4, <2>5 DEF longer, pushed
<1>7. CASE mpMode # "latest" /\ ~(Len(mpFrames) >= mpCapacity)
  <2>1. pushed = Append(mpFrames, frame)
    BY <1>7 DEF pushed, MediaPipe!Pushed
  <2>2. /\ pushed \in Seq(Waiting) /\ Len(pushed) = Len(mpFrames) + 1 /\ pushed[Len(mpFrames) + 1] = frame
        /\ \A i \in 1..Len(mpFrames) : pushed[i] = mpFrames[i]
    BY <1>1, <1>2, <2>1
  <2>3. Newest(pushed, longer, mpNumber + 1)
    <3>1. ASSUME NEW i \in 1..Len(pushed)
          PROVE  /\ (mpNumber + 1) - Len(pushed) + i \in 1..Len(longer)
                 /\ pushed[i] = [frameNumber |-> (mpNumber + 1) - Len(pushed) + i,
                                 actor |-> longer[(mpNumber + 1) - Len(pushed) + i].actor]
      <4> DEFINE k == mpNumber - Len(mpFrames) + i
      <4>1. (mpNumber + 1) - Len(pushed) + i = k /\ i \in 1..(Len(mpFrames) + 1)
        BY <1>1, <2>2
      <4>2. CASE i = Len(mpFrames) + 1
        <5>1. k = mpNumber + 1 /\ k \in 1..(mpNumber + 1)
          BY <1>1, <4>2
        <5> QED BY <1>3, <1>4, <2>2, <4>1, <4>2, <5>1
      <4>3. CASE i # Len(mpFrames) + 1
        <5>1. i \in 1..Len(mpFrames)
          BY <1>1, <4>1, <4>3
        <5>2. k \in 1..mpNumber /\ mpFrames[i] = [frameNumber |-> k, actor |-> results[k].actor]
          BY <1>1, <5>1 DEF Newest
        <5> HIDE DEF k
        <5>3. k \in 1..(mpNumber + 1) /\ longer[k] = results[k]
          BY <1>1, <1>3, <5>2
        <5> QED BY <1>3, <2>2, <4>1, <5>1, <5>2, <5>3
      <4> QED BY <4>2, <4>3
    <3> QED BY <3>1 DEF Newest
  <2> QED BY <1>1, <1>7, <2>2, <2>3 DEF longer, pushed
<1> QED BY <1>5, <1>6, <1>7

LEMMA MediaPipeStep ==
  MediaPipeInv /\ [MediaPipe!Next]_MediaPipe!vars => MediaPipeInv'
<1> SUFFICES ASSUME MediaPipeInv, [MediaPipe!Next]_MediaPipe!vars PROVE MediaPipeInv'
  OBVIOUS
<1> USE DEF MediaPipe!buffer
<1>1. detector' = detector
  BY DEF MediaPipe!Next, MediaPipe!vars, MediaPipe!Open, MediaPipe!OpenRefused, MediaPipe!Close, MediaPipe!Forget,
         MediaPipe!Acquiring, MediaPipe!AcquireBadTime, MediaPipe!AcquireFull, MediaPipe!AcquireInvalid,
         MediaPipe!Acquire, MediaPipe!Poll
<1>2. MediaPipe!Usable' = MediaPipe!Usable
  BY <1>1 DEF MediaPipe!Usable, MediaPipe!Results, MediaPipe!Refused, MediaPipe!Groups, MediaPipe!Points
<1>3. \A r : MediaPipe!Told(r)' = MediaPipe!Told(r) /\ MediaPipe!Observed(r)' = MediaPipe!Observed(r)
  BY <1>1 DEF MediaPipe!Observed, MediaPipe!Told, MediaPipe!Observations, MediaPipe!Prefix, MediaPipe!Landmark,
              MediaPipe!Reports
<1>4. Taken' = Taken /\ Waiting' = Waiting
  BY <1>2, <1>3 DEF Taken, Waiting
<1>5. /\ detector \in MediaPipe!Detectors /\ mpMode \in MediaPipe!Modes /\ mpCapacity \in Nat \ {0}
      /\ mpNumber \in Nat /\ mpFrames \in Seq(Waiting) /\ results \in Seq(Taken) /\ Len(mpFrames) \in Nat
      /\ mpStats \in [pushed : Nat, polled : Nat, dropped : Nat, rejected : Nat]
      /\ mpStats.pushed \in Nat /\ mpStats.polled \in Nat /\ mpStats.dropped \in Nat /\ mpStats.rejected \in Nat
  BY DEF MediaPipeInv, MediaPipeType
<1>6. CASE MediaPipe!Open \/ MediaPipe!OpenRefused
  <2>1. /\ mpFrames' = <<>> /\ results' = <<>> /\ mpNumber' = 0 /\ mpStats' = MediaPipe!NoStats
        /\ mpState' # "connected" /\ mpMode' \in MediaPipe!Modes /\ mpCapacity' \in Nat \ {0}
    BY <1>5, <1>6, FrontendAssumptions
    DEF MediaPipe!Open, MediaPipe!OpenRefused, MediaPipe!Forget, MediaPipe!ConstantsAssumption
  <2>2. MediaPipeType'
    BY <1>1, <1>4, <1>5, <2>1 DEF MediaPipeType, MediaPipe!NoStats
  <2>3. Newest(mpFrames, results, mpNumber)'
    BY <2>1 DEF Newest
  <2>4. Len(mpFrames') = 0 /\ Len(results') = 0
    BY <2>1
  <2> QED BY <2>1, <2>2, <2>3, <2>4 DEF MediaPipeInv, MediaPipe!NoStats
<1>7. CASE MediaPipe!Close
  <2>1. /\ mpFrames' = <<>> /\ mpState' = "disconnected" /\ Len(mpFrames') = 0
        /\ UNCHANGED <<results, mpNumber, mpStats, mpMode, mpCapacity>>
    BY <1>7 DEF MediaPipe!Close
  <2>2. MediaPipeType'
    BY <1>1, <1>4, <1>5, <2>1 DEF MediaPipeType
  <2>3. Newest(mpFrames, results, mpNumber)'
    BY <2>1 DEF Newest
  <2> QED BY <1>5, <2>1, <2>2, <2>3 DEF MediaPipeInv
<1>8. CASE MediaPipe!AcquireBadTime \/ MediaPipe!AcquireInvalid \/ MediaPipe!AcquireFull
  <2>1. /\ mpState' = "degraded" /\ mpState # "disconnected"
        /\ UNCHANGED <<mpFrames, results, mpNumber, mpMode, mpCapacity>>
    BY <1>8 DEF MediaPipe!AcquireBadTime, MediaPipe!AcquireInvalid, MediaPipe!AcquireFull, MediaPipe!Refuse,
                MediaPipe!Acquiring
  <2>2. /\ mpStats' \in [pushed : Nat, polled : Nat, dropped : Nat, rejected : Nat]
        /\ mpStats'.pushed = mpStats.pushed /\ mpStats'.polled = mpStats.polled
        /\ mpStats'.dropped = mpStats.dropped
        /\ mpStats'.rejected = mpStats.rejected \/ mpMode = "lossless"
    BY <1>5, <1>8 DEF MediaPipe!AcquireBadTime, MediaPipe!AcquireInvalid, MediaPipe!AcquireFull, MediaPipe!Full
  <2>3. MediaPipeType'
    BY <1>1, <1>4, <1>5, <2>1, <2>2 DEF MediaPipeType
  <2>4. Newest(mpFrames, results, mpNumber)'
    BY <2>1 DEF MediaPipeInv, Newest
  <2> QED BY <1>5, <2>1, <2>2, <2>3, <2>4 DEF MediaPipeInv
<1>9. CASE MediaPipe!Acquire
  <2>1. /\ mpNumber' = mpNumber + 1 /\ UNCHANGED <<mpMode, mpCapacity>> /\ mpState # "disconnected"
        /\ ~MediaPipe!Full
    BY <1>9 DEF MediaPipe!Acquire, MediaPipe!Acquiring
  <2>2. PICK r \in MediaPipe!Usable :
          LET frame == [frameNumber |-> mpNumber + 1, actor |-> MediaPipe!Observed(r)]
          IN  /\ mpFrames' = MediaPipe!Pushed(frame)
              /\ mpStats' = [mpStats EXCEPT !.pushed = @ + 1,
                               !.dropped = @ + Len(mpFrames) + 1 - Len(MediaPipe!Pushed(frame))]
              /\ results' = Append(results, [result |-> r, actor |-> MediaPipe!Observed(r)])
              /\ mpState' = IF MediaPipe!Told(r) = <<>> THEN "connected" ELSE "degraded"
    BY <1>9 DEF MediaPipe!Acquire
  <2> DEFINE frame == [frameNumber |-> mpNumber + 1, actor |-> MediaPipe!Observed(r)]
             taken == [result |-> r, actor |-> MediaPipe!Observed(r)]
  <2>3. taken \in Taken /\ taken.result = r /\ taken.actor = MediaPipe!Observed(r)
    BY DEF Taken
  <2>4. /\ mpFrames' \in Seq(Waiting) /\ Len(mpFrames') \in 0..(Len(mpFrames) + 1)
        /\ Newest(mpFrames', Append(results, taken), mpNumber + 1)
        /\ Len(mpFrames') <= (IF mpMode = "latest" THEN 1 ELSE mpCapacity)
        /\ mpMode = "lossless" => Len(mpFrames') = Len(mpFrames) + 1
    <3>1. mpFrames' = MediaPipe!Pushed(frame)
      BY <2>2
    <3>2. frame = [frameNumber |-> mpNumber + 1, actor |-> MediaPipe!Observed(r)]
      OBVIOUS
    <3> HIDE DEF frame, taken
    <3> QED BY <2>1, <2>3, <3>1, <3>2, MediaPipePushes
  <2>5. /\ mpStats'.pushed = mpStats.pushed + 1 /\ mpStats'.polled = mpStats.polled
        /\ mpStats'.rejected = mpStats.rejected
        /\ mpStats'.dropped = mpStats.dropped + Len(mpFrames) + 1 - Len(mpFrames')
        /\ mpStats' \in [pushed : Nat, polled : Nat, dropped : Nat, rejected : Nat]
    <3>1. mpStats' = [mpStats EXCEPT !.pushed = @ + 1, !.dropped = @ + Len(mpFrames) + 1 - Len(mpFrames')]
      BY <2>2
    <3> DEFINE more == mpStats.dropped + Len(mpFrames) + 1 - Len(mpFrames')
    <3>2. Len(mpFrames') \in Nat /\ Len(mpFrames') <= Len(mpFrames) + 1
      BY <1>5, <2>4
    <3>3. more \in Nat
      BY <1>5, <3>2
    <3>4. mpStats' = [mpStats EXCEPT !.pushed = @ + 1, !.dropped = more]
      BY <3>1
    <3> HIDE DEF more
    <3>5. /\ mpStats'.pushed = mpStats.pushed + 1 /\ mpStats'.polled = mpStats.polled
          /\ mpStats'.rejected = mpStats.rejected /\ mpStats'.dropped = more
          /\ mpStats' \in [pushed : Nat, polled : Nat, dropped : Nat, rejected : Nat]
      <4>1. mpStats.pushed + 1 \in Nat
        BY <1>5
      <4>2. mpStats' = [pushed |-> mpStats.pushed + 1, polled |-> mpStats.polled, dropped |-> more,
                        rejected |-> mpStats.rejected]
        BY <1>5, <3>4
      <4> QED BY <1>5, <3>3, <4>1, <4>2
    <3> QED BY <3>5 DEF more
  <2>6. results' = Append(results, taken) /\ (mpState' = "connected" => MediaPipe!Told(r) = <<>>)
    BY <2>2
  <2>7. results' \in Seq(Taken) /\ Len(results') = Len(results) + 1 /\ results'[Len(results')] = taken
    <3> HIDE DEF taken
    <3> QED BY <1>5, <2>3, <2>6
  <2> HIDE DEF frame, taken
  <2>8. results' # <<>>
    BY <1>5, <2>7
  <2>9. MediaPipeType'
    BY <1>1, <1>4, <1>5, <2>1, <2>4, <2>5, <2>7 DEF MediaPipeType
  <2>10. Newest(mpFrames, results, mpNumber)'
    BY <2>1, <2>4, <2>6 DEF Newest
  <2>11. mpState' = "connected" => (MediaPipe!Told(results[Len(results)].result))' = <<>>
    BY <1>3, <2>3, <2>6, <2>7
  <2>12. mpNumber = Len(results) /\ mpStats.pushed = mpNumber
         /\ mpNumber = mpStats.polled + mpStats.dropped + Len(mpFrames)
         /\ (IF mpMode = "lossless" THEN mpStats.dropped = 0 ELSE mpStats.rejected = 0)
    BY <2>1 DEF MediaPipeInv
  <2>13. /\ mpNumber' = Len(results') /\ mpStats'.pushed = mpNumber'
         /\ mpNumber' = mpStats'.polled + mpStats'.dropped + Len(mpFrames')
         /\ IF mpMode' = "lossless" THEN mpStats'.dropped = 0 ELSE mpStats'.rejected = 0
    <3>1. Len(mpFrames') \in Nat /\ (mpMode = "lossless" => Len(mpFrames') = Len(mpFrames) + 1)
      BY <1>5, <2>4
    <3>2. mpNumber' = Len(results') /\ mpStats'.pushed = mpNumber'
      BY <2>1, <2>5, <2>7, <2>12
    <3>3. mpNumber' = mpStats'.polled + mpStats'.dropped + Len(mpFrames')
      BY <1>5, <2>1, <2>5, <2>12, <3>1
    <3>4. IF mpMode' = "lossless" THEN mpStats'.dropped = 0 ELSE mpStats'.rejected = 0
      BY <1>5, <2>1, <2>5, <2>12, <3>1
    <3> QED BY <3>2, <3>3, <3>4
  <2> QED BY <2>1, <2>4, <2>8, <2>9, <2>10, <2>11, <2>13 DEF MediaPipeInv
<1>10. CASE MediaPipe!Poll
  <2>1. /\ mpFrames # <<>> /\ mpFrames' = Tail(mpFrames) /\ mpStats' = [mpStats EXCEPT !.polled = @ + 1]
        /\ UNCHANGED <<results, mpNumber, mpMode, mpCapacity, mpState>>
    BY <1>10 DEF MediaPipe!Poll
  <2>2. /\ mpFrames' \in Seq(Waiting) /\ Len(mpFrames') = Len(mpFrames) - 1 /\ Len(mpFrames) >= 1
        /\ \A i \in 1..Len(mpFrames') : mpFrames'[i] = mpFrames[i + 1]
    BY <1>5, <2>1
  <2>3. /\ mpStats'.pushed = mpStats.pushed /\ mpStats'.polled = mpStats.polled + 1
        /\ mpStats'.dropped = mpStats.dropped /\ mpStats'.rejected = mpStats.rejected
        /\ mpStats' \in [pushed : Nat, polled : Nat, dropped : Nat, rejected : Nat]
    BY <1>5, <2>1
  <2>4. MediaPipeType'
    BY <1>1, <1>4, <1>5, <2>1, <2>2, <2>3 DEF MediaPipeType
  <2>5. Newest(mpFrames, results, mpNumber)'
    <3>1. Newest(mpFrames, results, mpNumber)
      BY DEF MediaPipeInv
    <3>2. ASSUME NEW i \in 1..Len(mpFrames')
          PROVE  LET k == mpNumber - Len(mpFrames') + i
                 IN  k \in 1..Len(results) /\ mpFrames'[i] = [frameNumber |-> k, actor |-> results[k].actor]
      <4>1. i + 1 \in 1..Len(mpFrames) /\ mpNumber - Len(mpFrames') + i = mpNumber - Len(mpFrames) + (i + 1)
        BY <1>5, <2>2
      <4> QED BY <2>2, <3>1, <4>1 DEF Newest
    <3> QED BY <2>1, <3>2 DEF Newest
  <2>6. mpState' = "connected" => results' # <<>> /\ (MediaPipe!Told(results[Len(results)].result))' = <<>>
    BY <1>3, <2>1 DEF MediaPipeInv
  <2> QED BY <1>5, <2>1, <2>2, <2>3, <2>4, <2>5, <2>6 DEF MediaPipeInv
<1>11. CASE UNCHANGED MediaPipe!vars
  <2>1. UNCHANGED <<mpFrames, results, mpNumber, mpMode, mpCapacity, mpState, mpStats>>
    BY <1>11 DEF MediaPipe!vars
  <2>2. MediaPipeType'
    BY <1>1, <1>4, <1>5, <2>1 DEF MediaPipeType
  <2>3. Newest(mpFrames, results, mpNumber)'
    BY <2>1 DEF MediaPipeInv, Newest
  <2>4. mpState' = "connected" => results' # <<>> /\ (MediaPipe!Told(results[Len(results)].result))' = <<>>
    BY <1>3, <2>1 DEF MediaPipeInv
  <2> QED BY <2>1, <2>2, <2>3, <2>4 DEF MediaPipeInv
<1> QED BY <1>6, <1>7, <1>8, <1>9, <1>10, <1>11 DEF MediaPipe!Next

LEMMA MediaPipeTells == MediaPipeInv => MediaPipe!ObservationsAreDistinct
<1> SUFFICES ASSUME MediaPipeInv, NEW n \in DOMAIN results
             PROVE  LET actor == results[n].actor
                        names == IF detector = "face" THEN actor ELSE [i \in DOMAIN actor |-> actor[i].id]
                    IN  /\ MediaPipe!IsInjective(names)
                        /\ detector # "face" => Len(actor) = Count * Len(results[n].result)
                        /\ (n = Len(results) /\ mpState = "connected" /\ detector # "face")
                             => \A i \in DOMAIN actor : actor[i].position
  BY DEF MediaPipe!ObservationsAreDistinct
<1>1. results[n] \in Taken
  BY DEF MediaPipeInv, MediaPipeType
<1>2. PICK r \in MediaPipe!Usable : results[n] = [result |-> r, actor |-> MediaPipe!Observed(r)]
  BY <1>1 DEF Taken
<1>3. results[n].result = r /\ results[n].actor = MediaPipe!Observed(r)
  BY <1>2
<1>4. n = Len(results) /\ mpState = "connected" => MediaPipe!Told(r) = <<>>
  BY <1>3 DEF MediaPipeInv
<1>5. detector \in MediaPipe!Detectors
  BY DEF MediaPipeInv, MediaPipeType
<1> QED BY <1>3, <1>4, <1>5, ObservedIsDistinct

LEMMA MediaPipeWhole == MediaPipeInv => MediaPipe!FramesAreWhole
<1> SUFFICES ASSUME MediaPipeInv PROVE MediaPipe!FramesAreWhole
  OBVIOUS
<1>1. mpFrames \in Seq(Waiting) /\ results \in Seq(Taken)
  BY DEF MediaPipeInv, MediaPipeType
<1>2. DOMAIN mpFrames = 1..Len(mpFrames) /\ DOMAIN results = 1..Len(results)
  BY <1>1
<1> QED BY <1>2 DEF MediaPipeInv, Newest, MediaPipe!FramesAreWhole

\* What a MediaPipe connector makes of a result names no observation twice and
\* lacks no landmark; its frames are numbered without a gap, and those a caller
\* does not get are the oldest and counted: for every count of landmarks, score,
\* list of shapes, capacity and number of calls.
THEOREM DetectionsTold == MediaPipe!Spec => []DetectionsInvariant
<1>1. MediaPipe!Init => MediaPipeInv
  BY MediaPipeInit
<1>2. MediaPipeInv /\ [MediaPipe!Next]_MediaPipe!vars => MediaPipeInv'
  BY MediaPipeStep
<1>3. MediaPipeInv => DetectionsInvariant
  BY MediaPipeTells, MediaPipeWhole DEF DetectionsInvariant, MediaPipe!DetectionsInvariant
<1> QED BY <1>1, <1>2, <1>3, PTL DEF MediaPipe!Spec
=============================================================================
