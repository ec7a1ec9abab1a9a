--------------------------- MODULE PythonConnector ---------------------------
(***************************************************************************)
(* Connector of the Python binding (bindings/python/motion_connectors/      *)
(* _connector.py): threads that share one object over the C ABI.  ctypes    *)
(* lets the other threads run during every call, so a call is two steps;    *)
(* a view is copied in steps of its own.  The C side keeps the reason of    *)
(* its last failure and a text an open replaces, each the number of the     *)
(* call that wrote it, and the memory of the frames it has handed out.      *)
(***************************************************************************)
EXTENDS Integers, Sequences, FiniteSets

CONSTANTS
  Threads,       \* the threads that share the connector
  Daemons,       \* those of them the interpreter does not wait for
  Handles,       \* the frame or diagnostic handles the library may hand out
  MaxCalls,      \* bound: calls of the connector's methods
  Views          \* views that are copied out of one frame

ThreadsAssumption ==
  /\ "free" \notin Threads /\ Daemons \subseteq Threads
  /\ Cardinality(Handles) >= Cardinality(Threads) /\ Views \in Nat \ {0}

Nobody == "free"
\* What raises with the reason of last_error, what hands out a handle, what
\* only reads the connector, and the rest.
Reasoned == {"open", "push_input", "flush_input"}
Taking == {"poll", "poll_diagnostic"}
Texts == {"source_profile", "last_error"}
Operations == Reasoned \cup Taking \cup Texts \cup {"close", "state"}

VARIABLES
  lock,          \* _lock: a thread or "free"
  at,            \* where each thread is
  alive,         \* the handle is not destroyed
  inside,        \* threads in a C call on it
  lastError, text, frames, diagnostics, memory, \* the C side
  calls,         \* calls begun
  outcome        \* what a method last gave its caller: [wanted, got]

library == <<alive, lastError, text, frames, diagnostics, memory>>
vars == <<lock, at, inside, library, calls, outcome>>

Out == [phase |-> "out", op |-> "none", loop |-> FALSE, call |-> 0, handle |-> 0, seen |-> <<>>, wanted |-> 0]

Init ==
  /\ lock = Nobody /\ at = [t \in Threads |-> Out] /\ inside = {}
  /\ alive = TRUE /\ lastError = 0 /\ text = 0 /\ frames = <<>> /\ diagnostics = <<>>
  /\ memory = [h \in Handles |-> 0] /\ calls = 0 /\ outcome = [wanted |-> 0, got |-> 0]

-----------------------------------------------------------------------------
(* A call under the lock.                                                   *)

\* A method is called; frames() and diagnostics() are polls until one is empty.
Enter(t, op, loop) ==
  /\ at[t].phase = "out" /\ calls < MaxCalls /\ alive
  /\ loop => op \in Taking
  /\ at' = [at EXCEPT ![t] = [Out EXCEPT !.phase = "waiting", !.op = op, !.loop = loop]]
  /\ UNCHANGED <<lock, inside, library, calls, outcome>>

Call(t) ==
  /\ at[t].phase = "waiting" /\ lock = Nobody /\ calls < MaxCalls
  /\ lock' = t /\ inside' = inside \cup {t} /\ calls' = calls + 1
  /\ at' = [at EXCEPT ![t].phase = "calling", ![t].call = calls + 1]
  /\ UNCHANGED <<library, outcome>>

\* The reason is read before another call can replace it.
\* Fault: after the lock is let go.
KeptForTheReasonNot(t) == Nobody

KeptForTheReason(t) == t

Returning(t) == at[t].phase = "calling" /\ inside' = inside \ {t} /\ UNCHANGED <<alive, calls>>

Leave(t) == lock' = Nobody /\ at' = [at EXCEPT ![t] = Out]

\* A call that may push a frame or raise a diagnostic.
Adds(t, queue) == queue' \in {queue, Append(queue, at[t].call)}

\* motion_connector_open asks the source, whose Open starts with a Close and may
\* fail after it; other failures leave all but the reason.
SourceOpens(t) == at[t].op = "open" /\ text' = at[t].call /\ frames' = <<>> /\ Adds(t, diagnostics)

Fails(t) ==
  /\ Returning(t) /\ at[t].op \in Reasoned
  /\ lastError' = at[t].call
  /\ lock' = KeptForTheReason(t)
  /\ at' = [at EXCEPT ![t].phase = "failed"]
  /\ SourceOpens(t) \/ UNCHANGED <<text, frames, diagnostics>>
  /\ UNCHANGED <<memory, outcome>>

\* What succeeds clears the reason.
Opens(t) == Returning(t) /\ SourceOpens(t) /\ Leave(t) /\ lastError' = 0 /\ UNCHANGED <<memory, outcome>>

Closes(t) ==
  /\ Returning(t) /\ at[t].op = "close" /\ Leave(t)
  /\ lastError' = 0 /\ frames' = <<>> /\ Adds(t, diagnostics)
  /\ UNCHANGED <<text, memory, outcome>>

Pushes(t) ==
  /\ Returning(t) /\ at[t].op \in {"push_input", "flush_input"} /\ Leave(t)
  /\ lastError' = 0 /\ Adds(t, frames) /\ Adds(t, diagnostics)
  /\ UNCHANGED <<text, memory, outcome>>

Queries(t) ==
  /\ Returning(t) /\ at[t].op = "state" /\ Leave(t)
  /\ UNCHANGED <<lastError, text, frames, diagnostics, memory, outcome>>

-----------------------------------------------------------------------------
(* poll and poll_diagnostic: the handle is taken under the lock, its views  *)
(* copied after it, and it is released whatever became of the copy.         *)

Pending(op) == IF op = "poll" THEN frames ELSE diagnostics

Empty(t) ==
  /\ Returning(t) /\ at[t].op \in Taking /\ Pending(at[t].op) = <<>>
  /\ Leave(t) /\ lastError' = 0
  /\ UNCHANGED <<text, frames, diagnostics, memory, outcome>>

Takes(t) ==
  /\ Returning(t) /\ at[t].op \in Taking /\ Pending(at[t].op) # <<>>
  /\ lock' = Nobody /\ lastError' = 0
  /\ \E h \in Handles :
       /\ memory[h] = 0 /\ \A k \in Handles : memory[k] = 0 => h <= k
       /\ memory' = [memory EXCEPT ![h] = Head(Pending(at[t].op))]
       /\ at' = [at EXCEPT ![t].phase = "copying", ![t].handle = h,
                           ![t].wanted = Head(Pending(at[t].op))]
  /\ IF at[t].op = "poll" THEN frames' = Tail(frames) /\ UNCHANGED diagnostics
                          ELSE diagnostics' = Tail(diagnostics) /\ UNCHANGED frames
  /\ UNCHANGED <<text, outcome>>

\* _read_frame and _read_diagnostic, a view at a time.
Copy(t) ==
  /\ at[t].phase = "copying" /\ Len(at[t].seen) < Views
  /\ at' = [at EXCEPT ![t].seen = Append(@, memory[at[t].handle])]
  /\ UNCHANGED <<lock, inside, library, calls, outcome>>

\* The `finally` of both: also when a view raised half way.
\* Fault: only when the copy is whole.
ReleasedWhenWhole(t) ==
  IF Len(at[t].seen) = Views THEN [memory EXCEPT ![at[t].handle] = 0] ELSE memory

MemoryFreed(t) == [memory EXCEPT ![at[t].handle] = 0]

Release(t) ==
  LET whole == Len(at[t].seen) = Views
  IN  /\ at[t].phase = "copying"
      /\ memory' = MemoryFreed(t)
      /\ outcome' = IF ~whole THEN outcome
                    ELSE [wanted |-> at[t].wanted,
                          got |-> IF \A i \in 1..Views : at[t].seen[i] = at[t].seen[1]
                                  THEN at[t].seen[1] ELSE -1]
      /\ at' = [at EXCEPT ![t] = IF whole /\ at[t].loop
                                 THEN [Out EXCEPT !.phase = "waiting", !.op = at[t].op, !.loop = TRUE]
                                 ELSE Out]
      /\ UNCHANGED <<lock, inside, alive, lastError, text, frames, diagnostics, calls>>

-----------------------------------------------------------------------------
(* _read_view: a view of the connector, then its text.                      *)

Content(op) == IF op = "source_profile" THEN text ELSE lastError

View(t) ==
  /\ Returning(t) /\ at[t].op \in Texts
  /\ at' = [at EXCEPT ![t].phase = "viewing", ![t].wanted = Content(at[t].op)]
  /\ UNCHANGED <<lock, lastError, text, frames, diagnostics, memory, outcome>>

ViewReason(t) ==
  /\ at[t].phase = "failed" /\ inside = {}
  /\ at' = [at EXCEPT ![t].phase = "viewing", ![t].wanted = at[t].call]
  /\ UNCHANGED <<lock, inside, library, calls, outcome>>

\* The text is copied, and returned or raised as the reason.
Text(t) ==
  /\ at[t].phase = "viewing"
  /\ outcome' = [wanted |-> at[t].wanted, got |-> Content(at[t].op)]
  /\ Leave(t) /\ UNCHANGED <<inside, library, calls>>

-----------------------------------------------------------------------------
\* The finalizer, without the lock: the object is collected when no thread is
\* in a method, and at the interpreter's exit, which waits for no daemon.
Finalize ==
  /\ alive /\ \A t \in Threads \ Daemons : at[t].phase = "out"
  /\ alive' = FALSE
  /\ UNCHANGED <<lock, at, inside, lastError, text, frames, diagnostics, memory, calls, outcome>>

Next ==
  \/ \E t \in Threads :
       \/ \E op \in Operations, loop \in BOOLEAN : Enter(t, op, loop)
       \/ Call(t) \/ Fails(t) \/ Opens(t) \/ Closes(t) \/ Pushes(t) \/ Queries(t)
       \/ Empty(t) \/ Takes(t) \/ Copy(t) \/ Release(t) \/ View(t) \/ ViewReason(t) \/ Text(t)
  \/ Finalize

Spec == Init /\ [][Next]_vars

-----------------------------------------------------------------------------
(* Properties                                                               *)

\* "The connector handle is one thread's at a time (C_ABI 6) ... so each
\* connector holds a lock rather than leaving that rule to the caller": no two
\* threads are in a call on it, and it is not destroyed under one that is.
OneThreadInTheHandle == Cardinality(inside) <= 1 /\ (~alive => inside = {})

\* Whatever the threads interleave, a method gives its caller what that call
\* produced: a frame read from memory still its own, a text nothing replaced
\* between the view and the copy, as an exception's reason the one its own call
\* failed for; and every handle the library handed out is held by one thread
\* that will release it, "so no Python object ever holds a pointer whose
\* lifetime could be misjudged".
EveryCallGetsItsOwn ==
  /\ OneThreadInTheHandle
  /\ outcome.got = outcome.wanted
  /\ \A h \in Handles : memory[h] # 0 <=>
       Cardinality({t \in Threads : at[t].phase = "copying" /\ at[t].handle = h}) = 1
=============================================================================
