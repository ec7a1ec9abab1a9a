------------------------------ MODULE TcpSockets ------------------------------
(***************************************************************************)
(* TcpStream and TcpListener (Tcp.cpp), as POSIX builds them, over a kernel   *)
(* that hands out descriptors and takes them back.  A closed descriptor is    *)
(* handed out again at once, so a stream that kept a stale one would close    *)
(* another's.  A write is the loop of sends it is; bytes are numbered.        *)
(***************************************************************************)
EXTENDS Naturals, Sequences

CONSTANTS
  Streams,                 \* TcpStream objects
  Handles,                 \* the descriptors the kernel may hand out
  Candidates,              \* addresses a listen address resolves to
  MaxBytes                 \* bytes offered to one connection

Closed == 0                \* _socket == -1
HandleAssumption == Handles \subseteq Nat \ {Closed}
BytesAssumption == MaxBytes \in Nat

VARIABLES
  socket, listener,        \* _socket of each stream, and of the listener
  bound,                   \* _bound is not empty
  open, nonBlocking,       \* the kernel's descriptors, and those that never block
  shut,                    \* the descriptors whose writing side is shut down
  wire,                    \* what each descriptor has sent
  offered,                 \* how much of its bytes each caller counts as written
  call,                    \* <<>> or <<the write in progress>>: [stream, size, written]
  status                   \* what the last call told its caller

streams == <<socket, listener, bound, open, nonBlocking, shut>>
vars == <<streams, wire, offered, call, status>>

Init ==
  /\ socket = [s \in Streams |-> Closed] /\ listener = Closed /\ bound = FALSE
  /\ open = {} /\ nonBlocking = {} /\ shut = {}
  /\ wire = [h \in Handles |-> <<>>] /\ offered = [h \in Handles |-> 0]
  /\ call = <<>> /\ status = "none"

\* The kernel's next descriptor, the lowest that is free.
Lowest(used) == CHOOSE h \in Handles \ used : \A k \in Handles \ used : h <= k

Idle == call = <<>> /\ UNCHANGED call

\* CloseSocket, were it -1 nothing happens.
Without(handles, h) == handles \ {h}

NewConnection(h) ==
  /\ shut' = shut \ {h}
  /\ wire' = [wire EXCEPT ![h] = <<>>] /\ offered' = [offered EXCEPT ![h] = 0]

-----------------------------------------------------------------------------
(* TcpStream                                                                *)

Close(s) ==
  /\ Idle
  /\ open' = Without(open, socket[s]) /\ nonBlocking' = Without(nonBlocking, socket[s])
  /\ socket' = [socket EXCEPT ![s] = Closed] /\ status' = "closed"
  /\ UNCHANGED <<listener, bound, shut, wire, offered>>

\* The old connection is closed whatever becomes of the new one.
Connect(s, outcome) ==
  LET kept == Without(open, socket[s])
      quiet == Without(nonBlocking, socket[s])
      h == Lowest(kept)
  IN  /\ Idle
      /\ CASE outcome \in {"unresolved", "unconfigured", "refused"} ->
                /\ open' = kept /\ nonBlocking' = quiet
                /\ socket' = [socket EXCEPT ![s] = Closed]
                /\ status' = "Failed" /\ UNCHANGED <<shut, wire, offered>>
           [] outcome \in {"Connected", "InProgress"} ->
                /\ kept # Handles
                /\ open' = kept \cup {h} /\ nonBlocking' = quiet \cup {h}
                /\ socket' = [socket EXCEPT ![s] = h]
                /\ status' = outcome /\ NewConnection(h)
      /\ UNCHANGED <<listener, bound>>

FinishConnect(s, outcome) ==
  /\ Idle
  /\ IF socket[s] = Closed
     THEN status' = "Failed" /\ UNCHANGED <<socket, open, nonBlocking>>
     ELSE IF outcome \in {"Connected", "InProgress"}
     THEN status' = outcome /\ UNCHANGED <<socket, open, nonBlocking>>
     ELSE /\ status' = "Failed" /\ socket' = [socket EXCEPT ![s] = Closed]
          /\ open' = Without(open, socket[s]) /\ nonBlocking' = Without(nonBlocking, socket[s])
  /\ UNCHANGED <<listener, bound, shut, wire, offered>>

\* An accepted stream is moved into the session that will own it.
Move(from, to) ==
  /\ Idle /\ from # to
  /\ open' = Without(open, socket[to]) /\ nonBlocking' = Without(nonBlocking, socket[to])
  /\ socket' = [socket EXCEPT ![to] = socket[from], ![from] = Closed]
  /\ status' = "moved" /\ UNCHANGED <<listener, bound, shut, wire, offered>>

Read(s, outcome) ==
  /\ Idle
  /\ status' = IF socket[s] = Closed THEN "Failed" ELSE outcome
  /\ UNCHANGED <<streams, wire, offered>>

\* A half-close: what was written still arrives, and nothing after it.
ShutdownWrite(s) ==
  /\ Idle /\ shut' = shut \cup ({socket[s]} \ {Closed})
  /\ UNCHANGED <<socket, listener, bound, open, nonBlocking, wire, offered, status>>

-----------------------------------------------------------------------------
(* Write: a loop of sends                                                   *)

Write(s, size) ==
  /\ call = <<>>
  /\ IF socket[s] = Closed
     THEN status' = "Failed" /\ UNCHANGED call
     ELSE /\ offered[socket[s]] + size <= MaxBytes
          /\ call' = <<[stream |-> s, size |-> size, written |-> 0]>> /\ UNCHANGED status
  /\ UNCHANGED <<streams, wire, offered>>

Writing == call # <<>> /\ UNCHANGED streams
Handle == socket[call[1].stream]

\* The bytes from the caller's data, after those already sent.
\* Fault: always from the start of the data.
FromStart(n) == [i \in 1..n |-> offered[Handle] + i]

Data(n) == [i \in 1..n |-> offered[Handle] + call[1].written + i]

Send(n) ==
  /\ Writing /\ call[1].written + n <= call[1].size
  /\ n > 0 => Handle \notin shut
  /\ wire' = [wire EXCEPT ![Handle] = @ \o Data(n)]
  /\ call' = <<[call[1] EXCEPT !.written = @ + n]>>
  /\ UNCHANGED <<offered, status>>

\* A caller keeps what Write reported and offers the rest again.
Return(outcome) ==
  /\ Writing
  /\ (outcome = "Ok") = (call[1].written = call[1].size)
  /\ offered' = [offered EXCEPT ![Handle] = @ + call[1].written]
  /\ call' = <<>> /\ status' = outcome /\ UNCHANGED wire

-----------------------------------------------------------------------------
(* TcpListener                                                              *)

\* Every address in turn: one that cannot be had is closed again.
ListenerOpen(works) ==
  LET kept == Without(open, listener)
      quiet == Without(nonBlocking, listener)
      h == Lowest(kept)
  IN  /\ Idle
      /\ IF kept # Handles /\ \E c \in 1..Candidates : works[c]
         THEN /\ listener' = h /\ bound' = TRUE /\ status' = "listening"
              /\ open' = kept \cup {h} /\ nonBlocking' = quiet \cup {h}
         ELSE /\ listener' = Closed /\ bound' = FALSE /\ status' = "Failed"
              /\ open' = kept /\ nonBlocking' = quiet
      /\ UNCHANGED <<socket, shut, wire, offered>>

ListenerClose ==
  /\ Idle
  /\ open' = Without(open, listener) /\ nonBlocking' = Without(nonBlocking, listener)
  /\ listener' = Closed /\ bound' = FALSE /\ status' = "closed"
  /\ UNCHANGED <<socket, shut, wire, offered>>

\* What out held is closed; the new connection already has its descriptor.
\* Fault: it is forgotten.
TakesAsIs(handles, s) == handles

Takes(handles, s) == Without(handles, socket[s])

Accept(s, outcome) ==
  LET h == Lowest(open)
  IN  /\ Idle
      /\ IF listener # Closed /\ open # Handles /\ outcome = "Accepted"
         THEN /\ open' = Takes(open, s) \cup {h} /\ nonBlocking' = Takes(nonBlocking, s) \cup {h}
              /\ socket' = [socket EXCEPT ![s] = h]
              /\ status' = "Accepted" /\ NewConnection(h)
         ELSE /\ status' = IF listener = Closed THEN "Failed" ELSE IF outcome = "Accepted" THEN "None" ELSE outcome
              /\ UNCHANGED <<socket, open, nonBlocking, shut, wire, offered>>
      /\ UNCHANGED <<listener, bound>>

Next ==
  \/ \E s \in Streams :
       \/ Close(s)
       \/ ShutdownWrite(s)
       \/ \E o \in {"unresolved", "unconfigured", "refused", "Connected", "InProgress"} : Connect(s, o)
       \/ \E o \in {"Connected", "InProgress", "refused"} : FinishConnect(s, o)
       \/ \E t \in Streams : Move(s, t)
       \/ \E o \in {"Ok", "Closed", "WouldBlock", "Failed"} : Read(s, o)
       \/ \E n \in 1..MaxBytes : Write(s, n)
       \/ \E o \in {"Accepted", "None", "Failed"} : Accept(s, o)
  \/ \E n \in 0..MaxBytes : Send(n)
  \/ \E o \in {"Ok", "WouldBlock", "Failed"} : Return(o)
  \/ \E works \in [1..Candidates -> BOOLEAN] : ListenerOpen(works)
  \/ ListenerClose

Spec == Init /\ [][Next]_vars

-----------------------------------------------------------------------------
(* Properties                                                               *)

Held == {s \in Streams : socket[s] # Closed}

\* Through every failure, reuse and move each descriptor the process holds is
\* one object's, none is left behind or closed under its owner, none can
\* block the host's poll ("non-blocking always"), and a connection has sent
\* its caller's bytes once and in order, whatever a write was cut into.
StreamsOwnTheirSockets ==
  /\ open = {socket[s] : s \in Held} \cup ({listener} \ {Closed})
  /\ \A s, t \in Held : s # t => socket[s] # socket[t]
  /\ \A s \in Held : socket[s] # listener
  /\ nonBlocking = open
  /\ bound = (listener # Closed)
  /\ \A s \in Held : wire[socket[s]] = [i \in 1..Len(wire[socket[s]]) |-> i]
                     /\ (call = <<>> => Len(wire[socket[s]]) = offered[socket[s]])
=============================================================================
