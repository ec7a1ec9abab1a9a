--------------------------- MODULE WebSocketFraming ---------------------------
(***************************************************************************)
(* The framing of motionConnectorWebSocket (Rfc6455.cpp): FrameReader, fed  *)
(* by reads that cut the stream anywhere, and AppendFrame, which writes.     *)
(* A frame is its header's fields and its payload; where its bytes end is    *)
(* kept, their values are not.  Lengths and header sizes are scaled down.    *)
(* A text's bytes are ASCII, the lead of a two-byte sequence, a              *)
(* continuation, or none of a valid sequence.                                *)
(***************************************************************************)
EXTENDS Naturals, Sequences, FiniteSets
LOCAL INSTANCE FiniteSetsExt
LOCAL INSTANCE SequencesExt

CONSTANTS
  Streams,                 \* what a peer may send: sequences of frames
  ExpectMasked,
  MaxMessageBytes,
  Max7, Max16,             \* longest 7-bit and 16-bit lengths: 125 and 65535
  Bytes16, Bytes64, BytesMask,  \* header bytes they add: 2, 8 and 4
  Ascii, Lead, Trail       \* bytes of a text

FramingAssumption ==
  MaxMessageBytes \in Nat \ {0} /\ Max7 \in Nat /\ Max16 \in Nat /\ Max7 < Max16

VARIABLES
  stream, arrived,         \* the frames sent, and how many of their bytes were read
  next, offset,            \* the frame _buffer begins with, and where it starts
  inMessage, message, stopped,
  events

vars == <<stream, arrived, next, offset, inMessage, message, stopped, events>>

Opcodes == {"Continuation", "Text", "Binary", "Close", "Ping", "Pong"}

Frame(fin, opcode, form, payload) ==
  [fin |-> fin, opcode |-> opcode, reserved |-> FALSE, masked |-> ExpectMasked,
   form |-> form, top |-> FALSE, statusValid |-> TRUE, payload |-> payload]

Length(frame) == Len(frame.payload)

Control(frame) == frame.opcode \in {"Close", "Ping", "Pong"}

HeaderBytes(frame) ==
  2 + (CASE frame.form = 7 -> 0 [] frame.form = 16 -> Bytes16 [] frame.form = 64 -> Bytes64)
    + (IF frame.masked THEN BytesMask ELSE 0)

FrameBytes(frame) == HeaderBytes(frame) + Length(frame)

\* Where frame i of a stream starts.
StartOf(frames, i) == FoldLeft(LAMBDA sum, frame : sum + FrameBytes(frame), 0, SubSeq(frames, 1, i - 1))

StreamBytes == StartOf(stream, Len(stream) + 1)

IsUtf8(text) ==
  LET from[i \in 1..Len(text) + 2] ==
        \/ i > Len(text)
        \/ text[i] = Ascii /\ from[i + 1]
        \/ i < Len(text) /\ text[i] = Lead /\ text[i + 1] = Trail /\ from[i + 2]
  IN  from[1]

-----------------------------------------------------------------------------
(* AppendFrame: the shortest length, masked on the client's side.           *)

\* Fault: the longest length of a form takes the next one.
ShortestStrict(length) == IF length < Max7 THEN 7 ELSE IF length < Max16 THEN 16 ELSE 64

Shortest(length) == IF length <= Max7 THEN 7 ELSE IF length <= Max16 THEN 16 ELSE 64

AppendFrame(opcode, payload) == Frame(TRUE, opcode, Shortest(Len(payload)), payload)

-----------------------------------------------------------------------------
(* FrameReader                                                              *)

InitOf(given) ==
  /\ stream = given /\ arrived = 0
  /\ next = 1 /\ offset = 0
  /\ inMessage = FALSE /\ message = <<>> /\ stopped = FALSE
  /\ events = <<>>

Init == \E given \in Streams : InitOf(given)

Available == arrived - offset

\* What the first two bytes already refuse.
BadStart(frame) ==
  \/ frame.reserved
  \/ frame.opcode \notin Opcodes
  \/ Control(frame) /\ (~frame.fin \/ frame.form # 7)
  \/ frame.masked # ExpectMasked

BadLength(frame) ==
  \/ frame.form = 16 /\ Length(frame) <= Max7
  \/ frame.form = 64 /\ (frame.top \/ Length(frame) <= Max16)

\* Fault: the bound is held against each fragment.
TooLargeAlone(frame) == Length(frame) > MaxMessageBytes

TooLarge(frame) == Length(frame) > MaxMessageBytes - (IF inMessage THEN Len(message) ELSE 0)

DataFault(frame) ==
  CASE Control(frame) -> "none"
    [] (frame.opcode = "Continuation") # inMessage -> "ProtocolViolation"
    [] frame.opcode = "Binary" -> "UnsupportedMessage"
    [] TooLarge(frame) -> "MessageTooLarge"
    [] OTHER -> "none"

Raise(fault) == [kind |-> "Fault", fault |-> fault, byte |-> offset]

\* _Fault
Fail(fault) ==
  /\ events' = Append(events, Raise(fault))
  /\ stopped' = TRUE /\ message' = <<>>
  /\ UNCHANGED <<stream, arrived, next, offset, inMessage>>

Consumed(frame) == next' = next + 1 /\ offset' = offset + FrameBytes(frame)

BadHeader(frame) == BadLength(frame) \/ DataFault(frame) # "none"

\* How much of a frame must be there for it to be refused or read.
Needs(frame) ==
  IF BadStart(frame) THEN 2 ELSE IF BadHeader(frame) THEN HeaderBytes(frame) ELSE FrameBytes(frame)

Readable == ~stopped /\ next <= Len(stream) /\ Available >= Needs(stream[next])

\* Next: the frame is refused before its payload is there.
Refuse(frame) ==
  /\ BadStart(frame) \/ BadHeader(frame)
  /\ Fail(IF BadStart(frame) \/ BadLength(frame) THEN "ProtocolViolation" ELSE DataFault(frame))

\* A close frame's payload: nothing, or a status and a reason.
CloseFault(frame) ==
  CASE Length(frame) = 0 -> "none"
    [] Length(frame) = 1 \/ ~frame.statusValid -> "ProtocolViolation"
    [] ~IsUtf8(SubSeq(frame.payload, 3, Length(frame))) -> "InvalidUtf8"
    [] OTHER -> "none"

ReadControl(frame) ==
  /\ Control(frame) /\ ~BadStart(frame) /\ ~BadHeader(frame)
  /\ LET fault == IF frame.opcode = "Close" THEN CloseFault(frame) ELSE "none"
     IN  /\ events' = Append(events, IF fault # "none" THEN Raise(fault)
                                     ELSE [kind |-> frame.opcode, payload |-> frame.payload,
                                           byte |-> offset])
         /\ stopped' = (frame.opcode = "Close")
         /\ message' = IF fault # "none" THEN <<>> ELSE message
  /\ Consumed(frame)
  /\ UNCHANGED <<stream, arrived, inMessage>>

\* A fragment is kept; the last one delivers the message.
ReadData(frame) ==
  /\ ~Control(frame) /\ ~BadStart(frame) /\ ~BadHeader(frame)
  /\ LET whole == message \o frame.payload
     IN  /\ inMessage' = ~frame.fin
         /\ message' = IF frame.fin THEN <<>> ELSE whole
         /\ stopped' = (frame.fin /\ ~IsUtf8(whole))
         /\ events' = IF ~frame.fin THEN events
                      ELSE Append(events, IF IsUtf8(whole)
                                          THEN [kind |-> "Text", payload |-> whole, byte |-> offset]
                                          ELSE Raise("InvalidUtf8"))
  /\ Consumed(frame)
  /\ UNCHANGED <<stream, arrived>>

NextEvent ==
  /\ Readable
  /\ \/ Refuse(stream[next])
     \/ ReadControl(stream[next])
     \/ ReadData(stream[next])

\* Append: a read of n more bytes, once Next has nothing more to say.
Read(n) ==
  /\ ~Readable
  /\ arrived' = arrived + n
  /\ UNCHANGED <<stream, next, offset, inMessage, message, stopped, events>>

Next == NextEvent \/ \E n \in 1..StreamBytes - arrived : Read(n)

Spec == Init /\ [][Next]_vars

-----------------------------------------------------------------------------
(* What a stream means, whatever the reads.                                  *)

DataBefore(i) == {j \in 1..i - 1 : ~Control(stream[j])}

Open(i) == DataBefore(i) # {} /\ ~stream[Max(DataBefore(i))].fin

\* The text of the message frame i belongs to, up to frame i.
TextTo(i) ==
  FlattenSeq([j \in 1..i |->
    IF ~Control(stream[j]) /\ ~\E k \in j..i - 1 : ~Control(stream[k]) /\ stream[k].fin
    THEN stream[j].payload ELSE <<>>])

FaultOf(i) ==
  LET frame == stream[i]
  IN  CASE BadStart(frame) \/ BadLength(frame) -> "ProtocolViolation"
        [] frame.opcode = "Close" -> CloseFault(frame)
        [] Control(frame) -> "none"
        [] (frame.opcode = "Continuation") # Open(i) -> "ProtocolViolation"
        [] frame.opcode = "Binary" -> "UnsupportedMessage"
        [] Len(TextTo(i)) > MaxMessageBytes -> "MessageTooLarge"
        [] frame.fin /\ ~IsUtf8(TextTo(i)) -> "InvalidUtf8"
        [] OTHER -> "none"

Speaks(i) == FaultOf(i) # "none" \/ Control(stream[i]) \/ stream[i].fin

EventOf(i) ==
  CASE FaultOf(i) # "none" -> [kind |-> "Fault", fault |-> FaultOf(i), byte |-> StartOf(stream, i)]
    [] Control(stream[i]) -> [kind |-> stream[i].opcode, payload |-> stream[i].payload,
                              byte |-> StartOf(stream, i)]
    [] OTHER -> [kind |-> "Text", payload |-> TextTo(i), byte |-> StartOf(stream, i)]

Meaning ==
  LET ends == {i \in DOMAIN stream : FaultOf(i) # "none" \/ stream[i].opcode = "Close"}
      said == SelectSeq([i \in 1..(IF ends = {} THEN Len(stream) ELSE Min(ends)) |-> i], Speaks)
  IN  [k \in DOMAIN said |-> EventOf(said[k])]

\* The events are those of the stream: reads cut anywhere change when an event
\* comes and never which, and once everything has arrived none is missing.
ReadsDoNotMatter ==
  /\ IsPrefix(events, Meaning)
  /\ (arrived = StreamBytes /\ ~Readable) => events = Meaning

\* What AppendFrame writes, its reader reads: texts within the bound come out
\* as they went in, whatever their length.
WrittenIsRead ==
  (\A i \in DOMAIN stream :
     /\ stream[i] = AppendFrame("Text", stream[i].payload)
     /\ IsUtf8(stream[i].payload) /\ Length(stream[i]) <= MaxMessageBytes) =>
  \A k \in DOMAIN events : events[k].kind = "Text" /\ events[k].payload = stream[k].payload

\* What the reader promises of any stream, however it arrives.
FramingInvariant == ReadsDoNotMatter /\ WrittenIsRead
=============================================================================
