---------------------------- MODULE PacketCapture ----------------------------
(***************************************************************************)
(* The packet capture (PacketCapture.cpp): WritePacketCapture lays recorded   *)
(* datagrams down as lines, ReadPacketCapture takes lines one by one.  A line *)
(* is a record of its tokens; "whole" says its tokens are those its keyword   *)
(* needs and no more.  A character of the gutter is a number, as a byte is.   *)
(***************************************************************************)
EXTENDS Integers, Sequences, FiniteSets, SequencesExt

CONSTANTS
  Keys,                    \* header keys
  Captures, Texts,         \* recordings to write; other texts to read
  Pipe, Dot,               \* characters of the gutter
  Printable,               \* bytes rendered as themselves, Pipe and Dot among them
  BytesPerLine, MaxDatagramBytes,
  Tick                     \* finer units of time in a written one (kPrecision)

Unknown == "-"             \* a peer line's word for no peer
NoText == ""

VARIABLES
  text, lineNumber,
  sawMagic, sawPeerLine,
  peer,                    \* the peer in force
  previousReceiveTime,     \* <<>> or <<time>>
  open, declared,          \* <<>> or <<the record being filled>>; its length
  result,                  \* [header, datagrams]
  outcome,                 \* "reading", "accepted", "refused"
  recorded                 \* history: <<>> or <<the capture text was written from>>

reader == <<sawMagic, sawPeerLine, peer, previousReceiveTime, open, declared, result>>
vars == <<text, lineNumber, reader, outcome, recorded>>

-----------------------------------------------------------------------------
(* WritePacketCapture                                                       *)

\* PacketCaptureGutter: what the bytes render as.
Gutter(bytes) == [i \in DOMAIN bytes |-> IF bytes[i] \in Printable THEN bytes[i] ELSE Dot]

Magic == [keyword |-> "magic", whole |-> TRUE]
Key(key, value) == [keyword |-> "key", whole |-> TRUE, key |-> key, value |-> value]
PeerLine(value) == [keyword |-> "p", whole |-> TRUE, value |-> value]
RecordLine(time, length) == [keyword |-> "d", whole |-> TRUE, time |-> time, length |-> length]
HexLine(bytes) ==
  [keyword |-> "hex", whole |-> TRUE, bytes |-> bytes, tail |-> <<Pipe>> \o Gutter(bytes) \o <<Pipe>>]

HexLines(bytes) ==
  [k \in 1..((Len(bytes) + BytesPerLine - 1) \div BytesPerLine) |->
     HexLine(SubSeq(bytes, (k - 1) * BytesPerLine + 1,
                    IF k * BytesPerLine < Len(bytes) THEN k * BytesPerLine ELSE Len(bytes)))]

\* A peer is written where it differs from the one before.
\* Fault: the return to an unknown peer is not worth a line.
PeerLinesSilent(before, now) == IF now \in {before, NoText} THEN <<>> ELSE <<PeerLine(now)>>

PeerLines(before, now) ==
  IF now = before THEN <<>> ELSE <<PeerLine(IF now = NoText THEN Unknown ELSE now)>>

HeaderOrder == SetToSeq(Keys)

Written(capture) ==
  LET keys == SelectSeq(HeaderOrder, LAMBDA k : capture.header[k] # NoText)
      record(i) == LET d == capture.datagrams[i]
                       before == IF i = 1 THEN NoText ELSE capture.datagrams[i - 1].peer
                   IN  PeerLines(before, d.peer) \o <<RecordLine(d.time \div Tick, Len(d.bytes))>> \o HexLines(d.bytes)
  IN  <<Magic>> \o [k \in DOMAIN keys |-> Key(keys[k], capture.header[keys[k]])]
        \o FlattenSeq([i \in DOMAIN capture.datagrams |-> record(i)])

-----------------------------------------------------------------------------
(* ReadPacketCapture                                                        *)

Nothing == [header |-> [k \in Keys |-> NoText], datagrams |-> <<>>]

Fresh ==
  /\ lineNumber = 0 /\ sawMagic = FALSE /\ sawPeerLine = FALSE
  /\ peer = NoText /\ previousReceiveTime = <<>> /\ open = <<>> /\ declared = 0
  /\ result = Nothing /\ outcome = "reading"

InitOf(given, origin) == Fresh /\ text = given /\ recorded = origin

Init ==
  \/ \E c \in Captures : InitOf(Written(c), <<c>>)
  \/ \E given \in Texts : InitOf(given, <<>>)

Line == text[lineNumber + 1]

Reading == outcome = "reading" /\ lineNumber < Len(text)

Take(keyword) ==
  /\ Reading /\ Line.keyword = keyword
  /\ lineNumber' = lineNumber + 1
  /\ UNCHANGED <<text, recorded>>

Refuse == outcome' = "refused" /\ UNCHANGED reader
Accept == UNCHANGED outcome

\* An empty line or a comment.
Skip == Take("blank") /\ UNCHANGED <<reader, outcome>>

\* Whatever comes first must be the magic and its version.
ReadMagic ==
  /\ Reading /\ ~sawMagic /\ Line.keyword # "blank"
  /\ Take(Line.keyword)
  /\ IF Line.keyword = "magic" /\ Line.whole
     THEN sawMagic' = TRUE /\ Accept /\ UNCHANGED <<sawPeerLine, peer, previousReceiveTime, open, declared, result>>
     ELSE Refuse

ReadPeer ==
  /\ sawMagic /\ Take("p")
  /\ IF open # <<>> \/ ~Line.whole THEN Refuse
     ELSE /\ peer' = IF Line.value = Unknown THEN NoText ELSE Line.value
          /\ sawPeerLine' = TRUE
          /\ Accept /\ UNCHANGED <<sawMagic, previousReceiveTime, open, declared, result>>

Keep(datagram) == result' = [result EXCEPT !.datagrams = Append(@, datagram)]

ReadRecord ==
  /\ sawMagic /\ Take("d")
  /\ IF \/ open # <<>> \/ ~Line.whole \/ Line.time < 0
        \/ (previousReceiveTime # <<>> /\ Line.time < previousReceiveTime[1])
        \/ Line.length \notin 0..MaxDatagramBytes
     THEN Refuse
     ELSE LET datagram == [time |-> Line.time, peer |-> peer, bytes |-> <<>>]
          IN  /\ previousReceiveTime' = <<Line.time>> /\ declared' = Line.length
              /\ IF Line.length = 0 THEN Keep(datagram) /\ UNCHANGED open
                 ELSE open' = <<datagram>> /\ UNCHANGED result
              /\ Accept /\ UNCHANGED <<sawMagic, sawPeerLine, peer>>

\* ReadHexLine: the gutter runs from the first pipe to the last.
Pipes(tail) == {i \in DOMAIN tail : tail[i] = Pipe}

GutterOk(bytes, tail) ==
  tail = <<>> \/ /\ Cardinality(Pipes(tail)) > 1 /\ tail[Len(tail)] = Pipe
                 /\ SubSeq(tail, 2, Len(tail) - 1) = Gutter(bytes)

ReadHexLine ==
  /\ sawMagic /\ Reading /\ open # <<>> /\ Line.keyword \notin {"blank", "p", "d"}
  /\ Take(Line.keyword)
  /\ IF \/ Line.keyword # "hex" \/ ~Line.whole
        \/ (Line.keyword = "hex" /\ (\/ Line.bytes = <<>>
                                     \/ Len(open[1].bytes) + Len(Line.bytes) > declared
                                     \/ ~GutterOk(Line.bytes, Line.tail)))
     THEN Refuse
     ELSE LET filled == [open[1] EXCEPT !.bytes = @ \o Line.bytes]
          IN  /\ IF Len(filled.bytes) = declared THEN Keep(filled) /\ open' = <<>>
                 ELSE open' = <<filled>> /\ UNCHANGED result
              /\ Accept /\ UNCHANGED <<sawMagic, sawPeerLine, peer, previousReceiveTime, declared>>

\* The header precedes every record, peer lines among them.
HeaderOpen == result.datagrams = <<>> /\ ~sawPeerLine

ReadHeader ==
  /\ sawMagic /\ open = <<>> /\ Take("key")
  /\ IF ~HeaderOpen \/ ~Line.whole \/ Line.key \notin Keys \/ result.header[Line.key] # NoText
     THEN Refuse
     ELSE /\ result' = [result EXCEPT !.header[Line.key] = Line.value]
          /\ Accept /\ UNCHANGED <<sawMagic, sawPeerLine, peer, previousReceiveTime, open, declared>>

\* Bytes of no record, or a second magic.
ReadStray ==
  /\ sawMagic /\ open = <<>>
  /\ Take("hex") \/ Take("magic")
  /\ Refuse

EndOfText ==
  /\ outcome = "reading" /\ lineNumber = Len(text)
  /\ outcome' = IF sawMagic /\ open = <<>> /\ result.datagrams # <<>> THEN "accepted" ELSE "refused"
  /\ UNCHANGED <<text, lineNumber, reader, recorded>>

\* A tool reads a capture and writes it again; times are ticks by then.
Refined(capture) ==
  [capture EXCEPT !.datagrams = [i \in DOMAIN @ |-> [@[i] EXCEPT !.time = @ * Tick]]]

Rewrite ==
  /\ outcome = "accepted" /\ recorded = <<>>
  /\ recorded' = <<Refined(result)>> /\ text' = Written(Refined(result))
  /\ lineNumber' = 0 /\ sawMagic' = FALSE /\ sawPeerLine' = FALSE
  /\ peer' = NoText /\ previousReceiveTime' = <<>> /\ open' = <<>> /\ declared' = 0
  /\ result' = Nothing /\ outcome' = "reading"

Next ==
  \/ Skip \/ ReadMagic \/ ReadPeer \/ ReadRecord \/ ReadHexLine \/ ReadHeader \/ ReadStray
  \/ EndOfText \/ Rewrite

Spec == Init /\ [][Next]_vars

-----------------------------------------------------------------------------
(* Properties                                                               *)

Rounded(capture) ==
  [capture EXCEPT !.datagrams = [i \in DOMAIN @ |-> [@[i] EXCEPT !.time = @ \div Tick]]]

\* The last peer line before a line, as a datagram carries it.
PeerInForce(n) ==
  LET lines == {i \in 1..n : text[i].keyword = "p"}
      last == CHOOSE i \in lines : \A k \in lines : k <= i
  IN  IF lines = {} \/ text[last].value = Unknown THEN NoText ELSE text[last].value

RecordLines == SelectSeq([i \in DOMAIN text |-> i], LAMBDA i : text[i].keyword = "d")
BytesOf(lines) == FlattenSeq([i \in DOMAIN lines |-> lines[i].bytes])

\* A capture that was recorded, or read and written again, reads as it was,
\* to the tick: no payload byte that looks like the gutter's own bar, no peer
\* that comes, goes and returns and no datagram without bytes makes it
\* unreadable or someone else's.  And every text accepted gives each of its
\* bytes to one datagram, with the time and the peer its lines name.
CapturesReadBack ==
  /\ recorded # <<>> => outcome # "refused" /\ (outcome = "accepted" => result = Rounded(recorded[1]))
  /\ outcome = "accepted" =>
       /\ Len(result.datagrams) = Len(RecordLines)
       /\ \A i \in DOMAIN result.datagrams :
            LET d == result.datagrams[i]
                l == RecordLines[i]
            IN  d.time = text[l].time /\ Len(d.bytes) = text[l].length /\ d.peer = PeerInForce(l)
       /\ FlattenSeq([i \in DOMAIN result.datagrams |-> result.datagrams[i].bytes])
            = BytesOf(SelectSeq(text, LAMBDA l : l.keyword = "hex"))
=============================================================================
