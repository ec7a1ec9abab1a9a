------------------------------- MODULE OscPacket -------------------------------
(***************************************************************************)
(* DecodeOscPacket (motionConnectorOsc, OscPacket.cpp): a datagram walked    *)
(* element by element, bundle in bundle, argument by argument.  A word is    *)
(* Word bytes (4 in the code) and size_t wraps at SizeLimit; an offset is    *)
(* the datagram's (the code's base + offset).                                *)
(***************************************************************************)
EXTENDS Integers, Sequences, FiniteSets, SequencesExt

CONSTANTS Word, SizeLimit, MaxBundleDepth, Datagrams

OscAssumption ==
  /\ Word \in Nat \ {0} /\ MaxBundleDepth \in Nat /\ SizeLimit \in Nat
  /\ \A given \in Datagrams : given \in Seq(0..255) /\ Len(given) < SizeLimit

VARIABLES
  datagram,
  elements,                \* where the elements being decoded end, innermost last
  offset,
  reading,                 \* what comes next, or "Decoded" or "Refused"
  tags, address,           \* of the message being decoded: tags left, its address
  arguments, messages, bundled,
  spans                    \* what each read took: from, to, and its element's end

vars == <<datagram, elements, offset, reading, tags, address, arguments, messages, bundled, spans>>

Comma == 44
Solidus == 47
Magic == [i \in 1..2 * Word |-> IF i = 2 * Word THEN 0 ELSE <<35, 98, 117, 110, 100, 108, 101>>[i]]

End == Last(elements)
Remaining == (End - offset) % SizeLimit
Depth == Len(elements) - 1
Bytes(from, n) == SubSeq(datagram, from + 1, from + n)

Number(bytes) == FoldLeft(LAMBDA sum, byte : sum * 256 + byte, 0, bytes)
Negative(bytes) == bytes[1] >= 128

InitOf(given) ==
  /\ datagram = given /\ elements = <<Len(datagram)>> /\ offset = 0
  /\ reading = "Element" /\ tags = <<>> /\ address = <<>> /\ arguments = <<>>
  /\ messages = <<>> /\ bundled = FALSE /\ spans = <<>>

Init == \E given \in Datagrams : InitOf(given)

Message == <<tags, address, arguments>>

Refuse == reading' = "Refused" /\ UNCHANGED <<datagram, elements, offset, Message, messages, bundled, spans>>

Take(n) == offset' = offset + n /\ spans' = Append(spans, [from |-> offset, to |-> offset + n, end |-> End])

Stay == offset' = offset /\ spans' = spans

\* The innermost element is done.
Leave == elements' = Front(elements) /\ reading' = IF Depth = 0 THEN "Decoded" ELSE "Bundle"

-----------------------------------------------------------------------------
Size == End - offset
IsBundle == Size >= 2 * Word /\ Bytes(offset, 2 * Word) = Magic
IsMessage == ~IsBundle /\ datagram[offset + 1] = Solidus
Whole == Depth <= MaxBundleDepth /\ Size # 0 /\ Size % Word = 0

ElementRefused ==
  /\ reading = "Element"
  /\ ~Whole \/ (Whole /\ ~IsBundle /\ ~IsMessage) \/ (Whole /\ IsBundle /\ Size < 4 * Word)
  /\ Refuse

\* Magic and time tag.
EnterBundle ==
  /\ reading = "Element" /\ Whole /\ IsBundle /\ Size >= 4 * Word
  /\ Take(4 * Word) /\ reading' = "Bundle"
  /\ bundled' = (bundled \/ Depth = 0)
  /\ UNCHANGED <<datagram, elements, Message, messages>>

\* Fault: an element is held against the datagram's end.
TooLongForDatagram(length) == length > Len(datagram) - (offset + Word)

TooLong(length) == length > (End - (offset + Word)) % SizeLimit

BundleElement ==
  /\ reading = "Bundle" /\ offset < End
  /\ LET field == Bytes(offset, Word)
     IN  IF Remaining < Word \/ Negative(field) \/ Number(field) = 0 \/ TooLong(Number(field))
         THEN Refuse
         ELSE /\ Take(Word) /\ reading' = "Element"
              /\ elements' = Append(elements, offset + Word + Number(field))
              /\ UNCHANGED <<datagram, Message, messages, bundled>>

BundleEnds ==
  /\ reading = "Bundle" /\ offset >= End
  /\ Leave /\ UNCHANGED <<datagram, offset, Message, messages, bundled, spans>>

-----------------------------------------------------------------------------
(* String: NUL-terminated, padded with at least one NUL.                    *)

Terminators == {i \in offset..(End - 1) : datagram[i + 1] = 0}
StringLength == (CHOOSE i \in Terminators : \A j \in Terminators : i <= j) - offset
PaddedSize(length) == ((length + Word) \div Word) * Word
StringFits == Terminators # {} /\ PaddedSize(StringLength) <= Remaining
Text == Bytes(offset, StringLength)

Address ==
  /\ reading = "Element" /\ Whole /\ IsMessage
  /\ IF StringFits
     THEN /\ address' = Text /\ arguments' = <<>> /\ reading' = "Tags"
          /\ Take(PaddedSize(StringLength))
          /\ UNCHANGED <<datagram, elements, tags, messages, bundled>>
     ELSE Refuse

TypeTags ==
  /\ reading = "Tags"
  /\ IF StringFits /\ Bytes(offset, 1) = <<Comma>>
     THEN /\ tags' = Tail(Text) /\ reading' = "Arguments"
          /\ Take(PaddedSize(StringLength))
          /\ UNCHANGED <<datagram, elements, address, arguments, messages, bundled>>
     ELSE Refuse

-----------------------------------------------------------------------------
(* Arguments, by tag.                                                       *)

OneWord == {105, 102, 99, 114, 109}        \* i f c r m
TwoWords == {104, 116, 100}                \* h t d
Strings == {115, 83}                       \* s S
Blobs == {98}                              \* b
Widthless == {84, 70, 78, 73, 91, 93}      \* T F N I [ ]

Argument == reading = "Arguments" /\ tags # <<>>

Give(value) == arguments' = Append(arguments, [tag |-> Head(tags), value |-> value]) /\ tags' = Tail(tags)

Rest == UNCHANGED <<datagram, elements, reading, address, messages, bundled>>

Fixed ==
  /\ Argument /\ Head(tags) \in OneWord \cup TwoWords
  /\ LET width == IF Head(tags) \in OneWord THEN Word ELSE 2 * Word
     IN  IF Remaining < width THEN Refuse ELSE Give(Bytes(offset, width)) /\ Take(width) /\ Rest

StringArgument ==
  /\ Argument /\ Head(tags) \in Strings
  /\ IF StringFits THEN Give(Text) /\ Take(PaddedSize(StringLength)) /\ Rest ELSE Refuse

\* Fault: the padding stays unread.
BlobSizeBare(length) == length
BlobSize(length) == ((length + Word - 1) \div Word) * Word

Blob ==
  /\ Argument /\ Head(tags) \in Blobs
  /\ LET field == Bytes(offset, Word)
     IN  IF \/ Remaining < Word \/ Negative(field)
            \/ BlobSize(Number(field)) > (End - (offset + Word)) % SizeLimit
         THEN Refuse
         ELSE Give(Bytes(offset + Word, Number(field))) /\ Take(Word + BlobSize(Number(field))) /\ Rest

NoBytes == Argument /\ Head(tags) \in Widthless /\ Give(<<>>) /\ Stay /\ Rest

UnknownTag ==
  /\ Argument /\ Head(tags) \notin OneWord \cup TwoWords \cup Strings \cup Blobs \cup Widthless
  /\ Refuse

\* Bytes the tags do not describe refuse the message.
MessageEnds ==
  /\ reading = "Arguments" /\ tags = <<>>
  /\ IF offset # End THEN Refuse
     ELSE /\ messages' = Append(messages, [address |-> address, arguments |-> arguments])
          /\ Leave /\ UNCHANGED <<datagram, offset, Message, bundled, spans>>

Next ==
  \/ ElementRefused \/ EnterBundle \/ BundleElement \/ BundleEnds
  \/ Address \/ TypeTags \/ Fixed \/ StringArgument \/ Blob \/ NoBytes \/ UnknownTag \/ MessageEnds

Spec == Init /\ [][Next]_vars

-----------------------------------------------------------------------------
(* Properties                                                               *)

\* Whatever the sizes a datagram declares, each read begins where the last one
\* ended, stays inside the element it belongs to, and starts on a word; a
\* datagram that is decoded was read to its last byte.  (The decoder's own
\* comment: reading the bound as guaranteed elsewhere "is how a decoder
\* acquires an out-of-bounds read during a later edit".)
BytesReadOnce ==
  /\ \A i \in DOMAIN spans :
       /\ spans[i].from = IF i = 1 THEN 0 ELSE spans[i - 1].to
       /\ spans[i].from % Word = 0
       /\ spans[i].to <= spans[i].end /\ spans[i].end <= Len(datagram)
  /\ \A i \in DOMAIN elements : i > 1 => elements[i] <= elements[i - 1]
  /\ reading = "Decoded" => offset = Len(datagram)
=============================================================================
