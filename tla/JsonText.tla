------------------------------- MODULE JsonText -------------------------------
(***************************************************************************)
(* The strings of motionConnectorWire's Json.cpp, byte by byte: AppendString *)
(* writes one, the Parser's ParseString, ParseEscape and ParseHex4 read one, *)
(* Utf8SequenceLength decides what a byte sequence is.  A byte is its value. *)
(* A string is read from its opening quote; what follows it is not.          *)
(***************************************************************************)
EXTENDS Naturals, Sequences, FiniteSets, SequencesExt

CONSTANTS
  Contents,                \* byte strings a host may write
  Spelled                  \* what a peer may put between two quotes

VARIABLES
  content,                 \* what AppendString was given, or <<>> for a peer's text
  byHost,
  text, position, out,     \* the parser's
  outcome

vars == <<content, byHost, text, position, out, outcome>>

Quote == 34
Backslash == 92
Solidus == 47
LetterU == 117

InRange(byte, low, high) == low <= byte /\ byte <= high

-----------------------------------------------------------------------------
(* Utf8SequenceLength: RFC 3629's table, which bounds the second byte.      *)

\* Length and the bounds of the second byte, by lead; 0 for no lead.
\* Fault: a surrogate's second byte is any continuation.
LeadAny(lead) ==
  CASE InRange(lead, 194, 223) -> <<2, 128, 191>>
    [] lead = 224 -> <<3, 160, 191>>
    [] InRange(lead, 225, 239) -> <<3, 128, 191>>
    [] lead = 240 -> <<4, 144, 191>>
    [] InRange(lead, 241, 243) -> <<4, 128, 191>>
    [] lead = 244 -> <<4, 128, 143>>
    [] OTHER -> <<0, 0, 0>>

Lead(lead) ==
  CASE InRange(lead, 194, 223) -> <<2, 128, 191>>
    [] lead = 224 -> <<3, 160, 191>>
    [] InRange(lead, 225, 236) \/ lead \in {238, 239} -> <<3, 128, 191>>
    [] lead = 237 -> <<3, 128, 159>>
    [] lead = 240 -> <<4, 144, 191>>
    [] InRange(lead, 241, 243) -> <<4, 128, 191>>
    [] lead = 244 -> <<4, 128, 143>>
    [] OTHER -> <<0, 0, 0>>

\* The length of the sequence bytes begin with, 0 when it is not well formed.
SequenceLength(bytes) ==
  IF bytes[1] < 128 THEN 1
  ELSE LET lead == Lead(bytes[1])
       IN  IF /\ lead[1] > 0 /\ Len(bytes) >= lead[1]
              /\ InRange(bytes[2], lead[2], lead[3])
              /\ \A i \in 3..lead[1] : InRange(bytes[i], 128, 191)
           THEN lead[1] ELSE 0

From(bytes, i) == SubSeq(bytes, i, Len(bytes))

IsValidUtf8(bytes) ==
  LET valid[i \in 1..Len(bytes) + 4] ==
        \/ i > Len(bytes)
        \/ LET n == SequenceLength(From(bytes, i)) IN n > 0 /\ valid[i + n]
  IN  valid[1]

\* AppendCodePoint
CodePoint(c) ==
  IF c < 128 THEN <<c>>
  ELSE IF c < 2048 THEN <<192 + c \div 64, 128 + (c % 64)>>
  ELSE IF c < 65536 THEN <<224 + c \div 4096, 128 + ((c \div 64) % 64), 128 + (c % 64)>>
  ELSE <<240 + c \div 262144, 128 + ((c \div 4096) % 64), 128 + ((c \div 64) % 64), 128 + (c % 64)>>

-----------------------------------------------------------------------------
(* AppendString                                                             *)

\* The escapes of one letter: \b \f \n \r \t.
Letters == {<<98, 8>>, <<102, 12>>, <<110, 10>>, <<114, 13>>, <<116, 9>>}

HexDigit(n) == IF n < 10 THEN 48 + n ELSE 87 + n

Spell(byte) ==
  IF byte \in {Quote, Backslash} THEN <<Backslash, byte>>
  ELSE IF \E l \in Letters : l[2] = byte
       THEN <<Backslash, (CHOOSE l \in Letters : l[2] = byte)[1]>>
  ELSE IF byte < 32 THEN <<Backslash, LetterU, 48, 48, HexDigit(byte \div 16), HexDigit(byte % 16)>>
  ELSE <<byte>>

AppendString(bytes) ==
  <<Quote>> \o FoldLeft(LAMBDA sum, byte : sum \o Spell(byte), <<>>, bytes) \o <<Quote>>

-----------------------------------------------------------------------------
Start(written) == text = written /\ position = 2 /\ out = <<>> /\ outcome = "Reading"

InitOf(given) == byHost = TRUE /\ content = given /\ Start(AppendString(given))

Init ==
  \/ \E given \in {c \in Contents : IsValidUtf8(c)} : InitOf(given)
  \/ byHost = FALSE /\ content = <<>> /\ \E s \in Spelled : Start(<<Quote>> \o s \o <<Quote>>)

AtEnd == position > Len(text)
Peek == text[position]
Rest == From(text, position)

Reading == outcome = "Reading" /\ UNCHANGED <<content, byHost, text>>

\* Malformed: the position the fault is reported at.
Malformed(at) == outcome' = "Malformed" /\ position' = at /\ UNCHANGED out

Take(bytes, n) == out' = out \o bytes /\ position' = position + n /\ UNCHANGED outcome

Ends == Reading /\ AtEnd /\ Malformed(position)

Close ==
  /\ Reading /\ ~AtEnd /\ Peek = Quote
  /\ outcome' = "Read" /\ position' = position + 1 /\ UNCHANGED out

Control == Reading /\ ~AtEnd /\ Peek < 32 /\ Malformed(position)

Bytes ==
  /\ Reading /\ ~AtEnd /\ Peek >= 32 /\ Peek \notin {Quote, Backslash}
  /\ LET n == SequenceLength(Rest)
     IN  IF n = 0 THEN Malformed(position) ELSE Take(SubSeq(Rest, 1, n), n)

Hex(byte) ==
  CASE InRange(byte, 48, 57) -> byte - 48
    [] InRange(byte, 97, 102) -> byte - 87
    [] InRange(byte, 65, 70) -> byte - 55
    [] OTHER -> 16

\* ParseHex4 at an index of the text: where it stops, and its value.
BadHex(i) ==
  IF Len(text) < i + 3 THEN {i} ELSE {j \in i..(i + 3) : Hex(text[j]) = 16}

Unit(i) == FoldLeft(LAMBDA sum, byte : sum * 16 + Hex(byte), 0, SubSeq(text, i, i + 3))

Escape == Reading /\ ~AtEnd /\ Peek = Backslash

\* A backslash that ends the text, or a letter JSON does not escape.
EscapeBad ==
  /\ Escape
  /\ IF Len(Rest) = 1 THEN Malformed(position + 1)
     ELSE /\ Rest[2] \notin {Quote, Backslash, Solidus, LetterU} \cup {l[1] : l \in Letters}
          /\ Malformed(position + 1)

EscapeByte ==
  /\ Escape /\ Len(Rest) > 1
  /\ \/ Rest[2] \in {Quote, Backslash, Solidus} /\ Take(<<Rest[2]>>, 2)
     \/ \E l \in Letters : l[1] = Rest[2] /\ Take(<<l[2]>>, 2)

EscapeUnit == Escape /\ Len(Rest) > 1 /\ Rest[2] = LetterU

First(set) == CHOOSE i \in set : \A j \in set : i <= j

High == InRange(Unit(position + 2), 55296, 56319)
Low == InRange(Unit(position + 2), 56320, 57343)

EscapeHexBad == EscapeUnit /\ BadHex(position + 2) # {} /\ Malformed(First(BadHex(position + 2)))

EscapeOne ==
  /\ EscapeUnit /\ BadHex(position + 2) = {} /\ ~High
  /\ IF Low THEN Malformed(position) ELSE Take(CodePoint(Unit(position + 2)), 6)

\* A high surrogate needs a low one at once: two units, one code point.
EscapePair ==
  /\ EscapeUnit /\ BadHex(position + 2) = {} /\ High
  /\ LET paired == Len(Rest) >= 8 /\ Rest[7] = Backslash /\ Rest[8] = LetterU
     IN  IF ~paired THEN Malformed(position)
         ELSE IF BadHex(position + 8) # {} THEN Malformed(First(BadHex(position + 8)))
         ELSE IF ~InRange(Unit(position + 8), 56320, 57343) THEN Malformed(position)
         ELSE Take(CodePoint(65536 + (Unit(position + 2) - 55296) * 1024 + Unit(position + 8) - 56320), 12)

Next == Ends \/ Close \/ Control \/ Bytes \/ EscapeBad \/ EscapeByte \/ EscapeHexBad \/ EscapeOne \/ EscapePair

Spec == Init /\ [][Next]_vars

-----------------------------------------------------------------------------
(* Properties                                                               *)

\* The code points a byte string spells, by its lead and payload bits alone.
Payload(bytes, n) ==
  FoldLeft(LAMBDA sum, b : sum * 64 + (b % 64), bytes[1] % (CASE n = 1 -> 128 [] n = 2 -> 32 [] n = 3 -> 16 [] n = 4 -> 8),
           SubSeq(bytes, 2, n))

BitLength(lead) == IF lead < 128 THEN 1 ELSE IF lead < 224 THEN 2 ELSE IF lead < 240 THEN 3 ELSE 4

\* RFC 3629: each code point in its shortest form, none a surrogate or past U+10FFFF.
WellFormed(bytes) ==
  LET formed[i \in 1..Len(bytes) + 4] ==
        \/ i > Len(bytes)
        \/ LET n == BitLength(bytes[i])
               c == Payload(From(bytes, i), n)
           IN  /\ i + n <= Len(bytes) + 1
               /\ CodePoint(c) = SubSeq(bytes, i, i + n - 1)
               /\ c <= 1114111 /\ ~InRange(c, 55296, 57343)
               /\ formed[i + n]
  IN  formed[1]

\* What the parser hands out is well-formed UTF-8, whatever mix of bytes,
\* escapes and surrogate halves spelled it (Json.cpp: "the reader never gets
\* here with" a key that is not); what the host wrote is read back as it was.
ReadTextIsUtf8 ==
  /\ WellFormed(out)
  /\ byHost => outcome # "Malformed" /\ (outcome = "Read" => out = content /\ position = Len(text) + 1)
=============================================================================
