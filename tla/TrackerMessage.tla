---------------------------- MODULE TrackerMessage ----------------------------
(***************************************************************************)
(* DecodeTrackerPacket (motionConnectorVrchatOsc, TrackerMessage.cpp): one   *)
(* step decodes one OSC message of the packet, or refuses it.  An address is *)
(* whether it has the family's prefix and the segments after it; a character *)
(* below ten is that digit, any other is not one.                            *)
(***************************************************************************)
EXTENDS Naturals, Sequences, FiniteSets, SequencesExt

CONSTANTS
  Packets,                 \* sequences of OSC messages
  HeadName,                 \* HeadTrackerSegment
  Channels,                \* kChannelNames
  MinTrackerIndex, MaxTrackerIndex,
  MaxDigits,               \* digits an index is read from: 3
  NaN

PacketAssumption ==
  \A p \in Packets : Len(p) \in Nat /\ \A i \in 1..Len(p) : p[i].segments \in Seq(Seq(Nat))

VARIABLES
  packet, seen,            \* what is decoded, and how much of it was
  messages, refusals, unsupported

vars == <<packet, seen, messages, refusals, unsupported>>

InitOf(given) ==
  packet = given /\ seen = 0 /\ messages = <<>> /\ refusals = <<>> /\ unsupported = 0

Init == \E given \in Packets : InitOf(given)

-----------------------------------------------------------------------------
(* ReadTrackerIndex                                                         *)

Number(segment) == FoldLeft(LAMBDA sum, c : sum * 10 + c, 0, segment)

IsNumber(segment) == segment # <<>> /\ \A i \in DOMAIN segment : segment[i] < 10

\* A leading zero would give one tracker two identities.
\* Fault: only "0" itself is out of range.
CanonicalLoose(segment) == TRUE

Canonical(segment) == Len(segment) = 1 \/ segment[1] # 0

Defined(segment) == Len(segment) <= MaxDigits /\ Number(segment) \in MinTrackerIndex..MaxTrackerIndex

IndexReading(segment) ==
  CASE ~IsNumber(segment) -> "NotANumber"
    [] IsNumber(segment) /\ ~Canonical(segment) -> "NotCanonical"
    [] IsNumber(segment) /\ Canonical(segment) /\ ~Defined(segment) -> "OutOfRange"
    [] OTHER -> "Index"

-----------------------------------------------------------------------------
(* DecodeTrackerMessage: the caller's mistakes, the address, the channel     *)
(* before the identity, the arguments.                                       *)

Identified(segment) == IndexReading(segment) = "Index" \/ (~IsNumber(segment) /\ segment = HeadName)

Finite(m) == \A i \in DOMAIN m.arguments : m.arguments[i] # NaN

Verdict(m) ==
  CASE Len(m.arguments) # Len(m.tags) -> "PacketMalformed"
    [] ~m.prefix \/ Len(m.segments) # 2 -> "UnsupportedAddress"
    [] m.segments[2] \notin Channels -> "UnsupportedAddress"
    [] ~Identified(m.segments[1]) -> "TrackerIdInvalid"
    [] m.tags # <<"f", "f", "f">> -> "ArgumentMismatch"
    [] ~Finite(m) -> "CoordinateInvalid"
    [] OTHER -> "Accepted"

TrackerId(segment) ==
  [segment |-> segment, index |-> IF IsNumber(segment) THEN <<Number(segment)>> ELSE <<>>]

Current == packet[seen + 1]

Accept ==
  /\ seen < Len(packet) /\ Verdict(Current) = "Accepted"
  /\ messages' = Append(messages, [tracker |-> TrackerId(Current.segments[1]), channel |-> Current.segments[2],
                                   values |-> Current.arguments, from |-> seen + 1])
  /\ seen' = seen + 1 /\ UNCHANGED <<packet, refusals, unsupported>>

Refuse ==
  /\ seen < Len(packet) /\ Verdict(Current) # "Accepted"
  /\ refusals' = Append(refusals, Verdict(Current))
  /\ unsupported' = IF Verdict(Current) = "UnsupportedAddress" THEN unsupported + 1 ELSE unsupported
  /\ seen' = seen + 1 /\ UNCHANGED <<packet, messages>>

Next == Accept \/ Refuse

Spec == Init /\ [][Next]_vars

-----------------------------------------------------------------------------
(* Properties                                                               *)

\* One tracker has one identity: two messages with one index spell it the
\* same, whatever spellings a packet mixes ("accepting "01" would give one
\* tracker two identities that compare unequal everywhere downstream"), and a
\* tracker without an index is the head.  Nothing is dropped silently: each
\* message gave a tracker message of its own values or a refusal, and the
\* unsupported ones are counted.
OneIdentityPerTracker ==
  /\ \A i, j \in DOMAIN messages :
       messages[i].tracker.index = messages[j].tracker.index
         => messages[i].tracker.segment = messages[j].tracker.segment
  /\ Len(messages) + Len(refusals) = seen
  /\ unsupported = Cardinality({i \in DOMAIN refusals : refusals[i] = "UnsupportedAddress"})
  /\ \A i \in DOMAIN messages :
       LET m == messages[i] IN Len(m.values) = 3 /\ m.values = packet[m.from].arguments
=============================================================================
