----------------------------- MODULE MocopiPacket -----------------------------
(***************************************************************************)
(* A mocopi datagram becomes a frame or a skeleton: DecodePacketChunks       *)
(* (PacketChunk.cpp) walks one container, DecodeMotionPacket                 *)
(* (MotionPacket.cpp) walks datagram, head, sender, payload, bones and each  *)
(* bone's record.  A byte is a number; a length and a tag are one byte each  *)
(* (four in the code), and so is a scalar.                                   *)
(***************************************************************************)
EXTENDS Integers, Sequences, FiniteSets, SequencesExt

CONSTANTS
  Datagrams,
  Tag,                     \* ChunkTag: its value by name
  FormatType, FormatVersion,
  SenderIdBytes, TimecodeBytes, RotationFloats, TransformFloats,
  NaN                      \* a scalar that is not finite

VARIABLES
  datagram, reading,
  top, payload,            \* the datagram's chunks; the payload's, once walked
  records, next,           \* the bones' chunks, and which comes next
  bones, refusedBones, unread, diagnostics

vars == <<datagram, reading, top, payload, records, next, bones, refusedBones, unread, diagnostics>>

HeaderBytes == 2

-----------------------------------------------------------------------------
(* PacketChunk                                                              *)

Truncated == <<[tag |-> -1, from |-> 0, to |-> 0]>>

\* DecodePacketChunks over the bytes from..to: the chunks, or Truncated.
\* Fault: a payload may run into the bytes after its container.
WalkLoose(from, to) ==
  LET walk[o \in from..Len(datagram)] ==
        IF o >= to THEN <<>>
        ELSE IF to - o < HeaderBytes THEN Truncated
        ELSE LET length == datagram[o + 1]
                 stop == o + HeaderBytes + length
                 rest == walk[stop]
             IN  IF stop > Len(datagram) \/ rest = Truncated THEN Truncated
                 ELSE <<[tag |-> datagram[o + 2], from |-> o + HeaderBytes, to |-> stop]>> \o rest
  IN  walk[from]

Walk(from, to) ==
  LET walk[o \in from..to] ==
        IF o = to THEN <<>>
        ELSE IF to - o < HeaderBytes THEN Truncated
        ELSE LET length == datagram[o + 1]
                 stop == o + HeaderBytes + length
                 rest == walk[stop]
             IN  IF length > to - o - HeaderBytes \/ rest = Truncated THEN Truncated
                 ELSE <<[tag |-> datagram[o + 2], from |-> o + HeaderBytes, to |-> stop]>> \o rest
  IN  walk[from]

Inside(chunk) == Walk(chunk.from, chunk.to)

Extent(chunk) == chunk.to - chunk.from
Bytes(chunk) == SubSeq(datagram, chunk.from + 1, chunk.to)
Scalar(chunk) == datagram[chunk.from + 1]

With(chunks, name) == SelectSeq(chunks, LAMBDA c : c.tag = Tag[name])
Count(chunks, name) == Len(With(chunks, name))
TheOne(chunks, name) == With(chunks, name)[1]

\* CollectUnread: the tags of chunks this decoder does not know there.
Unread(chunks, container, known) ==
  {[tag |-> chunks[i].tag, container |-> container] :
     i \in {j \in DOMAIN chunks : \A n \in known : chunks[j].tag # Tag[n]}}

\* RequireOne, for each of names: a diagnostic for each absent or repeated.
Missing(chunks, names) == {n \in names : Count(chunks, n) # 1}

-----------------------------------------------------------------------------
InitOf(given) ==
  /\ datagram = given /\ reading = "Top"
  /\ top = <<>> /\ payload = <<>> /\ records = <<>> /\ next = 1
  /\ bones = <<>> /\ refusedBones = 0 /\ unread = {} /\ diagnostics = <<>>

Init == \E given \in Datagrams : InitOf(given)

\* A refusal's diagnostics are one here: the code they carry.
Refuse(code) == reading' = "Refused" /\ diagnostics' = Append(diagnostics, code)

Malformed == Refuse("PacketMalformed")

PacketKinds == {"fram", "skdf"}

Kind(chunks) == IF Count(chunks, "fram") = 1 THEN "fram" ELSE "skdf"

\* Exactly one payload, of one kind.
ReadTop ==
  /\ reading = "Top"
  /\ LET chunks == Walk(0, Len(datagram))
     IN  IF chunks = Truncated \/ Count(chunks, "fram") + Count(chunks, "skdf") # 1
         THEN Malformed /\ UNCHANGED <<top, unread>>
         ELSE /\ top' = chunks /\ reading' = "Provenance"
              /\ unread' = Unread(chunks, "datagram", {"head", "sndf"} \cup PacketKinds)
              /\ UNCHANGED diagnostics
  /\ UNCHANGED <<datagram, payload, records, next, bones, refusedBones>>

HeadKnown == {"ftyp", "vrsn"}
SenderKnown == {"ipad", "rcvp"}

\* DecodeProvenance: the format, its version, the sender's id and port.
HeadOk(chunks) ==
  /\ chunks # Truncated /\ Missing(chunks, HeadKnown) = {}
  /\ Bytes(TheOne(chunks, "ftyp")) = FormatType
  /\ Bytes(TheOne(chunks, "vrsn")) = <<FormatVersion>>

SenderOk(chunks) ==
  /\ chunks # Truncated /\ Missing(chunks, SenderKnown) = {}
  /\ Extent(TheOne(chunks, "ipad")) = SenderIdBytes /\ Extent(TheOne(chunks, "rcvp")) = 1

ReadProvenance ==
  /\ reading = "Provenance"
  /\ LET head == Inside(TheOne(top, "head"))
         sender == Inside(TheOne(top, "sndf"))
     IN  IF Missing(top, {"head", "sndf"}) # {} \/ ~HeadOk(head) \/ ~SenderOk(sender)
         THEN Malformed /\ UNCHANGED unread
         ELSE /\ reading' = "Payload" /\ UNCHANGED diagnostics
              /\ unread' = unread \cup Unread(head, "head", HeadKnown) \cup Unread(sender, "sndf", SenderKnown)
  /\ UNCHANGED <<datagram, top, payload, records, next, bones, refusedBones>>

Fields == {"fnum", "time", "uttm", "tmcd", "btrs"}

Container == IF Kind(top) = "fram" THEN "btrs" ELSE "bons"
RecordTag == IF Kind(top) = "fram" THEN "btdt" ELSE "bndt"
Known == IF Kind(top) = "fram" THEN Fields ELSE {"bons"}

WidthsOk(chunks) ==
  Kind(top) = "fram" =>
    /\ \A n \in {"fnum", "time", "uttm"} : Extent(TheOne(chunks, n)) = 1
    /\ Extent(TheOne(chunks, "tmcd")) = TimecodeBytes

\* A frame nothing can be ordered by is refused.  A byte over 127 is negative.
ClockOk(chunks) ==
  Kind(top) = "fram" =>
    /\ Scalar(TheOne(chunks, "time")) # NaN /\ Scalar(TheOne(chunks, "time")) <= 127
    /\ Scalar(TheOne(chunks, "uttm")) # NaN

\* DecodeFrame and DecodeSkeleton, up to the bones.
ReadPayload ==
  /\ reading = "Payload"
  /\ LET chunks == Inside(TheOne(top, Kind(top)))
         held == IF chunks # Truncated /\ Missing(chunks, Known) = {} /\ WidthsOk(chunks) /\ ClockOk(chunks)
                 THEN Inside(TheOne(chunks, Container)) ELSE Truncated
     IN  IF held = Truncated
         THEN /\ IF chunks # Truncated /\ Missing(chunks, Known) = {} /\ WidthsOk(chunks) /\ ~ClockOk(chunks)
                 THEN Refuse("TimestampInvalid") ELSE Malformed
              /\ UNCHANGED <<payload, records, unread>>
         ELSE /\ payload' = chunks /\ records' = held /\ reading' = "Records" /\ UNCHANGED diagnostics
              /\ unread' = unread \cup Unread(chunks, Kind(top), Known) \cup Unread(held, Container, {RecordTag})
  /\ UNCHANGED <<datagram, top, next, bones, refusedBones>>

-----------------------------------------------------------------------------
(* ForEachRecord                                                            *)

Record == records[next]

RecordKnown == IF Kind(top) = "fram" THEN {"bnid", "tran"} ELSE {"bnid", "pbid", "tran"}

RecordOk(fields) ==
  /\ fields # Truncated /\ Missing(fields, RecordKnown) = {}
  /\ \A n \in RecordKnown \ {"tran"} : Extent(TheOne(fields, n)) = 1
  /\ Extent(TheOne(fields, "tran")) = TransformFloats

\* TransformIsUsable: finite, and a rotation with a length.
Usable(transform) ==
  /\ NaN \notin {transform[i] : i \in DOMAIN transform}
  /\ \E i \in 1..RotationFloats : transform[i] # 0

Records == reading = "Records" /\ next <= Len(records)

Advance == next' = next + 1 /\ UNCHANGED <<datagram, reading, top, payload, records>>

\* Chunks that are no records were counted unread already.
SkipChunk ==
  /\ Records /\ Record.tag # Tag[RecordTag]
  /\ Advance /\ UNCHANGED <<bones, refusedBones, unread, diagnostics>>

IsRecord == Records /\ Record.tag = Tag[RecordTag]

Transform == Bytes(TheOne(Inside(Record), "tran"))

Reads == unread' = unread \cup Unread(Inside(Record), RecordTag, RecordKnown)

BadRecord ==
  /\ IsRecord /\ ~RecordOk(Inside(Record))
  /\ Malformed /\ UNCHANGED <<datagram, top, payload, records, next, bones, refusedBones, unread>>

ReadRecord ==
  /\ IsRecord /\ RecordOk(Inside(Record)) /\ Usable(Transform)
  /\ bones' = Append(bones, Scalar(TheOne(Inside(Record), "bnid")))
  /\ Reads /\ Advance /\ UNCHANGED <<refusedBones, diagnostics>>

\* A frame loses the bone; a skeleton, a tree, is refused whole.
UnusableBone ==
  /\ IsRecord /\ RecordOk(Inside(Record)) /\ ~Usable(Transform) /\ Kind(top) = "fram"
  /\ refusedBones' = refusedBones + 1
  /\ diagnostics' = Append(diagnostics, "NonFiniteTransform")
  /\ Reads /\ Advance /\ UNCHANGED bones

UnusableRest ==
  /\ IsRecord /\ RecordOk(Inside(Record)) /\ ~Usable(Transform) /\ Kind(top) = "skdf"
  /\ Refuse("NonFiniteTransform")
  /\ UNCHANGED <<datagram, top, payload, records, next, bones, refusedBones, unread>>

Finish ==
  /\ reading = "Records" /\ next > Len(records)
  /\ reading' = "Decoded"
  /\ UNCHANGED <<datagram, top, payload, records, next, bones, refusedBones, unread, diagnostics>>

Next == ReadTop \/ ReadProvenance \/ ReadPayload \/ SkipChunk \/ BadRecord \/ ReadRecord \/ UnusableBone \/ UnusableRest \/ Finish

Spec == Init /\ [][Next]_vars

-----------------------------------------------------------------------------
(* Properties                                                               *)

\* A container's chunks tile it, so no byte of it is in no chunk or in two.
Tiles(chunks, from, to) ==
  /\ \A i \in DOMAIN chunks : chunks[i].from = HeaderBytes + IF i = 1 THEN from ELSE chunks[i - 1].to
  /\ IF chunks = <<>> THEN from = to ELSE Last(chunks).to = to

\* Every byte of a decoded datagram lies in a chunk of its own container, and
\* every chunk was read or is named unread; every bone record gave a bone or,
\* in a frame, a refused bone with its diagnostic, while a skeleton has no
\* hole; a refused datagram says why ("every refusal reports a code").
EveryChunkAccounted ==
  /\ reading = "Refused" => diagnostics # <<>>
  /\ reading = "Decoded" =>
       /\ Tiles(top, 0, Len(datagram))
       /\ \A n \in {"head", "sndf", Kind(top)} :
            Tiles(Inside(TheOne(top, n)), TheOne(top, n).from, TheOne(top, n).to)
       /\ Tiles(records, TheOne(payload, Container).from, TheOne(payload, Container).to)
       /\ \A i \in DOMAIN payload : (\E n \in Known : payload[i].tag = Tag[n])
            \/ [tag |-> payload[i].tag, container |-> Kind(top)] \in unread
       /\ Len(bones) + refusedBones = Count(records, RecordTag)
       /\ Len(diagnostics) = refusedBones
       /\ Kind(top) = "skdf" => refusedBones = 0
=============================================================================
