------------------------------ MODULE VmcMessage ------------------------------
(***************************************************************************)
(* A decoded OSC packet becomes VMC messages (DecodeVmcPacket), and those    *)
(* that carry a transform become samples (MapVmcBoneTransform and            *)
(* MapVmcRootTransform).  An argument carries its tag, and a text or a       *)
(* number; NaN stands for every value that is not finite.  The change of     *)
(* basis keeps a value recognisable and is left out.                         *)
(***************************************************************************)
EXTENDS Integers, Sequences, FiniteSets, SequencesExt

CONSTANTS
  Packets,                 \* sequences of OSC messages
  Forms,                   \* kForms: kind, required and optional tags, by address
  Bones,                   \* kVmcBoneNames
  NaN                      \* a number no finite value is

FormAssumption ==
  \A a \in DOMAIN Forms : Forms[a].required \in Seq(STRING) /\ Forms[a].optional \in Seq(STRING)

\* Where the OSC layer gives an argument for each tag, it is of that tag.
PacketAssumption ==
  \A p \in Packets : Len(p) \in Nat /\ \A i \in 1..Len(p) :
    /\ p[i].tags \in Seq(STRING) /\ Len(p[i].arguments) \in Nat
    /\ Len(p[i].tags) = Len(p[i].arguments) => \A k \in 1..Len(p[i].tags) : p[i].arguments[k].tag = p[i].tags[k]

VARIABLES
  packet, index,           \* what is decoded, and which message comes next
  messages, unsupported, malformed,
  mapped, samples, refused \* messages mapped so far, their samples, and the rest

vars == <<packet, index, messages, unsupported, malformed, mapped, samples, refused>>

InitOf(given) ==
  /\ packet = given /\ index = 0
  /\ messages = <<>> /\ unsupported = 0 /\ malformed = 0
  /\ mapped = 0 /\ samples = <<>> /\ refused = [unsupported |-> 0, malformed |-> 0]

Init == \E given \in Packets : InitOf(given)

-----------------------------------------------------------------------------
(* DecodeVmcMessage                                                         *)

OscMessage == packet[index + 1]

Decoding == index < Len(packet)

\* The OSC layer gives one argument for each tag.
Agrees(m) == Len(m.tags) = Len(m.arguments)

Known(m) == m.address \in DOMAIN Forms

StartsWith(tags, form) == Len(tags) >= Len(form) /\ SubSeq(tags, 1, Len(form)) = form

\* Optional tags are read up to the first that differs.
\* Fault: each one that matches at its place is read.
ReadTagsAnywhere(tags, form) ==
  Len(form.required)
    + Cardinality({i \in 1..Len(form.optional) :
                     /\ Len(form.required) + i <= Len(tags)
                     /\ tags[Len(form.required) + i] = form.optional[i]})

ReadTags(tags, form) ==
  LET n == Len(form.required)
      matching == {i \in 0..Len(form.optional) : StartsWith(tags, form.required \o SubSeq(form.optional, 1, i))}
  IN  n + CHOOSE i \in matching : \A j \in matching : j <= i

Real(m, i) == m.arguments[i].number
Reals(m, from, to) == [i \in 1..(to - from + 1) |-> Real(m, from + i - 1)]

NoFields == [name |-> "", title |-> "", numbers |-> <<>>, position |-> <<>>, rotation |-> <<>>]

\* What a message of each kind gives; the wire's x, y, z, w is kept.
Fields(kind, m, read) ==
  CASE kind = "Availability" -> [NoFields EXCEPT !.numbers = Reals(m, 1, read)]
    [] kind = "Time" -> [NoFields EXCEPT !.numbers = Reals(m, 1, 1)]
    [] kind = "Model" -> [NoFields EXCEPT !.name = m.arguments[1].text, !.title = m.arguments[2].text]
    [] kind \in {"RootTransform", "BoneTransform"} ->
         [NoFields EXCEPT !.name = m.arguments[1].text, !.position = Reals(m, 2, 4), !.rotation = Reals(m, 5, 8)]
    [] kind = "BlendValue" -> [NoFields EXCEPT !.name = m.arguments[1].text, !.numbers = Reals(m, 2, 2)]
    [] kind = "BlendApply" -> NoFields

Decoded(m) ==
  LET form == Forms[m.address]
      read == ReadTags(m.tags, form)
  IN  [kind |-> form.kind, oscIndex |-> index, unread |-> Len(m.arguments) - read,
       fields |-> Fields(form.kind, m, read)]

Skip == index' = index + 1 /\ UNCHANGED <<packet, messages, mapped, samples, refused>>

\* Malformed: the arguments are not its tags', or its tags are not its address's.
Malformed ==
  /\ Decoding
  /\ ~Agrees(OscMessage) \/ (Known(OscMessage) /\ ~StartsWith(OscMessage.tags, Forms[OscMessage.address].required))
  /\ malformed' = malformed + 1 /\ UNCHANGED unsupported /\ Skip

Unsupported ==
  /\ Decoding /\ Agrees(OscMessage) /\ ~Known(OscMessage)
  /\ unsupported' = unsupported + 1 /\ UNCHANGED malformed /\ Skip

Decode ==
  /\ Decoding /\ Agrees(OscMessage) /\ Known(OscMessage)
  /\ StartsWith(OscMessage.tags, Forms[OscMessage.address].required)
  /\ messages' = Append(messages, Decoded(OscMessage)) /\ index' = index + 1
  /\ UNCHANGED <<packet, unsupported, malformed, mapped, samples, refused>>

-----------------------------------------------------------------------------
(* SkeletonMap                                                              *)

Message == messages[mapped + 1]

Mapping == ~Decoding /\ mapped < Len(messages)

Transform == Message.kind \in {"RootTransform", "BoneTransform"}

IsFinite(values) == \A i \in DOMAIN values : values[i] # NaN

LengthSquared(rotation) == FoldLeft(LAMBDA sum, x : sum + x * x, 0, rotation)

CheckTransform(fields) ==
  IsFinite(fields.position) /\ IsFinite(fields.rotation) /\ LengthSquared(fields.rotation) > 0

Mapped == mapped' = mapped + 1 /\ UNCHANGED <<packet, index, messages, unsupported, malformed>>

\* A bone outside the vocabulary is unsupported; the root's name is not read.
UnknownBone ==
  /\ Mapping /\ Message.kind = "BoneTransform" /\ Message.fields.name \notin Bones
  /\ refused' = [refused EXCEPT !.unsupported = @ + 1] /\ UNCHANGED samples /\ Mapped

Named == Message.kind = "RootTransform" \/ Message.fields.name \in Bones

BadTransform ==
  /\ Mapping /\ Transform /\ Named /\ ~CheckTransform(Message.fields)
  /\ refused' = [refused EXCEPT !.malformed = @ + 1] /\ UNCHANGED samples /\ Mapped

MapTransform ==
  /\ Mapping /\ Transform /\ Named /\ CheckTransform(Message.fields)
  /\ samples' = Append(samples, [bone |-> IF Message.kind = "RootTransform" THEN "" ELSE Message.fields.name,
                                 rotation |-> Message.fields.rotation, position |-> Message.fields.position,
                                 from |-> Message.oscIndex])
  /\ UNCHANGED refused /\ Mapped

NotATransform == Mapping /\ ~Transform /\ UNCHANGED <<samples, refused>> /\ Mapped

Next == Malformed \/ Unsupported \/ Decode \/ UnknownBone \/ BadTransform \/ MapTransform \/ NotATransform

Spec == Init /\ [][Next]_vars

-----------------------------------------------------------------------------
(* Properties                                                               *)

\* Every argument a message was decoded from has the type its form gives that
\* place, and the form ends only where the message's tags leave it: nothing is
\* read past a tag that differs ("guessing at the remainder is how a decoder
\* starts inventing values").  A sample is the transform of the very message
\* it names, and messages either side of a refused one survive.
ReadAsTheirForm ==
  /\ Len(messages) + unsupported + malformed = index
  /\ \A i \in DOMAIN messages :
       LET d == messages[i]
           m == packet[d.oscIndex + 1]
           form == Forms[m.address].required \o Forms[m.address].optional
           read == Len(m.arguments) - d.unread
       IN  /\ i > 1 => messages[i - 1].oscIndex < d.oscIndex
           /\ \A k \in 1..read : m.arguments[k].tag = form[k]
           /\ d.unread = 0 \/ read = Len(form) \/ m.arguments[read + 1].tag # form[read + 1]
           /\ d.kind = "Availability" => Len(d.fields.numbers) = read
  /\ \A i \in DOMAIN samples :
       LET m == packet[samples[i].from + 1]
       IN  /\ samples[i].rotation = Reals(m, 5, 8) /\ samples[i].position = Reals(m, 2, 4)
           /\ samples[i].bone \in Bones \cup {""}
           /\ \E k \in 5..8 : Real(m, k) # 0
=============================================================================
