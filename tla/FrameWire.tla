------------------------------- MODULE FrameWire -------------------------------
(***************************************************************************)
(* motionConnectorWire: EncodeFrame and DecodeFrame (FrameWire.cpp) over     *)
(* JSON values (Json.cpp).  A frame is written; what arrives is that         *)
(* message, one a peer altered, or one a peer wrote without the encoder's    *)
(* checks; then it is read.                                                  *)
(*                                                                           *)
(* A message is the JSON value its text spells, not the text.  Numbers are   *)
(* Naturals with the ranges of float, double and uint64 scaled down; in a    *)
(* frame a number above MaxDouble is not finite.  An optional field is a     *)
(* sequence of at most one value; so is a fault, a code and a path.          *)
(***************************************************************************)
EXTENDS Naturals, Sequences, FiniteSets, FiniteSetsExt, SequencesExt, TLC

CONSTANTS
  Frames,                  \* frames a host may encode
  Altered(_),              \* messages a peer may make of one
  MaxFloat, MaxDouble, MaxCounter,
  MaxMessage,              \* values in a message (bytes in the code)
  MaxDepth,                \* kMaxDepth
  Format,                  \* FrameFormatV1
  Vocabulary,              \* joint names in index order
  ByName,                  \* every name joints and channels use, in name order
  Clocks, Kinds, Feet,     \* kClockNames, kKindNames, kContactNames
  NotUtf8                  \* texts that are not UTF-8

WireAssumption ==
  /\ MaxFloat \in Nat /\ MaxDouble \in Nat /\ MaxFloat < MaxDouble
  /\ MaxCounter \in Nat /\ MaxMessage \in Nat /\ MaxDepth \in Nat

VARIABLES phase, frame, message, fault, decoded

vars == <<phase, frame, message, fault, decoded>>

-----------------------------------------------------------------------------
(* Faults, and the path a Reporter keeps.                                   *)

NoFault == <<>>

Fail(code) == <<[code |-> code, path |-> <<>>]>>

At(key, found) == IF found = NoFault THEN NoFault ELSE <<[found[1] EXCEPT !.path = <<key>> \o @]>>

AtIndex(i, found) == At(ToString(i - 1), found)

a ?? b == IF a # NoFault THEN a ELSE b

FirstOf(faults) ==
  LET bad == {i \in DOMAIN faults : faults[i] # NoFault}
  IN  IF bad = {} THEN NoFault ELSE faults[CHOOSE i \in bad : \A j \in bad : i <= j]

-----------------------------------------------------------------------------
(* JSON values.                                                             *)

Null == [kind |-> "Null", text |-> "", number |-> 0, elements |-> <<>>, members |-> <<>>]

Obj(members) == [Null EXCEPT !.kind = "Object", !.members = members]
Arr(elements) == [Null EXCEPT !.kind = "Array", !.elements = elements]
Str(text) == [Null EXCEPT !.kind = "String", !.text = text]
Num(number) == [Null EXCEPT !.kind = "Number", !.number = number]

Member(key, value) == <<[key |-> key, value |-> value]>>

\* The member of a field that may be absent.
Given(key, field, Spell(_)) == IF field = <<>> THEN <<>> ELSE Member(key, Spell(Head(field)))

KeysOf(object) == {object.members[i].key : i \in DOMAIN object.members}

Find(object, key) == object.members[CHOOSE i \in DOMAIN object.members :
                                      object.members[i].key = key].value

RECURSIVE Size(_)
Size(value) == 1 + FoldLeft(LAMBDA sum, e : sum + Size(e), 0, value.elements)
                 + FoldLeft(LAMBDA sum, e : sum + Size(e.value), 0, value.members)

\* CheckUniqueKeys: the first member whose key appeared before it.
Repeated(object) ==
  FirstOf([i \in DOMAIN object.members |->
    IF \E j \in 1..(i - 1) : object.members[j].key = object.members[i].key
    THEN At(object.members[i].key, Fail("KeyDuplicate")) ELSE NoFault])

\* The position of text that is not UTF-8 or nests too deep is a byte, not a path.
AtByte(code) == <<[code |-> code, path |-> <<"byte">>]>>

Opaque(found) == found # NoFault /\ found[1].path = <<"byte">>

Within(key, found) == IF Opaque(found) THEN found ELSE At(key, found)

TextFault(text) == IF text \in NotUtf8 THEN AtByte("MessageMalformed") ELSE NoFault

\* Parser: ParseValue, ParseArray, ParseObject.
RECURSIVE Parse(_, _)
Parse(value, depth) ==
  IF value.kind \notin {"Object", "Array"} THEN TextFault(value.text)
  ELSE IF depth + 1 > MaxDepth THEN AtByte("NestingTooDeep")
  ELSE FirstOf([i \in DOMAIN value.elements |->
                  Within(ToString(i - 1), Parse(value.elements[i], depth + 1))])
       ?? FirstOf([i \in DOMAIN value.members |->
                  TextFault(value.members[i].key)
                  ?? Within(value.members[i].key, Parse(value.members[i].value, depth + 1))])
       ?? Repeated(value)

-----------------------------------------------------------------------------
(* What a frame's fields may hold.                                          *)

Sum(c) == FoldLeft(LAMBDA sum, x : sum + x * x, 0, c)

IsUnitQuaternion(c) == Sum(c) = 1

WordFor(names, index) == IF index < Len(names) THEN names[index + 1] ELSE ""

FindWord(names, word) == (CHOOSE i \in DOMAIN names : names[i] = word) - 1

Joint == {Vocabulary[i] : i \in DOMAIN Vocabulary}

Place(name) == CHOOSE i \in DOMAIN ByName : ByName[i] = name

JointsByName == SelectSeq(ByName, LAMBDA name : name \in Joint)

Sorted(channels) == SortSeq(channels, LAMBDA c, d : Place(c.name) < Place(d.name))

\* The frame an encoder and a decoder agree on: channels in name order, no
\* confidence for a joint the pose does not carry.
SettledPose(pose) ==
  [pose EXCEPT !.channels = Sorted(@),
               !.confidence = IF @ = <<>> THEN <<>>
                              ELSE <<[j \in Joint |-> IF pose.rotations[j] = <<>> THEN 0 ELSE @[1][j]]>>]

Settled(f) ==
  [f EXCEPT !.actors = [i \in DOMAIN @ |->
     [@[i] EXCEPT !.pose = IF @ = <<>> THEN <<>> ELSE <<SettledPose(@[1])>>]]]

-----------------------------------------------------------------------------
(* Writer: the value each part is written as, and the fault that refuses it.*)

Text(text) == IF text \in NotUtf8 THEN Fail("MessageMalformed") ELSE NoFault

Finite(number) == IF number > MaxDouble THEN Fail("ValueNotFinite") ELSE NoFault

SpellFloats(c) == Arr([i \in DOMAIN c |-> Num(c[i])])

FloatsRefused(c) == FirstOf([i \in DOMAIN c |-> AtIndex(i, Finite(c[i]))])

RotationRefused(q) ==
  FloatsRefused(q) ?? (IF IsUnitQuaternion(q) THEN NoFault ELSE Fail("QuaternionInvalid"))

SpellCounter(n) == Str(ToString(n))

WordRefused(names, index) == IF WordFor(names, index) = "" THEN Fail("ValueUnknown") ELSE NoFault

Refused(key, field, Fault(_)) == IF field = <<>> THEN NoFault ELSE At(key, Fault(Head(field)))

SpellTiming(t) ==
  Obj(Given("sourceTimestamp", t.source, Num) \o Member("receiveTimestamp", Num(t.receive))
      \o Given("sequence", t.sequence, SpellCounter)
      \o Member("sourceClock", Str(WordFor(Clocks, t.clock))))

TimingRefused(t) ==
  Refused("sourceTimestamp", t.source, Finite) ?? At("receiveTimestamp", Finite(t.receive))
  ?? At("sourceClock", WordRefused(Clocks, t.clock))

SpellRoot(root) ==
  Obj(Given("worldPosition", root.position, SpellFloats)
      \o Given("worldOrientation", root.orientation, SpellFloats)
      \o Given("linearVelocity", root.linear, SpellFloats)
      \o Given("angularVelocity", root.angular, SpellFloats))

RootRefused(root) ==
  Refused("worldPosition", root.position, FloatsRefused)
  ?? Refused("worldOrientation", root.orientation, RotationRefused)
  ?? Refused("linearVelocity", root.linear, FloatsRefused)
  ?? Refused("angularVelocity", root.angular, FloatsRefused)

Carried(pose, names) == SelectSeq(names, LAMBDA name : pose.rotations[name] # <<>>)

SpellJoints(pose) ==
  LET carried == Carried(pose, Vocabulary)
  IN  Obj([i \in DOMAIN carried |->
             [key |-> carried[i], value |-> SpellFloats(pose.rotations[carried[i]][1])]])

JointsRefused(pose) ==
  LET carried == Carried(pose, Vocabulary)
  IN  FirstOf([i \in DOMAIN carried |-> At(carried[i], RotationRefused(pose.rotations[carried[i]][1]))])

\* Fault: the values go in index order, the keys in name order.
SpellConfidenceByIndex(pose, confidence) ==
  LET carried == Carried(pose, JointsByName)
  IN  Obj([i \in DOMAIN carried |->
             [key |-> carried[i], value |-> Num(confidence[Carried(pose, Vocabulary)[i]])]])

SpellConfidence(pose, confidence) ==
  LET carried == Carried(pose, JointsByName)
  IN  Obj([i \in DOMAIN carried |-> [key |-> carried[i], value |-> Num(confidence[carried[i]])]])

ConfidenceRefused(pose, confidence) ==
  LET carried == Carried(pose, JointsByName)
  IN  FirstOf([i \in DOMAIN carried |-> At(carried[i], Finite(confidence[carried[i]]))])

SpellContacts(contacts) ==
  Obj(Member("leftFoot", Str(WordFor(Feet, contacts.left)))
      \o Member("rightFoot", Str(WordFor(Feet, contacts.right))))

ContactsRefused(contacts) ==
  At("leftFoot", WordRefused(Feet, contacts.left)) ?? At("rightFoot", WordRefused(Feet, contacts.right))

SpellChannels(channels) ==
  LET sorted == Sorted(channels)
  IN  Obj([i \in DOMAIN sorted |-> [key |-> sorted[i].name, value |-> Num(sorted[i].value)]])

ChannelsRefused(channels) ==
  LET sorted == Sorted(channels)
  IN  FirstOf([i \in DOMAIN sorted |-> At(sorted[i].name,
        (IF i > 1 /\ sorted[i - 1].name = sorted[i].name THEN Fail("KeyDuplicate") ELSE NoFault)
        ?? Text(sorted[i].name) ?? Finite(sorted[i].value))])

SpellMetadata(m) ==
  Obj(Member("kind", Str(WordFor(Kinds, m.kind))) \o Member("provider", Str(m.provider))
      \o Member("protocol", Str(m.protocol)) \o Member("sourceId", Str(m.sourceId))
      \o Given("sourceTimestamp", m.source, Num) \o Given("sequenceNumber", m.sequence, SpellCounter))

MetadataRefused(m) ==
  At("kind", WordRefused(Kinds, m.kind)) ?? At("provider", Text(m.provider))
  ?? At("protocol", Text(m.protocol)) ?? At("sourceId", Text(m.sourceId))
  ?? Refused("sourceTimestamp", m.source, Finite)

SpellPose(pose) ==
  Obj(Member("timestamp", Num(pose.timestamp)) \o Member("root", SpellRoot(pose.root))
      \o Member("joints", SpellJoints(pose))
      \o Given("confidence", pose.confidence, LAMBDA c : SpellConfidence(pose, c))
      \o Given("contacts", pose.contacts, SpellContacts)
      \o Given("lookAtTarget", pose.lookAt, SpellFloats)
      \o Member("channels", SpellChannels(pose.channels))
      \o Member("metadata", SpellMetadata(pose.metadata)))

PoseRefused(pose) ==
  At("timestamp", Finite(pose.timestamp)) ?? At("root", RootRefused(pose.root))
  ?? At("joints", JointsRefused(pose))
  ?? Refused("confidence", pose.confidence, LAMBDA c : ConfidenceRefused(pose, c))
  ?? Refused("contacts", pose.contacts, ContactsRefused)
  ?? Refused("lookAtTarget", pose.lookAt, FloatsRefused)
  ?? At("channels", ChannelsRefused(pose.channels)) ?? At("metadata", MetadataRefused(pose.metadata))

\* One id may not appear twice.
Fresh(ids, i) == IF \E j \in 1..(i - 1) : ids[j] = ids[i] THEN Fail("IdDuplicate") ELSE NoFault

SpellTracker(t) ==
  Obj(Member("trackerId", Str(t.id)) \o Given("position", t.position, SpellFloats)
      \o Given("rotation", t.rotation, SpellFloats) \o Given("confidence", t.confidence, Num))

TrackersRefused(trackers) ==
  FirstOf([i \in DOMAIN trackers |-> AtIndex(i,
    At("trackerId", Text(trackers[i].id) ?? Fresh([j \in DOMAIN trackers |-> trackers[j].id], i))
    ?? Refused("position", trackers[i].position, FloatsRefused)
    ?? Refused("rotation", trackers[i].rotation, RotationRefused)
    ?? Refused("confidence", trackers[i].confidence, Finite))])

SpellTrackers(trackers) == Arr([i \in DOMAIN trackers |-> SpellTracker(trackers[i])])

SpellActor(actor) ==
  Obj(Member("actor", Str(actor.actor)) \o Given("pose", actor.pose, SpellPose)
      \o Member("trackers", SpellTrackers(actor.trackers)))

ActorsRefused(actors) ==
  FirstOf([i \in DOMAIN actors |-> AtIndex(i,
    At("actor", Text(actors[i].actor) ?? Fresh([j \in DOMAIN actors |-> actors[j].actor], i))
    ?? Refused("pose", actors[i].pose, PoseRefused)
    ?? At("trackers", TrackersRefused(actors[i].trackers)))])

Spell(f) ==
  Obj(Member("format", Str(Format)) \o Member("frameNumber", SpellCounter(f.number))
      \o Member("sourceProfile", Str(f.profile)) \o Member("timing", SpellTiming(f.timing))
      \o Member("actors", Arr([i \in DOMAIN f.actors |-> SpellActor(f.actors[i])])))

\* Why EncodeFrame refuses a frame, or NoFault.
Encode(f) ==
  At("sourceProfile", Text(f.profile)) ?? At("timing", TimingRefused(f.timing))
  ?? At("actors", ActorsRefused(f.actors))

-----------------------------------------------------------------------------
(* Reader: why a part is refused.                                           *)

OfKind(value, kind) == IF value.kind = kind THEN NoFault ELSE Fail("TypeMismatch")

\* Keys: unknown ones first, in message order, then missing ones in table order.
KeysRead(value, allowed, required) ==
  OfKind(value, "Object")
  ?? FirstOf([i \in DOMAIN value.members |->
       IF value.members[i].key \in allowed THEN NoFault ELSE At(value.members[i].key, Fail("KeyUnknown"))])
  ?? FirstOf([i \in DOMAIN required |->
       IF required[i] \in KeysOf(value) THEN NoFault ELSE At(required[i], Fail("KeyMissing"))])

\* A field, where the message has it.
Field(object, key, Fault(_)) == IF key \in KeysOf(object) THEN At(key, Fault(Find(object, key))) ELSE NoFault

StringRead(value) == OfKind(value, "String")

InRange(value, limit) ==
  OfKind(value, "Number") ?? (IF value.number > limit THEN Fail("NumberOutOfRange") ELSE NoFault)

DoubleRead(value) == InRange(value, MaxDouble)
FloatRead(value) == InRange(value, MaxFloat)

\* Fault: a leading zero is read.
CounterReadLoose(value) ==
  OfKind(value, "String")
  ?? (IF \E n \in 0..MaxCounter : value.text \in {ToString(n), "0" \o ToString(n)}
      THEN NoFault ELSE Fail("CounterInvalid"))

CounterRead(value) ==
  OfKind(value, "String")
  ?? (IF \E n \in 0..MaxCounter : ToString(n) = value.text THEN NoFault ELSE Fail("CounterInvalid"))

FloatsRead(value, n) ==
  OfKind(value, "Array")
  ?? (IF Len(value.elements) # n THEN Fail("TypeMismatch") ELSE NoFault)
  ?? FirstOf([i \in DOMAIN value.elements |-> AtIndex(i, FloatRead(value.elements[i]))])

Numbers(value) == [i \in DOMAIN value.elements |-> value.elements[i].number]

VectorRead(value) == FloatsRead(value, 3)

RotationRead(value) ==
  FloatsRead(value, 4)
  ?? (IF IsUnitQuaternion(Numbers(value)) THEN NoFault ELSE Fail("QuaternionInvalid"))

WordRead(value, names) ==
  OfKind(value, "String")
  ?? (IF \E i \in DOMAIN names : names[i] = value.text THEN NoFault ELSE Fail("ValueUnknown"))

TimingRead(value) ==
  KeysRead(value, {"sourceTimestamp", "receiveTimestamp", "sequence", "sourceClock"},
           <<"receiveTimestamp", "sourceClock">>)
  ?? Field(value, "sourceTimestamp", DoubleRead) ?? Field(value, "receiveTimestamp", DoubleRead)
  ?? Field(value, "sequence", CounterRead)
  ?? Field(value, "sourceClock", LAMBDA v : WordRead(v, Clocks))

RootRead(value) ==
  KeysRead(value, {"worldPosition", "worldOrientation", "linearVelocity", "angularVelocity"}, <<>>)
  ?? Field(value, "worldPosition", VectorRead) ?? Field(value, "worldOrientation", RotationRead)
  ?? Field(value, "linearVelocity", VectorRead) ?? Field(value, "angularVelocity", VectorRead)

JointsRead(value) ==
  OfKind(value, "Object")
  ?? FirstOf([i \in DOMAIN value.members |-> At(value.members[i].key,
       (IF value.members[i].key \in Joint THEN NoFault ELSE Fail("JointUnknown"))
       ?? RotationRead(value.members[i].value))])

\* Over exactly the keys joints has; a gap is found in index order.
ConfidenceRead(value, carried) ==
  OfKind(value, "Object")
  ?? FirstOf([i \in DOMAIN value.members |-> At(value.members[i].key,
       (IF value.members[i].key \in Joint THEN NoFault ELSE Fail("JointUnknown"))
       ?? (IF value.members[i].key \in carried THEN NoFault ELSE Fail("ConfidenceMismatch"))
       ?? FloatRead(value.members[i].value))])
  ?? FirstOf([i \in DOMAIN Vocabulary |->
       IF Vocabulary[i] \in carried \ KeysOf(value)
       THEN At(Vocabulary[i], Fail("ConfidenceMismatch")) ELSE NoFault])

ContactsRead(value) ==
  KeysRead(value, {"leftFoot", "rightFoot"}, <<"leftFoot", "rightFoot">>)
  ?? Field(value, "leftFoot", LAMBDA v : WordRead(v, Feet))
  ?? Field(value, "rightFoot", LAMBDA v : WordRead(v, Feet))

ChannelsRead(value) ==
  OfKind(value, "Object")
  ?? FirstOf([i \in DOMAIN value.members |-> At(value.members[i].key, FloatRead(value.members[i].value))])

MetadataRead(value) ==
  KeysRead(value, {"kind", "provider", "protocol", "sourceId", "sourceTimestamp", "sequenceNumber"},
           <<"kind", "provider", "protocol", "sourceId">>)
  ?? Field(value, "kind", LAMBDA v : WordRead(v, Kinds)) ?? Field(value, "provider", StringRead)
  ?? Field(value, "protocol", StringRead) ?? Field(value, "sourceId", StringRead)
  ?? Field(value, "sourceTimestamp", DoubleRead) ?? Field(value, "sequenceNumber", CounterRead)

PoseRead(value) ==
  KeysRead(value, {"timestamp", "root", "joints", "confidence", "contacts", "lookAtTarget",
                   "channels", "metadata"},
           <<"timestamp", "root", "joints", "channels", "metadata">>)
  ?? Field(value, "timestamp", DoubleRead) ?? Field(value, "root", RootRead)
  ?? Field(value, "joints", JointsRead)
  ?? Field(value, "confidence", LAMBDA v : ConfidenceRead(v, KeysOf(Find(value, "joints"))))
  ?? Field(value, "contacts", ContactsRead) ?? Field(value, "lookAtTarget", VectorRead)
  ?? Field(value, "channels", ChannelsRead) ?? Field(value, "metadata", MetadataRead)

\* The id of an element, "" where it has none (it is refused for that).
IdOf(value, key) == IF key \in KeysOf(value) THEN Find(value, key).text ELSE ""

IdRead(values, i, key) ==
  At(key, StringRead(Find(values[i], key)) ?? Fresh([j \in DOMAIN values |-> IdOf(values[j], key)], i))

TrackersRead(value) ==
  OfKind(value, "Array")
  ?? FirstOf([i \in DOMAIN value.elements |-> AtIndex(i,
       LET tracker == value.elements[i]
       IN  KeysRead(tracker, {"trackerId", "position", "rotation", "confidence"}, <<"trackerId">>)
           ?? IdRead(value.elements, i, "trackerId") ?? Field(tracker, "position", VectorRead)
           ?? Field(tracker, "rotation", RotationRead) ?? Field(tracker, "confidence", FloatRead))])

ActorRead(values, i) ==
  KeysRead(values[i], {"actor", "pose", "trackers"}, <<"actor", "trackers">>)
  ?? IdRead(values, i, "actor") ?? Field(values[i], "pose", PoseRead)
  ?? Field(values[i], "trackers", TrackersRead)

\* Fault: an actor's id is compared once the actor was read.
ActorsReadLate(value) ==
  OfKind(value, "Array")
  ?? FirstOf([i \in DOMAIN value.elements |-> AtIndex(i,
       KeysRead(value.elements[i], {"actor", "pose", "trackers"}, <<"actor", "trackers">>)
       ?? Field(value.elements[i], "pose", PoseRead) ?? Field(value.elements[i], "trackers", TrackersRead)
       ?? IdRead(value.elements, i, "actor"))])

ActorsRead(value) ==
  OfKind(value, "Array")
  ?? FirstOf([i \in DOMAIN value.elements |-> AtIndex(i, ActorRead(value.elements, i))])

\* The format is read before any other key.
FormatRead(value) ==
  OfKind(value, "Object")
  ?? (IF "format" \in KeysOf(value) THEN NoFault ELSE At("format", Fail("KeyMissing")))
  ?? At("format", StringRead(Find(value, "format"))
                  ?? (IF Find(value, "format").text = Format THEN NoFault ELSE Fail("FormatUnknown")))

\* Why DecodeFrame refuses a message, or NoFault.
Decode(value) ==
  (IF Size(value) > MaxMessage THEN Fail("MessageTooLarge") ELSE NoFault) ?? Parse(value, 0)
  ?? FormatRead(value)
  ?? KeysRead(value, {"format", "frameNumber", "sourceProfile", "timing", "actors"},
              <<"frameNumber", "sourceProfile", "timing", "actors">>)
  ?? Field(value, "frameNumber", CounterRead) ?? Field(value, "sourceProfile", StringRead)
  ?? Field(value, "timing", TimingRead) ?? Field(value, "actors", ActorsRead)

-----------------------------------------------------------------------------
(* Reader: what an accepted part holds.                                     *)

Has(object, key, Value(_)) == IF key \in KeysOf(object) THEN <<Value(Find(object, key))>> ELSE <<>>

NumberOf(value) == value.number
TextOf(object, key) == Find(object, key).text
\* std::from_chars reads past a leading zero.
CounterOf(value) == CHOOSE n \in 0..MaxCounter : value.text \in {ToString(n), "0" \o ToString(n)}
IndexOf(value, names) == FindWord(names, value.text)

TimingOf(value) ==
  [source |-> Has(value, "sourceTimestamp", NumberOf), receive |-> Find(value, "receiveTimestamp").number,
   sequence |-> Has(value, "sequence", CounterOf), clock |-> IndexOf(Find(value, "sourceClock"), Clocks)]

RootOf(value) ==
  [position |-> Has(value, "worldPosition", Numbers), orientation |-> Has(value, "worldOrientation", Numbers),
   linear |-> Has(value, "linearVelocity", Numbers), angular |-> Has(value, "angularVelocity", Numbers)]

ConfidenceOf(value) ==
  [j \in Joint |-> IF j \in KeysOf(value) THEN Find(value, j).number ELSE 0]

ContactsOf(value) ==
  [left |-> IndexOf(Find(value, "leftFoot"), Feet), right |-> IndexOf(Find(value, "rightFoot"), Feet)]

ChannelsOf(value) ==
  Sorted([i \in DOMAIN value.members |->
            [name |-> value.members[i].key, value |-> value.members[i].value.number]])

MetadataOf(value) ==
  [kind |-> IndexOf(Find(value, "kind"), Kinds), provider |-> TextOf(value, "provider"),
   protocol |-> TextOf(value, "protocol"), sourceId |-> TextOf(value, "sourceId"),
   source |-> Has(value, "sourceTimestamp", NumberOf), sequence |-> Has(value, "sequenceNumber", CounterOf)]

PoseOf(value) ==
  [timestamp |-> Find(value, "timestamp").number, root |-> RootOf(Find(value, "root")),
   rotations |-> [j \in Joint |-> Has(Find(value, "joints"), j, Numbers)],
   confidence |-> Has(value, "confidence", ConfidenceOf), contacts |-> Has(value, "contacts", ContactsOf),
   lookAt |-> Has(value, "lookAtTarget", Numbers), channels |-> ChannelsOf(Find(value, "channels")),
   metadata |-> MetadataOf(Find(value, "metadata"))]

TrackerOf(value) ==
  [id |-> TextOf(value, "trackerId"), position |-> Has(value, "position", Numbers),
   rotation |-> Has(value, "rotation", Numbers), confidence |-> Has(value, "confidence", NumberOf)]

ActorOf(value) ==
  LET trackers == Find(value, "trackers").elements
  IN  [actor |-> TextOf(value, "actor"), pose |-> Has(value, "pose", PoseOf),
       trackers |-> [i \in DOMAIN trackers |-> TrackerOf(trackers[i])]]

FrameOf(value) ==
  LET actors == Find(value, "actors").elements
  IN  [number |-> CounterOf(Find(value, "frameNumber")), profile |-> TextOf(value, "sourceProfile"),
       timing |-> TimingOf(Find(value, "timing")),
       actors |-> [i \in DOMAIN actors |-> ActorOf(actors[i])]]

-----------------------------------------------------------------------------
InitOf(given) == phase = "Start" /\ frame = given /\ message = Null /\ fault = NoFault /\ decoded = <<>>

Init == \E given \in Frames : InitOf(given)

EncodeFrame ==
  /\ phase = "Start" /\ Encode(frame) = NoFault
  /\ phase' = "Written" /\ message' = Spell(frame)
  /\ UNCHANGED <<frame, fault, decoded>>

\* The encoder refuses; a writer that checks nothing sends the frame all the same.
EncodeRefused ==
  /\ phase = "Start" /\ Encode(frame) # NoFault
  /\ phase' = "Unchecked" /\ message' = Spell(frame) /\ fault' = Encode(frame)
  /\ UNCHANGED <<frame, decoded>>

\* What arrives was not written by EncodeFrame.
Alter ==
  /\ phase = "Written"
  /\ phase' = "Altered" /\ message' \in Altered(message)
  /\ UNCHANGED <<frame, fault, decoded>>

\* The phase a message is read in says where it came from.
DecodeFrame ==
  /\ phase \in {"Written", "Altered", "Unchecked"}
  /\ phase' = phase \o "Read"
  /\ decoded' = LET found == Decode(message)
                IN  [fault |-> found, frame |-> IF found = NoFault THEN <<FrameOf(message)>> ELSE <<>>]
  /\ UNCHANGED <<frame, message, fault>>

Next == EncodeFrame \/ EncodeRefused \/ Alter \/ DecodeFrame

Spec == Init /\ [][Next]_vars

-----------------------------------------------------------------------------
(* Properties                                                               *)

\* A message EncodeFrame wrote decodes to the frame it was given, with its
\* channels in name order and every confidence beside its joint (§4.5: joints
\* go in index order, confidence and channels in name order); only its size
\* may keep a reader from it.
WrittenIsRead ==
  phase = "WrittenRead" =>
    \/ decoded.frame = <<Settled(frame)>>
    \/ Size(message) > MaxMessage /\ decoded.fault = Fail("MessageTooLarge")

\* The same value with the members of its objects in any order.
RECURSIVE Same(_, _)
Same(u, v) ==
  /\ [u EXCEPT !.members = <<>>, !.elements = <<>>] = [v EXCEPT !.members = <<>>, !.elements = <<>>]
  /\ Len(u.elements) = Len(v.elements) /\ Len(u.members) = Len(v.members)
  /\ \A i \in DOMAIN u.elements : Same(u.elements[i], v.elements[i])
  /\ KeysOf(u) = KeysOf(v) /\ \A key \in KeysOf(u) : Same(Find(u, key), Find(v, key))

\* Whatever a peer sent, an accepted message loses nothing by being read:
\* encoding the frame it gave reproduces it, the order of keys apart.
AcceptedIsReproduced ==
  (phase \in {"AlteredRead", "UncheckedRead"} /\ decoded.fault = NoFault) =>
    LET again == decoded.frame[1]
    IN  Encode(again) = NoFault /\ Same(Spell(again), message)

\* A frame refused for what a message can spell is refused by the reader for
\* the same code at the same path ("a subject is spelled the same way
\* whichever side found the problem", FrameWire.cpp), unless its text is
\* refused before any field is read.
SidesAgree ==
  (phase = "UncheckedRead" /\ fault[1].code \in {"IdDuplicate", "QuaternionInvalid", "ValueUnknown", "KeyDuplicate"}) =>
    \/ decoded.fault = fault
    \/ fault[1].code # "KeyDuplicate" /\ decoded.fault[1].code \in {"KeyDuplicate", "MessageMalformed"}
    \/ Opaque(decoded.fault)
    \/ decoded.fault = Fail("MessageTooLarge")

\* Nothing is lost between the two ends, and they refuse alike.
WireInvariant == WrittenIsRead /\ AcceptedIsReproduced /\ SidesAgree
=============================================================================
