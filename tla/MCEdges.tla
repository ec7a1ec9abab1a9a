------------------------------- MODULE MCEdges -------------------------------
(***************************************************************************)
(* What enters and what leaves.  mocopi from the wire to the pose:             *)
(* MocopiPacket decodes a datagram, MocopiSkeletonMap makes a rig and poses    *)
(* of what it held, and MocopiFrameAssembler times and numbers them.           *)
(* PacketCapture keeps datagrams in a file; FrameWire and JsonText ("wire"     *)
(* and "text") make a frame a message and read it; CAbi gives frames to a      *)
(* host.  Each takes the layer below as an arbitrary input, so a behaviour is  *)
(* one of theirs: the variable part says which, and the others stay as they    *)
(* begin.                                                                      *)
(***************************************************************************)
EXTENDS Integers, Sequences, MocopiFrameAssembler, CAbi

CONSTANTS
  Parts,                                             \* the components a run explores
  Datagrams, Tag, FormatType, FormatVersion, NaN, SenderIdBytes, TimecodeBytes, RotationFloats,
  TransformFloats,
  ParentColumn, MeasuredBones, NoBone, Skeletons, JointFrames,
  Keys, Captures, Texts, Pipe, Dot, Printable, BytesPerLine, MaxDatagramBytes, Tick,
  WireFrames, Altered(_), MaxFloat, MaxDouble, MaxCounter, MaxMessage, MaxDepth, WireFormat,
  Vocabulary, ByName, Clocks, Kinds, Feet, NotUtf8,
  Contents, Spelled

VARIABLES
  part,
  datagram, reading, top, payload, records, next, bones, refusedBones, unread, faults,
  map, skeleton, jointFrame, mapping, complaints,
  text, lineNumber, sawMagic, sawPeerLine, peer, previousReceiveTime, open, declaredLength,
  result, outcome, recorded,
  phase, sent, message, fault, decoded,
  content, byHost, spelled, position, out, verdict

packetVars == <<datagram, reading, top, payload, records, next, bones, refusedBones, unread,
                faults>>
mapVars == <<map, skeleton, jointFrame, mapping, complaints>>
captureVars == <<text, lineNumber, sawMagic, sawPeerLine, peer, previousReceiveTime, open,
                 declaredLength, result, outcome, recorded>>
wireVars == <<phase, sent, message, fault, decoded>>
textVars == <<content, byHost, spelled, position, out, verdict>>
mcVars == <<part, vars, packetVars, mapVars, captureVars, wireVars, textVars,
            handleVars, viewVars>>

Decoder == INSTANCE MocopiPacket WITH diagnostics <- faults
Joints == INSTANCE MocopiSkeletonMap
            WITH Frames <- JointFrames, frame <- jointFrame, diagnostics <- complaints
Capture == INSTANCE PacketCapture WITH declared <- declaredLength
Wire == INSTANCE FrameWire WITH Frames <- WireFrames, Format <- WireFormat, frame <- sent
Json == INSTANCE JsonText WITH text <- spelled, outcome <- verdict

ASSUME JointsAssumption == Joints!RigAssumption
ASSUME WireAssumption == Wire!WireAssumption

-----------------------------------------------------------------------------
(* A frame and a skeleton of two bones, and each datagram one change away:   *)
(* a chunk dropped, repeated, renamed, widened or with a value that is       *)
(* refused; a byte cut off or altered.                                       *)

Tags == [n \in {"head", "ftyp", "vrsn", "sndf", "ipad", "rcvp", "fram", "fnum", "time", "uttm", "tmcd", "btrs",
                "btdt", "bnid", "tran", "skdf", "bons", "bndt", "pbid"} |->
  CASE n = "head" -> 11 [] n = "ftyp" -> 12 [] n = "vrsn" -> 13 [] n = "sndf" -> 14 [] n = "ipad" -> 15
    [] n = "rcvp" -> 16 [] n = "fram" -> 17 [] n = "fnum" -> 18 [] n = "time" -> 19 [] n = "uttm" -> 20
    [] n = "tmcd" -> 21 [] n = "btrs" -> 22 [] n = "btdt" -> 23 [] n = "bnid" -> 24 [] n = "tran" -> 25
    [] n = "skdf" -> 26 [] n = "bons" -> 27 [] n = "bndt" -> 28 [] n = "pbid" -> 29]

Format == <<7>>

\* A tree: a tag, and bytes or trees inside.
Leaf(name, bytes) == [tag |-> Tags[name], bytes |-> bytes, inside |-> <<>>]
Node(name, inside) == [tag |-> Tags[name], bytes |-> <<>>, inside |-> inside]

RECURSIVE Spell(_)
Spell(tree) ==
  LET held == tree.bytes \o FlattenSeq([i \in DOMAIN tree.inside |-> Spell(tree.inside[i])])
  IN  <<Len(held), tree.tag>> \o held

Provenance == <<Node("head", <<Leaf("ftyp", Format), Leaf("vrsn", <<FormatVersion>>)>>),
                Node("sndf", <<Leaf("ipad", <<1, 2>>), Leaf("rcvp", <<3>>)>>)>>

Bone(n, t) == Node("btdt", <<Leaf("bnid", <<n>>), Leaf("tran", t)>>)
BoneRest(n, t) == Node("bndt", <<Leaf("bnid", <<n>>), Leaf("pbid", <<0>>), Leaf("tran", t)>>)

Frame(t) == Node("fram", <<Leaf("fnum", <<1>>), Leaf("time", <<2>>), Leaf("uttm", <<3>>), Leaf("tmcd", <<1, 1>>),
                           Node("btrs", <<Bone(0, <<1, 0, 5>>), Bone(1, t)>>)>>)
Skeleton(t) == Node("skdf", <<Node("bons", <<BoneRest(0, <<1, 0, 5>>), BoneRest(1, t)>>)>>)

Transforms == {<<0, 1, 6>>, <<0, 0, 6>>, <<0, 1, NaN>>}

Trees == UNION {{Provenance \o <<Frame(t)>>, Provenance \o <<Skeleton(t)>>} : t \in Transforms}

\* Every tree one change away.
RECURSIVE Changed(_)
Changed(inside) ==
  UNION {{RemoveAt(inside, i), Append(inside, inside[i]),
          [inside EXCEPT ![i].tag = 99], Append(inside, [inside[i] EXCEPT !.tag = 99])}
         \cup (IF inside[i].inside = <<>>
               THEN {[inside EXCEPT ![i].bytes = b] : b \in {<<>>, inside[i].bytes \o <<1>>,
                                                            [k \in DOMAIN inside[i].bytes |-> NaN],
                                                            [k \in DOMAIN inside[i].bytes |-> 200]}}
               ELSE {[inside EXCEPT ![i].inside = c] : c \in Changed(inside[i].inside)})
         : i \in DOMAIN inside}

\* Every tree with one chunk nobody knows, at the end of a container.
RECURSIVE Extended(_)
Extended(inside) ==
  {Append(inside, Leaf("fnum", <<1>>)), Append(inside, [Leaf("fnum", <<1>>) EXCEPT !.tag = 99])}
  \cup UNION {{[inside EXCEPT ![i].inside = e] : e \in Extended(inside[i].inside)} :
                i \in {j \in DOMAIN inside : inside[j].inside # <<>>}}

Bytes1(tree) == FlattenSeq([i \in DOMAIN tree |-> Spell(tree[i])])

SomeDatagrams ==
  UNION {{Bytes1(c) : c \in {t} \cup Changed(t)} : t \in Trees}
  \cup UNION {{SubSeq(Bytes1(t), 1, n) : n \in 0..Len(Bytes1(t))} : t \in Trees}
  \cup UNION {{[Bytes1(t) EXCEPT ![i] = @ + 1] : i \in DOMAIN Bytes1(t)} :
                t \in Trees \cup UNION {Extended(t) : t \in Trees}}

-----------------------------------------------------------------------------
(* A rig of six joints: hips, two joints without a bone, the chest they lead *)
(* to, a leg joint numbered before it and an arm after it.                   *)

Column == [j \in 0..5 |-> CASE j = 0 -> -1 [] j = 1 -> 0 [] j = 2 -> 1 [] j = 3 -> 2
                            [] j = 4 -> 3 [] j = 5 -> 0]
Measured == [j \in 0..5 |-> CASE j = 0 -> 1 [] j \in {1, 2} -> 0 [] j = 3 -> 2 [] j = 4 -> 5
                              [] j = 5 -> 3]

Rest(j) == [id |-> j, parent |-> Column[j], usable |-> TRUE, rotation |-> <<"rest", j>>,
            offset |-> <<"at", j>>]
Whole == [i \in 1..6 |-> Rest(i - 1)]
Extra(id) == [Rest(5) EXCEPT !.id = id, !.rotation = <<"rest", id>>]

SomeSkeletons ==
  {Whole, Append(Whole, Extra(6)), Append(Whole, Extra(3)), SubSeq(Whole, 1, 5),
   [Whole EXCEPT ![2] = Whole[3], ![3] = Whole[2]], [Whole EXCEPT ![5].parent = 0],
   [Whole EXCEPT ![4].usable = FALSE],
   [Whole EXCEPT ![3].rotation = <<"other", 2>>, ![3].offset = <<"else", 2>>]}

Sample(j, n) == [id |-> j, usable |-> TRUE, rotation |-> <<n, j>>, offset |-> <<"at", j>>]
Full == [i \in 1..6 |-> Sample(i - 1, "a")]
Bad(j) == [Sample(j, "b") EXCEPT !.usable = FALSE]

SomeFrames ==
  {Full, Reverse(Full)} \cup {RemoveAt(Full, i) : i \in 1..6}
  \cup {[Full EXCEPT ![i] = Bad(i - 1)] : i \in {1, 3, 4}}
  \cup {Append(Full, r) : r \in {Sample(j, "b") : j \in {2, 3, 6, 7}} \cup {Bad(3), Bad(9)}}
  \cup {<<Bad(j)>> \o Full : j \in {0, 2, 5}}
  \cup {[Full EXCEPT ![i].offset = <<"else", i>>] : i \in {1, 4}}
  \cup {<<Sample(0, "a"), Sample(5, "b")>>, <<Sample(5, "a"), Sample(0, "b")>>}

-----------------------------------------------------------------------------
(* Recordings of up to three datagrams from three peers, and every text one  *)
(* line away from one: dropped, repeated, swapped, cut short or added.       *)

Lines == INSTANCE PacketCapture WITH Captures <- {}, Texts <- {}, declared <- declaredLength

HeaderKeys == {"sender", "peer"}

Headers == {[k \in Keys |-> v[k]] : v \in [Keys -> {Lines!NoText, "x"}]}
Payloads == {<<>>, <<0>>, <<7, 8, 0>>, <<7>>, <<9, 7, 7, 1, 9>>}

Datagram(t, p, b) == [time |-> t, peer |-> p, bytes |-> b]

Runs ==
  {<<Datagram(1, p, b)>> : p \in {Lines!NoText, "a"}, b \in Payloads}
  \cup {<<Datagram(1, p, <<7>>), Datagram(t, q, b), Datagram(4, r, <<0>>)>> :
          t \in 1..4, p, q, r \in {Lines!NoText, "a", "b"}, b \in {<<>>, <<9, 7, 7, 1, 9>>}}

SomeCaptures == {[header |-> h, datagrams |-> d] : h \in Headers, d \in Runs}

Base ==
  Lines!Written([header |-> [k \in Keys |-> "x"],
                 datagrams |-> <<Datagram(2, "a", <<7, 8, 0>>), Datagram(4, Lines!NoText, <<>>),
                                 Datagram(6, "b", <<9>>)>>])

Strays ==
  {[keyword |-> "blank", whole |-> TRUE], Lines!Magic, Lines!PeerLine("a"),
   Lines!PeerLine(Lines!Unknown), Lines!RecordLine(2, 0), Lines!RecordLine(9, 2),
   Lines!RecordLine(0, 1), Lines!RecordLine(3, 99), Lines!RecordLine(-1, 0), Lines!Key("peer", "y"),
   Lines!Key("other", "y"), Lines!HexLine(<<9>>), [Lines!HexLine(<<9, 0>>) EXCEPT !.tail = <<>>],
   Lines!HexLine(<<>>), [Lines!HexLine(<<9>>) EXCEPT !.tail = <<Pipe>>],
   [Lines!HexLine(<<9>>) EXCEPT !.tail = <<Pipe, 8, Pipe>>], [Lines!PeerLine("a") EXCEPT !.whole = FALSE],
   [Lines!RecordLine(3, 0) EXCEPT !.whole = FALSE], [Lines!Magic EXCEPT !.whole = FALSE],
   [Lines!HexLine(<<9>>) EXCEPT !.whole = FALSE]}

Near(t) ==
  {RemoveAt(t, i) : i \in DOMAIN t} \cup {SubSeq(t, 1, n) : n \in 0..Len(t)}
  \cup {InsertAt(t, i, s) : i \in 1..(Len(t) + 1), s \in Strays}
  \cup {[t EXCEPT ![i] = s] : i \in DOMAIN t, s \in Strays}
  \cup {[t EXCEPT ![i] = t[i + 1], ![i + 1] = t[i]] : i \in 1..(Len(t) - 1)}

SomeTexts == UNION {Near(t) : t \in {Base} \cup {RemoveAt(Base, i) : i \in DOMAIN Base}}

-----------------------------------------------------------------------------
(* Frames one or two edits from a full one, and messages one edit away.      *)

Words == <<"a", "b">>
OrderedNames == <<"hips", "jaw", "smile", "other", "%ff">>
JointNames == <<"jaw", "hips">>
BadTexts == {"%ff"}

Unit == <<1, 0, 0, 0>>
FullTiming == [source |-> <<1>>, receive |-> 2, sequence |-> <<1>>, clock |-> 0]
FullRoot == [position |-> <<<<0, 1, 2>>>>, orientation |-> <<Unit>>, linear |-> <<>>, angular |-> <<<<1, 1, 1>>>>]
FullMetadata == [kind |-> 1, provider |-> "p", protocol |-> "q", sourceId |-> "", source |-> <<>>, sequence |-> <<2>>]
FullPose == [timestamp |-> 3, root |-> FullRoot,
         rotations |-> [j \in {"jaw", "hips"} |-> IF j = "hips" THEN <<Unit>> ELSE <<<<0, 0, 1, 0>>>>],
         confidence |-> <<[j \in {"jaw", "hips"} |-> IF j = "hips" THEN 1 ELSE 2]>>,
         contacts |-> <<[left |-> 0, right |-> 1]>>, lookAt |-> <<<<1, 0, 0>>>>,
         channels |-> <<[name |-> "smile", value |-> 1], [name |-> "jaw", value |-> 0]>>,
         metadata |-> FullMetadata]
FullTracker == [id |-> "t", position |-> <<<<1, 2, 0>>>>, rotation |-> <<Unit>>, confidence |-> <<1>>]
FullFrame == [number |-> 1, profile |-> "x", timing |-> FullTiming,
         actors |-> <<[actor |-> "m", pose |-> <<FullPose>>, trackers |-> <<FullTracker>>],
                      [actor |-> "n", pose |-> <<>>, trackers |-> <<>>]>>]

Infinite == MaxDouble + 1

PoseEdits(p) ==
  {[p EXCEPT !.confidence = <<>>], [p EXCEPT !.rotations["jaw"] = <<>>], [p EXCEPT !.contacts = <<>>],
   [p EXCEPT !.rotations["jaw"] = <<<<1, 1, 0, 0>>>>], [p EXCEPT !.rotations["hips"] = <<<<0, 0, 0, 0>>>>],
   [p EXCEPT !.contacts[1].right = 2], [p EXCEPT !.lookAt[1][2] = Infinite], [p EXCEPT !.lookAt = <<>>],
   [p EXCEPT !.channels[2].name = "smile"], [p EXCEPT !.channels[1].name = "%ff"], [p EXCEPT !.channels = <<>>],
   [p EXCEPT !.confidence[1]["jaw"] = Infinite], [p EXCEPT !.metadata.kind = 2], [p EXCEPT !.metadata.source = <<3>>],
   [p EXCEPT !.metadata.sequence = <<>>], [p EXCEPT !.metadata.provider = "%ff"], [p EXCEPT !.timestamp = Infinite],
   [p EXCEPT !.root.orientation = <<<<0, 0, 1, 1>>>>], [p EXCEPT !.root.linear = <<<<0, 0, Infinite>>>>],
   [p EXCEPT !.root.position = <<>>]}

TrackerEdits(t) ==
  {[t EXCEPT !.position = <<>>], [t EXCEPT !.rotation = <<<<1, 1, 1, 0>>>>], [t EXCEPT !.confidence = <<>>],
   [t EXCEPT !.confidence = <<Infinite>>], [t EXCEPT !.id = "%ff"]}

Edits(f) ==
  {[f EXCEPT !.actors[1].pose = <<p>>] : p \in IF f.actors[1].pose = <<>> THEN {} ELSE PoseEdits(f.actors[1].pose[1])}
  \cup {[f EXCEPT !.actors[1].trackers = Append(@, t)] : t \in {FullTracker, [FullTracker EXCEPT !.id = "u"]}}
  \cup {[f EXCEPT !.actors[1].trackers[1] = t] : t \in TrackerEdits(f.actors[1].trackers[1])}
  \cup {[f EXCEPT !.actors[2].actor = "m"], [f EXCEPT !.actors[2].actor = "%ff"], [f EXCEPT !.profile = "%ff"],
        [f EXCEPT !.actors[2].trackers = <<[FullTracker EXCEPT !.rotation = <<<<1, 1, 0, 0>>>>]>>],
        [f EXCEPT !.actors[1].pose = <<>>], [f EXCEPT !.number = 0], [f EXCEPT !.timing.clock = 2],
        [f EXCEPT !.timing.source = <<>>], [f EXCEPT !.timing.receive = Infinite], [f EXCEPT !.timing.sequence = <<>>]}

SomeWireFrames == {FullFrame} \cup Edits(FullFrame) \cup UNION {Edits(f) : f \in Edits(FullFrame)}

Replacements(value) ==
  CASE value.kind = "String" -> {Wire!Str("9"), Wire!Str("01"), Wire!Str("b"), Wire!Str("m"), Wire!Str("%ff"), Wire!Null}
    [] value.kind = "Number" -> {Wire!Num(0), Wire!Num(MaxDouble), Wire!Num(MaxDouble + 1), Wire!Str("1")}
    [] OTHER -> {Wire!Null, Wire!Obj(<<>>), Wire!Arr(<<>>)}

\* One place of the message is changed.
RECURSIVE ChangedValue(_)
ChangedValue(value) ==
  Replacements(value)
  \cup UNION {{[value EXCEPT !.elements[i] = e] : e \in ChangedValue(value.elements[i])}
              \cup {[value EXCEPT !.elements = RemoveAt(@, i)], [value EXCEPT !.elements = Append(@, value.elements[i])]}
              : i \in DOMAIN value.elements}
  \cup UNION {{[value EXCEPT !.members[i].value = e] : e \in ChangedValue(value.members[i].value)}
              \cup {[value EXCEPT !.members = RemoveAt(@, i)], [value EXCEPT !.members = Append(@, value.members[i])],
                    [value EXCEPT !.members[i].key = "other"],
                    [value EXCEPT !.members = RemoveAt(@, i) \o <<value.members[i]>>]}
              : i \in DOMAIN value.members}

\* Nothing nests deeper than the format does in what is written.
Deep(value) == Wire!Arr(<<Wire!Arr(<<Wire!Arr(<<Wire!Arr(<<Wire!Arr(<<Wire!Arr(<<value>>)>>)>>)>>)>>)>>)

\* Only the messages of a few frames are altered.
SomeAltered(value) ==
  IF value \in {Wire!Spell(f) : f \in {FullFrame, [FullFrame EXCEPT !.actors[1].pose = <<>>]}}
  THEN ChangedValue(value) \cup {Deep(value)} ELSE {value}

-----------------------------------------------------------------------------
(* Bytes at the edges of every row of the UTF-8 table, and whole escapes.    *)

Edges == {31, 34, 47, 65, 92, 98, 117, 127, 128, 143, 144, 159, 160, 191, 193, 194, 223, 224, 237,
          239, 240, 244, 245}

Leads4 == {<<240, 143, 191, 191>>, <<240, 144, 128, 128>>, <<244, 143, 191, 191>>, <<244, 144, 128, 128>>,
           <<243, 191, 191, 192>>}

\* Strings of up to three bytes at the edges, and a few of four.
SomeContents == UNION {[1..n -> Edges] : n \in 0..3} \cup Leads4

U(hex) == <<92, 117>> \o hex

\* \u0000 \u0041 \u007f \u0080 \u07ff \u0800 \ud7ff \ud800 \uDBFF \udc00 \udFFF \ue000 \uffff \u00g0 \u00
Escapes == {U(<<48, 48, 48, 48>>), U(<<48, 48, 52, 49>>), U(<<48, 48, 55, 102>>), U(<<48, 48, 56, 48>>),
            U(<<48, 55, 102, 102>>), U(<<48, 56, 48, 48>>), U(<<100, 55, 102, 102>>), U(<<100, 56, 48, 48>>),
            U(<<68, 66, 70, 70>>), U(<<100, 99, 48, 48>>), U(<<100, 70, 70, 70>>), U(<<101, 48, 48, 48>>),
            U(<<102, 102, 102, 102>>), U(<<48, 48, 103, 48>>), U(<<48, 48>>)}

Tokens == Escapes \cup {<<b>> : b \in Edges} \cup Leads4 \cup {<<92, b>> : b \in {34, 47, 92, 98, 65}}

SomeSpelled == {a \o b \o c : a, b \in Tokens, c \in {<<>>, <<128>>, <<92>>, U(<<100, 99, 48, 48>>)}}

-----------------------------------------------------------------------------

MCInit ==
  /\ part \in Parts
  /\ Init
  /\ IF part = "packet" THEN Decoder!Init ELSE Decoder!InitOf(<<>>)
  /\ Joints!Init
  /\ IF part = "capture" THEN Capture!Init ELSE Capture!InitOf(<<>>, <<>>)
  /\ IF part = "wire" THEN Wire!Init ELSE Wire!InitOf(Wire!NoFault)
  /\ IF part = "text" THEN Json!Init ELSE Json!InitOf(<<>>)
  /\ Handle!Init
  /\ IF part = "view" THEN View!Init ELSE View!InitOf([actors |-> <<>>, sequence |-> FALSE])

mocopiVars == <<vars, packetVars, mapVars>>
formatVars == <<captureVars, wireVars, textVars>>
abiVars == <<handleVars, viewVars>>

Decode == part = "packet" /\ Decoder!Next /\ UNCHANGED <<vars, mapVars>>
Compose == part = "joints" /\ Joints!Next /\ UNCHANGED <<vars, packetVars>>
Assemble == part = "assembler" /\ Next /\ UNCHANGED <<packetVars, mapVars>>
Record == part = "capture" /\ Capture!Next /\ UNCHANGED <<wireVars, textVars>>
Exchange == part = "wire" /\ Wire!Next /\ UNCHANGED <<captureVars, textVars>>
Quote == part = "text" /\ Json!Next /\ UNCHANGED <<captureVars, wireVars>>
Serve == part = "handle" /\ Handle!Next /\ UNCHANGED viewVars
Show == part = "view" /\ View!Next /\ UNCHANGED handleVars

MCNext ==
  \/ (Decode \/ Compose \/ Assemble) /\ UNCHANGED <<part, formatVars, abiVars>>
  \/ (Record \/ Exchange \/ Quote) /\ UNCHANGED <<part, mocopiVars, abiVars>>
  \/ (Serve \/ Show) /\ UNCHANGED <<part, mocopiVars, formatVars>>

MCSpec == MCInit /\ [][MCNext]_mcVars

-----------------------------------------------------------------------------

\* Every byte of a decoded datagram is in one chunk, every chunk is read or
\* named, and every refusal says why.
EveryChunkAccounted == Decoder!EveryChunkAccounted

\* A pose composed from the hips down turns and places each bone as the
\* device's joints do, at rest and in a frame.
PosesAreTheRigs == Joints!PosesAreTheRigs

\* A capture reads back as it was recorded, and gives no byte to another's.
CapturesReadBack == Capture!CapturesReadBack

\* A frame written is the frame read, what is accepted is reproduced, and the
\* two sides agree on what is well-formed.
WireInvariant == Wire!WireInvariant

\* What the parser hands out is well-formed UTF-8, and what a host wrote is read.
ReadTextIsUtf8 == Json!ReadTextIsUtf8
=============================================================================
