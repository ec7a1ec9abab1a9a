-------------------------------- MODULE MCVmc --------------------------------
(***************************************************************************)
(* VMC from the wire to the consumer: OscPacket decodes a datagram, VmcMessage *)
(* its messages, VmcFrameAssembler makes frames of them and DatagramConnector  *)
(* hands them on.  Each takes the layer below as an arbitrary input, so a      *)
(* behaviour is one of theirs: the variable part says which, and the others    *)
(* stay as they begin.                                                         *)
(***************************************************************************)
EXTENDS VmcFrameAssembler

CONSTANTS
  Parts,                                             \* the components a run explores
  Word, SizeLimit, MaxBundleDepth, Datagrams,
  Packets, Forms, VmcBoneNames, NaN,
  RequestedCapacities, MaxPushes, MaxFrames, MaxArrivals, MaxInputs, MaxOpens, MaxCaptures

VARIABLES
  part,
  datagram, elements, offset, reading, tags, address, arguments, oscMessages, bundled, spans,
  vmcPacket, index, vmcMessages, unsupported, malformed, mapped, samples, refused,
  capacity, mode, frames, pushedFrames, polledFrames, droppedFrames, skippedFrames,
  rejectedFrames, offered, accepted, lastPolled, clearedFrames, state, socketOpen, waiting,
  call, pending, partial, capturing, capture, opened, arrived, received, arrivals, inputs,
  opens, captures

oscVars == <<datagram, elements, offset, reading, tags, address, arguments, oscMessages,
             bundled, spans>>
messageVars == <<vmcPacket, index, vmcMessages, unsupported, malformed, mapped, samples,
                 refused>>
connectorVars == <<capacity, mode, frames, pushedFrames, polledFrames, droppedFrames,
                   skippedFrames, rejectedFrames, offered, accepted, lastPolled,
                   clearedFrames, state, socketOpen, waiting, call, pending, partial,
                   capturing, capture, opened, arrived, received, arrivals, inputs, opens,
                   captures>>
mcVars == <<part, vars, oscVars, messageVars, connectorVars>>

Osc == INSTANCE OscPacket WITH messages <- oscMessages
Messages == INSTANCE VmcMessage
             WITH Bones <- VmcBoneNames, packet <- vmcPacket, messages <- vmcMessages
Connector == INSTANCE DatagramConnector WITH session <- opened

ASSUME OscAssumption == Osc!OscAssumption
ASSUME MessageAssumption == Messages!FormAssumption /\ Messages!PacketAssumption
ASSUME ConnectorAssumption == Connector!BoundsAssumption

-----------------------------------------------------------------------------
(* Datagrams: a prefix and up to three words of two bytes each.             *)

\* "/" | "/a" | nothing | "," | ",i" ",s" ",b" ",h" ",T" ",?" | "bi" | sizes | "#b", NUL-ended magic
Words == {<<47, 0>>, <<47, 97>>, <<0, 0>>, <<44, 0>>, <<44, 105>>, <<44, 115>>, <<44, 98>>,
          <<44, 104>>, <<44, 84>>, <<44, 63>>, <<98, 105>>, <<0, 1>>, <<0, 2>>, <<0, 3>>, <<0, 4>>,
          <<0, 6>>, <<255, 0>>}

Header == <<35, 98, 117, 0, 7, 7, 7, 7>>

Heads == {<<>>, Header, <<47, 0, 44, 98, 0, 0>>, <<47, 0, 44, 98, 105, 0>>, <<47, 0>>,
          Header \o <<0, 10>> \o Header, Header \o <<0, 4, 47, 0, 44, 0>>, Header \o <<0, 8>>,
          Header \o <<0, 14>> \o Header \o <<0, 4>>,
          Header \o <<0, 30>> \o Header \o <<0, 20>> \o Header \o <<0, 10>> \o Header}

Tails == UNION {[1..n -> Words] : n \in 0..3}

Lone == <<47>>
SomeDatagrams == {p \o FlattenSeq(t) : p \in Heads, t \in Tails}
                   \cup {Lone, <<47, 0, 44>>, Header \o <<0>>}

-----------------------------------------------------------------------------
(* Packets: up to two messages out of every kind, well formed and not.      *)

Form(kind, required, optional) == [kind |-> kind, required |-> required, optional |-> optional]

TransformTags == <<"s", "f", "f", "f", "f", "f", "f", "f">>

AllForms ==
  [a \in {"ok", "t", "vrm", "root", "bone", "blend", "apply"} |->
     CASE a = "ok" -> Form("Availability", <<"i">>, <<"i", "i">>)
       [] a = "t" -> Form("Time", <<"f">>, <<>>)
       [] a = "vrm" -> Form("Model", <<"s", "s">>, <<>>)
       [] a = "root" -> Form("RootTransform", TransformTags, <<>>)
       [] a = "bone" -> Form("BoneTransform", TransformTags, <<>>)
       [] a = "blend" -> Form("BlendValue", <<"s", "f">>, <<>>)
       [] a = "apply" -> Form("BlendApply", <<>>, <<>>)]

Given(tag, text, number) == [tag |-> tag, text |-> text, number |-> number]

\* One argument a tag, numbered by its place.
Arguments(given, text) == [i \in DOMAIN given |-> Given(given[i], text, i)]

OscMessage(to, given, values) == [address |-> to, tags |-> given, arguments |-> values]

TagStrings == {<<>>, <<"i">>, <<"f">>, <<"i", "i">>, <<"i", "f">>, <<"i", "f", "i">>,
               <<"i", "i", "i">>, <<"i", "i", "i", "i">>, <<"s", "s">>, <<"s", "f">>,
               <<"s", "f", "f">>, TransformTags, Append(TransformTags, "f"), <<"f", "i">>}

Plain == {OscMessage(a, t, Arguments(t, n)) :
            a \in DOMAIN AllForms \cup {"other"}, t \in TagStrings, n \in {"Hips", "Tail"}}

\* Transforms with a rotation or a position that is refused; a message whose tags miscount.
Odd ==
  {OscMessage(a, TransformTags,
              [i \in 1..8 |-> Given(TransformTags[i], n, IF i \in at THEN v ELSE 0)]) :
     a \in {"root", "bone"}, n \in {"Hips", "Tail"}, v \in {1, NaN},
     at \in {{2}, {5}, {8}, {3, 6}, 1..8}}
  \cup {OscMessage("t", <<"f">>, <<>>), OscMessage("t", <<>>, <<Given("f", "", 1)>>),
        OscMessage("other", <<"f">>, <<>>)}

SomePackets == {<<>>} \cup {<<m>> : m \in Plain \cup Odd} \cup {<<m, n>> : m \in Plain, n \in Odd}

-----------------------------------------------------------------------------

MCInit ==
  /\ part \in Parts
  /\ Init
  /\ IF part = "osc" THEN Osc!Init ELSE Osc!InitOf(Lone)
  /\ IF part = "message" THEN Messages!Init ELSE Messages!InitOf(<<>>)
  /\ Connector!Init

InConnector(action) ==
  part = "connector" /\ action /\ UNCHANGED <<part, vars, oscVars, messageVars>>

MCNext ==
  \/ part = "assembler" /\ Next /\ UNCHANGED <<part, oscVars, messageVars, connectorVars>>
  \/ part = "osc" /\ Osc!Next /\ UNCHANGED <<part, vars, messageVars, connectorVars>>
  \/ part = "message" /\ Messages!Next /\ UNCHANGED <<part, vars, oscVars, connectorVars>>
  \/ InConnector(Connector!Next)

\* The fairness of Connector!FairSpec: a caller that polls.
MCSpec ==
  /\ MCInit /\ [][MCNext]_mcVars
  /\ WF_mcVars(InConnector(Connector!Poll)) /\ WF_mcVars(InConnector(Connector!EnqueueFrame))
  /\ WF_mcVars(InConnector(Connector!CallReturns))

-----------------------------------------------------------------------------

\* Whatever sizes a datagram declares, each byte is read once, inside its element.
BytesReadOnce == Osc!BytesReadOnce

\* Each argument is read as the type its form gives it, and a refused message
\* takes no other with it.
ReadAsTheirForm == Messages!ReadAsTheirForm

\* A state promises no frame it does not hold, every frame number is accounted
\* for, a frame is of one session, and a capture is what was received.
ConnectorInvariant == Connector!ConnectorInvariant

\* Frame numbers advance and a caller that keeps polling empties the socket.
DeliveryKeepsUp == Connector!DeliveryKeepsUp
=============================================================================
