---------------------------- MODULE FrameChannel ----------------------------
(***************************************************************************)
(* What the bounded buffer between a source and the consumer's tick        *)
(* promises, whatever its mode (docs/design/CONNECTOR_CONTRACT.md, section *)
(* 8): frames leave in the order they were accepted, a frame is lost only  *)
(* from the old end, and no loss is silent -- each accepted frame is taken,*)
(* counted as dropped, discarded by a clear, or still held.                *)
(*                                                                         *)
(* A frame is the number of the Push that offered it.  `held` is a set:    *)
(* the order is the numbers'.  How many frames may be held, and when one   *)
(* is dropped or refused, is left to the buffer that implements this.      *)
(***************************************************************************)
EXTENDS Naturals

VARIABLES
  offered,    \* pushes so far; also the newest frame offered
  held,       \* accepted and neither taken, dropped nor discarded
  lastTaken,  \* the newest frame a consumer took, 0 before the first
  dropped     \* how many frames overflow displaced

channelVars == <<offered, held, lastTaken, dropped>>

ChannelInit ==
  /\ offered = 0
  /\ held = {}
  /\ lastTaken = 0
  /\ dropped = 0

\* An offered frame is accepted beside everything already held.
Accept ==
  /\ offered' = offered + 1
  /\ held' = held \cup {offered + 1}
  /\ UNCHANGED <<lastTaken, dropped>>

\* An offered frame is accepted in the place of the oldest one.
Displace ==
  \E old \in held :
    /\ \A other \in held : old <= other
    /\ offered' = offered + 1
    /\ held' = (held \ {old}) \cup {offered + 1}
    /\ dropped' = dropped + 1
    /\ UNCHANGED lastTaken

\* An offered frame is turned away and nothing held is touched.
Refuse ==
  /\ offered' = offered + 1
  /\ UNCHANGED <<held, lastTaken, dropped>>

\* The consumer takes the oldest frame held.
Take ==
  \E old \in held :
    /\ \A other \in held : old <= other
    /\ held' = held \ {old}
    /\ lastTaken' = old
    /\ UNCHANGED <<offered, dropped>>

\* A clear discards everything held, and it is not an overflow.
Discard ==
  /\ held' = {}
  /\ UNCHANGED <<offered, lastTaken, dropped>>

ChannelNext == Accept \/ Displace \/ Refuse \/ Take \/ Discard

ChannelSpec == ChannelInit /\ [][ChannelNext]_channelVars
=============================================================================
