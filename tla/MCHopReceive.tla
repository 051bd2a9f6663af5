---------------------------- MODULE MCHopReceive ----------------------------
(* Streams for checking HopReceive with TLC. *)
EXTENDS HopReceive, TLC
CONSTANTS relayed, local, gateway, d1, d2
\* What a display hears from one gateway: the host's messages, and the gateway's
\* own, which are pings of one frame and messages of a pairing of two.
OneGateway == {relayed, local}
TheGateway == [st \in Streams |-> gateway]
TwoSessions == [st \in Streams |-> IF st = local THEN 0 ELSE 1]
PingsAreShort == [st \in Streams |-> IF st = local THEN {1, 2} ELSE {2}]
\* What a gateway hears from two displays.
TwoDisplays == {d1, d2}
ItsOwn == [st \in Streams |-> st]
SameSession == [st \in Streams |-> 3]
TwoFrames == [st \in Streams |-> {2}]
=============================================================================
