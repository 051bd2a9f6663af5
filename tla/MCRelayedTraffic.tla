-------------------------- MODULE MCRelayedTraffic --------------------------
(* Boards for checking RelayedTraffic with TLC. *)
EXTENDS RelayedTraffic, TLC
CONSTANTS c1, c2, gw
OneDisplay == {c1}
TwoDisplays == {c1, c2}
GatewayOnly == {gw}
OneDisplayAndGateway == {c1, gw}
Nobody == {}
TwoAttempts == [b \in Boards |-> 2]
OneByADisplay == [b \in Boards |-> IF b = gw THEN 2 ELSE 1]
Swapped == Permutations(TwoDisplays)
=============================================================================
