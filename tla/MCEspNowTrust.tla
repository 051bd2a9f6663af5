---------------------------- MODULE MCEspNowTrust ----------------------------
(* Boards for the runs of EspNowTrust, and how many hellos each may build.  *)
EXTENDS EspNowTrustInvariant
CONSTANTS a, b, c
Budget2 == [d \in Devices |-> 2]
OneIdentity == [d \in Devices |-> 1]
TwoAtB == [d \in Devices |-> IF d = b THEN 2 ELSE 1]
Budget21 == [d \in Devices |-> IF d = a THEN 2 ELSE 1]
OneSlot == [d \in Devices |-> 1]
TwoSlotsAtA == [d \in Devices |-> IF d = a THEN 2 ELSE 1]
=============================================================================
