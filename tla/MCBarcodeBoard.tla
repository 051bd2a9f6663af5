---------------------------- MODULE MCBarcodeBoard ----------------------------
(* One payload that is encodable and one that is not, on a panel where the   *)
(* encodable one has bigger modules in landscape than in portrait.           *)
EXTENDS BarcodeBoard
CONSTANTS empty, text, portrait, landscape
TwoWays == [o \in Orientations |-> [c \in Contents |-> IF o = landscape THEN 2 ELSE 1]]
=============================================================================
