----------------------------- MODULE MCMainLoop -----------------------------
(* A line of one character and a block of two bytes.  A frame has a byte     *)
(* that is a newline to the legacy endpoint.                                 *)
EXTENDS MainLoop
CONSTANTS a, b, c
Texts ==
  [k \in Kinds |->
     CASE k = "long"  -> <<"char", "char", "newline">>
       [] k = "frame" -> <<"char", "newline", "zero">>
       [] k = "big"   -> <<"char", "char", "char", "zero">>
       [] OTHER       -> <<"char", "newline">>]
=============================================================================
