--------------------------- MODULE DatagramQueue ---------------------------
(***************************************************************************)
(* What the receive queue of a radio endpoint promises its main loop: the  *)
(* datagrams that found room come out one at a time, whole, in the order   *)
(* they came in, and a full queue refuses the newest.                      *)
(***************************************************************************)
EXTENDS Naturals, Sequences

CONSTANTS
  Datagrams,
  NoDatagram,
  Limit       \* datagrams the queue can hold

VARIABLES
  queue,      \* datagrams accepted and not taken yet
  current     \* the datagram being processed

vars == <<queue, current>>

Init == queue = <<>> /\ current = NoDatagram

Accept ==
  /\ Len(queue) < Limit
  /\ \E d \in Datagrams : queue' = Append(queue, d)
  /\ UNCHANGED current

Take ==
  /\ current = NoDatagram /\ queue # <<>>
  /\ current' = Head(queue)
  /\ queue' = Tail(queue)

Finish == current' = NoDatagram /\ UNCHANGED queue

Restart == queue' = <<>> /\ current' = NoDatagram

Next == Accept \/ Take \/ Finish \/ Restart

Spec == Init /\ [][Next]_vars
=============================================================================
