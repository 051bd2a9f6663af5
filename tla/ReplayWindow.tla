---------------------------- MODULE ReplayWindow ----------------------------
(***************************************************************************)
(* What a session promises a host that repeats a command it got no answer  *)
(* to: as long as fewer than Capacity other commands have run since, the   *)
(* command is not run again and is answered as it was the first time.  A   *)
(* restart ends the promise.                                               *)
(***************************************************************************)
EXTENDS Naturals, Sequences

CONSTANTS OperationIds, Answers, Capacity

VARIABLES
  window,    \* the last Capacity commands that ran, the oldest first
  executed,  \* how often each ran
  reply      \* what was answered last

Entry(op, answer) == [operationId |-> op, result |-> answer]

Ran(op) == \E i \in DOMAIN window : window[i].operationId = op

Latest(entry) ==
  IF Len(window) < Capacity THEN Append(window, entry) ELSE Append(Tail(window), entry)

First(op, answer, restart) ==
  /\ ~Ran(op)
  /\ executed' = [executed EXCEPT ![op] = @ + 1]
  /\ reply' = Entry(op, answer)
  /\ window' = IF restart THEN <<>> ELSE Latest(reply')

Repeat(op) ==
  /\ \E i \in DOMAIN window : window[i].operationId = op /\ reply' = window[i]
  /\ UNCHANGED <<window, executed>>

Restart == window' = <<>> /\ UNCHANGED <<executed, reply>>

Init == window = <<>> /\ executed = [op \in OperationIds |-> 0] /\ reply = <<>>

Next ==
  \/ \E op \in OperationIds, a \in Answers, r \in BOOLEAN : First(op, a, r)
  \/ \E op \in OperationIds : Repeat(op)
  \/ Restart

Spec == Init /\ [][Next]_<<window, executed, reply>>
=============================================================================
