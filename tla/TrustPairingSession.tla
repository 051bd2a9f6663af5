------------------------- MODULE TrustPairingSession -------------------------
(***************************************************************************)
(* One pairing attempt as TrustPairingSession keeps it: the session is a   *)
(* record, and every public method is an operator from the session before  *)
(* the call to the session after it.  The callers (EspNowEndpoint,         *)
(* GatewayRelay) test the state first, so the operators below are only     *)
(* applied where the method does not return early.  `waited` counts clock  *)
(* steps since lastChangeMs_; it stands still while no attempt runs, where *)
(* tick() does not look at it.                                             *)
(*                                                                         *)
(* A hello stands for the signed (static key, ephemeral key, nonce) triple *)
(* of TrustHandshake.  Both sides hash and derive from the pair of hellos  *)
(* in an order that does not depend on who started, so the transcript, and *)
(* with it the six digit code and the link master key, is the SET of the   *)
(* two hellos: equal codes mean equal transcripts.                         *)
(***************************************************************************)
EXTENDS Naturals

States == {"Idle", "AwaitingPeerHello", "AwaitingApproval",
           "AwaitingPeerConfirm", "Committed", "Cancelled"}

NoHello == <<>>

\* A session after construction, and after reset().
FreshSession ==
  [state |-> "Idle", ourHello |-> NoHello, peerHello |-> NoHello,
   localConfirmed |-> FALSE, peerConfirmed |-> FALSE, waited |-> 0]

InFlight(s) ==
  s.state \in {"AwaitingPeerHello", "AwaitingApproval", "AwaitingPeerConfirm"}

Terminal(s) == s.state \in {"Committed", "Cancelled"}

\* What both sides sign, and what the code and the link key are derived from.
Transcript(s) == {s.ourHello, s.peerHello}

BeginAsInitiator(s, hello) ==
  [s EXCEPT !.state = "AwaitingPeerHello", !.ourHello = hello, !.waited = 0]

\* From Idle the session becomes a responder and answers with `reply`; from
\* AwaitingPeerHello the hello completes the attempt it started itself.
OnPeerHello(s, hello, reply) ==
  [s EXCEPT !.state = "AwaitingApproval", !.peerHello = hello,
            !.ourHello = IF s.state = "Idle" THEN reply ELSE @, !.waited = 0]

ConfirmLocally(s) ==
  [s EXCEPT !.localConfirmed = TRUE,
            !.state = IF s.peerConfirmed THEN "Committed" ELSE "AwaitingPeerConfirm",
            !.waited = 0]

\* A good confirmation starts the window afresh, the same one heard again too.
OnPeerConfirm(s) ==
  [s EXCEPT !.peerConfirmed = TRUE, !.waited = 0,
            !.state = IF s.localConfirmed THEN "Committed" ELSE @]

\* cancel() keeps the confirmations and the hellos; only the state moves.
Cancel(s) == [s EXCEPT !.state = "Cancelled", !.waited = 0]

Waiting(s) == [s EXCEPT !.waited = @ + 1]

\* What tick() asks.
TimedOut(s, window) == InFlight(s) /\ s.waited >= window

ShouldSendCancel(s) == s.state \notin {"Idle", "Cancelled"}

\* The callers clear a lingering result before they start the next attempt.
ClearedIfTerminal(s) == IF Terminal(s) THEN FreshSession ELSE s
=============================================================================
