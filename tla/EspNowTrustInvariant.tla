------------------------ MODULE EspNowTrustInvariant ------------------------
(***************************************************************************)
(* The inductive invariant behind the safety properties of EspNowTrust.    *)
(* A link can be trusted because of what the session knew when it was      *)
(* committed, so the invariant follows a handshake from the messages on    *)
(* the air through the session into the store and the peer table.          *)
(***************************************************************************)
EXTENDS EspNowTrust

Owner(hello) == hello[1][1]

\* A hello names the board that sent it; a confirmation on the air was signed.
MessageInv ==
  /\ \A m \in begins : Owner(m.hello) = m.from
  /\ \A m \in confirms : <<m.signer, m.over>> \in signed

\* Both hellos are known: the session can derive the key.
Derived(s) == s.state \in {"AwaitingApproval", "AwaitingPeerConfirm", "Committed"}

SessionInv(d) ==
  LET s == session[d]
  IN  /\ s.state = "Idle" => s = FreshSession
      /\ s.state = "AwaitingPeerHello" =>
           /\ s.ourHello \in Hellos /\ Owner(s.ourHello) = d
           /\ ~s.localConfirmed /\ ~s.peerConfirmed
      /\ s.state = "AwaitingApproval" => ~s.localConfirmed
      /\ s.state = "AwaitingPeerConfirm" => s.localConfirmed /\ ~s.peerConfirmed
      /\ InFlight(s) => target[d] \in Devices /\ lmk[d][target[d]] = {}
      /\ Derived(s) =>
           /\ s.ourHello \in Hellos /\ Owner(s.ourHello) = d
           /\ s.peerHello \in Hellos /\ Owner(s.peerHello) = target[d]
           /\ s.localConfirmed => <<s.ourHello[1], Transcript(s)>> \in signed
           /\ s.localConfirmed => PeerKey(s) \in tapped[d]
           /\ s.peerConfirmed => <<PeerKey(s), Transcript(s)>> \in signed

\* What the store, the file and a handshake in progress say about the same MAC
\* agrees; no entry is without its record before the switch to gateway mode.
StoreInv(d) ==
  /\ file[d] = store[d] \/ file[d] = {}
  /\ gateway[d] \/ stray[d] = {}
  /\ \A r, q \in store[d] : r.mac = q.mac => r = q
  /\ \A r \in store[d] : r.key \in tapped[d]
  /\ session[d].state = "AwaitingApproval" => target[d] \notin TrustedMacs(d)
  /\ session[d].state = "AwaitingPeerConfirm" =>
       \A r \in store[d] : r.mac = target[d] => r.key = PeerKey(session[d])

LinkInv(d) ==
  \A m \in Devices : Encrypted(d, m) =>
    /\ m \in registered[d]
    /\ \E mine, theirs \in lmk[d][m] :
         /\ lmk[d][m] = {mine, theirs}
         /\ Owner(mine) = d /\ Owner(theirs) = m
         /\ <<mine[1], lmk[d][m]>> \in signed /\ <<theirs[1], lmk[d][m]>> \in signed
         /\ theirs[1] \in tapped[d]
         /\ [mac |-> m, key |-> theirs[1]] \in store[d] \/ m \in stray[d]

BoardInv(d) == SessionInv(d) /\ StoreInv(d) /\ LinkInv(d)

\* TypeOK and the parts above, which every step preserves together.
IInv == TypeOK /\ MessageInv /\ \A d \in Devices : BoardInv(d)
=============================================================================
