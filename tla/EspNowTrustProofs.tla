-------------------------- MODULE EspNowTrustProofs --------------------------
(***************************************************************************)
(* Proofs that the safety properties of EspNowTrust hold for any set of    *)
(* boards, any store and peer table size and any number of handshakes.     *)
(***************************************************************************)
EXTENDS EspNowTrustInvariant, TLAPS

-----------------------------------------------------------------------------
(* Sessions.                                                               *)

LEMMA SessionOps ==
  ASSUME NEW s \in Sessions, NEW h \in Hellos, NEW g \in Hellos
  PROVE  /\ FreshSession \in Sessions
         /\ ClearedIfTerminal(s) \in Sessions
         /\ BeginAsInitiator(s, h) \in Sessions
         /\ OnPeerHello(s, h, g) \in Sessions
         /\ ConfirmLocally(s) \in Sessions
         /\ OnPeerConfirm(s) \in Sessions
         /\ Cancel(s) \in Sessions
         /\ Waiting(s) \in Sessions
<1>1. FreshSession \in Sessions
  BY DEF Sessions, States, NoHello, FreshSession
<1>2. ClearedIfTerminal(s) \in Sessions
  BY <1>1 DEF ClearedIfTerminal
<1>3. BeginAsInitiator(s, h) \in Sessions
  BY DEF Sessions, States, BeginAsInitiator
<1>7. Cancel(s) \in Sessions
  BY DEF Sessions, States, Cancel
<1>8. Waiting(s) \in Sessions
  <2>1. s.waited + 1 \in Nat
    BY DEF Sessions
  <2> QED BY <2>1 DEF Sessions, States, Waiting
<1>4. OnPeerHello(s, h, g) \in Sessions
  BY DEF Sessions, States, OnPeerHello
<1>5. ConfirmLocally(s) \in Sessions
  BY DEF Sessions, States, ConfirmLocally
<1>6. OnPeerConfirm(s) \in Sessions
  BY DEF Sessions, States, OnPeerConfirm
<1> QED BY <1>1, <1>2, <1>3, <1>4, <1>5, <1>6, <1>7, <1>8

LEMMA CancelSession ==
  ASSUME NEW s \in Sessions
  PROVE  Cancel(s) \in Sessions /\ Cancel(s).state = "Cancelled"
BY DEF Sessions, States, Cancel

LEMMA HelloType ==
  ASSUME TypeOK, NEW d \in Devices
  PROVE  NextHello(d) \in Hellos /\ Owner(NextHello(d)) = d /\ Key(d) \in Keys
BY DEF TypeOK, NextHello, Key, Keys, Hellos, Owner

-----------------------------------------------------------------------------
(* What one step leaves alone.                                             *)

\* A board's part of the invariant does not depend on the other boards.
LEMMA Frame ==
  ASSUME NEW e \in Devices, BoardInv(e),
         session'[e] = session[e], target'[e] = target[e], store'[e] = store[e],
         file'[e] = file[e], registered'[e] = registered[e], lmk'[e] = lmk[e],
         gateway'[e] = gateway[e], stray'[e] = stray[e], tapped'[e] = tapped[e],
         signed \subseteq signed'
  PROVE  BoardInv(e)'
<1>1. SessionInv(e)'
  BY DEF BoardInv, SessionInv
<1>2. StoreInv(e)'
  BY DEF BoardInv, StoreInv, TrustedMacs, Macs
<1>3. LinkInv(e)'
  <2> SUFFICES ASSUME NEW n \in Devices, Encrypted(e, n)'
               PROVE  /\ n \in registered'[e]
                      /\ \E mine, theirs \in lmk'[e][n] :
                           /\ lmk'[e][n] = {mine, theirs}
                           /\ Owner(mine) = e /\ Owner(theirs) = n
                           /\ <<mine[1], lmk'[e][n]>> \in signed'
                           /\ <<theirs[1], lmk'[e][n]>> \in signed'
                           /\ theirs[1] \in tapped'[e]
                           /\ [mac |-> n, key |-> theirs[1]] \in store'[e] \/ n \in stray'[e]
    BY DEF LinkInv
  <2>1. n \in registered[e] /\ lmk'[e][n] = lmk[e][n] /\ Encrypted(e, n)
    BY DEF BoardInv, LinkInv, Encrypted
  <2>2. PICK mine \in lmk[e][n], theirs \in lmk[e][n] :
          /\ lmk[e][n] = {mine, theirs}
          /\ Owner(mine) = e /\ Owner(theirs) = n
          /\ <<mine[1], lmk[e][n]>> \in signed /\ <<theirs[1], lmk[e][n]>> \in signed
          /\ theirs[1] \in tapped[e]
          /\ [mac |-> n, key |-> theirs[1]] \in store[e] \/ n \in stray[e]
    BY <2>1 DEF BoardInv, LinkInv
  <2>3. /\ <<mine[1], lmk'[e][n]>> \in signed' /\ <<theirs[1], lmk'[e][n]>> \in signed'
        /\ theirs[1] \in tapped'[e]
        /\ [mac |-> n, key |-> theirs[1]] \in store'[e] \/ n \in stray'[e]
    BY <2>1, <2>2
  <2> QED BY <2>1, <2>2, <2>3
<1>4. QED
  BY <1>1, <1>2, <1>3 DEF BoardInv

\* A link to n that stays keeps its entry, its record and its tap.
KeepsLink(d, n) ==
  /\ n \in registered[d] => n \in registered'[d]
  /\ n \in stray[d] => n \in stray'[d]
  /\ \A r \in store[d] : r.mac = n => r \in store'[d] \/ n \in stray'[d]
  /\ tapped[d] \subseteq tapped'[d]

\* Links only get lost.
LEMMA LinksKept ==
  ASSUME NEW d \in Devices, LinkInv(d), signed \subseteq signed',
         \A n \in Devices : lmk'[d][n] \in {lmk[d][n], {}},
         \A n \in Devices : lmk'[d][n] # {} => KeepsLink(d, n)
  PROVE  LinkInv(d)'
<1> SUFFICES ASSUME NEW m \in Devices, lmk'[d][m] # {}
             PROVE  /\ m \in registered'[d]
                    /\ \E mine, theirs \in lmk'[d][m] :
                         /\ lmk'[d][m] = {mine, theirs}
                         /\ Owner(mine) = d /\ Owner(theirs) = m
                         /\ <<mine[1], lmk'[d][m]>> \in signed' /\ <<theirs[1], lmk'[d][m]>> \in signed'
                         /\ theirs[1] \in tapped'[d]
                         /\ [mac |-> m, key |-> theirs[1]] \in store'[d] \/ m \in stray'[d]
  BY DEF LinkInv, Encrypted, Owner
<1>1. lmk'[d][m] = lmk[d][m] /\ KeepsLink(d, m)
  OBVIOUS
<1>2. m \in registered[d]
  BY <1>1 DEF LinkInv, Encrypted
<1>3. PICK mine, theirs \in lmk[d][m] :
        /\ lmk[d][m] = {mine, theirs}
        /\ Owner(mine) = d /\ Owner(theirs) = m
        /\ <<mine[1], lmk[d][m]>> \in signed /\ <<theirs[1], lmk[d][m]>> \in signed
        /\ theirs[1] \in tapped[d]
        /\ [mac |-> m, key |-> theirs[1]] \in store[d] \/ m \in stray[d]
  BY <1>1 DEF LinkInv, Encrypted
<1>4. [mac |-> m, key |-> theirs[1]] \in store'[d] \/ m \in stray'[d]
  BY <1>1, <1>3 DEF KeepsLink
<1>5. m \in registered'[d] /\ theirs[1] \in tapped'[d]
  BY <1>1, <1>2, <1>3 DEF KeepsLink
<1> QED BY <1>1, <1>3, <1>4, <1>5

\* The records stay, and the links that stay keep their entries.
LEMMA LinksStay ==
  ASSUME NEW d \in Devices, LinkInv(d), signed \subseteq signed',
         store'[d] = store[d], stray'[d] = stray[d], tapped[d] \subseteq tapped'[d],
         \A n \in Devices : lmk'[d][n] \in {lmk[d][n], {}},
         \A n \in Devices : lmk'[d][n] # {} /\ n \in registered[d] => n \in registered'[d]
  PROVE  LinkInv(d)'
<1>1. \A n \in Devices : lmk'[d][n] # {} => KeepsLink(d, n)
  BY DEF KeepsLink
<1> QED BY <1>1, LinksKept

-----------------------------------------------------------------------------
(* The peer table.                                                         *)

LEMMA EnsureFacts ==
  ASSUME TypeOK, NEW d \in Devices, NEW m \in Devices, EnsureUnencryptedPeer(d, m)
  PROVE  /\ registered' \in [Devices -> SUBSET Devices]
         /\ lmk' \in [Devices -> [Devices -> Transcripts]]
         /\ lmk'[d][m] = {}
         /\ \A n \in Devices : lmk'[d][n] \in {lmk[d][n], {}}
         /\ \A n \in Devices : lmk'[d][n] # {} /\ n \in registered[d] => n \in registered'[d]
         /\ \A e \in Devices \ {d} : lmk'[e] = lmk[e] /\ registered'[e] = registered[e]
BY DEF TypeOK, EnsureUnencryptedPeer, Transcripts

LEMMA EvictFacts ==
  ASSUME TypeOK, NEW d \in Devices, NEW m \in Devices, EvictUntrustedPeer(d, m)
  PROVE  /\ registered' \in [Devices -> SUBSET Devices]
         /\ lmk' \in [Devices -> [Devices -> Transcripts]]
         /\ \A n \in Devices : lmk'[d][n] \in {lmk[d][n], {}}
         /\ \A n \in Devices : lmk'[d][n] # {} /\ n \in registered[d] => n \in registered'[d]
         /\ \A e \in Devices \ {d} : lmk'[e] = lmk[e] /\ registered'[e] = registered[e]
<1>1. CASE m \in TrustedMacs(d)
  BY <1>1 DEF TypeOK, EvictUntrustedPeer, peers
<1>2. CASE m \notin TrustedMacs(d)
  <2>1. /\ registered' = [registered EXCEPT ![d] = @ \ {m}]
        /\ lmk' = [lmk EXCEPT ![d][m] = {}]
    BY <1>2 DEF EvictUntrustedPeer
  <2>2. registered' \in [Devices -> SUBSET Devices]
    BY <2>1 DEF TypeOK
  <2>3. lmk' \in [Devices -> [Devices -> Transcripts]]
    BY <2>1 DEF TypeOK, Transcripts
  <2>4. QED
    BY <2>1, <2>2, <2>3 DEF TypeOK
<1>3. QED
  BY <1>1, <1>2

LEMMA UpgradeFacts ==
  ASSUME TypeOK, NEW d \in Devices, NEW m \in Devices, NEW t \in Transcripts,
         UpgradeToEncryptedPeer(d, m, t)
  PROVE  /\ registered' \in [Devices -> SUBSET Devices]
         /\ lmk' \in [Devices -> [Devices -> Transcripts]]
         /\ lmk'[d][m] \in {lmk[d][m], t}
         /\ \A n \in Devices \ {m} : lmk'[d][n] = lmk[d][n]
         /\ lmk'[d][m] = lmk[d][m] \/ m \in registered'[d]
         /\ registered[d] \subseteq registered'[d]
         /\ \A e \in Devices \ {d} : lmk'[e] = lmk[e] /\ registered'[e] = registered[e]
<1>1. CASE HasSlot(d, m)
  <2>1. /\ registered' = [registered EXCEPT ![d] = @ \cup {m}]
        /\ lmk' = [lmk EXCEPT ![d][m] = t]
    BY <1>1 DEF UpgradeToEncryptedPeer
  <2>2. registered' \in [Devices -> SUBSET Devices]
    BY <2>1 DEF TypeOK
  <2>3. lmk' \in [Devices -> [Devices -> Transcripts]]
    BY <2>1 DEF TypeOK
  <2>4. QED
    BY <2>1, <2>2, <2>3 DEF TypeOK
<1>2. CASE ~HasSlot(d, m)
  BY <1>2 DEF TypeOK, UpgradeToEncryptedPeer, peers
<1>3. QED
  BY <1>1, <1>2

LEMMA CancelType ==
  ASSUME TypeOK, NEW d \in Devices, NEW m \in Devices
  PROVE  CancelMessages(d, m) \subseteq CancelMessagesAll
BY DEF TypeOK, CancelMessages, CancelMessagesAll

-----------------------------------------------------------------------------
(* trust.json.                                                             *)

LEMMA SaveFacts ==
  ASSUME TypeOK, NEW d \in Devices, StoreInv(d),
         NEW new \in SUBSET Records, NEW result \in WriteResults, SaveRecords(d, new, result)
  PROVE  /\ store' \in [Devices -> SUBSET Records] /\ file' \in [Devices -> SUBSET Records]
         /\ store'[d] = IF Saved(result) THEN new ELSE store[d]
         /\ file'[d] = store'[d] \/ file'[d] = {}
         /\ \A e \in Devices \ {d} : store'[e] = store[e] /\ file'[e] = file[e]
<1>1. CASE result = "refused"
  BY <1>1 DEF SaveRecords, Saved, TypeOK, StoreInv
<1>2. CASE result # "refused"
  <2>1. store' = IF Saved(result) THEN [store EXCEPT ![d] = new] ELSE store
    BY DEF SaveRecords
  <2>2. PICK kept \in {new, {}} :
          /\ file' = [file EXCEPT ![d] = kept]
          /\ kept = new => result = "whole" \/ new = {}
    BY <1>2 DEF SaveRecords
  <2>3. result = "whole" => Saved(result)
    BY DEF Saved
  <2>4. file'[d] = kept /\ file' \in [Devices -> SUBSET Records]
        /\ \A e \in Devices \ {d} : file'[e] = file[e]
    BY <2>2 DEF TypeOK
  <2>5. store' \in [Devices -> SUBSET Records]
        /\ store'[d] = (IF Saved(result) THEN new ELSE store[d])
        /\ \A e \in Devices \ {d} : store'[e] = store[e]
    BY <2>1 DEF TypeOK
  <2> QED BY <2>2, <2>3, <2>4, <2>5
<1> QED BY <1>1, <1>2

LEMMA LoadFacts ==
  ASSUME TypeOK, NEW d \in Devices, StoreInv(d), LoadRecords(d)
  PROVE  /\ store' \in [Devices -> SUBSET Records] /\ file' = file
         /\ store'[d] = file[d] /\ store'[d] \subseteq store[d]
         /\ \A e \in Devices \ {d} : store'[e] = store[e]
BY DEF LoadRecords, TypeOK, StoreInv

-----------------------------------------------------------------------------
(* finalizePairingCommit.                                                  *)

\* Committing the session in flight keeps the invariant of the board: a record
\* for the peer's MAC, if there is one already, pins the same key.
LEMMA FinalizeFacts ==
  ASSUME TypeOK, NEW d \in Devices, BoardInv(d),
         session[d].state \in {"AwaitingApproval", "AwaitingPeerConfirm"},
         NEW s \in Sessions, s.state = "Committed",
         s.ourHello = session[d].ourHello, s.peerHello = session[d].peerHello,
         FinalizePairingCommit(d, target[d], s),
         target' = target, mode' = mode,
         signed \subseteq signed', tapped[d] \subseteq tapped'[d],
         <<s.ourHello[1], Transcript(s)>> \in signed',
         <<PeerKey(s), Transcript(s)>> \in signed',
         PeerKey(s) \in tapped'[d]
  PROVE  /\ session' \in [Devices -> Sessions]
         /\ store' \in [Devices -> SUBSET Records] /\ file' \in [Devices -> SUBSET Records]
         /\ registered' \in [Devices -> SUBSET Devices]
         /\ lmk' \in [Devices -> [Devices -> Transcripts]]
         /\ cancels' \subseteq CancelMessagesAll
         /\ BoardInv(d)'
         /\ store[d] \subseteq store'[d]
         /\ \A e \in Devices \ {d} :
              /\ session'[e] = session[e] /\ store'[e] = store[e] /\ file'[e] = file[e]
              /\ lmk'[e] = lmk[e] /\ registered'[e] = registered[e]
<1> DEFINE m == target[d]
           T == Transcript(s)
           record == [mac |-> m, key |-> PeerKey(s)]
           alreadyTrusted == m \in TrustedMacs(d)
<1>1. /\ m \in Devices /\ lmk[d][m] = {}
      /\ s.ourHello \in Hellos /\ Owner(s.ourHello) = d
      /\ s.peerHello \in Hellos /\ Owner(s.peerHello) = m
  BY DEF BoardInv, SessionInv, InFlight, Derived
<1>2. T \in Transcripts /\ PeerKey(s) \in Keys /\ record \in Records
  BY <1>1 DEF Transcript, Transcripts, PeerKey, Hellos, Records
<1>3. \A r \in store[d] : r.mac = m => r = record
  <2>1. SUFFICES ASSUME NEW r \in store[d], r.mac = m PROVE r = record
    OBVIOUS
  <2>2. session[d].state = "AwaitingPeerConfirm"
    BY <2>1 DEF BoardInv, StoreInv, TrustedMacs, Macs
  <2>3. r.key = PeerKey(s)
    BY <2>1, <2>2 DEF BoardInv, StoreInv, PeerKey
  <2>4. r \in Records
    BY DEF TypeOK
  <2>5. QED
    BY <2>1, <2>3, <2>4 DEF Records
<1>4. PICK result \in WriteResults :
        LET added == CanAdd(d, record) /\ Saved(result)
        IN  /\ IF CanAdd(d, record) THEN SaveRecords(d, store[d] \cup {record}, result)
               ELSE UNCHANGED trust
            /\ IF added \/ alreadyTrusted
               THEN /\ session' = [session EXCEPT ![d] = s]
                    /\ UpgradeToEncryptedPeer(d, m, T)
                    /\ UNCHANGED cancels
               ELSE /\ session' = [session EXCEPT ![d] = Cancel(s)]
                    /\ cancels' = cancels \cup CancelMessages(d, m)
                    /\ EvictUntrustedPeer(d, m)
  BY DEF FinalizePairingCommit
<1> DEFINE added == CanAdd(d, record) /\ Saved(result)
<1>5. /\ store' \in [Devices -> SUBSET Records] /\ file' \in [Devices -> SUBSET Records]
      /\ \A e \in Devices \ {d} : store'[e] = store[e] /\ file'[e] = file[e]
      /\ store'[d] = IF added THEN store[d] \cup {record} ELSE store[d]
      /\ file'[d] = store'[d] \/ file'[d] = {}
  <2>1. CASE CanAdd(d, record)
    <3>1. SaveRecords(d, store[d] \cup {record}, result)
      BY <1>4, <2>1
    <3>2. store[d] \cup {record} \in SUBSET Records
      BY <1>2 DEF TypeOK
    <3>3. /\ store' \in [Devices -> SUBSET Records] /\ file' \in [Devices -> SUBSET Records]
          /\ store'[d] = IF Saved(result) THEN store[d] \cup {record} ELSE store[d]
          /\ file'[d] = store'[d] \/ file'[d] = {}
          /\ \A e \in Devices \ {d} : store'[e] = store[e] /\ file'[e] = file[e]
      BY <3>1, <3>2, SaveFacts DEF BoardInv
    <3> QED BY <2>1, <3>3
  <2>2. CASE ~CanAdd(d, record)
    <3>1. store' = store /\ file' = file
      BY <1>4, <2>2 DEF trust
    <3> QED BY <2>2, <3>1 DEF TypeOK, BoardInv, StoreInv
  <2> QED BY <2>1, <2>2
<1>6. \A r, q \in store'[d] : r.mac = q.mac => r = q
  BY <1>3, <1>5 DEF BoardInv, StoreInv
<1>7. \A r \in store'[d] : r.key \in tapped'[d]
  BY <1>5 DEF BoardInv, StoreInv
<1>8. CASE added \/ alreadyTrusted
  <2>1. session' = [session EXCEPT ![d] = s] /\ UpgradeToEncryptedPeer(d, m, T) /\ cancels' = cancels
    BY <1>4, <1>8
  <2>2. /\ registered' \in [Devices -> SUBSET Devices]
        /\ lmk' \in [Devices -> [Devices -> Transcripts]]
        /\ lmk'[d][m] \in {{}, T}
        /\ \A n \in Devices \ {m} : lmk'[d][n] = lmk[d][n]
        /\ lmk'[d][m] # {} => m \in registered'[d]
        /\ registered[d] \subseteq registered'[d]
        /\ \A e \in Devices \ {d} : lmk'[e] = lmk[e] /\ registered'[e] = registered[e]
    <3>1. UpgradeToEncryptedPeer(d, m, T) /\ T \in Transcripts /\ m \in Devices /\ lmk[d][m] \in {{}, T}
      BY <2>1, <1>1, <1>2
    <3>2. /\ registered' \in [Devices -> SUBSET Devices]
          /\ lmk' \in [Devices -> [Devices -> Transcripts]]
          /\ lmk'[d][m] \in {lmk[d][m], T}
          /\ \A n \in Devices \ {m} : lmk'[d][n] = lmk[d][n]
          /\ lmk'[d][m] = lmk[d][m] \/ m \in registered'[d]
          /\ registered[d] \subseteq registered'[d]
          /\ \A e \in Devices \ {d} : lmk'[e] = lmk[e] /\ registered'[e] = registered[e]
      BY <3>1, UpgradeFacts
    <3> QED BY <1>1, <3>1, <3>2
  <2>3. session'[d] = s
    BY <2>1 DEF TypeOK
  <2>4. SessionInv(d)'
    BY <2>3, <1>1 DEF SessionInv, InFlight, Derived
  <2>5. StoreInv(d)'
    BY <2>3, <1>5, <1>6, <1>7 DEF BoardInv, StoreInv, mode
  <2>6. record \in store'[d]
    BY <1>3, <1>5, <1>8 DEF TrustedMacs, Macs
  <2>7. LinkInv(d)'
    <3>1. SUFFICES ASSUME NEW n \in Devices, lmk'[d][n] # {}
                   PROVE  /\ n \in registered'[d]
                          /\ \E mine, theirs \in lmk'[d][n] :
                               /\ lmk'[d][n] = {mine, theirs}
                               /\ Owner(mine) = d /\ Owner(theirs) = n
                               /\ <<mine[1], lmk'[d][n]>> \in signed'
                               /\ <<theirs[1], lmk'[d][n]>> \in signed'
                               /\ theirs[1] \in tapped'[d]
                               /\ [mac |-> n, key |-> theirs[1]] \in store'[d] \/ n \in stray'[d]
      BY DEF LinkInv, Encrypted
    <3>2. CASE n = m
      <4>1. lmk'[d][n] = {s.ourHello, s.peerHello} /\ n \in registered'[d]
        BY <3>1, <3>2, <2>2 DEF Transcript
      <4>2. [mac |-> n, key |-> s.peerHello[1]] \in store'[d]
        BY <3>2, <2>6 DEF PeerKey
      <4>3. /\ <<s.ourHello[1], lmk'[d][n]>> \in signed'
            /\ <<s.peerHello[1], lmk'[d][n]>> \in signed'
            /\ s.peerHello[1] \in tapped'[d]
        BY <4>1 DEF Transcript, PeerKey
      <4>4. s.ourHello \in lmk'[d][n] /\ s.peerHello \in lmk'[d][n]
        BY <4>1
      <4>5. Owner(s.ourHello) = d /\ Owner(s.peerHello) = n
        BY <1>1, <3>2
      <4>6. QED
        BY <4>1, <4>2, <4>3, <4>4, <4>5
    <3>3. CASE n # m
      <4>1. lmk'[d][n] = lmk[d][n] /\ lmk[d][n] # {}
        BY <3>1, <3>3, <2>2
      <4>2. n \in registered[d]
        BY <4>1 DEF BoardInv, LinkInv, Encrypted
      <4>3. PICK mine, theirs \in lmk[d][n] :
              /\ lmk[d][n] = {mine, theirs}
              /\ Owner(mine) = d /\ Owner(theirs) = n
              /\ <<mine[1], lmk[d][n]>> \in signed /\ <<theirs[1], lmk[d][n]>> \in signed
              /\ theirs[1] \in tapped[d]
              /\ [mac |-> n, key |-> theirs[1]] \in store[d] \/ n \in stray[d]
        BY <4>1 DEF BoardInv, LinkInv, Encrypted
      <4>4. [mac |-> n, key |-> theirs[1]] \in store'[d] \/ n \in stray'[d]
        BY <4>3, <1>5 DEF mode
      <4>5. <<mine[1], lmk'[d][n]>> \in signed' /\ <<theirs[1], lmk'[d][n]>> \in signed'
        BY <4>1, <4>3
      <4>6. mine \in lmk'[d][n] /\ theirs \in lmk'[d][n] /\ lmk'[d][n] = {mine, theirs}
        BY <4>1, <4>3
      <4>7. n \in registered'[d] /\ theirs[1] \in tapped'[d]
        BY <2>2, <4>2, <4>3
      <4>8. QED
        BY <4>3, <4>4, <4>5, <4>6, <4>7
    <3>4. QED
      BY <3>2, <3>3
  <2>8. QED
    BY <2>1, <2>2, <2>4, <2>5, <2>7, <1>5 DEF BoardInv, TypeOK
<1>9. CASE ~(added \/ alreadyTrusted)
  <2>1. /\ session' = [session EXCEPT ![d] = Cancel(s)]
        /\ cancels' = cancels \cup CancelMessages(d, m)
        /\ EvictUntrustedPeer(d, m)
    BY <1>4, <1>9
  <2>2. /\ registered' \in [Devices -> SUBSET Devices]
        /\ lmk' \in [Devices -> [Devices -> Transcripts]]
        /\ \A n \in Devices : lmk'[d][n] \in {lmk[d][n], {}}
        /\ \A n \in Devices : lmk'[d][n] # {} /\ n \in registered[d] => n \in registered'[d]
        /\ \A e \in Devices \ {d} : lmk'[e] = lmk[e] /\ registered'[e] = registered[e]
    BY <2>1, <1>1, EvictFacts
  <2>3. session'[d] = Cancel(s) /\ Cancel(s) \in Sessions /\ session'[d].state = "Cancelled"
    BY <2>1 DEF TypeOK, Cancel, Sessions, States
  <2>4. SessionInv(d)'
    BY <2>3 DEF SessionInv, InFlight, Derived
  <2>5. StoreInv(d)'
    BY <2>3, <1>5, <1>6, <1>7 DEF BoardInv, StoreInv, mode
  <2>6. LinkInv(d)'
    BY <2>2, <1>5, <1>9, LinksKept DEF BoardInv, KeepsLink, mode
  <2>7. cancels' \subseteq CancelMessagesAll
    BY <2>1, <1>1, CancelType DEF TypeOK
  <2>8. QED
    BY <2>1, <2>2, <2>3, <2>4, <2>5, <2>6, <2>7, <1>5 DEF BoardInv, TypeOK
<1>10. QED
  BY <1>8, <1>9

-----------------------------------------------------------------------------
(* One step of board d.                                                    *)

\* What a step of d never does: touch another board, sign for another board,
\* or exchange records.
Local(d) ==
  /\ \A e \in Devices \ {d} :
       /\ session'[e] = session[e] /\ target'[e] = target[e]
       /\ store'[e] = store[e] /\ file'[e] = file[e]
       /\ registered'[e] = registered[e] /\ lmk'[e] = lmk[e]
       /\ gateway'[e] = gateway[e] /\ stray'[e] = stray[e] /\ tapped'[e] = tapped[e]
  /\ signed \subseteq signed'
  /\ \A p \in signed' \ signed : p[1][1] = d
  /\ store'[d] \subseteq store[d] \/ store[d] \subseteq store'[d]

\* It is enough to look at the board that moves.
LEMMA BoardStep ==
  ASSUME IInv, NEW d \in Devices, Local(d), TypeOK', MessageInv', BoardInv(d)'
  PROVE  IInv'
<1>1. ASSUME NEW e \in Devices PROVE BoardInv(e)'
  <2>1. CASE e = d
    BY <2>1
  <2>2. CASE e # d
    BY <2>2, Frame DEF IInv, Local
  <2>3. QED
    BY <2>1, <2>2
<1>2. QED
  BY <1>1 DEF IInv

\* Steps that keep or end the attempt, and at most lose records and links.
LEMMA BoardKept ==
  ASSUME NEW d \in Devices, BoardInv(d), signed \subseteq signed',
         \/ /\ session'[d] = session[d] /\ target'[d] = target[d]
            /\ tapped[d] \subseteq tapped'[d]
         \/ session'[d] = FreshSession
         \/ session'[d].state = "Cancelled",
         \A r \in store'[d] : r \in store[d] /\ r.key \in tapped'[d],
         file'[d] = store'[d] \/ file'[d] = {}, gateway'[d] \/ stray'[d] = {},
         \A n \in Devices : lmk'[d][n] \in {lmk[d][n], {}},
         \A n \in Devices : lmk'[d][n] # {} => KeepsLink(d, n)
  PROVE  BoardInv(d)'
<1>1. LinkInv(d)'
  BY LinksKept DEF BoardInv
<1>2. CASE session'[d] = session[d] /\ target'[d] = target[d] /\ tapped[d] \subseteq tapped'[d]
  <2>1. SessionInv(d)'
    BY <1>2 DEF BoardInv, SessionInv
  <2>2. StoreInv(d)'
    BY <1>2 DEF BoardInv, StoreInv, TrustedMacs, Macs
  <2>3. QED
    BY <1>1, <2>1, <2>2 DEF BoardInv
<1>3. CASE session'[d] = FreshSession \/ session'[d].state = "Cancelled"
  <2>1. SessionInv(d)'
    BY <1>3 DEF SessionInv, FreshSession, InFlight, Derived
  <2>2. StoreInv(d)'
    BY <1>3 DEF BoardInv, StoreInv, FreshSession
  <2>3. QED
    BY <1>1, <2>1, <2>2 DEF BoardInv
<1>4. QED
  BY <1>2, <1>3

\* Steps that keep or end the attempt and leave the records alone.
LEMMA BoardStays ==
  ASSUME NEW d \in Devices, BoardInv(d), signed \subseteq signed',
         \/ session'[d] = session[d] /\ target'[d] = target[d]
         \/ session'[d] = FreshSession
         \/ session'[d].state = "Cancelled",
         trust' = trust, mode' = mode, tapped' = tapped,
         \A n \in Devices : lmk'[d][n] \in {lmk[d][n], {}},
         \A n \in Devices : lmk'[d][n] # {} /\ n \in registered[d] => n \in registered'[d]
  PROVE  BoardInv(d)'
<1>1. store' = store /\ file' = file /\ gateway' = gateway /\ stray' = stray
  BY DEF trust, mode
<1>2. \A n \in Devices : lmk'[d][n] # {} => KeepsLink(d, n)
  BY <1>1 DEF KeepsLink
<1>3. /\ \A r \in store'[d] : r \in store[d] /\ r.key \in tapped'[d]
      /\ file'[d] = store'[d] \/ file'[d] = {}
      /\ gateway'[d] \/ stray'[d] = {}
  BY <1>1 DEF BoardInv, StoreInv
<1> QED BY <1>2, <1>3, BoardKept

LEMMA BeginPairingStep ==
  ASSUME IInv, NEW d \in Devices, NEW m \in Devices, BeginPairing(d, m)
  PROVE  IInv' /\ Local(d)
<1> DEFINE s == BeginAsInitiator(FreshSession, NextHello(d))
<1>1. TypeOK /\ MessageInv /\ BoardInv(d) /\ NextHello(d) \in Hellos /\ Owner(NextHello(d)) = d
  BY HelloType DEF IInv
<1>2. s \in Sessions
  BY <1>1, SessionOps DEF TypeOK
<1>3. /\ registered' \in [Devices -> SUBSET Devices]
      /\ lmk' \in [Devices -> [Devices -> Transcripts]]
      /\ lmk'[d][m] = {}
      /\ \A n \in Devices : lmk'[d][n] \in {lmk[d][n], {}}
      /\ \A n \in Devices : lmk'[d][n] # {} /\ n \in registered[d] => n \in registered'[d]
      /\ \A e \in Devices \ {d} : lmk'[e] = lmk[e] /\ registered'[e] = registered[e]
  BY <1>1, EnsureFacts DEF BeginPairing
<1>4. TypeOK'
  BY <1>1, <1>2, <1>3 DEF BeginPairing, TypeOK, BeginMessages, history, trust, mode
<1>5. MessageInv'
  BY <1>1 DEF BeginPairing, MessageInv, history, trust, mode
<1>6. Local(d)
  BY <1>1, <1>3 DEF BeginPairing, Local, TypeOK, history, trust, mode
<1>7. session'[d] = s /\ target'[d] = m /\ store'[d] = store[d] /\ tapped' = tapped /\ signed' = signed
  BY <1>1 DEF BeginPairing, TypeOK, history, trust, mode
<1>8. SessionInv(d)'
  <2>1. /\ s.state = "AwaitingPeerHello" /\ s.ourHello = NextHello(d)
        /\ ~s.localConfirmed /\ ~s.peerConfirmed
    BY DEF BeginAsInitiator, FreshSession
  <2> HIDE DEF s
  <2> QED BY <1>1, <1>3, <1>7, <2>1 DEF SessionInv, InFlight, Derived
<1>9. StoreInv(d)'
  <2>1. session'[d].state = "AwaitingPeerHello"
    BY <1>7 DEF BeginAsInitiator, FreshSession
  <2>2. file' = file /\ gateway' = gateway /\ stray' = stray
    BY DEF BeginPairing, trust, mode
  <2> QED BY <1>1, <1>7, <2>1, <2>2 DEF BoardInv, StoreInv
<1>10. LinkInv(d)'
  BY <1>1, <1>3, <1>7, LinksStay DEF BeginPairing, BoardInv, mode
<1>11. QED
  BY <1>4, <1>5, <1>6, <1>8, <1>9, <1>10, BoardStep DEF BoardInv

LEMMA BeginPairingRefusedStep ==
  ASSUME IInv, NEW d \in Devices, NEW m \in Devices, BeginPairingRefused(d, m)
  PROVE  IInv' /\ Local(d)
<1>1. TypeOK /\ MessageInv /\ BoardInv(d)
  BY DEF IInv
<1>2. FreshSession \in Sessions
  BY DEF FreshSession, Sessions, States, NoHello
<1>3. TypeOK' /\ Local(d) /\ session'[d] = FreshSession
  BY <1>1, <1>2 DEF BeginPairingRefused, TypeOK, Local, board, peers, air, history, trust, mode
<1>4. MessageInv'
  BY <1>1 DEF BeginPairingRefused, MessageInv, air, history, trust, mode
<1>5. BoardInv(d)'
  BY <1>1, <1>3, BoardStays DEF BeginPairingRefused, board, peers, history
<1>6. QED
  BY <1>3, <1>4, <1>5, BoardStep

LEMMA TapStep ==
  ASSUME IInv, NEW d \in Devices, NEW button \in {"confirm", "deny"}, Tap(d, button)
  PROVE  IInv' /\ Local(d)
<1>1. TypeOK /\ MessageInv /\ BoardInv(d)
  BY DEF IInv
<1>2. Transcript(session[d]) \in Transcripts
  BY <1>1 DEF Tap, BoardInv, SessionInv, Derived, Transcript, Transcripts
<1>3. TypeOK' /\ Local(d)
  BY <1>1, <1>2 DEF Tap, TypeOK, Local, board, peers, air, history, trust, mode
<1>4. MessageInv'
  BY <1>1 DEF Tap, MessageInv, air, history, trust, mode
<1>5. BoardInv(d)'
  BY <1>1, BoardStays DEF Tap, board, peers, history
<1>6. QED
  BY <1>3, <1>4, <1>5, BoardStep

LEMMA DeniedStep ==
  ASSUME IInv, NEW d \in Devices, Denied(d),
         tap' \in [Devices -> {NoTap, "confirm", "deny"}]
  PROVE  IInv' /\ Local(d)
<1>1. TypeOK /\ MessageInv /\ BoardInv(d)
  BY DEF IInv
<1>2. session' = [session EXCEPT ![d] = Cancel(session[d])] /\ Cancel(session[d]) \in Sessions
  BY <1>1, CancelSession DEF Denied, TypeOK, trust, mode
<1>3. session'[d].state = "Cancelled"
  BY <1>1, <1>2 DEF TypeOK, Cancel, Sessions
<1>4. /\ registered' \in [Devices -> SUBSET Devices]
      /\ lmk' \in [Devices -> [Devices -> Transcripts]]
      /\ \A n \in Devices : lmk'[d][n] \in {lmk[d][n], {}}
      /\ \A n \in Devices : lmk'[d][n] # {} /\ n \in registered[d] => n \in registered'[d]
      /\ \A e \in Devices \ {d} : lmk'[e] = lmk[e] /\ registered'[e] = registered[e]
  <2>1. CASE target[d] = NoPeer
    BY <1>1, <2>1 DEF Denied, TypeOK, peers, trust, mode
  <2>2. CASE target[d] # NoPeer
    BY <1>1, <2>2, EvictFacts DEF Denied, TypeOK, trust, mode
  <2>3. QED
    BY <2>1, <2>2
<1>5. cancels' \subseteq CancelMessagesAll
  BY <1>1, CancelType DEF Denied, TypeOK, trust, mode
<1>6. TypeOK' /\ Local(d)
  <2>1. UNCHANGED <<identity, helloCount, gateway, stray, target, store, file>>
        /\ UNCHANGED <<begins, confirms, signed, tapped, forgotten>>
    BY DEF Denied, board, mode, trust, history
  <2>2. session' \in [Devices -> Sessions] /\ \A e \in Devices \ {d} : session'[e] = session[e]
    BY <1>1, <1>2 DEF TypeOK
  <2>3. TypeOK'
    BY <1>1, <1>4, <1>5, <2>1, <2>2 DEF TypeOK
  <2> QED BY <1>4, <2>1, <2>2, <2>3 DEF Local
<1>7. MessageInv'
  BY <1>1 DEF Denied, MessageInv, history, trust, mode
<1>8. BoardInv(d)'
  BY <1>1, <1>3, <1>4, BoardStays DEF Denied, board, history
<1>9. QED
  BY <1>6, <1>7, <1>8, BoardStep

LEMMA ForgetStep ==
  ASSUME IInv, NEW d \in Devices, NEW r \in store[d], Forget(d, r)
  PROVE  IInv' /\ Local(d)
<1>1. TypeOK /\ MessageInv /\ BoardInv(d) /\ r \in Records /\ r.mac \in Devices /\ r.key \in Keys
  BY DEF IInv, TypeOK, Records
<1>2. session' = session /\ target' = target /\ tapped' = tapped /\ signed' = signed /\ mode' = mode
  BY DEF Forget, board
<1>3. PICK result \in WriteResults :
        /\ SaveRecords(d, store[d] \ {r}, result)
        /\ IF Saved(result)
           THEN /\ registered' = [registered EXCEPT ![d] = @ \ {r.mac}]
                /\ lmk' = [lmk EXCEPT ![d][r.mac] = {}]
                /\ forgotten' = IF InFlight(session[d]) /\ target[d] = r.mac THEN forgotten
                                ELSE [forgotten EXCEPT ![d] = @ \cup {r.key}]
           ELSE UNCHANGED <<peers, forgotten>>
  BY DEF Forget
<1>4. /\ store' \in [Devices -> SUBSET Records] /\ file' \in [Devices -> SUBSET Records]
      /\ store'[d] = IF Saved(result) THEN store[d] \ {r} ELSE store[d]
      /\ file'[d] = store'[d] \/ file'[d] = {}
      /\ \A e \in Devices \ {d} : store'[e] = store[e] /\ file'[e] = file[e]
  <2>1. store[d] \ {r} \in SUBSET Records
    BY <1>1 DEF TypeOK
  <2> QED BY <1>1, <1>3, <2>1, SaveFacts DEF BoardInv
<1>5. /\ registered' \in [Devices -> SUBSET Devices]
      /\ lmk' \in [Devices -> [Devices -> Transcripts]]
      /\ forgotten' \in [Devices -> SUBSET Keys]
      /\ \A n \in Devices : lmk'[d][n] \in {lmk[d][n], {}}
      /\ \A n \in Devices : lmk'[d][n] # {} /\ n \in registered[d] => n \in registered'[d]
      /\ Saved(result) => lmk'[d][r.mac] = {}
      /\ \A e \in Devices \ {d} : lmk'[e] = lmk[e] /\ registered'[e] = registered[e]
  <2>1. CASE Saved(result)
    <3>1. /\ registered' = [registered EXCEPT ![d] = @ \ {r.mac}]
          /\ lmk' = [lmk EXCEPT ![d][r.mac] = {}]
          /\ \/ forgotten' = forgotten
             \/ forgotten' = [forgotten EXCEPT ![d] = @ \cup {r.key}]
      BY <1>3, <2>1
    <3>2. registered' \in [Devices -> SUBSET Devices] /\ forgotten' \in [Devices -> SUBSET Keys]
      BY <1>1, <3>1 DEF TypeOK
    <3>3. lmk' \in [Devices -> [Devices -> Transcripts]]
      BY <1>1, <3>1 DEF TypeOK, Transcripts
    <3> QED BY <1>1, <3>1, <3>2, <3>3 DEF TypeOK
  <2>2. CASE ~Saved(result)
    BY <1>1, <1>3, <2>2 DEF TypeOK, peers
  <2> QED BY <2>1, <2>2
<1>6. TypeOK'
  BY <1>1, <1>2, <1>4, <1>5 DEF Forget, TypeOK, board, mode, air
<1>7. Local(d)
  BY <1>1, <1>2, <1>4, <1>5 DEF Local, mode
<1>8. MessageInv'
  BY <1>1, <1>2 DEF Forget, MessageInv, air
<1>9. BoardInv(d)'
  <2>1. \A q \in store'[d] : q \in store[d] /\ q.key \in tapped'[d]
    BY <1>1, <1>2, <1>4 DEF BoardInv, StoreInv
  <2>2. \A n \in Devices : lmk'[d][n] # {} => KeepsLink(d, n)
    BY <1>2, <1>4, <1>5 DEF KeepsLink, mode
  <2>3. gateway'[d] \/ stray'[d] = {}
    BY <1>1, <1>2 DEF BoardInv, StoreInv, mode
  <2> QED BY <1>1, <1>2, <1>4, <1>5, <2>1, <2>2, <2>3, BoardKept
<1>10. QED
  BY <1>6, <1>7, <1>8, <1>9, BoardStep

\* A step that ends the attempt of d and evicts a peer that is not trusted.
LEMMA EndedStep ==
  ASSUME IInv, NEW d \in Devices, NEW m \in Devices, NEW s \in Sessions,
         session' = [session EXCEPT ![d] = s],
         s = FreshSession \/ s.state = "Cancelled" \/ s = session[d],
         EvictUntrustedPeer(d, m),
         tap' \in [Devices -> {NoTap, "confirm", "deny"}],
         UNCHANGED <<board, target, trust, air, history>>
  PROVE  IInv' /\ Local(d)
<1>1. TypeOK /\ MessageInv /\ BoardInv(d)
  BY DEF IInv
<1>2. /\ registered' \in [Devices -> SUBSET Devices]
      /\ lmk' \in [Devices -> [Devices -> Transcripts]]
      /\ \A n \in Devices : lmk'[d][n] \in {lmk[d][n], {}}
      /\ \A n \in Devices : lmk'[d][n] # {} /\ n \in registered[d] => n \in registered'[d]
      /\ \A e \in Devices \ {d} : lmk'[e] = lmk[e] /\ registered'[e] = registered[e]
  BY <1>1, EvictFacts
<1>3. TypeOK' /\ Local(d) /\ session'[d] = s
  BY <1>1, <1>2 DEF TypeOK, Local, board, air, history, trust, mode
<1>4. MessageInv'
  BY <1>1 DEF MessageInv, air, history, trust, mode
<1>5. BoardInv(d)'
  BY <1>1, <1>2, <1>3, BoardStays DEF board, history
<1>6. QED
  BY <1>3, <1>4, <1>5, BoardStep

LEMMA TimeoutStep ==
  ASSUME IInv, NEW d \in Devices, Timeout(d)
  PROVE  IInv' /\ Local(d)
<1>1. TypeOK /\ BoardInv(d) /\ session[d] \in Sessions /\ target[d] \in Devices
  BY DEF IInv, TypeOK, Timeout, TimedOut, BoardInv, SessionInv
<1>2. Cancel(session[d]) \in Sessions /\ Cancel(session[d]).state = "Cancelled"
  BY <1>1, CancelSession
<1>3. tap' \in [Devices -> {NoTap, "confirm", "deny"}]
  BY <1>1 DEF Timeout, TypeOK
<1>4. QED
  BY <1>1, <1>2, <1>3, EndedStep DEF Timeout

\* While the clock moves, only the time waited changes.
LEMMA ClockMovesStep ==
  ASSUME IInv, NEW d \in Devices, ClockMoves(d)
  PROVE  IInv' /\ Local(d)
<1>1. TypeOK /\ MessageInv /\ BoardInv(d) /\ session[d] \in Sessions
  BY DEF IInv, TypeOK
<1>2. PICK s \in Sessions :
        /\ session' = [session EXCEPT ![d] = s]
        /\ s.state = session[d].state
        /\ s.ourHello = session[d].ourHello /\ s.peerHello = session[d].peerHello
        /\ s.localConfirmed = session[d].localConfirmed
        /\ s.peerConfirmed = session[d].peerConfirmed
  <2>1. Waiting(session[d]) \in Sessions
    BY <1>1 DEF Waiting, Sessions
  <2> QED BY <1>1, <2>1 DEF ClockMoves, Waiting, Sessions
<1>3. s.state # "Idle"
  BY <1>2 DEF ClockMoves, InFlight
<1>4. UNCHANGED <<board, target, trust, peers, tap, air, history>>
  BY DEF ClockMoves
<1>5. TypeOK' /\ MessageInv' /\ Local(d) /\ session'[d] = s
  BY <1>1, <1>2, <1>4 DEF TypeOK, MessageInv, Local, board, mode, trust, peers, air, history
<1>6. SessionInv(d)'
  BY <1>1, <1>2, <1>3, <1>4, <1>5
     DEF BoardInv, SessionInv, InFlight, Derived, PeerKey, Transcript, peers, history
<1>7. StoreInv(d)'
  BY <1>1, <1>2, <1>4, <1>5
     DEF BoardInv, StoreInv, TrustedMacs, Macs, PeerKey, board, mode, trust, history
<1>8. LinkInv(d)'
  BY <1>1, <1>4, LinksKept DEF BoardInv, KeepsLink, board, mode, trust, peers, history
<1> QED
  BY <1>5, <1>6, <1>7, <1>8, BoardStep DEF BoardInv

LEMMA ReceiveCancelStep ==
  ASSUME IInv, NEW d \in Devices, NEW m \in cancels, ReceiveCancel(d, m)
  PROVE  IInv' /\ Local(d)
<1>1. TypeOK /\ session[d] \in Sessions /\ m.from \in Devices
  BY DEF IInv, TypeOK, CancelMessagesAll
<1>2. Cancel(session[d]) \in Sessions /\ Cancel(session[d]).state = "Cancelled"
  BY <1>1, CancelSession
<1>3. QED
  BY <1>1, <1>2, EndedStep DEF ReceiveCancel, TypeOK

LEMMA ReceiveConfirmRejectedStep ==
  ASSUME IInv, NEW d \in Devices, NEW m \in confirms, ReceiveConfirmRejected(d, m)
  PROVE  IInv' /\ Local(d)
<1>1. TypeOK /\ session[d] \in Sessions /\ m.from \in Devices /\ FreshSession \in Sessions
  BY DEF IInv, TypeOK, ConfirmMessages, FreshSession, Sessions, States, NoHello
<1>2. PICK s \in {FreshSession, session[d]} : session' = [session EXCEPT ![d] = s]
  BY DEF ReceiveConfirmRejected
<1>3. QED
  BY <1>1, <1>2, EndedStep DEF ReceiveConfirmRejected, TypeOK

LEMMA ReceiveHelloGarbledStep ==
  ASSUME IInv, NEW d \in Devices, NEW m \in begins, ReceiveHelloGarbled(d, m)
  PROVE  IInv' /\ Local(d)
<1>1. TypeOK /\ session[d] \in Sessions /\ m.from \in Devices /\ FreshSession \in Sessions
  BY DEF IInv, TypeOK, BeginMessages, FreshSession, Sessions, States, NoHello
<1>2. PICK s \in {FreshSession, session[d]} : session' = [session EXCEPT ![d] = s]
  BY DEF ReceiveHelloGarbled, HelloState, ClearedIfTerminal
<1>3. EvictUntrustedPeer(d, m.from) /\ UNCHANGED <<board, target, trust, tap, air, history>>
  BY DEF ReceiveHelloGarbled
<1>4. QED
  BY <1>1, <1>2, <1>3, EndedStep DEF TypeOK

\* A step that only changes the session of d, to nothing or back.
LEMMA SessionOnlyStep ==
  ASSUME IInv, NEW d \in Devices, NEW s \in Sessions,
         session' = [session EXCEPT ![d] = s],
         s = FreshSession \/ s.state = "Cancelled" \/ s = session[d],
         helloCount' \in [Devices -> Nat],
         UNCHANGED <<identity, mode, target, trust, peers, tap, air, history>>
  PROVE  IInv' /\ Local(d)
<1>1. TypeOK /\ MessageInv /\ BoardInv(d)
  BY DEF IInv
<1>2. TypeOK' /\ Local(d) /\ session'[d] = s
  BY <1>1 DEF TypeOK, Local, peers, air, history, trust, mode
<1>3. MessageInv'
  BY <1>1 DEF MessageInv, air, history, trust, mode
<1>4. BoardInv(d)'
  BY <1>1, <1>2, BoardStays DEF board, peers, history
<1>5. QED
  BY <1>2, <1>3, <1>4, BoardStep

LEMMA ReceiveHelloIgnoredStep ==
  ASSUME IInv, NEW d \in Devices, NEW m \in begins, ReceiveHelloIgnored(d, m)
  PROVE  IInv' /\ Local(d)
<1>1. TypeOK /\ session[d] \in Sessions /\ FreshSession \in Sessions
  BY DEF IInv, TypeOK, FreshSession, Sessions, States, NoHello
<1>2. PICK s \in {FreshSession, session[d]} : session' = [session EXCEPT ![d] = s]
  BY DEF ReceiveHelloIgnored, HelloState, ClearedIfTerminal
<1>3. QED
  BY <1>1, <1>2, SessionOnlyStep DEF ReceiveHelloIgnored, TypeOK, board, trust, mode

LEMMA ReceiveHelloNoSlotStep ==
  ASSUME IInv, NEW d \in Devices, NEW m \in begins, ReceiveHelloNoSlot(d, m)
  PROVE  IInv' /\ Local(d)
<1> DEFINE s == OnPeerHello(HelloState(d), m.hello, NextHello(d))
<1>1. TypeOK /\ session[d] \in Sessions /\ m.hello \in Hellos /\ NextHello(d) \in Hellos
  BY HelloType DEF IInv, TypeOK, BeginMessages
<1>2. HelloState(d) \in Sessions
  BY <1>1, SessionOps DEF HelloState
<1>3. s \in Sessions
  BY <1>1, <1>2, SessionOps
<1>4. Cancel(s) \in Sessions /\ Cancel(s).state = "Cancelled"
  BY <1>3, CancelSession
<1>5. helloCount' \in [Devices -> Nat]
  BY <1>1 DEF ReceiveHelloNoSlot, TypeOK
<1>6. /\ session' = [session EXCEPT ![d] = Cancel(s)]
      /\ UNCHANGED <<identity, mode, target, trust, peers, tap, air, history>>
  BY DEF ReceiveHelloNoSlot
<1>7. PICK c \in Sessions : c.state = "Cancelled" /\ session' = [session EXCEPT ![d] = c]
  BY <1>4, <1>6
<1>8. QED
  BY <1>5, <1>6, <1>7, SessionOnlyStep

LEMMA EnterGatewayModeStep ==
  ASSUME IInv, NEW d \in Devices, EnterGatewayMode(d)
  PROVE  IInv' /\ Local(d)
<1>1. TypeOK /\ MessageInv /\ BoardInv(d) /\ FreshSession \in Sessions
  BY DEF IInv, FreshSession, Sessions, States, NoHello
<1>2. /\ store' \in [Devices -> SUBSET Records] /\ file' = file
      /\ store'[d] = file[d] /\ store'[d] \subseteq store[d]
      /\ \A e \in Devices \ {d} : store'[e] = store[e]
  BY <1>1, LoadFacts DEF EnterGatewayMode, BoardInv
<1>3. /\ stray'[d] = registered[d] \ Macs(file[d])
      /\ stray' \in [Devices -> SUBSET Devices]
      /\ \A e \in Devices \ {d} : stray'[e] = stray[e]
      /\ gateway'[d] /\ stray[d] = {}
  BY <1>1 DEF EnterGatewayMode, TypeOK, BoardInv, StoreInv
<1>4. TypeOK' /\ Local(d) /\ session'[d] = FreshSession
  BY <1>1, <1>2, <1>3 DEF EnterGatewayMode, TypeOK, Local, peers, air, history
<1>5. MessageInv'
  BY <1>1 DEF EnterGatewayMode, MessageInv, air, history
<1>6. \A n \in Devices : lmk'[d][n] # {} => KeepsLink(d, n)
  <2>1. SUFFICES ASSUME NEW n \in Devices, lmk'[d][n] # {} PROVE KeepsLink(d, n)
    OBVIOUS
  <2>2. lmk' = lmk /\ registered' = registered /\ tapped' = tapped
    BY DEF EnterGatewayMode, peers, history
  <2>3. n \in registered[d]
    BY <1>1, <2>1, <2>2 DEF BoardInv, LinkInv, Encrypted
  <2>4. ASSUME NEW r \in store[d], r.mac = n, n \notin stray'[d] PROVE r \in store'[d]
    <3>1. PICK q \in file[d] : q.mac = n
      BY <1>3, <2>3, <2>4 DEF Macs
    <3>2. q \in store[d]
      BY <1>2
    <3>3. q = r
      BY <1>1, <2>4, <3>1, <3>2 DEF BoardInv, StoreInv
    <3> QED BY <1>2, <3>3
  <2> QED BY <1>3, <2>2, <2>4 DEF KeepsLink
<1>7. BoardInv(d)'
  <2>1. \A r \in store'[d] : r \in store[d] /\ r.key \in tapped'[d]
    BY <1>1, <1>2 DEF EnterGatewayMode, history, BoardInv, StoreInv
  <2>2. lmk' = lmk /\ signed' = signed
    BY DEF EnterGatewayMode, peers, history
  <2> QED BY <1>1, <1>2, <1>3, <1>4, <1>6, <2>1, <2>2, BoardKept
<1>8. QED
  BY <1>4, <1>5, <1>7, BoardStep

LEMMA RestartStep ==
  ASSUME IInv, NEW d \in Devices, Restart(d) \/ Reflash(d)
  PROVE  IInv' /\ Local(d)
<1>1. TypeOK /\ MessageInv /\ BoardInv(d) /\ FreshSession \in Sessions
  BY DEF IInv, FreshSession, Sessions, States, NoHello
<1>2. Restarted(d)
  BY DEF Restart, Reflash
<1>3. /\ identity' \in [Devices -> Nat \ {0}]
      /\ store' \in [Devices -> SUBSET Records] /\ file' \in [Devices -> SUBSET Records]
      /\ tapped' \in [Devices -> SUBSET Keys] /\ forgotten' \in [Devices -> SUBSET Keys]
      /\ \A e \in Devices \ {d} : store'[e] = store[e] /\ file'[e] = file[e] /\ tapped'[e] = tapped[e]
      /\ store'[d] \subseteq store[d] /\ file'[d] = store'[d]
      /\ \A r \in store'[d] : r.key \in tapped'[d]
  <2>1. CASE Restart(d)
    <3>1. /\ store' \in [Devices -> SUBSET Records] /\ file' = file
          /\ store'[d] = file[d] /\ store'[d] \subseteq store[d]
          /\ \A e \in Devices \ {d} : store'[e] = store[e]
      BY <1>1, <2>1, LoadFacts DEF Restart, BoardInv
    <3> QED BY <1>1, <2>1, <3>1 DEF Restart, TypeOK, BoardInv, StoreInv
  <2>2. CASE Reflash(d)
    <3>1. identity' \in [Devices -> Nat \ {0}]
      BY <1>1, <2>2 DEF Reflash, TypeOK
    <3>2. /\ store' = [store EXCEPT ![d] = {}] /\ file' = [file EXCEPT ![d] = {}]
          /\ tapped' = [tapped EXCEPT ![d] = {}] /\ forgotten' = [forgotten EXCEPT ![d] = {}]
      BY <2>2 DEF Reflash
    <3> QED
      BY <1>1, <3>1, <3>2 DEF TypeOK
  <2>3. QED
    BY <2>1, <2>2
<1>4. /\ lmk' \in [Devices -> [Devices -> Transcripts]]
      /\ \A n \in Devices : lmk'[d][n] = {}
      /\ \A e \in Devices \ {d} : lmk'[e] = lmk[e] /\ registered'[e] = registered[e]
  BY <1>1, <1>2 DEF Restarted, TypeOK, Transcripts
<1>5. /\ session' \in [Devices -> Sessions] /\ session'[d] = FreshSession
      /\ target' \in [Devices -> Devices \cup {NoPeer}]
      /\ registered' \in [Devices -> SUBSET Devices]
      /\ gateway' \in [Devices -> BOOLEAN] /\ stray' \in [Devices -> SUBSET Devices]
      /\ stray'[d] = {}
      /\ tap' \in [Devices -> {NoTap, "confirm", "deny"}]
      /\ \A e \in Devices \ {d} : session'[e] = session[e] /\ target'[e] = target[e]
      /\ \A e \in Devices \ {d} : gateway'[e] = gateway[e] /\ stray'[e] = stray[e]
  BY <1>1, <1>2 DEF Restarted, TypeOK
<1>6. TypeOK' /\ Local(d)
  BY <1>1, <1>2, <1>3, <1>4, <1>5 DEF Restarted, TypeOK, Local, air
<1>7. MessageInv'
  BY <1>1, <1>2 DEF Restarted, MessageInv, air
<1>8. BoardInv(d)'
  BY <1>1, <1>3, <1>4, <1>5, <1>6, BoardKept DEF Local
<1>9. QED
  BY <1>6, <1>7, <1>8, BoardStep

\* trust.pair.begin accepted: the session knows both hellos, and for a peer
\* that is trusted already it is confirmed, under the very key that is pinned.
LEMMA ReceiveHelloStep ==
  ASSUME IInv, NEW d \in Devices, NEW m \in begins, ReceiveHello(d, m)
  PROVE  IInv' /\ Local(d)
<1> DEFINE s0 == HelloState(d)
           s1 == OnPeerHello(s0, m.hello, NextHello(d))
           auto == AutoConfirms(d, m.from)
           s2 == IF auto THEN ConfirmLocally(s1) ELSE s1
           T == Transcript(s2)
           responder == s0.state = "Idle"
<1>1. /\ TypeOK /\ MessageInv /\ BoardInv(d) /\ session[d] \in Sessions
      /\ m.from \in Devices /\ m.hello \in Hellos /\ Owner(m.hello) = m.from
      /\ NextHello(d) \in Hellos /\ Owner(NextHello(d)) = d
  BY HelloType DEF IInv, TypeOK, BeginMessages, MessageInv
<1>2. s0 \in Sessions
  BY <1>1, SessionOps DEF HelloState
<1>3. s1 \in Sessions /\ ConfirmLocally(s1) \in Sessions
  BY <1>1, <1>2, SessionOps
<1>4. /\ s0.state \in {"Idle", "AwaitingPeerHello"}
      /\ ~s0.localConfirmed /\ ~s0.peerConfirmed
      /\ ~responder => s0 = session[d]
  BY <1>1 DEF ReceiveHello, HelloState, ClearedIfTerminal, FreshSession, BoardInv, SessionInv
<1>5. /\ s1.state = "AwaitingApproval"
      /\ ~s1.localConfirmed /\ ~s1.peerConfirmed
      /\ s1.peerHello = m.hello
      /\ s1.ourHello \in Hellos /\ Owner(s1.ourHello) = d
  BY <1>1, <1>2, <1>4 DEF OnPeerHello, Sessions, BoardInv, SessionInv
<1>6. /\ s2 \in Sessions
      /\ s2.ourHello = s1.ourHello /\ s2.peerHello = m.hello /\ ~s2.peerConfirmed
      /\ s2.state = IF auto THEN "AwaitingPeerConfirm" ELSE "AwaitingApproval"
      /\ s2.localConfirmed <=> auto
  <2>1. CASE auto
    BY <1>3, <1>5, <2>1 DEF ConfirmLocally, Sessions
  <2>2. CASE ~auto
    BY <1>3, <1>5, <2>2 DEF Sessions
  <2>3. QED
    BY <2>1, <2>2
<1>7. /\ T \in Transcripts /\ s2.ourHello[1] \in Keys /\ PeerKey(s2) \in Keys
      /\ s2.ourHello[1][1] = d
  BY <1>1, <1>5, <1>6 DEF Transcript, Transcripts, Hellos, PeerKey, Owner
<1>8. /\ HelloAdmitted(d, m.from, m.hello[1])
      /\ EnsureUnencryptedPeer(d, m.from)
      /\ session' = [session EXCEPT ![d] = s2]
      /\ target' = [target EXCEPT ![d] = m.from]
      /\ helloCount' = [helloCount EXCEPT ![d] = IF responder THEN @ + 1 ELSE @]
      /\ begins' = IF responder
                   THEN begins \cup {[from |-> d, to |-> m.from, hello |-> NextHello(d)]}
                   ELSE begins
      /\ IF auto
         THEN /\ confirms' = confirms \cup
                   {[from |-> d, to |-> m.from, lmk |-> {},
                     signer |-> s2.ourHello[1], over |-> T]}
              /\ signed' = signed \cup {<<s2.ourHello[1], T>>}
         ELSE confirms' = confirms /\ signed' = signed
      /\ UNCHANGED <<identity, mode, trust, tap, cancels, tapped, forgotten>>
  BY DEF ReceiveHello
<1>9. /\ registered' \in [Devices -> SUBSET Devices]
      /\ lmk' \in [Devices -> [Devices -> Transcripts]]
      /\ lmk'[d][m.from] = {}
      /\ \A n \in Devices : lmk'[d][n] \in {lmk[d][n], {}}
      /\ \A n \in Devices : lmk'[d][n] # {} /\ n \in registered[d] => n \in registered'[d]
      /\ \A e \in Devices \ {d} : lmk'[e] = lmk[e] /\ registered'[e] = registered[e]
  BY <1>1, <1>8, EnsureFacts
<1> HIDE DEF s0, s1, s2, T, auto, responder
<1>10. /\ signed \subseteq signed' /\ signed' \subseteq Keys \X Transcripts
       /\ \A p \in signed' \ signed : p[1][1] = d
       /\ auto => <<s2.ourHello[1], T>> \in signed'
  <2>1. CASE auto
    BY <1>1, <1>7, <1>8, <2>1 DEF TypeOK
  <2>2. CASE ~auto
    BY <1>1, <1>8, <2>2 DEF TypeOK
  <2>3. QED
    BY <2>1, <2>2
<1>11. confirms' \subseteq ConfirmMessages /\ \A c \in confirms' : <<c.signer, c.over>> \in signed'
  <2>1. CASE auto
    <3>1. {} \in Transcripts
      BY DEF Transcripts
    <3>2. [from |-> d, to |-> m.from, lmk |-> {}, signer |-> s2.ourHello[1], over |-> T]
            \in ConfirmMessages
      BY <1>1, <1>7, <3>1 DEF ConfirmMessages
    <3>3. confirms' = confirms \cup
            {[from |-> d, to |-> m.from, lmk |-> {}, signer |-> s2.ourHello[1], over |-> T]}
      BY <1>8, <2>1
    <3>4. \A c \in confirms : <<c.signer, c.over>> \in signed'
      BY <1>1, <1>10 DEF MessageInv
    <3>5. confirms' \subseteq ConfirmMessages
      BY <1>1, <3>2, <3>3 DEF TypeOK
    <3>6. QED
      BY <1>10, <2>1, <3>3, <3>4, <3>5
  <2>2. CASE ~auto
    BY <1>1, <1>8, <2>2 DEF TypeOK, MessageInv
  <2>3. QED
    BY <2>1, <2>2
<1>12. begins' \subseteq BeginMessages /\ \A b \in begins' : Owner(b.hello) = b.from
  <2>1. [from |-> d, to |-> m.from, hello |-> NextHello(d)] \in BeginMessages
    BY <1>1 DEF BeginMessages
  <2>2. CASE responder
    BY <1>1, <1>8, <2>1, <2>2 DEF TypeOK, MessageInv
  <2>3. CASE ~responder
    BY <1>1, <1>8, <2>3 DEF TypeOK, MessageInv
  <2>4. QED
    BY <2>2, <2>3
<1>13. helloCount' \in [Devices -> Nat]
  BY <1>1, <1>8 DEF TypeOK
<1>14. TypeOK'
  BY <1>1, <1>6, <1>8, <1>9, <1>10, <1>11, <1>12, <1>13 DEF TypeOK, trust, mode
<1>15. MessageInv'
  BY <1>11, <1>12 DEF MessageInv
<1>16. Local(d)
  BY <1>1, <1>8, <1>9, <1>10 DEF TypeOK, Local, trust, mode
<1>17. session'[d] = s2 /\ target'[d] = m.from /\ store'[d] = store[d] /\ tapped'[d] = tapped[d]
  BY <1>1, <1>8 DEF TypeOK, trust
<1>18. auto <=> m.from \in TrustedMacs(d)
  BY DEF auto, AutoConfirms
\* A trusted peer's hello carries the pinned key, which a human confirmed.
<1>19. auto => \A r \in store[d] : r.mac = m.from => r.key = PeerKey(s2) /\ r.key \in tapped[d]
  <2>1. SUFFICES ASSUME auto, NEW r \in store[d], r.mac = m.from
                 PROVE  r.key = PeerKey(s2) /\ r.key \in tapped[d]
    OBVIOUS
  <2>2. PICK q \in store[d] : q.mac = m.from /\ q.key = m.hello[1]
    BY <1>8, <1>18, <2>1 DEF HelloAdmitted, PinnedKeys
  <2>3. QED
    BY <1>1, <1>6, <2>1, <2>2 DEF BoardInv, StoreInv, PeerKey
<1>20. auto => PeerKey(s2) \in tapped[d]
  BY <1>18, <1>19 DEF TrustedMacs, Macs
<1>21. SessionInv(d)'
  BY <1>1, <1>5, <1>6, <1>9, <1>10, <1>17, <1>20 DEF SessionInv, InFlight, Derived, T
<1>22. StoreInv(d)'
  <2>1. TrustedMacs(d)' = TrustedMacs(d)
    BY <1>17 DEF TrustedMacs, Macs
  <2>2. QED
    BY <1>1, <1>6, <1>8, <1>17, <1>18, <1>19, <2>1 DEF BoardInv, StoreInv, trust, mode
<1>23. LinkInv(d)'
  BY <1>1, <1>8, <1>9, <1>10, <1>17, LinksStay DEF BoardInv, mode
<1>24. QED
  BY <1>14, <1>15, <1>16, <1>21, <1>22, <1>23, BoardStep DEF BoardInv

\* trust.pair.confirm accepted.  The peer's hello is of the peer's key, so the
\* good signature on the air means that the peer itself signed.
LEMMA ReceiveConfirmStep ==
  ASSUME IInv, NEW d \in Devices, NEW m \in confirms, ReceiveConfirm(d, m)
  PROVE  IInv' /\ Local(d)
<1> DEFINE s == OnPeerConfirm(session[d])
<1>1. /\ TypeOK /\ MessageInv /\ BoardInv(d) /\ session[d] \in Sessions
      /\ session[d].state \in {"AwaitingApproval", "AwaitingPeerConfirm"}
      /\ UNCHANGED <<board, target, tap, begins, confirms, history>>
      /\ <<m.signer, m.over>> \in signed
  BY DEF IInv, TypeOK, MessageInv, ReceiveConfirm
<1>2. /\ session[d].ourHello \in Hellos /\ Owner(session[d].ourHello) = d
      /\ session[d].peerHello \in Hellos /\ Owner(session[d].peerHello) = target[d]
      /\ target[d] \in Devices /\ lmk[d][target[d]] = {}
      /\ <<PeerKey(session[d]), Transcript(session[d])>> \in signed
  BY <1>1 DEF ReceiveConfirm, GoodSignature, BoardInv, SessionInv, InFlight, Derived
<1>3. /\ s \in Sessions /\ s.ourHello = session[d].ourHello /\ s.peerHello = session[d].peerHello
      /\ s.localConfirmed = session[d].localConfirmed /\ s.peerConfirmed
      /\ s.state = IF session[d].localConfirmed THEN "Committed" ELSE session[d].state
      /\ PeerKey(s) = PeerKey(session[d]) /\ Transcript(s) = Transcript(session[d])
  BY <1>1, <1>2 DEF OnPeerConfirm, Sessions, States, PeerKey, Transcript
<1>4. AfterConfirm(d, s)
  BY DEF ReceiveConfirm
<1> HIDE DEF s
<1>5. CASE s.state = "Committed"
  <2>1. FinalizePairingCommit(d, target[d], s)
    BY <1>4, <1>5 DEF AfterConfirm
  <2>2. session[d].localConfirmed
    BY <1>1, <1>3, <1>5
  <2>3. /\ <<s.ourHello[1], Transcript(s)>> \in signed
        /\ <<PeerKey(s), Transcript(s)>> \in signed
        /\ PeerKey(s) \in tapped[d]
    BY <1>1, <1>2, <1>3, <2>2 DEF BoardInv, SessionInv, Derived
  <2>4. target' = target /\ mode' = mode /\ signed' = signed /\ tapped' = tapped
    BY <1>1 DEF board, history
  <2>5. /\ session' \in [Devices -> Sessions]
        /\ store' \in [Devices -> SUBSET Records] /\ file' \in [Devices -> SUBSET Records]
        /\ registered' \in [Devices -> SUBSET Devices]
        /\ lmk' \in [Devices -> [Devices -> Transcripts]]
        /\ cancels' \subseteq CancelMessagesAll
        /\ BoardInv(d)'
        /\ store[d] \subseteq store'[d]
        /\ \A e \in Devices \ {d} :
             /\ session'[e] = session[e] /\ store'[e] = store[e] /\ file'[e] = file[e]
             /\ lmk'[e] = lmk[e] /\ registered'[e] = registered[e]
    BY <1>1, <1>3, <1>5, <2>1, <2>3, <2>4, FinalizeFacts
  <2>6. TypeOK' /\ MessageInv' /\ Local(d)
    BY <1>1, <2>5 DEF TypeOK, MessageInv, Local, board, history, trust, mode
  <2>7. QED
    BY <2>5, <2>6, BoardStep
<1>6. CASE s.state # "Committed"
  <2>1. /\ session' = [session EXCEPT ![d] = s]
        /\ UNCHANGED <<trust, peers, cancels>>
        /\ s.state = "AwaitingApproval" /\ ~s.localConfirmed
    BY <1>1, <1>3, <1>4, <1>6 DEF AfterConfirm, BoardInv, SessionInv
  <2>2. TypeOK' /\ MessageInv' /\ Local(d) /\ session'[d] = s
    BY <1>1, <1>3, <2>1 DEF TypeOK, MessageInv, Local, board, peers, history, trust, mode
  <2>3. session[d].state = "AwaitingApproval"
    BY <1>1, <1>3, <2>1
  <2>4. SessionInv(d)'
    BY <1>1, <1>2, <1>3, <2>1, <2>2 DEF SessionInv, InFlight, Derived, peers, history, trust, mode
  <2>5. StoreInv(d)'
    BY <1>1, <2>1, <2>2, <2>3, <1>3 DEF BoardInv, StoreInv, TrustedMacs, Macs, PeerKey, board, history, trust, mode
  <2>6. LinkInv(d)'
    BY <1>1, <2>1, LinksStay DEF BoardInv, board, peers, history, trust, mode
  <2>7. QED
    BY <2>2, <2>4, <2>5, <2>6, BoardStep DEF BoardInv
<1>7. QED
  BY <1>5, <1>6

\* The tap of a human: the session signs, and the peer's key counts as tapped.
LEMMA ConfirmPairingStep ==
  ASSUME IInv, NEW d \in Devices, ConfirmPairing(d)
  PROVE  IInv' /\ Local(d)
<1>1. /\ TypeOK /\ MessageInv /\ BoardInv(d) /\ session[d] \in Sessions
      /\ tap' = [tap EXCEPT ![d] = NoTap]
      /\ UNCHANGED <<board, target, begins>>
  BY DEF IInv, TypeOK, ConfirmPairing
<1>2. tap' \in [Devices -> {NoTap, "confirm", "deny"}]
  BY <1>1 DEF TypeOK
<1>3. CASE session[d].state # "AwaitingApproval"
  <2>1. UNCHANGED <<session, trust, peers, confirms, cancels, history>>
    BY <1>3 DEF ConfirmPairing
  <2>2. TypeOK' /\ MessageInv' /\ Local(d)
    BY <1>1, <1>2, <2>1 DEF TypeOK, MessageInv, Local, board, peers, history, trust, mode
  <2>3. BoardInv(d)'
    BY <1>1, <2>1, BoardStays DEF board, peers, history
  <2>4. QED
    BY <2>2, <2>3, BoardStep
<1>4. CASE session[d].state = "AwaitingApproval"
  <2> DEFINE s == ConfirmLocally(session[d])
             T == Transcript(s)
  <2>1. /\ SendConfirm(d, target[d], s)
        /\ AfterConfirm(d, s)
        /\ signed' = signed \cup {<<s.ourHello[1], T>>}
        /\ tapped' = [tapped EXCEPT ![d] = @ \cup {PeerKey(s)}]
        /\ forgotten' = [forgotten EXCEPT ![d] = @ \ {PeerKey(s)}]
    BY <1>4 DEF ConfirmPairing
  <2>2. /\ session[d].ourHello \in Hellos /\ Owner(session[d].ourHello) = d
        /\ session[d].peerHello \in Hellos /\ Owner(session[d].peerHello) = target[d]
        /\ target[d] \in Devices /\ lmk[d][target[d]] = {}
        /\ target[d] \notin TrustedMacs(d)
        /\ session[d].peerConfirmed =>
             <<PeerKey(session[d]), Transcript(session[d])>> \in signed
    BY <1>1, <1>4 DEF BoardInv, SessionInv, StoreInv, InFlight, Derived
  <2>3. /\ s.ourHello = session[d].ourHello /\ s.peerHello = session[d].peerHello
        /\ s.localConfirmed /\ s.peerConfirmed = session[d].peerConfirmed
        /\ s.state = IF session[d].peerConfirmed THEN "Committed" ELSE "AwaitingPeerConfirm"
        /\ s \in Sessions
    <3>1. CASE session[d].peerConfirmed
      BY <1>1, <3>1 DEF ConfirmLocally, Sessions, States
    <3>2. CASE ~session[d].peerConfirmed
      BY <1>1, <3>2 DEF ConfirmLocally, Sessions, States
    <3>3. QED
      BY <3>1, <3>2
  <2>4. T = Transcript(session[d]) /\ PeerKey(s) = PeerKey(session[d])
    BY <2>3 DEF Transcript, PeerKey
  <2>5. T \in Transcripts /\ s.ourHello[1] \in Keys /\ s.ourHello[1][1] = d /\ PeerKey(s) \in Keys
    BY <2>2, <2>3 DEF Transcript, Transcripts, PeerKey, Hellos, Owner
  <2> HIDE DEF s, T
  <2>6. /\ signed \subseteq signed' /\ signed' \subseteq Keys \X Transcripts
        /\ \A p \in signed' \ signed : p[1][1] = d
        /\ <<s.ourHello[1], T>> \in signed'
    BY <1>1, <2>1, <2>5 DEF TypeOK
  <2>7. /\ tapped' \in [Devices -> SUBSET Keys] /\ tapped[d] \subseteq tapped'[d]
        /\ PeerKey(s) \in tapped'[d]
        /\ \A e \in Devices \ {d} : tapped'[e] = tapped[e]
        /\ forgotten' \in [Devices -> SUBSET Keys]
    BY <1>1, <2>1, <2>5 DEF TypeOK
  <2>8. confirms' \subseteq ConfirmMessages /\ \A q \in confirms' : <<q.signer, q.over>> \in signed'
    <3> DEFINE c == [from |-> d, to |-> target[d], lmk |-> lmk[d][target[d]],
                     signer |-> s.ourHello[1], over |-> T]
    <3>1. lmk[d][target[d]] \in Transcripts
      BY <2>2 DEF Transcripts
    <3>2. c \in ConfirmMessages /\ <<c.signer, c.over>> \in signed'
      BY <2>2, <2>5, <2>6, <3>1 DEF ConfirmMessages
    <3>3. confirms' \in {confirms, confirms \cup {c}}
      BY <2>1 DEF SendConfirm, T
    <3>4. \A q \in confirms : <<q.signer, q.over>> \in signed'
      BY <1>1, <2>6 DEF MessageInv
    <3> HIDE DEF c
    <3>5. \A q \in confirms' : q \in confirms \/ q = c
      BY <3>3
    <3>6. QED
      BY <1>1, <3>2, <3>4, <3>5 DEF TypeOK
  <2>9. MessageInv'
    BY <1>1, <2>8 DEF MessageInv
  <2>10. CASE s.state = "Committed"
    <3>1. FinalizePairingCommit(d, target[d], s)
      BY <2>1, <2>10 DEF AfterConfirm
    <3>2. <<PeerKey(s), Transcript(s)>> \in signed'
      BY <2>2, <2>3, <2>4, <2>6, <2>10 DEF T
    <3>3. <<s.ourHello[1], Transcript(s)>> \in signed' /\ target' = target /\ mode' = mode
      BY <1>1, <2>6 DEF T, board
    <3>4. /\ session' \in [Devices -> Sessions]
          /\ store' \in [Devices -> SUBSET Records] /\ file' \in [Devices -> SUBSET Records]
          /\ registered' \in [Devices -> SUBSET Devices]
          /\ lmk' \in [Devices -> [Devices -> Transcripts]]
          /\ cancels' \subseteq CancelMessagesAll
          /\ BoardInv(d)'
          /\ store[d] \subseteq store'[d]
          /\ \A e \in Devices \ {d} :
               /\ session'[e] = session[e] /\ store'[e] = store[e] /\ file'[e] = file[e]
               /\ lmk'[e] = lmk[e] /\ registered'[e] = registered[e]
      BY <1>1, <1>4, <2>3, <2>6, <2>7, <2>10, <3>1, <3>2, <3>3, FinalizeFacts
    <3>5. TypeOK' /\ Local(d)
      BY <1>1, <1>2, <2>6, <2>7, <2>8, <3>4 DEF TypeOK, Local, board, trust, mode
    <3>6. QED
      BY <2>9, <3>4, <3>5, BoardStep
  <2>11. CASE s.state # "Committed"
    <3>1. session' = [session EXCEPT ![d] = s] /\ UNCHANGED <<trust, peers, cancels>>
      BY <2>1, <2>11 DEF AfterConfirm
    <3>2. s.state = "AwaitingPeerConfirm" /\ ~s.peerConfirmed
      BY <1>1, <2>3, <2>11 DEF Sessions
    <3>3. TypeOK' /\ Local(d) /\ session'[d] = s
      BY <1>1, <1>2, <2>3, <2>6, <2>7, <2>8, <3>1 DEF TypeOK, Local, board, peers, trust, mode
    <3>4. SessionInv(d)'
      BY <1>1, <2>2, <2>3, <2>6, <2>7, <3>1, <3>2, <3>3
         DEF SessionInv, InFlight, Derived, peers, T, trust, mode
    <3>5. StoreInv(d)'
      BY <1>1, <2>2, <2>7, <3>1, <3>2, <3>3 DEF BoardInv, StoreInv, TrustedMacs, Macs, board, trust, mode
    <3>6. LinkInv(d)'
      BY <1>1, <2>6, <2>7, <3>1, LinksStay DEF BoardInv, board, peers, trust, mode
    <3>7. QED
      BY <2>9, <3>3, <3>4, <3>5, <3>6, BoardStep DEF BoardInv
  <2>12. QED
    BY <2>10, <2>11
<1>5. QED
  BY <1>3, <1>4

-----------------------------------------------------------------------------
(* The theorems.                                                           *)

LEMMA InitIInv == Init => IInv
<1> SUFFICES ASSUME Init PROVE IInv
  OBVIOUS
<1>1. FreshSession \in Sessions /\ {} \in Transcripts
  BY DEF FreshSession, Sessions, States, NoHello, Transcripts
<1>2. TypeOK
  BY <1>1 DEF Init, TypeOK
<1>3. MessageInv
  BY DEF Init, MessageInv
<1>4. \A d \in Devices : BoardInv(d)
  BY DEF Init, BoardInv, SessionInv, StoreInv, LinkInv, Encrypted, FreshSession, InFlight, Derived
<1>5. QED
  BY <1>2, <1>3, <1>4 DEF IInv

\* What one board may do.
BoardNext(d) ==
  \/ \E m \in Devices : BeginPairing(d, m) \/ BeginPairingRefused(d, m)
  \/ \E button \in {"confirm", "deny"} : Tap(d, button)
  \/ ConfirmPairing(d)
  \/ DenyPairing(d)
  \/ HostCancel(d)
  \/ \E r \in store[d] : Forget(d, r)
  \/ \E m \in begins : \/ ReceiveHelloIgnored(d, m)
                       \/ ReceiveHello(d, m)
                       \/ ReceiveHelloNoSlot(d, m)
                       \/ ReceiveHelloGarbled(d, m)
  \/ \E m \in confirms : ReceiveConfirm(d, m) \/ ReceiveConfirmRejected(d, m)
  \/ \E m \in cancels : ReceiveCancel(d, m)
  \/ ClockMoves(d)
  \/ Timeout(d)
  \/ Restart(d)
  \/ Reflash(d)
  \/ EnterGatewayMode(d)

LEMMA BoardNextStep ==
  ASSUME IInv, NEW d \in Devices, BoardNext(d)
  PROVE  IInv' /\ Local(d)
<1>2. CASE \E m \in Devices : BeginPairing(d, m) \/ BeginPairingRefused(d, m)
  BY <1>2, BeginPairingStep, BeginPairingRefusedStep
<1>3. CASE \E button \in {"confirm", "deny"} : Tap(d, button)
  BY <1>3, TapStep
<1>4. CASE ConfirmPairing(d)
  BY <1>4, ConfirmPairingStep
<1>5. CASE DenyPairing(d) \/ HostCancel(d)
  <2>1. tap' \in [Devices -> {NoTap, "confirm", "deny"}]
    BY <1>5 DEF DenyPairing, HostCancel, IInv, TypeOK
  <2>2. QED
    BY <1>5, <2>1, DeniedStep DEF DenyPairing, HostCancel
<1>6. CASE \E r \in store[d] : Forget(d, r)
  BY <1>6, ForgetStep
<1>7. CASE \E m \in begins : \/ ReceiveHelloIgnored(d, m) \/ ReceiveHello(d, m)
                             \/ ReceiveHelloNoSlot(d, m) \/ ReceiveHelloGarbled(d, m)
  BY <1>7, ReceiveHelloIgnoredStep, ReceiveHelloStep, ReceiveHelloNoSlotStep, ReceiveHelloGarbledStep
<1>8. CASE \E m \in confirms : ReceiveConfirm(d, m) \/ ReceiveConfirmRejected(d, m)
  BY <1>8, ReceiveConfirmStep, ReceiveConfirmRejectedStep
<1>9. CASE \E m \in cancels : ReceiveCancel(d, m)
  BY <1>9, ReceiveCancelStep
<1>10. CASE Timeout(d)
  BY <1>10, TimeoutStep
<1>11. CASE Restart(d) \/ Reflash(d)
  BY <1>11, RestartStep
<1>12. CASE EnterGatewayMode(d)
  BY <1>12, EnterGatewayModeStep
<1>13. CASE ClockMoves(d)
  BY <1>13, ClockMovesStep
<1>14. QED
  BY <1>2, <1>3, <1>4, <1>5, <1>6, <1>7, <1>8, <1>9, <1>10, <1>11, <1>12, <1>13 DEF BoardNext

\* Every step is the step of one board.
LEMMA NextStep ==
  ASSUME IInv, Next
  PROVE  IInv' /\ \E d \in Devices : Local(d)
<1>1. PICK d \in Devices : BoardNext(d)
  BY DEF Next, BoardNext
<1> QED BY <1>1, BoardNextStep

LEMMA StutterStep ==
  ASSUME IInv, UNCHANGED vars
  PROVE  IInv'
<1>1. TypeOK' /\ MessageInv'
  BY DEF vars, board, peers, air, history, IInv, TypeOK, MessageInv, trust, mode
<1>2. ASSUME NEW d \in Devices PROVE BoardInv(d)'
  <2>1. /\ BoardInv(d)
        /\ UNCHANGED <<session, target, trust, mode, registered, lmk, tapped, signed>>
    BY DEF IInv, vars, board, peers, history
  <2>2. QED
    BY <2>1, BoardStays
<1>3. QED
  BY <1>1, <1>2 DEF IInv

\* The invariant holds in every behaviour of the pairing handlers.
THEOREM Invariant == Spec => []IInv
<1>1. IInv /\ [Next]_vars => IInv'
  BY NextStep, StutterStep
<1>2. QED
  BY InitIInv, <1>1, PTL DEF Spec

\* Sessions, peer tables, stores and messages keep their types.
THEOREM TypeCorrect == Spec => []TypeOK
<1>1. IInv => TypeOK
  BY DEF IInv
<1>2. QED
  BY <1>1, Invariant, PTL

\* For any number of boards, whatever becomes of writes to trust.json: a link
\* key is one that both ends signed for, with a key of the peer that was tapped,
\* and its record is there unless the switch to gateway mode has lost it.
THEOREM LinksAgree == Spec => []LinkAgreement
<1>1. ASSUME IInv PROVE LinkAgreement
  <2>1. SUFFICES ASSUME NEW d \in Devices, NEW m \in Devices, Encrypted(d, m)
                 PROVE  Agreed(d, m) /\ (Recorded(d, m) \/ m \in stray[d])
    BY DEF LinkAgreement
  <2>2. PICK mine, theirs \in lmk[d][m] :
          /\ lmk[d][m] = {mine, theirs}
          /\ Owner(theirs) = m
          /\ <<mine[1], lmk[d][m]>> \in signed /\ <<theirs[1], lmk[d][m]>> \in signed
          /\ theirs[1] \in tapped[d]
          /\ [mac |-> m, key |-> theirs[1]] \in store[d] \/ m \in stray[d]
    BY <1>1, <2>1 DEF IInv, BoardInv, LinkInv
  <2>3. \A g \in lmk[d][m] : <<g[1], lmk[d][m]>> \in signed
    BY <2>2
  <2>4. Agreed(d, m)
    BY <2>2, <2>3 DEF Agreed, Owner
  <2>5. Recorded(d, m) \/ m \in stray[d]
    BY <2>2 DEF Recorded
  <2>6. QED
    BY <2>4, <2>5
<1>2. QED
  BY <1>1, Invariant, PTL

\* A MAC has one trust record at most, whatever the order of reflashes,
\* forgets and handshakes.
THEOREM OneRecord == Spec => []OneRecordPerMac
<1>1. IInv => OneRecordPerMac
  BY DEF IInv, BoardInv, StoreInv, OneRecordPerMac
<1>2. QED
  BY <1>1, Invariant, PTL

\* No record enters a store without a tap on that board for that very key.
THEOREM ByHand == Spec => []TrustedByHand
<1>1. IInv => TrustedByHand
  BY DEF IInv, BoardInv, StoreInv, TrustedByHand
<1>2. QED
  BY <1>1, Invariant, PTL

\* A reconnect never asks for approval, on either side.
THEOREM Silent == Spec => []SilentReconnect
<1>1. IInv => SilentReconnect
  BY DEF IInv, BoardInv, StoreInv, SilentReconnect
<1>2. QED
  BY <1>1, Invariant, PTL

\* A handshake in progress is never encrypted under an earlier link key.
THEOREM InClear == Spec => []HandshakeInClear
<1>1. IInv => HandshakeInClear
  BY DEF IInv, BoardInv, SessionInv, HandshakeInClear, Encrypted
<1>2. QED
  BY <1>1, Invariant, PTL

\* No single step replaces the key that is pinned for a MAC.
THEOREM PinKept == Spec => PinNeverReplaced
<1> DEFINE Kept == \A d \in Devices : \A r \in store[d], q \in store'[d] :
                     r.mac = q.mac => r.key = q.key
<1>1. ASSUME IInv, Next PROVE Kept
  <2>1. PICK e \in Devices : Local(e)
    BY <1>1, NextStep
  <2>2. IInv'
    BY <1>1, NextStep
  <2>3. SUFFICES ASSUME NEW d \in Devices, NEW r \in store[d], NEW q \in store'[d], r.mac = q.mac
                 PROVE  r.key = q.key
    OBVIOUS
  <2>4. \/ r \in store'[d]
        \/ q \in store[d]
    BY <2>1 DEF Local
  <2>5. QED
    BY <1>1, <2>2, <2>3, <2>4 DEF IInv, BoardInv, StoreInv
<1>2. ASSUME IInv, UNCHANGED vars PROVE Kept
  BY <1>2 DEF vars, trust, IInv, BoardInv, StoreInv
<1>3. IInv /\ [Next]_vars => [Kept]_vars
  BY <1>1, <1>2
<1>4. QED
  BY <1>3, Invariant, PTL DEF Spec, PinNeverReplaced

\* The handlers implement LinkConsent: a board installs a link only on the
\* strength of a transcript that both boards signed, and signs for itself only.
THEOREM Implements == Spec => ImplementsConsent
<1>1. Init => Consent!Init
  BY DEF Init, Consent!Init
<1>2. ASSUME IInv, Next PROVE Consent!Next
  <2>1. PICK d \in Devices : Local(d)
    BY <1>2, NextStep
  <2>2. IInv'
    BY <1>2, NextStep
  <2>3. ASSUME NEW m \in Devices, lmk'[d][m] # {}
        PROVE  Consent!BothSigned(d, m, lmk'[d][m], signed')
    <3>1. LinkInv(d)'
      BY <2>2 DEF IInv, BoardInv
    <3> QED BY <2>3, <3>1 DEF LinkInv, Encrypted, Consent!BothSigned, Consent!Owner, Owner
  <2>4. Consent!Act(d)
    BY <2>1, <2>3 DEF Local, Consent!Act, Consent!Owner
  <2>5. QED
    BY <2>4 DEF Consent!Next
<1>3. UNCHANGED vars => UNCHANGED Consent!vars
  BY DEF vars, peers, history, Consent!vars, trust, mode
<1>4. IInv /\ [Next]_vars => [Consent!Next]_(Consent!vars)
  BY <1>2, <1>3
<1>5. QED
  BY <1>1, <1>4, Invariant, PTL DEF Spec, ImplementsConsent, Consent!Spec

-----------------------------------------------------------------------------
(* Forgetting.                                                             *)

\* A record names its MAC in its key, and neither it nor an attempt that only
\* waits for its peer is for a key that was forgotten.
ForgetInv(d) ==
  /\ \A r \in store[d] : r.key \notin forgotten[d] /\ r.key[1] = r.mac
  /\ session[d].state = "AwaitingPeerConfirm" => PeerKey(session[d]) \notin forgotten[d]

ForgetEverywhere == \A d \in Devices : ForgetInv(d)

\* A board that nothing happens to.
LEMMA ForgetKept ==
  ASSUME NEW d \in Devices, ForgetInv(d),
         store'[d] \subseteq store[d], forgotten'[d] = forgotten[d],
         \/ session'[d] = session[d]
         \/ session'[d].state # "AwaitingPeerConfirm"
  PROVE  ForgetInv(d)'
BY DEF ForgetInv, PeerKey

\* A commit stores the key of its attempt, if any.
LEMMA ForgetCommit ==
  ASSUME TypeOK, NEW d \in Devices, NEW m \in Devices, NEW s \in Sessions, s.state = "Committed",
         FinalizePairingCommit(d, m, s),
         PeerKey(s) \notin forgotten'[d], PeerKey(s)[1] = m,
         \A r \in store[d] : r.key \notin forgotten'[d] /\ r.key[1] = r.mac
  PROVE  ForgetInv(d)'
<1> DEFINE record == [mac |-> m, key |-> PeerKey(s)]
<1>1. store'[d] \subseteq store[d] \cup {record}
  <2>1. PICK result \in WriteResults :
          \/ store' = store
          \/ SaveRecords(d, store[d] \cup {record}, result)
    BY DEF FinalizePairingCommit, trust
  <2> QED BY <2>1 DEF SaveRecords, TypeOK
<1>2. session'[d].state # "AwaitingPeerConfirm"
  <2>1. session'[d] \in {s, Cancel(s)}
    BY DEF FinalizePairingCommit, TypeOK
  <2>2. Cancel(s).state = "Cancelled"
    BY DEF Cancel, Sessions
  <2> QED
    BY <2>1, <2>2
<1>3. ASSUME NEW r \in store'[d] PROVE r.key \notin forgotten'[d] /\ r.key[1] = r.mac
  BY <1>1, <1>3
<1> QED
  BY <1>2, <1>3 DEF ForgetInv

\* The tap: whatever was forgotten of this key does not count any more.
LEMMA ForgetConfirm ==
  ASSUME IInv, NEW d \in Devices, ForgetInv(d), ConfirmPairing(d)
  PROVE  ForgetInv(d)'
<1>1. CASE session[d].state # "AwaitingApproval"
  BY <1>1, ForgetKept DEF ConfirmPairing, history, trust, mode
<1>2. CASE session[d].state = "AwaitingApproval"
  <2> DEFINE s == ConfirmLocally(session[d])
  <2>1. AfterConfirm(d, s) /\ forgotten' = [forgotten EXCEPT ![d] = @ \ {PeerKey(s)}]
    BY <1>2 DEF ConfirmPairing
  <2>2. session[d] \in Sessions /\ forgotten \in [Devices -> SUBSET Keys]
        /\ target[d] \in Devices /\ Owner(session[d].peerHello) = target[d]
    BY <1>2 DEF IInv, TypeOK, BoardInv, SessionInv, InFlight, Derived
  <2>3. /\ s \in Sessions /\ s.peerHello = session[d].peerHello
        /\ s.state \in {"Committed", "AwaitingPeerConfirm"}
    <3>1. CASE session[d].peerConfirmed
      BY <2>2, <3>1 DEF ConfirmLocally, Sessions, States
    <3>2. CASE ~session[d].peerConfirmed
      BY <2>2, <3>2 DEF ConfirmLocally, Sessions, States
    <3> QED
      BY <3>1, <3>2
  <2> HIDE DEF s
  <2>4. PeerKey(s)[1] = target[d]
    BY <2>2, <2>3 DEF PeerKey, Owner
  <2>5. forgotten'[d] = forgotten[d] \ {PeerKey(s)}
    BY <2>1, <2>2
  <2>6. \A r \in store[d] : r.key \notin forgotten'[d] /\ r.key[1] = r.mac
    BY <2>5 DEF ForgetInv
  <2>7. CASE s.state = "Committed"
    BY <2>1, <2>2, <2>3, <2>4, <2>5, <2>6, <2>7, ForgetCommit DEF AfterConfirm, IInv
  <2>8. CASE s.state = "AwaitingPeerConfirm"
    <3>1. session' = [session EXCEPT ![d] = s] /\ UNCHANGED store
      BY <2>1, <2>8 DEF AfterConfirm, trust
    <3>2. session'[d] = s
      BY <3>1 DEF IInv, TypeOK
    <3> QED
      BY <2>5, <2>6, <3>1, <3>2 DEF ForgetInv, PeerKey
  <2> QED
    BY <2>3, <2>7, <2>8
<1> QED
  BY <1>1, <1>2

\* The confirmation of the peer, after one of this board.
LEMMA ForgetReceiveConfirm ==
  ASSUME IInv, NEW d \in Devices, ForgetInv(d), NEW m \in confirms, ReceiveConfirm(d, m)
  PROVE  ForgetInv(d)'
<1> DEFINE s == OnPeerConfirm(session[d])
<1>1. AfterConfirm(d, s) /\ UNCHANGED forgotten
  BY DEF ReceiveConfirm, history, trust, mode
<1>2. session[d] \in Sessions /\ target[d] \in Devices /\ Owner(session[d].peerHello) = target[d]
  BY DEF ReceiveConfirm, IInv, TypeOK, BoardInv, SessionInv, InFlight, Derived
<1>3. CASE session[d].state = "AwaitingPeerConfirm"
  <2>1. session[d].localConfirmed
    BY <1>3 DEF IInv, BoardInv, SessionInv
  <2>2. s \in Sessions /\ s.peerHello = session[d].peerHello /\ s.state = "Committed"
    BY <1>2, <2>1 DEF OnPeerConfirm, Sessions, States
  <2> HIDE DEF s
  <2>3. PeerKey(s)[1] = target[d] /\ PeerKey(s) \notin forgotten'[d]
    BY <1>1, <1>2, <1>3, <2>2 DEF PeerKey, Owner, ForgetInv
  <2> QED
    BY <1>1, <1>2, <2>2, <2>3, ForgetCommit DEF AfterConfirm, IInv, ForgetInv
<1>4. CASE session[d].state = "AwaitingApproval"
  <2>1. ~session[d].localConfirmed
    BY <1>4 DEF IInv, BoardInv, SessionInv
  <2>2. s.state = "AwaitingApproval"
    BY <1>2, <1>4, <2>1 DEF OnPeerConfirm, Sessions
  <2> HIDE DEF s
  <2>3. session' = [session EXCEPT ![d] = s] /\ UNCHANGED store
    BY <1>1, <2>2 DEF AfterConfirm, trust
  <2> QED
    BY <1>1, <2>2, <2>3, ForgetKept DEF IInv, TypeOK
<1> QED
  BY <1>3, <1>4 DEF ReceiveConfirm

\* A record goes; its key counts as forgotten, and no other record has it.
LEMMA ForgetForgets ==
  ASSUME IInv, NEW d \in Devices, ForgetInv(d), NEW r \in store[d], Forget(d, r)
  PROVE  ForgetInv(d)'
<1>0. PICK result \in WriteResults :
        /\ SaveRecords(d, store[d] \ {r}, result)
        /\ IF Saved(result)
           THEN forgotten' = IF InFlight(session[d]) /\ target[d] = r.mac THEN forgotten
                             ELSE [forgotten EXCEPT ![d] = @ \cup {r.key}]
           ELSE UNCHANGED forgotten
  BY DEF Forget
<1>1. store'[d] = (IF Saved(result) THEN store[d] \ {r} ELSE store[d]) /\ session'[d] = session[d]
  BY <1>0 DEF Forget, SaveRecords, IInv, TypeOK
<1>2. CASE (InFlight(session[d]) /\ target[d] = r.mac) \/ ~Saved(result)
  <2>1. forgotten' = forgotten /\ store'[d] \subseteq store[d]
    BY <1>0, <1>1, <1>2
  <2> QED BY <1>1, <2>1 DEF ForgetInv, PeerKey
<1>3. CASE ~(InFlight(session[d]) /\ target[d] = r.mac) /\ Saved(result)
  <2>1. forgotten'[d] = forgotten[d] \cup {r.key} /\ store'[d] = store[d] \ {r}
    BY <1>0, <1>1, <1>3 DEF IInv, TypeOK
  <2>2. ASSUME NEW q \in store[d] \ {r} PROVE q.key # r.key
    <3>1. q.mac # r.mac
      BY <2>2 DEF IInv, BoardInv, StoreInv
    <3> QED
      BY <2>2, <3>1 DEF ForgetInv
  <2>3. ASSUME session[d].state = "AwaitingPeerConfirm" PROVE PeerKey(session[d]) # r.key
    <3>1. PeerKey(session[d])[1] = target[d] /\ InFlight(session[d])
      BY <2>3 DEF IInv, BoardInv, SessionInv, Derived, InFlight, PeerKey, Owner
    <3> QED
      BY <1>3, <3>1 DEF ForgetInv
  <2> QED
    BY <1>1, <2>1, <2>2, <2>3 DEF ForgetInv, PeerKey
<1> QED
  BY <1>2, <1>3

\* A hello of a trusted peer is answered at once; its key is the pinned one.
LEMMA ForgetHello ==
  ASSUME IInv, NEW d \in Devices, ForgetInv(d), NEW m \in begins, ReceiveHello(d, m)
  PROVE  ForgetInv(d)'
<1> DEFINE s1 == OnPeerHello(HelloState(d), m.hello, NextHello(d))
<1>1. /\ UNCHANGED <<store, forgotten>>
      /\ session' = [session EXCEPT ![d] = IF AutoConfirms(d, m.from) THEN ConfirmLocally(s1) ELSE s1]
      /\ HelloAdmitted(d, m.from, m.hello[1])
  BY DEF ReceiveHello, trust
<1>2. session[d] \in Sessions /\ HelloState(d) \in Sessions
  BY DEF IInv, TypeOK, HelloState, ClearedIfTerminal, FreshSession, Sessions, States
<1>3. /\ s1.state = "AwaitingApproval" /\ s1.peerHello = m.hello
      /\ ConfirmLocally(s1).peerHello = m.hello
  BY <1>2 DEF OnPeerHello, ConfirmLocally, Sessions
<1> HIDE DEF s1
<1>4. CASE ~AutoConfirms(d, m.from)
  BY <1>1, <1>3, <1>4, ForgetKept DEF IInv, TypeOK
<1>5. CASE AutoConfirms(d, m.from)
  <2>1. session'[d] = ConfirmLocally(s1)
    BY <1>1, <1>5 DEF IInv, TypeOK
  <2>2. m.hello[1] \in PinnedKeys(d, m.from)
    BY <1>1, <1>5 DEF HelloAdmitted, AutoConfirms
  <2>3. m.hello[1] \notin forgotten[d]
    BY <2>2 DEF PinnedKeys, ForgetInv
  <2> QED
    BY <1>1, <1>3, <2>1, <2>3 DEF ForgetInv, PeerKey
<1> QED
  BY <1>4, <1>5

LEMMA ForgetNext ==
  ASSUME IInv, ForgetEverywhere, Next
  PROVE  ForgetEverywhere'
<1>1. PICK d \in Devices : BoardNext(d)
  BY DEF Next, BoardNext
<1>4. Local(d)
  BY <1>1, BoardNextStep
<1>0. TypeOK /\ \A e \in Devices : ForgetInv(e)
  BY DEF IInv, ForgetEverywhere
<1>2. ForgetInv(d)'
  <2>1. CASE \E m \in Devices : BeginPairing(d, m) \/ BeginPairingRefused(d, m)
    <3>1. /\ UNCHANGED <<store, forgotten>>
          /\ \/ session' = [session EXCEPT ![d] = BeginAsInitiator(FreshSession, NextHello(d))]
             \/ session' = [session EXCEPT ![d] = FreshSession]
      BY <2>1 DEF BeginPairing, BeginPairingRefused, history, trust, mode
    <3>2. /\ BeginAsInitiator(FreshSession, NextHello(d)).state = "AwaitingPeerHello"
          /\ FreshSession.state = "Idle"
      BY DEF BeginAsInitiator, FreshSession
    <3> QED
      BY <1>0, <3>1, <3>2, ForgetKept DEF TypeOK
  <2>2. CASE \E button \in {"confirm", "deny"} : Tap(d, button)
    BY <1>0, <2>2, ForgetKept DEF Tap, history, trust, mode
  <2>3. CASE DenyPairing(d) \/ HostCancel(d)
    <3>1. session' = [session EXCEPT ![d] = Cancel(@)] /\ UNCHANGED <<store, forgotten>>
      BY <1>0, <2>3 DEF DenyPairing, HostCancel, Denied, history, trust, mode
    <3> QED
      BY <1>0, <3>1, ForgetKept DEF Cancel, TypeOK, Sessions
  <2>4. CASE \E m \in begins : ReceiveHelloIgnored(d, m) \/ ReceiveHelloGarbled(d, m)
    <3>1. /\ UNCHANGED <<store, forgotten>>
          /\ \/ session' = [session EXCEPT ![d] = HelloState(d)]
             \/ session' = [session EXCEPT ![d] = FreshSession]
      BY <1>0, <2>4 DEF ReceiveHelloIgnored, ReceiveHelloGarbled, history, HelloState, trust, mode
    <3>2. session'[d] \in {session[d], FreshSession}
      BY <1>0, <3>1 DEF HelloState, ClearedIfTerminal, TypeOK
    <3> QED
      BY <1>0, <3>1, <3>2, ForgetKept DEF FreshSession
  <2>5. CASE \E m \in begins : ReceiveHelloNoSlot(d, m)
    <3>1. PICK m \in begins : ReceiveHelloNoSlot(d, m)
      BY <2>5
    <3> DEFINE s1 == OnPeerHello(HelloState(d), m.hello, NextHello(d))
    <3>2. session' = [session EXCEPT ![d] = Cancel(s1)] /\ UNCHANGED <<store, forgotten>>
      BY <1>0, <3>1 DEF ReceiveHelloNoSlot, history, trust, mode
    <3>3. HelloState(d) \in Sessions
      BY <1>0 DEF TypeOK, HelloState, ClearedIfTerminal, FreshSession, Sessions, States
    <3>4. Cancel(s1).state = "Cancelled"
      BY <1>0, <3>3 DEF Cancel, OnPeerHello, Sessions
    <3> HIDE DEF s1
    <3> QED
      BY <1>0, <3>2, <3>4, ForgetKept DEF TypeOK
  <2>6. CASE \E m \in confirms : ReceiveConfirmRejected(d, m)
    BY <1>0, <2>6, ForgetKept DEF ReceiveConfirmRejected, FreshSession, history, TypeOK, trust, mode
  <2>11. CASE ClockMoves(d)
    <3>1. session' = [session EXCEPT ![d] = Waiting(@)] /\ UNCHANGED <<store, forgotten>>
      BY <2>11 DEF ClockMoves, history, trust
    <3>2. session'[d].state = session[d].state /\ session'[d].peerHello = session[d].peerHello
      BY <1>0, <3>1 DEF Waiting, TypeOK, Sessions
    <3> QED BY <1>0, <3>1, <3>2 DEF ForgetInv, PeerKey
  <2>7. CASE (\E m \in cancels : ReceiveCancel(d, m)) \/ Timeout(d)
    <3>1. session' = [session EXCEPT ![d] = Cancel(@)] /\ UNCHANGED <<store, forgotten>>
      BY <1>0, <2>7 DEF ReceiveCancel, Timeout, history, trust, mode
    <3> QED
      BY <1>0, <3>1, ForgetKept DEF Cancel, TypeOK, Sessions
  <2>8. CASE Restart(d)
    <3>1. store'[d] \subseteq store[d]
      BY <1>0, <2>8, LoadFacts DEF Restart, IInv, BoardInv
    <3> QED BY <1>0, <2>8, <3>1, ForgetKept DEF Restart, Restarted, FreshSession, TypeOK
  <2>9. CASE Reflash(d)
    BY <1>0, <2>9 DEF Reflash, Restarted, FreshSession, TypeOK, ForgetInv, trust, mode
  <2>10. CASE EnterGatewayMode(d)
    <3>1. store'[d] \subseteq store[d]
      BY <1>0, <2>10, LoadFacts DEF EnterGatewayMode, IInv, BoardInv
    <3> QED BY <1>0, <2>10, <3>1, ForgetKept DEF EnterGatewayMode, FreshSession, history, TypeOK
  <2> QED
    BY <1>0, <1>1, <2>1, <2>2, <2>3, <2>4, <2>5, <2>6, <2>7, <2>8, <2>9, <2>10, <2>11,
       ForgetConfirm, ForgetForgets, ForgetHello, ForgetReceiveConfirm DEF BoardNext
<1>3. ASSUME NEW e \in Devices \ {d} PROVE ForgetInv(e)'
  <2>1. store'[e] = store[e] /\ session'[e] = session[e]
    BY <1>3, <1>4 DEF Local
  <2>2. forgotten'[e] = forgotten[e]
    <3>1. CASE ConfirmPairing(d)
      BY <1>0, <1>3, <3>1 DEF ConfirmPairing, history, TypeOK
    <3>2. CASE \E r \in store[d] : Forget(d, r)
      <4>1. PICK r \in store[d] :
              \/ forgotten' = forgotten
              \/ forgotten' = [forgotten EXCEPT ![d] = @ \cup {r.key}]
        BY <3>2 DEF Forget
      <4> QED BY <1>0, <1>3, <4>1 DEF TypeOK
    <3>3. CASE Reflash(d)
      BY <1>0, <1>3, <3>3 DEF Reflash, TypeOK
    <3>4. CASE UNCHANGED forgotten
      BY <3>4
    <3> QED
      BY <1>1, <3>1, <3>2, <3>3, <3>4
         DEF BoardNext, BeginPairing, BeginPairingRefused, Tap, DenyPairing, HostCancel, Denied,
             ReceiveHelloIgnored, ReceiveHello, ReceiveHelloNoSlot, ReceiveHelloGarbled,
             ReceiveConfirm, ReceiveConfirmRejected, ReceiveCancel, ClockMoves, Timeout, Restart,
             EnterGatewayMode, history
  <2> QED
    BY <1>0, <2>1, <2>2, ForgetKept
<1> QED
  BY <1>2, <1>3 DEF ForgetEverywhere

\* Forget is for good: the record of a peer that was forgotten between attempts
\* comes back only after a tap, for every number of boards and attempts.
THEOREM ForgetIsForGood == Spec => []ForgottenNeedsTap
<1>1. Init => ForgetEverywhere
  BY DEF Init, ForgetEverywhere, ForgetInv, FreshSession
<1>2. ForgetEverywhere /\ IInv /\ [Next]_vars => ForgetEverywhere'
  <2>1. ASSUME ForgetEverywhere, IInv, Next PROVE ForgetEverywhere'
    BY <2>1, ForgetNext
  <2>2. ASSUME ForgetEverywhere, UNCHANGED vars PROVE ForgetEverywhere'
    BY <2>2 DEF vars, history, ForgetEverywhere, ForgetInv, PeerKey, trust, mode
  <2> QED
    BY <2>1, <2>2
<1>3. ForgetEverywhere => ForgottenNeedsTap
  BY DEF ForgetEverywhere, ForgetInv, ForgottenNeedsTap
<1> QED
  BY <1>1, <1>2, <1>3, Invariant, PTL DEF Spec
=============================================================================
