----------------------- MODULE EspNowPeerTableProofs -----------------------
(***************************************************************************)
(* What the radio's peer table holds.  It never keeps an entry of an       *)
(* attempt that has ended, other than those that the switch to gateway     *)
(* mode left, and never more link keys with a record than there may be     *)
(* trust records.                                                          *)
(***************************************************************************)
EXTENDS EspNowTrustProofs, FiniteSetTheorems

\* NoOrphanEntry for one board.
NoOrphanAt(d) ==
  \A m \in registered[d] :
    m \in TrustedMacs(d) \cup stray[d] \/ (InFlight(session[d]) /\ target[d] = m)

LEMMA NoOrphanByBoard ==
  ASSUME TypeOK
  PROVE  NoOrphanEntry <=> \A d \in Devices : NoOrphanAt(d)
BY DEF TypeOK, NoOrphanEntry, NoOrphanAt

\* A board whose entries, session and records stay as they are.
LEMMA OrphanFrame ==
  ASSUME NEW e \in Devices, NoOrphanAt(e),
         session'[e] = session[e], target'[e] = target[e],
         store'[e] = store[e], registered'[e] = registered[e], stray'[e] = stray[e]
  PROVE  NoOrphanAt(e)'
BY DEF NoOrphanAt, TrustedMacs, Macs, trust, mode, board, Macs

\* An attempt that ends is safe once the entry of its peer is evicted.
LEMMA EvictedNoOrphan ==
  ASSUME TypeOK, NEW d \in Devices, NEW m \in Devices, NoOrphanAt(d),
         EvictUntrustedPeer(d, m), TrustedMacs(d) \subseteq TrustedMacs(d)', stray' = stray,
         InFlight(session[d]) => target[d] = m
  PROVE  NoOrphanAt(d)'
<1>1. CASE m \in TrustedMacs(d)
  BY <1>1 DEF EvictUntrustedPeer, peers, NoOrphanAt
<1>2. CASE m \notin TrustedMacs(d)
  <2>1. registered'[d] = registered[d] \ {m}
    BY <1>2 DEF EvictUntrustedPeer, TypeOK
  <2>2. QED
    BY <2>1 DEF NoOrphanAt
<1>3. QED
  BY <1>1, <1>2

\* finalizePairingCommit leaves an entry only for a peer that is trusted then.
LEMMA FinalizeNoOrphan ==
  ASSUME TypeOK, NEW d \in Devices, NEW m \in Devices, NEW s, NoOrphanAt(d),
         FinalizePairingCommit(d, m, s), stray' = stray, InFlight(session[d]) => target[d] = m
  PROVE  NoOrphanAt(d)'
<1> DEFINE record == [mac |-> m, key |-> PeerKey(s)]
<1>1. PICK result \in WriteResults :
        LET added == CanAdd(d, record) /\ Saved(result)
        IN  /\ IF CanAdd(d, record) THEN SaveRecords(d, store[d] \cup {record}, result)
               ELSE UNCHANGED trust
            /\ IF added \/ m \in TrustedMacs(d)
               THEN /\ session' = [session EXCEPT ![d] = s]
                    /\ UpgradeToEncryptedPeer(d, m, Transcript(s))
               ELSE /\ session' = [session EXCEPT ![d] = Cancel(s)]
                    /\ EvictUntrustedPeer(d, m)
  BY DEF FinalizePairingCommit
<1> DEFINE added == CanAdd(d, record) /\ Saved(result)
<1>2. store'[d] = IF added THEN store[d] \cup {record} ELSE store[d]
  <2>1. CASE CanAdd(d, record)
    BY <1>1, <2>1 DEF SaveRecords, TypeOK
  <2>2. CASE ~CanAdd(d, record)
    BY <1>1, <2>2 DEF trust
  <2> QED BY <2>1, <2>2
<1>3. TrustedMacs(d) \subseteq TrustedMacs(d)' /\ (added => m \in TrustedMacs(d)')
  BY <1>2 DEF TrustedMacs, Macs, trust, mode, board, Macs
<1>4. CASE added \/ m \in TrustedMacs(d)
  <2>1. UpgradeToEncryptedPeer(d, m, Transcript(s)) /\ m \in TrustedMacs(d)'
    BY <1>1, <1>3, <1>4
  <2>2. registered'[d] \in {registered[d], registered[d] \cup {m}}
    <3>1. CASE HasSlot(d, m)
      BY <2>1, <3>1 DEF UpgradeToEncryptedPeer, TypeOK
    <3>2. CASE ~HasSlot(d, m)
      BY <2>1, <3>2 DEF UpgradeToEncryptedPeer, TypeOK, peers
    <3>3. QED
      BY <3>1, <3>2
  <2>3. \A n \in registered'[d] : n \in TrustedMacs(d)' \cup stray'[d]
    BY <1>3, <2>1, <2>2 DEF NoOrphanAt
  <2>4. QED
    BY <2>3 DEF NoOrphanAt
<1>5. CASE ~(added \/ m \in TrustedMacs(d))
  <2>1. EvictUntrustedPeer(d, m)
    BY <1>1, <1>5
  <2>2. QED
    BY <1>3, <2>1, EvictedNoOrphan
<1>6. QED
  BY <1>4, <1>5

-----------------------------------------------------------------------------
(* The steps.                                                              *)

LEMMA RequestNoOrphan ==
  ASSUME IInv, NEW d \in Devices, NoOrphanAt(d),
         \/ \E m \in Devices : BeginPairing(d, m) \/ BeginPairingRefused(d, m)
         \/ \E button \in {"confirm", "deny"} : Tap(d, button)
         \/ ConfirmPairing(d)
         \/ Denied(d)
         \/ \E r \in store[d] : Forget(d, r)
  PROVE  NoOrphanAt(d)'
<1>1. /\ TypeOK /\ session[d] \in Sessions
      /\ InFlight(session[d]) => target[d] \in Devices
  BY DEF IInv, TypeOK, BoardInv, SessionInv
<1>2. CASE \E m \in Devices : BeginPairing(d, m)
  <2>1. PICK m \in Devices : BeginPairing(d, m)
    BY <1>2
  <2>2. ~InFlight(session[d])
    BY <2>1 DEF BeginPairing, ClearedIfTerminal, Terminal, InFlight, FreshSession
  <2>3. /\ registered'[d] = registered[d] \cup {m} /\ target'[d] = m
        /\ store' = store /\ stray' = stray /\ InFlight(session'[d])
    BY <1>1, <2>1 DEF BeginPairing, EnsureUnencryptedPeer, TypeOK, BeginAsInitiator,
                      FreshSession, InFlight, trust, mode
  <2>4. NoOrphanAt(d)'
    BY <2>2, <2>3 DEF NoOrphanAt, TrustedMacs, Macs
  <2>5. QED
    BY <2>4
<1>3. CASE \E m \in Devices : BeginPairingRefused(d, m)
  <2>1. ~InFlight(session[d])
    BY <1>3 DEF BeginPairingRefused, ClearedIfTerminal, Terminal, InFlight, FreshSession
  <2>2. QED
    BY <1>1, <1>3, <2>1 DEF BeginPairingRefused, NoOrphanAt, TrustedMacs, Macs, trust, mode, board, TypeOK, peers
<1>4. CASE \E button \in {"confirm", "deny"} : Tap(d, button)
  BY <1>1, <1>4 DEF Tap, NoOrphanAt, TrustedMacs, Macs, trust, mode, board, TypeOK, peers
<1>5. CASE ConfirmPairing(d) /\ session[d].state # "AwaitingApproval"
  BY <1>1, <1>5 DEF ConfirmPairing, NoOrphanAt, TrustedMacs, Macs, trust, mode, board, TypeOK, peers
<1>6. CASE ConfirmPairing(d) /\ session[d].state = "AwaitingApproval"
  <2> DEFINE s == ConfirmLocally(session[d])
  <2>1. AfterConfirm(d, s) /\ target' = target /\ target[d] \in Devices /\ stray' = stray
    BY <1>1, <1>6 DEF ConfirmPairing, InFlight, board, mode
  <2>2. CASE s.state = "Committed"
    <3>1. FinalizePairingCommit(d, target[d], s)
      BY <2>1, <2>2 DEF AfterConfirm
    <3> HIDE DEF s
    <3>2. QED
      BY <1>1, <2>1, <3>1, FinalizeNoOrphan
  <2>3. CASE s.state # "Committed"
    <3>1. session' = [session EXCEPT ![d] = s] /\ UNCHANGED <<trust, peers>>
      BY <2>1, <2>3 DEF AfterConfirm
    <3>2. InFlight(s)
      BY <1>1, <2>3 DEF ConfirmLocally, InFlight, Sessions
    <3> HIDE DEF s
    <3>3. QED
      BY <1>1, <1>6, <2>1, <3>1, <3>2 DEF NoOrphanAt, TrustedMacs, Macs, trust, mode, board, TypeOK, peers, InFlight
  <2>4. QED
    BY <2>2, <2>3
<1>7. CASE Denied(d)
  <2>1. CASE target[d] = NoPeer
    BY <1>1, <1>7, <2>1, ConstantsAssumption
       DEF Denied, NoOrphanAt, TrustedMacs, Macs, trust, mode, board, TypeOK, peers
  <2>2. CASE target[d] # NoPeer
    <3>1. target[d] \in Devices /\ EvictUntrustedPeer(d, target[d])
      BY <1>1, <1>7, <2>2 DEF Denied, TypeOK
    <3>2. TrustedMacs(d)' = TrustedMacs(d) /\ target' = target /\ stray' = stray
      BY <1>7 DEF Denied, TrustedMacs, Macs, trust, mode, board
    <3>3. NoOrphanAt(d)'
      BY <1>1, <3>1, <3>2, EvictedNoOrphan
    <3>4. QED
      BY <3>3
  <2>3. QED
    BY <2>1, <2>2
<1>8. CASE \E r \in store[d] : Forget(d, r)
  <2>1. PICK r \in store[d] : Forget(d, r)
    BY <1>8
  <2>2. session' = session /\ target' = target /\ stray' = stray
    BY <2>1 DEF Forget, board, mode
  <2>3. \/ store'[d] = store[d] \ {r} /\ registered'[d] = registered[d] \ {r.mac}
        \/ store'[d] = store[d] /\ registered'[d] = registered[d]
    <3>1. PICK result \in WriteResults :
            /\ SaveRecords(d, store[d] \ {r}, result)
            /\ IF Saved(result) THEN registered' = [registered EXCEPT ![d] = @ \ {r.mac}]
                                ELSE UNCHANGED peers
      BY <2>1 DEF Forget, peers
    <3> QED BY <1>1, <3>1 DEF SaveRecords, TypeOK, peers
  <2> QED
    BY <2>2, <2>3 DEF NoOrphanAt, TrustedMacs, Macs
<1>9. QED
  BY <1>2, <1>3, <1>4, <1>5, <1>6, <1>7, <1>8

LEMMA HelloNoOrphan ==
  ASSUME IInv, NEW d \in Devices, NoOrphanAt(d), NEW m \in begins,
         \/ ReceiveHelloIgnored(d, m)
         \/ ReceiveHello(d, m)
         \/ ReceiveHelloNoSlot(d, m)
         \/ ReceiveHelloGarbled(d, m)
  PROVE  NoOrphanAt(d)'
<1>1. /\ TypeOK /\ session[d] \in Sessions /\ m.from \in Devices
      /\ HelloState(d).state \in {"Idle", "AwaitingPeerHello"} =>
           (InFlight(session[d]) <=> HelloState(d).state = "AwaitingPeerHello")
  BY DEF IInv, TypeOK, BeginMessages, HelloState, ClearedIfTerminal, Terminal, FreshSession, InFlight
<1>2. CASE ReceiveHelloIgnored(d, m)
  <2>1. InFlight(session[d]) => HelloState(d) = session[d]
    BY DEF HelloState, ClearedIfTerminal, Terminal, InFlight
  <2>2. /\ session' = [session EXCEPT ![d] = HelloState(d)]
        /\ UNCHANGED <<target, store, stray, registered>>
    BY <1>2 DEF ReceiveHelloIgnored, peers, trust, board, mode
  <2>3. QED
    BY <1>1, <2>1, <2>2 DEF NoOrphanAt, TrustedMacs, Macs, trust, mode, board, TypeOK
<1>3. CASE ReceiveHello(d, m)
  <2>1. /\ InFlight(session[d]) => target[d] = m.from
        /\ EnsureUnencryptedPeer(d, m.from)
        /\ target' = [target EXCEPT ![d] = m.from]
        /\ store' = store /\ stray' = stray
    BY <1>1, <1>3 DEF ReceiveHello, HelloAdmitted, trust, mode
  <2>2. PICK s : session' = [session EXCEPT ![d] = s] /\ InFlight(s)
    <3> DEFINE s1 == OnPeerHello(HelloState(d), m.hello, NextHello(d))
    <3>1. HelloState(d) \in Sessions
      BY <1>1, SessionOps, HelloType DEF HelloState, ClearedIfTerminal, FreshSession, Sessions, States, NoHello
    <3>2. s1.state = "AwaitingApproval" /\ ~s1.peerConfirmed
      <4>1. ~HelloState(d).peerConfirmed
        <5>1. HelloState(d).state \in {"Idle", "AwaitingPeerHello"}
          BY <1>3 DEF ReceiveHello
        <5>2. SessionInv(d)
          BY DEF IInv, BoardInv
        <5>3. QED
          BY <5>1, <5>2 DEF HelloState, ClearedIfTerminal, FreshSession, SessionInv
      <4>2. QED
        BY <3>1, <4>1 DEF OnPeerHello, Sessions
    <3>3. InFlight(s1) /\ InFlight(ConfirmLocally(s1))
      <4> HIDE DEF s1
      <4>1. s1 \in Sessions
        BY <1>1, <3>1, SessionOps, HelloType DEF s1, TypeOK, BeginMessages
      <4>2. QED
        BY <3>2, <4>1 DEF InFlight, ConfirmLocally, Sessions
    <3>4. session' \in {[session EXCEPT ![d] = s1], [session EXCEPT ![d] = ConfirmLocally(s1)]}
      BY <1>3 DEF ReceiveHello
    <3>5. QED
      BY <3>3, <3>4
  <2>3. /\ registered'[d] = registered[d] \cup {m.from}
        /\ \A e \in Devices \ {d} : registered'[e] = registered[e]
    BY <1>1, <2>1 DEF EnsureUnencryptedPeer, TypeOK
  <2>4. NoOrphanAt(d)'
    BY <1>1, <2>1, <2>2, <2>3 DEF NoOrphanAt, TrustedMacs, Macs, TypeOK
  <2>5. QED
    BY <2>4
\* Without a slot the peer of an attempt has no entry that could stay behind.
<1>4. CASE ReceiveHelloNoSlot(d, m)
  <2>1. /\ InFlight(session[d]) => target[d] = m.from
        /\ m.from \notin registered[d]
        /\ UNCHANGED <<target, store, stray, registered>>
    BY <1>1, <1>4 DEF ReceiveHelloNoSlot, HelloAdmitted, HasSlot, peers, trust, mode
  <2>2. \A n \in registered[d] : n \in TrustedMacs(d) \cup stray[d]
    BY <2>1 DEF NoOrphanAt
  <2>3. PICK s : session' = [session EXCEPT ![d] = s]
    BY <1>4 DEF ReceiveHelloNoSlot
  <2>4. QED
    BY <1>1, <2>1, <2>2, <2>3 DEF NoOrphanAt, TrustedMacs, Macs, trust, mode, board, TypeOK
<1>5. CASE ReceiveHelloGarbled(d, m)
  <2>1. /\ InFlight(session[d]) => target[d] = m.from
        /\ EvictUntrustedPeer(d, m.from)
        /\ UNCHANGED <<target, store, stray>>
    BY <1>1, <1>5 DEF ReceiveHelloGarbled, trust, board, mode
  <2>2. PICK s : session' = [session EXCEPT ![d] = s]
    BY <1>5 DEF ReceiveHelloGarbled
  <2>3. NoOrphanAt(d)'
    BY <1>1, <2>1, EvictedNoOrphan DEF TrustedMacs, Macs, trust, mode, board
  <2>4. QED
    BY <2>3
<1>6. QED
  BY <1>2, <1>3, <1>4, <1>5

LEMMA MessageNoOrphan ==
  ASSUME IInv, NEW d \in Devices, NoOrphanAt(d),
         \/ \E m \in confirms : ReceiveConfirm(d, m) \/ ReceiveConfirmRejected(d, m)
         \/ \E m \in cancels : ReceiveCancel(d, m)
         \/ ClockMoves(d)
         \/ Timeout(d)
  PROVE  NoOrphanAt(d)'
<1>1. /\ TypeOK /\ session[d] \in Sessions
      /\ InFlight(session[d]) => target[d] \in Devices
  BY DEF IInv, TypeOK, BoardInv, SessionInv
<1>2. CASE \E m \in confirms : ReceiveConfirm(d, m)
  <2> DEFINE s == OnPeerConfirm(session[d])
  <2>1. AfterConfirm(d, s) /\ target' = target /\ target[d] \in Devices /\ stray' = stray
    BY <1>1, <1>2 DEF ReceiveConfirm, TypeOK, ConfirmMessages, board, mode
  <2>2. CASE s.state = "Committed"
    <3>1. FinalizePairingCommit(d, target[d], s)
      BY <2>1, <2>2 DEF AfterConfirm
    <3> HIDE DEF s
    <3>2. QED
      BY <1>1, <2>1, <3>1, FinalizeNoOrphan
  <2>3. CASE s.state # "Committed"
    <3>1. session' = [session EXCEPT ![d] = s] /\ UNCHANGED <<trust, peers>>
      BY <2>1, <2>3 DEF AfterConfirm
    <3>2. InFlight(s)
      BY <1>1, <1>2, <2>3 DEF ReceiveConfirm, OnPeerConfirm, InFlight, Sessions
    <3> HIDE DEF s
    <3>3. QED
      BY <1>1, <2>1, <3>1, <3>2 DEF NoOrphanAt, TrustedMacs, Macs, trust, mode, board, TypeOK, peers
  <2>4. QED
    BY <2>2, <2>3
<1>5. CASE ClockMoves(d)
  <2>1. session' = [session EXCEPT ![d] = Waiting(@)] /\ UNCHANGED <<target, store, stray, registered>>
    BY <1>5 DEF ClockMoves, trust, board, mode, peers
  <2>2. InFlight(session[d]) => InFlight(session'[d])
    BY <1>1, <2>1 DEF Waiting, InFlight, TypeOK, Sessions
  <2> QED BY <2>1, <2>2 DEF NoOrphanAt, TrustedMacs, Macs
\* The three that are left end the attempt and evict its peer.
<1>3. CASE \/ \E m \in confirms : ReceiveConfirmRejected(d, m)
           \/ \E m \in cancels : ReceiveCancel(d, m)
           \/ Timeout(d)
  <2>1. /\ target[d] \in Devices /\ EvictUntrustedPeer(d, target[d])
        /\ UNCHANGED <<target, store, stray>>
    BY <1>1, <1>3 DEF ReceiveConfirmRejected, ReceiveCancel, Timeout, TimedOut, TypeOK, trust, board, mode,
                      ConfirmMessages, CancelMessagesAll
  <2>2. PICK s : session' = [session EXCEPT ![d] = s]
    <3>1. CASE \E m \in confirms : ReceiveConfirmRejected(d, m)
      BY <3>1 DEF ReceiveConfirmRejected
    <3>2. CASE (\E m \in cancels : ReceiveCancel(d, m)) \/ Timeout(d)
      BY <3>2 DEF ReceiveCancel, Timeout
    <3>3. QED
      BY <1>3, <3>1, <3>2
  <2>3. NoOrphanAt(d)'
    BY <1>1, <2>1, EvictedNoOrphan DEF TrustedMacs, Macs, trust, mode, board
  <2>4. QED
    BY <2>3
<1>4. QED
  BY <1>2, <1>3, <1>5

LEMMA RestartNoOrphan ==
  ASSUME IInv, NEW d \in Devices, Restart(d) \/ Reflash(d)
  PROVE  NoOrphanAt(d)'
BY DEF IInv, TypeOK, Restart, Reflash, Restarted, NoOrphanAt

\* The switch to gateway mode counts what it leaves behind.
LEMMA SwitchNoOrphan ==
  ASSUME IInv, NEW d \in Devices, EnterGatewayMode(d)
  PROVE  NoOrphanAt(d)'
<1>1. /\ registered' = registered /\ store'[d] = file[d]
      /\ stray'[d] = registered[d] \ Macs(file[d])
  BY DEF IInv, TypeOK, EnterGatewayMode, LoadRecords, peers
<1> QED BY <1>1 DEF NoOrphanAt, TrustedMacs

\* For any size of the table: every entry belongs to a trusted peer or to the
\* attempt in flight, or was left by the switch to gateway mode.
THEOREM NoOrphans == Spec => []NoOrphanEntry
<1>1. Init => NoOrphanEntry
  BY DEF Init, NoOrphanEntry
<1>2. ASSUME IInv, NoOrphanEntry, Next PROVE NoOrphanEntry'
  <2>1. TypeOK /\ \A d \in Devices : NoOrphanAt(d)
    BY <1>2, NoOrphanByBoard DEF IInv
  <2>2. PICK d \in Devices : BoardNext(d)
    BY <1>2 DEF Next, BoardNext
  <2>3. TypeOK' /\ Local(d)
    BY <1>2, <2>2, BoardNextStep DEF IInv
  <2>4. NoOrphanAt(d)'
    BY <1>2, <2>1, <2>2, RequestNoOrphan, HelloNoOrphan, MessageNoOrphan, RestartNoOrphan,
       SwitchNoOrphan DEF BoardNext, DenyPairing, HostCancel
  <2>5. ASSUME NEW e \in Devices PROVE NoOrphanAt(e)'
    BY <2>1, <2>3, <2>4, OrphanFrame DEF Local
  <2> QED
    BY <2>3, <2>5 DEF TypeOK, NoOrphanEntry, NoOrphanAt
<1>3. ASSUME NoOrphanEntry, UNCHANGED vars PROVE NoOrphanEntry'
  BY <1>3 DEF vars, peers, board, mode, trust, NoOrphanEntry, TrustedMacs, Macs, InFlight
<1>4. IInv /\ NoOrphanEntry /\ [Next]_vars => NoOrphanEntry'
  BY <1>2, <1>3
<1>5. QED
  BY <1>1, <1>4, Invariant, PTL DEF Spec
-----------------------------------------------------------------------------
(***************************************************************************)
(* A board never has more link keys with a record than it may keep trust   *)
(* records: kMaxRecords is the radio's limit of encrypted peers.           *)
(***************************************************************************)

\* TrustStore never grows beyond its array.
StoreBounded ==
  \A d \in Devices : IsFiniteSet(store[d]) /\ Cardinality(store[d]) <= MaxRecords

\* What one handler of board d may do to its records.
RecordsStep(d) ==
  \/ store'[d] = store[d]
  \/ store'[d] = {}
  \/ \E r \in store[d] : store'[d] = store[d] \ {r}
  \/ \E r \in Records : CanAdd(d, r) /\ store'[d] = store[d] \cup {r}

LEMMA FinalizeRecords ==
  ASSUME TypeOK, NEW d \in Devices, NEW m \in Devices, NEW s, PeerKey(s) \in Keys,
         FinalizePairingCommit(d, m, s)
  PROVE  RecordsStep(d)
<1> DEFINE record == [mac |-> m, key |-> PeerKey(s)]
<1>1. PICK result \in WriteResults :
        IF CanAdd(d, record) THEN SaveRecords(d, store[d] \cup {record}, result)
        ELSE UNCHANGED trust
  BY DEF FinalizePairingCommit
<1>2. record \in Records
  BY DEF Records
<1>3. CASE CanAdd(d, record)
  <2>1. store'[d] \in {store[d], store[d] \cup {record}}
    BY <1>1, <1>3 DEF SaveRecords, TypeOK
  <2> QED BY <1>2, <1>3, <2>1 DEF RecordsStep
<1>4. CASE ~CanAdd(d, record)
  BY <1>1, <1>4 DEF RecordsStep, trust
<1>5. QED
  BY <1>3, <1>4

LEMMA RecordsKept ==
  ASSUME NEW d \in Devices, UNCHANGED store
  PROVE  RecordsStep(d)
BY DEF RecordsStep

\* The three calls of finalizePairingCommit are made with a session that has
\* its peer's hello.
LEMMA ConfirmRecords ==
  ASSUME IInv, NEW d \in Devices, NEW s,
         AfterConfirm(d, s), session[d].state \in {"AwaitingApproval", "AwaitingPeerConfirm"},
         s.peerHello = session[d].peerHello
  PROVE  RecordsStep(d)
<1>1. PeerKey(s) \in Keys /\ target[d] \in Devices
  BY DEF IInv, BoardInv, SessionInv, Derived, InFlight, PeerKey, Hellos
<1>2. CASE s.state = "Committed"
  BY <1>1, <1>2, FinalizeRecords DEF AfterConfirm, IInv
<1>3. CASE s.state # "Committed"
  BY <1>3, RecordsKept DEF AfterConfirm, trust
<1>4. QED
  BY <1>2, <1>3

LEMMA NextRecords ==
  ASSUME IInv, NEW d \in Devices, BoardNext(d)
  PROVE  RecordsStep(d)
<1>2. CASE ConfirmPairing(d)
  <2>1. CASE session[d].state = "AwaitingApproval"
    <3> DEFINE s == ConfirmLocally(session[d])
    <3>1. s.peerHello = session[d].peerHello
      BY DEF ConfirmLocally, IInv, TypeOK, Sessions
    <3>2. AfterConfirm(d, s)
      BY <1>2, <2>1 DEF ConfirmPairing
    <3> HIDE DEF s
    <3>3. QED
      BY <2>1, <3>1, <3>2, ConfirmRecords
  <2>2. CASE session[d].state # "AwaitingApproval"
    BY <1>2, <2>2, RecordsKept DEF ConfirmPairing, trust
  <2>3. QED
    BY <2>1, <2>2
<1>3. CASE \E r \in store[d] : Forget(d, r)
  <2>1. PICK r \in store[d], result \in WriteResults : SaveRecords(d, store[d] \ {r}, result)
    BY <1>3 DEF Forget
  <2>2. store'[d] \in {store[d], store[d] \ {r}}
    BY <2>1 DEF SaveRecords, IInv, TypeOK
  <2> QED BY <2>2 DEF RecordsStep
<1>4. CASE \E m \in confirms : ReceiveConfirm(d, m)
  <2>1. PICK m \in confirms : ReceiveConfirm(d, m)
    BY <1>4
  <2> DEFINE s == OnPeerConfirm(session[d])
  <2>2. s.peerHello = session[d].peerHello
    BY DEF OnPeerConfirm, IInv, TypeOK, Sessions
  <2>3. AfterConfirm(d, s) /\ session[d].state \in {"AwaitingApproval", "AwaitingPeerConfirm"}
    BY <2>1 DEF ReceiveConfirm
  <2> HIDE DEF s
  <2>4. QED
    BY <2>2, <2>3, ConfirmRecords
<1>5. CASE Reflash(d)
  BY <1>5 DEF Reflash, RecordsStep, IInv, TypeOK
<1>6. CASE LoadRecords(d)
  <2>1. store'[d] = file[d]
    BY <1>6 DEF LoadRecords, IInv, TypeOK
  <2>2. file[d] = store[d] \/ file[d] = {}
    BY DEF IInv, BoardInv, StoreInv
  <2> QED BY <2>1, <2>2 DEF RecordsStep
<1>7. CASE UNCHANGED trust
  BY <1>7, RecordsKept DEF trust
<1> QED
  BY <1>2, <1>3, <1>4, <1>5, <1>6, <1>7
     DEF BoardNext, BeginPairing, BeginPairingRefused, Tap, DenyPairing, HostCancel, Denied,
         ReceiveHelloIgnored, ReceiveHello, ReceiveHelloNoSlot, ReceiveHelloGarbled,
         ReceiveConfirmRejected, ReceiveCancel, ClockMoves, Timeout, Restart, EnterGatewayMode

LEMMA StoreBoundedStep ==
  ASSUME StoreBounded, NEW d \in Devices, RecordsStep(d),
         \A e \in Devices \ {d} : store'[e] = store[e]
  PROVE  StoreBounded'
<1>1. IsFiniteSet(store[d]) /\ Cardinality(store[d]) \in Nat
      /\ Cardinality(store[d]) <= MaxRecords /\ MaxRecords \in Nat
  BY ConstantsAssumption, FS_CardinalityType DEF StoreBounded, ConstantsAssumption
<1>2. IsFiniteSet(store'[d]) /\ Cardinality(store'[d]) <= MaxRecords
  <2>1. CASE store'[d] = store[d]
    BY <1>1, <2>1
  <2>2. CASE store'[d] = {}
    BY <1>1, <2>2, FS_EmptySet, ConstantsAssumption DEF ConstantsAssumption
  <2>3. CASE \E r \in store[d] : store'[d] = store[d] \ {r}
    <3>1. PICK r \in store[d] : store'[d] = store[d] \ {r}
      BY <2>3
    <3>2. /\ IsFiniteSet(store[d] \ {r})
          /\ Cardinality(store[d] \ {r}) = Cardinality(store[d]) - 1
      BY <1>1, FS_RemoveElement
    <3> QED BY <1>1, <3>1, <3>2
  <2>4. CASE \E r \in Records : CanAdd(d, r) /\ store'[d] = store[d] \cup {r}
    <3>1. PICK r \in Records : CanAdd(d, r) /\ store'[d] = store[d] \cup {r}
      BY <2>4
    <3>2. /\ IsFiniteSet(store[d] \cup {r})
          /\ Cardinality(store[d] \cup {r}) \in {Cardinality(store[d]), Cardinality(store[d]) + 1}
      BY <1>1, FS_AddElement
    <3>3. Cardinality(store[d]) < MaxRecords
      BY <3>1 DEF CanAdd
    <3>4. QED
      BY <1>1, <3>1, <3>2, <3>3
  <2>5. QED
    BY <2>1, <2>2, <2>3, <2>4 DEF RecordsStep
<1>3. QED
  BY <1>2 DEF StoreBounded, RecordsStep

LEMMA StoreIsBounded == Spec => []StoreBounded
<1>1. Init => StoreBounded
  BY ConstantsAssumption, FS_EmptySet DEF Init, StoreBounded, ConstantsAssumption
<1>2. StoreBounded /\ IInv /\ [Next]_vars => StoreBounded'
  <2>1. ASSUME StoreBounded, IInv, Next PROVE StoreBounded'
    <3>1. PICK d \in Devices : BoardNext(d)
      BY <2>1 DEF Next, BoardNext
    <3>2. RecordsStep(d) /\ Local(d)
      BY <2>1, <3>1, NextRecords, BoardNextStep
    <3> QED BY <2>1, <3>2, StoreBoundedStep DEF Local
  <2>2. ASSUME StoreBounded, UNCHANGED vars PROVE StoreBounded'
    BY <2>2 DEF StoreBounded, vars, trust
  <2>3. QED
    BY <2>1, <2>2
<1>3. QED
  BY <1>1, <1>2, Invariant, PTL DEF Spec

\* For every number of boards and records: every encrypted entry has a record of
\* its own (LinkInv), unless the switch to gateway mode lost it, and
\* TrustStore::add stops at the limit.
THEOREM WithinLimit == Spec => []EncryptedWithinLimit
<1>1. ASSUME IInv, StoreBounded, NEW d \in Devices
      PROVE  Cardinality({m \in Devices : Encrypted(d, m) /\ m \notin stray[d]}) <= MaxRecords
  <2> DEFINE encrypted == {m \in Devices : Encrypted(d, m) /\ m \notin stray[d]}
             trusted == {r.mac : r \in store[d]}
  <2>1. encrypted \subseteq trusted
    <3>1. ASSUME NEW m \in Devices, Encrypted(d, m), m \notin stray[d] PROVE m \in trusted
      <4>1. PICK theirs \in lmk[d][m] : [mac |-> m, key |-> theirs[1]] \in store[d]
        BY <1>1, <3>1 DEF IInv, BoardInv, LinkInv
      <4>2. QED
        BY <4>1
    <3>2. QED
      BY <3>1
  <2>2. /\ IsFiniteSet(store[d]) /\ Cardinality(store[d]) \in Nat
        /\ Cardinality(store[d]) <= MaxRecords /\ MaxRecords \in Nat
    BY <1>1, ConstantsAssumption, FS_CardinalityType DEF StoreBounded, ConstantsAssumption
  <2>3. IsFiniteSet(trusted) /\ Cardinality(trusted) <= Cardinality(store[d])
    <3> DEFINE mac == [r \in store[d] |-> r.mac]
    <3>1. mac \in Surjection(store[d], trusted)
      BY DEF Surjection
    <3>2. QED
      BY <2>2, <3>1, FS_Surjection
  <2>4. /\ IsFiniteSet(encrypted) /\ Cardinality(encrypted) <= Cardinality(trusted)
        /\ Cardinality(encrypted) \in Nat /\ Cardinality(trusted) \in Nat
    BY <2>1, <2>3, FS_Subset, FS_CardinalityType
  <2> HIDE DEF encrypted, trusted
  <2>5. Cardinality(encrypted) <= MaxRecords
    BY <2>2, <2>3, <2>4
  <2>6. QED
    BY <2>5 DEF encrypted
<1>2. IInv /\ StoreBounded => EncryptedWithinLimit
  BY <1>1 DEF EncryptedWithinLimit
<1>3. QED
  BY <1>2, Invariant, StoreIsBounded, PTL
=============================================================================
