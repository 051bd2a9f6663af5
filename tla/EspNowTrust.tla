----------------------------- MODULE EspNowTrust -----------------------------
(***************************************************************************)
(* Secure pairing between devices on one ESP-NOW channel: the handlers of  *)
(* EspNowEndpoint (a display) and GatewayRelay (a display switched to      *)
(* gateway mode), whose pairing code is the same line for line.  Each      *)
(* device has one pairing session, one trust store and one ESP-NOW peer    *)
(* table, and its main loop runs one handler at a time.                    *)
(*                                                                         *)
(* The radio may lose, repeat, delay and reorder a message: a message once *)
(* sent stays in `begins`, `confirms` or `cancels` and may be received     *)
(* never, once or often.  A frame sent through an encrypted peer entry is  *)
(* readable only where the receiver's entry for the sender holds the same  *)
(* link master key.                                                        *)
(***************************************************************************)
EXTENDS Naturals, FiniteSets, TrustPairingSession

CONSTANTS
  Devices,        \* the boards; a board stands for its MAC address
  NoPeer,         \* pairingTargetMac_ before any attempt
  MaxHellos,      \* bound: hellos each board builds in a behaviour
  MaxIdentities,  \* bound: identities each board goes through
  MaxRecords,     \* TrustStore::kMaxRecords
  MaxPeers,       \* slots of each radio's peer table for unicast peers
  GatewayBoards,  \* boards that may be switched to gateway mode
  Window,         \* clock steps of the pairing window
  WriteResults    \* results a write of trust.json may have

ASSUME ConstantsAssumption ==
  /\ NoPeer \notin Devices
  /\ MaxHellos \in [Devices -> Nat]
  /\ MaxIdentities \in [Devices -> Nat]
  /\ MaxRecords \in Nat
  /\ MaxPeers \in [Devices -> Nat]
  /\ GatewayBoards \subseteq Devices
  /\ Window \in Nat
  /\ WriteResults \subseteq {"refused", "empty", "cut", "whole"}

VARIABLES
  identity,    \* generation of the board's static key
  helloCount,  \* hellos built so far: each has a fresh ephemeral and nonce
  session,     \* trustPairing_
  target,      \* pairingTargetMac_
  store,       \* trust records in memory
  file,        \* trust records in trust.json, {} when it cannot be read
  registered,  \* MACs in the radio's peer table
  lmk,         \* key of an encrypted entry, {} for a plain one
  gateway,     \* GatewayRelay owns the radio until the next restart
  stray,       \* auxiliary: entries the switch to gateway mode left without a record
  tap,         \* pending Confirm/Deny flag of the Trust screen
  begins, confirms, cancels,   \* trust.pair.* messages on the air
  signed,      \* auxiliary: <<key, transcript>> signed by confirmLocally
  tapped,      \* auxiliary: peer keys a human confirmed on this board
  forgotten    \* auxiliary: keys forgotten between attempts, not confirmed by hand since

air     == <<begins, confirms, cancels>>
peers   == <<registered, lmk>>
trust   == <<store, file>>
history == <<signed, tapped, forgotten>>
mode    == <<gateway, stray>>
board   == <<identity, helloCount, mode>>
vars == <<board, session, target, trust, peers, tap, air, history>>
-----------------------------------------------------------------------------
Key(d) == <<d, identity[d]>>
Keys == Devices \X (Nat \ {0})
Hellos == Keys \X (Nat \ {0})
Transcripts == SUBSET Hellos   \* of two hellos each
Records == [mac: Devices, key: Keys]

\* buildTrustHello: a fresh ephemeral key and nonce under the static key.
StaleHello(d) == <<Key(d), helloCount[d]>>
NextHello(d) == <<Key(d), helloCount[d] + 1>>

\* The key a session would pin: the static key its peer's hello carries.
PeerKey(s) == s.peerHello[1]

Macs(records) == {r.mac : r \in records}
TrustedMacs(d) == Macs(store[d])
PinnedKeys(d, m) == {r.key : r \in {q \in store[d] : q.mac = m}}

NoTap == "none"

Init ==
  /\ identity = [d \in Devices |-> 1]
  /\ helloCount = [d \in Devices |-> 0]
  /\ session = [d \in Devices |-> FreshSession]
  /\ target = [d \in Devices |-> NoPeer]
  /\ store = [d \in Devices |-> {}]
  /\ file = [d \in Devices |-> {}]
  /\ registered = [d \in Devices |-> {}]
  /\ lmk = [d \in Devices |-> [m \in Devices |-> {}]]
  /\ gateway = [d \in Devices |-> FALSE]
  /\ stray = [d \in Devices |-> {}]
  /\ tap = [d \in Devices |-> NoTap]
  /\ begins = {} /\ confirms = {} /\ cancels = {}
  /\ signed = {}
  /\ tapped = [d \in Devices |-> {}]
  /\ forgotten = [d \in Devices |-> {}]
-----------------------------------------------------------------------------
(* The peer table.                                                         *)

HasSlot(d, m) == m \in registered[d] \/ Cardinality(registered[d]) < MaxPeers[d]

ReusePeerEntry(d, m) ==
  /\ registered' = [registered EXCEPT ![d] = @ \cup {m}]
  /\ UNCHANGED lmk

\* ensureUnencryptedPeer, when the radio has a slot: an encrypted entry is
\* deleted and added again in the clear.
EnsureUnencryptedPeer(d, m) ==
  /\ registered' = [registered EXCEPT ![d] = @ \cup {m}]
  /\ lmk' = [lmk EXCEPT ![d][m] = {}]

LeavePeerEntry(d, m) == UNCHANGED peers

\* evictUntrustedPeer: the entry of a trusted MAC is left as it is.
EvictUntrustedPeer(d, m) ==
  IF m \in TrustedMacs(d)
  THEN UNCHANGED peers
  ELSE /\ registered' = [registered EXCEPT ![d] = @ \ {m}]
       /\ lmk' = [lmk EXCEPT ![d][m] = {}]

\* upgradeToEncryptedPeer: delete, then add with the key; the caller ignores
\* a failure to add.
UpgradeToEncryptedPeer(d, m, key) ==
  IF HasSlot(d, m)
  THEN /\ registered' = [registered EXCEPT ![d] = @ \cup {m}]
       /\ lmk' = [lmk EXCEPT ![d][m] = key]
  ELSE UNCHANGED peers

\* esp_now_send refuses a MAC without an entry; otherwise the frame goes out
\* under the entry's key.
SendConfirm(d, m, s) ==
  confirms' = IF m \in registered[d]
              THEN confirms \cup {[from |-> d, to |-> m, lmk |-> lmk[d][m],
                                   signer |-> s.ourHello[1], over |-> Transcript(s)]}
              ELSE confirms

CancelMessages(d, m) ==
  IF m \in registered[d] THEN {[from |-> d, to |-> m, lmk |-> lmk[d][m]]} ELSE {}

\* verify(): the peer of session s signed the transcript s derived itself.
SignedByPeerOnly(s, m) == m.signer = PeerKey(s)
GoodSignature(s, m) == m.signer = PeerKey(s) /\ m.over = Transcript(s)

\* What the radio of d passes up of a frame sent under message key m.lmk.
Receivable(d, m) == m.to = d /\ (m.lmk = {} \/ m.lmk = lmk[d][m.from])
-----------------------------------------------------------------------------
(* TrustStore::add refuses a full store and a key that is in it already.   *)

CanAddOneMore(d, record) ==
  /\ Cardinality(store[d]) <= MaxRecords
  /\ \A r \in store[d] : r.key # record.key

CanAdd(d, record) ==
  /\ Cardinality(store[d]) < MaxRecords
  /\ \A r \in store[d] : r.key # record.key

\* saveRecords truncates trust.json before it writes.  It tells of a failure
\* when the file did not open or took no byte at all, and its callers then undo
\* the change in memory; a list cut short counts as saved.
Saved(result) == result \in {"cut", "whole"}

SaveRecords(d, new, result) ==
  /\ store' = IF Saved(result) THEN [store EXCEPT ![d] = new] ELSE store
  /\ file' = IF result = "refused" THEN file
             ELSE [file EXCEPT ![d] = IF result = "whole" THEN new ELSE {}]

(* finalizePairingCommit, called with the session that reached Committed.  *)

FinalizePairingCommit(d, m, s) ==
  \E result \in WriteResults :
    LET record == [mac |-> m, key |-> PeerKey(s)]
        alreadyTrusted == m \in TrustedMacs(d)
        added == CanAdd(d, record) /\ Saved(result)
    IN  /\ IF CanAdd(d, record) THEN SaveRecords(d, store[d] \cup {record}, result)
           ELSE UNCHANGED trust
        /\ IF added \/ alreadyTrusted
           THEN /\ session' = [session EXCEPT ![d] = s]
                /\ UpgradeToEncryptedPeer(d, m, Transcript(s))
                /\ UNCHANGED cancels
           ELSE /\ session' = [session EXCEPT ![d] = Cancel(s)]
                /\ cancels' = cancels \cup CancelMessages(d, m)
                /\ EvictUntrustedPeer(d, m)

\* The part of confirmPairing after confirmLocally succeeded.
AfterConfirm(d, s) ==
  IF s.state = "Committed"
  THEN FinalizePairingCommit(d, target[d], s)
  ELSE /\ session' = [session EXCEPT ![d] = s]
       /\ UNCHANGED <<trust, peers, cancels>>
-----------------------------------------------------------------------------
(* Requests of the Trust screen and of the USB host.                       *)

\* beginPairing.  The slot for the peer is taken before the hello goes out.
BeginPairing(d, m) ==
  /\ m # d
  /\ ClearedIfTerminal(session[d]).state = "Idle"
  /\ HasSlot(d, m)
  /\ helloCount[d] < MaxHellos[d]
  /\ EnsureUnencryptedPeer(d, m)
  /\ session' = [session EXCEPT ![d] = BeginAsInitiator(FreshSession, NextHello(d))]
  /\ helloCount' = [helloCount EXCEPT ![d] = @ + 1]
  /\ target' = [target EXCEPT ![d] = m]
  /\ begins' = begins \cup {[from |-> d, to |-> m, hello |-> NextHello(d)]}
  /\ UNCHANGED <<identity, mode, trust, tap, confirms, cancels, history>>

\* beginPairing without a free slot: the old result is gone all the same.
BeginPairingRefused(d, m) ==
  /\ m # d
  /\ ClearedIfTerminal(session[d]).state = "Idle"
  /\ ~HasSlot(d, m)
  /\ session' = [session EXCEPT ![d] = FreshSession]
  /\ UNCHANGED <<board, target, trust, peers, tap, air, history>>

\* A touch on the overlay, which shows only while a local tap is outstanding.
\* The flag carries no attempt.
Tap(d, button) ==
  /\ tap[d] = NoTap
  /\ session[d].state = "AwaitingApproval"
  /\ tap' = [tap EXCEPT ![d] = button]
  /\ UNCHANGED <<board, session, target, trust, peers, air, history>>

\* consumeTrustConfirmRequest and confirmPairing, on the next loop iteration.
ConfirmPairing(d) ==
  /\ tap[d] = "confirm"
  /\ tap' = [tap EXCEPT ![d] = NoTap]
  /\ IF session[d].state = "AwaitingApproval"
     THEN LET s == ConfirmLocally(session[d])
          IN  /\ SendConfirm(d, target[d], s)
              /\ AfterConfirm(d, s)
              /\ signed' = signed \cup {<<s.ourHello[1], Transcript(s)>>}
              /\ tapped' = [tapped EXCEPT ![d] = @ \cup {PeerKey(s)}]
              /\ forgotten' = [forgotten EXCEPT ![d] = @ \ {PeerKey(s)}]
     ELSE UNCHANGED <<session, trust, peers, confirms, cancels, history>>
  /\ UNCHANGED <<board, target, begins>>

\* denyPairing, whatever the state is by the time it runs.
Denied(d) ==
  /\ session' = [session EXCEPT ![d] = Cancel(@)]
  /\ cancels' = IF ShouldSendCancel(session[d]) /\ target[d] # NoPeer
                THEN cancels \cup CancelMessages(d, target[d]) ELSE cancels
  /\ IF target[d] = NoPeer THEN UNCHANGED peers ELSE EvictUntrustedPeer(d, target[d])
  /\ UNCHANGED <<board, target, trust, begins, confirms, history>>

DenyPairing(d) ==
  /\ tap[d] = "deny"
  /\ tap' = [tap EXCEPT ![d] = NoTap]
  /\ Denied(d)

\* trust.pair.cancel of the USB host.
HostCancel(d) ==
  /\ gateway[d]
  /\ InFlight(session[d])
  /\ Denied(d)
  /\ UNCHANGED tap

\* forgetByFingerprint: record and peer entry go, the session does not.  With
\* the list not written the record comes back, and the entry stays.
Forget(d, r) ==
  /\ r \in store[d]
  /\ \E result \in WriteResults :
       /\ SaveRecords(d, store[d] \ {r}, result)
       /\ IF Saved(result)
          THEN /\ registered' = [registered EXCEPT ![d] = @ \ {r.mac}]
               /\ lmk' = [lmk EXCEPT ![d][r.mac] = {}]
               /\ forgotten' = IF InFlight(session[d]) /\ target[d] = r.mac THEN forgotten
                               ELSE [forgotten EXCEPT ![d] = @ \cup {r.key}]
          ELSE UNCHANGED <<peers, forgotten>>
  /\ UNCHANGED <<board, session, target, tap, air, signed, tapped>>
-----------------------------------------------------------------------------
(* Messages.                                                               *)

\* The state trust.pair.begin is handled in, and whether it gets past the
\* checks made before onPeerHello.
HelloState(d) == ClearedIfTerminal(session[d])

HelloAdmittedUnpinned(d, from, key) ==
  HelloState(d).state = "AwaitingPeerHello" => target[d] = from

HelloAdmitted(d, from, key) ==
  /\ HelloState(d).state = "AwaitingPeerHello" => target[d] = from
  /\ from \in TrustedMacs(d) => key \in PinnedKeys(d, from)

\* trust.pair.begin turned away: another attempt is waiting for its own peer,
\* or the key is not the pinned one.  A lingering result is cleared before.
ReceiveHelloIgnored(d, m) ==
  /\ m.to = d
  /\ ~HelloAdmitted(d, m.from, m.hello[1])
  /\ session' = [session EXCEPT ![d] = HelloState(d)]
  /\ UNCHANGED <<board, target, trust, peers, tap, air, history>>

\* A peer that is trusted already is confirmed without a tap.  In the
\* mutants so is one that answers, or one that was trusted once.
AutoConfirmsReplies(d, from) ==
  from \in TrustedMacs(d) \/ HelloState(d).state = "AwaitingPeerHello"
AutoConfirmsAsResponder(d, from) ==
  from \in TrustedMacs(d) /\ HelloState(d).state = "Idle"
AutoConfirmsOnceTapped(d, from) == \E k \in tapped[d] : k[1] = from
AutoConfirms(d, from) == from \in TrustedMacs(d)

\* trust.pair.begin accepted.  The reply, and for a peer that is trusted
\* already the confirmation, go out before the handler returns.
ReceiveHello(d, m) ==
  LET s0 == HelloState(d)
      responder == s0.state = "Idle"
      s1 == OnPeerHello(s0, m.hello, NextHello(d))
      s2 == IF AutoConfirms(d, m.from) THEN ConfirmLocally(s1) ELSE s1
  IN  /\ m.to = d
      /\ s0.state \in {"Idle", "AwaitingPeerHello"}
      /\ HelloAdmitted(d, m.from, m.hello[1])
      /\ HasSlot(d, m.from)
      /\ responder => helloCount[d] < MaxHellos[d]
      /\ EnsureUnencryptedPeer(d, m.from)
      /\ session' = [session EXCEPT ![d] = s2]
      /\ target' = [target EXCEPT ![d] = m.from]
      /\ helloCount' = [helloCount EXCEPT ![d] = IF responder THEN @ + 1 ELSE @]
      /\ begins' = IF responder
                   THEN begins \cup {[from |-> d, to |-> m.from, hello |-> NextHello(d)]}
                   ELSE begins
      /\ IF AutoConfirms(d, m.from)
         THEN /\ confirms' = confirms \cup
                   {[from |-> d, to |-> m.from, lmk |-> {},
                     signer |-> s2.ourHello[1], over |-> Transcript(s2)]}
              /\ signed' = signed \cup {<<s2.ourHello[1], Transcript(s2)>>}
         ELSE UNCHANGED <<confirms, signed>>
      /\ UNCHANGED <<identity, mode, trust, tap, cancels, tapped, forgotten>>

\* trust.pair.begin accepted by the session, but the radio has no slot left
\* to answer through: the attempt is cancelled on the spot.
ReceiveHelloNoSlot(d, m) ==
  LET s0 == HelloState(d)
      responder == s0.state = "Idle"
  IN  /\ m.to = d
      /\ s0.state \in {"Idle", "AwaitingPeerHello"}
      /\ HelloAdmitted(d, m.from, m.hello[1])
      /\ ~HasSlot(d, m.from)
      /\ responder => helloCount[d] < MaxHellos[d]
      /\ session' = [session EXCEPT ![d] = Cancel(OnPeerHello(s0, m.hello, NextHello(d)))]
      /\ helloCount' = [helloCount EXCEPT ![d] = IF responder THEN @ + 1 ELSE @]
      /\ UNCHANGED <<identity, mode, target, trust, peers, tap, air, history>>

\* trust.pair.begin whose signature does not verify, as when fragments of two
\* hellos were put together.  The check against a pinned key turns it away and
\* keeps the attempt; onPeerHello resets the session.
ReceiveHelloGarbled(d, m) ==
  LET s0 == HelloState(d)
  IN  /\ m.to = d
      /\ s0.state \in {"Idle", "AwaitingPeerHello"}
      /\ s0.state = "AwaitingPeerHello" => target[d] = m.from
      /\ session' = [session EXCEPT
                       ![d] = IF m.from \in TrustedMacs(d) THEN s0 ELSE FreshSession]
      /\ EvictUntrustedPeer(d, m.from)
      /\ UNCHANGED <<board, target, trust, tap, air, history>>

\* trust.pair.confirm from the peer of this attempt, signature good.
ReceiveConfirm(d, m) ==
  LET s == OnPeerConfirm(session[d])
  IN  /\ Receivable(d, m) /\ m.from = target[d]
      /\ session[d].state \in {"AwaitingApproval", "AwaitingPeerConfirm"}
      /\ GoodSignature(session[d], m)
      /\ AfterConfirm(d, s)
      /\ UNCHANGED <<board, target, tap, begins, confirms, history>>

\* trust.pair.confirm that onPeerConfirm turns down: over another transcript
\* (the session is reset), or in a state that expects none (it is kept).
ReceiveConfirmRejected(d, m) ==
  LET expected == session[d].state \in {"AwaitingApproval", "AwaitingPeerConfirm"}
  IN  /\ Receivable(d, m) /\ m.from = target[d]
      /\ expected => ~GoodSignature(session[d], m)
      /\ session' = [session EXCEPT ![d] = IF expected THEN FreshSession ELSE @]
      /\ EvictUntrustedPeer(d, m.from)
      /\ UNCHANGED <<board, target, trust, tap, air, history>>

\* trust.pair.cancel from the peer of the attempt in flight.
ReceiveCancel(d, m) ==
  /\ Receivable(d, m) /\ m.from = target[d]
  /\ InFlight(session[d])
  /\ session' = [session EXCEPT ![d] = Cancel(@)]
  /\ EvictUntrustedPeer(d, m.from)
  /\ UNCHANGED <<board, target, trust, tap, air, history>>
-----------------------------------------------------------------------------
(* The clock, restarts and the switch to gateway mode.                     *)

\* While an attempt waits, time passes; past the window no more is counted.
ClockMoves(d) ==
  /\ InFlight(session[d]) /\ ~TimedOut(session[d], Window)
  /\ session' = [session EXCEPT ![d] = Waiting(@)]
  /\ UNCHANGED <<board, target, trust, peers, tap, air, history>>

TimeoutBeforeConfirm(d) ==
  /\ session[d].state \in {"AwaitingPeerHello", "AwaitingApproval"}
  /\ TimedOut(session[d], Window)
  /\ session' = [session EXCEPT ![d] = Cancel(@)]
  /\ EvictUntrustedPeer(d, target[d])
  /\ tap' = [tap EXCEPT ![d] = NoTap]
  /\ UNCHANGED <<board, target, trust, air, history>>

\* tick() once the pairing window has passed.  It runs between the last
\* message of a loop iteration and the requests of the Trust screen: a pending
\* tap is consumed right after it and finds the attempt cancelled.
Timeout(d) ==
  /\ TimedOut(session[d], Window)
  /\ session' = [session EXCEPT ![d] = Cancel(@)]
  /\ EvictUntrustedPeer(d, target[d])
  /\ tap' = [tap EXCEPT ![d] = NoTap]
  /\ UNCHANGED <<board, target, trust, air, history>>

\* What a restart clears; the key in NVS stays.
Restarted(d) ==
  /\ session' = [session EXCEPT ![d] = FreshSession]
  /\ target' = [target EXCEPT ![d] = NoPeer]
  /\ registered' = [registered EXCEPT ![d] = {}]
  /\ lmk' = [lmk EXCEPT ![d] = [m \in Devices |-> {}]]
  /\ gateway' = [gateway EXCEPT ![d] = FALSE]
  /\ stray' = [stray EXCEPT ![d] = {}]
  /\ tap' = [tap EXCEPT ![d] = NoTap]
  /\ UNCHANGED <<helloCount, air, signed>>

\* TrustConfigStore::begin reads trust.json into an empty store.
LoadRecords(d) == store' = [store EXCEPT ![d] = file[d]] /\ UNCHANGED file

Restart(d) ==
  /\ Restarted(d)
  /\ LoadRecords(d)
  /\ UNCHANGED <<identity, tapped, forgotten>>

\* Flash erased and programmed again: new key, no records.
Reflash(d) ==
  /\ identity[d] < MaxIdentities[d]
  /\ Restarted(d)
  /\ identity' = [identity EXCEPT ![d] = @ + 1]
  /\ store' = [store EXCEPT ![d] = {}]
  /\ file' = [file EXCEPT ![d] = {}]
  /\ tapped' = [tapped EXCEPT ![d] = {}]
  /\ forgotten' = [forgotten EXCEPT ![d] = {}]

\* GatewayRelay::begin takes the radio over with a session and a store of its
\* own, which it loads from trust.json; the radio keeps its peer table.
EnterGatewayMode(d) ==
  /\ d \in GatewayBoards /\ ~gateway[d]
  /\ gateway' = [gateway EXCEPT ![d] = TRUE]
  /\ session' = [session EXCEPT ![d] = FreshSession]
  /\ target' = [target EXCEPT ![d] = NoPeer]
  /\ LoadRecords(d)
  /\ stray' = [stray EXCEPT ![d] = registered[d] \ Macs(file[d])]
  /\ UNCHANGED <<identity, helloCount, peers, tap, air, history>>
-----------------------------------------------------------------------------
Next ==
  \E d \in Devices :
    \/ \E m \in Devices : BeginPairing(d, m) \/ BeginPairingRefused(d, m)
    \/ \E button \in {"confirm", "deny"} : Tap(d, button)
    \/ ConfirmPairing(d)
    \/ DenyPairing(d)
    \/ HostCancel(d)
    \/ \E r \in store[d] : Forget(d, r)
    \/ \E m \in begins : \/ ReceiveHelloIgnored(d, m)
                         \/ ReceiveHello(d, m)
                         \/ ReceiveHelloNoSlot(d, m)
                         \/ ReceiveHelloGarbled(d, m)
    \/ \E m \in confirms : ReceiveConfirm(d, m) \/ ReceiveConfirmRejected(d, m)
    \/ \E m \in cancels : ReceiveCancel(d, m)
    \/ ClockMoves(d)
    \/ Timeout(d)
    \/ Restart(d)
    \/ Reflash(d)
    \/ EnterGatewayMode(d)

Spec == Init /\ [][Next]_vars

\* The clock moves on, and the main loop calls tick() on every iteration.
FairSpec == Spec /\ \A d \in Devices : WF_vars(ClockMoves(d) \/ Timeout(d))
-----------------------------------------------------------------------------
(* Properties.                                                             *)

Sessions == [state : States, ourHello : Hellos \cup {NoHello},
             peerHello : Hellos \cup {NoHello},
             localConfirmed : BOOLEAN, peerConfirmed : BOOLEAN, waited : Nat]
BeginMessages == [from : Devices, to : Devices, hello : Hellos]
ConfirmMessages == [from : Devices, to : Devices, lmk : Transcripts,
                    signer : Keys, over : Transcripts]
CancelMessagesAll == [from : Devices, to : Devices, lmk : Transcripts]

TypeOK ==
  /\ identity \in [Devices -> Nat \ {0}]
  /\ helloCount \in [Devices -> Nat]
  /\ session \in [Devices -> Sessions]
  /\ target \in [Devices -> Devices \cup {NoPeer}]
  /\ store \in [Devices -> SUBSET Records]
  /\ file \in [Devices -> SUBSET Records]
  /\ registered \in [Devices -> SUBSET Devices]
  /\ lmk \in [Devices -> [Devices -> Transcripts]]
  /\ gateway \in [Devices -> BOOLEAN]
  /\ stray \in [Devices -> SUBSET Devices]
  /\ tap \in [Devices -> {NoTap, "confirm", "deny"}]
  /\ begins \subseteq BeginMessages
  /\ confirms \subseteq ConfirmMessages
  /\ cancels \subseteq CancelMessagesAll
  /\ signed \subseteq Keys \X Transcripts
  /\ tapped \in [Devices -> SUBSET Keys]
  /\ forgotten \in [Devices -> SUBSET Keys]

Encrypted(d, m) == lmk[d][m] # {}

\* The key of m at d was derived from a transcript that both ends signed, with
\* a static key of m that a human confirmed on d.
Agreed(d, m) ==
  \E h \in lmk[d][m] :
    /\ h[1][1] = m /\ h[1] \in tapped[d]
    /\ \A g \in lmk[d][m] : <<g[1], lmk[d][m]>> \in signed

Recorded(d, m) == \E r \in store[d], h \in lmk[d][m] : r.mac = m /\ h[1] = r.key

\* A board talks to m under a link key only if the key is agreed, and only
\* while it holds a trust record for the very static key it comes from - but
\* for entries whose record the switch to gateway mode did not find on flash
\* (finalizePairingCommit, onPeerConfirm, forgetByFingerprint, begin).
LinkAgreement ==
  \A d, m \in Devices :
    Encrypted(d, m) => Agreed(d, m) /\ (Recorded(d, m) \/ m \in stray[d])

\* A MAC never has two trust records, although TrustStore::add only refuses a
\* second record for the same key: lookups by MAC (the pinned key, the replay
\* watermark, eviction) would otherwise pick one of two.
OneRecordPerMac ==
  \A d \in Devices : \A r, q \in store[d] : r.mac = q.mac => r = q

\* Every entry of the radio's peer table belongs to a trusted peer or to the
\* attempt in flight: no end of an attempt leaves one behind, other than the
\* switch to gateway mode.
NoOrphanEntry ==
  \A d, m \in Devices : m \in registered[d] =>
    m \in TrustedMacs(d) \cup stray[d] \/ (InFlight(session[d]) /\ target[d] = m)

\* Nothing is trusted that a human on this board has not confirmed by a tap.
TrustedByHand == \A d \in Devices : \A r \in store[d] : r.key \in tapped[d]

\* The approval overlay never comes up for a peer that is trusted already:
\* its handshakes are confirmed within the handler, on either side of it.
SilentReconnect ==
  \A d \in Devices : session[d].state = "AwaitingApproval" => target[d] \notin TrustedMacs(d)

\* While an attempt runs, frames to its peer are not encrypted under a key of
\* an earlier pairing, which the peer may have lost.
HandshakeInClear ==
  \A d \in Devices : InFlight(session[d]) => ~Encrypted(d, target[d])

\* The radio never holds more encrypted entries than the store has records,
\* the limit kMaxRecords was chosen for, counting none that the switch to
\* gateway mode left without a record.
EncryptedWithinLimit ==
  \A d \in Devices :
    Cardinality({m \in Devices : Encrypted(d, m) /\ m \notin stray[d]}) <= MaxRecords

\* No step, a reload of the list included, puts another key in the place of the
\* one pinned for a MAC: the record goes first.
PinNeverReplaced ==
  [][\A d \in Devices : \A r \in store[d], q \in store'[d] : r.mac = q.mac => r.key = q.key]_vars

\* An attempt that nobody answers or taps blocks later ones for the pairing
\* window at most.  One that has heard its peer's confirmation and waits for
\* the tap may wait for ever, but only while that confirmation is heard again
\* and again: each repeat starts the window afresh.
KeptWaiting(d) ==
  session[d].state = "AwaitingApproval" /\ session[d].peerConfirmed /\ session[d].waited = 0

AttemptEnds == \A d \in Devices : []<>(~InFlight(session[d]) \/ KeptWaiting(d))

\* The handlers implement the abstract promise of LinkConsent.
Consent == INSTANCE LinkConsent WITH link <- lmk
ImplementsConsent == Consent!Spec

\* Forget is for good: a record that is forgotten while no attempt with its
\* peer is running comes back only after a tap.
ForgottenNeedsTap == \A d \in Devices : \A r \in store[d] : r.key \notin forgotten[d]
=============================================================================
