----------------------- MODULE RelayedTrafficProofs -----------------------
(***************************************************************************)
(* Proofs about RelayedTraffic: no encrypted frame passes the replay guard *)
(* twice, the displays keep pace with a gateway that does not restart,     *)
(* route ids stay over restarts, and commands run where they were sent.    *)
(***************************************************************************)
EXTENDS RelayedTraffic, TLAPS, WellFoundedInduction, FiniteSetTheorems

\* The attempt of board b that went into key k.
Own(b, k) == IF b = Gateway THEN k[1] ELSE k[2]

\* The part of the type that the arguments need.
CounterTypes ==
  /\ seen \in [Boards -> [Boards -> Nat]]
  /\ key \in [Boards -> [Boards -> LinkKeys]]
  /\ attempts \in [Boards -> [Boards -> Nat]]
  /\ target \in [Boards -> Boards \cup {NoPeer}]
  /\ sent \in [Boards -> Nat]

AirTypes ==
  /\ taken \subseteq air
  /\ \A m \in air : m.from \in Boards /\ m.id \in Nat

\* A link key was made of an attempt that is over.
KeyInv ==
  \A b, p \in Boards : Encrypted(key[b][p]) =>
    target[b] # p /\ Own(b, key[b][p]) <= attempts[b][p]

\* A frame that was accepted belongs to an attempt that is over, and as long as
\* its key is in use it is below the watermark.
TakenInv ==
  \A m \in taken :
    /\ m.to \in Boards /\ m.key \in LinkKeys /\ Encrypted(m.key)
    /\ Own(m.to, m.key) <= attempts[m.to][m.from]
    /\ target[m.to] = m.from => Own(m.to, m.key) # attempts[m.to][m.from]
    /\ m.key = key[m.to][m.from] => m.id <= seen[m.to][m.from]

GuardInv == CounterTypes /\ AirTypes /\ KeyInv /\ TakenInv /\ repeated = {}
-----------------------------------------------------------------------------
\* A board is no peer of its own, and its peers are boards.
LEMMA PeersAreBoards ==
  ASSUME NEW b \in Boards, NEW p \in Peers(b)
  PROVE  p \in Boards /\ p # NoPeer /\ b # NoPeer
BY TrafficAssumption DEF Boards, Peers

\* Fresh and link keys are link keys; only the latter are encrypted.
LEMMA KeyFacts ==
  /\ NoEntry \in LinkKeys /\ ~Encrypted(NoEntry)
  /\ Plain \in LinkKeys /\ ~Encrypted(Plain)
BY DEF NoEntry, Plain, Encrypted, LinkKeys

\* The key of a commit is made of the attempt that ends.
LEMMA CommitKey ==
  ASSUME NEW b, NEW own \in Nat, NEW theirs \in Nat
  PROVE  LinkKey(b, own, theirs) \in LinkKeys /\ Own(b, LinkKey(b, own, theirs)) = own
BY DEF LinkKey, LinkKeys, Own

\* The attempt in a link key is a number.
LEMMA OwnIsNumber ==
  ASSUME NEW b, NEW k \in LinkKeys, Encrypted(k)
  PROVE  Own(b, k) \in Nat
BY DEF LinkKeys, Encrypted, NoEntry, Own

\* What a board sends carries its name and a number.
LEMMA SentFrames ==
  ASSUME CounterTypes, NEW b \in Boards, NEW to, NEW op,
         NEW m \in Unicast(b, to, op) \cup Broadcast(b, op)
  PROVE  m.from \in Boards /\ m.id \in Nat
BY DEF CounterTypes, Unicast, Broadcast
-----------------------------------------------------------------------------
\* The invariant holds initially.
LEMMA InitGuard == Init => GuardInv
<1> SUFFICES ASSUME Init PROVE GuardInv
  OBVIOUS
<1>1. CounterTypes
  BY KeyFacts DEF Init, CounterTypes
<1>2. KeyInv
  BY KeyFacts DEF Init, KeyInv
<1> QED BY <1>1, <1>2 DEF Init, GuardInv, AirTypes, TakenInv
-----------------------------------------------------------------------------
(* Steps of the pairing.                                                   *)

\* Steps that only shrink or change the entry of an attempt.
LEMMA OpenGuard ==
  ASSUME GuardInv, NEW b \in Boards, NEW p \in Peers(b), OpenAttempt(b, p)
  PROVE  GuardInv'
<1> p \in Boards /\ p # NoPeer
  BY PeersAreBoards
<1> USE DEF GuardInv, OpenAttempt, history
<1>1. CounterTypes'
  BY KeyFacts DEF CounterTypes
<1>2. KeyInv'
  BY KeyFacts DEF KeyInv, CounterTypes
<1>3. TakenInv'
  <2> SUFFICES ASSUME NEW m \in taken
               PROVE  /\ m.to \in Boards /\ m.key \in LinkKeys /\ Encrypted(m.key)
                      /\ Own(m.to, m.key) <= attempts'[m.to][m.from]
                      /\ target'[m.to] = m.from => Own(m.to, m.key) # attempts'[m.to][m.from]
                      /\ m.key = key'[m.to][m.from] => m.id <= seen'[m.to][m.from]
    BY DEF TakenInv
  <2>1. m.from \in Boards /\ m.to \in Boards /\ Own(m.to, m.key) \in Nat /\ Encrypted(m.key)
    BY OwnIsNumber DEF AirTypes, TakenInv
  <2> QED BY <2>1, KeyFacts DEF TakenInv, CounterTypes
<1> QED BY <1>1, <1>2, <1>3 DEF AirTypes

LEMMA CommitGuard ==
  ASSUME GuardInv, NEW b \in Boards, NEW p \in Peers(b), Commit(b, p)
  PROVE  GuardInv'
<1> p \in Boards /\ p # NoPeer /\ b # NoPeer
  BY PeersAreBoards
<1>0. PICK theirs \in 1..attempts[p][b] :
        key' = [key EXCEPT ![b][p] = LinkKey(b, attempts[b][p], theirs)]
  BY DEF Commit
<1> DEFINE new == LinkKey(b, attempts[b][p], theirs)
<1>1. new \in LinkKeys /\ Own(b, new) = attempts[b][p] /\ attempts[b][p] \in Nat
  BY CommitKey DEF GuardInv, CounterTypes
<1>2. /\ target[b] = p /\ target' = [target EXCEPT ![b] = NoPeer]
      /\ UNCHANGED <<attempts, sent, air, taken, repeated>>
      /\ seen' \in {seen, [seen EXCEPT ![b][p] = 0]}
  BY DEF Commit
<1>3. key' = [key EXCEPT ![b][p] = new]
  BY <1>0
<1> HIDE DEF new
<1>4. CounterTypes'
  <2>1. seen' \in [Boards -> [Boards -> Nat]]
    BY <1>2 DEF GuardInv, CounterTypes
  <2>2. key' \in [Boards -> [Boards -> LinkKeys]]
    BY <1>1, <1>3 DEF GuardInv, CounterTypes
  <2> QED BY <1>2, <2>1, <2>2 DEF GuardInv, CounterTypes
<1>5. KeyInv'
  <2> SUFFICES ASSUME NEW c \in Boards, NEW q \in Boards, Encrypted(key'[c][q])
               PROVE  target'[c] # q /\ Own(c, key'[c][q]) <= attempts'[c][q]
    BY DEF KeyInv
  <2>1. q # NoPeer
    BY TrafficAssumption
  <2>2. CASE c = b /\ q = p
    BY <1>1, <1>2, <1>3, <2>1, <2>2 DEF GuardInv, CounterTypes
  <2>3. CASE ~(c = b /\ q = p)
    BY <1>2, <1>3, <2>1, <2>3 DEF GuardInv, CounterTypes, KeyInv
  <2> QED BY <2>2, <2>3
<1>6. TakenInv'
  <2> SUFFICES ASSUME NEW m \in taken
               PROVE  /\ m.to \in Boards /\ m.key \in LinkKeys /\ Encrypted(m.key)
                      /\ Own(m.to, m.key) <= attempts'[m.to][m.from]
                      /\ target'[m.to] = m.from => Own(m.to, m.key) # attempts'[m.to][m.from]
                      /\ m.key = key'[m.to][m.from] => m.id <= seen'[m.to][m.from]
    BY <1>2 DEF TakenInv
  <2>1. m.from \in Boards /\ m.to \in Boards
    BY DEF GuardInv, AirTypes, TakenInv
  <2>2. CASE m.to = b /\ m.from = p
    BY <1>1, <1>2, <1>3, <2>2, <2>1 DEF GuardInv, TakenInv, CounterTypes
  <2>3. CASE ~(m.to = b /\ m.from = p)
    <3>1. seen'[m.to][m.from] = seen[m.to][m.from] /\ key'[m.to][m.from] = key[m.to][m.from]
      BY <1>2, <1>3, <2>3, <2>1 DEF GuardInv, CounterTypes
    <3>2. target'[m.to] = m.from => target[m.to] = m.from
      BY <1>2, <2>1, TrafficAssumption DEF GuardInv, CounterTypes
    <3> QED BY <3>1, <3>2, <1>2, <2>1 DEF GuardInv, TakenInv
  <2> QED BY <2>2, <2>3
<1> QED BY <1>2, <1>4, <1>5, <1>6 DEF GuardInv, AirTypes

\* Steps that end attempts, clear entries, and lower only the watermarks of
\* entries they clear.
LEMMA ClearingGuard ==
  ASSUME GuardInv, CounterTypes', UNCHANGED <<attempts, air, taken, repeated>>,
         \A b \in Boards : target'[b] \in {target[b], NoPeer},
         \A b, p \in Boards : key'[b][p] # NoEntry =>
           key'[b][p] = key[b][p] /\ seen'[b][p] = seen[b][p]
  PROVE  GuardInv'
<1> USE DEF GuardInv
<1>1. KeyInv'
  BY KeyFacts, TrafficAssumption DEF KeyInv
<1>2. TakenInv'
  BY KeyFacts, TrafficAssumption DEF TakenInv, AirTypes
<1> QED BY <1>1, <1>2 DEF AirTypes

LEMMA EvictedGuard ==
  ASSUME GuardInv, NEW b \in Boards, NEW p \in Boards, Evicted(b, p),
         UNCHANGED <<seen, attempts, sent, air, taken, repeated>>
  PROVE  GuardInv'
<1>1. CounterTypes'
  BY KeyFacts DEF GuardInv, CounterTypes, Evicted
<1>2. \A c \in Boards : target'[c] \in {target[c], NoPeer}
  BY DEF GuardInv, CounterTypes, Evicted
<1>3. \A c, q \in Boards : key'[c][q] # NoEntry => key'[c][q] = key[c][q]
  BY DEF GuardInv, CounterTypes, Evicted
<1> QED BY <1>1, <1>2, <1>3, ClearingGuard

LEMMA FailsGuard ==
  ASSUME GuardInv, NEW b \in Boards, AttemptFails(b)
  PROVE  GuardInv'
<1>1. target[b] \in Boards
  BY DEF GuardInv, CounterTypes, AttemptFails
<1> QED BY <1>1, EvictedGuard DEF AttemptFails, history

LEMMA ForgetGuard ==
  ASSUME GuardInv, NEW b \in Boards, NEW i, Forget(b, i)
  PROVE  GuardInv'
<1> DEFINE p == records[b][i].peer
<1>1. /\ seen' = [seen EXCEPT ![b][p] = 0]
      /\ key' = [key EXCEPT ![b][p] = NoEntry]
      /\ UNCHANGED <<attempts, target, sent, air, taken, repeated>>
  BY DEF Forget, history
<1> HIDE DEF p
<1>2. CounterTypes'
  BY <1>1, KeyFacts DEF GuardInv, CounterTypes
<1>3. \A c, q \in Boards : key'[c][q] # NoEntry =>
        key'[c][q] = key[c][q] /\ seen'[c][q] = seen[c][q]
  BY <1>1 DEF GuardInv, CounterTypes
<1> QED BY <1>1, <1>2, <1>3, ClearingGuard

LEMMA RestartGuard ==
  ASSUME GuardInv, NEW b \in Boards, Restart(b)
  PROVE  GuardInv'
<1>1. CounterTypes'
  BY KeyFacts DEF GuardInv, CounterTypes, Restart
<1>2. \A c \in Boards : target'[c] \in {target[c], NoPeer}
  BY DEF GuardInv, CounterTypes, Restart
<1>3. \A c, q \in Boards : key'[c][q] # NoEntry =>
        key'[c][q] = key[c][q] /\ seen'[c][q] = seen[c][q]
  BY DEF GuardInv, CounterTypes, Restart
<1> QED BY <1>1, <1>2, <1>3, ClearingGuard DEF Restart, history
-----------------------------------------------------------------------------
(* Steps of the traffic.                                                   *)

\* Only the set of frames on the air and the counters grow.
LEMMA SendingGuard ==
  ASSUME GuardInv, UNCHANGED <<seen, key, attempts, target, taken, repeated>>,
         NEW b \in Boards, NEW to, NEW op, sent' = [sent EXCEPT ![b] = @ + 1],
         air' \in {air \cup Unicast(b, to, op), air \cup Broadcast(b, op)}
  PROVE  GuardInv'
<1>1. CounterTypes'
  BY DEF GuardInv, CounterTypes
<1>2. AirTypes'
  BY SentFrames DEF GuardInv, AirTypes
<1>3. KeyInv' /\ TakenInv'
  BY DEF GuardInv, KeyInv, TakenInv
<1> QED BY <1>1, <1>2, <1>3 DEF GuardInv

\* Admitting a frame: an encrypted one is new.
LEMMA AdmitGuard ==
  ASSUME GuardInv, NEW b \in Boards, NEW m \in air, Admit(b, m),
         UNCHANGED <<key, attempts, target>>, CounterTypes', AirTypes'
  PROVE  GuardInv'
<1>0. /\ m.from \in Boards /\ m.id \in Nat /\ m.to = b
      /\ m.key = Plain \/ m.key = key[b][m.from]
  BY DEF GuardInv, AirTypes, Admit, Readable
<1>1. CASE b \notin enforcing
  BY <1>1 DEF Admit, GuardInv, KeyInv, TakenInv
<1>2. CASE b \in enforcing
  <2>1. /\ m.id > seen[b][m.from]
        /\ seen' = [seen EXCEPT ![b][m.from] = m.id]
        /\ taken' = IF Encrypted(m.key) THEN taken \cup {m} ELSE taken
        /\ repeated' = repeated \cup ({m} \cap taken)
    BY <1>2 DEF Admit, PassesGuard, Watermark
  <2>2. m \notin taken
    <3> SUFFICES ASSUME m \in taken PROVE FALSE
      OBVIOUS
    <3>1. m.key = key[b][m.from] /\ m.id <= seen[b][m.from]
      BY <1>0, KeyFacts DEF GuardInv, TakenInv
    <3> QED BY <3>1, <2>1, <1>0 DEF GuardInv, CounterTypes
  <2>3. KeyInv'
    BY DEF GuardInv, KeyInv
  <2>4. TakenInv'
    <3> SUFFICES ASSUME NEW n \in taken'
                 PROVE  /\ n.to \in Boards /\ n.key \in LinkKeys /\ Encrypted(n.key)
                        /\ Own(n.to, n.key) <= attempts[n.to][n.from]
                        /\ target[n.to] = n.from => Own(n.to, n.key) # attempts[n.to][n.from]
                        /\ n.key = key[n.to][n.from] => n.id <= seen'[n.to][n.from]
      BY DEF TakenInv
    <3>1. CASE n \in taken
      <4>1. n.from \in Boards /\ n.to \in Boards /\ n.id \in Nat
        BY <3>1 DEF GuardInv, AirTypes, TakenInv
      <4>2. seen'[n.to][n.from] >= seen[n.to][n.from]
        BY <1>0, <2>1, <4>1 DEF GuardInv, CounterTypes
      <4>3. n.key = key[n.to][n.from] => n.id <= seen[n.to][n.from]
        BY <3>1 DEF GuardInv, TakenInv
      <4>4. n.key = key[n.to][n.from] => n.id <= seen'[n.to][n.from]
        BY <4>1, <4>2, <4>3 DEF GuardInv, CounterTypes
      <4> QED BY <3>1, <4>4 DEF GuardInv, TakenInv
    <3>2. CASE n \notin taken
      <4>1. n = m /\ Encrypted(m.key)
        BY <2>1, <3>2
      <4>2. m.key = key[b][m.from]
        BY <1>0, <4>1, KeyFacts
      <4>3. m.key \in LinkKeys /\ target[b] # m.from /\ Own(b, m.key) <= attempts[b][m.from]
        BY <1>0, <4>1, <4>2 DEF GuardInv, CounterTypes, KeyInv
      <4>4. m.id <= seen'[b][m.from]
        BY <1>0, <2>1 DEF GuardInv, CounterTypes
      <4> QED BY <1>0, <4>1, <4>3, <4>4
    <3> QED BY <3>1, <3>2
  <2>5. repeated' = {}
    BY <2>1, <2>2 DEF GuardInv
  <2> QED BY <2>3, <2>4, <2>5 DEF GuardInv
<1> QED BY <1>1, <1>2

\* What admitting a frame does to the watermarks and the accepted frames.
LEMMA AdmitTypes ==
  ASSUME GuardInv, NEW b \in Boards, NEW m \in air, Admit(b, m)
  PROVE  /\ seen' \in [Boards -> [Boards -> Nat]]
         /\ taken' \subseteq air
<1>1. m.from \in Boards /\ m.id \in Nat
  BY DEF GuardInv, AirTypes
<1>2. CASE b \in enforcing
  <2>1. /\ seen' = [seen EXCEPT ![b][m.from] = m.id]
        /\ taken' \in {taken, taken \cup {m}}
    BY <1>2 DEF Admit, Watermark
  <2> QED BY <1>1, <2>1 DEF GuardInv, CounterTypes, AirTypes
<1>3. CASE b \notin enforcing
  BY <1>3 DEF GuardInv, CounterTypes, AirTypes, Admit
<1> QED BY <1>2, <1>3

LEMMA ExecuteGuard ==
  ASSUME GuardInv, NEW c \in Clients, NEW m \in air, Execute(c, m)
  PROVE  GuardInv'
<1>0. c \in Boards
  BY DEF Boards
<1>1. Admit(c, m) /\ UNCHANGED <<key, attempts, target>>
  BY DEF Execute, link
<1>2. sent' = [sent EXCEPT ![c] = @ + 1]
  BY DEF Execute
<1>3. air' \in {air \cup Unicast(c, {m.from}, m.op), air \cup Broadcast(c, m.op)}
  BY DEF Execute
<1>4. CounterTypes'
  BY <1>0, <1>1, <1>2, AdmitTypes DEF GuardInv, CounterTypes
<1>5. AirTypes'
  BY <1>0, <1>1, <1>3, AdmitTypes, SentFrames DEF GuardInv, AirTypes
<1> QED BY <1>0, <1>1, <1>4, <1>5, AdmitGuard

LEMMA AnswerGuard ==
  ASSUME GuardInv, NEW m \in air, RelayAnswer(m)
  PROVE  GuardInv'
<1>0. Gateway \in Boards
  BY DEF Boards
<1>1. Admit(Gateway, m) /\ UNCHANGED <<key, attempts, target, sent, air>>
  BY DEF RelayAnswer, link
<1>2. CounterTypes' /\ AirTypes'
  BY <1>0, <1>1, AdmitTypes DEF GuardInv, CounterTypes, AirTypes
<1> QED BY <1>0, <1>1, <1>2, AdmitGuard

LEMMA RelayGuard ==
  ASSUME GuardInv, Relay
  PROVE  GuardInv'
<1>1. Gateway \in Boards
  BY DEF Boards
<1>2. /\ UNCHANGED <<seen, key, attempts, target, taken, repeated>>
      /\ sent' = [sent EXCEPT ![Gateway] = @ + 1]
      /\ air' \in {air \cup Unicast(Gateway, Resolved(Head(usb).route), Head(usb).op),
                   air \cup Broadcast(Gateway, Head(usb).op)}
  BY DEF Relay, link, history
<1> QED BY <1>1, <1>2, SendingGuard

\* Steps that touch nothing of this.
LEMMA FrameGuard ==
  ASSUME GuardInv, UNCHANGED <<seen, key, attempts, target, sent, air, taken, repeated>>
  PROVE  GuardInv'
BY DEF GuardInv, CounterTypes, AirTypes, KeyInv, TakenInv

\* Every step keeps the invariant.
LEMMA NextGuard == GuardInv /\ [Next]_vars => GuardInv'
<1> SUFFICES ASSUME GuardInv, [Next]_vars PROVE GuardInv'
  OBVIOUS
<1>1. ASSUME NEW b \in Boards, NEW p \in Peers(b),
             OpenAttempt(b, p) \/ Commit(b, p)
      PROVE  GuardInv'
  BY <1>1, OpenGuard, CommitGuard
<1>2. ASSUME NEW b \in Boards, AttemptFails(b) \/ Restart(b) PROVE GuardInv'
  BY <1>2, FailsGuard, RestartGuard
<1>3. ASSUME NEW b \in Boards, NEW i \in DOMAIN records[b], Forget(b, i) PROVE GuardInv'
  BY <1>3, ForgetGuard
<1>4. ASSUME NEW b \in Boards, ToggleSecurePairing(b) PROVE GuardInv'
  BY <1>4, FrameGuard DEF ToggleSecurePairing, link, history
<1>5. ASSUME HostLists \/ HostSendsUnrouted \/ \E c \in Clients : HostSendsTo(c)
      PROVE  GuardInv'
  BY <1>5, FrameGuard DEF HostLists, HostSendsUnrouted, HostSendsTo, HostSends, link, history
<1>6. ASSUME Relay PROVE GuardInv'
  BY <1>6, RelayGuard
<1>7. ASSUME NEW m \in air, RelayAnswer(m) \/ \E c \in Clients : Execute(c, m)
      PROVE  GuardInv'
  BY <1>7, AnswerGuard, ExecuteGuard
<1>8. ASSUME UNCHANGED vars PROVE GuardInv'
  BY <1>8, FrameGuard DEF vars, link, history
<1> QED BY <1>1, <1>2, <1>3, <1>4, <1>5, <1>6, <1>7, <1>8 DEF Next

\* No encrypted frame passes the guard of GatewayRelay or EspNowEndpoint twice,
\* for any number of boards, attempts, restarts and messages.
THEOREM NoReplay == Spec => []AcceptedOnce
<1>1. GuardInv => AcceptedOnce
  BY DEF GuardInv, AcceptedOnce
<1> QED BY <1>1, InitGuard, NextGuard, PTL DEF Spec

\* The guard's invariant itself, for what follows.
LEMMA GuardHolds == Spec => []GuardInv
BY InitGuard, NextGuard, PTL DEF Spec
-----------------------------------------------------------------------------
(* Keeping pace.                                                           *)

\* No display has seen, and no frame on the air carries, a number the gateway
\* has still to use.
PaceInv ==
  /\ \A c \in Clients : seen[c][Gateway] <= sent[Gateway]
  /\ \A m \in air : m.from = Gateway => m.id <= sent[Gateway]

\* A frame of the gateway carries the number of the message.
LEMMA SentNumbers ==
  ASSUME NEW b, NEW to, NEW op, NEW m \in Unicast(b, to, op) \cup Broadcast(b, op)
  PROVE  m.from = b /\ m.id = sent[b] + 1
BY DEF Unicast, Broadcast

\* Steps that send nothing and only lower watermarks.
LEMMA QuietPace ==
  ASSUME GuardInv, GuardInv', PaceInv, UNCHANGED air, sent'[Gateway] = sent[Gateway],
         \A c \in Clients : seen'[c][Gateway] \in {seen[c][Gateway], 0}
  PROVE  PaceInv'
<1>1. sent[Gateway] \in Nat /\ Gateway \in Boards
  BY DEF GuardInv, CounterTypes, Boards
<1> QED BY <1>1 DEF PaceInv

\* Every step keeps pace, if the gateway does not restart.
LEMMA NextPace ==
  ASSUME Gateway \notin MayRestart, GuardInv, GuardInv', PaceInv, [Next]_vars
  PROVE  PaceInv'
<1>0. Gateway \in Boards /\ Clients \subseteq Boards /\ Gateway \notin Clients
  BY TrafficAssumption DEF Boards
<1>t. /\ seen \in [Boards -> [Boards -> Nat]] /\ sent \in [Boards -> Nat]
      /\ \A m \in air : m.from \in Boards /\ m.id \in Nat
  BY DEF GuardInv, CounterTypes, AirTypes
<1>1. ASSUME UNCHANGED <<air, sent, seen>> PROVE PaceInv'
  BY <1>1, QuietPace
<1>2. ASSUME NEW b \in Boards, NEW p \in Peers(b),
             OpenAttempt(b, p) \/ Commit(b, p)
      PROVE  PaceInv'
  <2>1. UNCHANGED <<air, sent>> /\ seen' \in {seen, [seen EXCEPT ![b][p] = 0]}
    BY <1>2 DEF OpenAttempt, Commit
  <2>2. \A c \in Clients : seen'[c][Gateway] \in {seen[c][Gateway], 0}
    BY <1>0, <1>t, <2>1
  <2> QED BY <2>1, <2>2, QuietPace
<1>3. ASSUME NEW b \in Boards, AttemptFails(b) \/ ToggleSecurePairing(b) PROVE PaceInv'
  BY <1>3, <1>1 DEF AttemptFails, ToggleSecurePairing
<1>4. ASSUME NEW b \in Boards, NEW i, Forget(b, i) PROVE PaceInv'
  <2>1. UNCHANGED <<air, sent>> /\ \E p : seen' = [seen EXCEPT ![b][p] = 0]
    BY <1>4 DEF Forget
  <2>2. \A c \in Clients : seen'[c][Gateway] \in {seen[c][Gateway], 0}
    BY <1>0, <1>t, <2>1
  <2> QED BY <2>1, <2>2, QuietPace
<1>5. ASSUME NEW b \in Boards, Restart(b) PROVE PaceInv'
  <2>1. b # Gateway /\ UNCHANGED air /\ sent' = [sent EXCEPT ![b] = 0]
        /\ seen' = [seen EXCEPT ![b] = [p \in Boards |-> 0]]
    BY <1>5 DEF Restart
  <2>2. /\ sent'[Gateway] = sent[Gateway]
        /\ \A c \in Clients : seen'[c][Gateway] \in {seen[c][Gateway], 0}
    BY <1>0, <1>t, <2>1
  <2> QED BY <2>1, <2>2, QuietPace
<1>6. ASSUME HostLists \/ HostSendsUnrouted \/ \E c \in Clients : HostSendsTo(c)
      PROVE  PaceInv'
  BY <1>6, <1>1 DEF HostLists, HostSendsUnrouted, HostSendsTo, HostSends
<1>7. ASSUME Relay PROVE PaceInv'
  <2>1. /\ seen' = seen /\ sent' = [sent EXCEPT ![Gateway] = @ + 1]
        /\ air' \in {air \cup Unicast(Gateway, Resolved(Head(usb).route), Head(usb).op),
                     air \cup Broadcast(Gateway, Head(usb).op)}
    BY <1>7 DEF Relay
  <2>2. sent'[Gateway] = sent[Gateway] + 1 /\ sent[Gateway] \in Nat
    BY <1>0, <1>t, <2>1
  <2>3. \A m \in air' : m \in air \/ m.id = sent[Gateway] + 1
    BY <2>1, SentNumbers
  <2> QED BY <1>0, <1>t, <2>1, <2>2, <2>3 DEF PaceInv
<1>8. ASSUME NEW m \in air, NEW b \in Boards, Admit(b, m)
      PROVE  \A c \in Clients : seen'[c][Gateway] <= sent[Gateway]
  <2>1. CASE b \in enforcing
    <3>1. seen' = [seen EXCEPT ![b][m.from] = m.id]
      BY <1>8, <2>1 DEF Admit, Watermark
    <3> QED BY <3>1, <1>0, <1>t DEF PaceInv
  <2>2. CASE b \notin enforcing
    BY <1>8, <2>2 DEF Admit, PaceInv
  <2> QED BY <2>1, <2>2
<1>9. ASSUME NEW m \in air, RelayAnswer(m) PROVE PaceInv'
  <2>1. Admit(Gateway, m) /\ UNCHANGED <<sent, air>>
    BY <1>9 DEF RelayAnswer
  <2> QED BY <2>1, <1>0, <1>8 DEF PaceInv
<1>10. ASSUME NEW m \in air, NEW c \in Clients, Execute(c, m) PROVE PaceInv'
  <2>1. /\ Admit(c, m) /\ sent' = [sent EXCEPT ![c] = @ + 1]
        /\ air' \in {air \cup Unicast(c, {m.from}, m.op), air \cup Broadcast(c, m.op)}
    BY <1>10 DEF Execute
  <2>2. sent'[Gateway] = sent[Gateway] /\ c # Gateway
    BY <1>0, <1>t, <2>1
  <2>3. \A n \in air' : n \in air \/ n.from = c
    BY <2>1, SentNumbers
  <2> QED BY <1>0, <1>8, <2>1, <2>2, <2>3 DEF PaceInv
<1>11. ASSUME UNCHANGED vars PROVE PaceInv'
  BY <1>11, <1>1 DEF vars
<1> QED BY <1>2, <1>3, <1>4, <1>5, <1>6, <1>7, <1>9, <1>10, <1>11 DEF Next

\* As long as the gateway does not restart, the next command it sends is never
\* taken for a replay, whatever the displays do.
THEOREM CommandsAccepted ==
  ASSUME Gateway \notin MayRestart
  PROVE  Spec => []NextCommandAccepted
<1>1. Init => PaceInv
  <2> SUFFICES ASSUME Init PROVE PaceInv
    OBVIOUS
  <2>1. Gateway \in Boards /\ Clients \subseteq Boards
    BY DEF Boards
  <2> QED BY <2>1 DEF Init, PaceInv
<1>2. GuardInv /\ GuardInv' /\ PaceInv /\ [Next]_vars => PaceInv'
  BY NextPace
<1>3. GuardInv /\ PaceInv => NextCommandAccepted
  <2> SUFFICES ASSUME GuardInv, PaceInv, NEW c \in Clients
               PROVE  sent[Gateway] + 1 > seen[c][Gateway]
    BY DEF NextCommandAccepted
  <2>1. sent[Gateway] \in Nat /\ seen[c][Gateway] \in Nat
    BY DEF GuardInv, CounterTypes, Boards
  <2> QED BY <2>1 DEF PaceInv
<1> QED BY <1>1, <1>2, <1>3, GuardHolds, PTL DEF Spec
-----------------------------------------------------------------------------
(* The records of a board, in order, and what a restart makes of them.      *)

\* A set of numbers that is not empty has a least one.
LEMMA LeastNumber ==
  ASSUME NEW S \in SUBSET Nat, S # {}
  PROVE  \E n \in S : \A m \in S : n <= m
<1>1. PICK n \in S : \A m \in S : ~(<<m, n>> \in OpToRel(<, Nat))
  BY NatLessThanWellFounded, WFMin, Zenon
<1>2. ASSUME NEW m \in S PROVE n <= m
  <2>1. ~(m < n)
    BY <1>1 DEF OpToRel
  <2> QED BY <2>1
<1> QED BY <1>2

\* The records that TrustStore keeps: one for a peer, each with a route id of
\* its own.
Orderly(list) ==
  /\ list \in Seq([peer: Boards, route: 1..MaxRecords])
  /\ Len(list) <= MaxRecords
  /\ \A i, j \in DOMAIN list :
       list[i].peer = list[j].peer \/ list[i].route = list[j].route => i = j

\* A record that is read behind the ones before it is added as it was saved.
LEMMA AddInOrder ==
  ASSUME NEW list, Orderly(list), NEW n \in 1..Len(list)
  PROVE  Add(SubSeq(list, 1, n - 1), list[n]) = SubSeq(list, 1, n)
<1> DEFINE front == SubSeq(list, 1, n - 1)
<1> DEFINE Records == [peer: Boards, route: 1..MaxRecords]
<1>0. /\ list \in Seq(Records)
      /\ Len(list) <= MaxRecords /\ Len(list) \in Nat /\ MaxRecords \in Nat
  BY TrafficAssumption DEF Orderly
<1> HIDE DEF Records
<1>1. /\ front \in Seq(Records) /\ Len(front) = n - 1
      /\ \A i \in DOMAIN front : front[i] = list[i] /\ i \in DOMAIN list /\ i # n
  <2>1. n - 1 \in 0..Len(list)
    BY <1>0
  <2>2. front \in Seq(Records) /\ Len(front) = n - 1
    BY <1>0, <2>1
  <2>3. \A i \in 1..(n - 1) : front[i] = list[i]
    BY <1>0, <2>1
  <2> HIDE DEF front
  <2> QED BY <1>0, <2>2, <2>3
<1> HIDE DEF front
<1>2. n \in DOMAIN list /\ list[n] \in Records /\ list[n].route \in 1..MaxRecords
  <2>1. n \in DOMAIN list /\ list[n] \in Records
    BY <1>0
  <2> QED BY <2>1 DEF Records
<1>3. list[n].route \in FreeRoutes(front)
  BY <1>1, <1>2 DEF Orderly, FreeRoutes
<1>4. ~(Len(front) >= MaxRecords \/ \E i \in DOMAIN front : front[i].peer = list[n].peer)
  BY <1>0, <1>1, <1>2 DEF Orderly
<1>5. [list[n] EXCEPT !.route = IF @ \in FreeRoutes(front) THEN @
         ELSE CHOOSE r \in FreeRoutes(front) : \A q \in FreeRoutes(front) : r <= q] = list[n]
  BY <1>2, <1>3 DEF Records
<1>6. Add(front, list[n]) = Append(front, list[n])
  BY <1>4, <1>5 DEF Add
<1>7. Append(front, list[n]) = SubSeq(list, 1, n)
  BY <1>0, <1>1, <1>2 DEF front
<1> QED BY <1>6, <1>7 DEF front

\* What is loaded from trust.json are the records that were saved, in their order and
\* with their route ids.
LEMMA LoadedIsSaved ==
  ASSUME NEW list, Orderly(list)
  PROVE  Loaded(list) = list
<1> DEFINE Step(f) == [n \in 0..Len(list) |-> IF n = 0 THEN <<>> ELSE Add(f[n - 1], list[n])]
           upTo == CHOOSE f : f = Step(f)
           fronts == [n \in 0..Len(list) |-> SubSeq(list, 1, n)]
<1>0. list \in Seq([peer: Boards, route: 1..MaxRecords]) /\ Len(list) \in Nat
  BY DEF Orderly
<1>1. fronts = Step(fronts)
  <2> SUFFICES ASSUME NEW n \in 0..Len(list)
               PROVE  SubSeq(list, 1, n) = IF n = 0 THEN <<>> ELSE Add(fronts[n - 1], list[n])
    BY Zenon
  <2>1. CASE n = 0
    BY <1>0, <2>1
  <2>2. CASE n # 0
    <3>1. n \in 1..Len(list) /\ n - 1 \in 0..Len(list)
      BY <1>0, <2>2
    <3>2. fronts[n - 1] = SubSeq(list, 1, n - 1)
      BY <3>1
    <3> QED BY <2>2, <3>1, <3>2, AddInOrder
  <2> QED BY <2>1, <2>2
<1>2. upTo = Step(upTo)
  <2> HIDE DEF fronts, Step
  <2> QED BY <1>1
<1>3. upTo[0] = <<>> /\ \A n \in 1..Len(list) : upTo[n] = Add(upTo[n - 1], list[n])
  <2> HIDE DEF upTo
  <2>1. ASSUME NEW n \in 0..Len(list)
        PROVE  upTo[n] = IF n = 0 THEN <<>> ELSE Add(upTo[n - 1], list[n])
    BY <1>2
  <2>2. 0 \in 0..Len(list) /\ \A n \in 1..Len(list) : n \in 0..Len(list) /\ n # 0
    BY <1>0
  <2> QED BY <2>1, <2>2
<1> HIDE DEF upTo
<1>4. \A n \in 0..Len(list) : upTo[n] = SubSeq(list, 1, n)
  <2> DEFINE Bad == {n \in 0..Len(list) : upTo[n] # SubSeq(list, 1, n)}
  <2> SUFFICES ASSUME Bad # {} PROVE FALSE
    OBVIOUS
  <2>1. PICK n \in Bad : \A m \in Bad : n <= m
    <3>1. Bad \in SUBSET Nat
      BY <1>0
    <3> QED BY <3>1, LeastNumber
  <2>2. n # 0
    <3>1. SubSeq(list, 1, 0) = <<>>
      BY <1>0
    <3> QED BY <1>3, <2>1, <3>1
  <2>3. n \in 1..Len(list) /\ n - 1 \in 0..Len(list) /\ n - 1 \notin Bad
    <3>1. n \in 1..Len(list) /\ n - 1 \in 0..Len(list) /\ ~(n <= n - 1)
      BY <1>0, <2>1, <2>2
    <3> QED BY <2>1, <3>1
  <2>4. upTo[n] = SubSeq(list, 1, n)
    <3>1. upTo[n] = Add(upTo[n - 1], list[n])
      BY <1>3, <2>3
    <3>2. upTo[n - 1] = SubSeq(list, 1, n - 1)
      BY <2>3
    <3>3. Add(SubSeq(list, 1, n - 1), list[n]) = SubSeq(list, 1, n)
      BY <2>3, AddInOrder
    <3> QED BY <3>1, <3>2, <3>3
  <2> QED BY <2>1, <2>4
<1>5. SubSeq(list, 1, Len(list)) = list
  BY <1>0
<1>6. Loaded(list) = upTo[Len(list)]
  BY DEF Loaded, upTo
<1> QED BY <1>0, <1>4, <1>5, <1>6

-----------------------------------------------------------------------------
\* The types of what is in order.
LEMMA OrderlyFacts ==
  ASSUME NEW list, Orderly(list)
  PROVE  /\ list \in Seq([peer: Boards, route: 1..MaxRecords])
         /\ Len(list) \in Nat /\ Len(list) <= MaxRecords /\ DOMAIN list = 1..Len(list)
         /\ MaxRecords \in Nat
         /\ \A i \in DOMAIN list : list[i].peer \in Boards /\ list[i].route \in 1..MaxRecords
<1> DEFINE Records == [peer: Boards, route: 1..MaxRecords]
<1>1. list \in Seq(Records) /\ Len(list) <= MaxRecords /\ MaxRecords \in Nat
  BY TrafficAssumption DEF Orderly
<1> HIDE DEF Records
<1>2. /\ Len(list) \in Nat /\ DOMAIN list = 1..Len(list)
      /\ \A i \in DOMAIN list : list[i] \in Records
  BY <1>1
<1> QED BY <1>1, <1>2 DEF Records

\* A store that is not full has a route id to give.
LEMMA RouteLeft ==
  ASSUME NEW list, Orderly(list), Len(list) < MaxRecords
  PROVE  FreeRoutes(list) # {}
<1> DEFINE routes == {list[i].route : i \in 1..Len(list)}
<1>0. Len(list) \in Nat /\ MaxRecords \in Nat /\ DOMAIN list = 1..Len(list)
  BY OrderlyFacts
<1>1. /\ IsFiniteSet(1..Len(list)) /\ Cardinality(1..Len(list)) = Len(list)
      /\ Cardinality(1..MaxRecords) = MaxRecords
  <2>1. \A n \in Nat : IsFiniteSet(1..n) /\ Cardinality(1..n) = n
    <3> SUFFICES ASSUME NEW n \in Nat PROVE IsFiniteSet(1..n) /\ Cardinality(1..n) = n
      OBVIOUS
    <3>1. IsFiniteSet(1..n) /\ Cardinality(1..n) = IF 1 > n THEN 0 ELSE n - 1 + 1
      BY FS_Interval
    <3> QED BY <3>1
  <2> QED BY <1>0, <2>1
<1>2. IsFiniteSet(routes) /\ Cardinality(routes) <= Len(list)
  <2> DEFINE route == [i \in 1..Len(list) |-> list[i].route]
  <2>1. route \in Surjection(1..Len(list), routes)
    BY DEF Surjection
  <2> HIDE DEF route, routes
  <2> QED BY <1>1, <2>1, FS_Surjection
<1>4. ~(1..MaxRecords \subseteq routes)
  <2> SUFFICES ASSUME 1..MaxRecords \subseteq routes PROVE FALSE
    OBVIOUS
  <2>1. 1..MaxRecords \in SUBSET routes
    OBVIOUS
  <2> HIDE DEF routes
  <2>2. Cardinality(1..MaxRecords) <= Cardinality(routes) /\ Cardinality(routes) \in Nat
    BY <1>2, <2>1, FS_Subset, FS_CardinalityType
  <2> QED BY <1>0, <1>1, <1>2, <2>2
<1> QED BY <1>0, <1>4 DEF FreeRoutes

\* A peer without a record gets one behind the others, with a free route id.
LEMMA AddFresh ==
  ASSUME NEW list, Orderly(list), Len(list) < MaxRecords, NEW p \in Boards,
         \A i \in DOMAIN list : list[i].peer # p
  PROVE  \E r \in FreeRoutes(list) :
           Add(list, [peer |-> p, route |-> 0]) = Append(list, [peer |-> p, route |-> r])
<1>0. Len(list) \in Nat /\ MaxRecords \in Nat
  BY OrderlyFacts
<1> DEFINE r == CHOOSE q \in FreeRoutes(list) : \A s \in FreeRoutes(list) : q <= s
<1>1. r \in FreeRoutes(list)
  <2>1. FreeRoutes(list) \in SUBSET Nat
    BY <1>0 DEF FreeRoutes
  <2>2. \E q \in FreeRoutes(list) : \A s \in FreeRoutes(list) : q <= s
    BY <2>1, RouteLeft, LeastNumber
  <2> QED BY <2>2, Zenon
<1>2. 0 \notin FreeRoutes(list)
  BY <1>0 DEF FreeRoutes
<1> HIDE DEF r
<1>3. [[peer |-> p, route |-> 0] EXCEPT !.route = IF @ \in FreeRoutes(list) THEN @ ELSE r]
        = [peer |-> p, route |-> r]
  BY <1>2
<1>4. Add(list, [peer |-> p, route |-> 0]) = Append(list, [peer |-> p, route |-> r])
  BY <1>0, <1>3 DEF Add, r
<1> QED BY <1>1, <1>4

\* The store stays in order when a record is added, and when one is removed.
LEMMA AppendOrderly ==
  ASSUME NEW list, Orderly(list), Len(list) < MaxRecords, NEW p \in Boards,
         \A i \in DOMAIN list : list[i].peer # p, NEW r \in FreeRoutes(list),
         NEW new, new = Append(list, [peer |-> p, route |-> r])
  PROVE  /\ Orderly(new) /\ Len(new) = Len(list) + 1
         /\ new[Len(list) + 1] = [peer |-> p, route |-> r]
         /\ \A i \in DOMAIN list : i \in DOMAIN new /\ new[i] = list[i]
<1> DEFINE Records == [peer: Boards, route: 1..MaxRecords]
<1>0. /\ list \in Seq(Records) /\ Len(list) \in Nat /\ MaxRecords \in Nat
      /\ DOMAIN list = 1..Len(list)
      /\ \A i \in DOMAIN list : list[i].peer \in Boards /\ list[i].route \in 1..MaxRecords
  BY OrderlyFacts
<1>1. r \in 1..MaxRecords /\ \A i \in DOMAIN list : list[i].route # r
  BY DEF FreeRoutes
<1>2. [peer |-> p, route |-> r] \in Records
  BY <1>1
<1> HIDE DEF Records
<1>3. /\ new \in Seq(Records) /\ Len(new) = Len(list) + 1
      /\ new[Len(list) + 1] = [peer |-> p, route |-> r]
      /\ \A i \in 1..Len(list) : new[i] = list[i]
  BY <1>0, <1>2
<1>4. DOMAIN new = 1..(Len(list) + 1)
  BY <1>3
<1>5. ASSUME NEW i \in DOMAIN new, NEW j \in DOMAIN new,
             new[i].peer = new[j].peer \/ new[i].route = new[j].route
      PROVE  i = j
  <2>1. CASE i \in DOMAIN list /\ j \in DOMAIN list
    BY <2>1, <1>0, <1>3, <1>5 DEF Orderly
  <2>2. CASE i \notin DOMAIN list \/ j \notin DOMAIN list
    BY <2>2, <1>0, <1>1, <1>3, <1>4, <1>5
  <2> QED BY <2>1, <2>2
<1>6. Orderly(new)
  BY <1>0, <1>3, <1>5 DEF Orderly, Records
<1> QED BY <1>0, <1>3, <1>4, <1>6

\* What is left when a record is removed, and where.
LEMMA WithoutIs ==
  ASSUME NEW list, Orderly(list), NEW k \in DOMAIN list
  PROVE  LET new == Without(list, k)
         IN  /\ Orderly(new) /\ DOMAIN new = 1..(Len(list) - 1)
             /\ \A i \in DOMAIN new : new[i] = list[IF i = k THEN Len(list) ELSE i]
<1> DEFINE new == Without(list, k)
           Records == [peer: Boards, route: 1..MaxRecords]
           moved == [list EXCEPT ![k] = list[Len(list)]]
           from(i) == IF i = k THEN Len(list) ELSE i
<1>0. /\ list \in Seq(Records) /\ Len(list) \in Nat /\ MaxRecords \in Nat
      /\ DOMAIN list = 1..Len(list) /\ Len(list) <= MaxRecords
  BY OrderlyFacts
<1> HIDE DEF Records
<1>1. /\ moved \in Seq(Records) /\ Len(moved) = Len(list)
      /\ \A i \in 1..Len(list) : moved[i] = list[from(i)]
  BY <1>0
<1> HIDE DEF moved
<1>2. /\ new \in Seq(Records) /\ Len(new) = Len(list) - 1
      /\ \A i \in 1..(Len(list) - 1) : new[i] = moved[i]
  <2>1. new = SubSeq(moved, 1, Len(list) - 1)
    BY DEF Without, moved
  <2>2. Len(list) - 1 \in 0..Len(moved)
    BY <1>0, <1>1
  <2> HIDE DEF new
  <2> QED BY <1>0, <1>1, <2>1, <2>2
<1> HIDE DEF new
<1>3. DOMAIN new = 1..(Len(list) - 1) /\ \A i \in DOMAIN new : new[i] = list[from(i)]
  BY <1>0, <1>1, <1>2
<1>4. ASSUME NEW i \in DOMAIN new, NEW j \in DOMAIN new,
             new[i].peer = new[j].peer \/ new[i].route = new[j].route
      PROVE  i = j
  <2>1. from(i) \in DOMAIN list /\ from(j) \in DOMAIN list
    BY <1>0, <1>3
  <2>2. from(i) = from(j)
    BY <1>3, <1>4, <2>1 DEF Orderly
  <2> QED BY <1>0, <1>3, <2>2
<1>5. Orderly(new)
  BY <1>0, <1>2, <1>4 DEF Orderly, Records
<1> QED BY <1>3, <1>5 DEF new
-----------------------------------------------------------------------------
(* Which display has which route id.                                        *)

\* The records of every board are in order and of its peers, and the gateway's
\* displays hold, or once held, the route ids they were given.
RecordsInv ==
  /\ records \in [Boards -> Seq([peer: Boards, route: 1..MaxRecords])]
  /\ \A b \in Boards : Orderly(records[b]) /\ TrustedBy(b) \subseteq Peers(b)
  /\ held \in [1..MaxRecords -> SUBSET Clients]
  /\ \A i \in DOMAIN records[Gateway] :
       records[Gateway][i].peer \in held[records[Gateway][i].route]

\* The steps that change records: one is added for a peer that has none, or one
\* is removed.
AddsRecord ==
  \E b \in Boards : \E p \in Peers(b) : \E r \in FreeRoutes(records[b]) :
    /\ p \notin TrustedBy(b) /\ Len(records[b]) < MaxRecords
    /\ records' = [records EXCEPT ![b] = Append(@, [peer |-> p, route |-> r])]
    /\ held' = IF b = Gateway THEN [held EXCEPT ![r] = @ \cup {p}] ELSE held
RemovesRecord ==
  \E b \in Boards : \E i \in DOMAIN records[b] :
    records' = [records EXCEPT ![b] = Without(@, i)] /\ held' = held

\* A commit adds a record for a peer that has none, or none at all.
LEMMA CommitRecords ==
  ASSUME RecordsInv, NEW b \in Boards, NEW p \in Peers(b), Commit(b, p)
  PROVE  UNCHANGED <<records, held>> \/ AddsRecord
<1> DEFINE list == records[b]
           new == Add(list, [peer |-> p, route |-> 0])
<1>0. p \in Boards /\ Orderly(list)
  BY PeersAreBoards DEF RecordsInv
<1>1. /\ p \in TrustedBy(b) \/ Len(list) < MaxRecords
      /\ records' = [records EXCEPT ![b] = new]
      /\ held' = IF b = Gateway /\ p \notin TrustedBy(b)
                 THEN [held EXCEPT ![new[Len(new)].route] = @ \cup {p}] ELSE held
  BY DEF Commit
<1>2. CASE p \in TrustedBy(b)
  <2>1. new = list
    BY <1>2 DEF TrustedBy, Add
  <2> HIDE DEF new
  <2>2. records' = records
    BY <1>1, <2>1 DEF RecordsInv
  <2> QED BY <1>1, <1>2, <2>2
<1>3. CASE p \notin TrustedBy(b)
  <2>1. \A i \in DOMAIN list : list[i].peer # p
    BY <1>3 DEF TrustedBy
  <2>2. PICK r \in FreeRoutes(list) : new = Append(list, [peer |-> p, route |-> r])
    BY <1>0, <1>1, <1>3, <2>1, AddFresh
  <2> HIDE DEF new
  <2>3. Len(new) = Len(list) + 1 /\ new[Len(list) + 1] = [peer |-> p, route |-> r]
    BY <1>0, <2>2, OrderlyFacts
  <2>4. new[Len(new)].route = r
    BY <2>3
  <2>5. records' = [records EXCEPT ![b] = Append(@, [peer |-> p, route |-> r])]
    BY <1>1, <2>2 DEF RecordsInv
  <2>6. held' = IF b = Gateway THEN [held EXCEPT ![r] = @ \cup {p}] ELSE held
    BY <1>1, <1>3, <2>4
  <2> QED BY <1>1, <1>3, <2>5, <2>6 DEF AddsRecord
<1> QED BY <1>2, <1>3

\* A restart finds the records that were saved.
LEMMA RestartRecords ==
  ASSUME RecordsInv, NEW b \in Boards, Restart(b)
  PROVE  UNCHANGED <<records, held>>
<1>1. Loaded(records[b]) = records[b]
  BY LoadedIsSaved DEF RecordsInv
<1>2. records' = [records EXCEPT ![b] = Loaded(@)] /\ held' = held
  BY DEF Restart, history
<1> QED BY <1>1, <1>2 DEF RecordsInv

\* No other step changes records.
LEMMA RecordsStep ==
  ASSUME RecordsInv, [Next]_vars
  PROVE  UNCHANGED <<records, held>> \/ AddsRecord \/ RemovesRecord
<1>1. ASSUME NEW b \in Boards, NEW i \in DOMAIN records[b], Forget(b, i) PROVE RemovesRecord
  BY <1>1 DEF Forget, history, RemovesRecord
<1>2. ASSUME NEW b \in Boards, NEW p \in Peers(b), OpenAttempt(b, p)
      PROVE  UNCHANGED <<records, held>>
  BY <1>2 DEF OpenAttempt, history
<1>3. ASSUME NEW b \in Boards, AttemptFails(b) \/ ToggleSecurePairing(b)
      PROVE  UNCHANGED <<records, held>>
  BY <1>3 DEF AttemptFails, ToggleSecurePairing, history
<1>4. ASSUME HostLists \/ HostSendsUnrouted \/ Relay \/ \E c \in Clients : HostSendsTo(c)
      PROVE  UNCHANGED <<records, held>>
  BY <1>4 DEF HostLists, HostSendsUnrouted, HostSendsTo, HostSends, Relay, history
<1>5. ASSUME NEW m \in air, RelayAnswer(m) \/ \E c \in Clients : Execute(c, m)
      PROVE  UNCHANGED <<records, held>>
  BY <1>5 DEF RelayAnswer, Execute
<1>6. ASSUME UNCHANGED vars PROVE UNCHANGED <<records, held>>
  BY <1>6 DEF vars, history
<1> QED BY <1>1, <1>2, <1>3, <1>4, <1>5, <1>6, CommitRecords, RestartRecords DEF Next

\* Route ids that were held stay in the history.
LEMMA HeldGrows ==
  ASSUME RecordsInv, [Next]_vars
  PROVE  \A r \in 1..MaxRecords : held[r] \subseteq held'[r]
<1>1. ASSUME AddsRecord PROVE \A r \in 1..MaxRecords : held[r] \subseteq held'[r]
  <2>1. held' = held \/ \E p, r : held' = [held EXCEPT ![r] = @ \cup {p}]
    BY <1>1 DEF AddsRecord
  <2> QED BY <2>1 DEF RecordsInv
<1> QED BY <1>1, RecordsStep DEF RemovesRecord

\* Every step keeps the records in order.
LEMMA NextRecords ==
  ASSUME RecordsInv, [Next]_vars
  PROVE  RecordsInv'
<1>0. Gateway \in Boards /\ Peers(Gateway) = Clients
  BY DEF Boards, Peers
<1>1. CASE UNCHANGED <<records, held>>
  BY <1>1 DEF RecordsInv, TrustedBy
<1>2. CASE AddsRecord
  <2>1. PICK b, p, r :
          /\ b \in Boards /\ p \in Peers(b) /\ r \in FreeRoutes(records[b])
          /\ p \notin TrustedBy(b) /\ Len(records[b]) < MaxRecords
          /\ records' = [records EXCEPT ![b] = Append(@, [peer |-> p, route |-> r])]
          /\ held' = IF b = Gateway THEN [held EXCEPT ![r] = @ \cup {p}] ELSE held
    BY <1>2 DEF AddsRecord
  <2> DEFINE new == Append(records[b], [peer |-> p, route |-> r])
             n == Len(records[b])
  <2>2. p \in Boards /\ \A i \in DOMAIN records[b] : records[b][i].peer # p
    BY <2>1, PeersAreBoards DEF TrustedBy
  <2>3. /\ Orderly(new) /\ DOMAIN new = 1..(n + 1) /\ new[n + 1] = [peer |-> p, route |-> r]
        /\ \A i \in DOMAIN records[b] : new[i] = records[b][i]
        /\ DOMAIN records[b] = 1..n /\ n \in Nat /\ r \in 1..MaxRecords
    <3>1. Orderly(records[b])
      BY <2>1 DEF RecordsInv
    <3>2. DOMAIN records[b] = 1..n /\ n \in Nat
      BY <3>1, OrderlyFacts
    <3>3. r \in 1..MaxRecords
      BY <2>1 DEF FreeRoutes
    <3>4. /\ Orderly(new) /\ Len(new) = n + 1 /\ new[n + 1] = [peer |-> p, route |-> r]
          /\ \A i \in DOMAIN records[b] : new[i] = records[b][i]
      <4>1. p \in Boards /\ r \in FreeRoutes(records[b]) /\ Len(records[b]) < MaxRecords
        BY <2>1, <2>2
      <4>2. \A i \in DOMAIN records[b] : records[b][i].peer # p
        BY <2>2
      <4>3. new = Append(records[b], [peer |-> p, route |-> r])
        OBVIOUS
      <4> HIDE DEF new
      <4> HIDE DEF n
      <4>4. Orderly(new)
        BY <3>1, <4>1, <4>2, <4>3, AppendOrderly
      <4>5. Len(new) = Len(records[b]) + 1
        BY <3>1, <4>1, <4>2, <4>3, AppendOrderly
      <4>6. new[Len(records[b]) + 1] = [peer |-> p, route |-> r]
        BY <3>1, <4>1, <4>2, <4>3, AppendOrderly
      <4>7. \A i \in DOMAIN records[b] : new[i] = records[b][i]
        BY <3>1, <4>1, <4>2, <4>3, AppendOrderly
      <4> QED BY <4>4, <4>5, <4>6, <4>7 DEF n
    <3>5. DOMAIN new = 1..(n + 1)
      <4> HIDE DEF new
      <4> QED BY <3>2, <3>4, OrderlyFacts
    <3> QED BY <3>2, <3>3, <3>4, <3>5
  <2> HIDE DEF new, n
  <2>4. records'[b] = new /\ \A c \in Boards \ {b} : records'[c] = records[c]
    BY <2>1 DEF RecordsInv, new
  <2>5. records' \in [Boards -> Seq([peer: Boards, route: 1..MaxRecords])]
    BY <2>1, <2>3 DEF RecordsInv, Orderly, new
  <2>6. \A i \in DOMAIN new : IF i = n + 1 THEN new[i] = [peer |-> p, route |-> r]
                              ELSE i \in DOMAIN records[b] /\ new[i] = records[b][i]
    BY <2>3
  <2>7. \A c \in Boards : Orderly(records'[c]) /\ TrustedBy(c)' \subseteq Peers(c)
    <3> SUFFICES ASSUME NEW c \in Boards
                 PROVE  /\ Orderly(records'[c])
                        /\ \A i \in DOMAIN records'[c] : records'[c][i].peer \in Peers(c)
      BY DEF TrustedBy
    <3>1. Orderly(records[c]) /\ \A i \in DOMAIN records[c] : records[c][i].peer \in Peers(c)
      BY DEF RecordsInv, TrustedBy
    <3>2. CASE c = b
      <4>1. \A i \in DOMAIN new : new[i].peer \in Peers(b)
        BY <2>1, <2>6, <3>1, <3>2
      <4> QED BY <2>3, <2>4, <3>2, <4>1
    <3>3. CASE c # b
      <4>1. records'[c] = records[c]
        BY <2>4, <3>3
      <4> QED BY <3>1, <4>1
    <3> QED BY <3>2, <3>3
  <2>8. held' \in [1..MaxRecords -> SUBSET Clients]
    BY <1>0, <2>1, <2>3 DEF RecordsInv
  <2>9. \A i \in DOMAIN records'[Gateway] :
          records'[Gateway][i].peer \in held'[records'[Gateway][i].route]
    <3>1. CASE b = Gateway
      <4>1. held'[r] = held[r] \cup {p} /\ \A q \in 1..MaxRecords : held[q] \subseteq held'[q]
        BY <2>1, <2>3, <3>1 DEF RecordsInv
      <4>2. \A i \in DOMAIN records[b] : records[b][i].route \in 1..MaxRecords
        BY <2>1, OrderlyFacts DEF RecordsInv
      <4> QED BY <2>4, <2>6, <3>1, <4>1, <4>2 DEF RecordsInv
    <3>2. CASE b # Gateway
      BY <1>0, <2>1, <2>4, <3>2 DEF RecordsInv
    <3> QED BY <3>1, <3>2
  <2> QED BY <2>5, <2>7, <2>8, <2>9 DEF RecordsInv
<1>3. CASE RemovesRecord
  <2>1. PICK b, k : b \in Boards /\ k \in DOMAIN records[b] /\
          records' = [records EXCEPT ![b] = Without(@, k)] /\ held' = held
    BY <1>3 DEF RemovesRecord
  <2> DEFINE new == Without(records[b], k)
             n == Len(records[b])
  <2>2. /\ Orderly(new) /\ DOMAIN new = 1..(n - 1) /\ DOMAIN records[b] = 1..n /\ n \in Nat
        /\ \A i \in DOMAIN new : new[i] = records[b][IF i = k THEN n ELSE i]
    BY <2>1, WithoutIs, OrderlyFacts DEF RecordsInv
  <2> HIDE DEF new, n
  <2>3. \A i \in DOMAIN new : \E j \in DOMAIN records[b] : new[i] = records[b][j]
    BY <2>2
  <2>4. records'[b] = new /\ \A c \in Boards \ {b} : records'[c] = records[c]
    BY <2>1 DEF RecordsInv, new
  <2>5. records' \in [Boards -> Seq([peer: Boards, route: 1..MaxRecords])]
    BY <2>1, <2>2 DEF RecordsInv, Orderly, new
  <2>6. \A c \in Boards : Orderly(records'[c]) /\ TrustedBy(c)' \subseteq Peers(c)
    <3> SUFFICES ASSUME NEW c \in Boards
                 PROVE  /\ Orderly(records'[c])
                        /\ \A i \in DOMAIN records'[c] : records'[c][i].peer \in Peers(c)
      BY DEF TrustedBy
    <3>1. Orderly(records[c]) /\ \A i \in DOMAIN records[c] : records[c][i].peer \in Peers(c)
      BY DEF RecordsInv, TrustedBy
    <3>2. CASE c = b
      BY <2>2, <2>3, <2>4, <3>1, <3>2
    <3>3. CASE c # b
      <4>1. records'[c] = records[c]
        BY <2>4, <3>3
      <4> QED BY <3>1, <4>1
    <3> QED BY <3>2, <3>3
  <2>7. \A i \in DOMAIN records'[Gateway] :
          records'[Gateway][i].peer \in held'[records'[Gateway][i].route]
    BY <1>0, <2>1, <2>3, <2>4 DEF RecordsInv
  <2> QED BY <2>1, <2>5, <2>6, <2>7 DEF RecordsInv
<1> QED BY <1>1, <1>2, <1>3, RecordsStep

\* A display that stays trusted keeps its route id.
LEMMA RouteKept ==
  ASSUME RecordsInv, [Next]_vars, NEW c \in TrustedBy(Gateway), c \in TrustedBy(Gateway)'
  PROVE  RouteOf(c)' = RouteOf(c)
<1>0. Gateway \in Boards
  BY DEF Boards
<1> DEFINE old == records[Gateway]
           now == records'[Gateway]
           At(list) == {list[i].route : i \in {j \in DOMAIN list : list[j].peer = c}}
<1>1. RouteOf(c) = At(old) /\ RouteOf(c)' = At(now)
  BY DEF RouteOf
<1>2. PICK k \in DOMAIN old, l \in DOMAIN now : old[k].peer = c /\ now[l].peer = c
  BY DEF TrustedBy
<1>3. Orderly(old) /\ Orderly(now)
  BY <1>0, NextRecords DEF RecordsInv
<1>4. At(old) = {old[k].route} /\ At(now) = {now[l].route}
  <2>1. {j \in DOMAIN old : old[j].peer = c} = {k} /\ {j \in DOMAIN now : now[j].peer = c} = {l}
    <3>1. \A j \in DOMAIN old : old[j].peer = c => j = k
      BY <1>2, <1>3 DEF Orderly
    <3>2. \A j \in DOMAIN now : now[j].peer = c => j = l
      BY <1>2, <1>3 DEF Orderly
    <3> QED BY <1>2, <3>1, <3>2
  <2> QED BY <2>1
<1>5. \E i \in DOMAIN old : now[l] = old[i]
  <2>1. CASE UNCHANGED <<records, held>> \/ now = old
    BY <2>1
  <2>2. CASE AddsRecord /\ now # old
    <3>1. PICK b, p, r :
            /\ b \in Boards /\ p \in Peers(b) /\ r \in FreeRoutes(records[b])
            /\ p \notin TrustedBy(b) /\ Len(records[b]) < MaxRecords
            /\ records' = [records EXCEPT ![b] = Append(@, [peer |-> p, route |-> r])]
      BY <2>2 DEF AddsRecord
    <3>2. b = Gateway /\ now = Append(old, [peer |-> p, route |-> r])
      BY <1>0, <2>2, <3>1 DEF RecordsInv
    <3>3. DOMAIN old = 1..Len(old) /\ Len(old) \in Nat
      BY <1>3, OrderlyFacts
    <3>4. /\ \A i \in DOMAIN old : now[i] = old[i] 
          /\ DOMAIN now = 1..(Len(old) + 1) /\ now[Len(old) + 1] = [peer |-> p, route |-> r]
      BY <1>3, <3>2, OrderlyFacts
    <3>5. l \in DOMAIN old
      BY <1>2, <3>1, <3>2, <3>3, <3>4
    <3> QED BY <3>4, <3>5
  <2>3. CASE RemovesRecord /\ now # old
    <3>1. PICK b, j : b \in Boards /\ j \in DOMAIN records[b] /\
            records' = [records EXCEPT ![b] = Without(@, j)]
      BY <2>3 DEF RemovesRecord
    <3>2. b = Gateway /\ now = Without(old, j)
      BY <1>0, <2>3, <3>1 DEF RecordsInv
    <3>3. now[l] = old[IF l = j THEN Len(old) ELSE l] /\ DOMAIN now = 1..(Len(old) - 1)
      BY <1>2, <1>3, <3>1, <3>2, WithoutIs
    <3>4. DOMAIN old = 1..Len(old) /\ Len(old) \in Nat
      BY <1>3, OrderlyFacts
    <3> QED BY <3>3, <3>4
  <2> QED BY <2>1, <2>2, <2>3, RecordsStep
<1>6. now[l] = old[k]
  BY <1>2, <1>3, <1>5 DEF Orderly
<1> HIDE DEF At
<1> QED BY <1>1, <1>4, <1>6

\* A fresh store is in order.
LEMMA InitRecords == Init => RecordsInv
<1> SUFFICES ASSUME Init PROVE RecordsInv
  OBVIOUS
<1>1. Orderly(<<>>)
  <2>1. MaxRecords \in Nat
    BY TrafficAssumption
  <2> QED BY <2>1 DEF Orderly
<1>2. Gateway \in Boards
  BY DEF Boards
<1> QED BY <1>1, <1>2 DEF Init, RecordsInv, TrustedBy

\* No step, a restart of the gateway included, gives a display that stays
\* trusted another route id (TrustStore::add, forget and loadRecords).
THEOREM RoutesStay == Spec => RouteStable
<1>1. RecordsInv /\ [Next]_vars => RecordsInv'
  BY NextRecords
<1>2. RecordsInv /\ [Next]_vars =>
        [\A c \in TrustedBy(Gateway) :
           c \in TrustedBy(Gateway)' => RouteOf(c)' = RouteOf(c)]_records
  BY RouteKept
<1> QED BY InitRecords, <1>1, <1>2, PTL DEF Spec, RouteStable
-----------------------------------------------------------------------------
(* Types.                                                                  *)

TrafficTypes ==
  /\ enforcing \subseteq Boards
  /\ usb \in Seq([op: Operations, route: 0..MaxRecords])
  /\ hostRoutes \in [Clients -> 0..MaxRecords]
  /\ operations \in Nat /\ restarts \in Nat
  /\ air \subseteq Frames
  /\ executed \subseteq Clients \X Operations

\* What is put on the air are frames.
LEMMA SentAreFrames ==
  ASSUME GuardInv, NEW b \in Boards, NEW to \in SUBSET Boards, NEW op \in Operations
  PROVE  Unicast(b, to, op) \subseteq Frames /\ Broadcast(b, op) \subseteq Frames
<1>1. sent[b] + 1 \in Nat \ {0} /\ \A p \in Boards : key[b][p] \in LinkKeys
  BY DEF GuardInv, CounterTypes
<1>2. Plain \in LinkKeys \ {NoEntry}
  BY DEF Plain, NoEntry, LinkKeys
<1>3. Unicast(b, to, op) \subseteq Frames
  BY <1>1 DEF Unicast, Frames
<1>4. Broadcast(b, op) \subseteq Frames
  BY <1>1, <1>2, PeersAreBoards DEF Broadcast, Frames
<1> QED BY <1>3, <1>4

\* A frame that is sent and the board that sends or receives it.
LEMMA FrameFields ==
  ASSUME TrafficTypes, NEW m \in air
  PROVE  m.from \in Boards /\ m.to \in Boards /\ m.op \in Operations
BY DEF TrafficTypes, Frames

\* What a route id leads to are trusted displays.
LEMMA RelayedAre ==
  ASSUME RecordsInv, NEW route
  PROVE  Resolved(route) \subseteq TrustedBy(Gateway) /\ Resolved(route) \subseteq Boards
<1>1. Resolved(route) \subseteq TrustedBy(Gateway)
  BY DEF Resolved
<1>2. TrustedBy(Gateway) \subseteq Boards
  BY DEF RecordsInv, Boards, Peers
<1> QED BY <1>1, <1>2

\* A command at the head of the queue.
LEMMA HeadOfQueue ==
  ASSUME TrafficTypes, usb # <<>>
  PROVE  /\ Head(usb).op \in Operations /\ Head(usb).route \in 0..MaxRecords
         /\ Tail(usb) \in Seq([op: Operations, route: 0..MaxRecords])
         /\ \A i \in DOMAIN Tail(usb) : i + 1 \in DOMAIN usb /\ Tail(usb)[i] = usb[i + 1]
         /\ 1 \in DOMAIN usb /\ Head(usb) = usb[1]
<1> DEFINE Commands == [op: Operations, route: 0..MaxRecords]
<1>1. usb \in Seq(Commands)
  BY DEF TrafficTypes
<1> HIDE DEF Commands
<1>2. /\ Head(usb) \in Commands /\ Tail(usb) \in Seq(Commands)
      /\ \A i \in DOMAIN Tail(usb) : i + 1 \in DOMAIN usb /\ Tail(usb)[i] = usb[i + 1]
      /\ 1 \in DOMAIN usb /\ Head(usb) = usb[1]
  BY <1>1
<1> QED BY <1>2 DEF Commands

\* A command of the host is well formed.
LEMMA HostTypes ==
  ASSUME TrafficTypes, NEW for \in Clients \cup {NoPeer}, NEW route \in 0..MaxRecords,
         HostSends(for, route)
  PROVE  TrafficTypes'
<1> DEFINE new == [op |-> <<operations + 1, for>>, route |-> route]
           Commands == [op: Operations, route: 0..MaxRecords]
<1>1. new \in Commands
  BY DEF TrafficTypes, Operations
<1>2. usb' = Append(usb, new) /\ usb \in Seq(Commands)
  BY DEF HostSends, TrafficTypes
<1> HIDE DEF new, Commands
<1>3. usb' \in Seq(Commands)
  BY <1>1, <1>2
<1> QED BY <1>3 DEF HostSends, TrafficTypes, Commands, link, history

\* Every step keeps the types of the traffic.
LEMMA NextTraffic ==
  ASSUME GuardInv, RecordsInv, TrafficTypes, [Next]_vars
  PROVE  TrafficTypes'
<1>0. Gateway \in Boards /\ Clients \subseteq Boards /\ MaxRecords \in Nat
  BY TrafficAssumption DEF Boards
<1>1. ASSUME NEW b \in Boards, NEW p \in Peers(b), OpenAttempt(b, p) \/ Commit(b, p)
      PROVE  TrafficTypes'
  BY <1>1 DEF OpenAttempt, Commit, TrafficTypes, host, history
<1>2. ASSUME NEW b \in Boards, AttemptFails(b) \/ \E i \in DOMAIN records[b] : Forget(b, i)
      PROVE  TrafficTypes'
  BY <1>2 DEF AttemptFails, Forget, TrafficTypes, host, history
<1>3. ASSUME NEW b \in Boards, ToggleSecurePairing(b) PROVE TrafficTypes'
  BY <1>3 DEF ToggleSecurePairing, TrafficTypes, host, history
<1>4. ASSUME NEW b \in Boards, Restart(b) PROVE TrafficTypes'
  <2>1. usb' \in {usb, <<>>} /\ restarts' = restarts + 1
        /\ UNCHANGED <<enforcing, hostRoutes, operations, air, executed>>
    BY <1>4 DEF Restart, history
  <2> DEFINE Commands == [op: Operations, route: 0..MaxRecords]
  <2>2. usb \in Seq(Commands)
    BY DEF TrafficTypes
  <2> HIDE DEF Commands
  <2>3. <<>> \in Seq(Commands)
    OBVIOUS
  <2>4. usb' \in Seq(Commands)
    BY <2>1, <2>2, <2>3, Zenon
  <2> QED BY <2>1, <2>4 DEF TrafficTypes, Commands
<1>5. ASSUME HostLists PROVE TrafficTypes'
  <2>1. /\ hostRoutes' \in [Clients -> 0..MaxRecords]
        /\ UNCHANGED <<enforcing, usb, operations, restarts, air, executed>>
    BY <1>5 DEF HostLists, history
  <2> QED BY <2>1 DEF TrafficTypes
<1>6. ASSUME HostSendsUnrouted \/ \E c \in Clients : HostSendsTo(c) PROVE TrafficTypes'
  <2>1. CASE HostSendsUnrouted
    <3>1. 0 \in 0..MaxRecords
      BY <1>0
    <3> QED BY <2>1, <3>1, HostTypes DEF HostSendsUnrouted
  <2>2. ASSUME NEW c \in Clients, HostSendsTo(c) PROVE TrafficTypes'
    <3>1. hostRoutes[c] \in 0..MaxRecords
      BY DEF TrafficTypes
    <3> QED BY <2>2, <3>1, HostTypes DEF HostSendsTo
  <2> QED BY <1>6, <2>1, <2>2
<1>7. ASSUME Relay PROVE TrafficTypes'
  <2> DEFINE op == Head(usb).op
             to == Resolved(Head(usb).route)
  <2>1. /\ usb # <<>> /\ usb' = Tail(usb)
        /\ air' \in {air \cup Unicast(Gateway, to, op), air \cup Broadcast(Gateway, op)}
        /\ UNCHANGED <<enforcing, hostRoutes, operations, restarts, executed>>
    BY <1>7 DEF Relay, history
  <2>2. /\ op \in Operations /\ to \in SUBSET Boards
        /\ usb' \in Seq([op: Operations, route: 0..MaxRecords])
    BY <2>1, HeadOfQueue, RelayedAre
  <2> HIDE DEF op, to
  <2>3. air' \subseteq Frames
    BY <1>0, <2>1, <2>2, SentAreFrames DEF TrafficTypes
  <2> QED BY <2>1, <2>2, <2>3 DEF TrafficTypes
<1>8. ASSUME NEW m \in air, RelayAnswer(m) PROVE TrafficTypes'
  BY <1>8 DEF RelayAnswer, TrafficTypes, host
<1>9. ASSUME NEW m \in air, NEW c \in Clients, Execute(c, m) PROVE TrafficTypes'
  <2>1. /\ executed' = executed \cup {<<c, m.op>>}
        /\ air' \in {air \cup Unicast(c, {m.from}, m.op), air \cup Broadcast(c, m.op)}
        /\ UNCHANGED <<enforcing, usb, hostRoutes, operations, restarts>>
    BY <1>9 DEF Execute, host
  <2>2. {m.from} \in SUBSET Boards /\ m.op \in Operations
    BY FrameFields
  <2>3. air' \subseteq Frames
    BY <1>0, <2>1, <2>2, SentAreFrames DEF TrafficTypes
  <2>4. executed' \subseteq Clients \X Operations
    BY <2>1, <2>2 DEF TrafficTypes
  <2> QED BY <2>1, <2>3, <2>4 DEF TrafficTypes
<1>10. ASSUME UNCHANGED vars PROVE TrafficTypes'
  BY <1>10 DEF vars, host, history, TrafficTypes
<1> QED BY <1>1, <1>2, <1>3, <1>4, <1>5, <1>6, <1>7, <1>8, <1>9, <1>10 DEF Next

\* The three invariants together, for what follows.
LEMMA RecordsHold == Spec => [](GuardInv /\ RecordsInv /\ TrafficTypes)
<1>1. Init => TrafficTypes
  <2> SUFFICES ASSUME Init PROVE TrafficTypes
    OBVIOUS
  <2>1. MaxRecords \in Nat
    BY TrafficAssumption
  <2> QED BY <2>1 DEF Init, TrafficTypes
<1>2. GuardInv /\ RecordsInv /\ TrafficTypes /\ [Next]_vars => TrafficTypes'
  BY NextTraffic
<1>3. RecordsInv /\ [Next]_vars => RecordsInv'
  BY NextRecords
<1> QED BY InitRecords, <1>1, <1>2, <1>3, GuardHolds, PTL DEF Spec

\* Every variable keeps its type: what the gateway and the displays send and
\* keep is well formed, in particular every record has a route id in range.
THEOREM TrafficTypeOK == Spec => []TypeOK
<1>1. GuardInv /\ RecordsInv /\ TrafficTypes => TypeOK
  BY DEF GuardInv, CounterTypes, AirTypes, RecordsInv, TrafficTypes, TypeOK
<1> QED BY <1>1, RecordsHold, PTL
-----------------------------------------------------------------------------
(* The right display.                                                      *)

SharedRoute(c, d) == \E r \in 1..MaxRecords : {c, d} \subseteq held[r]

\* A route id the host knows for a display, and one a command for it is sent
\* with, were once given to it; so whoever gets the command shares it.
WayInv ==
  /\ Gateway \in enforcing
  /\ \A c \in Clients : hostRoutes[c] # 0 => c \in held[hostRoutes[c]]
  /\ \A i \in DOMAIN usb :
       usb[i].op[2] \in Clients => usb[i].route # 0 /\ usb[i].op[2] \in held[usb[i].route]
  /\ \A m \in air : m.to \in Peers(m.from)
  /\ \A m \in air : m.from = Gateway /\ m.op[2] \in Clients => SharedRoute(m.to, m.op[2])
  /\ \A e \in executed : e[2][2] \in Clients => SharedRoute(e[1], e[2][2])

\* Displays that once shared a route id did so for ever.
LEMMA SharedStays ==
  ASSUME RecordsInv, [Next]_vars, NEW c, NEW d, SharedRoute(c, d)
  PROVE  SharedRoute(c, d)'
BY HeldGrows DEF SharedRoute

\* Steps that neither send nor execute anything.
LEMMA QuietWay ==
  ASSUME RecordsInv, TrafficTypes, [Next]_vars, WayInv,
         Gateway \in enforcing', usb' \in {usb, <<>>}, UNCHANGED <<hostRoutes, air, executed>>
  PROVE  WayInv'
<1>1. \A c \in Clients : hostRoutes'[c] # 0 => c \in held'[hostRoutes'[c]]
  <2>1. \A r \in 1..MaxRecords : held[r] \subseteq held'[r]
    BY HeldGrows
  <2>2. ASSUME NEW c \in Clients, hostRoutes[c] # 0
        PROVE  hostRoutes[c] \in 1..MaxRecords /\ c \in held[hostRoutes[c]]
    BY <2>2, TrafficAssumption DEF WayInv, TrafficTypes
  <2> QED BY <2>1, <2>2
<1>2. ASSUME NEW i \in DOMAIN usb', usb'[i].op[2] \in Clients
      PROVE  usb'[i].route # 0 /\ usb'[i].op[2] \in held'[usb'[i].route]
  <2>1. usb' = usb /\ i \in DOMAIN usb
    BY <1>2
  <2>2. usb[i].route \in 0..MaxRecords
    <3> DEFINE Commands == [op: Operations, route: 0..MaxRecords]
    <3>1. usb \in Seq(Commands)
      BY DEF TrafficTypes
    <3> HIDE DEF Commands
    <3>2. usb[i] \in Commands
      BY <2>1, <3>1
    <3> QED BY <3>2 DEF Commands
  <2> QED BY <1>2, <2>1, <2>2, HeldGrows DEF WayInv
<1>3. \A m \in air' : m.from = Gateway /\ m.op[2] \in Clients => SharedRoute(m.to, m.op[2])'
  BY SharedStays DEF WayInv
<1>4. \A e \in executed' : e[2][2] \in Clients => SharedRoute(e[1], e[2][2])'
  BY SharedStays DEF WayInv
<1> QED BY <1>1, <1>2, <1>3, <1>4 DEF WayInv

\* What reaches a display shares the display's route id with it.
LEMMA ResolvedShares ==
  ASSUME RecordsInv, TrafficTypes, WayInv, usb # <<>>,
         NEW p \in Resolved(Head(usb).route), Head(usb).op[2] \in Clients
  PROVE  p \in Clients /\ SharedRoute(p, Head(usb).op[2])
<1>1. Head(usb).route \in 1..MaxRecords /\ Head(usb).op[2] \in held[Head(usb).route]
  <2>1. Head(usb).route \in 0..MaxRecords /\ 1 \in DOMAIN usb /\ Head(usb) = usb[1]
    BY HeadOfQueue
  <2>2. Head(usb).route # 0 /\ Head(usb).op[2] \in held[Head(usb).route]
    BY <2>1 DEF WayInv
  <2>3. MaxRecords \in Nat
    BY TrafficAssumption
  <2> QED BY <2>1, <2>2, <2>3
<1>2. p \in TrustedBy(Gateway) /\ Head(usb).route \in RouteOf(p)
  BY <1>1 DEF Resolved
<1>3. PICK i \in DOMAIN records[Gateway] :
        records[Gateway][i].peer = p /\ records[Gateway][i].route = Head(usb).route
  BY <1>2 DEF RouteOf
<1>4. p \in held[Head(usb).route]
  BY <1>3 DEF RecordsInv
<1> QED BY <1>1, <1>4 DEF RecordsInv, SharedRoute

\* The gateway sends a command to displays that share the route id it was sent for.
LEMMA RelayWay ==
  ASSUME RecordsInv, TrafficTypes, [Next]_vars, WayInv, Relay
  PROVE  WayInv'
<1> DEFINE op == Head(usb).op
           to == Resolved(Head(usb).route)
<1>1. /\ usb # <<>> /\ usb' = Tail(usb)
      /\ air' = air \cup Unicast(Gateway, to, op)
      /\ UNCHANGED <<hostRoutes, enforcing, executed, held>>
  BY DEF Relay, history, WayInv
<1>2. \A i \in DOMAIN usb' :
        usb'[i].op[2] \in Clients => usb'[i].route # 0 /\ usb'[i].op[2] \in held[usb'[i].route]
  BY <1>1, HeadOfQueue DEF WayInv
<1>3. ASSUME NEW m \in Unicast(Gateway, to, op)
      PROVE  /\ m.from = Gateway /\ m.to \in Peers(m.from)
             /\ m.op[2] \in Clients => SharedRoute(m.to, m.op[2])
  <2>1. m.from = Gateway /\ m.to \in to /\ m.op = op
    BY DEF Unicast
  <2>2. m.to \in Peers(Gateway)
    BY <2>1, RelayedAre DEF RecordsInv, Boards
  <2> QED BY <1>1, <2>1, <2>2, ResolvedShares
<1>4. \A m \in air' : m.to \in Peers(m.from) /\
        (m.from = Gateway /\ m.op[2] \in Clients => SharedRoute(m.to, m.op[2]))
  BY <1>1, <1>3 DEF WayInv
<1> HIDE DEF op, to
<1>5. \A m \in air' : m.from = Gateway /\ m.op[2] \in Clients => SharedRoute(m.to, m.op[2])'
  BY <1>4, SharedStays
<1>6. \A e \in executed' : e[2][2] \in Clients => SharedRoute(e[1], e[2][2])'
  BY <1>1, SharedStays DEF WayInv
<1> QED BY <1>1, <1>2, <1>4, <1>5, <1>6 DEF WayInv

\* A display runs what the gateway has sent to it.
LEMMA ExecuteWay ==
  ASSUME RecordsInv, TrafficTypes, [Next]_vars, WayInv, NEW c \in Clients, NEW m \in air,
         Execute(c, m)
  PROVE  WayInv'
<1>0. c # Gateway /\ Peers(c) = {Gateway} /\ m.to = c
  BY TrafficAssumption DEF Peers, Execute, Admit, Readable
<1>1. m.from = Gateway
  <2>1. c \in Peers(m.from) /\ m.from \in Boards
    BY <1>0, FrameFields DEF WayInv
  <2> QED BY <1>0, <2>1 DEF Peers
<1>2. /\ air' \in {air \cup Unicast(c, {m.from}, m.op), air \cup Broadcast(c, m.op)}
      /\ executed' = executed \cup {<<c, m.op>>}
      /\ UNCHANGED <<usb, hostRoutes, enforcing, held>>
  BY DEF Execute, host
<1>3. \A n \in Unicast(c, {m.from}, m.op) \cup Broadcast(c, m.op) : n.from = c /\ n.to = Gateway
  BY <1>0, <1>1 DEF Unicast, Broadcast
<1>4. \A n \in air' : n.to \in Peers(n.from) /\ (n.from = Gateway => n \in air)
  BY <1>0, <1>2, <1>3 DEF WayInv
<1>5. \A n \in air' : n.from = Gateway /\ n.op[2] \in Clients => SharedRoute(n.to, n.op[2])'
  BY <1>4, SharedStays DEF WayInv
<1>6. \A e \in executed' : e[2][2] \in Clients => SharedRoute(e[1], e[2][2])'
  <2> SUFFICES ASSUME NEW e \in executed', e[2][2] \in Clients
               PROVE  SharedRoute(e[1], e[2][2])
    BY SharedStays
  <2>1. CASE e \in executed
    BY <2>1 DEF WayInv
  <2>2. CASE e = <<c, m.op>>
    BY <1>0, <1>1, <2>2 DEF WayInv
  <2> QED BY <1>2, <2>1, <2>2
<1> QED BY <1>2, <1>4, <1>5, <1>6 DEF WayInv

\* The host sends a command with a route id it has listed for the display.
LEMMA HostWay ==
  ASSUME RecordsInv, TrafficTypes, [Next]_vars, WayInv,
         NEW for, NEW route \in 0..MaxRecords, HostSends(for, route),
         for \in Clients => route # 0 /\ for \in held[route]
  PROVE  WayInv'
<1> DEFINE new == [op |-> <<operations + 1, for>>, route |-> route]
<1>1. usb' = Append(usb, new) /\ UNCHANGED <<hostRoutes, enforcing, air, executed, held>>
  BY DEF HostSends, history
<1>2. new.op[2] = for /\ new.route = route
  OBVIOUS
<1> HIDE DEF new
<1>3. \A i \in DOMAIN usb' : usb'[i] = new \/ (i \in DOMAIN usb /\ usb'[i] = usb[i])
  BY <1>1 DEF TrafficTypes
<1>4. \A i \in DOMAIN usb' :
        usb'[i].op[2] \in Clients => usb'[i].route # 0 /\ usb'[i].op[2] \in held[usb'[i].route]
  BY <1>2, <1>3 DEF WayInv
<1>5. /\ \A m \in air : m.from = Gateway /\ m.op[2] \in Clients => SharedRoute(m.to, m.op[2])'
      /\ \A e \in executed : e[2][2] \in Clients => SharedRoute(e[1], e[2][2])'
  BY SharedStays DEF WayInv
<1> QED BY <1>1, <1>4, <1>5 DEF WayInv

\* The host lists route ids that displays hold.
LEMMA ListWay ==
  ASSUME RecordsInv, TrafficTypes, [Next]_vars, WayInv, HostLists
  PROVE  WayInv'
<1>1. /\ \A c \in Clients :
           hostRoutes'[c] \in IF c \in TrustedBy(Gateway) THEN RouteOf(c) ELSE {0}
      /\ UNCHANGED <<usb, enforcing, air, executed, held>>
  BY DEF HostLists, history
<1>2. \A c \in Clients : hostRoutes'[c] # 0 => c \in held[hostRoutes'[c]]
  BY <1>1 DEF RecordsInv, RouteOf
<1>3. /\ \A m \in air : m.from = Gateway /\ m.op[2] \in Clients => SharedRoute(m.to, m.op[2])'
      /\ \A e \in executed : e[2][2] \in Clients => SharedRoute(e[1], e[2][2])'
  BY SharedStays DEF WayInv
<1> QED BY <1>1, <1>2, <1>3 DEF WayInv

\* Every step keeps to the way of a command, while the gateway enforces.
LEMMA NextWay ==
  ASSUME Gateway \notin MayToggle, RecordsInv, TrafficTypes, WayInv, [Next]_vars
  PROVE  WayInv'
<1>0. NoPeer \notin Clients /\ MaxRecords \in Nat
  BY TrafficAssumption DEF Boards
<1>1. ASSUME UNCHANGED <<enforcing, usb, hostRoutes, air, executed>> PROVE WayInv'
  BY <1>1, QuietWay DEF WayInv
<1>2. ASSUME NEW b \in Boards, NEW p \in Peers(b), OpenAttempt(b, p) \/ Commit(b, p)
      PROVE  WayInv'
  BY <1>1, <1>2 DEF OpenAttempt, Commit, host, history
<1>3. ASSUME NEW b \in Boards, AttemptFails(b) \/ \E i \in DOMAIN records[b] : Forget(b, i)
      PROVE  WayInv'
  BY <1>1, <1>3 DEF AttemptFails, Forget, host, history
<1>4. ASSUME NEW b \in Boards, ToggleSecurePairing(b) PROVE WayInv'
  <2>1. Gateway \in enforcing' /\ UNCHANGED <<usb, hostRoutes, air, executed>>
    BY <1>4 DEF ToggleSecurePairing, host, history, WayInv
  <2> QED BY <2>1, QuietWay
<1>5. ASSUME NEW b \in Boards, Restart(b) PROVE WayInv'
  <2>1. usb' \in {usb, <<>>} /\ UNCHANGED <<enforcing, hostRoutes, air, executed>>
    BY <1>5 DEF Restart, history
  <2> QED BY <2>1, QuietWay DEF WayInv
<1>6. ASSUME HostSendsUnrouted PROVE WayInv'
  <2>1. 0 \in 0..MaxRecords
    BY <1>0
  <2> QED BY <1>0, <1>6, <2>1, HostWay DEF HostSendsUnrouted
<1>7. ASSUME NEW c \in Clients, HostSendsTo(c) PROVE WayInv'
  <2>1. hostRoutes[c] \in 0..MaxRecords /\ hostRoutes[c] # 0 /\ c \in held[hostRoutes[c]]
    BY <1>7 DEF HostSendsTo, TrafficTypes, WayInv
  <2> QED BY <1>7, <2>1, HostWay DEF HostSendsTo
<1>8. ASSUME NEW m \in air, RelayAnswer(m) PROVE WayInv'
  BY <1>1, <1>8 DEF RelayAnswer, host
<1>9. ASSUME UNCHANGED vars PROVE WayInv'
  BY <1>1, <1>9 DEF vars, host, history
<1> QED BY <1>2, <1>3, <1>4, <1>5, <1>6, <1>7, <1>8, <1>9,
           ListWay, RelayWay, ExecuteWay DEF Next

\* While the gateway enforces Secure Pairing, a display runs a command that the host
\* meant for another display only if the two were once given the same route id,
\* however often displays are paired, forgotten and the boards restarted.
THEOREM RightDisplay ==
  ASSUME Gateway \notin MayToggle
  PROVE  Spec => []RightClient
<1>1. Init => WayInv
  BY DEF Init, WayInv, Boards
<1>2. RecordsInv /\ TrafficTypes /\ WayInv /\ [Next]_vars => WayInv'
  BY NextWay
<1>3. RecordsInv /\ TrafficTypes /\ WayInv => RightClient
  <2> SUFFICES ASSUME WayInv, NEW e \in executed, e[2][2] \in Clients
               PROVE  \E r \in 1..MaxRecords : {e[1], e[2][2]} \subseteq held[r]
    BY DEF RightClient
  <2> QED BY DEF WayInv, SharedRoute
<1> QED BY <1>1, <1>2, <1>3, RecordsHold, PTL DEF Spec
=============================================================================
