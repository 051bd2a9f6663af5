--------------------------- MODULE RelayedTraffic ---------------------------
(***************************************************************************)
(* Commands of a USB host on their way through the gateway (GatewayRelay)  *)
(* to the displays (EspNowEndpoint) and the answers back, with the trust   *)
(* records' route ids and replay watermarks (TrustStore).                  *)
(*                                                                         *)
(* Pairing is used as EspNowTrust proves it to be (LinkConsent): a board   *)
(* opens an attempt, which puts its entry for the peer in the clear, and   *)
(* the attempt fails or installs a key made of this attempt and one of the *)
(* peer's.  A frame once sent may be received never, once or often, in any *)
(* order, by a board whose entry for the sender holds the frame's key.     *)
(***************************************************************************)
EXTENDS Naturals, Sequences, SequencesExt, FiniteSets

CONSTANTS
  Clients,        \* the displays
  Gateway,        \* the board in gateway mode
  NoPeer,         \* no attempt open; no particular display meant
  MaxRecords,     \* TrustStore::kMaxRecords
  MayToggle,      \* boards whose user switches Secure Pairing
  MayRestart,     \* boards that restart
  MayForget,      \* boards whose user forgets peers
  MaxAttempts,    \* bound: attempts of each board with one peer
  MaxRestarts,    \* bound: restarts in a behaviour
  MaxOperations,  \* bound: commands of the host
  MaxAnswers      \* bound: answers a display sends between restarts

Boards == Clients \cup {Gateway}
Peers(b) == IF b = Gateway THEN Clients ELSE {Gateway}

ASSUME TrafficAssumption ==
  /\ Gateway \notin Clients /\ NoPeer \notin Boards
  /\ MaxAttempts \in [Boards -> Nat]
  /\ {MaxRecords, MaxRestarts, MaxOperations, MaxAnswers} \subseteq Nat
  /\ MayToggle \cup MayRestart \cup MayForget \subseteq Boards

VARIABLES
  records,     \* trust records of each board, in memory and in trust.json
  seen,        \* lastSeenLinkMessageId of the record for a peer
  enforcing,   \* boards with Secure Pairing on
  key,         \* entry of the radio's peer table: NoEntry, Plain or a link key
  attempts,    \* pairing attempts a board has opened with a peer
  target,      \* peer of the open attempt
  sent,        \* messages sent since boot: the next linkMessageId, less one
  usb,         \* commands of the host that the gateway has not read yet
  hostRoutes,  \* route ids the host has listed
  operations,  \* commands the host has sent
  restarts,    \* restarts so far
  air,         \* frames on the air
  taken,       \* auxiliary: encrypted frames that passed the replay guard
  repeated,    \* auxiliary: encrypted frames that passed it again
  executed,    \* auxiliary: <<display, command>> pairs
  held         \* auxiliary: displays a route id of the gateway was ever given to

host    == <<usb, hostRoutes, operations>>
link    == <<key, attempts, target>>
history == <<taken, repeated, executed, held>>
vars == <<records, seen, enforcing, link, sent, host, restarts, air, history>>
-----------------------------------------------------------------------------
(* TrustStore.                                                             *)

TrustedBy(b) == {records[b][i].peer : i \in DOMAIN records[b]}

FreeRoutes(list) == {r \in 1..MaxRecords : \A i \in DOMAIN list : list[i].route # r}

\* TrustStore::add that gives every record the lowest free route id.
AddRenumbered(list, record) ==
  IF Len(list) >= MaxRecords \/ \E i \in DOMAIN list : list[i].peer = record.peer
  THEN list
  ELSE Append(list, [record EXCEPT !.route =
                       CHOOSE r \in FreeRoutes(list) : \A q \in FreeRoutes(list) : r <= q])

\* TrustStore::add: a record keeps the route id it comes with if it is in range
\* and free; otherwise it gets the lowest free one.
Add(list, record) ==
  IF Len(list) >= MaxRecords \/ \E i \in DOMAIN list : list[i].peer = record.peer
  THEN list
  ELSE Append(list, [record EXCEPT !.route =
                       IF @ \in FreeRoutes(list) THEN @
                       ELSE CHOOSE r \in FreeRoutes(list) : \A q \in FreeRoutes(list) : r <= q])

\* TrustStore::forget: the last record takes the place of the removed one.
Without(list, i) == SubSeq([list EXCEPT ![i] = list[Len(list)]], 1, Len(list) - 1)

\* loadRecords: the records of trust.json are added one by one.
Loaded(list) ==
  LET upTo[n \in 0..Len(list)] == IF n = 0 THEN <<>> ELSE Add(upTo[n - 1], list[n])
  IN upTo[Len(list)]

\* checkAndAdvanceReplayGuard: what it lets pass, and the watermark it leaves.
PassesGuardOrRepeats(b, m) == m.from \in TrustedBy(b) /\ m.id >= seen[b][m.from]
PassesGuard(b, m) == m.from \in TrustedBy(b) /\ m.id > seen[b][m.from]
NextExpected(m) == m.id + 1
Watermark(m) == m.id
-----------------------------------------------------------------------------
(* The peer table.  A key is the pair of the gateway's and the display's   *)
(* attempt it was derived from.                                            *)

NoEntry == <<>>
Plain == <<0, 0>>
Encrypted(k) == k # NoEntry /\ k # Plain
LinkKey(b, own, theirs) == IF b = Gateway THEN <<own, theirs>> ELSE <<theirs, own>>

Readable(b, m) == m.to = b /\ (m.key = Plain \/ m.key = key[b][m.from])

\* esp_now_send of one message to each board of `to`: refused without an entry.
UnicastUnregistered(b, to, op) ==
  {[from |-> b, to |-> p, key |-> key[b][p], id |-> sent[b] + 1, op |-> op] : p \in to}
Unicast(b, to, op) ==
  {[from |-> b, to |-> p, key |-> key[b][p], id |-> sent[b] + 1, op |-> op] :
     p \in {q \in to : key[b][q] # NoEntry}}
Broadcast(b, op) ==
  {[from |-> b, to |-> p, key |-> Plain, id |-> sent[b] + 1, op |-> op] : p \in Peers(b)}
-----------------------------------------------------------------------------
\* Boards fresh from the box whose users have switched Secure Pairing on.
Init ==
  /\ records = [b \in Boards |-> <<>>]
  /\ seen = [b \in Boards |-> [p \in Boards |-> 0]]
  /\ enforcing = Boards
  /\ key = [b \in Boards |-> [p \in Boards |-> NoEntry]]
  /\ attempts = [b \in Boards |-> [p \in Boards |-> 0]]
  /\ target = [b \in Boards |-> NoPeer]
  /\ sent = [b \in Boards |-> 0]
  /\ usb = <<>> /\ hostRoutes = [c \in Clients |-> 0] /\ operations = 0
  /\ restarts = 0
  /\ air = {} /\ taken = {} /\ repeated = {} /\ executed = {}
  /\ held = [r \in 1..MaxRecords |-> {}]

(* Pairing.                                                                *)

OpenAttempt(b, p) ==
  /\ target[b] = NoPeer
  /\ attempts[b][p] < MaxAttempts[b]
  /\ attempts' = [attempts EXCEPT ![b][p] = @ + 1]
  /\ target' = [target EXCEPT ![b] = p]
  /\ key' = [key EXCEPT ![b][p] = Plain]
  /\ UNCHANGED <<records, seen, enforcing, sent, host, restarts, air, history>>

\* evictUntrustedPeer at the end of an attempt that did not commit.
Evicted(b, p) ==
  /\ key' = [key EXCEPT ![b][p] = IF p \in TrustedBy(b) THEN @ ELSE NoEntry]
  /\ target' = [target EXCEPT ![b] = NoPeer]

\* A denial, an error, the timeout, or a commit that the full store refuses.
AttemptFails(b) ==
  /\ target[b] # NoPeer
  /\ Evicted(b, target[b])
  /\ UNCHANGED <<records, seen, enforcing, attempts, sent, host, restarts, air, history>>

\* finalizePairingCommit, with some attempt of the peer.  A record that is
\* added starts with the watermark at zero; one that was there keeps its own.
Commit(b, p) ==
  LET list == Add(records[b], [peer |-> p, route |-> 0])
      trusted == p \in TrustedBy(b)
  IN  /\ target[b] = p
      /\ trusted \/ Len(records[b]) < MaxRecords
      /\ \E theirs \in 1..attempts[p][b] :
           key' = [key EXCEPT ![b][p] = LinkKey(b, attempts[b][p], theirs)]
      /\ target' = [target EXCEPT ![b] = NoPeer]
      /\ records' = [records EXCEPT ![b] = list]
      /\ seen' = IF trusted THEN seen ELSE [seen EXCEPT ![b][p] = 0]
      /\ held' = IF b = Gateway /\ ~trusted
                 THEN [held EXCEPT ![list[Len(list)].route] = @ \cup {p}] ELSE held
      /\ UNCHANGED <<enforcing, attempts, sent, host, restarts, air, taken, repeated, executed>>

\* forgetByFingerprint.
Forget(b, i) ==
  LET p == records[b][i].peer
  IN  /\ b \in MayForget
      /\ records' = [records EXCEPT ![b] = Without(@, i)]
      /\ seen' = [seen EXCEPT ![b][p] = 0]
      /\ key' = [key EXCEPT ![b][p] = NoEntry]
      /\ UNCHANGED <<enforcing, attempts, target, sent, host, restarts, air, history>>

\* The Settings switch; NVS keeps it over a restart.
ToggleSecurePairing(b) ==
  /\ b \in MayToggle
  /\ enforcing' = IF b \in enforcing THEN enforcing \ {b} ELSE enforcing \cup {b}
  /\ UNCHANGED <<records, seen, link, sent, host, restarts, air, history>>

\* A restart clears the peer table, the session, the counter and the watermarks.
\* The gateway is in gateway mode again when the host next talks to it.
Restart(b) ==
  /\ b \in MayRestart
  /\ restarts < MaxRestarts
  /\ restarts' = restarts + 1
  /\ records' = [records EXCEPT ![b] = Loaded(@)]
  /\ seen' = [seen EXCEPT ![b] = [p \in Boards |-> 0]]
  /\ key' = [key EXCEPT ![b] = [p \in Boards |-> NoEntry]]
  /\ target' = [target EXCEPT ![b] = NoPeer]
  /\ sent' = [sent EXCEPT ![b] = 0]
  /\ usb' = IF b = Gateway THEN <<>> ELSE usb
  /\ UNCHANGED <<enforcing, attempts, hostRoutes, operations, air, history>>
-----------------------------------------------------------------------------
(* The host, and the way of a command.                                     *)

RouteOf(c) == {records[Gateway][i].route : i \in {j \in DOMAIN records[Gateway] :
                                                    records[Gateway][j].peer = c}}

\* trust.controllers.list.
HostLists ==
  /\ \E routes \in [Clients -> 0..MaxRecords] :
       /\ \A c \in Clients : routes[c] \in IF c \in TrustedBy(Gateway) THEN RouteOf(c) ELSE {0}
       /\ hostRoutes' = routes
  /\ UNCHANGED <<records, seen, enforcing, link, sent, usb, operations, restarts, air, history>>

\* A command for the display the host listed under a route, or for no
\* particular one and without a route.
HostSends(for, route) ==
  /\ operations < MaxOperations
  /\ operations' = operations + 1
  /\ usb' = Append(usb, [op |-> <<operations + 1, for>>, route |-> route])
  /\ UNCHANGED <<records, seen, enforcing, link, sent, hostRoutes, restarts, air, history>>

HostSendsTo(c) == hostRoutes[c] # 0 /\ HostSends(c, hostRoutes[c])
HostSendsUnrouted == HostSends(NoPeer, 0)

\* The destinations relayToEspNow resolves while Secure Pairing is on: none
\* for a route without a record.
ResolvedOrOnly(route) ==
  LET named == {p \in TrustedBy(Gateway) : route \in RouteOf(p)}
  IN  IF named = {} /\ Len(records[Gateway]) = 1 THEN TrustedBy(Gateway) ELSE named
Resolved(route) ==
  IF route # 0 THEN {p \in TrustedBy(Gateway) : route \in RouteOf(p)}
  ELSE IF Len(records[Gateway]) = 1 THEN TrustedBy(Gateway) ELSE {}

\* relayToEspNow: the counter moves on even when nothing is sent.
Relay ==
  /\ usb # <<>>
  /\ usb' = Tail(usb)
  /\ air' = air \cup IF Gateway \in enforcing
                     THEN Unicast(Gateway, Resolved(Head(usb).route), Head(usb).op)
                     ELSE Broadcast(Gateway, Head(usb).op)
  /\ sent' = [sent EXCEPT ![Gateway] = @ + 1]
  /\ UNCHANGED <<records, seen, enforcing, link, hostRoutes, operations, restarts, history>>

\* The check both ends make of a command or an answer.
Admit(b, m) ==
  /\ m \in air /\ Readable(b, m)
  /\ IF b \in enforcing
     THEN /\ PassesGuard(b, m)
          /\ seen' = [seen EXCEPT ![b][m.from] = Watermark(m)]
          /\ taken' = IF Encrypted(m.key) THEN taken \cup {m} ELSE taken
          /\ repeated' = repeated \cup ({m} \cap taken)
     ELSE UNCHANGED <<seen, taken, repeated>>

\* processMessage at a display: the command runs, and its answer goes to the
\* sender while Secure Pairing is on, to everyone otherwise.
Execute(c, m) ==
  /\ sent[c] < MaxAnswers
  /\ Admit(c, m)
  /\ executed' = executed \cup {<<c, m.op>>}
  /\ air' = air \cup IF c \in enforcing THEN Unicast(c, {m.from}, m.op) ELSE Broadcast(c, m.op)
  /\ sent' = [sent EXCEPT ![c] = @ + 1]
  /\ UNCHANGED <<records, enforcing, link, host, restarts, held>>

\* processEspNowDatagram at the gateway: an answer goes on to the host.
RelayAnswer(m) ==
  /\ Admit(Gateway, m)
  /\ UNCHANGED <<records, enforcing, link, sent, host, restarts, air, executed, held>>
-----------------------------------------------------------------------------
Next ==
  \/ \E b \in Boards :
       \/ \E p \in Peers(b) : OpenAttempt(b, p) \/ Commit(b, p)
       \/ AttemptFails(b)
       \/ \E i \in DOMAIN records[b] : Forget(b, i)
       \/ ToggleSecurePairing(b)
       \/ Restart(b)
  \/ HostLists
  \/ \E c \in Clients : HostSendsTo(c)
  \/ HostSendsUnrouted
  \/ Relay
  \/ \E m \in air : RelayAnswer(m) \/ \E c \in Clients : Execute(c, m)

Spec == Init /\ [][Next]_vars
-----------------------------------------------------------------------------
LinkKeys == {NoEntry} \cup (Nat \X Nat)
Operations == (Nat \ {0}) \X (Clients \cup {NoPeer})
Frames == [from: Boards, to: Boards, key: LinkKeys \ {NoEntry}, id: Nat \ {0}, op: Operations]

\* Every variable has its type.
TypeOK ==
  /\ records \in [Boards -> Seq([peer: Boards, route: 1..MaxRecords])]
  /\ seen \in [Boards -> [Boards -> Nat]]
  /\ enforcing \subseteq Boards
  /\ key \in [Boards -> [Boards -> LinkKeys]]
  /\ attempts \in [Boards -> [Boards -> Nat]]
  /\ target \in [Boards -> Boards \cup {NoPeer}]
  /\ sent \in [Boards -> Nat]
  /\ usb \in Seq([op: Operations, route: 0..MaxRecords])
  /\ hostRoutes \in [Clients -> 0..MaxRecords]
  /\ operations \in Nat /\ restarts \in Nat
  /\ air \subseteq Frames /\ taken \subseteq air /\ repeated \subseteq air
  /\ executed \subseteq Clients \X Operations
  /\ held \in [1..MaxRecords -> SUBSET Clients]

\* A frame that was encrypted when it was sent passes the replay guard at most
\* once, whatever is captured and sent again, and although a restart of the
\* receiver takes the watermark back to zero (checkAndAdvanceReplayGuard).
AcceptedOnce == repeated = {}

\* A display never runs a command the host meant for another one, unless both
\* were given the same route id, one after the other (relayToEspNow, add).
RightClient ==
  \A e \in executed :
    LET for == e[2][2]
    IN  for \in Clients \ {e[1]} =>
          \E r \in 1..MaxRecords : {e[1], for} \subseteq held[r]

\* No step, a restart included, gives a display that stays paired another
\* route id (add keeps the id a record of trust.json comes with).
RouteStable ==
  [][\A c \in TrustedBy(Gateway) : c \in TrustedBy(Gateway)' => RouteOf(c)' = RouteOf(c)]_records

\* While both ends have the same link key and a record of each other, the next
\* command of the gateway is not taken for a replay (the watermark lives in
\* memory only, so that a renumbered sender is not refused).
NextCommandAccepted ==
  \A c \in Clients :
    Encrypted(key[c][Gateway]) /\ key[c][Gateway] = key[Gateway][c] =>
      sent[Gateway] + 1 > seen[c][Gateway]
=============================================================================
