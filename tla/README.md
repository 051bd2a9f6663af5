# A verification development for EspScreenBarcodeGenerator

The repository is the firmware of an ESP32 board with a touch screen that draws
barcodes, and the .NET programs that drive it over USB, ESP-NOW (directly or
through a second board in gateway mode), BLE and Wi-Fi Direct.  This directory
holds TLA+ models of the firmware's own logic, the TLC configurations that check
them, and TLAPS proofs of the main safety properties.

## 1. The system

Everything runs in one Arduino `loop()` (`src/src/main.cpp:105`) except the
radio callbacks, which only append to receive queues.  Each iteration gives every
part one turn, so handlers never interleave inside a board; what interleaves is
handlers of different boards, messages, touches (flags consumed one iteration
later), timeouts, restarts, and the host.

| Component | State | Operations | Talks to | What makes it correct |
|---|---|---|---|---|
| Pairing session (`TrustPairingSession`) | state, both hellos, two confirmed flags, deadline | begin, hello, confirm here, confirm there, cancel, tick, reset | its endpoint | commits only when both ends signed the same transcript |
| ESP-NOW endpoint, trust part (`EspNowEndpoint`, the same code in `GatewayRelay`) | session, target MAC, trust records, peer table of the radio | pair, confirm, deny, forget; begin/confirm/cancel messages; tick | the other boards, touch flags, `trust.json` | keys agree, records come from taps, no slot leaks, attempts end |
| Trust store and replay guard (`TrustStore`) | at most 6 records with a route id and a message watermark | add, forget, find, check and advance | endpoint, relay | stable unambiguous routes, no frame accepted twice |
| Receive queues (endpoint, relay, BLE) | ring buffer | enqueue in a callback, dequeue in `loop()` | radio task, main loop | a bounded FIFO: no tearing, no reordering |
| Frame codec and reassembly | partial messages | add a fragment | all v2 transports | a completed message is one that was sent |
| Gateway relay | counters, stats, route ids | relay to USB, relay to ESP-NOW, ping, list, forget | host, boards | a host command reaches the client it was meant for |
| Control engine and sessions | result cache of 8, upload in progress, symbol on display | 19 commands | every transport | a retried command runs once; an upload is complete or invisible |
| Serial endpoints, transport switch | active transport | legacy line, COBS block, upgrade, gateway | host | one-way switch, nothing dispatched twice |
| BLE and Wi-Fi Direct | connection state, partial frames, credentials | connect, disconnect, write, provision | host | a new connection starts clean |
| Persistence | files, NVS | load, save | LittleFS, SD | memory and flash agree after a failure or a power loss |
| Transport selection | health of each link | score, choose | host and firmware | both implementations choose alike, no flapping |
| Host clients | pending requests | send, answer, time out | firmware | an answer completes its own request |
| Touch screen application | the screen shown, the spec edited, the symbol, a page of presets | buttons, keyboard, rows, switches; display, generate, load | stores, main loop | a touch does what the screen says; every screen agrees with what is behind it |
| Encoders, JSON codec, crypto, adapters | | encode, decode | | see `PROJECT.json` |

What is hard here: messages that are lost, repeated and late on a radio without
acknowledgements; two boards that start pairing at once; touches that are acted
on later than they were made, and looked up in lists that have changed since they
were drawn; slots of a small peer table that every failure path has to give back;
files written in place, by writes that fail or stop in the middle; a serial port
that changes its owner in the middle of a stream of bytes; restarts that clear half
of the state; a host that retries.  `PROJECT.json` lists these hazards at their
lines.

## 2. Modules

| Module | Content |
|---|---|
| `TrustPairingSession` | one attempt as a record; every method of the class is an operator on it |
| `EspNowTrust` | boards with a session, a store, a `trust.json` and a peer table each; one action per request, message kind and outcome, the clock, timeout, restart, reflash and gateway switch |
| `LinkConsent` | abstract specification: a key is installed only for a transcript of exactly these two boards which both signed |
| `EspNowTrustInvariant` | the inductive invariant `IInv` |
| `EspNowTrustProofs` | `IInv` is inductive; safety, the action property and the refinement follow |
| `EspNowPeerTableProofs` | no entry of the peer table outlives its attempt; a board has no more link keys than its store may have records |
| `RelayedTraffic` | commands of the host through the gateway to the displays and the answers back; route ids and watermarks of the trust records under pairing, forgetting, restarts and the Secure Pairing switch |
| `RelayedTrafficProofs` | the replay guard, displays keeping pace with the gateway, route ids across restarts, and the display a command runs on |
| `HopReceive` | frames from the senders' fragmenter, message after message of each board, over the air through the ring buffer, which the receive callback fills and the main loop empties, into the assembler's messages |
| `DatagramQueue` | abstract specification: a bounded first-in first-out queue whose full state refuses the newest |
| `HopReceiveProofs` | bounds, the order in which frames are heard, whole messages, the ring implementing the queue, and nothing lost of a message that was heard |
| `ControlSession` | a session of the control engine: results kept for commands that must not run twice, and the upload in progress |
| `ReplayWindow` | abstract specification: what a session promises a host that repeats a command |
| `ControlSessionProofs` | the ring of results is a window of the last commands; only whole uploads reach the application |
| `BarcodeBoard` | the screens of the board (all but that of gateway mode), the commands that reach it, presets and `device.json` |
| `BarcodeBoardProofs` | an invariant in four parts, one lemma for each way to draw and to write, and the properties of the run |
| `MainLoop` | `loop()`: the serial port's owner and its bytes, the radio's owner, the requests of the screen, `trust.json`, the Secure Pairing switch |
| `MainLoopProofs` | types and bounds, the switch and the trust list on flash, and every message on the serial port handled once |
| `WifiDirect` | the connection to a group over Wi-Fi, closed or left half-open by its host, its credentials, and the frames on it |
| `WifiDirectProofs` | types and bounds, and the parser handing on the frames that were sent |
| `MC...` | boards, streams, texts, panels and bounds for TLC |

How they compose: a datagram is a command (`RelayedTraffic`) or a handshake
(`EspNowTrust`), and reaches the assembler through `HopReceive`; an assembled command,
a serial line (`MainLoop`) or a frame over Wi-Fi (`WifiDirect`) goes through
`ControlSession` to `BarcodeBoard`.  The modules meet at what one promises the next and
are not one state space: `EspNowTrust` promises `LinkConsent`, of which `RelayedTraffic`
and the `Radio` of `MainLoop` take the part they need.

How the state of `EspNowTrust` corresponds to the code: `session[d]` is
`trustPairing_`, with `waited`, the steps of the clock since `lastChangeMs_`;
`target[d]` is `pairingTargetMac_`, `store[d]` the records of `trustConfig_`, `file[d]`
those that `trust.json` holds, `registered[d]` and `lmk[d]` the entries and keys of
`esp_now_add_peer`/`esp_now_mod_peer`, `gateway[d]` says that `GatewayRelay` has
taken over, `tap[d]` is the pending confirm or deny flag of `BarcodeApplication`.
`signed`, `tapped`, `forgotten` and `stray` (the entries for which the switch to gateway
mode found no record) are history variables: no guard depends on them.

Abstractions.

* A hello is `<<key, n>>`: the static key of a board (with its generation, since
  a reflash makes a new one) and a fresh number for the ephemeral key and nonce.
  Only its owner can build it, and only a key's owner can sign under it: that
  signatures and key agreement keep their promise is assumed.
* The transcript, the code on the screen and the link key are the set of the two
  hellos.  `deriveFromHellos` orders the hellos by content, not by role, so both
  ends get the same value.
* A sent message stays on the air for ever, so it may be received never, once, or
  repeatedly, and in any order.  An encrypted frame is readable only under an
  entry with the same key.
* A begin that does not verify stands for a hello put together from fragments of
  two (`ReceiveHelloGarbled`).
* A write of `trust.json` (`WriteResults`) is refused before it opens the file, comes out empty
  (truncated, no byte written, and reported as failed), is cut short (some bytes
  written, which counts as saved) or is whole.  A file that is empty or cut holds no
  records for the next `begin`, on a restart or on the switch to gateway mode, where
  `GatewayRelay` loads a list of its own while the radio keeps its peer table.
* The clock moves in steps while an attempt runs (`ClockMoves`), and `Window` steps are
  `timeoutMs`; every handler that sets `lastChangeMs_` sets `waited` to zero.
* Failures of the random generator while a hello is built are left out.
* `MaxHellos` and `MaxIdentities` bound behaviours; they are in the guards of
  `BeginPairing`, the two hello handlers and `Reflash`.

How the state of `RelayedTraffic` corresponds to the code: `records[b]` is the array
of `TrustStore` in its order (forget moves the last record into the gap),
`seen[b][p]` is `lastSeenLinkMessageId`, `enforcing` is `securePairingEnabled_`,
`sent[b]` is `usbToEspNowLinkMessageCounter_` of the gateway and
`linkMessageCounter_` of a display, less one.  Its pairing is not the handshake again
but what `LinkConsent` promises of it: an attempt puts the entry in the clear, and
ends without a key or with one made of this attempt and one of the peer's.  Frames
stay on the air as in `EspNowTrust`, with the key they were sent under.  Messages are
whole (no fragments), and trust and discovery messages, which the guard does not see,
are left out; they leave gaps in a display's numbers, which the guard allows.  A
gateway that restarts is a display until the host switches it again; the model goes
straight to the second switch.

How the state of `HopReceive` corresponds to the code: `slots`, `head` and `tail` are
`rxQueue_`, `rxHead_` and `rxTail_`, `datagram` the local copy in `loop()`, `partial` the
vector `partial_` with the fragments that have arrived.  `Receive` runs in the Wi-Fi task and
`Take` in the main loop, each under the spin lock and so one step; `Process` runs without
it, and `Receive` may happen before or after.  A frame carries what tells it apart (stream,
boot, id, index, count) in place of its payload, so two frames with the same header from
different streams count as a conflict or a duplicate alike, and the code drops both.  The
streams of a board (in a gateway the relayed messages and its own, in a display its answers) are
sent by one main loop, so all frames of a board arrive in the order they were sent
in, each never, once or several times.  A restart of a board starts all its counters again.
  Checksums and layouts are left out.  `sent`, `boot`, `heard` and `delivered` are history
variables (`sent` also carries the bound `MaxMessages`), and `nth` and `boot` of a frame, which no header has, say which
message of its board it is of and when the board had last restarted.

How the state of `ControlSession` corresponds to the code: `cache` and `cursor` are
`cache_` and `cacheCursor_`, `upload` is `TransferState`, `matrix` what was last given to
`setUploadedMatrix`.  Commands whose result is not kept are left out but for the upload.
No endpoint repeats an operation id today (each numbers what it receives itself, or
accepts no such command), so the cache is modelled at the engine's interface, under a
host that may.  Whether a command of the device succeeds is free.  `accepted` and
`executed` are history variables (`executed` also carries the bound `MaxRuns`).

How the state of `BarcodeBoard` corresponds to the code: `spec` is `spec_`, `current` is
`current_` with `currentIsRaw_`, `view` is `view_`, `panel` is `appliedOrientation_`,
`config` and `configFile` are `DeviceConfigStore` and `device.json`, `presets` the files
under `/presets`, `page` and `deleting` the two fields of the Presets screen.  `screen` is
what a user sees: which screen was last drawn, by which orientation, with which rows or
symbol.  A spec is reduced to its content and its smallest module, the pixels of a layout to
whether a symbol fits an orientation (`Scale`), a name of a preset to a number with the
slots first.  Touches and commands each run to their end in the loop and are one action
each; a screen is drawn at the end of the action that asks for it.  A write ends refused,
empty (opened, nothing written), cut (some of it written, reported as saved) or whole; a
power loss is the cut without the report.  Pixels, touch geometry, calibration, the backlight, and the
move of presets to an SD card are left out, and so is the Gateway screen, which is drawn by `GatewayRelay`'s
numbers and leads nowhere but to a restart.

How the state of `MainLoop` corresponds to the code: `turn` is where an iteration of
`loop()` is; `active` is the variable of that name; `wire` the receive buffer of the serial
port; `line`, `discarding` and `block` the endpoints' buffers; `requested` their two flags;
`button`, `toggle` and `forget` the screen's flags; `told` and `list` its copies of the
pairing status and of the fingerprints, `drawn` the rows it drew.  A message is a few
bytes, of which only "newline", "zero" or another matter, and a byte remembers its message, so
that `Whole` can say what parsing and checksums say.  Bytes arrive between any two steps; a
loop that reads until none is available may stop before any byte.  Handshakes are reduced to
an attempt that waits, ends or commits.  `sent`, `handled`, `byButton` and `touched` are
history variables (`sent` also carries the bound `MaxMessages`, and says what a host may
still expect).

How the state of `WifiDirect` corresponds to the code: `state`, `credentials` and `parser`
are `state_`, `credentials_` and `frameParser_`; `waited` and `since` are the ticks from
`stateEnteredAtMs_` and `lastConnectAttemptMs_` to `millis()`, up to where they are compared;
`nvs` is what `WifiDirectProvisioning::load` would find.  The network, the group and the host are
external (`group`, `wifi`, `client`, `peer`, `stream`).  `client` is what `client_.connected()` says, and
`peer` whether the host still has its end: a host that closes the connection ends both, one that is
switched off or out of reach only `peer`, and a network that is lost neither or both.  A byte of a frame says what length it would
end a header with.

## 3. Runs

| Run | Instance | Shows |
|---|---|---|
| `pair` | 2 boards, 2 hellos each, 1 slot each, 2 records, writes that come out empty, cut or whole; one may lose its identity, the other become a gateway | keys agree, both signed, records come from taps and what is forgotten stays so until the next tap, reconnects are silent, handshakes go in the clear, one record for a MAC, a pinned key is never replaced, no orphan entries but those the switch to gateway mode leaves; the handlers implement `LinkConsent` |
| `third` | 3 boards, hellos 2+1+1, slots 2+1+1, 1 record, a window of 1 step, `FairSpec` | a third board competing for slots and the record: never more link keys than records may be kept, every attempt ends unless its peer's confirmation comes again and again; `IInv` is checked where three parties mix |
| `replay` | 1 display that restarts and a gateway that does not, 2 attempts each, 2 commands | no encrypted frame passes the replay guard twice; the gateway's next command is not taken for a replay |
| `routes` | 2 displays, the gateway restarts and forgets, 1 command | a command runs where it is meant to, or where its route id was given next; route ids do not change |
| `renumber` | 1 display, the gateway restarts | the second property of `replay` does not hold then (below) |
| `frames` | a display hears two messages of its gateway: relayed ones of 2 frames, the gateway's own of 1 or 2; 2 usable slots, 1 partial message, 2 restarts of either end | assembled messages are whole, or of two messages that a restart of the gateway lies between; a message that was heard completely is handed on; the ring is a queue |
| `mixed` | a gateway hears two displays, one message of two frames each | messages are not whole then (below) |
| `session` | 2 results, 3 operation ids, matrices of up to 2 bytes, 2 runs for an id | a repeated command runs once within the window, uploads are whole |
| `board` | 3 preset names of which 2 are slots, 1 row to a page, 2 contents of which one cannot be encoded, 2 orientations of which one is too small, all outcomes of writes, power losses | touches reach the screen that is drawn, rows are what they say, flash keeps its promises, the limit of presets holds, SAVE overwrites nothing |
| `serial` | 3 messages of 6 kinds, lines of 1 and blocks of 2 bytes, 1 peer, all outcomes of writes, `FairSpec` | messages are handled once by the endpoint they are for, across the switches; the Secure Pairing switch and the trust list on flash tell the truth; the button enters gateway mode |
| `ghost` | 3 peers, no host | a touch forgets a device that is not drawn (below) |
| `wifi` | 2 groups, headers and frames of up to 2 bytes, 2 frames to a connection, timeouts of a tick, `FairSpec` | frames are delivered whole and in order, attempts end, a host that stays is connected to again, unless a half-open connection stays for ever |

Each of `pair` and `third` has what the other leaves out (gateway, lost identity and failing writes; a third board, the
clock), as together they would be out of TLC's reach; the theorems have all of it at once.

The bounds.  Two hellos for each board are the least with which a late message of
one attempt meets a later attempt of the same pair, which is what the signature
over the transcript is for.  One slot on one board, two slots and one record on another, make every "full" path happen;
the constants of the code (6 records) would need seven boards for the same paths.
A third board is needed for the checks on the target MAC to matter.  For the guard, two attempts on each side make
an old key meet a new one, and two commands a stale number meet a later one; for the
routes, one command is enough, since what misleads it is what happens to the records
between listing, sending and relaying.  In `frames`, two messages are what
is mixed, or what evicts: a table of one entry is full with the first.  Either message may be of either
stream, so the two have one number in two sessions, two numbers in one, or, with a restart
between them, one number in one session; two restarts let both ends
restart.  A ring of three slots wraps around and fills.  In `session`, three ids are one more than the window; in `board`, three names are
one more than the slots, and pages of one row make the last page vanish with its preset; in
`serial`, a line and a block each have a message that fits and one that does not, and the third message is
one behind a switch; in `wifi`, lengths from zero to one above the limit break at every byte.  What the
bounds leave open, the theorems close for the properties of section 4.

Fairness.  In `EspNowTrust` weak fairness, for each board, of the clock and `Timeout` together: `millis()` moves on
and `loop()` calls `tick()` in every iteration once the receive queue is drained.  Nothing is assumed about the
radio, the user or the peer, and so an attempt need not end: each good confirmation of the peer, a repeated
one too, starts the window anew while the attempt waits for the tap (`onPeerConfirm`).  `AttemptEnds`
says that this is the only way.  (It is assumed that the drain
ends, that is, that datagrams do not arrive faster than they are handled.)  In `MainLoop`
weak fairness of each part of `loop()`, which is called for ever; the bound on messages
stands for a host that falls silent sooner or later, without which reading need not end.  In
`WifiDirect` weak fairness of `loop()` and of the clock, and strong fairness of what the network
owes: a group that is there lets the board associate, and stays long enough for the next
call to see it, sooner or later.  Without that last part only `AttemptsEnd` would hold.  Nothing is
assumed to end a connection whose host is gone: in `Connected` the loop asks only `client_.connected()`, and
nothing is sent unasked, so `Reconnects` has a second outcome, that the board stays with such a connection for ever.

Deadlock checking is on but for `HopReceive`, where every message has been sent and handled in the
end: a board may always restart, a host may always list the routes again (`RelayedTraffic`), and
time passes (`WifiDirect`).

### Disagreements between code and documents

* `renumber`: the watermark is in memory only so that a renumbered peer is not refused
  "after either device restarts"; but when only the gateway restarts, the silent
  reconnect finds the display's record in place and keeps its watermark, and the
  gateway's commands are dropped until their numbers pass it.

* `mixed`: a partial message is identified by session, message id and route, not by its
  sender.  All displays send session 3, route 0 and their own count from 1, so that a
  gateway that loses one frame of each of two displays completes a message from both.  A test
  says of the assembler that it "must not silently "complete" with wrong data".

* `ghost`: the Trust screen looks a touched row up in the list of now.  The main loop draws the
  screen when an attempt ends and hands over the new list after that, so the device that was
  just paired is in the list and not on the screen, and a touch below the last row drawn
  forgets it; a comment says that such a touch "must not resolve to a real-but-invisible peer".

Also met, and modelled as the code has it:

* A Forget while an attempt with the same peer is in flight does not end the attempt, and the
  peer's confirmation stores the record again without a tap ("Forget forces re-pairing on next
  contact", `src/src/EspNowEndpoint.cpp:582`).  `ForgottenNeedsTap` is about what was forgotten
  between attempts.
* A tap on Confirm is applied to the attempt that is current when the loop reads the flag.
* Repeated confirmations put off the timeout of an attempt for as long as they go on, and other attempts are refused for that time,
  where a comment says that an attempt nobody confirmed "must not block all future pairing forever"
  (`src/src/GatewayRelay.cpp:68`).
* A gateway may hold link keys without records: the switch reads `trust.json`, which a failed or cut write has emptied,
  and the radio keeps its entries.  `LinkAgreement` and `NoOrphanEntry` name these entries (`stray`).
* After a restart of a gateway or display its counters begin again, and a frame of a new message completes what
  another board's assembler still holds of an old one with that number.
* A Wi-Fi host or network that goes without closing the connection leaves the board in `Connected`.
* `ensureUnencryptedPeer` deletes a trusted peer's encrypted entry when an attempt starts, and an attempt
  that fails leaves the entry in the clear or gone.
* After a symbol did not fit, the old screen stands under the new orientation, and touches miss
  until the next drawing; `TouchesMeetTheScreen` excuses that time.
* A host that saves or deletes presets while the Presets screen is shown makes the list differ from the rows, and a touch
  acts on another preset than its row says; `RowsAsShown` excuses that time.
* An upload that is not finished or aborted refuses every later one on its session.
* A write of `trust.json` that fails keeps the list in memory and has emptied the file: the list is
  lost with the next restart or at the switch to gateway mode, although `addRecord` and `forget` take the change back in memory
  to keep the two consistent.
* The request of the gateway button, made while the COBS endpoint has the port, waits for ever.

`NothingHeardIsLost` is checked and proved for what one board sends.  With two of them the oldest
partial message may be one whose frames are still arriving, and eviction loses it.

`RightClient` allows a command to run on another display only where both were given
the same route id one after the other: `TrustStore::add` gives a freed id to the next
display, so a host that has not listed the routes since addresses the wrong one.

The switch to gateway mode in the middle of an attempt leaves the attempt's entry in the
radio's table (`GatewayRelay` starts with a session of its own, and nobody ticks the old
one), and a file that was emptied leaves entries without records: `NoOrphanEntry` counts neither as an orphan.

## 4. Proofs

For every set of boards, every number of hellos, identities, records and slots,
and any outcome of writes (`ConstantsAssumption`), TLAPS checks:

| Theorem | Statement |
|---|---|
| `Invariant` | `Spec => []IInv` |
| `TypeCorrect`, `LinksAgree`, `OneRecord`, `ByHand`, `Silent`, `InClear` | the invariants of the runs, from `IInv` |
| `PinKept` | no step replaces a pinned key |
| `ForgetIsForGood` | a record forgotten between attempts is there again only after a tap |
| `Implements` | `Spec` implements `LinkConsent` |
| `NoOrphans` | no entry outlives its attempt, but for those the switch to gateway mode leaves |
| `WithinLimit` | no more link keys than the store may have records, not counting those whose records the switch lost |
| `NoReplay` | (`TrafficAssumption`) no encrypted frame passes the replay guard twice |
| `CommandsAccepted` | (and the gateway does not restart) its next command is not taken for a replay |
| `TrafficTypeOK` | types |
| `RoutesStay` | no step, a restart included, gives a display that stays trusted another route id |
| `RightDisplay` | (and the gateway keeps Secure Pairing on) a command runs where it is meant to, or on a display that was once given the same route id |
| `ReceiveTypes` | (`ReceiveAssumption`) the indices stay in the ring, the table of partial messages keeps its bound |
| `AssembledWhole` | (and `ToldApart`: a session for every stream) assembled messages are whole: the frames are of one message, or the board that sent them restarted between two |
| `RingIsQueue` | the ring implements `DatagramQueue` |
| `HeardIsDelivered` | (and `OneSender`: one board sends) a message that was heard completely is handed on, for every size of the table, unless another of its number was heard |
| `SessionTypes`, `UploadIsWhole` | (`SessionAssumption`) bounds of cache and upload; only whole matrices reach the application |
| `CacheIsWindow` | the cache implements `ReplayWindow` |
| `BoardTypes`, `TouchesAreMapped`, `RowsAreShown`, `SettingsKept`, `PresetsLimited`, `SaveIsAdding` | (`BoardAssumption`) every property of the run `board` |
| `LoopTypeOK` | (`LoopAssumption`) types, and the limits of `line_`, of the receive block and of the trust list |
| `SwitchTellsTheTruth`, `TrustFileKept` | the Secure Pairing switch, and the trust list on flash |
| `MessagesHandledOnce` | (and `PlainText`) every message is handled once, in order, by the endpoint of its protocol |
| `WifiTypeOK` | (`WifiAssumption`) types and bounds |
| `FramesInOrder` | what the parser hands on are the frames that were sent, whole and in order |

The argument.  `LinkAgreement` is about the store and the peer table, but it holds
because of what the session knew when it committed; so `IInv` follows a handshake
from the air (`MessageInv`: a hello names its sender, a confirmation was signed)
through the session (`SessionInv`: whose hellos these are, and which signatures
the two flags stand for) into the store (`StoreInv`) and the table (`LinkInv`).
`StoreInv` also carries the fact that makes `OneRecordPerMac` true although
`TrustStore::add` compares keys only: an attempt that waits for a tap has an
untrusted target, and one that waits for the peer has the pinned key.  One lemma
per action shows that the board that acts keeps `BoardInv`; a frame lemma shows
that the other boards do not notice.  `NoOrphans` adds what registered entries
mean while an attempt runs.  What a switch to gateway mode lost stays named: `LinkInv` asks of a link key
a record or a place in `stray`, and agreement of both.  The abstract step of `Implements` is the acting
board's: what it signs is its own, and the only entry that gets a key gets it in
`FinalizePairingCommit`, where `SessionInv` has both signatures.

`WithinLimit` counts: every encrypted entry that is not stray has a record with its MAC, and a record is
added only below the limit.

`NoReplay` cannot come from the watermark alone, which a restart or a new record takes
back to zero.  It holds because whatever lowers the watermark also drops the key, and
a key never comes back: `GuardInv` says that a key in use was made of an attempt that
is over (`KeyInv`), and that an accepted frame either has such an old key or is below
the watermark (`TakenInv`).  `CommandsAccepted` adds that no display has seen, and no
frame carries, a number the gateway has still to use (`PaceInv`).

`RoutesStay` and `RightDisplay` are about what a board loads after a restart: `loadRecords` adds the
records of the file one by one, and each gets the lowest free id unless it has one.  `Loaded` is
a function on the numbers of records added, and the proof that it gives back the list
it started from takes the least number for which it does not (`Orderly` lists have every id once, so no
record has to be given another).  `RecordsInv` says that every
list is orderly and that `held` has seen every route; `WayInv` follows a command along its way: the
id the host has listed, the id it sends, the board the frame is for and the board that runs it each
share an id with the display that is meant.  It needs a gateway that enforces Secure Pairing, since
otherwise commands are broadcast and every display runs them.

`AssembledWhole` rests on what a partial message holds (`Partials`): frames with its key and
its count, which `ToldApart` turns into frames of one stream with one number; and on `ArrivalInv` (below), which says
of two such frames that they are of one message or that the board restarted between them, as its counters
only grow in between.  `RingIsQueue` maps the queue to
the slots between the indices; `EnqueueAppends` and `DequeueTakes` show what a move of an index
does to that sequence, and `RingArithmetic` frees them of the modulus.

`HeardIsDelivered` is about eviction: a message is lost when newer partial messages push it out of the
table between two of its frames.  `ArrivalInv` says that on the air, in the ring and in hand the
frames of a board stand in the order they were sent in, through losses, repetitions and
restarts; so a new message begins only after the last frame heard of every earlier one.  `LastInv` says that the message
heard last, as long as it is not complete, is the newest entry of the table, with every
fragment heard of it, unless its number was used before.  Whatever is evicted is older, even from a table of one.  The property
fails with two senders (`OneSender`), and for a number that was heard before a restart.

`ForgetIsForGood` says more of every board than the property: an attempt that only waits for its
peer is not for a forgotten key either (`ForgetInv`).  It got there by a tap, which takes the key out of
`forgotten`, or because a record of the key was there; and a record that goes in the middle of its
attempt is not counted.

`CacheIsWindow` maps the window to the entries from the cursor on: while there is room the cursor
is at the first place and the entries are in order, and once it is full an entry put at the cursor
replaces the oldest and becomes the newest (`InOrder` under one step of the modulus).  `UploadIsWhole` carries that
the bytes below `nextOffset` are the accepted ones.

For `BarcodeBoard` the invariant has a part for the settings, the symbol, the presets and the display.
`DisplayInv` is inductive only with the fact that the barcode is never shown without a symbol: without
it, turning the barcode's orientation would change the setting and draw nothing.  `WriteKeepsLimit`
says that whatever a write leaves, it is under a name that could be saved, and
`RenderGives` needs that a preset saved by `generate` is saved only when the symbol fits, as otherwise rows
on the screen would be stale without a drawing.

In `MainLoop`, a write that fails after the swap-removal puts the record back at the end, so list and
file agree as sets and not in order (`SwapRemovedIs`); `TrustOnFlash` is stated that way.

`MessagesHandledOnce` relates three sequences: what was sent, the bytes not read yet, and
what was handled.  `WireInv` says that the bytes on the wire are consecutive and end with the last byte
sent, so one place (`NextOf`, `NextAt`) tells all of what has been read.  `LineInv` and `BlockInv` say that
the buffer of the endpoint holds the bytes read of the message at that place, cut at the limit of a block or
discarded beyond that of a line; for a block this begins where the endpoint is in
step (`InStep`), which after a switch on the screen is behind the first frame.  `SentInv` is what a host knows: behind
a request there are frames only.  `HandledInv` says that every message
before that place is handled if it was owed.  `PlainText` is what the two encodings give: no newline inside
a line, no zero inside a block, at least one byte before the end, and requests that fit the line limit.

In `WifiDirect` the parser sees bytes in reads of any size and consumes a read byte by byte (`Feed`, a
function on the numbers of bytes).  `ParserInv` says that the header and buffer it keeps are the beginning of the
frame behind those handed on, and that the next byte of the stream is the next of that
frame (`Upcoming`); `Fine` carries that through a read, and the least byte at which it would fail gives the
contradiction.  `StreamInv` says that the bytes on the stream follow each other without a gap.  A
length beyond the limit, or zero, is never in the middle of this: the connection is dropped and both ends
begin again.

`Loaded` and `Feed` are functions on numbers, and both inductions are proofs by the least counterexample
(`WFMin` on `NatLessThanWellFounded`), since no prover here can use an induction theorem with an
operator for its argument.

Model-checked only: `AttemptEnds`, `ButtonEntersGateway`, `AttemptsEnd` and `Reconnects`, as liveness is out of
TLAPS's reach.  Every other property of a run that passes is a theorem.

## 5. Plan, and what is not modelled

Modelled, in this order: secure pairing; replay guard and route ids; receive queue and
reassembly; control sessions; the board with its screens and files; the main loop; Wi-Fi Direct.

Left out of a module that models the rest: a host program that starts anew while the board stays in the protocol
the host had asked for (`Expects` in `MainLoop`); a start-up on which the trust store cannot be opened, which only `MainLoop`
has, and a new identity made because the one in NVS cannot be read, where `Reflash` of `EspNowTrust` clears the records as well; what a
display hears of several gateways at once (`NothingHeardIsLost`).

What would come next: the BLE data path (its queue is
filled by writes and outlives a disconnect); the discovery pings with their clock of milliseconds; the move
of presets between LittleFS and an SD card; in the host clients, requests against timeouts and late
answers; the two implementations of the selection policy against each other (the firmware calls neither).

Not modelled: the barcode encoders (numeric, covered by golden tests, and out of TLC's reach but for
check digits), pixels and touch geometry, the field by field conversion of JSON, the byte layouts and
checksums of frames, cryptography, which is assumed to keep its promise, adapters to the hardware, and
the web pages and viewers.
