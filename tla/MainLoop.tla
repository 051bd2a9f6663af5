------------------------------ MODULE MainLoop ------------------------------
(***************************************************************************)
(* loop() of main.cpp: who owns the serial port and the radio, and what    *)
(* the Settings and Trust screens know of the owner.  An iteration reads   *)
(* the serial port, runs the radio's owner, serves what the screen asked   *)
(* for and ends with a touch.  Bytes arrive while it runs: a loop that     *)
(* reads until none is available may end before any byte.  Pairings come   *)
(* and go by themselves here; EspNowTrust has them in full.                *)
(***************************************************************************)
EXTENDS Naturals, Sequences, SequencesExt

CONSTANTS
  LineKinds,      \* messages of the legacy protocol: "upgrade", "gateway", others
  FrameKinds,     \* messages in COBS blocks
  Text,           \* Text[k]: the bytes of a message, "char", "newline" or "zero"
  LineLimit,      \* kSerialLineLimit
  BlockLimit,     \* bytes a receive block can have
  MaxMessages,    \* bound: messages a host sends between two restarts
  Peers,
  MaxRecords,
  WriteResults,   \* how a write of trust.json can end
  NoPeer, Unreadable, NoRequest

Kinds  == LineKinds \cup FrameKinds
Owners == {"Legacy", "CobsV2", "GatewayRelayMode"}

ASSUME LoopAssumption ==
  /\ {"upgrade", "gateway"} \subseteq LineKinds /\ LineKinds \cap FrameKinds = {}
  /\ Text \in [Kinds -> Seq({"char", "newline", "zero"})]
  /\ \A k \in LineKinds : Last(Text[k]) = "newline"
  /\ \A k \in FrameKinds : Last(Text[k]) = "zero"
  /\ LineLimit \in Nat /\ BlockLimit \in Nat /\ MaxMessages \in Nat /\ MaxRecords \in Nat
  /\ WriteResults \subseteq {"refused", "empty", "cut", "whole"}
  /\ NoPeer \notin Peers /\ NoRequest \notin BOOLEAN /\ Unreadable \notin Seq(Peers)

VARIABLES
  turn,        \* what the loop does next: "serial", "radio", "requests", "screen"
  active,      \* which transport owns the serial port
  sent,        \* the kinds of the messages the host has sent
  wire,        \* bytes sent and not read
  line,        \* line_
  discarding,  \* discardingLine_
  block,       \* rxBlock_ of the owner
  requested,   \* upgradeRequested_ and gatewayRequested_
  handled,     \* auxiliary: what was handled, in order, and by whom
  byButton,    \* auxiliary: the screen made the switch
  button,      \* gatewayModeToggleRequested_
  ready,       \* trustReady_ of the radio's owner
  nvs,         \* "secure_on"
  secure,      \* securePairingEnabled_ of the radio's owner
  shown,       \* securePairingEnabled_ of the screen
  toggle,      \* securePairingToggleRequested_ and its value
  records,     \* the owner's TrustStore, in its order
  file,        \* trust.json
  session,     \* whether the owner's attempt waits for a tap
  told,        \* the same, as the screen last heard
  list,        \* the screen's copy of the fingerprints
  view, drawn, \* the screen shown, and the rows drawn on the Trust screen
  forget,      \* trustForgetFingerprint_, or NoPeer
  touched      \* auxiliary: the peer drawn where forget was tapped

serial == <<active, sent, wire, line, discarding, block, requested, handled, byButton>>
switch == <<ready, nvs, secure, shown, toggle>>
trust  == <<records, file, session, told, list, forget, touched>>
screen == <<view, drawn>>
vars   == <<turn, serial, button, switch, trust, screen>>
-----------------------------------------------------------------------------
(* The serial port.                                                        *)

Bytes(i, k) == [j \in 1..Len(Text[k]) |-> [of |-> i, at |-> j, is |-> Text[k][j]]]

\* A host knows that it has asked for another protocol, but not, at first, that
\* the screen has.  (A host program that starts anew while the board stays in
\* another protocol is left out.)
Expects ==
  IF \E i \in DOMAIN sent : sent[i] \in {"upgrade", "gateway"} \cup FrameKinds THEN FrameKinds
  ELSE IF byButton THEN Kinds ELSE LineKinds

HostSends(k) ==
  /\ Len(sent) < MaxMessages /\ k \in Expects
  /\ sent' = Append(sent, k)
  /\ wire' = wire \o Bytes(Len(sent) + 1, k)
  /\ UNCHANGED <<turn, active, line, discarding, block, requested, handled, byButton,
                 button, switch, trust, screen>>

\* A buffer is a message when it has all its bytes but the last, and no others.
Whole(buffer, kinds) ==
  /\ buffer # <<>> /\ sent[buffer[1].of] \in kinds
  /\ buffer = Front(Bytes(buffer[1].of, sent[buffer[1].of]))
Handle(i) == handled' = Append(handled, [of |-> i, by |-> active])
Garbage == 0

ProcessLine ==
  IF ~Whole(line, LineKinds) THEN Handle(Garbage) /\ UNCHANGED requested
  ELSE LET i == line[1].of
       IN /\ Handle(i)
          /\ requested' = IF sent[i] \in {"upgrade", "gateway"} THEN sent[i] ELSE requested

\* A line that is too long is reported at its end.
EndOfLine(b) ==
  /\ line' = <<>> /\ discarding' = FALSE
  /\ IF discarding THEN Handle(b.of) /\ UNCHANGED requested
     ELSE IF line = <<>> THEN UNCHANGED <<handled, requested>>
     ELSE ProcessLine

\* In the mutant the line takes one character more.
CharOfLineTooMany(b) ==
  /\ IF discarding THEN UNCHANGED <<line, discarding>>
     ELSE IF Len(line) > LineLimit THEN discarding' = TRUE /\ line' = <<>>
     ELSE line' = Append(line, b) /\ UNCHANGED discarding
  /\ UNCHANGED <<handled, requested>>
CharOfLine(b) ==
  /\ IF discarding THEN UNCHANGED <<line, discarding>>
     ELSE IF Len(line) >= LineLimit THEN discarding' = TRUE /\ line' = <<>>
     ELSE line' = Append(line, b) /\ UNCHANGED discarding
  /\ UNCHANGED <<handled, requested>>

\* Nothing more is read by an endpoint that has been asked to hand over.
\* In the mutant it reads on.
KeepsReadingOn == TRUE
KeepsReading == requested = "none"

ReadLine ==
  /\ turn = "serial" /\ active = "Legacy" /\ KeepsReading /\ wire # <<>>
  /\ wire' = Tail(wire)
  /\ IF Head(wire).is = "newline" THEN EndOfLine(Head(wire)) ELSE CharOfLine(Head(wire))
  /\ UNCHANGED <<turn, active, sent, block, byButton, button, switch, trust, screen>>

\* A block that was cut short, or has bytes of something else, is dropped.
ReadBlock ==
  /\ turn = "serial" /\ active # "Legacy" /\ wire # <<>>
  /\ wire' = Tail(wire)
  /\ IF Head(wire).is = "zero"
     THEN /\ block' = <<>>
          /\ IF Whole(block, FrameKinds) THEN Handle(block[1].of) ELSE UNCHANGED handled
     ELSE /\ block' = IF Len(block) < BlockLimit THEN Append(block, Head(wire)) ELSE block
          /\ UNCHANGED handled
  /\ UNCHANGED <<turn, active, sent, line, discarding, requested, byButton,
                 button, switch, trust, screen>>
-----------------------------------------------------------------------------
(* The radio's owner and its store.                                        *)

\* loadRecords: a file that is missing or cannot be read is an empty list.
Loaded == IF file = Unreadable THEN <<>> ELSE file

\* TrustConfigStore::begin.
Load ==
  \E ok \in BOOLEAN :
    /\ ready' = ok
    /\ secure' = (ok /\ nvs)
    /\ records' = IF ok THEN Loaded ELSE <<>>
    /\ session' = "idle"
    /\ shown' = secure'

\* The relay begins with what is on flash, and the radio's branches of the
\* loop are left out this once.
EnterGateway ==
  /\ active' = "GatewayRelayMode" /\ byButton' = (requested # "gateway")
  /\ Load /\ list' = <<>>
  /\ view' = "Home" /\ drawn' = <<>>
  /\ turn' = "screen"
  /\ UNCHANGED <<nvs, toggle, file, told, forget, touched>>

\* The button of the screen and the command lead to the same mode, and before
\* the other one.  In the mutant a request over the line comes first.
WantsGatewayOnlyAlone == requested = "gateway" \/ (button /\ requested = "none")
WantsGateway == requested = "gateway" \/ button

SerialDone ==
  /\ turn = "serial"
  /\ IF active = "Legacy"
     THEN /\ button' = FALSE
          /\ IF WantsGateway THEN EnterGateway
             ELSE /\ active' = IF requested = "upgrade" THEN "CobsV2" ELSE active
                  /\ turn' = "radio"
                  /\ UNCHANGED <<byButton, switch, trust, screen>>
     ELSE turn' = "radio" /\ UNCHANGED <<active, byButton, button, switch, trust, screen>>
  /\ UNCHANGED <<sent, wire, line, discarding, block, requested, handled>>

\* saveRecords; what cannot be written is undone by its callers.
Save(new, undone) ==
  \/ "refused" \in WriteResults /\ records' = undone /\ file' = file
  \/ "empty" \in WriteResults /\ records' = undone /\ file' = Unreadable
  \/ "cut" \in WriteResults /\ records' = new /\ file' = Unreadable
  \/ "whole" \in WriteResults /\ records' = new /\ file' = new

SwapRemoved(p) ==
  LET i == CHOOSE j \in DOMAIN records : records[j] = p
  IN Front([records EXCEPT ![i] = Last(records)])

\* In the mutant what was forgotten stays forgotten.
ForgetRecordForGood(p) ==
  IF ~Contains(records, p) THEN UNCHANGED <<records, file>>
  ELSE Save(SwapRemoved(p), SwapRemoved(p))
ForgetRecord(p) ==
  IF ~Contains(records, p) THEN UNCHANGED <<records, file>>
  ELSE Save(SwapRemoved(p), Append(SwapRemoved(p), p))

AddRecord(p) ==
  IF Contains(records, p) \/ Len(records) >= MaxRecords THEN UNCHANGED <<records, file>>
  ELSE Save(Append(records, p), records)

\* A loop of the owner: an attempt begins to wait for a tap, ends, or commits.
Radio ==
  /\ turn = "radio" /\ turn' = "requests"
  /\ \/ UNCHANGED <<session, records, file>>
     \/ session = "idle" /\ ready /\ session' = "asking" /\ UNCHANGED <<records, file>>
     \/ session = "asking" /\ session' = "idle" /\ UNCHANGED <<records, file>>
     \/ /\ session = "asking" /\ session' = "idle"
        /\ \E p \in Peers : AddRecord(p)
  /\ UNCHANGED <<serial, button, switch, told, list, forget, touched, screen>>

ConsumeForget ==
  /\ IF forget = NoPeer THEN UNCHANGED <<records, file>> ELSE ForgetRecord(forget)
  /\ forget' = NoPeer /\ touched' = NoPeer

\* The pairing status comes before the list, and it alone has the screen drawn.
UpdateTrust ==
  /\ told' = session /\ UNCHANGED session
  /\ view' = IF session = "asking" /\ told = "idle" THEN "Trust" ELSE view
  /\ drawn' = IF session # told /\ view' = "Trust"
              THEN IF session = "asking" THEN <<>> ELSE list
              ELSE drawn
  /\ list' = records'

\* In the mutant the screen keeps what it hoped for.
ConsumeToggleHopefully ==
  /\ toggle' = NoRequest /\ UNCHANGED ready
  /\ IF toggle = NoRequest THEN UNCHANGED <<nvs, secure, shown>>
     ELSE /\ shown' = toggle
          /\ \/ ready /\ nvs' = toggle /\ secure' = toggle
             \/ UNCHANGED <<nvs, secure>>
ConsumeToggle ==
  /\ toggle' = NoRequest /\ UNCHANGED ready
  /\ IF toggle = NoRequest THEN UNCHANGED <<nvs, secure, shown>>
     ELSE \/ ready /\ nvs' = toggle /\ secure' = toggle /\ shown' = toggle
          \/ UNCHANGED <<nvs, secure>> /\ shown' = secure

Requests ==
  /\ turn = "requests" /\ turn' = "screen"
  /\ ConsumeForget /\ UpdateTrust /\ ConsumeToggle
  /\ UNCHANGED <<serial, button>>
-----------------------------------------------------------------------------
(* A touch, or none.                                                       *)

Touch(v) ==
  /\ turn = "screen" /\ view = v /\ turn' = "serial"
  /\ UNCHANGED serial

NoTouch == Touch(view) /\ UNCHANGED <<button, switch, trust, screen>>

TouchNavigate ==
  \E v \in {"Home", "Settings", "Trust"}, to \in {"Home", "Settings", "Trust"} :
    /\ Touch(v)
    /\ <<v, to>> \in {<<"Home", "Settings">>, <<"Settings", "Home">>,
                      <<"Settings", "Trust">>, <<"Trust", "Home">>}
    /\ view' = to
    /\ drawn' = IF to = "Trust" /\ told = "idle" THEN list ELSE <<>>
    /\ UNCHANGED <<button, switch, trust>>

TouchForget(r) ==
  /\ Touch("Trust") /\ told = "idle" /\ r \in DOMAIN list
  /\ forget' = list[r]
  /\ touched' = IF r \in DOMAIN drawn THEN drawn[r] ELSE NoPeer
  /\ UNCHANGED <<button, switch, records, file, session, told, list, screen>>

TouchSecure ==
  /\ Touch("Settings")
  /\ toggle' = ~shown /\ shown' = ~shown
  /\ UNCHANGED <<button, ready, nvs, secure, trust, screen>>

TouchGateway ==
  /\ Touch("Settings") /\ active # "GatewayRelayMode"
  /\ button' = TRUE
  /\ UNCHANGED <<switch, trust, screen>>

\* A restart, from the Gateway screen, by a host or by losing power.
Restart ==
  /\ turn' = "serial" /\ active' = "Legacy"
  /\ sent' = <<>> /\ wire' = <<>> /\ handled' = <<>> /\ byButton' = FALSE
  /\ line' = <<>> /\ discarding' = FALSE /\ block' = <<>> /\ requested' = "none"
  /\ button' = FALSE /\ toggle' = NoRequest /\ forget' = NoPeer /\ touched' = NoPeer
  /\ told' = "idle" /\ list' = <<>> /\ view' = "Home" /\ drawn' = <<>>
  /\ Load
  /\ UNCHANGED <<nvs, file>>
-----------------------------------------------------------------------------
Init ==
  /\ turn = "serial" /\ active = "Legacy"
  /\ sent = <<>> /\ wire = <<>> /\ handled = <<>> /\ byButton = FALSE
  /\ line = <<>> /\ discarding = FALSE /\ block = <<>> /\ requested = "none"
  /\ button = FALSE /\ toggle = NoRequest /\ forget = NoPeer /\ touched = NoPeer
  /\ told = "idle" /\ session = "idle" /\ list = <<>> /\ view = "Home" /\ drawn = <<>>
  /\ ready = TRUE /\ nvs = FALSE /\ secure = FALSE /\ shown = FALSE
  /\ records = <<>> /\ file = Unreadable

\* A touch the loop may find, or not.
Screen ==
  \/ TouchNavigate \/ TouchSecure \/ TouchGateway \/ NoTouch
  \/ \E r \in 1..MaxRecords : TouchForget(r)

Next ==
  \/ \E k \in Kinds : HostSends(k)
  \/ ReadLine \/ ReadBlock \/ SerialDone
  \/ Radio \/ Requests \/ Screen \/ Restart

Spec == Init /\ [][Next]_vars

\* loop() is called for ever; a host falls silent sooner or later.
FairSpec == Spec /\ WF_vars(ReadLine \/ ReadBlock \/ SerialDone) /\ WF_vars(Radio)
                 /\ WF_vars(Requests) /\ WF_vars(Screen)
-----------------------------------------------------------------------------
TypeOK ==
  /\ turn \in {"serial", "radio", "requests", "screen"} /\ active \in Owners
  /\ sent \in Seq(Kinds) /\ Len(sent) <= MaxMessages
  /\ Len(line) <= LineLimit /\ discarding \in BOOLEAN /\ Len(block) <= BlockLimit
  /\ requested \in {"none", "upgrade", "gateway"}
  /\ byButton \in BOOLEAN /\ button \in BOOLEAN /\ ready \in BOOLEAN
  /\ nvs \in BOOLEAN /\ secure \in BOOLEAN /\ shown \in BOOLEAN
  /\ toggle \in BOOLEAN \cup {NoRequest}
  /\ records \in Seq(Peers) /\ Len(records) <= MaxRecords
  /\ file \in Seq(Peers) \cup {Unreadable}
  /\ session \in {"idle", "asking"} /\ told \in {"idle", "asking"}
  /\ list \in Seq(Peers) /\ drawn \in Seq(Peers) /\ view \in {"Home", "Settings", "Trust"}
  /\ forget \in Peers \cup {NoPeer} /\ touched \in Peers \cup {NoPeer}

Consumed == {i \in DOMAIN sent : \A j \in DOMAIN wire : wire[j].of # i}
FitsBlock(k) == Len(Text[k]) - 1 <= BlockLimit

\* What a message can be handled for: all of them in a protocol the host has
\* asked for, and after a switch by the screen each frame behind another.
Sound(i) ==
  IF byButton THEN sent[i] \in FrameKinds /\ i > 1 /\ sent[i - 1] \in FrameKinds ELSE TRUE

\* Whatever the switch of protocols falls into, a message that has been read is
\* handled once, in order, by the endpoint of its protocol, and nothing else is;
\* the exceptions are a frame too long for a block, and around a switch made on
\* the screen the messages that the host had begun by then.
EveryMessageOnce ==
  /\ \A m, n \in DOMAIN handled :
       m < n /\ Garbage \notin {handled[m].of, handled[n].of} => handled[m].of < handled[n].of
  /\ \A n \in DOMAIN handled :
       LET i == handled[n].of
       IN IF i = Garbage THEN byButton ELSE sent[i] \in LineKinds <=> handled[n].by = "Legacy"
  /\ \A i \in Consumed :
       Sound(i) /\ (sent[i] \in FrameKinds => FitsBlock(sent[i]))
         => \E n \in DOMAIN handled : handled[n].of = i

\* With no tap on its way, the switch of the Settings screen has the value that
\* is in force, in either owner, so the next tap asks for the other one.
SecureShownIsEnforced == toggle = NoRequest => shown = secure

\* The trust list on flash, if it can be read, is the one in memory.
TrustOnFlash == ready /\ file # Unreadable => ToSet(file) = ToSet(records)

\* While the legacy endpoint has the port the button leads to gateway mode,
\* whatever the host asks for at the same time, unless the board restarts.
Booted ==
  turn = "serial" /\ active = "Legacy" /\ sent = <<>> /\ list = <<>> /\ view = "Home" /\ ~button
ButtonEntersGateway ==
  button /\ active = "Legacy" ~> active = "GatewayRelayMode" \/ Booted

\* A touch on a Forget button forgets the peer that is drawn beside it.
ForgetsTheRowShown == forget = touched
=============================================================================
