----------------------------- MODULE WifiDirect -----------------------------
(***************************************************************************)
(* WifiDirectTcpEndpoint: credentials that come over BLE and are kept in   *)
(* NVS, the connection to the group they name, and the frames that come    *)
(* over it, of which LengthPrefixFrameParser finds the ends.  A connection *)
(* has a fresh host at its other end, which may close it, or be gone       *)
(* without a word: then connected() stays true.  Clocks count the ticks    *)
(* since an event up to the value they are compared with.                  *)
(***************************************************************************)
EXTENDS Naturals, Sequences, SequencesExt

CONSTANTS
  Credentials,     \* ssid, passphrase and port, valid ones
  WifiTimeout, TcpTimeout, Backoff,   \* in ticks
  HeaderBytes,     \* of a length
  MaxFrameBytes,   \* kMaxFrameBytes
  Lengths,         \* what a host may declare, and then sends
  MaxFrames,       \* bound: frames sent on a connection
  None,            \* no credentials
  Mixed            \* credentials read after they were written in part

States == {"Idle", "WifiConnecting", "TcpConnecting", "Connected"}
Never  == Backoff + 1

ASSUME WifiAssumption ==
  /\ WifiTimeout \in Nat /\ TcpTimeout \in Nat /\ Backoff \in Nat
  /\ HeaderBytes \in Nat \ {0} /\ MaxFrameBytes \in Nat \ {0}
  /\ Lengths \subseteq Nat /\ MaxFrames \in Nat
  /\ {None, Mixed} \cap Credentials = {} /\ None # Mixed

VARIABLES
  state,        \* state_
  waited,       \* ticks since stateEnteredAtMs_
  since,        \* ticks since lastConnectAttemptMs_; Never if that is zero
  credentials,  \* credentials_
  nvs,          \* what load() finds
  group,        \* external: the credentials of the group a host runs, or None
  wifi,         \* external: WiFi.status() is WL_CONNECTED
  client,       \* external: client_.connected()
  peer,         \* external: the host still has its end of the connection
  stream,       \* external: bytes that can be read
  parser,       \* frameParser_
  sent,         \* auxiliary: the frames sent on this connection
  delivered     \* auxiliary: the frames that were handed on

radio == <<group, wifi>>
frames == <<stream, sent, delivered>>
link  == <<state, waited, since, client, peer, parser, frames>>
vars  == <<link, credentials, nvs, radio>>
-----------------------------------------------------------------------------
(* LengthPrefixFrameParser, byte by byte.  A byte says the length that it  *)
(* would stand for at the end of a header.                                 *)

Frame(n, length) ==
  [i \in 1..(HeaderBytes + length) |->
     [frame |-> n, at |-> i, says |-> IF i = HeaderBytes THEN length ELSE 1]]
Payload(n, length) == SubSeq(Frame(n, length), HeaderBytes + 1, HeaderBytes + length)

FreshParser == [buffer |-> <<>>, expected |-> 0, error |-> FALSE]

\* In the mutant any length is taken.
DeclaresAnything(n) == TRUE
Declares(n) == n > 0 /\ n <= MaxFrameBytes

\* p is the parser with the frames it has found.
Fed(p, byte) ==
  LET buffer == Append(p.buffer, byte)
  IN IF p.error THEN p
     ELSE IF p.expected = 0 /\ Len(buffer) < HeaderBytes THEN [p EXCEPT !.buffer = buffer]
     ELSE IF p.expected = 0 /\ ~Declares(byte.says) THEN [p EXCEPT !.buffer = <<>>, !.error = TRUE]
     ELSE IF p.expected = 0 THEN [p EXCEPT !.buffer = <<>>, !.expected = byte.says]
     ELSE IF Len(buffer) < p.expected THEN [p EXCEPT !.buffer = buffer]
     ELSE [p EXCEPT !.buffer = <<>>, !.expected = 0, !.found = Append(@, buffer)]

Feed(bytes) ==
  LET upTo[n \in 0..Len(bytes)] ==
        IF n = 0 THEN [buffer |-> parser.buffer, expected |-> parser.expected,
                       error |-> parser.error, found |-> <<>>]
        ELSE Fed(upTo[n - 1], bytes[n])
  IN upTo[Len(bytes)]
-----------------------------------------------------------------------------
Enter(s) == state' = s /\ waited' = 0

NoClient == client' = FALSE /\ peer' = FALSE
NoStream == stream' = <<>> /\ sent' = <<>> /\ delivered' = <<>>

\* In the mutant what the parser has read of a frame stays.
ResetConnectionOnly(s) == NoClient /\ Enter(s) /\ NoStream /\ UNCHANGED parser
ResetConnection(s) == NoClient /\ Enter(s) /\ NoStream /\ parser' = FreshParser

\* The results of the writes are not looked at: some may not have been made.
Save(c) == nvs' \in {c, Mixed, nvs}
Load == credentials' = nvs

\* handleWifiDirectConfigure and configure.  (If the namespace cannot be opened
\* nothing changes, a stuttering step.)
Configure(c) ==
  /\ Save(c)
  /\ credentials' = c
  /\ ResetConnection("Idle") /\ since' = Never
  /\ UNCHANGED radio

Restart ==
  /\ Load /\ UNCHANGED <<nvs, group>>
  /\ state' = "Idle" /\ waited' = 0 /\ since' = Never
  /\ NoClient /\ wifi' = FALSE /\ parser' = FreshParser /\ NoStream
-----------------------------------------------------------------------------
(* loop().                                                                 *)

\* WiFi.begin may leave the status of an earlier association for a moment.
StartAttempt ==
  /\ state = "Idle" /\ credentials # None /\ since >= Backoff
  /\ since' = 0 /\ Enter("WifiConnecting")
  /\ wifi' \in {FALSE, wifi}
  /\ UNCHANGED <<client, peer, parser, frames, credentials, nvs, group>>

WifiUp ==
  /\ state = "WifiConnecting" /\ wifi
  /\ Enter("TcpConnecting")
  /\ UNCHANGED <<since, client, peer, parser, frames, credentials, nvs, radio>>

WifiTimesOut ==
  /\ state = "WifiConnecting" /\ ~wifi /\ waited > WifiTimeout
  /\ ResetConnection("Idle") /\ wifi' = FALSE
  /\ UNCHANGED <<since, credentials, nvs, group>>

TcpConnects ==
  /\ state = "TcpConnecting" /\ wifi /\ group = credentials
  /\ Enter("Connected") /\ client' = TRUE /\ peer' = TRUE /\ NoStream
  /\ UNCHANGED <<since, parser, credentials, nvs, radio>>

\* In the mutant the time is not looked at any more.
TcpTimedOutNever == FALSE
TcpTimedOut == waited > TcpTimeout
TcpTimesOut ==
  /\ state = "TcpConnecting" /\ TcpTimedOut
  /\ ResetConnection("Idle")
  /\ UNCHANGED <<since, credentials, nvs, radio>>

\* In the mutant a closed connection is not noticed.
ClosedNever == FALSE
Closed == ~client
ConnectionLost ==
  /\ state = "Connected" /\ Closed
  /\ ResetConnection("Idle")
  /\ UNCHANGED <<since, credentials, nvs, radio>>

\* pumpReceive: a read of any size.  A length that cannot be ends the connection,
\* and what the same read brought before it is dropped.
Pump(n) ==
  /\ state = "Connected" /\ client /\ n \in 1..Len(stream)
  /\ LET p == Feed(SubSeq(stream, 1, n))
     IN IF p.error THEN ResetConnection("Idle")
        ELSE /\ parser' = [buffer |-> p.buffer, expected |-> p.expected, error |-> FALSE]
             /\ delivered' = delivered \o p.found
             /\ stream' = SubSeq(stream, n + 1, Len(stream))
             /\ UNCHANGED <<state, waited, client, peer, sent>>
  /\ UNCHANGED <<since, credentials, nvs, radio>>
-----------------------------------------------------------------------------
(* The network and the host.                                               *)

Tick ==
  /\ waited' = IF waited > WifiTimeout /\ waited > TcpTimeout THEN waited ELSE waited + 1
  /\ since' = IF since >= Backoff THEN since ELSE since + 1
  /\ UNCHANGED <<state, client, peer, parser, frames, credentials, nvs, radio>>

\* The driver goes on trying what it was told to begin with.
Associate ==
  /\ state # "Idle" /\ ~wifi /\ group = credentials
  /\ wifi' = TRUE /\ UNCHANGED <<link, credentials, nvs, group>>

\* The connection may outlive the network, which may come back.
LoseWifi ==
  /\ wifi /\ wifi' = FALSE
  /\ NoClient \/ UNCHANGED <<client, peer>>
  /\ UNCHANGED <<state, waited, since, parser, frames, credentials, nvs, group>>

\* The host closes it, or the board's stack gives it up.
PeerCloses ==
  /\ client /\ NoClient
  /\ UNCHANGED <<state, waited, since, parser, frames, credentials, nvs, radio>>

\* The host is switched off, or closes it while the board cannot hear of it.
PeerVanishes ==
  /\ peer /\ peer' = FALSE
  /\ UNCHANGED <<state, waited, since, client, parser, frames, credentials, nvs, radio>>

GroupChanges ==
  /\ group' \in (Credentials \cup {None}) \ {group}
  /\ peer' = FALSE
  /\ UNCHANGED <<state, waited, since, client, parser, frames, credentials, nvs, wifi>>

HostSends(length) ==
  /\ peer /\ wifi /\ Len(sent) < MaxFrames
  /\ stream' = stream \o Frame(Len(sent) + 1, length)
  /\ sent' = Append(sent, Payload(Len(sent) + 1, length))
  /\ UNCHANGED <<state, waited, since, client, peer, parser, delivered, credentials, nvs, radio>>
-----------------------------------------------------------------------------
Init ==
  /\ state = "Idle" /\ waited = 0 /\ since = Never
  /\ credentials = None /\ nvs = None
  /\ group \in Credentials \cup {None} /\ wifi = FALSE /\ client = FALSE /\ peer = FALSE
  /\ parser = FreshParser /\ stream = <<>> /\ sent = <<>> /\ delivered = <<>>

Loop ==
  \/ StartAttempt \/ WifiUp \/ WifiTimesOut \/ TcpConnects \/ TcpTimesOut \/ ConnectionLost
  \/ \E n \in 1..Len(stream) : Pump(n)

Next ==
  \/ Loop \/ Restart
  \/ \E c \in Credentials : Configure(c)
  \/ Tick \/ Associate \/ LoseWifi \/ PeerCloses \/ PeerVanishes \/ GroupChanges
  \/ \E length \in Lengths : HostSends(length)

\* loop() is called for ever and time passes; a network that is there answers
\* an attempt sooner or later, and stays for the next call.
FairSpec ==
  /\ Init /\ [][Next]_vars /\ WF_vars(Loop) /\ WF_vars(Tick)
  /\ SF_vars(Associate) /\ SF_vars(WifiUp) /\ SF_vars(TcpConnects)
-----------------------------------------------------------------------------
TypeOK ==
  /\ state \in States /\ waited \in Nat /\ since \in 0..Never
  /\ credentials \in Credentials \cup {None, Mixed} /\ nvs \in Credentials \cup {None, Mixed}
  /\ group \in Credentials \cup {None} /\ wifi \in BOOLEAN /\ client \in BOOLEAN
  /\ peer \in BOOLEAN /\ (peer => client)
  /\ parser.expected \in 0..MaxFrameBytes /\ parser.error = FALSE
  /\ Len(parser.buffer) < HeaderBytes + parser.expected

\* What is handed on are the first frames sent on this connection, each whole:
\* nothing of a connection that broke, wherever in a frame it did.
FramesAsSent == IsPrefix(delivered, sent)

\* An attempt to connect ends, whether or not there is anyone to connect to.
AttemptsEnd == state \in {"WifiConnecting", "TcpConnecting"} ~> state \in {"Idle", "Connected"}

Serves   == state = "Connected" /\ peer /\ wifi
HalfOpen == state = "Connected" /\ client /\ ~peer

\* While a host keeps running the group the board was told of, the board is
\* connected to it again and again, whatever breaks the connection, unless it
\* stays for ever with one whose other end is gone: loop asks only
\* client_.connected(), and nothing but that holds it up.
Reconnects ==
  <>[](credentials # None /\ group = credentials) => []<>Serves \/ <>[]HalfOpen
=============================================================================
