----------------------------- MODULE HopReceive -----------------------------
(***************************************************************************)
(* From the air to a whole message: Fragmenter at the senders; at one      *)
(* receiver the queue between the receive callback, which runs in the      *)
(* Wi-Fi task, and the main loop (enqueueReceived and loop of              *)
(* EspNowEndpoint; GatewayRelay has a copy), and FrameAssembler.           *)
(*                                                                         *)
(* A stream is a counter of linkMessageIds on some board, with the         *)
(* linkSessionId its frames carry; the routeId is left out: it is zero on  *)
(* all that a display sends, and part of the session for the rest.  All    *)
(* streams of a board are sent by its main loop, one message after the     *)
(* other, and all start again with the board.  The frames of a board       *)
(* arrive in the order they were sent; each may be lost or arrive twice.   *)
(***************************************************************************)
EXTENDS Naturals, Sequences, SequencesExt, FiniteSets

CONSTANTS
  Streams,
  Board,         \* the board of each stream
  Session,       \* linkSessionId of each stream
  Sizes,         \* for each stream, how many frames its messages can take
  RingSize,      \* kRxQueueCapacity
  MaxPartial,    \* maxConcurrentMessages of FrameAssembler
  NoDatagram,
  MaxMessages,   \* bound: messages of a board
  MaxRestarts    \* bound: restarts, the receiver's among them

Boards == {Board[st] : st \in Streams}

\* A frame: its header, and with nth and boot, which no header has, the message
\* of its board it is from and how often the board had restarted.
Fragments ==
  UNION {[stream: Streams, nth: 1..MaxMessages, boot: 0..MaxRestarts, id: 1..MaxMessages,
          index: 1..n, count: {n}] : n \in UNION {Sizes[st] : st \in Streams}}

ASSUME ReceiveAssumption ==
  /\ Sizes \in [Streams -> SUBSET (Nat \ {0})]
  /\ RingSize \in Nat \ {0} /\ MaxPartial \in Nat \ {0}
  /\ MaxMessages \in Nat /\ MaxRestarts \in Nat
  /\ NoDatagram \notin Fragments

VARIABLES
  counter,    \* linkMessageCounter of a stream
  sent,       \* auxiliary: messages a board has sent
  boot,       \* auxiliary: the last restart of a board
  air,        \* frames of a board on their way
  slots,      \* rxQueue_
  head,       \* rxHead_
  tail,       \* rxTail_
  datagram,   \* the copy the loop works on
  partial,    \* messages under assembly, the oldest first
  restarts,   \* restarts so far
  heard,      \* auxiliary: frames given to the assembler since it started
  delivered   \* auxiliary: messages assembled, each the sequence of its frames

sender   == <<counter, sent, boot, air>>
ring     == <<slots, head, tail>>
assembly == <<partial, heard, delivered>>
vars     == <<sender, ring, datagram, assembly, restarts>>
-----------------------------------------------------------------------------
(* The queue's indices.                                                    *)

FollowingPastEnd(k) == (k + 1) % (RingSize + 1)
Following(k) == (k + 1) % RingSize

\* The slots between head and tail, in order.
Waiting == [i \in 1..((tail + RingSize - head) % RingSize) |-> slots[(head + i - 1) % RingSize]]

(* FrameAssembler.                                                         *)

KeyOfSession(f) == <<Session[f.stream], 0>>
KeyWithoutSession(f) == <<0, f.id>>
Key(f) == <<Session[f.stream], f.id>>

Empty(f) == [key |-> Key(f), count |-> f.count, fragments |-> {}]

\* The messages under assembly once there is one for the frame: with the table
\* full the oldest makes way.
Opened(f) ==
  IF \E i \in DOMAIN partial : partial[i].key = Key(f) THEN partial
  ELSE Append(IF Len(partial) >= MaxPartial THEN Tail(partial) ELSE partial, Empty(f))

\* AssemblyOutcome::Conflict and DuplicateIgnored: the frame changes nothing.
Ignored(p, f) == p.count # f.count \/ \E g \in p.fragments : g.index = f.index

Complete(p) == \A i \in 1..p.count : \E g \in p.fragments : g.index = i
Assembled(p) == [i \in 1..p.count |-> CHOOSE g \in p.fragments : g.index = i]
-----------------------------------------------------------------------------
Init ==
  /\ counter = [st \in Streams |-> 1]
  /\ sent = [b \in Boards |-> 0] /\ boot = [b \in Boards |-> 0]
  /\ air = [b \in Boards |-> <<>>]
  /\ slots = [k \in 0..(RingSize - 1) |-> NoDatagram]
  /\ head = 0 /\ tail = 0
  /\ datagram = NoDatagram
  /\ partial = <<>>
  /\ heard = {} /\ delivered = {}
  /\ restarts = 0

\* fragmentIntoHopFrames: the frames of a stream's next message.
Frames(st, n) ==
  [i \in 1..n |-> [stream |-> st, nth |-> sent[Board[st]] + 1, boot |-> boot[Board[st]],
                   id |-> counter[st], index |-> i, count |-> n]]

\* sendEnvelopeTo, relayToEspNow, sendTrustEnvelope: one esp_now_send after the other.
Send(st, n) ==
  /\ sent[Board[st]] < MaxMessages
  /\ air' = [air EXCEPT ![Board[st]] = @ \o Frames(st, n)]
  /\ counter' = [counter EXCEPT ![st] = @ + 1]
  /\ sent' = [sent EXCEPT ![Board[st]] = @ + 1]
  /\ UNCHANGED <<boot, ring, datagram, assembly, restarts>>

Lose(b) ==
  /\ air[b] # <<>>
  /\ air' = [air EXCEPT ![b] = Tail(@)]
  /\ UNCHANGED <<counter, sent, boot, ring, datagram, assembly, restarts>>

\* The receive callback that does not leave one slot free.
ReceiveInLastSlot(b) ==
  /\ air[b] # <<>>
  /\ air' \in {air, [air EXCEPT ![b] = Tail(@)]}
  /\ slots' = [slots EXCEPT ![tail] = Head(air[b])]
  /\ tail' = Following(tail)
  /\ UNCHANGED <<counter, sent, boot, head, datagram, assembly, restarts>>

\* enqueueReceived, in the Wi-Fi task; the radio may hand a frame over again.
Receive(b) ==
  /\ air[b] # <<>>
  /\ air' \in {air, [air EXCEPT ![b] = Tail(@)]}
  /\ IF Following(tail) = head
     THEN UNCHANGED <<slots, tail>>
     ELSE /\ slots' = [slots EXCEPT ![tail] = Head(air[b])]
          /\ tail' = Following(tail)
  /\ UNCHANGED <<counter, sent, boot, head, datagram, assembly, restarts>>

\* loop: the oldest datagram is copied out under the lock.
Take ==
  /\ datagram = NoDatagram
  /\ head # tail
  /\ datagram' = slots[head]
  /\ head' = Following(head)
  /\ UNCHANGED <<sender, slots, tail, assembly, restarts>>

\* processDatagram up to addFragment, without the lock.
Process ==
  LET list   == Opened(datagram)
      k      == CHOOSE i \in DOMAIN list : list[i].key = Key(datagram)
      stored == [list EXCEPT ![k].fragments = @ \cup {datagram}]
  IN  /\ datagram # NoDatagram
      /\ datagram' = NoDatagram
      /\ heard' = heard \cup {datagram}
      /\ \/ /\ Ignored(list[k], datagram)
            /\ partial' = list /\ UNCHANGED delivered
         \/ /\ ~Ignored(list[k], datagram) /\ ~Complete(stored[k])
            /\ partial' = stored /\ UNCHANGED delivered
         \/ /\ ~Ignored(list[k], datagram) /\ Complete(stored[k])
            /\ partial' = RemoveAt(stored, k)
            /\ delivered' = delivered \cup {Assembled(stored[k])}
      /\ UNCHANGED <<sender, ring, restarts>>

\* A board starts again, and all its counters at one.
SenderRestart(b) ==
  /\ restarts < MaxRestarts
  /\ counter' = [st \in Streams |-> IF Board[st] = b THEN 1 ELSE counter[st]]
  /\ boot' = [boot EXCEPT ![b] = restarts + 1]
  /\ restarts' = restarts + 1
  /\ UNCHANGED <<sent, air, ring, datagram, assembly>>

ReceiverRestart ==
  /\ restarts < MaxRestarts
  /\ restarts' = restarts + 1
  /\ head' = 0 /\ tail' = 0
  /\ slots' = [k \in 0..(RingSize - 1) |-> NoDatagram]
  /\ datagram' = NoDatagram
  /\ partial' = <<>> /\ heard' = {}
  /\ UNCHANGED <<sender, delivered>>

Next ==
  \/ \E st \in Streams : \E n \in Sizes[st] : Send(st, n)
  \/ \E b \in Boards : Lose(b) \/ Receive(b) \/ SenderRestart(b)
  \/ Take
  \/ Process
  \/ ReceiverRestart

Spec == Init /\ [][Next]_vars
-----------------------------------------------------------------------------
\* Every variable has its type, and the two buffers their bound.
TypeOK ==
  /\ counter \in [Streams -> Nat \ {0}] /\ \A st \in Streams : counter[st] <= sent[Board[st]] + 1
  /\ sent \in [Boards -> 0..MaxMessages] /\ boot \in [Boards -> 0..restarts]
  /\ air \in [Boards -> Seq(Fragments)]
  /\ slots \in [0..(RingSize - 1) -> Fragments \cup {NoDatagram}]
  /\ head \in 0..(RingSize - 1) /\ tail \in 0..(RingSize - 1)
  /\ datagram \in Fragments \cup {NoDatagram}
  /\ Len(partial) <= MaxPartial
  /\ partial \in Seq([key: {Key(f) : f \in Fragments}, count: Nat, fragments: SUBSET Fragments])
  /\ restarts \in 0..MaxRestarts
  /\ heard \subseteq Fragments
  /\ delivered \subseteq Seq(Fragments)

\* What the assembler hands on are frames of one stream with one number, all of
\* them and in order; and they are of one message, unless the board that sent
\* them restarted in between and used the number again (sameKey, addFragment).
WholeMessages ==
  \A m \in delivered : \A i, j \in DOMAIN m :
    /\ m[i].index = i /\ Len(m) = m[i].count
    /\ m[i].stream = m[j].stream /\ m[i].id = m[j].id
    /\ m[i].boot = m[j].boot => m[i].nth = m[j].nth

\* A message all of whose frames reached the assembler is handed on, whatever
\* broken messages the assembler still holds (addFragment's eviction), unless
\* the assembler has heard another message with the same number.
NothingHeardIsLost ==
  \A f \in heard :
    LET message == [i \in 1..f.count |-> [f EXCEPT !.index = i]]
    IN  /\ \A i \in 1..f.count : message[i] \in heard
        /\ \A g \in heard : g.stream = f.stream /\ g.id = f.id => g.nth = f.nth
        => message \in delivered

Queue == INSTANCE DatagramQueue
  WITH Datagrams <- Fragments, Limit <- RingSize - 1, queue <- Waiting, current <- datagram

\* The ring and its two indices are a first-in first-out queue of RingSize - 1
\* datagrams, however the callback and the loop interleave (enqueueReceived).
QueueSpec == Queue!Spec
=============================================================================
