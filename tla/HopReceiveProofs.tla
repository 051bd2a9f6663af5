-------------------------- MODULE HopReceiveProofs --------------------------
(***************************************************************************)
(* Proofs about HopReceive: its types and buffer bounds; the ring as a     *)
(* queue; the order in which frames are heard, through losses, repetitions *)
(* and restarts; that messages are handed on whole when the streams at one *)
(* receiver can be told apart; and that a display's assembler hands on     *)
(* every message it has heard whole.                                       *)
(***************************************************************************)
EXTENDS HopReceive, TLAPS

Keys == {Key(f) : f \in Fragments}

\* What a message under assembly holds has its key and its number of frames.
Partials ==
  {p \in [key: Keys, count: Nat \ {0}, fragments: SUBSET Fragments] :
     \A g \in p.fragments : Key(g) = p.key /\ g.count = p.count}

Indices == 0..(RingSize - 1)

SenderInv ==
  /\ counter \in [Streams -> Nat \ {0}] /\ \A st \in Streams : counter[st] <= sent[Board[st]] + 1
  /\ sent \in [Boards -> 0..MaxMessages] /\ boot \in [Boards -> 0..restarts]
  /\ air \in [Boards -> Seq(Fragments)]
  /\ restarts \in 0..MaxRestarts

RingInv ==
  /\ slots \in [Indices -> Fragments \cup {NoDatagram}]
  /\ head \in Indices /\ tail \in Indices
  /\ datagram \in Fragments \cup {NoDatagram}

AssemblyInv ==
  /\ partial \in Seq(Partials) /\ Len(partial) <= MaxPartial
  /\ heard \subseteq Fragments
  /\ delivered \subseteq Seq(Fragments)

ReceiveInv == SenderInv /\ RingInv /\ AssemblyInv
-----------------------------------------------------------------------------
\* Every stream has its board.
LEMMA BoardOfStream == \A st \in Streams : Board[st] \in Boards
BY DEF Boards

\* The fields of a frame, and that a frame is made of them.
LEMMA FragmentFields ==
  ASSUME NEW f \in Fragments
  PROVE  /\ f.stream \in Streams /\ f.nth \in Nat /\ f.boot \in Nat /\ f.id \in Nat
         /\ f.count \in Nat \ {0} /\ f.index \in 1..f.count
         /\ f = [stream |-> f.stream, nth |-> f.nth, boot |-> f.boot, id |-> f.id,
                 index |-> f.index, count |-> f.count]
<1>1. PICK n \in UNION {Sizes[st] : st \in Streams} :
        f \in [stream: Streams, nth: 1..MaxMessages, boot: 0..MaxRestarts, id: 1..MaxMessages,
               index: 1..n, count: {n}]
  BY DEF Fragments
<1>2. n \in Nat \ {0} /\ MaxMessages \in Nat
  BY ReceiveAssumption
<1> QED
  BY <1>1, <1>2

\* What Fragmenter makes of a message are frames.
LEMMA FragmentMade ==
  ASSUME NEW st \in Streams, NEW m \in 1..MaxMessages, NEW b \in 0..MaxRestarts,
         NEW k \in 1..MaxMessages, NEW n \in Sizes[st], NEW i \in 1..n
  PROVE  [stream |-> st, nth |-> m, boot |-> b, id |-> k, index |-> i, count |-> n] \in Fragments
<1>1. n \in UNION {Sizes[s] : s \in Streams}
  OBVIOUS
<1> QED
  BY <1>1 DEF Fragments

\* The next slot is a slot.
LEMMA FollowingIsIndex ==
  ASSUME NEW k \in Indices
  PROVE  Following(k) \in Indices
BY ReceiveAssumption DEF Following, Indices

\* Taking one element out of a sequence leaves a sequence that is one shorter.
LEMMA RemoveAtType ==
  ASSUME NEW S, NEW s \in Seq(S), NEW k \in DOMAIN s
  PROVE  RemoveAt(s, k) \in Seq(S) /\ Len(RemoveAt(s, k)) = Len(s) - 1
BY DEF RemoveAt

\* A function on the first n numbers is a sequence of length n.
LEMMA FunctionIsSeq ==
  ASSUME NEW S, NEW n \in Nat, NEW s \in [1..n -> S]
  PROVE  s \in Seq(S) /\ Len(s) = n /\ DOMAIN s = 1..n
OBVIOUS

\* With its message open, a frame has its place in the table, which has its bound.
LEMMA OpenedList ==
  ASSUME AssemblyInv, NEW f \in Fragments
  PROVE  /\ Opened(f) \in Seq(Partials) /\ Len(Opened(f)) <= MaxPartial
         /\ \E i \in DOMAIN Opened(f) : Opened(f)[i].key = Key(f)
<1>1. f \in Fragments
  BY DEF Fragments
<1>2. Empty(f) \in Partials /\ Empty(f).key = Key(f)
  BY <1>1, FragmentFields DEF Empty, Partials, Keys
<1>3. CASE \E i \in DOMAIN partial : partial[i].key = Key(f)
  BY <1>3 DEF Opened, AssemblyInv
<1>4. CASE ~ \E i \in DOMAIN partial : partial[i].key = Key(f)
  <2> DEFINE kept == IF Len(partial) >= MaxPartial THEN Tail(partial) ELSE partial
  <2>1. kept \in Seq(Partials) /\ Len(kept) <= MaxPartial - 1
    BY ReceiveAssumption DEF AssemblyInv
  <2>2. Opened(f) = Append(kept, Empty(f))
    BY <1>4 DEF Opened
  <2>3. /\ Append(kept, Empty(f)) \in Seq(Partials)
        /\ Len(Append(kept, Empty(f))) = Len(kept) + 1
        /\ Append(kept, Empty(f))[Len(kept) + 1] = Empty(f)
    BY <1>2, <2>1
  <2> QED
    BY <1>2, <2>1, <2>2, <2>3, ReceiveAssumption
<1> QED
  BY <1>3, <1>4

\* A frame stored with its message leaves the table a table of partial messages.
LEMMA StoredList ==
  ASSUME NEW list \in Seq(Partials), NEW k \in DOMAIN list, NEW f \in Fragments,
         list[k].key = Key(f), ~Ignored(list[k], f)
  PROVE  LET stored == [list EXCEPT ![k].fragments = @ \cup {f}]
         IN  stored \in Seq(Partials) /\ Len(stored) = Len(list) /\ k \in DOMAIN stored
<1> DEFINE larger == [list[k] EXCEPT !.fragments = @ \cup {f}]
<1>1. larger \in Partials
  <2>1. list[k] \in Partials
    OBVIOUS
  <2>2. f.count = list[k].count
    BY DEF Ignored
  <2>3. PICK p : p = list[k]
    OBVIOUS
  <2>4. p \in Partials /\ Key(f) = p.key /\ f.count = p.count
    BY <2>1, <2>2, <2>3
  <2>5. [p EXCEPT !.fragments = @ \cup {f}] \in Partials
    BY <2>4 DEF Partials
  <2> QED BY <2>3, <2>5
<1>2. [list EXCEPT ![k].fragments = @ \cup {f}] = [list EXCEPT ![k] = larger]
  OBVIOUS
<1> QED
  BY <1>1, <1>2

\* A complete message is a sequence of its frames, each in its place.
LEMMA AssembledMessage ==
  ASSUME NEW p \in Partials, Complete(p)
  PROVE  /\ Assembled(p) \in Seq(Fragments) /\ DOMAIN Assembled(p) = 1..p.count
         /\ Len(Assembled(p)) = p.count
         /\ \A i \in 1..p.count : Assembled(p)[i] \in p.fragments /\ Assembled(p)[i].index = i
<1> DEFINE m == Assembled(p)
<1>1. \A i \in 1..p.count : m[i] \in p.fragments /\ m[i].index = i
  BY DEF Complete, Assembled
<1>2. p.count \in Nat \ {0} /\ p.fragments \subseteq Fragments
  BY DEF Partials
<1>3. m \in Seq(Fragments) /\ Len(m) = p.count /\ DOMAIN m = 1..p.count
  <2>1. m = [i \in 1..p.count |-> m[i]]
    BY DEF Assembled
  <2> HIDE DEF m
  <2>2. \A i \in 1..p.count : m[i] \in Fragments
    BY <1>1, <1>2
  <2>3. m \in [1..p.count -> Fragments]
    BY <2>1, <2>2
  <2>4. p.count \in Nat
    BY <1>2
  <2> QED
    BY <2>3, <2>4, FunctionIsSeq
<1> QED
  BY <1>1, <1>3

-----------------------------------------------------------------------------
\* The first state has the invariant.
LEMMA InitReceive == Init => ReceiveInv
<1> SUFFICES ASSUME Init PROVE ReceiveInv
  OBVIOUS
<1>1. SenderInv
  <2>1. /\ counter = [st \in Streams |-> 1] /\ sent = [b \in Boards |-> 0]
        /\ boot = [b \in Boards |-> 0] /\ air = [b \in Boards |-> <<>>] /\ restarts = 0
    BY DEF Init
  <2>2. /\ counter \in [Streams -> Nat \ {0}] /\ sent \in [Boards -> 0..MaxMessages]
        /\ boot \in [Boards -> 0..restarts] /\ restarts \in 0..MaxRestarts
    BY <2>1, ReceiveAssumption
  <2>3. \A st \in Streams : counter[st] <= sent[Board[st]] + 1
    BY <2>1, BoardOfStream
  <2>4. air \in [Boards -> Seq(Fragments)]
    <3>1. <<>> \in Seq(Fragments)
      OBVIOUS
    <3> QED
      BY <2>1, <3>1
  <2> QED
    BY <2>2, <2>3, <2>4 DEF SenderInv
<1>2. RingInv
  BY ReceiveAssumption DEF Init, RingInv, Indices
<1>3. AssemblyInv
  BY ReceiveAssumption DEF Init, AssemblyInv
<1> QED
  BY <1>1, <1>2, <1>3 DEF ReceiveInv

\* Every step keeps the invariant.
LEMMA NextReceive == ReceiveInv /\ [Next]_vars => ReceiveInv'
<1> SUFFICES ASSUME ReceiveInv, [Next]_vars PROVE ReceiveInv'
  OBVIOUS
<1> USE DEF ReceiveInv
<1>1. ASSUME NEW st \in Streams, NEW n \in Sizes[st], Send(st, n) PROVE ReceiveInv'
  <2>0. PICK b : b = Board[st]
    OBVIOUS
  <2>1. /\ b \in Boards /\ sent[b] \in Nat /\ sent[b] < MaxMessages /\ MaxMessages \in Nat
        /\ counter[st] \in Nat \ {0} /\ counter[st] <= sent[b] + 1
        /\ boot[b] \in 0..restarts /\ restarts \in 0..MaxRestarts /\ MaxRestarts \in Nat
        /\ n \in Nat \ {0}
    <3>1. b \in Boards
      BY <2>0, BoardOfStream
    <3>2. MaxMessages \in Nat /\ MaxRestarts \in Nat
      BY ReceiveAssumption
    <3>3. n \in Nat \ {0}
      BY ReceiveAssumption
    <3>4. sent[b] \in 0..MaxMessages /\ sent[b] < MaxMessages
      BY <1>1, <2>0, <3>1 DEF Send, SenderInv
    <3>5. counter[st] \in Nat \ {0} /\ counter[st] <= sent[b] + 1
      BY <2>0 DEF SenderInv
    <3>6. boot[b] \in 0..restarts /\ restarts \in 0..MaxRestarts
      BY <3>1 DEF SenderInv
    <3> QED
      BY <3>1, <3>2, <3>3, <3>4, <3>5, <3>6
  <2>2. \A i \in 1..n : Frames(st, n)[i] \in Fragments
    <3> SUFFICES ASSUME NEW i \in 1..n PROVE Frames(st, n)[i] \in Fragments
      OBVIOUS
    <3>1. sent[b] + 1 \in 1..MaxMessages /\ boot[b] \in 0..MaxRestarts /\ counter[st] \in 1..MaxMessages
      BY <2>1
    <3> QED
      BY <2>0, <3>1, FragmentMade DEF Frames
  <2>3. Frames(st, n) \in Seq(Fragments)
    BY <2>1, <2>2 DEF Frames
  <2>4. air' \in [Boards -> Seq(Fragments)]
    <3>1. air[b] \o Frames(st, n) \in Seq(Fragments)
      BY <2>1, <2>3 DEF SenderInv
    <3> QED
      BY <1>1, <2>0, <3>1 DEF Send, SenderInv
  <2>5. sent' = [sent EXCEPT ![b] = sent[b] + 1] /\ counter' = [counter EXCEPT ![st] = counter[st] + 1]
    BY <1>1, <2>0 DEF Send
  <2>6. sent' \in [Boards -> 0..MaxMessages] /\ counter' \in [Streams -> Nat \ {0}]
    <3>1. sent[b] + 1 \in 0..MaxMessages /\ counter[st] + 1 \in Nat \ {0}
      BY <2>1
    <3> QED
      BY <2>5, <3>1 DEF SenderInv
  <2>7. ASSUME NEW s \in Streams PROVE counter'[s] <= sent'[Board[s]] + 1
    <3>1. /\ counter[s] \in Nat /\ sent[Board[s]] \in Nat /\ counter[s] <= sent[Board[s]] + 1
          /\ Board[s] \in Boards
      BY BoardOfStream DEF SenderInv
    <3>2. sent'[Board[s]] = IF Board[s] = b THEN sent[b] + 1 ELSE sent[Board[s]]
      BY <2>5, <3>1 DEF SenderInv
    <3>3. counter'[s] = IF s = st THEN counter[st] + 1 ELSE counter[s]
      BY <2>5 DEF SenderInv
    <3>4. CASE s = st
      BY <2>0, <2>1, <3>2, <3>3, <3>4
    <3>5. CASE s # st
      BY <2>1, <3>1, <3>2, <3>3, <3>5
    <3> QED
      BY <3>4, <3>5
  <2>8. SenderInv'
    BY <1>1, <2>4, <2>6, <2>7 DEF Send, SenderInv
  <2> QED
    BY <1>1, <2>8 DEF Send, ring, assembly, RingInv, AssemblyInv
<1>2. ASSUME NEW b \in Boards, Lose(b) PROVE ReceiveInv'
  <2>1. SenderInv'
    BY <1>2 DEF Lose, SenderInv
  <2> QED
    BY <1>2, <2>1 DEF Lose, ring, assembly, RingInv, AssemblyInv
<1>3. ASSUME NEW b \in Boards, Receive(b) PROVE ReceiveInv'
  <2>1. air[b] \in Seq(Fragments) /\ air[b] # <<>>
    BY <1>3 DEF Receive, SenderInv
  <2>2. Head(air[b]) \in Fragments /\ Tail(air[b]) \in Seq(Fragments)
    BY <2>1
  <2>3. SenderInv'
    BY <1>3, <2>2 DEF Receive, SenderInv
  <2>4. RingInv'
    BY <1>3, <2>2, FollowingIsIndex DEF Receive, RingInv
  <2> QED
    BY <1>3, <2>3, <2>4 DEF Receive, assembly, AssemblyInv
<1>4. ASSUME Take PROVE ReceiveInv'
  BY <1>4, FollowingIsIndex DEF Take, sender, assembly, SenderInv, RingInv, AssemblyInv
<1>5. ASSUME Process PROVE ReceiveInv'
  <2> DEFINE f == datagram
             list == Opened(f)
             k == CHOOSE i \in DOMAIN list : list[i].key = Key(f)
             stored == [list EXCEPT ![k].fragments = @ \cup {f}]
  <2>1. f \in Fragments
    BY <1>5 DEF Process, RingInv
  <2>2. list \in Seq(Partials) /\ Len(list) <= MaxPartial /\ k \in DOMAIN list /\ list[k].key = Key(f)
    BY <2>1, OpenedList
  <2>3. heard' \subseteq Fragments
    BY <1>5, <2>1 DEF Process, AssemblyInv
  <2>4. \/ partial' = list /\ UNCHANGED delivered
        \/ ~Ignored(list[k], f) /\ partial' = stored /\ UNCHANGED delivered
        \/ /\ ~Ignored(list[k], f) /\ Complete(stored[k])
           /\ partial' = RemoveAt(stored, k)
           /\ delivered' = delivered \cup {Assembled(stored[k])}
    BY <1>5 DEF Process
  <2> HIDE DEF list, k
  <2>5. ~Ignored(list[k], f) =>
          stored \in Seq(Partials) /\ Len(stored) = Len(list) /\ k \in DOMAIN stored
    BY <2>1, <2>2, StoredList
  <2> HIDE DEF stored
  <2>6. AssemblyInv'
    <3>1. CASE partial' = list /\ UNCHANGED delivered
      BY <2>2, <2>3, <3>1 DEF AssemblyInv
    <3>2. CASE ~Ignored(list[k], f) /\ partial' = stored /\ UNCHANGED delivered
      BY <2>2, <2>3, <2>5, <3>2 DEF AssemblyInv
    <3>3. CASE /\ ~Ignored(list[k], f) /\ Complete(stored[k])
               /\ partial' = RemoveAt(stored, k)
               /\ delivered' = delivered \cup {Assembled(stored[k])}
      <4>1. partial' \in Seq(Partials) /\ Len(partial') = Len(stored) - 1
        BY <2>5, <3>3, RemoveAtType
      <4>2. Assembled(stored[k]) \in Seq(Fragments)
        BY <2>5, <3>3, AssembledMessage
      <4> QED
        BY <2>2, <2>3, <2>5, <3>3, <4>1, <4>2, ReceiveAssumption DEF AssemblyInv
    <3> QED
      BY <2>4, <3>1, <3>2, <3>3
  <2> QED
    BY <1>5, <2>6 DEF Process, sender, ring, SenderInv, RingInv
<1>6. ASSUME NEW b \in Boards, SenderRestart(b) PROVE ReceiveInv'
  <2>1. /\ restarts \in Nat /\ restarts' = restarts + 1 /\ restarts + 1 \in 0..MaxRestarts
        /\ boot' = [boot EXCEPT ![b] = restarts + 1] /\ UNCHANGED <<sent, air>>
    BY <1>6, ReceiveAssumption DEF SenderRestart, SenderInv
  <2>2. boot' \in [Boards -> 0..(restarts + 1)]
    <3>1. 0..restarts \subseteq 0..(restarts + 1) /\ restarts + 1 \in 0..(restarts + 1)
      BY <2>1
    <3> QED
      BY <2>1, <3>1 DEF SenderInv
  <2>3. counter' = [st \in Streams |-> IF Board[st] = b THEN 1 ELSE counter[st]]
    BY <1>6 DEF SenderRestart
  <2>4. /\ counter' \in [Streams -> Nat \ {0}]
        /\ \A s \in Streams : counter'[s] <= sent[Board[s]] + 1
    <3>1. \A s \in Streams : counter[s] \in Nat \ {0} /\ sent[Board[s]] \in Nat
                             /\ counter[s] <= sent[Board[s]] + 1
      BY BoardOfStream DEF SenderInv
    <3>2. \A s \in Streams : counter'[s] = 1 \/ counter'[s] = counter[s]
      BY <2>3
    <3>3. \A s \in Streams : counter'[s] \in Nat \ {0} /\ counter'[s] <= sent[Board[s]] + 1
      BY <3>1, <3>2
    <3> QED
      BY <2>3, <3>3
  <2>5. SenderInv'
    BY <2>1, <2>2, <2>4 DEF SenderInv
  <2> QED
    BY <1>6, <2>5 DEF SenderRestart, ring, assembly, RingInv, AssemblyInv
<1>7. ASSUME ReceiverRestart PROVE ReceiveInv'
  <2>0. /\ restarts \in Nat /\ restarts' = restarts + 1 /\ restarts + 1 \in 0..MaxRestarts
        /\ UNCHANGED <<counter, sent, boot, air>>
    BY <1>7, ReceiveAssumption DEF ReceiverRestart, sender, SenderInv
  <2>1. SenderInv'
    <3>1. 0..restarts \subseteq 0..(restarts + 1)
      BY <2>0
    <3>2. boot' \in [Boards -> 0..(restarts + 1)]
      BY <2>0, <3>1 DEF SenderInv
    <3> QED
      BY <2>0, <3>2 DEF SenderInv
  <2>2. RingInv'
    BY <1>7, ReceiveAssumption DEF ReceiverRestart, RingInv, Indices
  <2> QED
    BY <1>7, <2>1, <2>2, ReceiveAssumption DEF ReceiverRestart, AssemblyInv
<1>8. CASE UNCHANGED vars
  BY <1>8 DEF vars, sender, ring, assembly, SenderInv, RingInv, AssemblyInv
<1> QED
  BY <1>1, <1>2, <1>3, <1>4, <1>5, <1>6, <1>7, <1>8 DEF Next

\* The invariant holds in every state.
LEMMA ReceiveAlways == Spec => []ReceiveInv
BY InitReceive, NextReceive, PTL DEF Spec

\* The ring's indices stay in it, and the assembler's table keeps its bound.
THEOREM ReceiveTypes == Spec => []TypeOK
<1>1. ReceiveInv => TypeOK
  <2> SUFFICES ASSUME ReceiveInv PROVE TypeOK
    OBVIOUS
  <2>1. partial \in Seq([key: {Key(f) : f \in Fragments}, count: Nat, fragments: SUBSET Fragments])
    <3> DEFINE T == [key: {Key(f) : f \in Fragments}, count: Nat, fragments: SUBSET Fragments]
    <3>1. Partials \subseteq T
      BY DEF Partials, Keys
    <3> HIDE DEF T
    <3>2. partial \in Seq(T)
      BY <3>1 DEF ReceiveInv, AssemblyInv
    <3> QED
      BY <3>2 DEF T
  <2> QED
    BY <2>1 DEF TypeOK, ReceiveInv, SenderInv, RingInv, AssemblyInv, Indices
<1> QED
  BY <1>1, ReceiveAlways, PTL

-----------------------------------------------------------------------------
(* The ring as a queue.                                                    *)

\* The number of datagrams between the indices.
Held(h, t) == (t + RingSize - h) % RingSize

\* The slot of the i-th datagram.
SlotOf(h, i) == (h + i - 1) % RingSize

\* What the modulus does to a number below twice the size of the ring.
LEMMA Modulus ==
  /\ \A a \in Indices : a % RingSize = a
  /\ \A a \in RingSize..(2 * RingSize - 1) : a % RingSize = a - RingSize
BY ReceiveAssumption DEF Indices

\* The queue's arithmetic, written without the modulus.
LEMMA RingArithmetic ==
  ASSUME NEW h \in Indices, NEW t \in Indices
  PROVE  /\ Following(t) = IF t = RingSize - 1 THEN 0 ELSE t + 1
         /\ Held(h, t) = IF t >= h THEN t - h ELSE t + RingSize - h
         /\ \A i \in 1..RingSize :
              SlotOf(h, i) = IF h + i - 1 < RingSize THEN h + i - 1 ELSE h + i - 1 - RingSize
<1> h \in Nat /\ t \in Nat /\ h < RingSize /\ t < RingSize /\ RingSize \in Nat \ {0}
  BY ReceiveAssumption DEF Indices
<1>1. Following(t) = IF t = RingSize - 1 THEN 0 ELSE t + 1
  BY Modulus DEF Following, Indices
<1>2. Held(h, t) = IF t >= h THEN t - h ELSE t + RingSize - h
  BY Modulus DEF Held, Indices
<1>3. ASSUME NEW i \in 1..RingSize
      PROVE  SlotOf(h, i) = IF h + i - 1 < RingSize THEN h + i - 1 ELSE h + i - 1 - RingSize
  BY Modulus DEF SlotOf, Indices
<1> QED
  BY <1>1, <1>2, <1>3

\* The two indices as numbers.
LEMMA IndicesInRing ==
  ASSUME RingInv
  PROVE  /\ head \in Indices /\ tail \in Indices /\ RingSize \in Nat \ {0}
         /\ head \in Nat /\ tail \in Nat /\ head < RingSize /\ tail < RingSize
BY ReceiveAssumption DEF RingInv, Indices

\* The waiting datagrams are a sequence of what lies in the slots.
LEMMA WaitingType ==
  ASSUME RingInv
  PROVE  /\ Waiting = [i \in 1..Held(head, tail) |-> slots[SlotOf(head, i)]]
         /\ Held(head, tail) \in 0..(RingSize - 1)
         /\ Waiting \in Seq(Fragments \cup {NoDatagram})
         /\ Len(Waiting) = Held(head, tail)
<1>1. Waiting = [i \in 1..Held(head, tail) |-> slots[SlotOf(head, i)]]
  BY DEF Waiting, Held, SlotOf
<1>2. Held(head, tail) \in 0..(RingSize - 1)
  BY IndicesInRing, RingArithmetic
<1>3. ASSUME NEW i \in 1..Held(head, tail) PROVE SlotOf(head, i) \in Indices
  <2>1. i \in 1..RingSize
    BY <1>2, IndicesInRing
  <2> QED
    BY <2>1, IndicesInRing, RingArithmetic DEF Indices
<1>4. Waiting \in [1..Held(head, tail) -> Fragments \cup {NoDatagram}]
  BY <1>1, <1>3 DEF RingInv
<1>5. Held(head, tail) \in Nat
  BY <1>2
<1> QED
  BY <1>1, <1>2, <1>4, <1>5, FunctionIsSeq

\* A datagram written to the slot at the tail joins the queue at its end.
LEMMA EnqueueAppends ==
  ASSUME RingInv, NEW f \in Fragments,
         Following(tail) # head, slots' = [slots EXCEPT ![tail] = f],
         tail' = Following(tail), head' = head
  PROVE  Waiting' = Append(Waiting, f) /\ Len(Waiting) < RingSize - 1
<1> DEFINE n == Held(head, tail)
<1>1. n \in Nat /\ n < RingSize - 1 /\ Held(head, Following(tail)) = n + 1
  <2>1. Following(tail) \in Indices
    BY IndicesInRing, FollowingIsIndex
  <2>2. Following(tail) = IF tail = RingSize - 1 THEN 0 ELSE tail + 1
    BY IndicesInRing, RingArithmetic
  <2>3. n = IF tail >= head THEN tail - head ELSE tail + RingSize - head
    BY IndicesInRing, RingArithmetic
  <2>4. Held(head, Following(tail)) =
          IF Following(tail) >= head THEN Following(tail) - head ELSE Following(tail) + RingSize - head
    BY <2>1, IndicesInRing, RingArithmetic
  <2> HIDE DEF n
  <2> QED
    BY <2>2, <2>3, <2>4, IndicesInRing
<1>2. SlotOf(head, n + 1) = tail
  <2>1. n + 1 \in 1..RingSize
    BY <1>1, IndicesInRing
  <2> QED
    BY <1>1, <2>1, IndicesInRing, RingArithmetic
<1>3. ASSUME NEW i \in 1..n PROVE SlotOf(head, i) \in Indices \ {tail}
  <2>1. i \in 1..RingSize
    BY <1>1, IndicesInRing
  <2>2. SlotOf(head, i) = IF head + i - 1 < RingSize THEN head + i - 1 ELSE head + i - 1 - RingSize
    BY <2>1, IndicesInRing, RingArithmetic
  <2>3. n = IF tail >= head THEN tail - head ELSE tail + RingSize - head
    BY IndicesInRing, RingArithmetic
  <2> QED
    BY <2>1, <2>2, <2>3, IndicesInRing DEF Indices
<1>4. Waiting' = [i \in 1..(n + 1) |-> slots'[SlotOf(head, i)]]
  BY <1>1 DEF Waiting, Held, SlotOf
<1>5. Waiting = [i \in 1..n |-> slots[SlotOf(head, i)]] /\ Len(Waiting) = n
      /\ Waiting \in Seq(Fragments \cup {NoDatagram})
  BY WaitingType
<1> HIDE DEF n
<1>6. \A i \in 1..n : slots'[SlotOf(head, i)] = Waiting[i]
  BY <1>3, <1>5 DEF RingInv
<1>7. slots'[SlotOf(head, n + 1)] = f
  BY <1>2 DEF RingInv
<1>8. Append(Waiting, f) = [i \in 1..(n + 1) |-> IF i <= n THEN Waiting[i] ELSE f]
  BY <1>1, <1>5
<1>9. \A i \in 1..(n + 1) : slots'[SlotOf(head, i)] = IF i <= n THEN Waiting[i] ELSE f
  BY <1>1, <1>6, <1>7
<1> QED
  BY <1>1, <1>4, <1>5, <1>8, <1>9

\* A datagram copied from the slot at the head leaves the queue at its front.
LEMMA DequeueTakes ==
  ASSUME RingInv, head # tail,
         head' = Following(head), UNCHANGED <<slots, tail>>
  PROVE  Waiting # <<>> /\ Head(Waiting) = slots[head] /\ Waiting' = Tail(Waiting)
<1> DEFINE n == Held(head, tail)
<1>1. n \in Nat \ {0} /\ n < RingSize /\ Held(Following(head), tail) = n - 1
  <2>1. Following(head) \in Indices
    BY IndicesInRing, FollowingIsIndex
  <2>2. Following(head) = IF head = RingSize - 1 THEN 0 ELSE head + 1
    BY IndicesInRing, RingArithmetic
  <2>3. n = IF tail >= head THEN tail - head ELSE tail + RingSize - head
    BY IndicesInRing, RingArithmetic
  <2>4. Held(Following(head), tail) =
          IF tail >= Following(head) THEN tail - Following(head) ELSE tail + RingSize - Following(head)
    BY <2>1, IndicesInRing, RingArithmetic
  <2> HIDE DEF n
  <2> QED
    BY <2>2, <2>3, <2>4, IndicesInRing
<1>2. SlotOf(head, 1) = head
  <2>1. 1 \in 1..RingSize
    BY IndicesInRing
  <2> QED
    BY <2>1, IndicesInRing, RingArithmetic
<1>3. ASSUME NEW i \in 1..(n - 1) PROVE SlotOf(Following(head), i) = SlotOf(head, i + 1)
  <2>1. i \in 1..RingSize /\ i + 1 \in 1..RingSize /\ i + 1 - 1 = i
    BY <1>1, IndicesInRing
  <2>2. Following(head) \in Indices
    BY IndicesInRing, FollowingIsIndex
  <2>3. Following(head) = IF head = RingSize - 1 THEN 0 ELSE head + 1
    BY IndicesInRing, RingArithmetic
  <2>4. SlotOf(head, i + 1) =
          IF head + (i + 1) - 1 < RingSize THEN head + (i + 1) - 1 ELSE head + (i + 1) - 1 - RingSize
    BY <2>1, IndicesInRing, RingArithmetic
  <2>5. SlotOf(Following(head), i) =
          IF Following(head) + i - 1 < RingSize
          THEN Following(head) + i - 1 ELSE Following(head) + i - 1 - RingSize
    BY <2>1, <2>2, IndicesInRing, RingArithmetic
  <2> QED
    BY <2>1, <2>3, <2>4, <2>5, IndicesInRing
<1>4. Waiting' = [i \in 1..(n - 1) |-> slots[SlotOf(Following(head), i)]]
  BY <1>1 DEF Waiting, Held, SlotOf
<1>5. Waiting = [i \in 1..n |-> slots[SlotOf(head, i)]] /\ Len(Waiting) = n
      /\ Waiting \in Seq(Fragments \cup {NoDatagram})
  BY WaitingType
<1> HIDE DEF n
<1>6. Waiting # <<>> /\ Waiting[1] = slots[head] /\ Head(Waiting) = Waiting[1]
  BY <1>1, <1>2, <1>5
<1>7. Tail(Waiting) = [i \in 1..(n - 1) |-> Waiting[i + 1]]
  BY <1>1, <1>5
<1>8. \A i \in 1..(n - 1) : slots[SlotOf(Following(head), i)] = Waiting[i + 1]
  BY <1>1, <1>3, <1>5
<1> QED
  BY <1>4, <1>6, <1>7, <1>8

\* A ring whose indices meet is an empty queue.
LEMMA EmptyRing ==
  ASSUME RingInv, head = tail
  PROVE  Waiting = <<>>
<1>1. Held(head, tail) = 0
  BY IndicesInRing, RingArithmetic
<1> QED
  BY <1>1, WaitingType

\* The ring buffer implements the queue: for every size of the ring and every
\* interleaving of the receive callback with the main loop, what the loop
\* processes is what the callback stored, once, whole and in order.
THEOREM RingIsQueue == Spec => QueueSpec
<1>1. Init => Queue!Init
  <2> SUFFICES ASSUME Init PROVE Queue!Init
    OBVIOUS
  <2>1. RingInv
    BY InitReceive DEF ReceiveInv
  <2> QED
    BY <2>1, EmptyRing DEF Init, Queue!Init
<1>2. ReceiveInv /\ [Next]_vars => [Queue!Next]_(Queue!vars)
  <2> SUFFICES ASSUME ReceiveInv, [Next]_vars PROVE [Queue!Next]_(Queue!vars)
    OBVIOUS
  <2> USE DEF ReceiveInv
  <2>0. ASSUME UNCHANGED ring PROVE Waiting' = Waiting
    BY <2>0 DEF ring, Waiting
  <2>1. ASSUME NEW st \in Streams, NEW n \in Sizes[st], Send(st, n) PROVE UNCHANGED Queue!vars
    BY <2>0, <2>1 DEF Send, Queue!vars
  <2>2. ASSUME NEW b \in Boards, Lose(b) PROVE UNCHANGED Queue!vars
    BY <2>0, <2>2 DEF Lose, Queue!vars
  <2>3. ASSUME NEW b \in Boards, Receive(b) PROVE [Queue!Next]_(Queue!vars)
    <3>1. CASE Following(tail) = head
      BY <2>0, <2>3, <3>1 DEF Receive, Queue!vars, ring
    <3>2. CASE Following(tail) # head
      <4>1. air[b] \in Seq(Fragments) /\ air[b] # <<>>
        BY <2>3 DEF Receive, SenderInv
      <4>2. Head(air[b]) \in Fragments
        BY <4>1
      <4>3. /\ slots' = [slots EXCEPT ![tail] = Head(air[b])]
            /\ tail' = Following(tail) /\ head' = head /\ datagram' = datagram
        BY <2>3, <3>2 DEF Receive
      <4>4. Waiting' = Append(Waiting, Head(air[b])) /\ Len(Waiting) < RingSize - 1
        BY <3>2, <4>2, <4>3, EnqueueAppends
      <4> QED
        BY <4>2, <4>3, <4>4 DEF Queue!Next, Queue!Accept
    <3> QED
      BY <3>1, <3>2
  <2>4. ASSUME Take PROVE Queue!Take
    BY <2>4, DequeueTakes DEF Take, Queue!Take
  <2>5. ASSUME Process PROVE Queue!Finish
    BY <2>0, <2>5 DEF Process, Queue!Finish
  <2>6. ASSUME NEW b \in Boards, SenderRestart(b) PROVE UNCHANGED Queue!vars
    BY <2>0, <2>6 DEF SenderRestart, Queue!vars
  <2>7. ASSUME ReceiverRestart PROVE Queue!Restart
    <3>1. head' = 0 /\ tail' = 0 /\ 0 \in Indices
      BY <2>7, ReceiveAssumption DEF ReceiverRestart, Indices
    <3>2. Held(0, 0) = 0
      BY <3>1, RingArithmetic
    <3>3. Waiting' = [i \in 1..Held(0, 0) |-> slots'[SlotOf(0, i)]]
      BY <3>1 DEF Waiting, Held, SlotOf
    <3>4. Waiting' = <<>>
      BY <3>2, <3>3
    <3> QED
      BY <2>7, <3>4 DEF ReceiverRestart, Queue!Restart
  <2>8. CASE UNCHANGED vars
    BY <2>0, <2>8 DEF vars, Queue!vars
  <2> QED
    BY <2>1, <2>2, <2>3, <2>4, <2>5, <2>6, <2>7, <2>8 DEF Next, Queue!Next
<1> QED
  BY <1>1, <1>2, ReceiveAlways, PTL DEF Spec, QueueSpec, Queue!Spec
-----------------------------------------------------------------------------
(* Where frames can be, and in which order the assembler hears them.        *)

\* Two frames are of one message: they differ in the index at most.
OfOneMessage(f, g) ==
  f.stream = g.stream /\ f.nth = g.nth /\ f.boot = g.boot /\ f.id = g.id /\ f.count = g.count

\* Of two frames of a board the first belongs to the same message or to an
\* earlier one, which has a number of its own unless the board restarted since.
NoLater(f, g) ==
  Board[f.stream] = Board[g.stream] =>
    \/ OfOneMessage(f, g)
    \/ f.nth < g.nth /\ (f.stream = g.stream /\ f.boot = g.boot => f.id < g.id)
Before(A, B) == \A f \in A, g \in B : NoLater(f, g)
InOrder(s) == \A i, j \in 1..Len(s) : i < j => NoLater(s[i], s[j])

\* Where a frame can be.
OnAir(b) == {air[b][i] : i \in 1..Len(air[b])}
InRing == {Waiting[i] : i \in 1..Len(Waiting)}
InHand == {datagram} \ {NoDatagram}

\* A frame that was sent.
Known(f) ==
  /\ f.nth <= sent[Board[f.stream]] /\ f.boot <= restarts
  /\ f.boot = boot[Board[f.stream]] => f.id < counter[f.stream]

KnownInv ==
  /\ \A b \in Boards : \A f \in OnAir(b) : Board[f.stream] = b /\ Known(f)
  /\ \A f \in InRing \cup InHand \cup heard : f \in Fragments /\ Known(f)

OrderInv ==
  /\ \A b \in Boards :
       /\ InOrder(air[b])
       /\ Before(InRing, OnAir(b)) /\ Before(InHand, OnAir(b)) /\ Before(heard, OnAir(b))
  /\ InOrder(Waiting)
  /\ Before(InHand, InRing) /\ Before(heard, InRing) /\ Before(heard, InHand)
  /\ \A f, g \in heard : NoLater(f, g) \/ NoLater(g, f)

ArrivalInv == KnownInv /\ OrderInv

\* The frames a sender makes are known, in order and behind all others.
LEMMA SendArrival ==
  ASSUME ReceiveInv, ArrivalInv, NEW st \in Streams, NEW n \in Sizes[st], Send(st, n)
  PROVE  ArrivalInv'
<1>a. PICK new, b : new = Frames(st, n) /\ b = Board[st]
  OBVIOUS
<1>b. b \in Boards
  BY <1>a, BoardOfStream
<1>0. /\ n \in Nat \ {0} /\ air[b] \in Seq(Fragments) /\ counter[st] \in Nat
      /\ counter \in [Streams -> Nat \ {0}] /\ air \in [Boards -> Seq(Fragments)]
      /\ sent \in [Boards -> 0..MaxMessages] /\ sent[b] \in Nat
      /\ boot[b] \in 0..restarts /\ restarts \in Nat
      /\ Len(air[b]) \in Nat
  <2>1. air[b] \in Seq(Fragments) /\ sent[b] \in 0..MaxMessages /\ boot[b] \in 0..restarts
        /\ restarts \in 0..MaxRestarts /\ counter[st] \in Nat \ {0}
    BY <1>b DEF ReceiveInv, SenderInv
  <2>2. n \in Nat \ {0} /\ MaxMessages \in Nat /\ MaxRestarts \in Nat
    BY ReceiveAssumption
  <2> QED BY <2>1, <2>2 DEF ReceiveInv, SenderInv
<1>1. /\ air' = [air EXCEPT ![b] = air[b] \o new]
      /\ counter' = [counter EXCEPT ![st] = counter[st] + 1]
      /\ sent' = [sent EXCEPT ![b] = sent[b] + 1]
      /\ UNCHANGED <<boot, restarts, datagram, heard>> /\ Waiting' = Waiting
  BY <1>a DEF Send, ring, assembly, Waiting
<1>2. /\ Len(new) = n /\ DOMAIN new = 1..n
      /\ \A i \in 1..n : /\ new[i].stream = st /\ new[i].boot = boot[b] /\ new[i].id = counter[st]
                         /\ new[i].count = n /\ new[i].nth = sent[b] + 1
  BY <1>a, <1>0 DEF Frames
<1>3. new = [i \in 1..n |-> new[i]]
  BY <1>a DEF Frames
<1>4. /\ Len(air[b] \o new) = Len(air[b]) + n
      /\ \A i \in 1..Len(air[b]) : (air[b] \o new)[i] = air[b][i]
      /\ \A i \in 1..n : (air[b] \o new)[Len(air[b]) + i] = new[i]
  <2> DEFINE All == Fragments \cup {new[i] : i \in 1..n}
  <2>1. air[b] \in Seq(All)
    BY <1>0
  <2>2. new \in [1..n -> All]
    BY <1>3
  <2> HIDE DEF All
  <2>3. new \in Seq(All)
    BY <1>0, <2>2, FunctionIsSeq
  <2>4. PICK old : old = air[b]
    OBVIOUS
  <2>5. old \in Seq(All) /\ new \in Seq(All) /\ Len(new) = n /\ n \in Nat
    BY <1>0, <1>2, <2>1, <2>3, <2>4
  <2>6. /\ Len(old \o new) = Len(old) + n
        /\ \A i \in 1..Len(old) : (old \o new)[i] = old[i]
        /\ \A i \in 1..n : (old \o new)[Len(old) + i] = new[i]
    BY ONLY <2>5
  <2> QED BY <2>4, <2>6
<1>5. \A i \in 1..(Len(air[b]) + n) :
        \/ i \in 1..Len(air[b])
        \/ i - Len(air[b]) \in 1..n /\ i = Len(air[b]) + (i - Len(air[b]))
  BY <1>0
<1>6. \A t \in Boards \ {b} : air'[t] = air[t] /\ OnAir(t)' = OnAir(t)
  BY <1>0, <1>1 DEF OnAir
<1>7. air'[b] = air[b] \o new /\ counter'[st] = counter[st] + 1 /\ sent'[b] = sent[b] + 1
  BY <1>b, <1>0, <1>1
<1>8. \A f \in OnAir(b)' : f \in OnAir(b) \/ \E i \in 1..n : f = new[i]
  BY <1>4, <1>5, <1>7 DEF OnAir
<1>9. InRing' = InRing /\ InHand' = InHand /\ heard' = heard
  BY <1>1 DEF InRing, InHand
<1>10. \A f \in Fragments : f.stream \in Streams /\ Board[f.stream] \in Boards
                            /\ f.id \in Nat /\ f.nth \in Nat /\ f.boot \in Nat
  BY FragmentFields, BoardOfStream
<1>11. \A f : f \in Fragments /\ Known(f) => Known(f)'
  <2> SUFFICES ASSUME NEW f, f \in Fragments, Known(f) PROVE Known(f)'
    OBVIOUS
  <2>0. PICK s, t : s = f.stream /\ t = Board[s]
    OBVIOUS
  <2>1. s \in Streams /\ t \in Boards /\ f.id \in Nat /\ f.nth \in Nat
    BY <1>10, <2>0
  <2>2. counter[s] \in Nat /\ sent[t] \in Nat
    <3>1. sent[t] \in 0..MaxMessages
      BY <1>0, <2>1
    <3> QED BY <1>0, <2>1, <3>1
  <2>3. (counter'[s] = counter[s] \/ counter'[s] = counter[s] + 1)
        /\ (sent'[t] = sent[t] \/ sent'[t] = sent[t] + 1)
    BY <1>0, <1>1, <2>1
  <2>4. f.nth <= sent[t] /\ f.boot <= restarts /\ (f.boot = boot[t] => f.id < counter[s])
    BY <2>0 DEF Known
  <2>5. f.nth <= sent'[t] /\ f.boot <= restarts' /\ (f.boot = boot'[t] => f.id < counter'[s])
    BY <1>1, <2>1, <2>2, <2>3, <2>4
  <2> QED BY <2>0, <2>5 DEF Known
<1>12. \A i \in 1..n : Known(new[i])'
  <2> SUFFICES ASSUME NEW i \in 1..n PROVE Known(new[i])'
    OBVIOUS
  <2>1. /\ new[i].stream = st /\ Board[st] = b /\ new[i].boot = boot[b] /\ new[i].id = counter[st]
        /\ new[i].nth = sent[b] + 1
    BY <1>a, <1>2
  <2>2. counter[st] < counter'[st] /\ sent[b] + 1 <= sent'[b] /\ boot[b] <= restarts'
    BY <1>0, <1>1, <1>7
  <2> QED BY <2>1, <2>2 DEF Known
<1>13. \A t \in Boards : OnAir(t) \subseteq Fragments
  BY <1>0 DEF OnAir
<1>14. KnownInv'
  <2>1. ASSUME NEW t \in Boards, NEW f, f \in OnAir(t)' PROVE Board[f.stream] = t /\ Known(f)'
    <3>1. CASE f \in OnAir(t)
      BY <1>11, <1>13, <3>1 DEF ArrivalInv, KnownInv
    <3>2. CASE t = b /\ \E i \in 1..n : f = new[i]
      BY <1>a, <1>2, <1>12, <3>2
    <3> QED BY <1>6, <1>8, <2>1, <3>1, <3>2
  <2>2. ASSUME NEW f \in InRing \cup InHand \cup heard PROVE f \in Fragments /\ Known(f)'
    BY <1>11, <2>2 DEF ArrivalInv, KnownInv
  <2> QED BY <1>9, <2>1, <2>2 DEF KnownInv
<1>15. ASSUME NEW f, f \in Fragments, Known(f), NEW i \in 1..n PROVE NoLater(f, new[i])
  <2>1. /\ new[i].stream = st /\ Board[st] = b /\ new[i].boot = boot[b] /\ new[i].id = counter[st]
        /\ new[i].nth = sent[b] + 1
    BY <1>a, <1>2
  <2>2. ASSUME Board[f.stream] = b PROVE f.nth < sent[b] + 1
    <3>1. f.nth <= sent[b] /\ f.nth \in Nat
      BY <1>10, <1>15, <2>2 DEF Known
    <3> QED BY <1>0, <3>1
  <2>3. ASSUME f.stream = st, f.boot = boot[b] PROVE f.id < counter[st]
    BY <1>15, <2>1, <2>3 DEF Known
  <2> QED BY <2>1, <2>2, <2>3 DEF NoLater
<1>16. ASSUME NEW A, \A f \in A : f \in Fragments /\ Known(f), NEW t \in Boards, Before(A, OnAir(t))
       PROVE  Before(A, OnAir(t)')
  BY <1>6, <1>8, <1>15, <1>16 DEF Before
<1>17. ASSUME InOrder(air[b]) PROVE InOrder(air[b])'
  <2>0. PICK all : all = air[b] \o new
    OBVIOUS
  <2> SUFFICES ASSUME NEW i \in 1..(Len(air[b]) + n), NEW j \in 1..(Len(air[b]) + n), i < j
               PROVE  NoLater(all[i], all[j])
    <3>1. Len(all) = Len(air[b]) + n
      BY <1>4, <2>0
    <3>2. InOrder(all)
      BY <3>1 DEF InOrder
    <3> QED BY <1>7, <2>0, <3>2
  <2>1. CASE i \in 1..Len(air[b]) /\ j \in 1..Len(air[b])
    BY <1>4, <1>17, <2>0, <2>1 DEF InOrder
  <2>2. CASE i \in 1..Len(air[b]) /\ j \notin 1..Len(air[b])
    <3>1. air[b][i] \in OnAir(b) /\ all[i] = air[b][i]
      BY <1>4, <2>0, <2>2 DEF OnAir
    <3>2. PICK k \in 1..n : all[j] = new[k]
      BY <1>4, <1>5, <2>0, <2>2
    <3> QED BY <1>b, <1>13, <1>15, <3>1, <3>2 DEF ArrivalInv, KnownInv
  <2>3. CASE i \notin 1..Len(air[b])
    <3>1. PICK k \in 1..n : all[i] = new[k]
      BY <1>4, <1>5, <2>0, <2>3
    <3>2. j \notin 1..Len(air[b])
      BY <1>0, <2>3
    <3>3. PICK m \in 1..n : all[j] = new[m]
      BY <1>4, <1>5, <2>0, <3>2
    <3> QED BY <1>2, <3>1, <3>3 DEF NoLater, OfOneMessage
  <2> QED BY <2>1, <2>2, <2>3
<1>18. OrderInv'
  <2>1. ASSUME NEW t \in Boards PROVE InOrder(air[t])'
    <3>1. InOrder(air[t])
      BY DEF ArrivalInv, OrderInv
    <3>2. CASE t = b
      BY <1>17, <3>1, <3>2
    <3>3. CASE t # b
      <4>1. air'[t] = air[t]
        BY <1>6, <3>3
      <4> QED BY <3>1, <4>1
    <3> QED BY <3>2, <3>3
  <2>2. ASSUME NEW t \in Boards
        PROVE  Before(InRing, OnAir(t)') /\ Before(InHand, OnAir(t)') /\ Before(heard, OnAir(t)')
    <3>1. \A f \in InRing \cup InHand \cup heard : f \in Fragments /\ Known(f)
      BY DEF ArrivalInv, KnownInv
    <3>2. /\ Before(InRing, OnAir(t)) /\ Before(InHand, OnAir(t)) /\ Before(heard, OnAir(t))
      BY DEF ArrivalInv, OrderInv
    <3> QED BY <1>16, <3>1, <3>2
  <2>3. /\ InOrder(Waiting)'
        /\ Before(InHand, InRing) /\ Before(heard, InRing) /\ Before(heard, InHand)
        /\ \A f, g \in heard : NoLater(f, g) \/ NoLater(g, f)
    BY <1>1 DEF ArrivalInv, OrderInv
  <2> QED BY <1>9, <2>1, <2>2, <2>3 DEF OrderInv
<1> QED BY <1>14, <1>18 DEF ArrivalInv

\* Where frames are few.
LEMMA FewerOnAir ==
  ASSUME NEW b \in Boards, air[b] \in Seq(Fragments), air[b] # <<>>
  PROVE  /\ Head(air[b]) \in OnAir(b) /\ Head(air[b]) = air[b][1]
         /\ Len(Tail(air[b])) = Len(air[b]) - 1 /\ Len(air[b]) \in Nat \ {0}
         /\ \A i \in 1..(Len(air[b]) - 1) : Tail(air[b])[i] = air[b][i + 1]
BY DEF OnAir

\* A frame that leaves the air.
LEMMA AirShrinks ==
  ASSUME ReceiveInv, ArrivalInv, NEW b \in Boards, air[b] # <<>>,
         air' \in {air, [air EXCEPT ![b] = Tail(@)]}
  PROVE  /\ \A t \in Boards : OnAir(t)' \subseteq OnAir(t)
         /\ \A t \in Boards : InOrder(air[t])'
<1>0. air \in [Boards -> Seq(Fragments)] /\ air[b] \in Seq(Fragments)
  BY DEF ReceiveInv, SenderInv
<1>1. \A t \in Boards : InOrder(air[t])
  BY DEF ArrivalInv, OrderInv
<1>2. CASE air' = air
  BY <1>1, <1>2 DEF OnAir
<1>3. CASE air' = [air EXCEPT ![b] = Tail(@)]
  <2>1. /\ Len(Tail(air[b])) = Len(air[b]) - 1 /\ Len(air[b]) \in Nat \ {0}
        /\ \A i \in 1..(Len(air[b]) - 1) : Tail(air[b])[i] = air[b][i + 1]
    BY <1>0, FewerOnAir
  <2>2. air'[b] = Tail(air[b]) /\ \A t \in Boards \ {b} : air'[t] = air[t]
    BY <1>0, <1>3
  <2>3. OnAir(b)' \subseteq OnAir(b)
    <3> SUFFICES ASSUME NEW i \in 1..(Len(air[b]) - 1) PROVE air[b][i + 1] \in OnAir(b)
      BY <2>1, <2>2 DEF OnAir
    <3>1. i + 1 \in 1..Len(air[b])
      BY <2>1
    <3> QED BY <3>1 DEF OnAir
  <2>4. \A t \in Boards : OnAir(t)' \subseteq OnAir(t)
    <3> SUFFICES ASSUME NEW t \in Boards PROVE OnAir(t)' \subseteq OnAir(t)
      OBVIOUS
    <3>1. CASE t = b
      BY <2>3, <3>1
    <3>2. CASE t # b
      BY <2>2, <3>2 DEF OnAir
    <3> QED BY <3>1, <3>2
  <2>5. ASSUME InOrder(air[b]) PROVE InOrder(Tail(air[b]))
    <3> SUFFICES ASSUME NEW i \in 1..(Len(air[b]) - 1), NEW j \in 1..(Len(air[b]) - 1), i < j
                 PROVE  NoLater(air[b][i + 1], air[b][j + 1])
      BY <2>1 DEF InOrder
    <3>1. i + 1 \in 1..Len(air[b]) /\ j + 1 \in 1..Len(air[b]) /\ i + 1 < j + 1
      BY <2>1
    <3> QED BY <2>5, <3>1 DEF InOrder
  <2>6. ASSUME NEW t \in Boards PROVE InOrder(air'[t])
    <3>1. CASE t = b
      BY <1>1, <2>2, <2>5, <3>1
    <3>2. CASE t # b
      BY <1>1, <2>2, <3>2
    <3> QED BY <3>1, <3>2
  <2> QED BY <2>4, <2>6
<1> QED BY <1>2, <1>3

\* Fewer frames keep their order.
LEMMA BeforeFewer ==
  ASSUME NEW A, NEW B, NEW C, NEW D, Before(A, B), C \subseteq A, D \subseteq B
  PROVE  Before(C, D)
BY DEF Before

\* What is known of a frame depends on its sender only.
LEMMA KnownKept ==
  ASSUME UNCHANGED <<counter, sent, boot, restarts>>, NEW f, Known(f)
  PROVE  Known(f)'
BY DEF Known

\* A frame that is lost leaves the others in their order.
LEMMA LoseArrival ==
  ASSUME ReceiveInv, ArrivalInv, NEW b \in Boards, Lose(b)
  PROVE  ArrivalInv'
<1>1. /\ air[b] # <<>> /\ air' \in {air, [air EXCEPT ![b] = Tail(@)]}
      /\ UNCHANGED <<counter, sent, boot, restarts, datagram, heard>> /\ Waiting' = Waiting
  BY DEF Lose, ring, assembly, Waiting
<1>2. InRing' = InRing /\ InHand' = InHand /\ heard' = heard
  BY <1>1 DEF InRing, InHand
<1>3. /\ \A t \in Boards : OnAir(t)' \subseteq OnAir(t)
      /\ \A t \in Boards : InOrder(air[t])'
  BY <1>1, AirShrinks
<1>4. KnownInv'
  BY <1>1, <1>2, <1>3, KnownKept DEF ArrivalInv, KnownInv
<1>5. OrderInv'
  BY <1>1, <1>2, <1>3, BeforeFewer DEF ArrivalInv, OrderInv
<1> QED BY <1>4, <1>5 DEF ArrivalInv

\* A frame that finds room is behind all frames that wait, and ahead of all that
\* are still on their way.
LEMMA ReceiveArrival ==
  ASSUME ReceiveInv, ArrivalInv, NEW b \in Boards, Receive(b)
  PROVE  ArrivalInv'
<1>a. PICK f : f = Head(air[b])
  OBVIOUS
<1>1. /\ air[b] # <<>> /\ air' \in {air, [air EXCEPT ![b] = Tail(@)]}
      /\ UNCHANGED <<counter, sent, boot, restarts, head, datagram, heard>>
  BY DEF Receive, assembly
<1>2. /\ f \in OnAir(b) /\ f \in Fragments /\ Board[f.stream] = b /\ Known(f) /\ f = air[b][1]
      /\ air[b] \in Seq(Fragments) /\ Len(air[b]) \in Nat \ {0}
  <2>1. air[b] \in Seq(Fragments)
    BY DEF ReceiveInv, SenderInv
  <2>2. f \in OnAir(b) /\ f = air[b][1] /\ Len(air[b]) \in Nat \ {0}
    BY <1>1, <1>a, <2>1, FewerOnAir
  <2> QED BY <2>1, <2>2 DEF ArrivalInv, KnownInv, OnAir
<1>3. /\ \A t \in Boards : OnAir(t)' \subseteq OnAir(t)
      /\ \A t \in Boards : InOrder(air[t])'
  BY <1>1, AirShrinks
<1>4. InHand' = InHand /\ heard' = heard
  BY <1>1 DEF InHand
<1>5. /\ Waiting \in Seq(Fragments \cup {NoDatagram})
      /\ Waiting' = Waiting \/ Waiting' = Append(Waiting, f)
  <2>1. CASE Following(tail) = head
    BY <1>1, <2>1, WaitingType DEF Receive, Waiting, ReceiveInv
  <2>2. CASE Following(tail) # head
    <3>1. slots' = [slots EXCEPT ![tail] = f] /\ tail' = Following(tail) /\ head' = head
      BY <1>1, <1>a, <2>2 DEF Receive
    <3> QED BY <1>2, <2>2, <3>1, WaitingType, EnqueueAppends DEF ReceiveInv
  <2> QED BY <2>1, <2>2
<1>6. CASE Waiting' = Waiting
  <2>1. InRing' = InRing
    BY <1>6 DEF InRing
  <2>2. KnownInv'
    BY <1>1, <1>3, <1>4, <2>1, KnownKept DEF ArrivalInv, KnownInv
  <2>3. OrderInv'
    BY <1>3, <1>4, <1>6, <2>1, BeforeFewer DEF ArrivalInv, OrderInv
  <2> QED BY <2>2, <2>3 DEF ArrivalInv
<1>7. CASE Waiting' = Append(Waiting, f)
  <2>0. Len(Waiting) \in Nat
    BY <1>5
  <2>1. /\ Len(Waiting') = Len(Waiting) + 1 /\ Waiting'[Len(Waiting) + 1] = f
        /\ \A i \in 1..Len(Waiting) : Waiting'[i] = Waiting[i]
    <3> DEFINE Held0 == Fragments \cup {NoDatagram}
    <3>1. Waiting \in Seq(Held0) /\ f \in Held0
      BY <1>2, <1>5
    <3> HIDE DEF Held0
    <3>2. PICK w : w = Waiting
      OBVIOUS
    <3>3. w \in Seq(Held0)
      BY <3>1, <3>2
    <3>4. /\ Len(Append(w, f)) = Len(w) + 1 /\ Append(w, f)[Len(w) + 1] = f
          /\ \A i \in 1..Len(w) : Append(w, f)[i] = w[i]
      BY ONLY <3>1, <3>3
    <3> QED BY <1>7, <3>2, <3>4
  <2>2. InRing' = InRing \cup {f}
    <3>1. \A i \in 1..(Len(Waiting) + 1) : i \in 1..Len(Waiting) \/ i = Len(Waiting) + 1
      BY <2>0
    <3>2. \A i \in 1..Len(Waiting) : i \in 1..(Len(Waiting) + 1)
      BY <2>0
    <3>3. Len(Waiting) + 1 \in 1..(Len(Waiting) + 1)
      BY <2>0
    <3> QED BY <2>1, <3>1, <3>2, <3>3 DEF InRing
  <2>3. KnownInv'
    BY <1>1, <1>2, <1>3, <1>4, <2>2, KnownKept DEF ArrivalInv, KnownInv
  <2>4. ASSUME NEW A, Before(A, OnAir(b)) PROVE Before(A, {f})
    BY <1>2, <2>4 DEF Before
  <2>5. ASSUME NEW t \in Boards PROVE Before({f}, OnAir(t))
    <3>1. CASE t = b
      <4> SUFFICES ASSUME NEW i \in 1..Len(air[b]) PROVE NoLater(air[b][1], air[b][i])
        BY <1>2, <3>1 DEF Before, OnAir
      <4>1. 1 \in 1..Len(air[b]) /\ (i = 1 \/ 1 < i)
        BY <1>2
      <4>2. InOrder(air[b])
        BY <3>1 DEF ArrivalInv, OrderInv
      <4> QED BY <4>1, <4>2 DEF InOrder, NoLater, OfOneMessage
    <3>2. CASE t # b
      <4>1. \A g \in OnAir(t) : Board[g.stream] # Board[f.stream]
        BY <1>2, <2>5, <3>2 DEF ArrivalInv, KnownInv
      <4> QED BY <4>1 DEF Before, NoLater
    <3> QED BY <3>1, <3>2
  <2>6. InOrder(Waiting)'
    <3>1. PICK w : w = Waiting'
      OBVIOUS
    <3> SUFFICES ASSUME NEW i \in 1..(Len(Waiting) + 1), NEW j \in 1..(Len(Waiting) + 1), i < j
                 PROVE  NoLater(w[i], w[j])
      <4>1. Len(w) = Len(Waiting) + 1
        BY <2>1, <3>1
      <4>2. InOrder(w)
        BY <4>1 DEF InOrder
      <4> QED BY <3>1, <4>2
    <3>2. i \in 1..Len(Waiting) /\ w[i] = Waiting[i]
      BY <2>0, <2>1, <3>1
    <3>3. CASE j \in 1..Len(Waiting)
      BY <2>1, <3>1, <3>2, <3>3 DEF ArrivalInv, OrderInv, InOrder
    <3>4. CASE j = Len(Waiting) + 1
      <4>1. Before(InRing, {f})
        BY <2>4 DEF ArrivalInv, OrderInv
      <4>2. w[j] = f /\ w[i] \in InRing
        BY <2>1, <3>1, <3>2, <3>4 DEF InRing
      <4> QED BY <4>1, <4>2 DEF Before
    <3> QED BY <2>0, <3>3, <3>4
  <2>7. Before(InHand, {f}) /\ Before(heard, {f})
    BY <2>4 DEF ArrivalInv, OrderInv
  <2>8. Before(InHand, InRing') /\ Before(heard, InRing')
    BY <2>2, <2>7 DEF ArrivalInv, OrderInv, Before
  <2>9. ASSUME NEW t \in Boards
        PROVE  Before(InRing', OnAir(t)') /\ Before(InHand, OnAir(t)') /\ Before(heard, OnAir(t)')
    <3>1. OnAir(t)' \subseteq OnAir(t)
      BY <1>3, <2>9
    <3>2. Before(InRing, OnAir(t)) /\ Before(InHand, OnAir(t)) /\ Before(heard, OnAir(t))
      BY DEF ArrivalInv, OrderInv
    <3>3. Before(InRing', OnAir(t))
      BY <2>2, <2>5, <3>2 DEF Before
    <3> QED BY <3>1, <3>2, <3>3, BeforeFewer
  <2>10. /\ Before(heard, InHand)
         /\ \A g, h \in heard : NoLater(g, h) \/ NoLater(h, g)
    BY DEF ArrivalInv, OrderInv
  <2>11. OrderInv'
    BY <1>3, <1>4, <2>6, <2>8, <2>9, <2>10 DEF OrderInv
  <2> QED BY <2>3, <2>11 DEF ArrivalInv
<1> QED BY <1>5, <1>6, <1>7

\* The frame that is copied out was ahead of all that wait.
LEMMA TakeArrival ==
  ASSUME ReceiveInv, ArrivalInv, Take
  PROVE  ArrivalInv'
<1>1. /\ datagram = NoDatagram /\ datagram' = slots[head]
      /\ UNCHANGED <<counter, sent, boot, restarts, air, heard>>
  BY DEF Take, sender, assembly
<1>2. Waiting # <<>> /\ Head(Waiting) = slots[head] /\ Waiting' = Tail(Waiting)
  BY DequeueTakes DEF Take, ReceiveInv
<1>3. PICK w : w = Waiting
  OBVIOUS
<1>4. w \in Seq(Fragments \cup {NoDatagram}) /\ w # <<>>
  BY <1>2, <1>3, WaitingType DEF ReceiveInv
<1>5. /\ Len(w) \in Nat \ {0} /\ Head(w) = w[1] /\ Len(Tail(w)) = Len(w) - 1
      /\ \A i \in 1..(Len(w) - 1) : Tail(w)[i] = w[i + 1] /\ i + 1 \in 1..Len(w)
  BY <1>4
<1>6. InHand = {} /\ InHand' \subseteq {w[1]}
  BY <1>1, <1>2, <1>3, <1>5 DEF InHand
<1>7. /\ \A i \in 1..Len(w) : w[i] \in InRing
      /\ InRing' \subseteq {w[i + 1] : i \in 1..(Len(w) - 1)}
  BY <1>2, <1>3, <1>5 DEF InRing
<1>8. InRing' \subseteq InRing /\ InHand' \subseteq InRing
  BY <1>5, <1>6, <1>7
<1>9. \A b \in Boards : OnAir(b)' = OnAir(b)
  BY <1>1 DEF OnAir
<1>10. KnownInv'
  BY <1>1, <1>8, <1>9, KnownKept DEF ArrivalInv, KnownInv
<1>11. InOrder(w)
  BY <1>3 DEF ArrivalInv, OrderInv
<1>12. InOrder(Waiting)'
  <2>1. ASSUME NEW i \in 1..(Len(w) - 1), NEW j \in 1..(Len(w) - 1), i < j
        PROVE  NoLater(w[i + 1], w[j + 1])
    <3>1. i + 1 \in 1..Len(w) /\ j + 1 \in 1..Len(w) /\ i + 1 < j + 1
      BY <1>5, <2>1
    <3> QED BY <1>11, <2>1, <3>1 DEF InOrder
  <2>2. InOrder(Tail(w))
    BY <1>5, <2>1 DEF InOrder
  <2> QED BY <1>2, <1>3, <2>2
<1>13. Before(InHand, InRing)'
  <2>1. ASSUME NEW i \in 1..(Len(w) - 1) PROVE NoLater(w[1], w[i + 1])
    <3>1. 1 \in 1..Len(w) /\ i + 1 \in 1..Len(w) /\ 1 < i + 1
      BY <1>5
    <3> QED BY <1>11, <3>1 DEF InOrder
  <2>2. Before({w[1]}, {w[i + 1] : i \in 1..(Len(w) - 1)})
    BY <2>1 DEF Before
  <2> QED BY <1>6, <1>7, <2>2, BeforeFewer
<1>14. OrderInv'
  <2>1. /\ \A b \in Boards : InOrder(air[b]) /\ Before(InRing, OnAir(b)) /\ Before(heard, OnAir(b))
        /\ Before(heard, InRing)
        /\ \A f, g \in heard : NoLater(f, g) \/ NoLater(g, f)
    BY DEF ArrivalInv, OrderInv
  <2>2. Before(heard, InRing') /\ Before(heard, InHand')
    BY <1>8, <2>1, BeforeFewer
  <2>3. \A b \in Boards : Before(InRing', OnAir(b)) /\ Before(InHand', OnAir(b))
    BY <1>8, <2>1, BeforeFewer
  <2> QED BY <1>1, <1>9, <1>12, <1>13, <2>1, <2>2, <2>3 DEF OrderInv
<1> QED BY <1>10, <1>14 DEF ArrivalInv

\* The frame that is processed has been heard, and was ahead of all others.
LEMMA ProcessArrival ==
  ASSUME ReceiveInv, ArrivalInv, Process
  PROVE  ArrivalInv'
<1>1. /\ datagram # NoDatagram /\ datagram' = NoDatagram /\ heard' = heard \cup {datagram}
      /\ UNCHANGED <<counter, sent, boot, restarts, air>> /\ Waiting' = Waiting
  BY DEF Process, sender, ring, Waiting
<1>2. InHand = {datagram} /\ InHand' = {} /\ InRing' = InRing
      /\ \A b \in Boards : OnAir(b)' = OnAir(b)
  BY <1>1 DEF InHand, InRing, OnAir
<1>3. KnownInv'
  BY <1>1, <1>2, KnownKept DEF ArrivalInv, KnownInv
<1>4. ASSUME NEW B, Before(InHand, B), Before(heard, B) PROVE Before(heard', B)
  BY <1>1, <1>2, <1>4 DEF Before
<1>5. \A f, g \in heard' : NoLater(f, g) \/ NoLater(g, f)
  <2>1. \A f \in heard : NoLater(f, datagram)
    BY <1>2 DEF ArrivalInv, OrderInv, Before
  <2>2. NoLater(datagram, datagram)
    BY DEF NoLater, OfOneMessage
  <2> QED BY <1>1, <2>1, <2>2 DEF ArrivalInv, OrderInv
<1>6. OrderInv'
  <2>1. /\ \A b \in Boards : InOrder(air[b]) /\ Before(InRing, OnAir(b))
                             /\ Before(InHand, OnAir(b)) /\ Before(heard, OnAir(b))
        /\ InOrder(Waiting) /\ Before(heard, InRing) /\ Before(InHand, InRing)
    BY DEF ArrivalInv, OrderInv
  <2>2. Before(heard', InRing) /\ \A b \in Boards : Before(heard', OnAir(b))
    BY <1>4, <2>1
  <2>3. /\ Before(InHand', InRing) /\ Before(heard', InHand')
        /\ \A b \in Boards : Before(InHand', OnAir(b))
    BY <1>2 DEF Before
  <2>4. \A b \in Boards : InOrder(air[b])' /\ OnAir(b)' = OnAir(b)
    BY <1>1, <1>2, <2>1
  <2>5. InOrder(Waiting)'
    BY <1>1, <2>1
  <2> QED BY <1>2, <1>5, <2>1, <2>2, <2>3, <2>4, <2>5 DEF OrderInv
<1> QED BY <1>3, <1>6 DEF ArrivalInv

\* What was sent before a restart stays known: its restart was an earlier one.
LEMMA RestartArrival ==
  ASSUME ReceiveInv, ArrivalInv, NEW b \in Boards, SenderRestart(b)
  PROVE  ArrivalInv'
<1>1. /\ counter' = [st \in Streams |-> IF Board[st] = b THEN 1 ELSE counter[st]]
      /\ boot' = [boot EXCEPT ![b] = restarts + 1] /\ restarts' = restarts + 1
      /\ boot \in [Boards -> 0..restarts] /\ restarts \in Nat
      /\ UNCHANGED <<sent, air, datagram, heard>> /\ Waiting' = Waiting
  BY ReceiveAssumption DEF SenderRestart, ring, assembly, Waiting, ReceiveInv, SenderInv
<1>2. InHand' = InHand /\ InRing' = InRing /\ heard' = heard
      /\ \A t \in Boards : OnAir(t)' = OnAir(t)
  BY <1>1 DEF InHand, InRing, OnAir
<1>3. \A f \in Fragments : Known(f) => Known(f)'
  <2> SUFFICES ASSUME NEW f \in Fragments, Known(f) PROVE Known(f)'
    OBVIOUS
  <2>0. PICK s, t : s = f.stream /\ t = Board[s]
    OBVIOUS
  <2>1. s \in Streams /\ t \in Boards /\ f.boot \in Nat
    BY <2>0, FragmentFields, BoardOfStream
  <2>2. f.nth <= sent[t] /\ f.boot <= restarts /\ (f.boot = boot[t] => f.id < counter[s])
    BY <2>0 DEF Known
  <2>3. f.boot <= restarts' /\ f.boot # restarts + 1
    BY <1>1, <2>1, <2>2
  <2>4. t # b => boot'[t] = boot[t] /\ counter'[s] = counter[s]
    BY <1>1, <2>0, <2>1
  <2>5. t = b => boot'[t] = restarts + 1
    BY <1>1, <2>1
  <2>6. f.boot = boot'[t] => f.id < counter'[s]
    BY <2>2, <2>3, <2>4, <2>5
  <2> QED BY <1>1, <2>0, <2>2, <2>3, <2>6 DEF Known
<1>4. KnownInv'
  <2>1. \A t \in Boards : OnAir(t) \subseteq Fragments
    BY DEF OnAir, ReceiveInv, SenderInv
  <2> QED BY <1>2, <1>3, <2>1 DEF ArrivalInv, KnownInv
<1>5. OrderInv'
  BY <1>1, <1>2 DEF ArrivalInv, OrderInv
<1> QED BY <1>4, <1>5 DEF ArrivalInv

\* A receiver that starts again has nothing waiting and has heard nothing.
LEMMA ReceiverArrival ==
  ASSUME ReceiveInv, ArrivalInv, ReceiverRestart
  PROVE  ArrivalInv'
<1>1. /\ UNCHANGED <<counter, sent, boot, air>> /\ restarts' = restarts + 1 /\ restarts \in Nat
      /\ datagram' = NoDatagram /\ heard' = {} /\ head' = 0 /\ tail' = 0
  BY ReceiveAssumption DEF ReceiverRestart, sender, ReceiveInv, SenderInv
<1>2. Waiting' = <<>>
  <2>1. head' = tail' /\ 0 \in Indices
    BY <1>1, ReceiveAssumption DEF Indices
  <2>2. Held(0, 0) = 0
    BY <2>1, RingArithmetic
  <2>3. Waiting' = [i \in 1..Held(0, 0) |-> slots'[SlotOf(0, i)]]
    BY <1>1 DEF Waiting, Held, SlotOf
  <2> QED BY <2>2, <2>3
<1>3. InHand' = {} /\ InRing' = {} /\ \A b \in Boards : OnAir(b)' = OnAir(b)
  BY <1>1, <1>2 DEF InHand, InRing, OnAir
<1>4. KnownInv'
  <2>1. \A b \in Boards : OnAir(b) \subseteq Fragments
    BY DEF OnAir, ReceiveInv, SenderInv
  <2>2. ASSUME NEW f \in Fragments, Known(f) PROVE Known(f)'
    <3>1. f.boot \in Nat /\ f.boot <= restarts
      BY <2>2, FragmentFields DEF Known
    <3>2. f.boot <= restarts'
      BY <1>1, <3>1
    <3> QED BY <1>1, <2>2, <3>2 DEF Known
  <2> QED BY <1>1, <1>3, <2>1, <2>2 DEF ArrivalInv, KnownInv
<1>5. OrderInv'
  <2>1. \A b \in Boards : InOrder(air[b])' /\ OnAir(b)' = OnAir(b)
    BY <1>1, <1>3 DEF ArrivalInv, OrderInv
  <2>2. InOrder(Waiting)'
    BY <1>2 DEF InOrder
  <2>3. \A B : Before({}, B) /\ Before(B, {})
    BY DEF Before
  <2> QED BY <1>1, <1>3, <2>1, <2>2, <2>3 DEF OrderInv
<1> QED BY <1>4, <1>5 DEF ArrivalInv

\* At first there are no frames.
LEMMA InitArrival == Init => ArrivalInv
<1> SUFFICES ASSUME Init PROVE ArrivalInv
  OBVIOUS
<1>1. RingInv /\ head = tail /\ datagram = NoDatagram /\ heard = {}
      /\ \A b \in Boards : air[b] = <<>>
  BY InitReceive DEF Init, ReceiveInv
<1>2. Waiting = <<>>
  BY <1>1, EmptyRing
<1>3. InHand = {} /\ InRing = {} /\ \A b \in Boards : OnAir(b) = {}
  BY <1>1, <1>2 DEF InHand, InRing, OnAir
<1>4. \A B : Before({}, B) /\ Before(B, {})
  BY DEF Before
<1>5. \A b \in Boards : InOrder(air[b])
  BY <1>1 DEF InOrder
<1>6. InOrder(Waiting)
  BY <1>2 DEF InOrder
<1> QED BY <1>1, <1>3, <1>4, <1>5, <1>6 DEF ArrivalInv, KnownInv, OrderInv

\* Every step keeps the frames known and in order.
LEMMA NextArrival ==
  ASSUME ReceiveInv, ArrivalInv, [Next]_vars
  PROVE  ArrivalInv'
<1>1. ASSUME NEW st \in Streams, NEW n \in Sizes[st], Send(st, n) PROVE ArrivalInv'
  BY <1>1, SendArrival
<1>2. ASSUME NEW b \in Boards, Lose(b) PROVE ArrivalInv'
  BY <1>2, LoseArrival
<1>3. ASSUME NEW b \in Boards, Receive(b) PROVE ArrivalInv'
  BY <1>3, ReceiveArrival
<1>4. ASSUME NEW b \in Boards, SenderRestart(b) PROVE ArrivalInv'
  BY <1>4, RestartArrival
<1>5. CASE UNCHANGED vars
  <2>1. /\ UNCHANGED <<counter, sent, boot, restarts, air, datagram, heard>> /\ Waiting' = Waiting
    BY <1>5 DEF vars, sender, ring, assembly, Waiting
  <2>2. InHand' = InHand /\ InRing' = InRing /\ \A b \in Boards : OnAir(b)' = OnAir(b)
    BY <2>1 DEF InHand, InRing, OnAir
  <2>3. KnownInv'
    BY <2>1, <2>2, KnownKept DEF ArrivalInv, KnownInv
  <2>4. OrderInv'
    BY <2>1, <2>2 DEF ArrivalInv, OrderInv
  <2> QED BY <2>3, <2>4 DEF ArrivalInv
<1> QED
  BY <1>1, <1>2, <1>3, <1>4, <1>5, TakeArrival, ProcessArrival, ReceiverArrival DEF Next

-----------------------------------------------------------------------------
(* Whole messages.                                                         *)

\* Every stream has a session of its own.
ToldApart == \A s, t \in Streams : Session[s] = Session[t] => s = t

\* Frames with one key are of one stream and have one number.
LEMMA KeyNames ==
  ASSUME ToldApart, NEW f \in Fragments, NEW g \in Fragments, Key(g) = Key(f)
  PROVE  g.stream = f.stream /\ g.id = f.id
<1>1. f.stream \in Streams /\ g.stream \in Streams
  BY FragmentFields
<1> QED BY <1>1 DEF ToldApart, Key

\* What lies in the assembler's table has been heard.
HeldIsHeard == \A k \in DOMAIN partial : partial[k].fragments \subseteq heard

\* A message that is handed on is whole.
IsWhole(m) ==
  \A i, j \in DOMAIN m :
    /\ m[i].index = i /\ Len(m) = m[i].count
    /\ m[i].stream = m[j].stream /\ m[i].id = m[j].id
    /\ m[i].boot = m[j].boot => m[i].nth = m[j].nth

\* Opening a message for a frame brings nothing unheard into the table.
LEMMA OpenedHeard ==
  ASSUME AssemblyInv, HeldIsHeard, NEW f \in Fragments
  PROVE  \A k \in DOMAIN Opened(f) : Opened(f)[k].fragments \subseteq heard
<1>1. CASE \E i \in DOMAIN partial : partial[i].key = Key(f)
  BY <1>1 DEF Opened, HeldIsHeard
<1>2. CASE ~ \E i \in DOMAIN partial : partial[i].key = Key(f)
  <2>1. PICK kept, e : /\ kept = IF Len(partial) >= MaxPartial THEN Tail(partial) ELSE partial
                       /\ e = Empty(f)
    OBVIOUS
  <2>2. Opened(f) = Append(kept, e) /\ e.fragments = {}
    BY <1>2, <2>1 DEF Opened, Empty
  <2>3. partial \in Seq(Partials) /\ Len(partial) \in Nat /\ MaxPartial \in Nat \ {0}
    BY ReceiveAssumption DEF AssemblyInv
  <2>4. kept \in Seq(Partials) /\ \A k \in DOMAIN kept : kept[k].fragments \subseteq heard
    <3>1. CASE Len(partial) >= MaxPartial
      <4>1. kept = Tail(partial) /\ Len(partial) >= 1
        BY <2>1, <2>3, <3>1
      <4>2. /\ kept \in Seq(Partials) /\ DOMAIN kept = 1..(Len(partial) - 1)
            /\ \A k \in 1..(Len(partial) - 1) : kept[k] = partial[k + 1] /\ k + 1 \in DOMAIN partial
        BY <2>3, <4>1
      <4> QED BY <4>2 DEF HeldIsHeard
    <3>2. CASE ~(Len(partial) >= MaxPartial)
      BY <2>1, <2>3, <3>2 DEF HeldIsHeard
    <3> QED BY <3>1, <3>2
  <2>5. e \in Partials
    BY <2>1, FragmentFields DEF Empty, Partials, Keys
  <2>6. /\ DOMAIN Append(kept, e) = 1..(Len(kept) + 1) /\ Append(kept, e)[Len(kept) + 1] = e
        /\ \A k \in 1..Len(kept) : Append(kept, e)[k] = kept[k]
        /\ DOMAIN kept = 1..Len(kept) /\ Len(kept) \in Nat
    BY ONLY <2>4, <2>5
  <2>7. \A k \in 1..(Len(kept) + 1) : k \in 1..Len(kept) \/ k = Len(kept) + 1
    BY <2>6
  <2> QED BY <2>2, <2>4, <2>6, <2>7
<1> QED BY <1>1, <1>2

\* A message put together from frames that came in order is whole.
LEMMA HeardMakesWhole ==
  ASSUME ToldApart, NEW H, H \subseteq Fragments, \A f, g \in H : NoLater(f, g) \/ NoLater(g, f),
         NEW p \in Partials, Complete(p), p.fragments \subseteq H
  PROVE  IsWhole(Assembled(p))
<1>0. PICK m : m = Assembled(p)
  OBVIOUS
<1>1. /\ DOMAIN m = 1..p.count /\ Len(m) = p.count
      /\ \A i \in 1..p.count : m[i] \in p.fragments /\ m[i].index = i
  BY <1>0, AssembledMessage
<1> SUFFICES ASSUME NEW i \in DOMAIN m, NEW j \in DOMAIN m
             PROVE  /\ m[i].index = i /\ Len(m) = m[i].count
                    /\ m[i].stream = m[j].stream /\ m[i].id = m[j].id
                    /\ m[i].boot = m[j].boot => m[i].nth = m[j].nth
  BY <1>0 DEF IsWhole
<1>2. PICK f, g : f = m[i] /\ g = m[j]
  OBVIOUS
<1>3. f \in H /\ g \in H /\ f \in Fragments /\ g \in Fragments /\ f.index = i
      /\ Key(f) = p.key /\ Key(g) = p.key /\ f.count = p.count
  BY <1>1, <1>2 DEF Partials
<1>4. f.stream = g.stream /\ f.id = g.id
  BY <1>3, KeyNames
<1>5. f.boot = g.boot => f.nth = g.nth
  <2>1. NoLater(f, g) \/ NoLater(g, f)
    BY <1>3
  <2>2. f.id \in Nat /\ g.id \in Nat
    BY <1>3, FragmentFields
  <2> QED BY <1>4, <2>1, <2>2 DEF NoLater, OfOneMessage
<1> QED BY <1>1, <1>2, <1>3, <1>4, <1>5

\* What is left when an entry is taken away was there before, each once.
LEMMA RemovedWasThere ==
  ASSUME NEW T, NEW s \in Seq(T), NEW n \in DOMAIN s
  PROVE  \E at \in [DOMAIN RemoveAt(s, n) -> DOMAIN s] :
           /\ \A i \in DOMAIN RemoveAt(s, n) : RemoveAt(s, n)[i] = s[at[i]]
           /\ \A i, j \in DOMAIN RemoveAt(s, n) : at[i] = at[j] => i = j
<1>1. PICK r : r = RemoveAt(s, n)
  OBVIOUS
<1>2. /\ r \in Seq(T) /\ Len(r) = Len(s) - 1
      /\ \A i \in 1..(Len(s) - 1) : r[i] = IF i < n THEN s[i] ELSE s[i + 1]
  <2>1. PICK b, c : b = SubSeq(s, 1, n - 1) /\ c = SubSeq(s, n + 1, Len(s))
    OBVIOUS
  <2>2. Len(s) \in Nat /\ n \in 1..Len(s)
    OBVIOUS
  <2>3. b \in Seq(T) /\ Len(b) = n - 1 /\ \A i \in 1..(n - 1) : b[i] = s[i]
    BY <2>1, <2>2
  <2>4. c \in Seq(T) /\ Len(c) = Len(s) - n /\ \A i \in 1..(Len(s) - n) : c[i] = s[n + i]
    BY <2>1, <2>2
  <2>5. r = b \o c
    BY <1>1, <2>1 DEF RemoveAt
  <2>6. /\ r \in Seq(T) /\ Len(r) = Len(s) - 1
        /\ \A i \in 1..(Len(s) - 1) : r[i] = IF i <= n - 1 THEN b[i] ELSE c[i - (n - 1)]
    <3>1. b \in Seq(T) /\ c \in Seq(T)
      BY <2>3, <2>4
    <3>2. /\ b \o c \in Seq(T) /\ Len(b \o c) = Len(b) + Len(c)
          /\ \A i \in 1..(Len(b) + Len(c)) :
               (b \o c)[i] = IF i <= Len(b) THEN b[i] ELSE c[i - Len(b)]
      BY ONLY <3>1
    <3>3. Len(b) = n - 1 /\ Len(b) + Len(c) = Len(s) - 1
      BY <2>2, <2>3, <2>4
    <3> QED BY <2>5, <3>2, <3>3
  <2>7. ASSUME NEW i \in 1..(Len(s) - 1) PROVE r[i] = IF i < n THEN s[i] ELSE s[i + 1]
    <3>1. CASE i < n
      BY <2>2, <2>3, <2>6, <3>1
    <3>2. CASE ~(i < n)
      <4>1. i - (n - 1) \in 1..(Len(s) - n) /\ n + (i - (n - 1)) = i + 1 /\ ~(i <= n - 1)
        BY <2>2, <3>2
      <4> QED BY <2>4, <2>6, <3>2, <4>1
    <3> QED BY <3>1, <3>2
  <2> QED BY <2>6, <2>7
<1>3. Len(s) \in Nat /\ DOMAIN s = 1..Len(s) /\ DOMAIN r = 1..(Len(s) - 1) /\ n \in Nat
  BY <1>2
<1>4. PICK at : at = [i \in 1..(Len(s) - 1) |-> IF i < n THEN i ELSE i + 1]
  OBVIOUS
<1>5. \A i \in DOMAIN r : at[i] \in DOMAIN s /\ r[i] = s[at[i]]
  BY <1>2, <1>3, <1>4
<1>6. \A i, j \in DOMAIN r : at[i] = at[j] => i = j
  BY <1>3, <1>4
<1>7. at \in [DOMAIN r -> DOMAIN s]
  BY <1>3, <1>4, <1>5
<1> QED BY <1>1, <1>5, <1>6, <1>7

\* A step of the assembler keeps the table heard and the messages whole.
LEMMA ProcessWhole ==
  ASSUME ToldApart, ReceiveInv, ArrivalInv, HeldIsHeard, WholeMessages, Process
  PROVE  HeldIsHeard' /\ WholeMessages'
<1>0. ReceiveInv' /\ ArrivalInv'
  BY NextReceive, ProcessArrival DEF Next
<1>a. PICK f, list, k, stored :
        /\ f = datagram /\ list = Opened(f)
        /\ k = CHOOSE i \in DOMAIN list : list[i].key = Key(f)
        /\ stored = [list EXCEPT ![k].fragments = @ \cup {f}]
  OBVIOUS
<1>1. f \in Fragments /\ heard' = heard \cup {f}
  BY <1>a DEF Process, ReceiveInv, RingInv
<1>2. list \in Seq(Partials) /\ k \in DOMAIN list /\ list[k].key = Key(f)
  BY <1>a, <1>1, OpenedList DEF ReceiveInv
<1>3. \/ partial' = list /\ UNCHANGED delivered
      \/ ~Ignored(list[k], f) /\ partial' = stored /\ UNCHANGED delivered
      \/ /\ ~Ignored(list[k], f) /\ Complete(stored[k])
         /\ partial' = RemoveAt(stored, k)
         /\ delivered' = delivered \cup {Assembled(stored[k])}
  BY <1>a, Zenon DEF Process
<1>4. \A i \in DOMAIN list : list[i].fragments \subseteq heard'
  BY <1>a, <1>1, OpenedHeard DEF ReceiveInv
<1>5. ASSUME ~Ignored(list[k], f)
      PROVE  stored \in Seq(Partials) /\ Len(stored) = Len(list) /\ k \in DOMAIN stored
             /\ \A i \in DOMAIN stored : stored[i].fragments \subseteq heard'
  <2>1. LET new == [list EXCEPT ![k].fragments = @ \cup {f}]
        IN  new \in Seq(Partials) /\ Len(new) = Len(list) /\ k \in DOMAIN new
    BY ONLY <1>1, <1>2, <1>5, StoredList
  <2>2. stored \in Seq(Partials) /\ Len(stored) = Len(list) /\ k \in DOMAIN stored
    BY <1>a, <2>1
  <2>3. DOMAIN stored = DOMAIN list
    BY <1>2, <2>2
  <2>4. \A i \in DOMAIN list \ {k} : stored[i] = list[i]
    BY <1>a, <1>2
  <2>5. stored[k].fragments \subseteq list[k].fragments \cup {f}
    <3>1. stored[k] = [list[k] EXCEPT !.fragments = @ \cup {f}]
      BY <1>a, <1>2
    <3>2. list[k] \in Partials
      BY <1>2
    <3> QED BY <3>1, <3>2 DEF Partials
  <2> QED BY <1>1, <1>2, <1>4, <2>2, <2>3, <2>4, <2>5
<1>6. HeldIsHeard'
  <2>1. CASE partial' = list
    BY <1>4, <2>1 DEF HeldIsHeard
  <2>2. CASE ~Ignored(list[k], f) /\ partial' = stored
    BY <1>5, <2>2 DEF HeldIsHeard
  <2>3. CASE ~Ignored(list[k], f) /\ partial' = RemoveAt(stored, k)
    <3>1. \A i \in DOMAIN RemoveAt(stored, k) : \E j \in DOMAIN stored : RemoveAt(stored, k)[i] = stored[j]
      BY <1>5, <2>3, RemovedWasThere
    <3> QED BY <1>5, <2>3, <3>1 DEF HeldIsHeard
  <2> QED BY <1>3, <2>1, <2>2, <2>3
<1>7. WholeMessages'
  <2>1. CASE UNCHANGED delivered
    BY <2>1 DEF WholeMessages
  <2>2. CASE /\ ~Ignored(list[k], f) /\ Complete(stored[k])
             /\ delivered' = delivered \cup {Assembled(stored[k])}
    <3>1. stored[k] \in Partials /\ Complete(stored[k]) /\ stored[k].fragments \subseteq heard'
      BY <1>5, <2>2
    <3>2. PICK H : H = heard'
      OBVIOUS
    <3>3. H \subseteq Fragments /\ \A g, h \in H : NoLater(g, h) \/ NoLater(h, g)
      BY <1>0, <3>2 DEF ReceiveInv, AssemblyInv, ArrivalInv, OrderInv
    <3>4. stored[k].fragments \subseteq H
      BY <3>1, <3>2
    <3>5. IsWhole(Assembled(stored[k]))
      BY ToldApart, <3>1, <3>3, <3>4, HeardMakesWhole
    <3>6. \A m \in delivered : IsWhole(m)
      BY DEF WholeMessages, IsWhole
    <3> QED BY <2>2, <3>5, <3>6 DEF WholeMessages, IsWhole
  <2> QED BY <1>3, <2>1, <2>2
<1> QED BY <1>6, <1>7

\* Every step keeps the messages whole.
LEMMA NextWhole ==
  ASSUME ToldApart, ReceiveInv, ArrivalInv, HeldIsHeard, WholeMessages, [Next]_vars
  PROVE  HeldIsHeard' /\ WholeMessages'
<1>1. ASSUME UNCHANGED assembly PROVE HeldIsHeard' /\ WholeMessages'
  BY <1>1 DEF assembly, HeldIsHeard, WholeMessages
<1>2. CASE ReceiverRestart
  <2>1. partial' = <<>> /\ UNCHANGED delivered
    BY <1>2 DEF ReceiverRestart
  <2> QED BY <2>1 DEF HeldIsHeard, WholeMessages
<1>3. CASE \E st \in Streams : \E n \in Sizes[st] : Send(st, n)
  BY <1>1, <1>3 DEF Send
<1>4. CASE \E b \in Boards : Lose(b) \/ Receive(b) \/ SenderRestart(b)
  BY <1>1, <1>4 DEF Lose, Receive, SenderRestart
<1>5. CASE Take
  BY <1>1, <1>5 DEF Take
<1>6. CASE UNCHANGED vars
  BY <1>1, <1>6 DEF vars
<1> QED BY <1>2, <1>3, <1>4, <1>5, <1>6, ProcessWhole DEF Next

\* With a session for every stream the assembler hands on the frames of one
\* message, or of two with one number between which their board restarted,
\* whatever is lost, repeated or refused, whichever boards send and restart, and
\* however many frames the messages have (FrameAssembler::addFragment).
THEOREM AssembledWhole ==
  ASSUME ToldApart
  PROVE  Spec => []WholeMessages
<1>1. Init => ReceiveInv /\ ArrivalInv /\ HeldIsHeard /\ WholeMessages
  <2>1. Init => HeldIsHeard /\ WholeMessages
    BY DEF Init, HeldIsHeard, WholeMessages
  <2> QED BY <2>1, InitReceive, InitArrival
<1>2. (ReceiveInv /\ ArrivalInv /\ HeldIsHeard /\ WholeMessages) /\ [Next]_vars
        => (ReceiveInv /\ ArrivalInv /\ HeldIsHeard /\ WholeMessages)'
  BY ToldApart, NextReceive, NextArrival, NextWhole
<1> QED BY <1>1, <1>2, PTL DEF Spec
-----------------------------------------------------------------------------
(* What the assembler does with one frame.                                 *)

\* The frames of a frame's message, in order.
Message(f) == [i \in 1..f.count |-> [f EXCEPT !.index = i]]

\* Frames of one message name it alike.
LEMMA OneMessage ==
  ASSUME NEW f \in Fragments, NEW g \in Fragments, OfOneMessage(f, g)
  PROVE  Key(g) = Key(f) /\ g = [f EXCEPT !.index = g.index] /\ Message(g) = Message(f)
<1>1. /\ f = [stream |-> f.stream, nth |-> f.nth, boot |-> f.boot, id |-> f.id,
              index |-> f.index, count |-> f.count]
      /\ g = [stream |-> f.stream, nth |-> f.nth, boot |-> f.boot, id |-> f.id,
              index |-> g.index, count |-> f.count]
  BY FragmentFields DEF OfOneMessage
<1>2. \A i : [g EXCEPT !.index = i] = [f EXCEPT !.index = i]
  BY <1>1
<1>3. Message(g) = Message(f)
  BY <1>2 DEF Message, OfOneMessage
<1> QED BY <1>1, <1>3 DEF Key, OfOneMessage

\* The table when a message that is not in it is opened.
Kept == IF Len(partial) >= MaxPartial THEN Tail(partial) ELSE partial

\* It is the table, perhaps without its oldest entry.
LEMMA KeptIs ==
  ASSUME AssemblyInv
  PROVE  /\ Kept \in Seq(Partials)
         /\ \E d \in {0, 1} : \A i \in 1..Len(Kept) :
              i + d \in DOMAIN partial /\ Kept[i] = partial[i + d]
<1>0. /\ partial \in Seq(Partials) /\ Len(partial) \in Nat /\ MaxPartial \in Nat \ {0}
      /\ DOMAIN partial = 1..Len(partial)
  BY ReceiveAssumption DEF AssemblyInv
<1>1. CASE Len(partial) >= MaxPartial
  <2>1. PICK t : t = Tail(partial)
    OBVIOUS
  <2>2. Len(partial) >= 1
    BY <1>0, <1>1
  <2>3. /\ t \in Seq(Partials) /\ Len(t) = Len(partial) - 1
        /\ \A i \in 1..Len(t) : t[i] = partial[i + 1]
    BY <1>0, <2>1, <2>2
  <2>4. Kept = t
    BY <1>1, <2>1 DEF Kept
  <2>5. \A i \in 1..Len(t) : i + 1 \in DOMAIN partial /\ t[i] = partial[i + 1]
    BY <1>0, <2>2, <2>3
  <2>6. \E d \in {0, 1} : \A i \in 1..Len(t) : i + d \in DOMAIN partial /\ t[i] = partial[i + d]
    BY <2>5
  <2> QED BY <2>3, <2>4, <2>6
<1>2. CASE ~(Len(partial) >= MaxPartial)
  <2>1. Kept = partial
    BY <1>2 DEF Kept
  <2>2. \A i \in 1..Len(partial) : i + 0 \in DOMAIN partial /\ partial[i] = partial[i + 0]
    BY <1>0
  <2>3. \E d \in {0, 1} : \A i \in 1..Len(partial) :
          i + d \in DOMAIN partial /\ partial[i] = partial[i + d]
    BY <2>2
  <2> QED BY <1>0, <2>1, <2>3
<1> QED BY <1>1, <1>2

\* The last element of a sequence, replaced and taken away.
LEMMA LastReplaced ==
  ASSUME NEW T, NEW s \in Seq(T), NEW x \in T, NEW y \in T
  PROVE  [Append(s, x) EXCEPT ![Len(s) + 1] = y] = Append(s, y)
<1>1. PICK n, a, b : n = Len(s) /\ a = Append(s, x) /\ b = Append(s, y)
  OBVIOUS
<1>2. /\ n \in Nat /\ a \in Seq(T) /\ b \in Seq(T) /\ Len(a) = n + 1 /\ Len(b) = n + 1
      /\ \A i \in 1..n : a[i] = s[i] /\ b[i] = s[i]
      /\ a[n + 1] = x /\ b[n + 1] = y
  BY <1>1
<1>3. a = [i \in 1..(n + 1) |-> a[i]] /\ b = [i \in 1..(n + 1) |-> b[i]]
  BY <1>2
<1>4. [a EXCEPT ![n + 1] = y] = [i \in 1..(n + 1) |-> IF i = n + 1 THEN y ELSE a[i]]
  BY <1>3
<1>5. \A i \in 1..(n + 1) : (IF i = n + 1 THEN y ELSE a[i]) = b[i]
  <2>1. \A i \in 1..(n + 1) : i \in 1..n \/ i = n + 1
    BY <1>2
  <2> QED BY <1>2, <2>1
<1>6. [a EXCEPT ![n + 1] = y] = b
  BY <1>3, <1>4, <1>5
<1> QED BY <1>1, <1>6

\* Taking away what was appended gives the sequence back.
LEMMA LastRemoved ==
  ASSUME NEW T, NEW s \in Seq(T), NEW y \in T
  PROVE  RemoveAt(Append(s, y), Len(s) + 1) = s
<1>1. /\ SubSeq(Append(s, y), 1, Len(s)) = s
      /\ SubSeq(Append(s, y), Len(s) + 2, Len(s) + 1) = <<>>
      /\ Len(Append(s, y)) = Len(s) + 1 /\ Len(s) \in Nat
  OBVIOUS
<1>2. Len(s) + 1 - 1 = Len(s) /\ Len(s) + 1 + 1 = Len(s) + 2
  BY <1>1
<1>3. s \o <<>> = s
  OBVIOUS
<1> QED BY <1>1, <1>2, <1>3 DEF RemoveAt

\* One more frame in an entry of the table.
LEMMA Grown ==
  ASSUME NEW k, NEW c, NEW F, NEW f, NEW old, old = [key |-> k, count |-> c, fragments |-> F],
         NEW new, new = [key |-> k, count |-> c, fragments |-> F \cup {f}]
  PROVE  [old EXCEPT !.fragments = @ \cup {f}] = new
OBVIOUS

\* A step of the assembler, when the frame's message is entry n of the table.
LEMMA StepOfProcess ==
  ASSUME Process, NEW f, f = datagram, NEW list, list = Opened(f),
         NEW n, n \in DOMAIN list, \A i \in DOMAIN list : list[i].key = Key(f) <=> i = n,
         NEW stored, stored = [list EXCEPT ![n].fragments = @ \cup {f}]
  PROVE  \/ Ignored(list[n], f) /\ partial' = list /\ UNCHANGED delivered
         \/ ~Ignored(list[n], f) /\ ~Complete(stored[n]) /\ partial' = stored /\ UNCHANGED delivered
         \/ /\ ~Ignored(list[n], f) /\ Complete(stored[n])
            /\ partial' = RemoveAt(stored, n)
            /\ delivered' = delivered \cup {Assembled(stored[n])}
<1>1. (CHOOSE i \in DOMAIN list : list[i].key = Key(f)) = n
  OBVIOUS
<1>2. PICK k : k = CHOOSE i \in DOMAIN Opened(datagram) : Opened(datagram)[i].key = Key(datagram)
  OBVIOUS
<1>3. LET kept == [Opened(datagram) EXCEPT ![k].fragments = @ \cup {datagram}]
      IN  \/ Ignored(Opened(datagram)[k], datagram) /\ partial' = Opened(datagram) /\ UNCHANGED delivered
          \/ /\ ~Ignored(Opened(datagram)[k], datagram) /\ ~Complete(kept[k])
             /\ partial' = kept /\ UNCHANGED delivered
          \/ /\ ~Ignored(Opened(datagram)[k], datagram) /\ Complete(kept[k])
             /\ partial' = RemoveAt(kept, k)
             /\ delivered' = delivered \cup {Assembled(kept[k])}
  BY <1>2, Zenon DEF Process
<1>4. k = n
  BY <1>1, <1>2
<1> QED BY <1>3, <1>4, Zenon

\* The first frame of a message of which nothing is in the table.
LEMMA FirstOfMessage ==
  ASSUME ReceiveInv, Process,
         ~ \E i \in DOMAIN partial : partial[i].key = Key(datagram)
  PROVE  IF datagram.count = 1
         THEN partial' = Kept /\ delivered' = delivered \cup {Message(datagram)}
         ELSE /\ partial' = Append(Kept, [key |-> Key(datagram), count |-> datagram.count,
                                          fragments |-> {datagram}])
              /\ delivered' = delivered
<1>a. PICK f : f = datagram
  OBVIOUS
<1>0. /\ f \in Fragments /\ f.count \in Nat \ {0} /\ f.index \in 1..f.count
      /\ f = [stream |-> f.stream, nth |-> f.nth, boot |-> f.boot, id |-> f.id,
              index |-> f.index, count |-> f.count]
  <2>1. f \in Fragments
    BY <1>a DEF Process, ReceiveInv, RingInv
  <2> QED BY <2>1, FragmentFields
<1>1. /\ Kept \in Seq(Partials) /\ Len(Kept) \in Nat
      /\ \A i \in 1..Len(Kept) : Kept[i].key # Key(f)
  <2>1. /\ Kept \in Seq(Partials)
        /\ \E d \in {0, 1} : \A i \in 1..Len(Kept) :
             i + d \in DOMAIN partial /\ Kept[i] = partial[i + d]
    BY KeptIs DEF ReceiveInv
  <2>2. PICK d \in {0, 1} : \A i \in 1..Len(Kept) :
          i + d \in DOMAIN partial /\ Kept[i] = partial[i + d]
    BY <2>1
  <2> QED BY <1>a, <2>1, <2>2
<1>2. PICK e : e = [key |-> Key(f), count |-> f.count, fragments |-> {}]
  OBVIOUS
<1>3. Empty(f) = e /\ Opened(f) = Append(Kept, e)
  BY <1>a, <1>2 DEF Opened, Empty, Kept
<1>4. PICK list : list = Append(Kept, e)
  OBVIOUS
<1>5. PICK n : n = Len(Kept) + 1
  OBVIOUS
<1>6. e \in Partials
  BY <1>0, <1>2 DEF Partials, Keys
<1>7. PICK kept : kept = Kept
  OBVIOUS
<1>8. /\ list \in Seq(Partials) /\ Len(list) = n /\ list[n] = e /\ n \in Nat \ {0}
      /\ \A i \in 1..(n - 1) : list[i] = kept[i] /\ i \in 1..Len(kept)
      /\ kept \in Seq(Partials) /\ Len(kept) = n - 1
  BY <1>1, <1>4, <1>5, <1>6, <1>7
<1>9. \A i \in DOMAIN list : list[i].key = Key(f) <=> i = n
  <2>1. \A i \in 1..n : i = n \/ i \in 1..(n - 1)
    BY <1>8
  <2>2. DOMAIN list = 1..n /\ e.key = Key(f) /\ n \in 1..n
    BY <1>2, <1>8
  <2> QED BY <1>1, <1>7, <1>8, <2>1, <2>2
<1>10. n \in DOMAIN list
  BY <1>8
<1>11. PICK e1 : e1 = [key |-> Key(f), count |-> f.count, fragments |-> {f}]
  OBVIOUS
<1>12. PICK stored : stored = [list EXCEPT ![n] = e1]
  OBVIOUS
<1>13. [list EXCEPT ![n].fragments = @ \cup {f}] = stored
  <2>1. [e EXCEPT !.fragments = @ \cup {f}] = e1
    BY <1>2, <1>11
  <2> QED BY <1>8, <1>12, <2>1
<1>14. ~Ignored(list[n], f)
  BY <1>2, <1>8 DEF Ignored
<1>15. stored[n] = e1 /\ e1.count = f.count /\ e1.fragments = {f}
  BY <1>8, <1>11, <1>12
<1>15a. \/ Ignored(list[n], f) /\ partial' = list /\ UNCHANGED delivered
        \/ ~Ignored(list[n], f) /\ ~Complete(stored[n]) /\ partial' = stored /\ UNCHANGED delivered
        \/ /\ ~Ignored(list[n], f) /\ Complete(stored[n])
           /\ partial' = RemoveAt(stored, n)
           /\ delivered' = delivered \cup {Assembled(stored[n])}
  <2>1. list = Opened(f)
    BY <1>3, <1>4
  <2> QED BY <1>a, <2>1, <1>9, <1>10, <1>13, StepOfProcess
<1>16. \/ ~Complete(e1) /\ partial' = stored /\ UNCHANGED delivered
       \/ Complete(e1) /\ partial' = RemoveAt(stored, n) /\ delivered' = delivered \cup {Assembled(e1)}
  BY <1>14, <1>15, <1>15a, Zenon
<1>17. stored = Append(kept, e1) /\ RemoveAt(stored, n) = kept
  <2> DEFINE T == Partials \cup {e1}
  <2>1. kept \in Seq(T) /\ e \in T /\ e1 \in T
    <3>1. Partials \subseteq T
      OBVIOUS
    <3> HIDE DEF T
    <3>2. kept \in Seq(T) /\ e \in T
      BY <1>6, <1>8, <3>1
    <3> QED BY <3>2 DEF T
  <2> HIDE DEF T
  <2>2. list = Append(kept, e)
    BY <1>4, <1>7
  <2>3. stored = Append(kept, e1)
    BY <1>8, <1>12, <2>1, <2>2, LastReplaced
  <2>4. n = Len(kept) + 1
    BY <1>8
  <2> QED BY <2>1, <2>3, <2>4, LastRemoved
<1>19. CASE f.count = 1
  <2>1. f.index = 1
    BY <1>0, <1>19
  <2>2. Complete(e1)
    BY <1>15, <1>19, <2>1 DEF Complete
  <2>3. Assembled(e1) = Message(f)
    <3>1. (CHOOSE g \in {f} : g.index = 1) = f
      BY <2>1
    <3>2. f = [f EXCEPT !.index = 1]
      BY <1>0, <2>1
    <3>3. Assembled(e1) = [i \in 1..1 |-> CHOOSE g \in {f} : g.index = i]
      BY <1>15, <1>19 DEF Assembled
    <3>4. Message(f) = [i \in 1..1 |-> [f EXCEPT !.index = i]]
      BY <1>19 DEF Message
    <3>5. \A i \in 1..1 : i = 1
      OBVIOUS
    <3> QED BY <3>1, <3>2, <3>3, <3>4, <3>5
  <2> QED BY <1>a, <1>7, <1>16, <1>17, <1>19, <2>2, <2>3
<1>20. CASE f.count # 1
  <2>1. ~Complete(e1)
    <3>1. PICK i \in 1..f.count : i # f.index
      BY <1>0, <1>20
    <3> QED BY <1>15, <3>1 DEF Complete
  <2> QED BY <1>a, <1>7, <1>11, <1>16, <1>17, <1>20, <2>1
<1> QED BY <1>19, <1>20, <1>a

\* A frame of the message that stands last in the table.
LEMMA NextOfMessage ==
  ASSUME ReceiveInv, Process, NEW F, F \subseteq Fragments, partial # <<>>,
         \A i, j \in DOMAIN partial : partial[i].key = partial[j].key => i = j,
         partial[Len(partial)] = [key |-> Key(datagram), count |-> datagram.count, fragments |-> F]
  PROVE  LET n == Len(partial)
             all == F \cup {datagram}
         IN  \/ /\ \E g \in F : g.index = datagram.index
                /\ UNCHANGED <<partial, delivered>>
             \/ /\ \E i \in 1..datagram.count : \A g \in all : g.index # i
                /\ partial' = [partial EXCEPT ![n] = [key |-> Key(datagram),
                                 count |-> datagram.count, fragments |-> all]]
                /\ UNCHANGED delivered
             \/ /\ \A i \in 1..datagram.count : \E g \in all : g.index = i
                /\ partial' = SubSeq(partial, 1, n - 1)
                /\ delivered' = delivered \cup
                     {[i \in 1..datagram.count |-> CHOOSE g \in all : g.index = i]}
<1>a. PICK f, list, n, all : f = datagram /\ list = partial /\ n = Len(partial) /\ all = F \cup {f}
  OBVIOUS
<1>1. /\ list \in Seq(Partials) /\ n \in Nat \ {0} /\ n \in DOMAIN list /\ Len(list) = n
  BY <1>a DEF ReceiveInv, AssemblyInv
<1>2. list[n].key = Key(f) /\ list[n].count = f.count /\ list[n].fragments = F
      /\ list[n] = [key |-> Key(f), count |-> f.count, fragments |-> F]
  BY <1>a
<1>3. Opened(f) = list
  BY <1>a, <1>1, <1>2 DEF Opened
<1>4. \A i \in DOMAIN list : list[i].key = Key(f) <=> i = n
  BY <1>a, <1>1, <1>2
<1>6. PICK e : e = [key |-> Key(f), count |-> f.count, fragments |-> all]
  OBVIOUS
<1>7. PICK stored : stored = [list EXCEPT ![n] = e]
  OBVIOUS
<1>8. [list EXCEPT ![n].fragments = @ \cup {f}] = stored
  <2>1. PICK old : old = [key |-> Key(f), count |-> f.count, fragments |-> F]
    OBVIOUS
  <2>2. [old EXCEPT !.fragments = @ \cup {f}] = e
    <3>1. e = [key |-> Key(f), count |-> f.count, fragments |-> F \cup {f}]
      BY <1>a, <1>6
    <3> QED BY ONLY <2>1, <3>1
  <2>3. list[n] = old
    BY <1>2, <2>1
  <2>4. [list EXCEPT ![n].fragments = @ \cup {f}] = [list EXCEPT ![n] = e]
    BY <1>1, <2>2, <2>3
  <2> QED BY <1>7, <2>4
<1>9. stored[n] = e /\ e.count = f.count /\ e.fragments = all
  BY <1>1, <1>6, <1>7
<1>10. Ignored(list[n], f) <=> \E g \in F : g.index = f.index
  BY <1>2 DEF Ignored
<1>10a. \/ Ignored(list[n], f) /\ partial' = list /\ UNCHANGED delivered
        \/ ~Ignored(list[n], f) /\ ~Complete(stored[n]) /\ partial' = stored /\ UNCHANGED delivered
        \/ /\ ~Ignored(list[n], f) /\ Complete(stored[n])
           /\ partial' = RemoveAt(stored, n)
           /\ delivered' = delivered \cup {Assembled(stored[n])}
  <2>1. list = Opened(f) /\ f = datagram
    BY <1>a, <1>3
  <2>2. n \in DOMAIN list
    BY <1>1
  <2>3. Process
    OBVIOUS
  <2> QED BY ONLY <1>4, <1>8, <2>1, <2>2, <2>3, StepOfProcess
<1>11. \/ Ignored(list[n], f) /\ partial' = list /\ UNCHANGED delivered
       \/ ~Complete(e) /\ partial' = stored /\ UNCHANGED delivered
       \/ Complete(e) /\ partial' = RemoveAt(stored, n) /\ delivered' = delivered \cup {Assembled(e)}
  BY <1>9, <1>10a, Zenon
<1>12. RemoveAt(stored, n) = SubSeq(list, 1, n - 1)
  <2>1. e \in [key: Keys, count: Nat \ {0}, fragments: SUBSET Fragments]
    <3>1. f \in Fragments
      BY <1>a DEF Process, ReceiveInv, RingInv
    <3> QED BY <1>a, <1>6, <3>1, FragmentFields DEF Keys
  <2> DEFINE T == [key: Keys, count: Nat \ {0}, fragments: SUBSET Fragments]
  <2>2. list \in Seq(T)
    <3>1. Partials \subseteq T
      BY DEF Partials
    <3> HIDE DEF T
    <3> QED BY <1>1, <3>1
  <2>3. e \in T
    BY <2>1
  <2> HIDE DEF T
  <2>4. stored \in Seq(T) /\ Len(stored) = n /\ \A i \in 1..(n - 1) : stored[i] = list[i]
    BY <1>1, <1>7, <2>2, <2>3
  <2>5. RemoveAt(stored, n) = SubSeq(stored, 1, n - 1)
    BY <1>1, <2>4 DEF RemoveAt
  <2> QED BY <1>1, <2>2, <2>4, <2>5
<1>13. Complete(e) <=> \A i \in 1..f.count : \E g \in all : g.index = i
  BY <1>9 DEF Complete
<1>14. Assembled(e) = [i \in 1..f.count |-> CHOOSE g \in all : g.index = i]
  BY <1>9 DEF Assembled
<1>15. CASE Ignored(list[n], f) /\ partial' = list /\ UNCHANGED delivered
  BY <1>a, <1>10, <1>15
<1>16. CASE ~Complete(e) /\ partial' = stored /\ UNCHANGED delivered
  BY <1>a, <1>6, <1>7, <1>13, <1>16
<1>17. CASE Complete(e) /\ partial' = RemoveAt(stored, n) /\ delivered' = delivered \cup {Assembled(e)}
  BY <1>a, <1>12, <1>13, <1>14, <1>17
<1> QED BY <1>11, <1>15, <1>16, <1>17

\* No two entries of the table have the same key.
KeysOf(s) == {s[i].key : i \in DOMAIN s}
Distinct(s) == \A i, j \in DOMAIN s : s[i].key = s[j].key => i = j

\* Taking an entry away keeps the keys apart and brings no key in.
LEMMA RemoveKeeps ==
  ASSUME NEW T, NEW s \in Seq(T), NEW n \in DOMAIN s, Distinct(s)
  PROVE  Distinct(RemoveAt(s, n)) /\ KeysOf(RemoveAt(s, n)) \subseteq KeysOf(s)
<1>1. PICK at \in [DOMAIN RemoveAt(s, n) -> DOMAIN s] :
        /\ \A i \in DOMAIN RemoveAt(s, n) : RemoveAt(s, n)[i] = s[at[i]]
        /\ \A i, j \in DOMAIN RemoveAt(s, n) : at[i] = at[j] => i = j
  BY RemovedWasThere
<1> QED BY <1>1 DEF Distinct, KeysOf

\* Whatever becomes of a frame, the table's keys stay apart, and no key but the
\* frame's comes in.
LEMMA AnyProcess ==
  ASSUME ReceiveInv, Process, Distinct(partial)
  PROVE  /\ Distinct(partial') /\ KeysOf(partial') \subseteq KeysOf(partial) \cup {Key(datagram)}
         /\ delivered \subseteq delivered'
<1>0. delivered \subseteq delivered'
  BY DEF Process
<1>1. PICK f, old : f = datagram /\ old = partial
  OBVIOUS
<1>2. old \in Seq(Partials) /\ Len(old) \in Nat /\ DOMAIN old = 1..Len(old) /\ Distinct(old)
  BY <1>1 DEF ReceiveInv, AssemblyInv
<1>3. CASE \E n \in DOMAIN old : old[n].key = Key(f)
  <2>1. PICK n \in DOMAIN old : old[n].key = Key(f)
    BY <1>3
  <2>2. PICK stored : stored = [old EXCEPT ![n].fragments = @ \cup {f}]
    OBVIOUS
  <2>3. old = Opened(f)
    BY <1>1, <1>3 DEF Opened
  <2>4. \A i \in DOMAIN old : old[i].key = Key(f) <=> i = n
    BY <1>2, <2>1 DEF Distinct
  <2>5. \/ Ignored(old[n], f) /\ partial' = old /\ UNCHANGED delivered
        \/ ~Ignored(old[n], f) /\ ~Complete(stored[n]) /\ partial' = stored /\ UNCHANGED delivered
        \/ /\ ~Ignored(old[n], f) /\ Complete(stored[n])
           /\ partial' = RemoveAt(stored, n)
           /\ delivered' = delivered \cup {Assembled(stored[n])}
    <3>1. Process /\ f = datagram /\ [old EXCEPT ![n].fragments = @ \cup {f}] = stored
      BY <1>1, <2>2
    <3> QED BY ONLY <2>1, <2>3, <2>4, <3>1, StepOfProcess
  <2>6. \/ partial' = old
        \/ ~Ignored(old[n], f) /\ partial' = stored
        \/ ~Ignored(old[n], f) /\ partial' = RemoveAt(stored, n)
    BY <2>5
  <2>7. ASSUME ~Ignored(old[n], f)
        PROVE  stored \in Seq(Partials) /\ Len(stored) = Len(old) /\ n \in DOMAIN stored
    <3>1. f \in Fragments
      BY <1>1 DEF Process, ReceiveInv, RingInv
    <3>2. old \in Seq(Partials) /\ n \in DOMAIN old /\ old[n].key = Key(f)
      BY <1>2, <2>1
    <3>3. LET new == [old EXCEPT ![n].fragments = @ \cup {f}]
          IN  new \in Seq(Partials) /\ Len(new) = Len(old) /\ n \in DOMAIN new
      BY ONLY <2>7, <3>1, <3>2, StoredList
    <3> QED BY <2>2, <3>3
  <2>8. \A i \in DOMAIN old : stored[i].key = old[i].key
    <3>1. \A i \in DOMAIN old \ {n} : stored[i] = old[i]
      BY <1>2, <2>2
    <3>2. stored[n] = [old[n] EXCEPT !.fragments = @ \cup {f}]
      BY <1>2, <2>2
    <3>3. stored[n].key = old[n].key
      <4>1. old[n] \in Partials
        BY <1>2
      <4> QED BY <3>2, <4>1 DEF Partials
    <3> QED BY <3>1, <3>3
  <2>9. ASSUME ~Ignored(old[n], f) PROVE Distinct(stored) /\ KeysOf(stored) = KeysOf(old)
    <3>1. DOMAIN stored = DOMAIN old
      BY <1>2, <2>7, <2>9
    <3> QED BY <1>2, <2>8, <3>1 DEF Distinct, KeysOf
  <2>10. ASSUME ~Ignored(old[n], f)
         PROVE  Distinct(RemoveAt(stored, n)) /\ KeysOf(RemoveAt(stored, n)) \subseteq KeysOf(old)
    BY <2>7, <2>9, <2>10, RemoveKeeps
  <2> QED BY <1>0, <1>1, <1>2, <2>6, <2>9, <2>10
<1>4. CASE ~ \E n \in DOMAIN old : old[n].key = Key(f)
  <2>1. /\ Kept \in Seq(Partials)
        /\ \E d \in {0, 1} : \A i \in 1..Len(Kept) :
             i + d \in DOMAIN partial /\ Kept[i] = partial[i + d]
    BY KeptIs DEF ReceiveInv
  <2>2. PICK d \in {0, 1} : \A i \in 1..Len(Kept) :
          i + d \in DOMAIN partial /\ Kept[i] = partial[i + d]
    BY <2>1
  <2>3. PICK kept, e : kept = Kept /\ e = [key |-> Key(f), count |-> f.count, fragments |-> {f}]
    OBVIOUS
  <2>4. /\ kept \in Seq(Partials) /\ Len(kept) \in Nat /\ DOMAIN kept = 1..Len(kept)
        /\ \A i \in DOMAIN kept : i + d \in DOMAIN old /\ kept[i] = old[i + d]
    BY <1>1, <2>1, <2>2, <2>3
  <2>5. Distinct(kept) /\ KeysOf(kept) \subseteq KeysOf(old)
    <3>1. \A i, j \in DOMAIN kept : i + d = j + d => i = j
      BY <2>4
    <3> QED BY <1>2, <2>4, <3>1 DEF Distinct, KeysOf
  <2>6. partial' = kept \/ partial' = Append(kept, e)
    BY <1>1, <1>4, <2>3, FirstOfMessage
  <2>7. Distinct(Append(kept, e)) /\ KeysOf(Append(kept, e)) \subseteq KeysOf(old) \cup {Key(f)}
    <3>1. PICK a, n : a = Append(kept, e) /\ n = Len(kept)
      OBVIOUS
    <3>2. e \in [key: Keys, count: Nat \ {0}, fragments: SUBSET Fragments] /\ e.key = Key(f)
      <4>1. f \in Fragments
        BY <1>1 DEF Process, ReceiveInv, RingInv
      <4> QED BY <2>3, <4>1, FragmentFields DEF Keys
    <3>3. /\ DOMAIN a = 1..(n + 1) /\ a[n + 1] = e /\ \A i \in 1..n : a[i] = kept[i]
          /\ n \in Nat /\ DOMAIN kept = 1..n
      <4> DEFINE T == Partials \cup {e}
      <4>1. kept \in Seq(T) /\ e \in T
        <5>1. Partials \subseteq T /\ e \in T
          OBVIOUS
        <5> HIDE DEF T
        <5> QED BY <2>4, <5>1
      <4> HIDE DEF T
      <4>2. /\ a \in Seq(T) /\ Len(a) = n + 1 /\ a[n + 1] = e /\ \A i \in 1..n : a[i] = kept[i]
            /\ n \in Nat /\ DOMAIN kept = 1..n
        BY ONLY <3>1, <4>1
      <4> QED BY <4>2
    <3>4. \A i \in DOMAIN a : i \in 1..n \/ i = n + 1
      BY <3>3
    <3>5. \A i \in 1..n : a[i].key = kept[i].key /\ a[i].key # Key(f) /\ a[i].key \in KeysOf(old)
      BY <1>4, <2>4, <3>3 DEF KeysOf
    <3>6. Distinct(a)
      BY <2>5, <3>2, <3>3, <3>4, <3>5 DEF Distinct
    <3>7. KeysOf(a) \subseteq KeysOf(old) \cup {Key(f)}
      BY <3>2, <3>3, <3>4, <3>5 DEF KeysOf
    <3> QED BY <3>1, <3>6, <3>7
  <2> QED BY <1>0, <1>1, <2>5, <2>6, <2>7
<1> QED BY <1>3, <1>4
-----------------------------------------------------------------------------
(* The newest message keeps its place until it is whole.                   *)

\* All that the receiver hears is from one board, each stream with its session.
OneSender == ToldApart /\ \A s, t \in Streams : Board[s] = Board[t]

\* The frames heard of a message, and the message that was sent last.
SameMessage(f) == {g \in heard : g.nth = f.nth}
Newest(f) == \A g \in heard : g.nth <= f.nth

\* No other message with the same number was heard.
OwnNumber(f) == \A g \in heard : g.stream = f.stream /\ g.id = f.id => g.nth = f.nth

\* Every entry of the table is of a message of which a frame was heard.
EntriesInv ==
  /\ Distinct(partial)
  /\ KeysOf(partial) \subseteq {Key(f) : f \in heard}

\* The newest message is handed on or holds the last entry, with all its frames
\* that were heard.
NewestEntry(f) == [key |-> Key(f), count |-> f.count, fragments |-> SameMessage(f)]
LastInv ==
  \A f \in heard : Newest(f) /\ OwnNumber(f) /\ Message(f) \notin delivered =>
    partial # <<>> /\ partial[Len(partial)] = NewestEntry(f)

\* Every frame of the message was heard.
WholeHeard(f) == \A i \in 1..f.count : [f EXCEPT !.index = i] \in heard

\* No message is missing.
AllDelivered == \A f \in heard : WholeHeard(f) /\ OwnNumber(f) => Message(f) \in delivered

\* The inductive invariant.
HearingInv == EntriesInv /\ LastInv /\ AllDelivered

\* With the invariant no message of which every frame was heard is missing.
LEMMA HearingSuffices == HearingInv => NothingHeardIsLost
<1> SUFFICES ASSUME HearingInv, NEW f \in heard, WholeHeard(f), OwnNumber(f)
             PROVE  Message(f) \in delivered
  <2>1. ASSUME NEW f, \A i \in 1..f.count : [j \in 1..f.count |-> [f EXCEPT !.index = j]][i] \in heard
        PROVE  WholeHeard(f)
    BY <2>1 DEF WholeHeard
  <2> QED BY <2>1 DEF NothingHeardIsLost, Message, OwnNumber
<1> QED BY DEF HearingInv, AllDelivered

\* What is known of the frame in hand and the frames heard.
LEMMA Hearing ==
  ASSUME OneSender, ReceiveInv, ArrivalInv, datagram # NoDatagram
  PROVE  /\ datagram \in Fragments /\ heard \subseteq Fragments
         /\ \A f \in Fragments : f.nth \in Nat /\ f.count \in Nat \ {0} /\ f.index \in 1..f.count
                                 /\ f = [f EXCEPT !.index = f.index]
                                 /\ \A i : [f EXCEPT !.index = i].nth = f.nth
                                           /\ [f EXCEPT !.index = i].index = i
         /\ \A g \in heard : g.nth <= datagram.nth
         /\ \A g \in heard : g.nth = datagram.nth =>
              /\ g.stream = datagram.stream /\ g.id = datagram.id
              /\ g.count = datagram.count /\ Key(g) = Key(datagram) /\ Message(g) = Message(datagram)
              /\ g = [datagram EXCEPT !.index = g.index]
         /\ \A g \in Fragments : Key(g) = Key(datagram) =>
              g.stream = datagram.stream /\ g.id = datagram.id
<1>0. InHand = {datagram}
  BY DEF InHand
<1>1. datagram \in Fragments /\ heard \subseteq Fragments
  BY <1>0 DEF ArrivalInv, KnownInv
<1>2. ASSUME NEW f \in Fragments
      PROVE  f.nth \in Nat /\ f.count \in Nat \ {0} /\ f.index \in 1..f.count
             /\ f = [f EXCEPT !.index = f.index]
             /\ \A i : [f EXCEPT !.index = i].nth = f.nth /\ [f EXCEPT !.index = i].index = i
  BY FragmentFields
<1>3. ASSUME NEW g \in heard PROVE OfOneMessage(g, datagram) \/ g.nth < datagram.nth
  <2>1. NoLater(g, datagram)
    BY <1>0 DEF ArrivalInv, OrderInv, Before
  <2>2. g.stream \in Streams /\ datagram.stream \in Streams
    BY <1>1, FragmentFields
  <2> QED BY <2>1, <2>2 DEF NoLater, OneSender
<1>4. \A g \in heard : g.nth <= datagram.nth
  BY <1>1, <1>2, <1>3 DEF OfOneMessage
<1>5. ASSUME NEW g \in heard, g.nth = datagram.nth
      PROVE  /\ g.stream = datagram.stream /\ g.id = datagram.id
             /\ g.count = datagram.count /\ Key(g) = Key(datagram) /\ Message(g) = Message(datagram)
             /\ g = [datagram EXCEPT !.index = g.index]
  <2>1. OfOneMessage(datagram, g)
    BY <1>1, <1>2, <1>3, <1>5 DEF OfOneMessage
  <2> QED BY <1>1, <2>1, OneMessage DEF OfOneMessage
<1>6. \A g \in Fragments : Key(g) = Key(datagram) => g.stream = datagram.stream /\ g.id = datagram.id
  BY <1>1, KeyNames DEF OneSender
<1> QED BY <1>1, <1>2, <1>4, <1>5, <1>6

\* Messages other than that of the frame in hand stay delivered.
LEMMA OthersDelivered ==
  ASSUME OneSender, ReceiveInv, ArrivalInv, HearingInv, Process,
         NEW f \in heard', f.nth # datagram.nth, WholeHeard(f)', OwnNumber(f)'
  PROVE  Message(f) \in delivered'
<1>a. PICK d : d = datagram
  OBVIOUS
<1>0. d # NoDatagram /\ heard' = heard \cup {d} /\ delivered \subseteq delivered'
  BY <1>a DEF Process
<1>1. f \in heard /\ f \in Fragments /\ f.nth # d.nth
      /\ \A i : [f EXCEPT !.index = i].nth = f.nth
  BY <1>a, <1>0, Hearing
<1>2. WholeHeard(f)
  BY <1>0, <1>1 DEF WholeHeard
<1>3. OwnNumber(f)
  BY <1>0 DEF OwnNumber
<1> QED BY <1>0, <1>1, <1>2, <1>3 DEF HearingInv, AllDelivered

\* The first frame heard of a message, which is all of it or a part.
LEMMA ProcessFirst ==
  ASSUME OneSender, ReceiveInv, ArrivalInv, HearingInv, Process,
         \A g \in heard : g.nth # datagram.nth
  PROVE  LastInv' /\ AllDelivered'
<1>a. PICK d : d = datagram
  OBVIOUS
<1>0. d # NoDatagram /\ heard' = heard \cup {d}
  BY <1>a DEF Process
<1>1. /\ d \in Fragments /\ heard \subseteq Fragments
      /\ \A f \in Fragments : f.nth \in Nat /\ f.count \in Nat \ {0} /\ f.index \in 1..f.count
                              /\ f = [f EXCEPT !.index = f.index]
                              /\ \A i : [f EXCEPT !.index = i].nth = f.nth
                                        /\ [f EXCEPT !.index = i].index = i
      /\ \A g \in heard : g.nth <= d.nth /\ g.nth # d.nth
      /\ \A g \in Fragments : Key(g) = Key(d) => g.stream = d.stream /\ g.id = d.id
  BY <1>a, <1>0, Hearing
<1>2. ASSUME OwnNumber(d)' PROVE ~ \E i \in DOMAIN partial : partial[i].key = Key(d)
  <2> SUFFICES ASSUME NEW i \in DOMAIN partial, partial[i].key = Key(d) PROVE FALSE
    OBVIOUS
  <2>1. Key(d) \in KeysOf(partial)
    BY DEF KeysOf
  <2>2. PICK f \in heard : Key(f) = Key(d)
    BY <2>1 DEF HearingInv, EntriesInv
  <2>3. f.stream = d.stream /\ f.id = d.id
    BY <1>1, <2>2
  <2>4. f.nth = d.nth
    BY <1>0, <1>2, <2>2, <2>3 DEF OwnNumber
  <2> QED BY <1>1, <2>2, <2>4
<1>3. ASSUME OwnNumber(d)'
      PROVE  IF d.count = 1
             THEN partial' = Kept /\ delivered' = delivered \cup {Message(d)}
             ELSE /\ partial' = Append(Kept, [key |-> Key(d), count |-> d.count, fragments |-> {d}])
                  /\ delivered' = delivered
  BY <1>a, <1>2, <1>3, FirstOfMessage
<1>4. AllDelivered'
  <2> SUFFICES ASSUME NEW f \in heard', WholeHeard(f)', OwnNumber(f)'
               PROVE  Message(f) \in delivered'
    BY DEF AllDelivered
  <2>1. CASE f.nth # d.nth
    BY <1>a, <2>1, OthersDelivered
  <2>2. CASE f.nth = d.nth
    <3>1. f = d
      BY <1>0, <1>1, <2>2
    <3>2. d.count = 1
      <4> SUFFICES ASSUME d.count # 1 PROVE FALSE
        OBVIOUS
      <4>1. PICK i \in 1..d.count : i # d.index
        BY <1>1
      <4>2. PICK g : g = [d EXCEPT !.index = i]
        OBVIOUS
      <4>3. g.nth = d.nth /\ g.index = i
        BY <1>1, <4>2
      <4>4. g \in heard'
        BY <3>1, <4>2 DEF WholeHeard
      <4>5. g \in heard
        BY <1>0, <4>1, <4>3, <4>4
      <4> QED BY <1>1, <4>3, <4>5
    <3> QED BY <1>3, <3>1, <3>2
  <2> QED BY <2>1, <2>2
<1>5. LastInv'
  <2> SUFFICES ASSUME NEW f \in heard', Newest(f)', OwnNumber(f)', Message(f) \notin delivered'
               PROVE  partial' # <<>> /\ partial'[Len(partial')] = NewestEntry(f)'
    BY DEF LastInv
  <2>1. f = d
    <3>1. f.nth >= d.nth
      BY <1>0 DEF Newest
    <3>2. ASSUME f \in heard PROVE FALSE
      BY <1>1, <3>1, <3>2
    <3> QED BY <1>0, <3>2
  <2>2. d.count # 1 /\ partial' = Append(Kept, [key |-> Key(d), count |-> d.count, fragments |-> {d}])
    BY <1>3, <2>1
  <2>3. SameMessage(d)' = {d}
    BY <1>0, <1>1 DEF SameMessage
  <2>4. PICK kept, e : kept = Kept /\ e = [key |-> Key(d), count |-> d.count, fragments |-> {d}]
    OBVIOUS
  <2>5. Append(kept, e) # <<>> /\ Append(kept, e)[Len(Append(kept, e))] = e
    <3>1. kept \in Seq(Partials)
      BY <2>4, KeptIs DEF ReceiveInv
    <3> DEFINE T == Partials \cup {e}
    <3>2. kept \in Seq(T) /\ e \in T
      <4>1. Partials \subseteq T /\ e \in T
        OBVIOUS
      <4> HIDE DEF T
      <4> QED BY <3>1, <4>1
    <3> HIDE DEF T
    <3>3. PICK a : a = Append(kept, e)
      OBVIOUS
    <3>4. a \in Seq(T) /\ Len(a) = Len(kept) + 1 /\ Len(kept) \in Nat /\ a[Len(kept) + 1] = e
      BY ONLY <3>2, <3>3
    <3>5. a # <<>>
      BY ONLY <3>4
    <3> QED BY <3>3, <3>4, <3>5
  <2>6. NewestEntry(d)' = e
    BY <2>3, <2>4 DEF NewestEntry
  <2> QED BY <2>1, <2>2, <2>4, <2>5, <2>6
<1> QED BY <1>4, <1>5

\* One more frame of the newest message.
LEMMA ProcessNext ==
  ASSUME OneSender, ReceiveInv, ArrivalInv, HearingInv, Process,
         NEW g \in heard, g.nth = datagram.nth
  PROVE  LastInv' /\ AllDelivered'
<1>a. PICK d : d = datagram
  OBVIOUS
<1>0. d # NoDatagram /\ heard' = heard \cup {d} /\ delivered \subseteq delivered'
  BY <1>a DEF Process
<1>1. /\ d \in Fragments /\ heard \subseteq Fragments
      /\ \A f \in Fragments : f.nth \in Nat /\ f.count \in Nat \ {0} /\ f.index \in 1..f.count
                              /\ f = [f EXCEPT !.index = f.index]
                              /\ \A i : [f EXCEPT !.index = i].nth = f.nth
                                        /\ [f EXCEPT !.index = i].index = i
      /\ \A h \in heard : h.nth <= d.nth
      /\ \A h \in heard : h.nth = d.nth =>
           /\ h.stream = d.stream /\ h.id = d.id
           /\ h.count = d.count /\ Key(h) = Key(d) /\ Message(h) = Message(d)
           /\ h = [d EXCEPT !.index = h.index]
  BY <1>a, <1>0, Hearing
<1>3. Newest(g) /\ g.count = d.count /\ Key(g) = Key(d) /\ Message(g) = Message(d) /\ g.nth = d.nth
  BY <1>a, <1>1 DEF Newest
<1>4. \A f \in heard' : f.nth = d.nth =>
        f.count = d.count /\ Key(f) = Key(d) /\ Message(f) = Message(d)
        /\ f.stream = d.stream /\ f.id = d.id
  BY <1>0, <1>1
<1>5. ASSUME NEW f \in heard', Newest(f)'
      PROVE  f.nth = d.nth /\ Message(f) = Message(d)
  <2>1. f.nth >= d.nth
    BY <1>0, <1>5 DEF Newest
  <2>2. f.nth <= d.nth
    BY <1>0, <1>1, <1>5
  <2>3. f.nth = d.nth
    BY <1>0, <1>1, <2>1, <2>2
  <2> QED BY <1>4, <1>5, <2>3
<1>6. ASSUME NEW f \in heard', WholeHeard(f)', OwnNumber(f)', f.nth # d.nth
      PROVE  Message(f) \in delivered'
  BY <1>a, <1>6, OthersDelivered
<1>6a. CASE ~OwnNumber(d)'
  <2>1. ASSUME NEW f \in heard', f.nth = d.nth PROVE ~OwnNumber(f)'
    BY <1>4, <1>6a, <2>1 DEF OwnNumber
  <2>2. AllDelivered'
    BY <1>6, <2>1 DEF AllDelivered
  <2>3. LastInv'
    BY <1>5, <2>1 DEF LastInv
  <2> QED BY <2>2, <2>3
<1>7. CASE Message(d) \in delivered
  <2>1. ASSUME NEW f \in heard', WholeHeard(f)', OwnNumber(f)' PROVE Message(f) \in delivered'
    <3>1. CASE f.nth = d.nth
      BY <1>0, <1>4, <1>7, <3>1
    <3> QED BY <1>6, <2>1, <3>1
  <2>2. LastInv'
    BY <1>0, <1>5, <1>7 DEF LastInv
  <2> QED BY <2>1, <2>2 DEF AllDelivered
<1>8. CASE OwnNumber(d)' /\ Message(d) \notin delivered
  <2>1. PICK F, n, all : F = SameMessage(g) /\ n = Len(partial) /\ all = F \cup {d}
    OBVIOUS
  <2>2. partial # <<>> /\ partial[n] = NewestEntry(g)
    <3>1. OwnNumber(g)
      BY <1>0, <1>1, <1>3, <1>8 DEF OwnNumber
    <3> QED BY <1>3, <1>8, <2>1, <3>1 DEF HearingInv, LastInv
  <2>3. partial[n] = [key |-> Key(d), count |-> d.count, fragments |-> F]
    BY <1>3, <2>1, <2>2 DEF NewestEntry
  <2>4. F \subseteq Fragments /\ Distinct(partial)
    BY <1>1, <2>1 DEF SameMessage, HearingInv, EntriesInv
  <2>5. \/ /\ \E h \in F : h.index = d.index
           /\ UNCHANGED <<partial, delivered>>
        \/ /\ \E i \in 1..d.count : \A h \in all : h.index # i
           /\ partial' = [partial EXCEPT ![n] = [key |-> Key(d), count |-> d.count, fragments |-> all]]
           /\ UNCHANGED delivered
        \/ /\ \A i \in 1..d.count : \E h \in all : h.index = i
           /\ partial' = SubSeq(partial, 1, n - 1)
           /\ delivered' = delivered \cup {[i \in 1..d.count |-> CHOOSE h \in all : h.index = i]}
    <3>1. /\ F \subseteq Fragments /\ partial # <<>>
          /\ \A i, j \in DOMAIN partial : partial[i].key = partial[j].key => i = j
          /\ partial[Len(partial)] = [key |-> Key(datagram), count |-> datagram.count, fragments |-> F]
      BY <1>a, <2>1, <2>2, <2>3, <2>4 DEF Distinct
    <3> QED BY <1>a, <2>1, <3>1, NextOfMessage
  <2>6. \A h \in all : h.nth = d.nth /\ h = [d EXCEPT !.index = h.index] /\ h \in heard'
    <3>1. ASSUME NEW h \in F PROVE h.nth = d.nth /\ h = [d EXCEPT !.index = h.index] /\ h \in heard
      BY <1>1, <1>3, <2>1, <3>1 DEF SameMessage
    <3> QED BY <1>0, <1>1, <2>1, <3>1
  <2>7. \A f \in heard' : f.nth = d.nth => f \in all
    BY <1>0, <1>3, <2>1 DEF SameMessage
  <2>8. CASE \E h \in F : h.index = d.index /\ UNCHANGED <<partial, delivered>>
    <3>1. PICK h \in F : h.index = d.index
      BY <2>8
    <3>2. h = d
      BY <1>1, <2>1, <2>6, <3>1
    <3>3. heard' = heard /\ partial' = partial /\ delivered' = delivered
      BY <1>0, <2>1, <2>8, <3>1, <3>2 DEF SameMessage
    <3>4. \A f : WholeHeard(f)' = WholeHeard(f) /\ Newest(f)' = Newest(f)
                 /\ OwnNumber(f)' = OwnNumber(f) /\ NewestEntry(f)' = NewestEntry(f)
      BY <3>3 DEF WholeHeard, Newest, OwnNumber, NewestEntry, SameMessage
    <3>5. LastInv'
      BY <3>3, <3>4 DEF HearingInv, LastInv
    <3>6. AllDelivered'
      BY <3>3, <3>4 DEF HearingInv, AllDelivered
    <3> QED BY <3>5, <3>6
  <2>9. CASE /\ \E i \in 1..d.count : \A h \in all : h.index # i
             /\ partial' = [partial EXCEPT ![n] = [key |-> Key(d), count |-> d.count, fragments |-> all]]
             /\ UNCHANGED delivered
    <3>1. ASSUME NEW f \in heard', WholeHeard(f)', f.nth = d.nth PROVE FALSE
      <4>1. PICK i \in 1..d.count : \A h \in all : h.index # i
        BY <2>9
      <4>2. f.count = d.count /\ f \in Fragments
        BY <1>0, <1>1, <1>4, <3>1
      <4>3. PICK h : h = [f EXCEPT !.index = i]
        OBVIOUS
      <4>4. h.index = i /\ h.nth = f.nth
        BY <1>1, <4>2, <4>3
      <4>5. h \in heard'
        BY <3>1, <4>2, <4>3 DEF WholeHeard
      <4> QED BY <2>7, <3>1, <4>1, <4>4, <4>5
    <3>2. ASSUME NEW f \in heard', f.nth = d.nth
          PROVE  partial' # <<>> /\ partial'[Len(partial')] = NewestEntry(f)'
      <4>1. PICK e : e = [key |-> Key(d), count |-> d.count, fragments |-> all]
        OBVIOUS
      <4>2. partial \in Seq(Partials) /\ n \in Nat \ {0} /\ n \in DOMAIN partial
        BY <2>1, <2>2 DEF ReceiveInv, AssemblyInv
      <4>3. PICK next : next = [partial EXCEPT ![n] = e]
        OBVIOUS
      <4>4. DOMAIN next = 1..n /\ next[n] = e
        BY <2>1, <4>2, <4>3
      <4>5. Len(next) = n /\ next # <<>>
        BY <4>2, <4>4
      <4>6. next = partial'
        BY <2>9, <4>1, <4>3
      <4>7. SameMessage(f)' = all
        BY <2>6, <2>7, <3>2 DEF SameMessage
      <4>8. NewestEntry(f)' = e
        BY <1>4, <3>2, <4>1, <4>7 DEF NewestEntry
      <4> QED BY <4>4, <4>5, <4>6, <4>8
    <3>3. LastInv'
      BY <1>5, <3>2 DEF LastInv
    <3>4. AllDelivered'
      BY <1>6, <3>1 DEF AllDelivered
    <3> QED BY <3>3, <3>4
  <2>10. CASE /\ \A i \in 1..d.count : \E h \in all : h.index = i
              /\ partial' = SubSeq(partial, 1, n - 1)
              /\ delivered' = delivered \cup {[i \in 1..d.count |-> CHOOSE h \in all : h.index = i]}
    <3>1. \A i \in 1..d.count : (CHOOSE h \in all : h.index = i) = [d EXCEPT !.index = i]
      <4> SUFFICES ASSUME NEW i \in 1..d.count
                   PROVE  (CHOOSE h \in all : h.index = i) = [d EXCEPT !.index = i]
        OBVIOUS
      <4>1. PICK h : h = CHOOSE x \in all : x.index = i
        OBVIOUS
      <4>2. h \in all /\ h.index = i
        BY <2>10, <4>1
      <4> QED BY <2>6, <4>1, <4>2
    <3>2. Message(d) \in delivered'
      <4>1. [i \in 1..d.count |-> CHOOSE h \in all : h.index = i] = Message(d)
        BY <3>1 DEF Message
      <4> QED BY <2>10, <4>1
    <3>3. ASSUME NEW f \in heard', WholeHeard(f)', OwnNumber(f)' PROVE Message(f) \in delivered'
      <4>1. CASE f.nth = d.nth
        BY <1>4, <3>2, <4>1
      <4> QED BY <1>6, <3>3, <4>1
    <3>4. LastInv'
      BY <1>5, <3>2 DEF LastInv
    <3>5. AllDelivered'
      BY <3>3 DEF AllDelivered
    <3> QED BY <3>4, <3>5
  <2> QED BY <2>5, <2>8, <2>9, <2>10
<1> QED BY <1>6a, <1>7, <1>8

\* A processed frame keeps the invariant of the newest message.
LEMMA ProcessHearing ==
  ASSUME OneSender, ReceiveInv, ArrivalInv, HearingInv, Process
  PROVE  HearingInv'
<1>1. LastInv' /\ AllDelivered'
  <2>1. CASE \A g \in heard : g.nth # datagram.nth
    BY <2>1, ProcessFirst
  <2>2. CASE \E g \in heard : g.nth = datagram.nth
    <3>1. PICK g \in heard : g.nth = datagram.nth
      BY <2>2
    <3> QED BY <3>1, ProcessNext
  <2> QED BY <2>1, <2>2
<1>2. EntriesInv'
  <2>1. Distinct(partial') /\ KeysOf(partial') \subseteq KeysOf(partial) \cup {Key(datagram)}
    BY AnyProcess DEF HearingInv, EntriesInv
  <2>2. heard' = heard \cup {datagram}
    BY DEF Process
  <2>3. KeysOf(partial') \subseteq {Key(f) : f \in heard'}
    BY <2>1, <2>2 DEF HearingInv, EntriesInv
  <2> QED BY <2>1, <2>3 DEF EntriesInv, KeysOf, Distinct
<1> QED BY <1>1, <1>2 DEF HearingInv

\* At first the table is empty and nothing was heard.
LEMMA InitHearing == Init => HearingInv
BY DEF Init, HearingInv, EntriesInv, LastInv, AllDelivered, Distinct, KeysOf

\* Every step keeps the invariant of the newest message.
LEMMA NextHearing ==
  ASSUME OneSender, ReceiveInv, ArrivalInv, HearingInv, [Next]_vars
  PROVE  HearingInv'
<1>1. ASSUME UNCHANGED assembly PROVE HearingInv'
  BY <1>1 DEF assembly, HearingInv, EntriesInv, LastInv, AllDelivered, Distinct, KeysOf, WholeHeard,
              Newest, NewestEntry, SameMessage, OwnNumber
<1>2. CASE Process
  BY <1>2, ProcessHearing
<1>3. CASE ReceiverRestart
  <2>1. partial' = <<>> /\ heard' = {}
    BY <1>3 DEF ReceiverRestart
  <2> QED BY <2>1 DEF HearingInv, EntriesInv, LastInv, AllDelivered, Distinct, KeysOf
<1>4. CASE \E st \in Streams : \E n \in Sizes[st] : Send(st, n)
  BY <1>1, <1>4 DEF Send
<1>5. CASE \E b \in Boards : Lose(b) \/ Receive(b) \/ SenderRestart(b)
  BY <1>1, <1>5 DEF Lose, Receive, SenderRestart
<1>6. CASE Take
  BY <1>1, <1>6 DEF Take
<1>7. CASE UNCHANGED vars
  BY <1>1, <1>7 DEF vars
<1> QED BY <1>2, <1>3, <1>4, <1>5, <1>6, <1>7 DEF Next

\* What a receiver hears from one board, whose streams have a session each, is
\* handed on when every frame of it was heard: the broken messages before it do
\* not push it out of the table, of whatever size, and after a restart only a
\* message whose number was heard before is at risk (FrameAssembler::addFragment).
THEOREM HeardIsDelivered ==
  ASSUME OneSender
  PROVE  Spec => []NothingHeardIsLost
<1>1. Init => ReceiveInv /\ ArrivalInv /\ HearingInv
  BY InitReceive, InitArrival, InitHearing
<1>2. (ReceiveInv /\ ArrivalInv /\ HearingInv) /\ [Next]_vars
        => (ReceiveInv /\ ArrivalInv /\ HearingInv)'
  BY OneSender, NextReceive, NextArrival, NextHearing
<1>3. HearingInv => NothingHeardIsLost
  BY HearingSuffices
<1> QED BY <1>1, <1>2, <1>3, PTL DEF Spec
=============================================================================
