-------------------------- MODULE WifiDirectProofs --------------------------
(***************************************************************************)
(* What the Wi-Fi Direct endpoint hands on are the frames of the host, in  *)
(* order and whole, for every length of header and frame and every size of *)
(* the reads.  The bytes that can be read are a chain: each is the one the *)
(* host sent after the one before it, and the parser stands where the      *)
(* first of them belongs.                                                  *)
(***************************************************************************)
EXTENDS WifiDirect, TLAPS, WellFoundedInduction

\* A set of numbers that is not empty has a least one.
LEMMA LeastNumber ==
  ASSUME NEW S \in SUBSET Nat, S # {}
  PROVE  \E n \in S : \A m \in S : n <= m
<1>1. PICK n \in S : \A m \in S : ~(<<m, n>> \in OpToRel(<, Nat))
  BY NatLessThanWellFounded, WFMin, Zenon
<1>2. ASSUME NEW m \in S PROVE n <= m
  <2>1. ~(m < n)
    BY <1>1 DEF OpToRel
  <2> QED BY <2>1
<1> QED BY <1>2

\* The parser when a read begins.
Unread == [buffer |-> parser.buffer, expected |-> parser.expected,
           error |-> parser.error, found |-> <<>>]

\* f is what Feed has computed after each byte, up to the n-th.
Computes(f, bytes, n) ==
  f = [k \in 0..n |-> IF k = 0 THEN Unread ELSE Fed(f[k - 1], bytes[k])]

\* What Feed computes is what comes of feeding one byte after the other.
LEMMA FeedSteps ==
  ASSUME NEW bytes, Len(bytes) \in Nat
  PROVE  \E f : /\ f[0] = Unread /\ Feed(bytes) = f[Len(bytes)]
                /\ \A k \in 1..Len(bytes) : f[k] = Fed(f[k - 1], bytes[k])
<1>1. \A n \in Nat : \E f : Computes(f, bytes, n)
  <2> DEFINE Bad == {n \in Nat : ~\E f : Computes(f, bytes, n)}
  <2> SUFFICES ASSUME Bad # {} PROVE FALSE
    OBVIOUS
  <2>1. PICK n \in Bad : \A m \in Bad : n <= m
    BY LeastNumber
  <2>2. CASE n = 0
    <3> DEFINE f == [k \in 0..0 |-> Unread]
    <3>1. Computes(f, bytes, 0)
      BY DEF Computes
    <3> QED BY <2>1, <2>2, <3>1
  <2>3. CASE n # 0
    <3>1. n \in Nat /\ n - 1 \in Nat /\ n - 1 \notin Bad
      BY <2>1, <2>3
    <3>2. PICK g : Computes(g, bytes, n - 1)
      BY <3>1
    <3> DEFINE f == [k \in 0..n |-> IF k = n THEN Fed(g[n - 1], bytes[n]) ELSE g[k]]
    <3>3. \A k \in 0..n : f[k] = IF k = 0 THEN Unread ELSE Fed(f[k - 1], bytes[k])
      <4> SUFFICES ASSUME NEW k \in 0..n
                   PROVE  f[k] = IF k = 0 THEN Unread ELSE Fed(f[k - 1], bytes[k])
        OBVIOUS
      <4>1. \A j \in 0..(n - 1) : g[j] = IF j = 0 THEN Unread ELSE Fed(g[j - 1], bytes[j])
        BY <3>2, Zenon DEF Computes
      <4>2. CASE k = n
        <5>1. k # 0 /\ n - 1 \in 0..n /\ n - 1 # n
          BY <2>3, <3>1, <4>2
        <5>2. f[n - 1] = g[n - 1]
          BY <5>1
        <5> QED BY <4>2, <5>1, <5>2
      <4>3. CASE k # n
        <5>1. k \in 0..(n - 1) /\ f[k] = g[k]
          BY <3>1, <4>3
        <5>2. CASE k = 0
          BY <4>1, <5>1, <5>2
        <5>3. CASE k # 0
          <6>1. k - 1 \in 0..n /\ k - 1 # n
            BY <3>1, <4>3, <5>3
          <6>2. f[k - 1] = g[k - 1]
            BY <6>1
          <6> QED BY <4>1, <5>1, <5>3, <6>2
        <5> QED BY <5>2, <5>3
      <4> QED BY <4>2, <4>3
    <3>4. f = [k \in 0..n |-> f[k]]
      OBVIOUS
    <3> HIDE DEF f
    <3>5. Computes(f, bytes, n)
      BY <3>3, <3>4 DEF Computes
    <3> QED BY <2>1, <3>5
  <2> QED BY <2>2, <2>3
<1> DEFINE f == CHOOSE g : Computes(g, bytes, Len(bytes))
<1>2. Computes(f, bytes, Len(bytes))
  BY <1>1, Zenon
<1>3. Feed(bytes) = f[Len(bytes)]
  BY Zenon DEF Feed, Computes, Unread
<1> HIDE DEF f
<1>4. f[0] = Unread /\ \A k \in 1..Len(bytes) : f[k] = Fed(f[k - 1], bytes[k])
  <2>1. \A k \in 0..Len(bytes) : f[k] = IF k = 0 THEN Unread ELSE Fed(f[k - 1], bytes[k])
    BY <1>2, Zenon DEF Computes
  <2>2. 0 \in 0..Len(bytes) /\ \A k \in 1..Len(bytes) : k \in 0..Len(bytes) /\ k # 0
    OBVIOUS
  <2> QED BY <2>1, <2>2
<1> QED BY <1>3, <1>4

\* What Frame makes a frame of.
Bytes == [frame: Nat, at: Nat, says: Nat]

\* The bytes that carry the i-th frame of the host.
Wire(i) == Frame(i, Len(sent[i]))

\* What is recorded as sent are the payloads of HostSends.
SentInv ==
  /\ sent \in Seq(Seq(Bytes))
  /\ \A i \in DOMAIN sent : sent[i] = Payload(i, Len(sent[i]))

\* A byte of a frame that was sent, its place, and the place of the byte behind it.
IsSent(byte) ==
  /\ byte.frame \in DOMAIN sent /\ byte.at \in 1..(HeaderBytes + Len(sent[byte.frame]))
  /\ byte = Wire(byte.frame)[byte.at]
Place(byte) == <<byte.frame, byte.at>>
After(byte) ==
  IF byte.at = HeaderBytes + Len(sent[byte.frame]) THEN <<byte.frame + 1, 1>>
  ELSE <<byte.frame, byte.at + 1>>

\* Frames that were found are the first ones that were sent.
InStep(list) ==
  /\ list \in Seq(Seq(Bytes)) /\ Len(list) <= Len(sent)
  /\ \A i \in 1..Len(list) : list[i] = sent[i]

\* A parser has read a part of the n-th frame, and the place of what comes next.
Reading(p, n) ==
  /\ p.buffer \in Seq(Bytes) /\ p.expected \in 0..MaxFrameBytes /\ p.error = FALSE
  /\ p.expected = 0 => Len(p.buffer) < HeaderBytes
  /\ p.expected # 0 =>
       /\ n <= Len(sent) /\ p.expected = Len(sent[n]) /\ Len(p.buffer) < p.expected
       /\ \A i \in 1..Len(p.buffer) : p.buffer[i] = sent[n][i]
Upcoming(p, n) ==
  IF p.expected = 0 THEN <<n, Len(p.buffer) + 1>> ELSE <<n, HeaderBytes + Len(p.buffer) + 1>>

\* A frame byte by byte, and its payload.
LEMMA FrameIs ==
  ASSUME NEW n \in Nat, NEW length \in Nat
  PROVE  /\ Frame(n, length) \in Seq(Bytes) /\ Len(Frame(n, length)) = HeaderBytes + length
         /\ \A i \in 1..(HeaderBytes + length) :
              Frame(n, length)[i] = [frame |-> n, at |-> i,
                                     says |-> IF i = HeaderBytes THEN length ELSE 1]
         /\ Payload(n, length) \in Seq(Bytes) /\ Len(Payload(n, length)) = length
         /\ \A i \in 1..length : Payload(n, length)[i] = Frame(n, length)[HeaderBytes + i]
<1> DEFINE f == Frame(n, length)
<1>0. HeaderBytes \in Nat /\ HeaderBytes + length \in Nat
  BY WifiAssumption
<1>1. \A i \in 1..(HeaderBytes + length) :
        [frame |-> n, at |-> i, says |-> IF i = HeaderBytes THEN length ELSE 1] \in Bytes
  BY <1>0 DEF Bytes
<1>2. f \in Seq(Bytes) /\ Len(f) = HeaderBytes + length
      /\ \A i \in 1..(HeaderBytes + length) :
           f[i] = [frame |-> n, at |-> i, says |-> IF i = HeaderBytes THEN length ELSE 1]
  <2> HIDE DEF Bytes
  <2> QED BY <1>0, <1>1 DEF Frame
<1> HIDE DEF f
<1>3. /\ SubSeq(f, HeaderBytes + 1, HeaderBytes + length) \in Seq(Bytes)
      /\ Len(SubSeq(f, HeaderBytes + 1, HeaderBytes + length)) = length
      /\ \A i \in 1..length :
           SubSeq(f, HeaderBytes + 1, HeaderBytes + length)[i] = f[HeaderBytes + i]
  BY <1>0, <1>2
<1> QED BY <1>2, <1>3 DEF f, Payload

\* A byte that was sent says the length of its frame where the header ends,
\* and is the one of the payload behind it.
LEMMA SentByte ==
  ASSUME SentInv, NEW byte, IsSent(byte)
  PROVE  /\ byte \in Bytes /\ Len(sent[byte.frame]) \in Nat
         /\ byte.at = HeaderBytes => byte.says = Len(sent[byte.frame])
         /\ byte.at > HeaderBytes => byte = sent[byte.frame][byte.at - HeaderBytes]
<1> DEFINE n == byte.frame
           length == Len(sent[n])
<1>0. HeaderBytes \in Nat /\ n \in Nat /\ length \in Nat
      /\ byte.at \in 1..(HeaderBytes + length)
  <2>1. sent[n] \in Seq(Bytes) /\ n \in Nat
    BY DEF IsSent, SentInv
  <2> QED BY <2>1, WifiAssumption DEF IsSent
<1>1. byte = Frame(n, length)[byte.at] /\ sent[n] = Payload(n, length)
  BY DEF IsSent, SentInv, Wire
<1> HIDE DEF n, length
<1>2. byte = [frame |-> n, at |-> byte.at,
              says |-> IF byte.at = HeaderBytes THEN length ELSE 1]
  <2>1. \A i \in 1..(HeaderBytes + length) :
          Frame(n, length)[i] = [frame |-> n, at |-> i,
                                 says |-> IF i = HeaderBytes THEN length ELSE 1]
    BY <1>0, FrameIs
  <2> QED BY <1>0, <1>1, <2>1, Zenon
<1>3. ASSUME byte.at > HeaderBytes PROVE byte = sent[n][byte.at - HeaderBytes]
  <2>1. byte.at - HeaderBytes \in 1..length /\ HeaderBytes + (byte.at - HeaderBytes) = byte.at
    BY <1>0, <1>3
  <2>2. \A i \in 1..length : Payload(n, length)[i] = Frame(n, length)[HeaderBytes + i]
    BY <1>0, FrameIs
  <2>3. Payload(n, length)[byte.at - HeaderBytes]
          = Frame(n, length)[HeaderBytes + (byte.at - HeaderBytes)]
    BY <2>1, <2>2
  <2> QED BY <1>1, <2>1, <2>3
<1>4. byte \in Bytes /\ (byte.at = HeaderBytes => byte.says = length)
  BY <1>0, <1>2 DEF Bytes
<1> QED BY <1>0, <1>3, <1>4 DEF n, length

\* A parser without an error, and what becomes of it: it reads on in the frame
\* that follows the ones of list, or it has found that frame.
WithoutError(p) ==
  p = [buffer |-> p.buffer, expected |-> p.expected, error |-> FALSE, found |-> p.found]
ReadsOn(q, found, list, place) ==
  /\ WithoutError(q) /\ q.found = found
  /\ Reading(q, Len(list) + 1) /\ place = Upcoming(q, Len(list) + 1)
Finds(q, found, list, frame, place) ==
  LET more == Append(list, frame)
  IN  /\ q = [buffer |-> <<>>, expected |-> 0, error |-> FALSE, found |-> Append(found, frame)]
      /\ frame \in Seq(Bytes) /\ InStep(more)
      /\ Reading(q, Len(more) + 1) /\ place = Upcoming(q, Len(more) + 1)

\* A byte that is sent next keeps the parser in step, or it is an error.
LEMMA FedInStep ==
  ASSUME SentInv, NEW list, InStep(list), NEW p, NEW byte, IsSent(byte),
         WithoutError(p), Reading(p, Len(list) + 1), Place(byte) = Upcoming(p, Len(list) + 1),
         NEW q, q = Fed(p, byte)
  PROVE  \/ q.error = TRUE
         \/ ReadsOn(q, p.found, list, After(byte))
         \/ \E frame : Finds(q, p.found, list, frame, After(byte))
<1> DEFINE found == p.found
           n == Len(list) + 1
           m == Len(p.buffer)
           read == Append(p.buffer, byte)
<1>0. /\ HeaderBytes \in Nat \ {0} /\ MaxFrameBytes \in Nat
      /\ p.error = FALSE /\ p.found = found
      /\ list \in Seq(Seq(Bytes)) /\ Len(list) \in Nat /\ n \in Nat
      /\ p.buffer \in Seq(Bytes) /\ p.expected \in 0..MaxFrameBytes /\ m \in Nat
      /\ sent \in Seq(Seq(Bytes)) /\ Len(sent) \in Nat
  BY WifiAssumption DEF InStep, SentInv, Reading, WithoutError
<1>1. /\ byte.frame = n /\ n \in 1..Len(sent)
      /\ byte.at = IF p.expected = 0 THEN m + 1 ELSE HeaderBytes + m + 1
      /\ byte.at \in 1..(HeaderBytes + Len(sent[n]))
  <2>1. Upcoming(p, n) = <<n, IF p.expected = 0 THEN m + 1 ELSE HeaderBytes + m + 1>>
    BY DEF Upcoming
  <2>2. Place(byte) = <<byte.frame, byte.at>> /\ Place(byte) = Upcoming(p, n)
    BY DEF Place
  <2>3. byte.frame = n /\ byte.at = IF p.expected = 0 THEN m + 1 ELSE HeaderBytes + m + 1
    BY <2>1, <2>2
  <2>4. byte.frame \in 1..Len(sent) /\ byte.at \in 1..(HeaderBytes + Len(sent[byte.frame]))
    BY <1>0 DEF IsSent
  <2> QED BY <2>3, <2>4
<1>2. /\ byte \in Bytes /\ Len(sent[n]) \in Nat
      /\ byte.at = HeaderBytes => byte.says = Len(sent[n])
      /\ byte.at > HeaderBytes => byte = sent[n][byte.at - HeaderBytes]
  BY <1>1, SentByte
<1>3. /\ read \in Seq(Bytes) /\ Len(read) = m + 1
      /\ read[m + 1] = byte /\ \A i \in 1..m : read[i] = p.buffer[i]
  BY <1>0, <1>2
<1>4. After(byte) = IF byte.at = HeaderBytes + Len(sent[n]) THEN <<n + 1, 1>>
                    ELSE <<n, byte.at + 1>>
  BY <1>1 DEF After
<1>5. /\ p.expected = 0 /\ m + 1 < HeaderBytes => q = [p EXCEPT !.buffer = read]
      /\ p.expected = 0 /\ ~(m + 1 < HeaderBytes) /\ ~Declares(byte.says) =>
           q = [p EXCEPT !.buffer = <<>>, !.error = TRUE]
      /\ p.expected = 0 /\ ~(m + 1 < HeaderBytes) /\ Declares(byte.says) =>
           q = [p EXCEPT !.buffer = <<>>, !.expected = byte.says]
      /\ p.expected # 0 /\ m + 1 < p.expected => q = [p EXCEPT !.buffer = read]
      /\ p.expected # 0 /\ ~(m + 1 < p.expected) =>
           q = [p EXCEPT !.buffer = <<>>, !.expected = 0, !.found = Append(found, read)]
  BY <1>0, <1>3 DEF Fed, WithoutError
<1>6. Reading(p, n) /\ InStep(list)
  OBVIOUS
<1>7. n = Len(list) + 1
  OBVIOUS
<1>7a. p = [buffer |-> p.buffer, expected |-> p.expected, error |-> FALSE, found |-> found]
  BY DEF WithoutError
<1> HIDE DEF n, m, read, found
<1>8. CASE p.expected = 0 /\ m + 1 < HeaderBytes
  <2>1. q = [buffer |-> read, expected |-> 0, error |-> FALSE, found |-> found]
    BY <1>0, <1>5, <1>7a, <1>8
  <2>2. Reading(q, n)
    BY <1>0, <1>3, <1>8, <2>1 DEF Reading
  <2>3. Upcoming(q, n) = <<n, m + 2>>
    BY <1>0, <1>3, <2>1 DEF Upcoming
  <2>4. After(byte) = <<n, m + 2>>
    <3>1. byte.at # HeaderBytes + Len(sent[n]) /\ byte.at + 1 = m + 2
      <4>1. m \in Nat /\ HeaderBytes \in Nat /\ Len(sent[n]) \in Nat
        BY <1>0, <1>2
      <4>2. byte.at = m + 1
        BY <1>1, <1>8
      <4> QED BY ONLY <1>8, <4>1, <4>2
    <3> QED BY <1>4, <3>1
  <2>5. ReadsOn(q, found, list, After(byte))
    <3>1. WithoutError(q) /\ q.found = found
      BY <2>1 DEF WithoutError
    <3>2. Reading(q, Len(list) + 1) /\ After(byte) = Upcoming(q, Len(list) + 1)
      BY <1>7, <2>2, <2>3, <2>4
    <3> QED BY <3>1, <3>2 DEF ReadsOn
  <2> QED BY <2>5 DEF found
<1>9. CASE p.expected = 0 /\ ~(m + 1 < HeaderBytes)
  <2>1. byte.at = HeaderBytes /\ byte.says = Len(sent[n])
    <3>1. m < HeaderBytes
      BY <1>6, <1>9 DEF Reading, m
    <3>2. m + 1 = HeaderBytes /\ byte.at = m + 1
      BY <1>0, <1>1, <1>9, <3>1
    <3> QED BY <1>2, <3>2
  <2>2. CASE ~Declares(byte.says)
    BY <1>0, <1>5, <1>7a, <1>9, <2>2
  <2>3. CASE Declares(byte.says)
    <3>1. q = [buffer |-> <<>>, expected |-> Len(sent[n]), error |-> FALSE, found |-> found]
      BY <1>0, <1>5, <1>7a, <1>9, <2>1, <2>3
    <3>2. Len(sent[n]) \in 1..MaxFrameBytes
      BY <1>0, <1>2, <2>1, <2>3 DEF Declares
    <3>3. Reading(q, n)
      <4>1. q.buffer = <<>> /\ q.expected = Len(sent[n]) /\ q.error = FALSE
        BY <3>1
      <4>2. <<>> \in Seq(Bytes) /\ Len(<<>>) = 0 /\ n <= Len(sent) /\ Len(sent[n]) # 0
            /\ Len(sent[n]) \in 0..MaxFrameBytes /\ 0 < Len(sent[n])
        BY <1>0, <1>1, <3>2
      <4>3. \A i \in 1..0 : <<>>[i] = sent[n][i]
        OBVIOUS
      <4> QED BY <4>1, <4>2, <4>3 DEF Reading
    <3>4. Upcoming(q, n) = <<n, HeaderBytes + 1>>
      BY <1>0, <3>1, <3>2 DEF Upcoming
    <3>5. After(byte) = <<n, HeaderBytes + 1>>
      <4>1. byte.at # HeaderBytes + Len(sent[n]) /\ byte.at + 1 = HeaderBytes + 1
        BY <1>0, <2>1, <3>2
      <4> QED BY <1>4, <4>1
    <3>6. ReadsOn(q, found, list, After(byte))
      BY <1>7, <3>1, <3>3, <3>4, <3>5 DEF ReadsOn, WithoutError
    <3> QED BY <3>6 DEF found
  <2> QED BY <2>2, <2>3
<1>10. CASE p.expected # 0
  <2>1. /\ p.expected = Len(sent[n]) /\ m < p.expected /\ p.expected \in Nat
        /\ \A i \in 1..m : p.buffer[i] = sent[n][i]
        /\ byte.at = HeaderBytes + m + 1
    BY <1>0, <1>1, <1>6, <1>10 DEF Reading, m
  <2>2. byte = sent[n][m + 1]
    <3>1. byte.at - HeaderBytes = m + 1 /\ byte.at > HeaderBytes
      BY <1>0, <2>1
    <3> QED BY <1>2, <3>1
  <2>3. \A i \in 1..(m + 1) : read[i] = sent[n][i]
    <3> SUFFICES ASSUME NEW i \in 1..(m + 1) PROVE read[i] = sent[n][i]
      OBVIOUS
    <3>1. i \in 1..m \/ i = m + 1
      BY <1>0
    <3> QED BY <1>3, <2>1, <2>2, <3>1
  <2>4. CASE m + 1 < p.expected
    <3>1. q = [buffer |-> read, expected |-> p.expected, error |-> FALSE, found |-> found]
      BY <1>0, <1>5, <1>7a, <1>10, <2>4
    <3>2. Reading(q, n)
      <4>1. q.buffer = read /\ q.expected = p.expected /\ q.error = FALSE
        BY <3>1
      <4>2. Len(read) < p.expected /\ \A i \in 1..Len(read) : read[i] = sent[n][i]
        BY <1>3, <2>3, <2>4
      <4>3. n <= Len(sent) /\ p.expected # 0 /\ p.expected = Len(sent[n])
        BY <1>1, <1>10, <2>1
      <4> QED BY <1>0, <1>3, <4>1, <4>2, <4>3 DEF Reading
    <3>3. Upcoming(q, n) = <<n, HeaderBytes + m + 2>>
      <4>1. q.buffer = read /\ q.expected # 0 /\ HeaderBytes + (m + 1) + 1 = HeaderBytes + m + 2
        BY <1>0, <1>10, <3>1
      <4> QED BY <1>3, <4>1 DEF Upcoming
    <3>4. After(byte) = <<n, HeaderBytes + m + 2>>
      <4>1. byte.at # HeaderBytes + Len(sent[n]) /\ byte.at + 1 = HeaderBytes + m + 2
        <5>1. HeaderBytes \in Nat /\ m \in Nat
          BY <1>0
        <5> QED BY <2>1, <2>4, <5>1
      <4> QED BY <1>4, <4>1
    <3>5. ReadsOn(q, found, list, After(byte))
      BY <1>7, <3>1, <3>2, <3>3, <3>4 DEF ReadsOn, WithoutError
    <3> QED BY <3>5 DEF found
  <2>5. CASE ~(m + 1 < p.expected)
    <3> DEFINE more == Append(list, read)
    <3>1. q = [buffer |-> <<>>, expected |-> 0, error |-> FALSE, found |-> Append(found, read)]
      BY <1>0, <1>5, <1>7a, <1>10, <2>5
    <3>2. Len(read) = Len(sent[n]) /\ sent[n] \in Seq(Bytes)
      BY <1>0, <1>1, <1>3, <2>1, <2>5
    <3>3. read = sent[n]
      <4>1. \A i \in 1..Len(read) : read[i] = sent[n][i]
        BY <1>3, <2>3
      <4> QED BY <1>3, <3>2, <4>1
    <3>4. /\ more \in Seq(Seq(Bytes)) /\ Len(more) = n /\ more[n] = sent[n]
          /\ \A i \in 1..Len(list) : more[i] = list[i]
      BY <1>0, <1>3, <1>7, <3>3
    <3> HIDE DEF more
    <3>5. InStep(more)
      <4>1. \A i \in 1..n : i \in 1..Len(list) \/ i = n
        BY <1>0, <1>7
      <4>2. \A i \in 1..n : more[i] = sent[i]
        BY <1>6, <3>4, <4>1 DEF InStep
      <4>3. Len(more) <= Len(sent)
        BY <1>1, <3>4
      <4> QED BY <3>4, <4>2, <4>3 DEF InStep
    <3>6. Reading(q, n + 1)
      BY <1>0, <3>1 DEF Reading
    <3>7. Upcoming(q, n + 1) = <<n + 1, 1>>
      BY <1>0, <3>1 DEF Upcoming
    <3>8. After(byte) = <<n + 1, 1>>
      <4>1. byte.at = HeaderBytes + Len(sent[n])
        BY <1>0, <2>1, <2>5
      <4> QED BY <1>4, <4>1
    <3>9. Finds(q, found, list, read, After(byte))
      BY <1>3, <3>1, <3>4, <3>5, <3>6, <3>7, <3>8 DEF Finds, more
    <3> QED BY <3>9 DEF found
  <2> QED BY <2>4, <2>5
<1> QED BY <1>0, <1>8, <1>9, <1>10 DEF found
-----------------------------------------------------------------------------
\* The place of the i-th byte that can be read, or of what the host sends next.
Ahead(i) == IF i <= Len(stream) THEN Place(stream[i]) ELSE <<Len(sent) + 1, 1>>

\* What can be read is the rest of what was sent, without a gap.
StreamInv ==
  /\ stream \in Seq(Bytes)
  /\ \A i \in 1..Len(stream) : IsSent(stream[i]) /\ After(stream[i]) = Ahead(i + 1)

\* The parser continues where what was handed on, and what it keeps of a frame, end.
ParserInv ==
  /\ parser = [buffer |-> parser.buffer, expected |-> parser.expected, error |-> FALSE]
  /\ InStep(delivered) /\ Reading(parser, Len(delivered) + 1)
  /\ Upcoming(parser, Len(delivered) + 1) = Ahead(1)

\* A parser behind the k-th byte of a read.
Fine(p, k) ==
  LET list == delivered \o p.found
  IN  /\ WithoutError(p) /\ p.found \in Seq(Seq(Bytes))
      /\ InStep(list) /\ Reading(p, Len(list) + 1)
      /\ Upcoming(p, Len(list) + 1) = Ahead(k + 1)

\* A list that is put behind another one grows with it.
LEMMA AppendBehind ==
  ASSUME NEW S, NEW a \in Seq(S), NEW b \in Seq(S), NEW x \in S
  PROVE  a \o Append(b, x) = Append(a \o b, x) /\ Append(b, x) \in Seq(S)
OBVIOUS

\* The next byte keeps the parser in step, or it is an error.
LEMMA FedFine ==
  ASSUME SentInv, StreamInv, ParserInv, NEW k \in 1..Len(stream), NEW p, Fine(p, k - 1),
         NEW q, q = Fed(p, stream[k])
  PROVE  q.error = TRUE \/ Fine(q, k)
<1> DEFINE list == delivered \o p.found
<1>0. /\ k \in Nat /\ IsSent(stream[k]) /\ After(stream[k]) = Ahead(k + 1)
      /\ Ahead((k - 1) + 1) = Place(stream[k])
      /\ delivered \in Seq(Seq(Bytes))
  <2>1. k \in Nat /\ (k - 1) + 1 = k /\ k <= Len(stream)
    BY DEF StreamInv
  <2>2. IsSent(stream[k]) /\ After(stream[k]) = Ahead(k + 1)
    BY DEF StreamInv
  <2>3. Ahead((k - 1) + 1) = Place(stream[k])
    BY <2>1, Zenon DEF Ahead
  <2>4. delivered \in Seq(Seq(Bytes))
    BY DEF ParserInv, InStep
  <2> QED BY <2>1, <2>2, <2>3, <2>4
<1>1. /\ WithoutError(p) /\ p.found \in Seq(Seq(Bytes))
      /\ InStep(list) /\ Reading(p, Len(list) + 1)
      /\ Place(stream[k]) = Upcoming(p, Len(list) + 1)
  BY <1>0 DEF Fine
<1>2. \A frame \in Seq(Bytes) : delivered \o Append(p.found, frame) = Append(list, frame)
  <2> DEFINE Frames == Seq(Bytes)
  <2>1. delivered \in Seq(Frames) /\ p.found \in Seq(Frames)
    BY <1>0, <1>1
  <2> HIDE DEF Frames
  <2>2. \A frame \in Frames : delivered \o Append(p.found, frame) = Append(list, frame)
    <3> SUFFICES ASSUME NEW frame \in Frames
                 PROVE  delivered \o Append(p.found, frame) = Append(delivered \o p.found, frame)
      OBVIOUS
    <3> QED BY ONLY <2>1, frame \in Frames, AppendBehind
  <2> QED BY <2>2 DEF Frames
<1> HIDE DEF list
<1>3. \/ q.error = TRUE
      \/ ReadsOn(q, p.found, list, After(stream[k]))
      \/ \E frame : Finds(q, p.found, list, frame, After(stream[k]))
  BY <1>0, <1>1, FedInStep
<1>4. CASE ReadsOn(q, p.found, list, After(stream[k]))
  <2>1. /\ WithoutError(q) /\ q.found = p.found /\ Reading(q, Len(list) + 1)
        /\ Ahead(k + 1) = Upcoming(q, Len(list) + 1)
    BY <1>0, <1>4 DEF ReadsOn
  <2> QED BY <1>1, <2>1 DEF Fine, list
<1>5. ASSUME NEW frame, Finds(q, p.found, list, frame, After(stream[k]))
      PROVE  Fine(q, k)
  <2>0. /\ q = [buffer |-> <<>>, expected |-> 0, error |-> FALSE,
                found |-> Append(p.found, frame)]
        /\ frame \in Seq(Bytes) /\ InStep(Append(list, frame))
        /\ Reading(q, Len(Append(list, frame)) + 1)
        /\ Ahead(k + 1) = Upcoming(q, Len(Append(list, frame)) + 1)
    BY <1>0, <1>5 DEF Finds
  <2>1. /\ q.found = Append(p.found, frame) /\ q.buffer = <<>> /\ q.expected = 0
        /\ delivered \o q.found = Append(list, frame)
    <3>1. q.found = Append(p.found, frame) /\ q.buffer = <<>> /\ q.expected = 0
      BY <2>0
    <3>2. delivered \o Append(p.found, frame) = Append(list, frame)
      BY <1>2, <2>0
    <3> QED BY <3>1, <3>2
  <2>2. q.found \in Seq(Seq(Bytes))
    <3> DEFINE Frames == Seq(Bytes)
    <3>1. p.found \in Seq(Frames) /\ frame \in Frames
      BY <1>1, <2>0
    <3> HIDE DEF Frames
    <3>2. Append(p.found, frame) \in Seq(Frames)
      BY <3>1
    <3> QED BY <2>1, <3>2 DEF Frames
  <2>3. WithoutError(q)
    BY <2>0, <2>1 DEF WithoutError
  <2> QED BY <2>0, <2>1, <2>2, <2>3 DEF Fine
<1> QED BY <1>3, <1>4, <1>5, Zenon

\* A read ends with an error, or in step.
LEMMA FeedFine ==
  ASSUME SentInv, StreamInv, ParserInv, NEW n \in 1..Len(stream)
  PROVE  LET p == Feed(SubSeq(stream, 1, n)) IN p.error = TRUE \/ Fine(p, n)
<1> DEFINE bytes == SubSeq(stream, 1, n)
<1>0. /\ stream \in Seq(Bytes) /\ Len(stream) \in Nat /\ n \in Nat
      /\ Len(bytes) = n /\ \A k \in 1..n : bytes[k] = stream[k]
  BY DEF StreamInv
<1> HIDE DEF bytes
<1>1. PICK f : /\ f[0] = Unread /\ Feed(bytes) = f[n]
               /\ \A k \in 1..n : f[k] = Fed(f[k - 1], stream[k])
  <2>1. PICK f : /\ f[0] = Unread /\ Feed(bytes) = f[Len(bytes)]
                 /\ \A k \in 1..Len(bytes) : f[k] = Fed(f[k - 1], bytes[k])
    BY <1>0, FeedSteps, Zenon
  <2>2. \A k \in 1..n : f[k] = Fed(f[k - 1], stream[k])
    BY <1>0, <2>1
  <2> QED BY <1>0, <2>1, <2>2
<1>2. Fine(f[0], 0)
  <2>0. f[0] = [buffer |-> parser.buffer, expected |-> parser.expected, error |-> FALSE,
                found |-> <<>>]
    <3>1. parser.error = FALSE
      BY DEF ParserInv
    <3> QED BY <1>1, <3>1 DEF Unread
  <2>1. /\ f[0].found = <<>> /\ f[0].buffer = parser.buffer
        /\ f[0].expected = parser.expected /\ f[0].error = FALSE
        /\ f[0] = [buffer |-> f[0].buffer, expected |-> f[0].expected, error |-> FALSE,
                   found |-> <<>>]
    BY <2>0
  <2>2. delivered \in Seq(Seq(Bytes)) /\ delivered \o <<>> = delivered
        /\ <<>> \in Seq(Seq(Bytes))
    BY DEF ParserInv, InStep
  <2>3. Reading(f[0], Len(delivered) + 1)
    BY <2>1 DEF ParserInv, Reading
  <2>4. Upcoming(f[0], Len(delivered) + 1) = Ahead(0 + 1)
    BY <2>1 DEF ParserInv, Upcoming
  <2>5. WithoutError(f[0])
    BY <2>1 DEF WithoutError
  <2> QED BY <2>1, <2>2, <2>3, <2>4, <2>5 DEF Fine, ParserInv
<1>3. \A k \in 0..n : f[k].error = TRUE \/ Fine(f[k], k)
  <2> DEFINE Bad == {k \in 0..n : ~(f[k].error = TRUE \/ Fine(f[k], k))}
  <2> SUFFICES ASSUME Bad # {} PROVE FALSE
    OBVIOUS
  <2>1. PICK k \in Bad : \A j \in Bad : k <= j
    <3>1. Bad \in SUBSET Nat
      BY <1>0
    <3> QED BY <3>1, LeastNumber
  <2>2. k \in 1..n /\ k - 1 \in 0..n /\ k - 1 \notin Bad /\ k \in 1..Len(stream)
    BY <1>0, <1>2, <2>1
  <2>3. f[k] = Fed(f[k - 1], stream[k])
    BY <1>1, <2>2
  <2>4. CASE f[k - 1].error = TRUE
    BY <2>1, <2>3, <2>4 DEF Fed
  <2>5. CASE Fine(f[k - 1], k - 1)
    BY <2>1, <2>2, <2>3, <2>5, FedFine
  <2> QED BY <2>2, <2>4, <2>5
<1> QED BY <1>0, <1>1, <1>3 DEF bytes
-----------------------------------------------------------------------------
\* Away from a connection nothing has been read.
ConnectionInv == state # "Connected" => parser = FreshParser /\ client = FALSE

\* The types of what is not the parser's.
LinkTypes ==
  /\ state \in States /\ waited \in Nat /\ since \in 0..Never
  /\ credentials \in Credentials \cup {None, Mixed} /\ nvs \in Credentials \cup {None, Mixed}
  /\ group \in Credentials \cup {None} /\ wifi \in BOOLEAN /\ client \in BOOLEAN
  /\ peer \in BOOLEAN /\ (peer => client)

\* The inductive invariant.
WifiInv == LinkTypes /\ ConnectionInv /\ SentInv /\ StreamInv /\ ParserInv

\* Without a connection nothing is sent and nothing read.
LEMMA NothingSent ==
  ASSUME NoStream, parser' = FreshParser
  PROVE  SentInv' /\ StreamInv' /\ ParserInv'
<1>0. HeaderBytes \in Nat \ {0} /\ MaxFrameBytes \in Nat
  BY WifiAssumption
<1>1. SentInv' /\ StreamInv'
  BY DEF NoStream, SentInv, StreamInv
<1>2. /\ parser'.buffer = <<>> /\ parser'.expected = 0 /\ parser'.error = FALSE
      /\ parser' = [buffer |-> parser'.buffer, expected |-> parser'.expected, error |-> FALSE]
  BY DEF FreshParser
<1>3. InStep(delivered)'
  BY DEF NoStream, InStep
<1>4. Reading(parser, Len(delivered) + 1)'
  BY <1>0, <1>2 DEF Reading
<1>5. (Upcoming(parser, Len(delivered) + 1) = Ahead(1))'
  BY <1>2 DEF NoStream, Upcoming, Ahead
<1> QED BY <1>1, <1>2, <1>3, <1>4, <1>5 DEF ParserInv

\* A connection that is reset leaves nothing behind.
LEMMA ResetWifi ==
  ASSUME ResetConnection("Idle")
  PROVE  ConnectionInv' /\ SentInv' /\ StreamInv' /\ ParserInv'
BY NothingSent DEF ResetConnection, NoClient, ConnectionInv

\* The bytes that a read leaves are a chain that begins where it ended.
LEMMA AheadOfRead ==
  ASSUME StreamInv, UNCHANGED sent, NEW n \in 1..Len(stream),
         stream' = SubSeq(stream, n + 1, Len(stream))
  PROVE  StreamInv' /\ Ahead(1)' = Ahead(n + 1)
<1>0. stream \in Seq(Bytes) /\ Len(stream) \in Nat /\ n \in Nat
  BY DEF StreamInv
<1>1. /\ stream' \in Seq(Bytes) /\ Len(stream') = Len(stream) - n
      /\ \A i \in 1..(Len(stream) - n) : stream'[i] = stream[n + i]
  BY <1>0
<1>2. \A i \in Nat \ {0} : Ahead(i)' = Ahead(n + i)
  <2> SUFFICES ASSUME NEW i \in Nat \ {0} PROVE Ahead(i)' = Ahead(n + i)
    OBVIOUS
  <2>1. CASE i <= Len(stream) - n
    BY <1>0, <1>1, <2>1 DEF Ahead, Place
  <2>2. CASE ~(i <= Len(stream) - n)
    BY <1>0, <1>1, <2>2 DEF Ahead, Place
  <2> QED BY <2>1, <2>2
<1>3. ASSUME NEW i \in 1..Len(stream')
      PROVE  (IsSent(stream[i]) /\ After(stream[i]) = Ahead(i + 1))'
  <2>1. n + i \in 1..Len(stream) /\ stream'[i] = stream[n + i] /\ n + (i + 1) = n + i + 1
        /\ i + 1 \in Nat \ {0} /\ i \in Nat
    BY <1>0, <1>1
  <2>2. IsSent(stream[n + i]) /\ After(stream[n + i]) = Ahead(n + i + 1)
    BY <2>1 DEF StreamInv
  <2>3. Ahead(i + 1)' = Ahead(n + i + 1)
    BY <1>2, <2>1
  <2>4. IsSent(stream[i])'
    BY <2>1, <2>2 DEF IsSent, Wire
  <2>5. After(stream[i])' = After(stream[n + i])
    BY <2>1 DEF After
  <2> QED BY <2>2, <2>3, <2>4, <2>5
<1>4. StreamInv'
  BY <1>1, <1>3, Zenon DEF StreamInv
<1>5. Ahead(1)' = Ahead(n + 1)
  BY <1>2, 1 \in Nat \ {0}
<1> QED BY <1>4, <1>5

\* A read of any size.
LEMMA PumpWifi ==
  ASSUME WifiInv, NEW n \in 1..Len(stream), Pump(n)
  PROVE  WifiInv'
<1> DEFINE p == Feed(SubSeq(stream, 1, n))
<1>0. SentInv /\ StreamInv /\ ParserInv /\ ConnectionInv /\ LinkTypes /\ state = "Connected"
  BY DEF WifiInv, Pump
<1>1. p.error = TRUE \/ Fine(p, n)
  BY <1>0, FeedFine
<1>2. /\ UNCHANGED <<since, credentials, nvs, group, wifi>>
      /\ IF p.error THEN ResetConnection("Idle")
         ELSE /\ parser' = [buffer |-> p.buffer, expected |-> p.expected, error |-> FALSE]
              /\ delivered' = delivered \o p.found
              /\ stream' = SubSeq(stream, n + 1, Len(stream))
              /\ UNCHANGED <<state, waited, client, peer, sent>>
  BY DEF Pump, radio
<1> HIDE DEF p
<1>3. CASE p.error = TRUE
  <2>1. ResetConnection("Idle")
    BY <1>2, <1>3
  <2>2. LinkTypes'
    BY <1>0, <1>2, <2>1 DEF LinkTypes, ResetConnection, NoClient, Enter, States
  <2> QED BY <2>1, <2>2, ResetWifi DEF WifiInv
<1>4. CASE Fine(p, n)
  <2>1. p.error = FALSE
    BY <1>4 DEF Fine, WithoutError
  <2>2. /\ parser' = [buffer |-> p.buffer, expected |-> p.expected, error |-> FALSE]
        /\ delivered' = delivered \o p.found
        /\ stream' = SubSeq(stream, n + 1, Len(stream))
        /\ UNCHANGED <<state, waited, client, peer, sent>>
    BY <1>2, <2>1
  <2>3. LinkTypes' /\ ConnectionInv' /\ SentInv'
    BY <1>0, <1>2, <2>2 DEF LinkTypes, ConnectionInv, SentInv
  <2>4. StreamInv' /\ Ahead(1)' = Ahead(n + 1)
    BY <1>0, <2>2, AheadOfRead
  <2>5. /\ parser'.buffer = p.buffer /\ parser'.expected = p.expected /\ parser'.error = FALSE
        /\ parser' = [buffer |-> parser'.buffer, expected |-> parser'.expected, error |-> FALSE]
    BY <2>2
  <2>6. /\ InStep(delivered') /\ Reading(p, Len(delivered') + 1)
        /\ Upcoming(p, Len(delivered') + 1) = Ahead(n + 1)
    BY <1>4, <2>2, Zenon DEF Fine
  <2>7. InStep(delivered)'
    BY <2>2, <2>6 DEF InStep
  <2>8. Reading(parser, Len(delivered) + 1)'
    BY <2>1, <2>2, <2>5, <2>6 DEF Reading
  <2>9. (Upcoming(parser, Len(delivered) + 1) = Ahead(1))'
    BY <2>4, <2>5, <2>6 DEF Upcoming
  <2>10. ParserInv'
    BY <2>5, <2>7, <2>8, <2>9 DEF ParserInv
  <2> QED BY <2>3, <2>4, <2>10 DEF WifiInv
<1> QED BY <1>1, <1>3, <1>4

\* A frame that is sent stands behind what can be read.
LEMMA HostSendsWifi ==
  ASSUME SentInv, StreamInv, ParserInv, NEW length \in Nat, HostSends(length)
  PROVE  SentInv' /\ StreamInv' /\ ParserInv'
<1>3. PICK n, f, y, size :
        n = Len(sent) + 1 /\ f = Frame(n, length) /\ y = Payload(n, length) /\ size = Len(stream)
  OBVIOUS
<1>0. /\ HeaderBytes \in Nat \ {0} /\ n \in Nat /\ Len(sent) \in Nat /\ size \in Nat
      /\ stream \in Seq(Bytes) /\ sent \in Seq(Seq(Bytes))
  BY <1>3, WifiAssumption DEF SentInv, StreamInv
<1>1. /\ f \in Seq(Bytes) /\ Len(f) = HeaderBytes + length /\ y \in Seq(Bytes) /\ Len(y) = length
      /\ \A j \in 1..(HeaderBytes + length) : 
           f[j] = [frame |-> n, at |-> j, says |-> IF j = HeaderBytes THEN length ELSE 1]
  <2>1. /\ Frame(n, length) \in Seq(Bytes) /\ Len(Frame(n, length)) = HeaderBytes + length
        /\ \A i \in 1..(HeaderBytes + length) :
              Frame(n, length)[i] = [frame |-> n, at |-> i,
                                     says |-> IF i = HeaderBytes THEN length ELSE 1]
        /\ Payload(n, length) \in Seq(Bytes) /\ Len(Payload(n, length)) = length
    BY <1>0, FrameIs
  <2> QED BY <1>3, <2>1, Zenon
<1>2. stream' = stream \o f /\ sent' = Append(sent, y) /\ UNCHANGED <<parser, delivered>>
  BY <1>3 DEF HostSends
<1>4. Frame(n, length) = f /\ Payload(n, length) = y
  BY <1>3
<1>5. /\ sent' \in Seq(Seq(Bytes)) /\ Len(sent') = n /\ DOMAIN sent' = 1..n
      /\ sent'[n] = y /\ \A i \in 1..Len(sent) : sent'[i] = sent[i]
  <2> DEFINE Frames == Seq(Bytes)
  <2>1. sent \in Seq(Frames) /\ y \in Frames
    BY <1>0, <1>1
  <2> HIDE DEF Frames
  <2>2. /\ Append(sent, y) \in Seq(Frames) /\ Len(Append(sent, y)) = n
        /\ Append(sent, y)[n] = y /\ \A i \in 1..Len(sent) : Append(sent, y)[i] = sent[i]
    BY <2>1, <1>0, <1>3
  <2>3. sent' \in Seq(Frames) /\ Len(sent') = n
    BY <1>2, <2>2
  <2>4. DOMAIN sent' = 1..n
    BY <2>3
  <2> QED BY <1>2, <2>2, <2>3, <2>4 DEF Frames
<1>6. /\ stream' \in Seq(Bytes) /\ Len(stream') = size + (HeaderBytes + length)
      /\ \A i \in 1..size : stream'[i] = stream[i]
      /\ \A j \in 1..(HeaderBytes + length) : stream'[size + j] = f[j]
  <2>1. /\ stream \o f \in Seq(Bytes) /\ Len(stream \o f) = Len(stream) + Len(f)
        /\ \A i \in 1..Len(stream) : (stream \o f)[i] = stream[i]
        /\ \A j \in 1..Len(f) : (stream \o f)[Len(stream) + j] = f[j]
    <3>1. stream \in Seq(Bytes) /\ f \in Seq(Bytes)
      BY <1>0, <1>1
    <3> QED BY ONLY <3>1
  <2> QED BY <1>1, <1>2, <1>3, <2>1
<1>7. SentInv'
  <2>1. ASSUME NEW i \in 1..n PROVE sent'[i] = Payload(i, Len(sent'[i]))
    <3>1. CASE i = n
      BY <1>1, <1>4, <1>5, <3>1
    <3>2. CASE i # n
      <4>1. i \in 1..Len(sent) /\ i \in DOMAIN sent
        BY <1>0, <1>3, <3>2
      <4> QED BY <1>5, <4>1 DEF SentInv
    <3> QED BY <3>1, <3>2
  <2> QED BY <1>5, <2>1 DEF SentInv
\* The bytes that could be read before stand where they stood.
<1>8. ASSUME NEW byte, IsSent(byte) PROVE IsSent(byte)' /\ After(byte)' = After(byte)
  <2>0. DOMAIN sent = 1..Len(sent) /\ n = Len(sent) + 1 /\ Len(sent) \in Nat /\ DOMAIN sent' = 1..n
    BY <1>0, <1>3, <1>5
  <2>a. byte.frame \in DOMAIN sent
    BY <1>8 DEF IsSent
  <2>1. byte.frame \in 1..Len(sent) /\ byte.frame \in DOMAIN sent'
    BY ONLY <2>0, <2>a
  <2>2. sent'[byte.frame] = sent[byte.frame]
    BY <1>5, <2>1
  <2>3. Wire(byte.frame)' = Wire(byte.frame)
    BY <2>2 DEF Wire
  <2>4. /\ byte.at \in 1..(HeaderBytes + Len(sent'[byte.frame]))
        /\ byte = Wire(byte.frame)[byte.at]
    BY <1>8, <2>2 DEF IsSent
  <2>5. IsSent(byte)'
    BY <2>1, <2>3, <2>4 DEF IsSent
  <2>6. After(byte)' = After(byte)
    BY <2>2 DEF After
  <2> QED BY <2>5, <2>6
\* The new ones follow one another.
<1>9. ASSUME NEW j \in 1..(HeaderBytes + length)
      PROVE  /\ IsSent(f[j])' /\ Place(f[j]) = <<n, j>>
             /\ After(f[j])' = IF j = HeaderBytes + length THEN <<n + 1, 1>> ELSE <<n, j + 1>>
  <2>1. f[j].frame = n /\ f[j].at = j
    BY <1>1
  <2>2. n \in DOMAIN sent' /\ Len(sent'[n]) = length /\ f[j] = Frame(n, length)[j]
    BY <1>0, <1>1, <1>3, <1>4, <1>5
  <2> QED BY <2>1, <2>2 DEF IsSent, Place, After, Wire
<1>10. \A i \in 1..(size + 1) : Ahead(i)' = Ahead(i)
  <2> SUFFICES ASSUME NEW i \in 1..(size + 1) PROVE Ahead(i)' = Ahead(i)
    OBVIOUS
  <2>1. CASE i \in 1..size
    <3>1. stream'[i] = stream[i] /\ i <= Len(stream) /\ i <= Len(stream')
      BY <1>0, <1>1, <1>3, <1>6, <2>1
    <3> QED BY <3>1 DEF Ahead, Place
  <2>2. CASE i = size + 1
    <3>1. 1 \in 1..(HeaderBytes + length) /\ ~(i <= Len(stream)) /\ i <= Len(stream')
      BY <1>0, <1>1, <1>3, <1>6, <2>2
    <3>2. Place(stream'[i]) = <<n, 1>>
      BY <1>6, <1>9, <2>2, <3>1
    <3>3. Ahead(i)' = Place(stream'[i])
      BY <3>1 DEF Ahead, Place
    <3> QED BY <1>3, <3>1, <3>2, <3>3 DEF Ahead
  <2> QED BY <1>0, <2>1, <2>2
<1>11. \A j \in 1..(HeaderBytes + length + 1) :
         Ahead(size + j)' = IF j = HeaderBytes + length + 1 THEN <<n + 1, 1>> ELSE <<n, j>>
  <2> SUFFICES ASSUME NEW j \in 1..(HeaderBytes + length + 1)
               PROVE  Ahead(size + j)' = IF j = HeaderBytes + length + 1 THEN <<n + 1, 1>>
                                         ELSE <<n, j>>
    OBVIOUS
  <2>1. CASE j = HeaderBytes + length + 1
    <3>1. ~(size + j <= Len(stream')) /\ Len(sent') + 1 = n + 1
      BY <1>0, <1>1, <1>5, <1>6, <2>1
    <3> QED BY <2>1, <3>1 DEF Ahead
  <2>2. CASE j # HeaderBytes + length + 1
    <3>1. j \in 1..(HeaderBytes + length) /\ size + j <= Len(stream')
      BY <1>0, <1>1, <1>6, <2>2
    <3>2. Place(stream'[size + j]) = <<n, j>>
      BY <1>6, <1>9, <3>1
    <3>3. Ahead(size + j)' = Place(stream'[size + j])
      BY <3>1 DEF Ahead, Place
    <3> QED BY <2>2, <3>2, <3>3
  <2> QED BY <2>1, <2>2
<1>12. StreamInv'
  <2>1. ASSUME NEW i \in 1..Len(stream')
        PROVE  (IsSent(stream[i]) /\ After(stream[i]) = Ahead(i + 1))'
    <3>1. CASE i \in 1..size
      <4>1. /\ stream'[i] = stream[i] /\ i + 1 \in 1..(size + 1)
            /\ IsSent(stream[i]) /\ After(stream[i]) = Ahead(i + 1)
        BY <1>0, <1>3, <1>6, <3>1 DEF StreamInv
      <4>2. IsSent(stream[i])' /\ After(stream[i])' = After(stream[i])
        <5>1. PICK byte : byte = stream[i]
          OBVIOUS
        <5>2. IsSent(byte)' /\ After(byte)' = After(byte)
          BY <1>8, <4>1, <5>1
        <5> QED BY <4>1, <5>1, <5>2 DEF IsSent, After, Wire
      <4> QED BY <1>10, <4>1, <4>2
    <3>2. CASE i \notin 1..size
      <4> DEFINE j == i - size
      <4>1. /\ j \in 1..(HeaderBytes + length) /\ size + j = i
            /\ j + 1 \in 1..(HeaderBytes + length + 1) /\ size + (j + 1) = i + 1
            /\ (j = HeaderBytes + length <=> j + 1 = HeaderBytes + length + 1)
        <5>1. size \in Nat /\ length \in Nat /\ HeaderBytes \in Nat \ {0}
          BY <1>0, <1>1
        <5>2. i \in 1..(size + (HeaderBytes + length))
          BY <1>6, <2>1
        <5> QED BY ONLY <3>2, <5>1, <5>2
      <4> HIDE DEF j
      <4>2. stream'[i] = f[j]
        BY <1>6, <4>1
      <4>3. PICK byte : byte = f[j]
        OBVIOUS
      <4>4. /\ IsSent(byte)'
            /\ After(byte)' = IF j = HeaderBytes + length THEN <<n + 1, 1>> ELSE <<n, j + 1>>
        <5>1. After(byte)' = After(f[j])' /\ (IsSent(byte)' <=> IsSent(f[j])')
          BY <4>3 DEF After, IsSent, Wire
        <5> QED BY <1>9, <4>1, <5>1
      <4>5. Ahead(i + 1)' = IF j = HeaderBytes + length THEN <<n + 1, 1>> ELSE <<n, j + 1>>
        BY <1>11, <4>1
      <4>6. IsSent(stream[i])' /\ After(stream[i])' = After(byte)'
        BY <4>2, <4>3, <4>4 DEF IsSent, After, Wire
      <4> QED BY <4>4, <4>5, <4>6
    <3> QED BY <3>1, <3>2
  <2> QED BY <1>6, <2>1 DEF StreamInv
<1>13. InStep(delivered)'
  <2>1. /\ delivered \in Seq(Seq(Bytes)) /\ Len(delivered) <= Len(sent) /\ Len(delivered) \in Nat
        /\ \A i \in 1..Len(delivered) : delivered[i] = sent[i]
    BY DEF ParserInv, InStep
  <2>2. \A i \in 1..Len(delivered) : i \in 1..Len(sent)
    BY <1>0, <2>1
  <2>3. \A i \in 1..Len(delivered) : delivered[i] = sent'[i]
    BY <1>5, <2>1, <2>2
  <2>4. Len(delivered) <= Len(sent')
    BY <1>0, <1>3, <1>5, <2>1
  <2> QED BY <1>2, <2>1, <2>3, <2>4 DEF InStep
<1>14. Reading(parser, Len(delivered) + 1)'
  <2>1. Reading(parser, Len(delivered) + 1) /\ Len(delivered) \in Nat
    BY DEF ParserInv, InStep
  <2>2. ASSUME Len(delivered) + 1 <= Len(sent)
        PROVE  /\ sent'[Len(delivered) + 1] = sent[Len(delivered) + 1]
               /\ Len(delivered) + 1 <= Len(sent')
    BY <1>0, <1>3, <1>5, <2>1, <2>2
  <2> QED BY <1>2, <2>1, <2>2 DEF Reading
<1>15. (Upcoming(parser, Len(delivered) + 1) = Ahead(1))'
  <2>1. Ahead(1)' = Ahead(1)
    BY <1>0, <1>10
  <2> QED BY <1>2, <2>1 DEF ParserInv, Upcoming
<1>16. parser' = [buffer |-> parser'.buffer, expected |-> parser'.expected, error |-> FALSE]
  BY <1>2 DEF ParserInv
<1> QED BY <1>7, <1>12, <1>13, <1>14, <1>15, <1>16 DEF ParserInv

\* A step that does not touch the connection.
LEMMA SameWifi ==
  ASSUME SentInv, StreamInv, ParserInv, UNCHANGED <<stream, parser, sent, delivered>>
  PROVE  SentInv' /\ StreamInv' /\ ParserInv'
<1>1. SentInv'
  BY DEF SentInv
<1>2. StreamInv'
  BY DEF StreamInv, IsSent, After, Ahead, Place, Wire
<1>3. InStep(delivered)' /\ Reading(parser, Len(delivered) + 1)'
  BY DEF ParserInv, InStep, Reading
<1>4. (Upcoming(parser, Len(delivered) + 1) = Ahead(1))'
  BY DEF ParserInv, Upcoming, Ahead, Place
<1> QED BY <1>1, <1>2, <1>3, <1>4 DEF ParserInv

\* The endpoint starts without a connection.
LEMMA InitWifi == Init => WifiInv
<1> SUFFICES ASSUME Init PROVE WifiInv
  OBVIOUS
<1>0. HeaderBytes \in Nat \ {0} /\ MaxFrameBytes \in Nat /\ Backoff \in Nat
  BY WifiAssumption
<1>1. LinkTypes /\ ConnectionInv
  <2>1. Never \in 0..Never /\ 0 \in Nat
    BY <1>0 DEF Never
  <2>2. LinkTypes
    BY <2>1 DEF Init, LinkTypes, States
  <2> QED BY <2>2 DEF Init, ConnectionInv
<1>2. SentInv /\ StreamInv
  BY DEF Init, SentInv, StreamInv
<1>3. /\ parser.buffer = <<>> /\ parser.expected = 0 /\ parser.error = FALSE
      /\ parser = [buffer |-> parser.buffer, expected |-> parser.expected, error |-> FALSE]
  BY DEF Init, FreshParser
<1>4. InStep(delivered)
  BY DEF Init, InStep
<1>5. Reading(parser, Len(delivered) + 1)
  BY <1>0, <1>3 DEF Reading
<1>6. Upcoming(parser, Len(delivered) + 1) = Ahead(1)
  BY <1>3 DEF Init, Upcoming, Ahead
<1> QED BY <1>1, <1>2, <1>3, <1>4, <1>5, <1>6 DEF WifiInv, ParserInv

\* Every step preserves the invariant.
LEMMA NextWifi == WifiInv /\ [Next]_vars => WifiInv'
<1> SUFFICES ASSUME WifiInv, [Next]_vars PROVE WifiInv'
  OBVIOUS
<1> USE DEF WifiInv
<1>0. /\ WifiTimeout \in Nat /\ TcpTimeout \in Nat /\ Backoff \in Nat /\ Lengths \subseteq Nat
      /\ Never \in 0..Never
  BY WifiAssumption DEF Never
<1>1. ASSUME NEW c \in Credentials, Configure(c) PROVE WifiInv'
  <2>1. LinkTypes'
    BY <1>0, <1>1 DEF LinkTypes, Configure, Save, ResetConnection, NoClient, Enter, States, radio
  <2>2. ResetConnection("Idle")
    BY <1>1 DEF Configure
  <2> QED BY <2>1, <2>2, ResetWifi
<1>2. CASE Restart
  <2>1. LinkTypes' /\ ConnectionInv'
    BY <1>0, <1>2 DEF LinkTypes, ConnectionInv, Restart, NoClient, Load, States
  <2>2. NoStream /\ parser' = FreshParser
    BY <1>2 DEF Restart
  <2> QED BY <2>1, <2>2, NothingSent
<1>3. CASE StartAttempt
  <2>1. /\ state' = "WifiConnecting" /\ waited' = 0 /\ since' = 0 /\ state = "Idle"
        /\ wifi' \in {FALSE, wifi} /\ UNCHANGED <<client, peer, parser, credentials, nvs, group>>
        /\ UNCHANGED <<stream, parser, sent, delivered>>
    BY <1>3 DEF StartAttempt, Enter, frames
  <2>2. LinkTypes' /\ ConnectionInv'
    <3>1. 0 \in 0..Never /\ 0 \in Nat
      BY <1>0
    <3> QED BY <2>1, <3>1 DEF LinkTypes, ConnectionInv, States
  <2> QED BY <2>1, <2>2, SameWifi
<1>4. CASE WifiUp
  BY <1>0, <1>4, SameWifi DEF WifiUp, LinkTypes, ConnectionInv, Enter, States, frames, radio
<1>5. CASE WifiTimesOut
  <2>1. LinkTypes' /\ ResetConnection("Idle")
    BY <1>0, <1>5 DEF LinkTypes, WifiTimesOut, NoClient, ResetConnection, Enter, States
  <2> QED BY <2>1, ResetWifi
<1>6. CASE TcpConnects
  <2>1. LinkTypes' /\ ConnectionInv'
    BY <1>0, <1>6 DEF LinkTypes, ConnectionInv, TcpConnects, Enter, States, radio
  <2>2. NoStream /\ parser' = FreshParser
    BY <1>6 DEF TcpConnects, ConnectionInv
  <2> QED BY <2>1, <2>2, NothingSent
<1>7. CASE TcpTimesOut
  <2>1. LinkTypes' /\ ResetConnection("Idle")
    BY <1>0, <1>7 DEF LinkTypes, TcpTimesOut, NoClient, ResetConnection, Enter, States, radio
  <2> QED BY <2>1, ResetWifi
<1>8. CASE ConnectionLost
  <2>1. LinkTypes' /\ ResetConnection("Idle")
    BY <1>0, <1>8 DEF LinkTypes, ConnectionLost, NoClient, ResetConnection, Enter, States, radio
  <2> QED BY <2>1, ResetWifi
<1>9. ASSUME NEW n \in 1..Len(stream), Pump(n) PROVE WifiInv'
  BY <1>9, PumpWifi
<1>10. CASE Tick
  <2>1. LinkTypes'
    BY <1>0, <1>10 DEF LinkTypes, Tick, radio, Never
  <2>2. ConnectionInv' /\ UNCHANGED <<stream, parser, sent, delivered>>
    BY <1>10 DEF Tick, ConnectionInv, frames
  <2> QED BY <2>1, <2>2, SameWifi
<1>11. CASE Associate
  BY <1>11, SameWifi DEF Associate, LinkTypes, ConnectionInv, link, frames
<1>12. CASE LoseWifi
  <2>1. /\ wifi' = FALSE /\ UNCHANGED <<state, waited, since, parser, credentials, nvs, group>>
        /\ UNCHANGED <<stream, sent, delivered>>
        /\ (client' = FALSE /\ peer' = FALSE) \/ (client' = client /\ peer' = peer)
    BY <1>12 DEF LoseWifi, NoClient, frames
  <2>2. LinkTypes' /\ ConnectionInv'
    <3>1. CASE client' = FALSE /\ peer' = FALSE
      BY <2>1, <3>1 DEF LinkTypes, ConnectionInv
    <3>2. CASE client' = client /\ peer' = peer
      BY <2>1, <3>2 DEF LinkTypes, ConnectionInv
    <3> QED BY <2>1, <3>1, <3>2
  <2> QED BY <2>1, <2>2, SameWifi
<1>13. CASE PeerCloses
  BY <1>13, SameWifi DEF PeerCloses, NoClient, LinkTypes, ConnectionInv, frames, radio
<1>14. CASE PeerVanishes
  BY <1>14, SameWifi DEF PeerVanishes, LinkTypes, ConnectionInv, frames, radio
<1>15. CASE GroupChanges
  BY <1>15, SameWifi DEF GroupChanges, LinkTypes, ConnectionInv, frames
<1>16. ASSUME NEW length \in Lengths, HostSends(length) PROVE WifiInv'
  <2>1. LinkTypes' /\ ConnectionInv'
    BY <1>16 DEF HostSends, LinkTypes, ConnectionInv, radio
  <2>2. length \in Nat
    BY <1>0
  <2> QED BY <1>16, <2>1, <2>2, HostSendsWifi
<1>17. CASE UNCHANGED vars
  BY <1>17, SameWifi DEF vars, link, frames, radio, LinkTypes, ConnectionInv
<1> QED BY <1>1, <1>2, <1>3, <1>4, <1>5, <1>6, <1>7, <1>8, <1>9, <1>10, <1>11, <1>12, <1>13,
           <1>14, <1>15, <1>16, <1>17 DEF Next, Loop

\* It holds in every behaviour; fairness is not needed.
LEMMA WifiInvHolds == FairSpec => []WifiInv
BY InitWifi, NextWifi, PTL DEF FairSpec

\* Every variable keeps its type, and the parser never keeps more of a frame than
\* its header declared: expected is at most kMaxFrameBytes, and a buffer that is
\* full is handed on at once (WifiDirectTcpEndpoint and LengthPrefixFrameParser).
THEOREM WifiTypeOK == FairSpec => []TypeOK
<1>1. WifiInv => TypeOK
  <2> SUFFICES ASSUME WifiInv PROVE TypeOK
    OBVIOUS
  <2>1. Reading(parser, Len(delivered) + 1) /\ LinkTypes
    BY DEF WifiInv, ParserInv
  <2>2. parser.expected \in 0..MaxFrameBytes /\ parser.error = FALSE
    BY <2>1 DEF Reading
  <2>3. Len(parser.buffer) < HeaderBytes + parser.expected
    BY <2>1, WifiAssumption DEF Reading
  <2> QED BY <2>1, <2>2, <2>3 DEF LinkTypes, TypeOK
<1> QED BY <1>1, WifiInvHolds, PTL

\* What pumpReceive hands on are the first frames the host sent on this connection,
\* each whole: for every size of the reads, wherever an earlier connection broke,
\* and whatever lengths the host declares.
THEOREM FramesInOrder == FairSpec => []FramesAsSent
<1>1. WifiInv => FramesAsSent
  <2> SUFFICES ASSUME WifiInv PROVE FramesAsSent
    OBVIOUS
  <2>1. InStep(delivered) /\ SentInv
    BY DEF WifiInv, ParserInv
  <2>2. /\ delivered \in Seq(Seq(Bytes)) /\ sent \in Seq(Seq(Bytes))
        /\ Len(delivered) <= Len(sent) /\ \A i \in 1..Len(delivered) : delivered[i] = sent[i]
    BY <2>1 DEF InStep, SentInv
  <2>3. delivered = SubSeq(sent, 1, Len(delivered))
    <3> DEFINE Frames == Seq(Bytes)
    <3>1. delivered \in Seq(Frames) /\ sent \in Seq(Frames)
      BY <2>2
    <3> HIDE DEF Frames
    <3> QED BY <2>2, <3>1
  <2> QED BY <2>2, <2>3 DEF FramesAsSent, IsPrefix
<1> QED BY <1>1, WifiInvHolds, PTL
=============================================================================
