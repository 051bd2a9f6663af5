------------------------ MODULE ControlSessionProofs ------------------------
(***************************************************************************)
(* Proofs about ControlSession: the cache of results implements the window *)
(* of ReplayWindow, and a matrix that reaches the device is what the host  *)
(* uploaded.                                                               *)
(***************************************************************************)
EXTENDS ControlSession, TLAPS

\* The entries are overwritten only when there are as many as there may be.
CacheInv == Len(cache) < Capacity => cursor = 0

\* What an upload has taken so far is what came, in order.
UploadInv ==
  upload.active =>
    /\ Len(accepted) = upload.nextOffset
    /\ \A i \in 1..upload.nextOffset : upload.bytes[i] = accepted[i]

SessionInv == TypeOK /\ CacheInv /\ UploadInv

Entries == [operationId : OperationIds, result : Answers]
Uploads == [active : BOOLEAN, bytes : Seq(Bytes \cup {NoByte}), nextOffset : Nat]
-----------------------------------------------------------------------------
(* The parts of TypeOK, by what a step can change together.                *)

CacheType ==
  /\ cache \in Seq(Entries) /\ Len(cache) <= Capacity /\ cursor \in 0..(Capacity - 1)
UploadType ==
  /\ upload \in Uploads /\ upload.nextOffset <= Len(upload.bytes)
  /\ accepted \in Seq(Bytes)
RunsType == executed \in [OperationIds -> 0..MaxRuns]

LEMMA Parts == TypeOK <=> CacheType /\ UploadType /\ RunsType
BY DEF TypeOK, CacheType, UploadType, RunsType, Entries, Uploads

LEMMA NextParts ==
  ASSUME CacheType', UploadType', RunsType', CacheInv', UploadInv'
  PROVE  SessionInv'
BY DEF SessionInv, TypeOK, CacheType, UploadType, RunsType, Entries, Uploads

\* A session without an upload.
LEMMA IdleUpload ==
  ASSUME upload' = NoUpload, accepted' \in Seq(Bytes)
  PROVE  UploadType' /\ UploadInv'
BY DEF NoUpload, Uploads, UploadType, UploadInv

LEMMA SameUpload ==
  ASSUME UploadType, UploadInv, UNCHANGED <<upload, accepted>>
  PROVE  UploadType' /\ UploadInv'
BY DEF UploadType, UploadInv

LEMMA SameResults ==
  ASSUME CacheType, CacheInv, RunsType, UNCHANGED results
  PROVE  CacheType' /\ CacheInv' /\ RunsType'
BY DEF CacheType, CacheInv, RunsType, results

\* A function on 1..n is a sequence of length n.
LEMMA FunctionIsSeq ==
  ASSUME NEW S, NEW n \in Nat, NEW f \in [1..n -> S]
  PROVE  f \in Seq(S) /\ Len(f) = n
OBVIOUS

LEMMA ChunkIsSequence ==
  ASSUME NEW data \in Chunks
  PROVE  data \in Seq(Bytes)
<1>1. PICK k \in 0..MaxBytes : data \in [1..k -> Bytes]
  BY DEF Chunks
<1>2. k \in Nat
  BY <1>1, SessionAssumption
<1> QED
  BY <1>1, <1>2

\* A chunk goes to the end of what has come.
LEMMA ChunkKeeps ==
  ASSUME UploadType, UploadInv, NEW offset \in 0..MaxBytes, NEW data \in Chunks,
         UploadChunk(offset, data)
  PROVE  UploadType' /\ UploadInv'
<1> DEFINE n == upload.nextOffset
           bytes == [i \in DOMAIN upload.bytes |->
                       IF i \in offset + 1..offset + Len(data) THEN data[i - offset]
                       ELSE upload.bytes[i]]
<1>1. data \in Seq(Bytes) /\ Len(data) \in Nat
  BY ChunkIsSequence
<1>2. /\ upload.active /\ offset = n /\ n + Len(data) <= Len(upload.bytes)
      /\ upload.bytes \in Seq(Bytes \cup {NoByte}) /\ Len(upload.bytes) \in Nat
      /\ n \in Nat /\ accepted \in Seq(Bytes) /\ Len(accepted) = n
      /\ \A i \in 1..n : upload.bytes[i] = accepted[i]
  BY DEF UploadChunk, InPlace, UploadType, UploadInv, Uploads
<1>3. upload' = [upload EXCEPT !.bytes = bytes, !.nextOffset = n + Len(data)]
      /\ accepted' = accepted \o data
  BY DEF UploadChunk
<1>4. DOMAIN upload.bytes = 1..Len(upload.bytes)
  BY <1>2
<1>5. bytes \in [1..Len(upload.bytes) -> Bytes \cup {NoByte}]
  <2>1. ASSUME NEW i \in 1..Len(upload.bytes) PROVE bytes[i] \in Bytes \cup {NoByte}
    <3>1. CASE i \in offset + 1..offset + Len(data)
      <4>1. i - offset \in 1..Len(data)
        BY <1>1, <1>2, <3>1
      <4> QED
        BY <1>1, <1>4, <3>1, <4>1
    <3>2. CASE i \notin offset + 1..offset + Len(data)
      BY <1>2, <1>4, <3>2
    <3> QED
      BY <3>1, <3>2
  <2> QED
    BY <1>4, <2>1
<1>6. accepted' \in Seq(Bytes) /\ Len(accepted') = n + Len(data)
  BY <1>1, <1>2, <1>3
<1>7. ASSUME NEW i \in 1..(n + Len(data)) PROVE bytes[i] = accepted'[i]
  <2>1. i \in 1..Len(upload.bytes) /\ i \in Nat
    BY <1>1, <1>2
  <2>2. CASE i <= n
    BY <1>1, <1>2, <1>3, <1>4, <2>1, <2>2
  <2>3. CASE i > n
    BY <1>1, <1>2, <1>3, <1>4, <2>1, <2>3
  <2> QED
    BY <1>1, <1>2, <2>2, <2>3
<1> HIDE DEF bytes
<1>8. bytes \in Seq(Bytes \cup {NoByte}) /\ Len(bytes) = Len(upload.bytes)
  <2>1. Len(upload.bytes) \in Nat
    BY <1>2
  <2> QED BY ONLY <1>5, <2>1, FunctionIsSeq
<1>9. upload' \in Uploads /\ upload'.bytes = bytes /\ upload'.nextOffset = n + Len(data)
  <2>1. upload \in Uploads /\ n + Len(data) \in Nat
    BY <1>1, <1>2 DEF UploadType
  <2> HIDE DEF n
  <2> QED
    BY <1>3, <1>8, <2>1 DEF Uploads
<1> QED
  BY <1>1, <1>2, <1>6, <1>7, <1>8, <1>9 DEF UploadType, UploadInv

\* A fresh upload has taken nothing.
LEMMA BeginKeeps ==
  ASSUME NEW n \in 1..MaxBytes, UploadBegin(n)
  PROVE  UploadType' /\ UploadInv'
<1> DEFINE blank == [i \in 1..n |-> NoByte]
<1>1. n \in Nat
  BY SessionAssumption
<1>2. blank \in Seq(Bytes \cup {NoByte}) /\ Len(blank) = n
  <2>1. blank \in [1..n -> Bytes \cup {NoByte}]
    OBVIOUS
  <2> HIDE DEF blank
  <2> QED
    BY <1>1, <2>1, FunctionIsSeq
<1>3. upload' = [active |-> TRUE, bytes |-> blank, nextOffset |-> 0] /\ accepted' = <<>>
  BY DEF UploadBegin
<1> HIDE DEF blank
<1> QED
  BY <1>1, <1>2, <1>3 DEF UploadType, UploadInv, Uploads

LEMMA EndKeeps ==
  ASSUME UploadType, UploadInv, NEW kind \in Kinds, NEW answer \in Answers, Dispatch(kind, answer)
  PROVE  UploadType' /\ UploadInv'
<1>1. accepted' = accepted /\ (upload' = upload \/ upload' = NoUpload)
  BY DEF Dispatch, UploadEnd, transfer
<1>2. CASE upload' = upload
  BY <1>1, <1>2, SameUpload
<1>3. CASE upload' = NoUpload
  BY <1>1, <1>3, IdleUpload DEF UploadType
<1> QED
  BY <1>1, <1>2, <1>3

\* A result that is kept, for one that was or for none.
LEMMA CacheKeeps ==
  ASSUME CacheType, CacheInv, NEW entry \in Entries, CacheResult(entry)
  PROVE  CacheType' /\ CacheInv'
<1>1. /\ cache \in Seq(Entries) /\ Len(cache) \in Nat /\ Len(cache) <= Capacity
      /\ cursor \in 0..(Capacity - 1) /\ Capacity \in Nat \ {0}
  BY SessionAssumption DEF CacheType
<1>2. CASE Len(cache) < Capacity
  <2>1. cache' = Append(cache, entry) /\ cursor' = cursor /\ cursor = 0
    BY <1>2 DEF CacheResult, CacheInv
  <2> QED
    BY <1>1, <1>2, <2>1 DEF CacheType, CacheInv
<1>3. CASE ~(Len(cache) < Capacity)
  <2>1. cache' = [cache EXCEPT ![cursor + 1] = entry] /\ cursor' = (cursor + 1) % Capacity
    BY <1>3 DEF CacheResult
  <2>2. cursor' \in 0..(Capacity - 1)
    BY <1>1, <2>1
  <2>3. cache' \in Seq(Entries) /\ Len(cache') = Len(cache)
    <3>1. cursor + 1 \in 1..Len(cache) /\ DOMAIN cache = 1..Len(cache)
      BY <1>1, <1>3
    <3>2. cache' \in [1..Len(cache) -> Entries]
      BY <1>1, <2>1, <3>1
    <3> QED
      BY <1>1, <3>2, FunctionIsSeq
  <2> QED
    BY <1>1, <1>3, <2>2, <2>3 DEF CacheType, CacheInv
<1> QED
  BY <1>2, <1>3

LEMMA HandleKeeps ==
  ASSUME SessionInv, NEW kind \in Kinds, NEW op \in OperationIds, NEW answer \in Answers,
         HandleNew(kind, op, answer)
  PROVE  SessionInv'
<1>1. CacheType /\ UploadType /\ RunsType /\ CacheInv /\ UploadInv
  BY Parts DEF SessionInv
<1>2. UploadType' /\ UploadInv'
  BY <1>1, EndKeeps DEF HandleNew
<1>3. CacheType' /\ CacheInv'
  <2>1. reply' = Entry(op, answer) /\ Entry(op, answer) \in Entries
    BY DEF HandleNew, Entry, Entries
  <2>2. CASE kind = "reboot"
    <3>1. cache' = <<>> /\ cursor' = 0
      BY <2>2 DEF HandleNew
    <3> QED
      BY <3>1, SessionAssumption DEF CacheType, CacheInv
  <2>3. CASE kind # "reboot"
    BY <1>1, <2>1, <2>3, CacheKeeps DEF HandleNew
  <2> QED
    BY <2>2, <2>3
<1>4. RunsType'
  <2>1. executed[op] \in 0..MaxRuns /\ executed[op] < MaxRuns /\ MaxRuns \in Nat
    BY <1>1, SessionAssumption DEF HandleNew, RunsType
  <2>2. executed[op] + 1 \in 0..MaxRuns
    BY <2>1
  <2>3. executed' = [executed EXCEPT ![op] = executed[op] + 1]
    BY DEF HandleNew
  <2> QED
    BY <1>1, <2>2, <2>3 DEF RunsType
<1> QED
  BY <1>2, <1>3, <1>4, NextParts

LEMMA InitSession == Init => SessionInv
<1> SUFFICES ASSUME Init PROVE SessionInv
  OBVIOUS
<1>1. CacheType /\ CacheInv /\ RunsType
  BY SessionAssumption DEF Init, CacheType, CacheInv, RunsType
<1>2. UploadType /\ UploadInv
  BY DEF Init, NoUpload, UploadType, UploadInv, Uploads
<1> QED
  BY <1>1, <1>2, Parts DEF SessionInv

LEMMA NextSession == SessionInv /\ [Next]_vars => SessionInv'
<1> SUFFICES ASSUME SessionInv, [Next]_vars PROVE SessionInv'
  OBVIOUS
<1>0. CacheType /\ UploadType /\ RunsType /\ CacheInv /\ UploadInv
  BY Parts DEF SessionInv
<1>1. ASSUME NEW n \in 1..MaxBytes, UploadBegin(n) PROVE SessionInv'
  BY <1>0, <1>1, BeginKeeps, SameResults, NextParts DEF UploadBegin
<1>2. ASSUME NEW offset \in 0..MaxBytes, NEW data \in Chunks, UploadChunk(offset, data)
      PROVE  SessionInv'
  <2>1. UploadType' /\ UploadInv'
    BY <1>0, <1>2, ChunkKeeps
  <2> QED
    BY <1>0, <1>2, <2>1, SameResults, NextParts DEF UploadChunk
<1>3. CASE UploadAbort
  BY <1>0, <1>3, IdleUpload, SameResults, NextParts DEF UploadAbort, UploadType
<1>4. ASSUME NEW kind \in Kinds, NEW op \in OperationIds, NEW a \in Answers, HandleNew(kind, op, a)
      PROVE  SessionInv'
  BY <1>4, HandleKeeps
<1>5. ASSUME NEW op \in OperationIds, HandleRepeated(op) PROVE SessionInv'
  <2>1. UNCHANGED <<cache, cursor, executed, upload, accepted>>
    BY <1>5 DEF HandleRepeated, transfer
  <2> QED
    BY <1>0, <2>1, SameUpload, NextParts DEF CacheType, CacheInv, RunsType
<1>6. CASE Restart
  <2>1. CacheType' /\ CacheInv' /\ RunsType'
    BY <1>0, <1>6, SessionAssumption DEF Restart, CacheType, CacheInv, RunsType
  <2> QED
    BY <1>0, <1>6, <2>1, IdleUpload, NextParts DEF Restart, UploadType
<1>7. CASE UNCHANGED vars
  BY <1>0, <1>7, SameUpload, SameResults, NextParts DEF vars, transfer
<1> QED
  BY <1>1, <1>2, <1>3, <1>4, <1>5, <1>6, <1>7 DEF Next

LEMMA SessionAlways == Spec => []SessionInv
BY InitSession, NextSession, PTL DEF Spec

\* A session's cache and its upload keep their bounds.
THEOREM SessionTypes == Spec => []TypeOK
BY SessionAlways, PTL DEF SessionInv

\* For every size of matrix and every order of chunks, aborts, restarts and
\* repetitions, a matrix that reaches the device is the chunks of one upload.
THEOREM UploadIsWhole == Spec => WholeUpload
<1>1. SessionInv /\ [Next]_vars => [matrix' # matrix => matrix' = accepted]_vars
  <2> SUFFICES ASSUME SessionInv, Next, matrix' # matrix PROVE matrix' = accepted
    OBVIOUS
  <2>1. PICK kind \in Kinds, op \in OperationIds, a \in Answers : HandleNew(kind, op, a)
    BY DEF Next, UploadBegin, UploadChunk, UploadAbort, HandleRepeated, transfer, Restart
  <2>2. upload.active /\ upload.nextOffset = Len(upload.bytes) /\ matrix' = upload.bytes
    BY <2>1 DEF HandleNew, Dispatch, UploadEnd, transfer
  <2>3. /\ upload.bytes \in Seq(Bytes \cup {NoByte}) /\ accepted \in Seq(Bytes)
        /\ Len(accepted) = Len(upload.bytes)
        /\ \A i \in 1..Len(upload.bytes) : upload.bytes[i] = accepted[i]
    BY <2>2, Parts DEF SessionInv, UploadType, Uploads, UploadInv
  <2>4. upload.bytes = accepted
    BY <2>3
  <2> QED
    BY <2>2, <2>4
<1> QED
  BY <1>1, SessionAlways, PTL DEF Spec, WholeUpload

-----------------------------------------------------------------------------
(* The cache as a window.                                                  *)

\* The slot of the i-th entry of n, the first of which is at c.
SlotOf(c, n, i) == ((c + i - 1) % n) + 1

\* The same without the modulus.
LEMMA SlotArithmetic ==
  ASSUME NEW n \in Nat \ {0}, NEW c \in 0..(n - 1), NEW i \in 1..n
  PROVE  /\ SlotOf(c, n, i) = IF c + i <= n THEN c + i ELSE c + i - n
         /\ SlotOf(c, n, i) \in 1..n
<1>1. CASE c + i <= n
  <2>1. c + i - 1 \in 0..(n - 1)
    BY <1>1
  <2>2. (c + i - 1) % n = c + i - 1
    BY <2>1
  <2> QED
    BY <1>1, <2>2 DEF SlotOf
<1>2. CASE ~(c + i <= n)
  <2>1. c + i - 1 \in n..(2 * n - 1)
    BY <1>2
  <2>2. (c + i - 1) % n = c + i - 1 - n
    BY <2>1
  <2> QED
    BY <1>2, <2>2 DEF SlotOf
<1> QED
  BY <1>1, <1>2

LEMMA WindowType ==
  ASSUME CacheType, CacheInv
  PROVE  /\ InOrder = [i \in 1..Len(cache) |-> cache[SlotOf(cursor, Len(cache), i)]]
         /\ Len(cache) \in Nat
         /\ Len(cache) # 0 => cursor \in 0..(Len(cache) - 1)
         /\ InOrder \in Seq(Entries) /\ Len(InOrder) = Len(cache)
<1>1. InOrder = [i \in 1..Len(cache) |-> cache[SlotOf(cursor, Len(cache), i)]]
  BY DEF InOrder, SlotOf
<1>2. /\ cache \in Seq(Entries) /\ Len(cache) \in Nat
      /\ Len(cache) # 0 => cursor \in 0..(Len(cache) - 1)
  BY SessionAssumption DEF CacheType, CacheInv
<1>3. ASSUME NEW i \in 1..Len(cache) PROVE SlotOf(cursor, Len(cache), i) \in 1..Len(cache)
  <2>1. Len(cache) \in Nat \ {0} /\ cursor \in 0..(Len(cache) - 1)
    BY <1>2, <1>3
  <2> QED
    BY <2>1, SlotArithmetic
<1>4. InOrder \in [1..Len(cache) -> Entries]
  BY <1>1, <1>2, <1>3
<1> QED
  BY <1>1, <1>2, <1>4, FunctionIsSeq

\* A command is in the window exactly when its result is in the cache.
LEMMA WindowHolds ==
  ASSUME CacheType, CacheInv
  PROVE  /\ \A i \in DOMAIN InOrder : \E j \in DOMAIN cache : InOrder[i] = cache[j]
         /\ \A j \in DOMAIN cache : \E i \in DOMAIN InOrder : InOrder[i] = cache[j]
<1> DEFINE n == Len(cache)
<1>1. /\ InOrder = [i \in 1..n |-> cache[SlotOf(cursor, n, i)]] /\ n \in Nat
      /\ n # 0 => cursor \in 0..(n - 1)
      /\ DOMAIN InOrder = 1..n /\ DOMAIN cache = 1..n
  BY WindowType DEF CacheType
<1> HIDE DEF n
<1>2. ASSUME NEW i \in DOMAIN InOrder PROVE \E j \in DOMAIN cache : InOrder[i] = cache[j]
  <2>1. n \in Nat \ {0} /\ cursor \in 0..(n - 1)
    <3>1. i \in 1..n
      BY <1>1, <1>2
    <3> QED
      BY <1>1, <3>1
  <2>2. SlotOf(cursor, n, i) \in 1..n
    <3>1. i \in 1..n
      BY <1>1, <1>2
    <3> QED
      BY <2>1, <3>1, SlotArithmetic
  <2> QED
    BY <1>1, <2>2
<1>3. ASSUME NEW j \in DOMAIN cache PROVE \E i \in DOMAIN InOrder : InOrder[i] = cache[j]
  <2> DEFINE i == IF j > cursor THEN j - cursor ELSE j - cursor + n
  <2>1. n \in Nat \ {0} /\ cursor \in 0..(n - 1)
    BY <1>1, <1>3
  <2>2. i \in 1..n
    BY <1>1, <1>3, <2>1
  <2>3. SlotOf(cursor, n, i) = IF cursor + i <= n THEN cursor + i ELSE cursor + i - n
    BY <2>1, <2>2, SlotArithmetic
  <2>4. SlotOf(cursor, n, i) = j
    BY <1>1, <1>3, <2>1, <2>3
  <2> HIDE DEF i
  <2> QED
    BY <1>1, <2>2, <2>4
<1> QED
  BY <1>1, <1>2, <1>3

\* An entry that is kept joins the window at its end; from a full window the
\* oldest goes.
LEMMA CacheShifts ==
  ASSUME CacheType, CacheInv, NEW entry \in Entries, CacheResult(entry)
  PROVE  InOrder' = IF Len(InOrder) < Capacity
                    THEN Append(InOrder, entry) ELSE Append(Tail(InOrder), entry)
<1> DEFINE n == Len(cache)
<1>1. /\ InOrder = [i \in 1..n |-> cache[SlotOf(cursor, n, i)]] /\ n \in Nat
      /\ InOrder \in Seq(Entries) /\ Len(InOrder) = n
      /\ cache \in Seq(Entries) /\ n <= Capacity /\ Capacity \in Nat \ {0}
      /\ cursor \in 0..(Capacity - 1)
  BY WindowType, SessionAssumption DEF CacheType
<1>2. InOrder' = [i \in 1..Len(cache') |-> cache'[SlotOf(cursor', Len(cache'), i)]]
  BY DEF InOrder, SlotOf
<1>3. CASE n < Capacity
  <2>1. cache' = Append(cache, entry) /\ cursor' = 0 /\ cursor = 0
    BY <1>3 DEF CacheResult, CacheInv
  <2>2. Len(cache') = n + 1
    BY <1>1, <2>1
  <2>3. InOrder' = [i \in 1..(n + 1) |-> cache'[SlotOf(0, n + 1, i)]]
    BY <1>2, <2>1, <2>2
  <2>4. ASSUME NEW i \in 1..(n + 1) PROVE SlotOf(0, n + 1, i) = i
    <3> HIDE DEF n
    <3>1. n + 1 \in Nat \ {0} /\ 0 \in 0..((n + 1) - 1)
      BY <1>1
    <3>2. SlotOf(0, n + 1, i) = IF 0 + i <= n + 1 THEN 0 + i ELSE 0 + i - (n + 1)
      BY <3>1, SlotArithmetic
    <3> QED
      BY <1>1, <3>2
  <2>5. ASSUME NEW i \in 1..n PROVE SlotOf(0, n, i) = i
    <3> HIDE DEF n
    <3>1. n \in Nat \ {0} /\ 0 \in 0..(n - 1)
      BY <1>1
    <3>2. SlotOf(0, n, i) = IF 0 + i <= n THEN 0 + i ELSE 0 + i - n
      BY <3>1, SlotArithmetic
    <3> QED
      BY <1>1, <3>2
  <2>6. InOrder' = cache'
    <3>1. InOrder' = [i \in 1..(n + 1) |-> cache'[i]]
      BY <2>3, <2>4
    <3>2. cache' \in Seq(Entries)
      BY <1>1, <2>1
    <3> QED
      BY <2>2, <3>1, <3>2
  <2>7. InOrder = cache
    <3>1. InOrder = [i \in 1..n |-> cache[i]]
      BY <1>1, <2>1, <2>5
    <3> QED
      BY <1>1, <3>1
  <2> QED
    BY <1>1, <1>3, <2>1, <2>6, <2>7
<1>4. CASE n = Capacity
  <2>1. cache' = [cache EXCEPT ![cursor + 1] = entry] /\ cursor' = (cursor + 1) % n
    BY <1>4 DEF CacheResult
  <2>2. cursor + 1 \in 1..n /\ DOMAIN cache = 1..n
    BY <1>1, <1>4
  <2>3. cache' \in [1..n -> Entries] /\ Len(cache') = n
    <3>1. cache' \in [1..n -> Entries]
      BY <1>1, <2>1, <2>2
    <3> QED
      BY <1>1, <3>1, FunctionIsSeq
  <2>4. cursor' = (IF cursor + 1 < n THEN cursor + 1 ELSE 0)
    <3> HIDE DEF n
    <3>1. CASE cursor + 1 < n
      BY <1>1, <2>1, <2>2, <3>1
    <3>2. CASE cursor + 1 = n
      BY <1>1, <2>1, <2>2, <3>2
    <3> QED
      BY <1>1, <2>2, <3>1, <3>2
  <2>5. InOrder' = [i \in 1..n |-> cache'[SlotOf(cursor', n, i)]]
    BY <1>2, <2>3
  <2> HIDE DEF n
  <2>6. n \in Nat \ {0} /\ cursor \in 0..(n - 1) /\ cursor' \in 0..(n - 1)
    BY <1>1, <1>4, <2>4
  <2>7. ASSUME NEW i \in 1..(n - 1)
        PROVE  InOrder'[i] = InOrder[i + 1]
    <3>1. i \in 1..n /\ i + 1 \in 1..n
      BY <2>6
    <3>2. SlotOf(cursor', n, i) = IF cursor' + i <= n THEN cursor' + i ELSE cursor' + i - n
      BY <2>6, <3>1, SlotArithmetic
    <3>3. /\ SlotOf(cursor, n, i + 1) =
               IF cursor + (i + 1) <= n THEN cursor + (i + 1) ELSE cursor + (i + 1) - n
          /\ SlotOf(cursor, n, i + 1) \in 1..n
      BY <2>6, <3>1, SlotArithmetic
    <3>4. SlotOf(cursor', n, i) = SlotOf(cursor, n, i + 1) /\ SlotOf(cursor, n, i + 1) # cursor + 1
      BY <2>4, <2>6, <3>2, <3>3
    <3>5. cache'[SlotOf(cursor, n, i + 1)] = cache[SlotOf(cursor, n, i + 1)]
      BY <2>1, <2>2, <3>3, <3>4
    <3> QED
      BY <1>1, <2>5, <3>1, <3>4, <3>5
  <2>8. InOrder'[n] = entry
    <3>1. n \in 1..n
      BY <2>6
    <3>2. SlotOf(cursor', n, n) = IF cursor' + n <= n THEN cursor' + n ELSE cursor' + n - n
      BY <2>6, <3>1, SlotArithmetic
    <3>3. SlotOf(cursor', n, n) = cursor + 1
      BY <2>4, <2>6, <3>2
    <3> QED
      BY <2>1, <2>2, <2>5, <3>1, <3>3
  <2>9. InOrder' = [i \in 1..n |-> IF i = n THEN entry ELSE InOrder[i + 1]]
    <3>1. ASSUME NEW i \in 1..n
          PROVE  cache'[SlotOf(cursor', n, i)] = IF i = n THEN entry ELSE InOrder[i + 1]
      <4>1. cache'[SlotOf(cursor', n, i)] = InOrder'[i]
        BY <2>5
      <4>2. CASE i = n
        BY <2>8, <4>1, <4>2
      <4>3. CASE i # n
        <5>1. i \in 1..(n - 1)
          BY <2>6, <4>3
        <5> QED
          BY <2>7, <4>1, <4>3, <5>1
      <4> QED
        BY <4>2, <4>3
    <3> QED
      BY <2>5, <3>1
  <2>10. Append(Tail(InOrder), entry) = [i \in 1..n |-> IF i = n THEN entry ELSE InOrder[i + 1]]
    <3>1. InOrder \in Seq(Entries) /\ Len(InOrder) = n /\ n \in Nat /\ n > 0
      BY <1>1, <2>6
    <3>2. Tail(InOrder) \in Seq(Entries) /\ Len(Tail(InOrder)) = n - 1
          /\ \A i \in 1..(n - 1) : Tail(InOrder)[i] = InOrder[i + 1]
      BY <3>1
    <3>3. /\ Append(Tail(InOrder), entry) \in Seq(Entries)
          /\ Len(Append(Tail(InOrder), entry)) = n
          /\ \A i \in 1..(n - 1) : Append(Tail(InOrder), entry)[i] = Tail(InOrder)[i]
          /\ Append(Tail(InOrder), entry)[n] = entry
      BY <3>1, <3>2
    <3>4. ASSUME NEW i \in 1..n
          PROVE  Append(Tail(InOrder), entry)[i] = IF i = n THEN entry ELSE InOrder[i + 1]
      <4>1. CASE i = n
        BY <3>3, <4>1
      <4>2. CASE i # n
        <5>1. i \in 1..(n - 1)
          BY <3>1, <4>2
        <5> QED
          BY <3>2, <3>3, <4>2, <5>1
      <4> QED
        BY <4>1, <4>2
    <3> DEFINE q == Append(Tail(InOrder), entry)
    <3>5. q \in Seq(Entries) /\ Len(q) = n
      BY <3>3
    <3>6. \A i \in 1..n : q[i] = IF i = n THEN entry ELSE InOrder[i + 1]
      BY <3>4
    <3> HIDE DEF q
    <3>7. q = [i \in 1..n |-> q[i]]
      BY <3>5
    <3>8. q = [i \in 1..n |-> IF i = n THEN entry ELSE InOrder[i + 1]]
      BY <3>6, <3>7
    <3> QED
      BY <3>8 DEF q
  <2>11. InOrder' = Append(Tail(InOrder), entry)
    BY <2>9, <2>10
  <2>12. ~(Len(InOrder) < Capacity)
    BY <1>1, <1>4
  <2> QED
    BY <2>11, <2>12
<1>5. n < Capacity \/ n = Capacity
  <2>1. n \in Nat /\ Capacity \in Nat /\ n <= Capacity
    BY <1>1
  <2> HIDE DEF n
  <2> QED
    BY <2>1
<1> QED
  BY <1>3, <1>4, <1>5

\* For every capacity of the cache and every sequence of commands, answers,
\* repetitions and restarts: a command that is repeated before Capacity others
\* have run does not run again, and gets its first answer.
THEOREM CacheIsWindow == Spec => RunsOnce
<1>1. Init => Window!Init
  <2> SUFFICES ASSUME Init PROVE Window!Init
    OBVIOUS
  <2>1. CacheType /\ CacheInv /\ Len(cache) = 0
    BY InitSession, Parts DEF SessionInv, Init
  <2>2. InOrder = <<>>
    BY <2>1, WindowType
  <2> QED
    BY <2>2 DEF Init, Window!Init
<1>2. SessionInv /\ [Next]_vars => [Window!Next]_<<InOrder, executed, reply>>
  <2> SUFFICES ASSUME SessionInv, [Next]_vars PROVE [Window!Next]_<<InOrder, executed, reply>>
    OBVIOUS
  <2>0. CacheType /\ CacheInv /\ CacheType' /\ CacheInv'
    BY NextSession, Parts DEF SessionInv, TypeOK, CacheType, Entries
  <2>1. ASSUME UNCHANGED results PROVE UNCHANGED <<InOrder, executed, reply>>
    BY <2>1 DEF results, InOrder
  <2>2. ASSUME cache' = <<>> PROVE InOrder' = <<>>
    BY <2>2 DEF InOrder
  <2>3. ASSUME NEW kind \in Kinds, NEW op \in OperationIds, NEW a \in Answers, HandleNew(kind, op, a)
        PROVE  Window!Next
    <3>1. ~Window!Ran(op)
      <4>1. ~\E j \in DOMAIN cache : cache[j].operationId = op
        BY <2>3 DEF HandleNew, Cached
      <4> QED
        BY <2>0, <4>1, WindowHolds DEF Window!Ran
    <3>2. /\ reply' = Entry(op, a) /\ Entry(op, a) = Window!Entry(op, a) /\ Entry(op, a) \in Entries
          /\ executed' = [executed EXCEPT ![op] = @ + 1]
      BY <2>3 DEF HandleNew, Entry, Window!Entry, Entries
    <3>3. CASE kind = "reboot"
      <4>1. InOrder' = <<>>
        BY <2>2, <2>3, <3>3 DEF HandleNew
      <4>2. Window!First(op, a, TRUE)
        BY <3>1, <3>2, <4>1 DEF Window!First
      <4> QED
        BY <4>2 DEF Window!Next
    <3>4. CASE kind # "reboot"
      <4>1. CacheResult(Entry(op, a))
        BY <2>3, <3>2, <3>4 DEF HandleNew
      <4>2. InOrder' = Window!Latest(Entry(op, a))
        BY <2>0, <3>2, <4>1, CacheShifts DEF Window!Latest
      <4>3. Window!First(op, a, FALSE)
        BY <3>1, <3>2, <4>2 DEF Window!First
      <4> QED
        BY <4>3 DEF Window!Next
    <3> QED
      BY <3>3, <3>4
  <2>4. ASSUME NEW op \in OperationIds, HandleRepeated(op) PROVE Window!Next
    <3>1. /\ \E i \in DOMAIN cache : cache[i].operationId = op /\ reply' = cache[i]
          /\ UNCHANGED <<cache, cursor, executed>>
      BY <2>4 DEF HandleRepeated
    <3>2. InOrder' = InOrder
      BY <3>1 DEF InOrder
    <3>3. \E i \in DOMAIN InOrder : InOrder[i].operationId = op /\ reply' = InOrder[i]
      BY <2>0, <3>1, WindowHolds
    <3> QED
      BY <3>1, <3>2, <3>3 DEF Window!Repeat, Window!Next
  <2>5. CASE Restart
    BY <2>2, <2>5 DEF Restart, Window!Restart, Window!Next
  <2>6. ASSUME UNCHANGED results PROVE [Window!Next]_<<InOrder, executed, reply>>
    BY <2>1, <2>6
  <2> QED
    BY <2>3, <2>4, <2>5, <2>6
       DEF Next, UploadBegin, UploadChunk, UploadAbort, vars
<1> QED
  BY <1>1, <1>2, SessionAlways, PTL DEF Spec, RunsOnce, Window!Spec
=============================================================================
