--------------------------- MODULE ControlSession ---------------------------
(***************************************************************************)
(* One session of ControlProtocolEngine: the results it keeps for the      *)
(* commands whose repetition must not run twice (save, delete, upload_end, *)
(* reboot), and the upload in progress.  The host may send anything at any *)
(* time; an operation id that comes again is a repetition to the engine.   *)
(* Whether a command of the device succeeds is the device's choice.        *)
(***************************************************************************)
EXTENDS Naturals, Sequences

CONSTANTS
  OperationIds,
  Capacity,       \* kCacheCapacity
  MaxBytes,       \* the most a matrix may have, packed
  Bytes,          \* of a chunk; a fresh upload is filled with NoByte
  NoByte,
  NoMatrix,
  MaxRuns         \* bound: how often a command runs under one id

Answers == {"ok", "error"}

ASSUME SessionAssumption ==
  /\ Capacity \in Nat \ {0} /\ MaxBytes \in Nat /\ MaxRuns \in Nat
  /\ NoMatrix \notin Seq(Bytes \cup {NoByte})

VARIABLES
  cache,     \* cache_
  cursor,    \* cacheCursor_
  upload,    \* TransferState: active, bytes, nextOffset
  matrix,    \* the last one handed to setUploadedMatrix
  accepted,  \* auxiliary: the bytes of the chunks accepted since upload_begin
  executed,  \* auxiliary: how often a command ran under each id
  reply      \* what was answered last to a command whose result is kept

transfer == <<upload, matrix, accepted>>
results  == <<cache, cursor, executed, reply>>
vars     == <<results, transfer>>
-----------------------------------------------------------------------------
(* ControlSession.                                                         *)

Entry(op, answer) == [operationId |-> op, result |-> answer]

Cached(op) == \E i \in DOMAIN cache : cache[i].operationId = op

\* In the mutant the cursor does not go round.
CacheResultUnwrapped(entry) ==
  IF Len(cache) < Capacity
  THEN cache' = Append(cache, entry) /\ UNCHANGED cursor
  ELSE cache' = [cache EXCEPT ![cursor + 1] = entry] /\ cursor' = cursor + 1

\* In the mutant the first entry is the one to go, always.
CacheResultInFirstSlot(entry) ==
  IF Len(cache) < Capacity
  THEN cache' = Append(cache, entry) /\ UNCHANGED cursor
  ELSE cache' = [cache EXCEPT ![1] = entry] /\ UNCHANGED cursor

\* Room is used up in order of arrival; then the cursor goes round.
CacheResult(entry) ==
  IF Len(cache) < Capacity
  THEN cache' = Append(cache, entry) /\ UNCHANGED cursor
  ELSE /\ cache' = [cache EXCEPT ![cursor + 1] = entry]
       /\ cursor' = (cursor + 1) % Capacity

(* TransferState.                                                          *)

NoUpload == [active |-> FALSE, bytes |-> <<>>, nextOffset |-> 0]

UploadBegin(n) ==
  /\ ~upload.active
  /\ upload' = [active |-> TRUE, bytes |-> [i \in 1..n |-> NoByte], nextOffset |-> 0]
  /\ accepted' = <<>>
  /\ UNCHANGED <<results, matrix>>

\* In the mutant a chunk may leave a gap.
InPlaceOrLater(offset, data) ==
  upload.active /\ offset >= upload.nextOffset /\ offset + Len(data) <= Len(upload.bytes)
InPlace(offset, data) ==
  upload.active /\ offset = upload.nextOffset /\ offset + Len(data) <= Len(upload.bytes)

UploadChunk(offset, data) ==
  /\ InPlace(offset, data)
  /\ upload' = [upload EXCEPT
                  !.bytes = [i \in DOMAIN @ |->
                               IF i \in offset + 1..offset + Len(data) THEN data[i - offset] ELSE @[i]],
                  !.nextOffset = @ + Len(data)]
  /\ accepted' = accepted \o data
  /\ UNCHANGED <<results, matrix>>

UploadAbort == upload' = NoUpload /\ UNCHANGED <<results, matrix, accepted>>

\* A checksum that does not match leaves the upload as it is; a symbol that
\* cannot be displayed ends it all the same.
UploadEnd(answer) ==
  \/ /\ answer = "error" /\ UNCHANGED transfer
  \/ /\ upload.active /\ upload.nextOffset = Len(upload.bytes)
     /\ matrix' = upload.bytes
     /\ upload' = NoUpload
     /\ UNCHANGED accepted
-----------------------------------------------------------------------------
(* handle, for the commands whose result is kept.                          *)

Kinds == {"upload_end", "reboot", "save_or_delete"}

Dispatch(kind, answer) ==
  IF kind = "upload_end" THEN UploadEnd(answer)
  ELSE UNCHANGED <<matrix, accepted>> /\ upload' = IF kind = "reboot" THEN NoUpload ELSE upload

\* A command that is new runs, and its result is kept; reboot is answered with
\* success and takes memory with it.
HandleNew(kind, op, answer) ==
  /\ ~Cached(op) /\ executed[op] < MaxRuns
  /\ kind = "reboot" => answer = "ok"
  /\ Dispatch(kind, answer)
  /\ executed' = [executed EXCEPT ![op] = @ + 1]
  /\ reply' = Entry(op, answer)
  /\ IF kind = "reboot" THEN cache' = <<>> /\ cursor' = 0 ELSE CacheResult(reply')

HandleRepeated(op) ==
  /\ \E i \in DOMAIN cache : cache[i].operationId = op /\ reply' = cache[i]
  /\ UNCHANGED <<cache, cursor, executed, transfer>>

Restart ==
  /\ cache' = <<>> /\ cursor' = 0 /\ upload' = NoUpload
  /\ UNCHANGED <<executed, reply, matrix, accepted>>
-----------------------------------------------------------------------------
Init ==
  /\ cache = <<>> /\ cursor = 0
  /\ upload = NoUpload /\ matrix = NoMatrix /\ accepted = <<>>
  /\ executed = [op \in OperationIds |-> 0] /\ reply = <<>>

Chunks == UNION {[1..k -> Bytes] : k \in 0..MaxBytes}

Next ==
  \/ \E n \in 1..MaxBytes : UploadBegin(n)
  \/ \E offset \in 0..MaxBytes, data \in Chunks : UploadChunk(offset, data)
  \/ UploadAbort
  \/ \E kind \in Kinds, op \in OperationIds, a \in Answers : HandleNew(kind, op, a)
  \/ \E op \in OperationIds : HandleRepeated(op)
  \/ Restart

Spec == Init /\ [][Next]_vars
-----------------------------------------------------------------------------
TypeOK ==
  /\ cache \in Seq([operationId : OperationIds, result : Answers])
  /\ Len(cache) <= Capacity /\ cursor \in 0..(Capacity - 1)
  /\ upload \in [active : BOOLEAN, bytes : Seq(Bytes \cup {NoByte}), nextOffset : Nat]
  /\ upload.nextOffset <= Len(upload.bytes)
  /\ accepted \in Seq(Bytes)
  /\ executed \in [OperationIds -> 0..MaxRuns]

\* A matrix reaches the device only when every byte it declared has come, in
\* order and since the upload began: no gap, no rest of an earlier upload.
WholeUpload == [][matrix' # matrix => matrix' = accepted]_vars

\* The entries from the oldest to the newest.
InOrder ==
  [i \in 1..Len(cache) |-> cache[((cursor + i - 1) % Len(cache)) + 1]]

\* A command that is repeated before Capacity others have run is not run
\* again, and gets its first answer.
Window == INSTANCE ReplayWindow WITH window <- InOrder
RunsOnce == Window!Spec
=============================================================================
