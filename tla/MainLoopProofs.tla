---------------------------- MODULE MainLoopProofs ----------------------------
(***************************************************************************)
(* Proofs about MainLoop: the Secure Pairing switch, the trust list on     *)
(* flash, the types and bounds of the variables, and that each message on  *)
(* the serial port is handled once.  The fairness of the loop is not       *)
(* needed.                                                                 *)
(***************************************************************************)
EXTENDS MainLoop, SequenceTheorems, TLAPS

SwitchInv ==
  /\ ready \in BOOLEAN /\ nvs \in BOOLEAN /\ secure \in BOOLEAN /\ shown \in BOOLEAN
  /\ toggle \in BOOLEAN \cup {NoRequest}
  /\ SecureShownIsEnforced

FileInv ==
  /\ ready \in BOOLEAN
  /\ records \in Seq(Peers) /\ file \in Seq(Peers) \cup {Unreadable}
  /\ TrustOnFlash

LoopInv == SwitchInv /\ FileInv
-----------------------------------------------------------------------------
(* The list in memory.                                                     *)

LEMMA SwapRemovedIs ==
  ASSUME NEW p, records \in Seq(Peers), Contains(records, p)
  PROVE  /\ SwapRemoved(p) \in Seq(Peers)
         /\ Append(SwapRemoved(p), p) \in Seq(Peers)
         /\ ToSet(Append(SwapRemoved(p), p)) = ToSet(records)
<1> DEFINE n == Len(records)
           i == CHOOSE j \in DOMAIN records : records[j] = p
           moved == [records EXCEPT ![i] = Last(records)]
           left == SwapRemoved(p)
<1>1. i \in 1..n /\ records[i] = p /\ n \in Nat /\ n >= 1
  <2>1. \E j \in DOMAIN records : records[j] = p BY DEF Contains
  <2> QED BY <2>1
<1>2. Last(records) = records[n] /\ records[n] \in Peers /\ p \in Peers
  BY <1>1 DEF Last
<1>3. moved \in Seq(Peers) /\ Len(moved) = n
  BY <1>1, <1>2
<1>4. \A j \in 1..n : moved[j] = IF j = i THEN records[n] ELSE records[j]
  BY <1>1, <1>2
<1>5. left = SubSeq(moved, 1, n - 1)
  BY <1>3 DEF SwapRemoved, Front
<1> HIDE DEF i, moved, left
<1>6. /\ left \in Seq(Peers) /\ Len(left) = n - 1
      /\ \A j \in 1..(n - 1) : left[j] = moved[j]
  BY <1>1, <1>3, <1>5
<1>7. /\ Append(left, p) \in Seq(Peers) /\ Len(Append(left, p)) = n
      /\ \A j \in 1..(n - 1) : Append(left, p)[j] = moved[j]
      /\ Append(left, p)[n] = p
  BY <1>1, <1>2, <1>6
<1> DEFINE restored == Append(left, p)
<1>8. restored \in Seq(Peers) /\ DOMAIN restored = 1..n /\ DOMAIN records = 1..n
  BY <1>7
<1>9. \A j \in 1..n : restored[j] = IF j = n THEN p ELSE IF j = i THEN records[n] ELSE records[j]
  BY <1>1, <1>4, <1>7
<1> HIDE DEF restored, n
<1>10. \A j \in 1..n : \E k \in 1..n : restored[j] = records[k]
  BY <1>1, <1>9
<1>11. \A j \in 1..n : \E k \in 1..n : records[j] = restored[k]
  <2> SUFFICES ASSUME NEW j \in 1..n PROVE \E k \in 1..n : records[j] = restored[k]
    OBVIOUS
  <2>1. CASE j = i BY <1>1, <1>9, <2>1
  <2>2. CASE j # i /\ j = n BY <1>1, <1>9, <2>2
  <2>3. CASE j # i /\ j # n BY <1>1, <1>9, <2>3
  <2> QED BY <2>1, <2>2, <2>3
<1>12. ToSet(restored) = ToSet(records)
  <2>1. \A x : x \in ToSet(restored) <=> \E j \in 1..n : restored[j] = x
    BY <1>8 DEF ToSet
  <2>2. \A x : x \in ToSet(records) <=> \E j \in 1..n : records[j] = x
    BY <1>8 DEF ToSet
  <2>3. \A x : x \in ToSet(restored) <=> x \in ToSet(records)
    BY <2>1, <2>2, <1>10, <1>11, Zenon
  <2> QED BY <2>3
<1> QED BY <1>6, <1>7, <1>12 DEF left, restored

\* A write of new, with what its caller puts back when it fails.
LEMMA SaveKeepsFile ==
  ASSUME FileInv, UNCHANGED ready, NEW new \in Seq(Peers), NEW undone \in Seq(Peers),
         ToSet(undone) = ToSet(records), Save(new, undone)
  PROVE  FileInv'
BY DEF FileInv, TrustOnFlash, Save

LEMMA FileKept == ASSUME FileInv, UNCHANGED <<ready, records, file>> PROVE FileInv'
BY DEF FileInv, TrustOnFlash

LEMMA SwitchKept ==
  ASSUME SwitchInv, UNCHANGED <<ready, nvs, secure, shown, toggle>> PROVE SwitchInv'
BY DEF SwitchInv, SecureShownIsEnforced

LEMMA ForgetRecordKeeps ==
  ASSUME FileInv, UNCHANGED ready, NEW p, ForgetRecord(p) PROVE FileInv'
<1>1. CASE ~Contains(records, p) BY <1>1, FileKept DEF ForgetRecord
<1>2. CASE Contains(records, p)
  <2>1. /\ SwapRemoved(p) \in Seq(Peers) /\ Append(SwapRemoved(p), p) \in Seq(Peers)
        /\ ToSet(Append(SwapRemoved(p), p)) = ToSet(records)
    BY <1>2, SwapRemovedIs DEF FileInv
  <2>2. Save(SwapRemoved(p), Append(SwapRemoved(p), p)) BY <1>2 DEF ForgetRecord
  <2> QED BY <2>1, <2>2, SaveKeepsFile
<1> QED BY <1>1, <1>2

LEMMA AddRecordKeeps ==
  ASSUME FileInv, UNCHANGED ready, NEW p \in Peers, AddRecord(p) PROVE FileInv'
<1>1. CASE UNCHANGED <<records, file>> BY <1>1, FileKept
<1>2. CASE Save(Append(records, p), records)
  <2>1. records \in Seq(Peers) /\ Append(records, p) \in Seq(Peers) BY DEF FileInv
  <2> QED BY <1>2, <2>1, SaveKeepsFile
<1> QED BY <1>1, <1>2 DEF AddRecord
-----------------------------------------------------------------------------
(* The steps.                                                              *)

LEMMA InitHolds == Init => LoopInv
<1> SUFFICES ASSUME Init PROVE LoopInv OBVIOUS
<1>1. SwitchInv BY DEF Init, SwitchInv, SecureShownIsEnforced
<1>2. FileInv
  <2>1. records = <<>> /\ file = Unreadable /\ ready \in BOOLEAN BY DEF Init
  <2> QED BY <2>1 DEF FileInv, TrustOnFlash
<1> QED BY <1>1, <1>2 DEF LoopInv

\* A store that has just begun.
LEMMA LoadStep ==
  ASSUME LoopInv, Load, UNCHANGED <<nvs, file>>, toggle' = toggle \/ toggle' = NoRequest
  PROVE  LoopInv'
<1>1. PICK ok \in BOOLEAN :
        /\ ready' = ok /\ secure' = (ok /\ nvs) /\ shown' = secure'
        /\ records' = IF ok THEN Loaded ELSE <<>>
  BY DEF Load
<1>2. SwitchInv'
  <2>1. secure' \in BOOLEAN BY <1>1 DEF LoopInv, SwitchInv
  <2>2. ready' \in BOOLEAN /\ shown' \in BOOLEAN /\ nvs' \in BOOLEAN BY <1>1, <2>1 DEF LoopInv, SwitchInv
  <2>3. toggle' \in BOOLEAN \cup {NoRequest} BY DEF LoopInv, SwitchInv
  <2>4. SecureShownIsEnforced' BY <1>1 DEF SecureShownIsEnforced
  <2> QED BY <2>1, <2>2, <2>3, <2>4 DEF SwitchInv
<1>3. FileInv'
  <2>1. file' = file /\ file \in Seq(Peers) \cup {Unreadable} BY DEF LoopInv, FileInv
  <2>2. <<>> \in Seq(Peers) OBVIOUS
  <2>3. records' \in Seq(Peers) BY <1>1, <2>1, <2>2 DEF Loaded
  <2>4. TrustOnFlash' BY <1>1, <2>1 DEF TrustOnFlash, Loaded
  <2> QED BY <1>1, <2>1, <2>3, <2>4 DEF FileInv
<1> QED BY <1>2, <1>3 DEF LoopInv

LEMMA SerialDoneStep == ASSUME LoopInv, SerialDone PROVE LoopInv'
<1>1. CASE active = "Legacy" /\ WantsGateway
  <2>1. EnterGateway BY <1>1 DEF SerialDone
  <2> QED BY <2>1, LoadStep DEF EnterGateway
<1>2. CASE ~(active = "Legacy" /\ WantsGateway)
  <2>1. UNCHANGED <<switch, trust>> BY <1>2 DEF SerialDone
  <2> QED BY <2>1, SwitchKept, FileKept DEF LoopInv, switch, trust
<1> QED BY <1>1, <1>2

LEMMA RadioStep == ASSUME LoopInv, Radio PROVE LoopInv'
<1>1. UNCHANGED <<ready, nvs, secure, shown, toggle>> BY DEF Radio, switch
<1>2. SwitchInv' BY <1>1, SwitchKept DEF LoopInv
<1>3. CASE UNCHANGED <<records, file>>
  BY <1>1, <1>2, <1>3, FileKept DEF LoopInv
<1>4. CASE \E p \in Peers : AddRecord(p)
  BY <1>1, <1>2, <1>4, AddRecordKeeps DEF LoopInv
<1> QED BY <1>3, <1>4 DEF Radio

LEMMA RequestsStep == ASSUME LoopInv, Requests PROVE LoopInv'
<1>1. UNCHANGED ready BY DEF Requests, ConsumeToggle
<1>2. FileInv'
  <2>1. CASE UNCHANGED <<records, file>> BY <1>1, <2>1, FileKept DEF LoopInv
  <2>2. CASE ForgetRecord(forget) BY <1>1, <2>2, ForgetRecordKeeps DEF LoopInv
  <2> QED BY <2>1, <2>2 DEF Requests, ConsumeForget
<1>3. SwitchInv'
  <2>1. toggle' = NoRequest BY DEF Requests, ConsumeToggle
  <2>2. CASE UNCHANGED <<nvs, secure, shown>> /\ toggle = NoRequest
    BY <1>1, <2>1, <2>2 DEF LoopInv, SwitchInv, SecureShownIsEnforced
  <2>3. CASE toggle # NoRequest /\ ready /\ nvs' = toggle /\ secure' = toggle /\ shown' = toggle
    BY <1>1, <2>1, <2>3 DEF LoopInv, SwitchInv, SecureShownIsEnforced
  <2>4. CASE UNCHANGED <<nvs, secure>> /\ shown' = secure
    BY <1>1, <2>1, <2>4 DEF LoopInv, SwitchInv, SecureShownIsEnforced
  <2> QED BY <2>2, <2>3, <2>4 DEF Requests, ConsumeToggle
<1> QED BY <1>2, <1>3 DEF LoopInv

\* Only the tap on the switch itself touches it, and leaves a request behind.
LEMMA ScreenStep == ASSUME LoopInv, Screen PROVE LoopInv'
<1>1. UNCHANGED <<ready, records, file>>
  BY DEF Screen, NoTouch, TouchNavigate, TouchForget, TouchSecure, TouchGateway, switch, trust
<1>2. FileInv' BY <1>1, FileKept DEF LoopInv
<1>3. CASE TouchSecure
  <2>1. /\ toggle' = ~shown /\ shown' = ~shown /\ UNCHANGED <<ready, nvs, secure>>
        /\ shown \in BOOLEAN
    BY <1>3 DEF TouchSecure, LoopInv, SwitchInv
  <2>2. toggle' \in BOOLEAN /\ toggle' # NoRequest BY <2>1, LoopAssumption
  <2> QED BY <1>2, <2>1, <2>2 DEF LoopInv, SwitchInv, SecureShownIsEnforced
<1>4. CASE ~TouchSecure
  <2>1. UNCHANGED <<ready, nvs, secure, shown, toggle>>
    BY <1>4 DEF Screen, NoTouch, TouchNavigate, TouchForget, TouchGateway, switch
  <2> QED BY <1>2, <2>1, SwitchKept DEF LoopInv
<1> QED BY <1>3, <1>4

LEMMA NextKeepsLoopInv == LoopInv /\ [Next]_vars => LoopInv'
<1> SUFFICES ASSUME LoopInv, [Next]_vars PROVE LoopInv' OBVIOUS
<1>1. CASE UNCHANGED <<switch, trust>>
  BY <1>1, SwitchKept, FileKept DEF LoopInv, switch, trust
<1>2. CASE Restart
  <2>1. Load /\ UNCHANGED <<nvs, file>> /\ toggle' = NoRequest BY <1>2 DEF Restart
  <2> QED BY <2>1, LoadStep
<1>3. ASSUME (\E k \in Kinds : HostSends(k)) \/ ReadLine \/ ReadBlock \/ UNCHANGED vars
      PROVE  UNCHANGED <<switch, trust>>
  BY <1>3 DEF HostSends, ReadLine, ReadBlock, vars
<1> QED BY <1>1, <1>2, <1>3, SerialDoneStep, RadioStep, RequestsStep, ScreenStep DEF Next

LEMMA LoopInvHolds == Spec => []LoopInv
BY InitHolds, NextKeepsLoopInv, PTL DEF Spec
-----------------------------------------------------------------------------
\* The switch of the Settings screen has the value in force whenever no tap on
\* it is on its way, whichever writes fail and whoever owns the radio.
THEOREM SwitchTellsTheTruth == Spec => []SecureShownIsEnforced
<1>1. LoopInv => SecureShownIsEnforced BY DEF LoopInv, SwitchInv
<1> QED BY <1>1, LoopInvHolds, PTL

\* The trust list on flash is the one in memory or cannot be read, for any
\* number of peers and whichever writes fail.
THEOREM TrustFileKept == Spec => []TrustOnFlash
<1>1. LoopInv => TrustOnFlash BY DEF LoopInv, FileInv
<1> QED BY <1>1, LoopInvHolds, PTL
-----------------------------------------------------------------------------
(* The types of the variables.                                              *)

\* What Bytes makes a message of.
ByteSet == [of: Nat, at: Nat, is: {"char", "newline", "zero"}]

\* The variables of the serial port have their types and bounds.
SerialTypes ==
  /\ turn \in {"serial", "radio", "requests", "screen"} /\ active \in Owners
  /\ sent \in Seq(Kinds) /\ Len(sent) <= MaxMessages
  /\ wire \in Seq(ByteSet)
  /\ line \in Seq(ByteSet) /\ Len(line) <= LineLimit /\ discarding \in BOOLEAN
  /\ block \in Seq(ByteSet) /\ Len(block) <= BlockLimit
  /\ requested \in {"none", "upgrade", "gateway"}
  /\ byButton \in BOOLEAN /\ button \in BOOLEAN

\* So have those of the screen.
ScreenTypes ==
  /\ session \in {"idle", "asking"} /\ told \in {"idle", "asking"}
  /\ list \in Seq(Peers) /\ drawn \in Seq(Peers) /\ view \in {"Home", "Settings", "Trust"}
  /\ forget \in Peers \cup {NoPeer} /\ touched \in Peers \cup {NoPeer}

\* Neither list of trust records outgrows TrustStore.
RecordsBound ==
  /\ Len(records) <= MaxRecords
  /\ file # Unreadable => Len(file) <= MaxRecords

\* The inductive invariant.
LoopTypes == LoopInv /\ SerialTypes /\ ScreenTypes /\ RecordsBound

\* The bytes of a message.
LEMMA BytesAre ==
  ASSUME NEW i \in Nat, NEW k \in Kinds
  PROVE  Bytes(i, k) \in Seq(ByteSet) /\ Len(Bytes(i, k)) = Len(Text[k])
<1>1. Text[k] \in Seq({"char", "newline", "zero"}) /\ Len(Text[k]) \in Nat
  BY LoopAssumption
<1>2. \A j \in 1..Len(Text[k]) : [of |-> i, at |-> j, is |-> Text[k][j]] \in ByteSet
  <2> SUFFICES ASSUME NEW j \in 1..Len(Text[k])
               PROVE  [of |-> i, at |-> j, is |-> Text[k][j]] \in ByteSet
    OBVIOUS
  <2>1. Text[k][j] \in {"char", "newline", "zero"} /\ j \in Nat
    BY <1>1
  <2> QED BY <2>1 DEF ByteSet
<1> QED BY <1>1, <1>2 DEF Bytes

\* What is read is the first byte of the wire.
LEMMA FirstByte ==
  ASSUME wire \in Seq(ByteSet), wire # <<>>
  PROVE  Head(wire) \in ByteSet /\ Tail(wire) \in Seq(ByteSet)
OBVIOUS

\* A byte of a line keeps the types: line_ stays within its limit.
LEMMA ReadLineTypes == ASSUME SerialTypes, ReadLine PROVE SerialTypes'
<1> DEFINE b == Head(wire)
<1>0. LineLimit \in Nat /\ <<>> \in Seq(ByteSet) /\ Len(<<>>) = 0
  BY LoopAssumption
<1>1. /\ b \in ByteSet /\ wire' \in Seq(ByteSet)
      /\ UNCHANGED <<turn, active, sent, block, byButton, button>>
  BY FirstByte DEF ReadLine, SerialTypes
<1>2. CASE EndOfLine(b)
  <2>1. line' \in Seq(ByteSet) /\ Len(line') <= LineLimit /\ discarding' = FALSE
    <3>1. line' = <<>> /\ discarding' = FALSE
      BY <1>2 DEF EndOfLine
    <3>2. Len(line') <= LineLimit
      BY <1>0, <3>1
    <3> QED BY <1>0, <3>1, <3>2
  <2>2. requested' \in {"none", "upgrade", "gateway"}
    BY <1>2 DEF EndOfLine, ProcessLine, SerialTypes
  <2> QED BY <1>0, <1>1, <2>1, <2>2 DEF SerialTypes
<1>3. CASE CharOfLine(b)
  <2>1. requested' = requested
    BY <1>3 DEF CharOfLine
  <2>2. line' \in Seq(ByteSet) /\ Len(line') <= LineLimit /\ discarding' \in BOOLEAN
    <3>1. CASE UNCHANGED <<line, discarding>>
      BY <3>1 DEF SerialTypes
    <3>2. CASE discarding' = TRUE /\ line' = <<>>
      <4>1. Len(line') <= LineLimit
        BY <1>0, <3>2
      <4> QED BY <1>0, <3>2, <4>1
    <3>3. CASE ~(Len(line) >= LineLimit) /\ line' = Append(line, b) /\ UNCHANGED discarding
      BY <1>0, <1>1, <3>3 DEF SerialTypes
    <3>5. \/ UNCHANGED <<line, discarding>>
          \/ discarding' = TRUE /\ line' = <<>>
          \/ ~(Len(line) >= LineLimit) /\ line' = Append(line, b) /\ UNCHANGED discarding
      BY <1>3, Zenon DEF CharOfLine
    <3> QED BY <3>1, <3>2, <3>3, <3>5, Zenon
  <2> QED BY <1>1, <2>1, <2>2 DEF SerialTypes
<1>4. EndOfLine(b) \/ CharOfLine(b)
  BY DEF ReadLine
<1> QED BY <1>2, <1>3, <1>4

\* A byte of a block keeps them: the block stays within its size.
LEMMA ReadBlockTypes == ASSUME SerialTypes, ReadBlock PROVE SerialTypes'
<1> DEFINE b == Head(wire)
<1>0. BlockLimit \in Nat /\ <<>> \in Seq(ByteSet) /\ Len(<<>>) = 0
  BY LoopAssumption
<1>1. /\ b \in ByteSet /\ wire' \in Seq(ByteSet)
      /\ UNCHANGED <<turn, active, sent, line, discarding, requested, byButton, button>>
  BY FirstByte DEF ReadBlock, SerialTypes
<1>2. block' \in Seq(ByteSet) /\ Len(block') <= BlockLimit
  <2>1. CASE block' = <<>>
    BY <1>0, <2>1
  <2>2. CASE block' = IF Len(block) < BlockLimit THEN Append(block, b) ELSE block
    <3>1. block \in Seq(ByteSet) /\ Len(block) <= BlockLimit
      BY DEF SerialTypes
    <3>2. CASE Len(block) < BlockLimit
      BY <1>0, <1>1, <2>2, <3>1, <3>2
    <3>3. CASE ~(Len(block) < BlockLimit)
      BY <2>2, <3>1, <3>3
    <3> QED BY <3>2, <3>3
  <2> QED BY <2>1, <2>2 DEF ReadBlock
<1> QED BY <1>1, <1>2 DEF SerialTypes

\* What a host sends are messages and their bytes.
LEMMA HostSendsTypes == ASSUME SerialTypes, NEW k \in Kinds, HostSends(k) PROVE SerialTypes'
<1>1. /\ Len(sent) < MaxMessages /\ sent' = Append(sent, k)
      /\ wire' = wire \o Bytes(Len(sent) + 1, k)
      /\ UNCHANGED <<turn, active, line, discarding, block, requested, byButton, button>>
  BY DEF HostSends
<1>2. sent \in Seq(Kinds) /\ Len(sent) \in Nat /\ wire \in Seq(ByteSet) /\ MaxMessages \in Nat
  BY LoopAssumption DEF SerialTypes
<1>3. sent' \in Seq(Kinds) /\ Len(sent') <= MaxMessages
  BY <1>1, <1>2
<1>4. wire' \in Seq(ByteSet)
  <2>1. Bytes(Len(sent) + 1, k) \in Seq(ByteSet)
    BY <1>2, BytesAre
  <2> HIDE DEF ByteSet
  <2> QED BY <1>1, <1>2, <2>1
<1> QED BY <1>1, <1>3, <1>4 DEF SerialTypes

\* A write of new keeps the bound.
LEMMA SaveBound ==
  ASSUME RecordsBound, NEW new, NEW undone, Len(new) <= MaxRecords, Len(undone) <= MaxRecords,
         Save(new, undone)
  PROVE  RecordsBound'
BY DEF RecordsBound, Save

\* Forgetting keeps the bound, undone or not.
LEMMA ForgetBound ==
  ASSUME RecordsBound, records \in Seq(Peers), NEW p, ForgetRecord(p)
  PROVE  RecordsBound'
<1>1. CASE ~Contains(records, p)
  BY <1>1 DEF ForgetRecord, RecordsBound
<1>2. CASE Contains(records, p)
  <2> DEFINE n == Len(records)
             i == CHOOSE j \in DOMAIN records : records[j] = p
             moved == [records EXCEPT ![i] = Last(records)]
             left == SwapRemoved(p)
  <2>1. i \in 1..n /\ n \in Nat /\ n >= 1 /\ Last(records) \in Peers
    <3>1. \E j \in DOMAIN records : records[j] = p
      BY <1>2 DEF Contains
    <3> QED BY <3>1 DEF Last
  <2>2. moved \in Seq(Peers) /\ Len(moved) = n
    BY <2>1
  <2>3. left = SubSeq(moved, 1, n - 1)
    BY <2>2 DEF SwapRemoved, Front
  <2> HIDE DEF moved, left
  <2>4. left \in Seq(Peers) /\ Len(left) = n - 1
    BY <2>1, <2>2, <2>3
  <2>5. Len(Append(left, p)) = n
    BY <2>1, <2>4
  <2>6. Len(left) <= MaxRecords /\ Len(Append(left, p)) <= MaxRecords
    BY <2>1, <2>4, <2>5, LoopAssumption DEF RecordsBound
  <2>7. Save(left, Append(left, p))
    BY <1>2 DEF ForgetRecord, left
  <2> QED BY <2>6, <2>7, SaveBound
<1> QED BY <1>1, <1>2

\* A record is added only when there is room for it.
LEMMA AddBound ==
  ASSUME RecordsBound, records \in Seq(Peers), NEW p \in Peers, AddRecord(p)
  PROVE  RecordsBound'
<1>1. CASE UNCHANGED <<records, file>>
  BY <1>1 DEF RecordsBound
<1>2. CASE Len(records) < MaxRecords /\ Save(Append(records, p), records)
  <2>1. Len(Append(records, p)) <= MaxRecords /\ Len(records) <= MaxRecords
    BY <1>2, LoopAssumption DEF RecordsBound
  <2> QED BY <1>2, <2>1, SaveBound
<1>3. Len(records) \in Nat /\ MaxRecords \in Nat
  BY LoopAssumption
<1> QED BY <1>1, <1>2, <1>3 DEF AddRecord

\* What is loaded was within the bound when it was written.
LEMMA LoadBound ==
  ASSUME RecordsBound, Load, UNCHANGED file
  PROVE  RecordsBound' /\ session' = "idle"
<1>1. records' = <<>> \/ records' = Loaded
  BY DEF Load
<1>2. Len(<<>>) = 0 /\ MaxRecords \in Nat
  BY LoopAssumption
<1> QED BY <1>1, <1>2 DEF Load, Loaded, RecordsBound

\* Serving the screen's requests keeps the types.
LEMMA RequestsTypes ==
  ASSUME LoopTypes, Requests, LoopInv'
  PROVE  SerialTypes' /\ ScreenTypes' /\ RecordsBound'
<1>1. SerialTypes'
  BY DEF Requests, LoopTypes, SerialTypes, serial
<1>2. RecordsBound'
  <2>1. CASE UNCHANGED <<records, file>>
    BY <2>1 DEF LoopTypes, RecordsBound
  <2>2. CASE ForgetRecord(forget)
    BY <2>2, ForgetBound DEF LoopTypes, LoopInv, FileInv
  <2> QED BY <2>1, <2>2 DEF Requests, ConsumeForget
<1>3. ScreenTypes'
  <2>1. /\ told' = session /\ session' = session /\ list' = records'
        /\ view' = (IF session = "asking" /\ told = "idle" THEN "Trust" ELSE view)
        /\ forget' = NoPeer /\ touched' = NoPeer
    BY DEF Requests, ConsumeForget, UpdateTrust
  <2>2. drawn' = <<>> \/ drawn' = list \/ drawn' = drawn
    BY DEF Requests, UpdateTrust
  <2>3. records' \in Seq(Peers) /\ <<>> \in Seq(Peers)
    BY DEF LoopInv, FileInv
  <2>4. /\ session \in {"idle", "asking"} /\ list \in Seq(Peers) /\ drawn \in Seq(Peers)
        /\ view \in {"Home", "Settings", "Trust"}
    BY DEF LoopTypes, ScreenTypes
  <2> QED BY <2>1, <2>2, <2>3, <2>4 DEF ScreenTypes
<1> QED BY <1>1, <1>2, <1>3

\* So does a touch.
LEMMA ScreenStepTypes ==
  ASSUME LoopTypes, Screen
  PROVE  SerialTypes' /\ ScreenTypes' /\ RecordsBound'
<1>0. SerialTypes /\ ScreenTypes /\ RecordsBound /\ <<>> \in Seq(Peers)
  BY DEF LoopTypes
<1>1. CASE TouchNavigate
  <2>1. /\ view' \in {"Home", "Settings", "Trust"} /\ drawn' \in {list, <<>>} /\ turn' = "serial"
        /\ UNCHANGED <<serial, button, trust>>
    BY <1>1 DEF TouchNavigate, Touch
  <2>2. SerialTypes'
    BY <1>0, <2>1 DEF SerialTypes, serial
  <2>3. RecordsBound'
    BY <1>0, <2>1 DEF RecordsBound, trust
  <2>4. drawn' \in Seq(Peers)
    BY <1>0, <2>1 DEF ScreenTypes
  <2>5. ScreenTypes'
    BY <1>0, <2>1, <2>4 DEF ScreenTypes, trust
  <2> QED BY <2>2, <2>3, <2>5
<1>2. CASE TouchSecure
  BY <1>0, <1>2 DEF TouchSecure, Touch, SerialTypes, ScreenTypes, RecordsBound, serial, trust, screen
<1>3. CASE TouchGateway
  BY <1>0, <1>3 DEF TouchGateway, Touch, SerialTypes, ScreenTypes, RecordsBound, serial, trust, screen
<1>4. CASE NoTouch
  BY <1>0, <1>4 DEF NoTouch, Touch, SerialTypes, ScreenTypes, RecordsBound, serial, trust, screen
<1>5. ASSUME NEW r, TouchForget(r) PROVE SerialTypes' /\ ScreenTypes' /\ RecordsBound'
  <2>1. /\ r \in DOMAIN list /\ forget' = list[r] /\ turn' = "serial"
        /\ touched' = IF r \in DOMAIN drawn THEN drawn[r] ELSE NoPeer
        /\ UNCHANGED <<serial, button, records, file, session, told, list, screen>>
    BY <1>5 DEF TouchForget, Touch
  <2>2. forget' \in Peers
    BY <1>0, <2>1 DEF ScreenTypes
  <2>3. touched' \in Peers \cup {NoPeer}
    BY <1>0, <2>1 DEF ScreenTypes
  <2> QED BY <1>0, <2>1, <2>2, <2>3 DEF SerialTypes, ScreenTypes, RecordsBound, serial, screen
<1> QED BY <1>1, <1>2, <1>3, <1>4, <1>5 DEF Screen

\* The first state has the types.
LEMMA InitTypes == Init => LoopTypes
<1> SUFFICES ASSUME Init PROVE LoopTypes
  OBVIOUS
<1>1. /\ \A S : <<>> \in Seq(S)
      /\ Len(<<>>) = 0 /\ MaxMessages \in Nat /\ LineLimit \in Nat /\ BlockLimit \in Nat
      /\ MaxRecords \in Nat
  BY LoopAssumption
<1>2. SerialTypes
  <2>1. <<>> \in Seq(ByteSet) /\ <<>> \in Seq(Kinds)
    OBVIOUS
  <2>2. /\ sent = <<>> /\ wire = <<>> /\ line = <<>> /\ block = <<>> /\ turn = "serial"
        /\ active = "Legacy" /\ discarding = FALSE /\ requested = "none"
        /\ byButton = FALSE /\ button = FALSE
    BY DEF Init
  <2>3. Len(sent) <= MaxMessages /\ Len(line) <= LineLimit /\ Len(block) <= BlockLimit
    BY <1>1, <2>2
  <2>4. /\ sent \in Seq(Kinds) /\ wire \in Seq(ByteSet) /\ line \in Seq(ByteSet)
        /\ block \in Seq(ByteSet)
    BY <2>1, <2>2
  <2> QED BY <2>2, <2>3, <2>4 DEF SerialTypes, Owners
<1>3. ScreenTypes /\ RecordsBound
  BY <1>1 DEF Init, ScreenTypes, RecordsBound
<1> QED BY <1>2, <1>3, InitHolds DEF LoopTypes

\* Every step keeps the types.
LEMMA NextTypes == LoopTypes /\ [Next]_vars => LoopTypes'
<1> SUFFICES ASSUME LoopTypes, [Next]_vars PROVE SerialTypes' /\ ScreenTypes' /\ RecordsBound'
  BY NextKeepsLoopInv DEF LoopTypes
<1>0. LoopInv /\ LoopInv' /\ SerialTypes /\ ScreenTypes /\ RecordsBound /\ <<>> \in Seq(Peers)
  BY NextKeepsLoopInv DEF LoopTypes
<1>1. CASE (\E k \in Kinds : HostSends(k)) \/ ReadLine \/ ReadBlock
  <2>1. ScreenTypes' /\ RecordsBound'
    BY <1>0, <1>1 DEF HostSends, ReadLine, ReadBlock, ScreenTypes, RecordsBound, trust, screen
  <2>2. ASSUME NEW k \in Kinds, HostSends(k) PROVE SerialTypes'
    BY <1>0, <2>2, HostSendsTypes
  <2>3. ReadLine \/ ReadBlock => SerialTypes'
    BY <1>0, ReadLineTypes, ReadBlockTypes
  <2>4. (\E k \in Kinds : HostSends(k)) => SerialTypes'
    BY <2>2
  <2> QED BY <1>1, <2>1, <2>3, <2>4
<1>2. CASE SerialDone
  <2>0. UNCHANGED <<sent, wire, line, discarding, block, requested>>
    BY <1>2 DEF SerialDone
  <2>1. CASE active = "Legacy" /\ WantsGateway
    <3>1. EnterGateway /\ button' = FALSE
      BY <1>2, <2>1 DEF SerialDone
    <3>2. RecordsBound' /\ session' = "idle"
      BY <1>0, <3>1, LoadBound DEF EnterGateway
    <3>3. SerialTypes' /\ ScreenTypes'
      BY <1>0, <2>0, <3>1, <3>2 DEF EnterGateway, SerialTypes, ScreenTypes, Owners
    <3> QED BY <3>2, <3>3
  <2>2. CASE ~(active = "Legacy" /\ WantsGateway)
    <3>1. /\ UNCHANGED <<byButton, trust, screen>> /\ button' \in {button, FALSE}
          /\ active' \in {active, "CobsV2"} /\ turn' = "radio"
      BY <1>2, <2>2 DEF SerialDone
    <3>2. SerialTypes'
      BY <1>0, <2>0, <3>1 DEF SerialTypes, Owners
    <3>3. ScreenTypes' /\ RecordsBound'
      BY <1>0, <3>1 DEF ScreenTypes, RecordsBound, trust, screen
    <3> QED BY <3>2, <3>3
  <2> QED BY <2>1, <2>2
<1>3. CASE Radio
  <2>1. SerialTypes' /\ ScreenTypes'
    BY <1>0, <1>3 DEF Radio, SerialTypes, ScreenTypes, serial, screen
  <2>2. CASE UNCHANGED <<records, file>>
    BY <1>0, <2>1, <2>2 DEF RecordsBound
  <2>3. CASE \E p \in Peers : AddRecord(p)
    BY <1>0, <2>1, <2>3, AddBound DEF LoopInv, FileInv
  <2> QED BY <1>3, <2>2, <2>3 DEF Radio
<1>4. CASE Requests
  BY <1>0, <1>4, RequestsTypes
<1>5. CASE Screen
  BY <1>5, ScreenStepTypes
<1>6. CASE Restart
  <2>1. RecordsBound' /\ session' = "idle"
    BY <1>0, <1>6, LoadBound DEF Restart
  <2>2. /\ \A S : <<>> \in Seq(S)
        /\ Len(<<>>) = 0 /\ MaxMessages \in Nat /\ LineLimit \in Nat /\ BlockLimit \in Nat
    BY LoopAssumption
  <2>3. SerialTypes'
    <3>1. <<>> \in Seq(ByteSet) /\ <<>> \in Seq(Kinds)
      OBVIOUS
    <3>2. /\ sent' = <<>> /\ wire' = <<>> /\ line' = <<>> /\ block' = <<>>
          /\ turn' = "serial" /\ active' = "Legacy" /\ discarding' = FALSE
          /\ requested' = "none" /\ byButton' = FALSE /\ button' = FALSE
      BY <1>6 DEF Restart
    <3>3. Len(sent') <= MaxMessages /\ Len(line') <= LineLimit /\ Len(block') <= BlockLimit
      BY <2>2, <3>2
    <3>4. /\ sent' \in Seq(Kinds) /\ wire' \in Seq(ByteSet) /\ line' \in Seq(ByteSet)
          /\ block' \in Seq(ByteSet)
      BY <3>1, <3>2
    <3> QED BY <3>2, <3>3, <3>4 DEF SerialTypes, Owners
  <2>4. ScreenTypes'
    BY <1>6, <2>1, <2>2 DEF Restart, ScreenTypes
  <2> QED BY <2>1, <2>3, <2>4
<1>7. CASE UNCHANGED vars
  BY <1>0, <1>7 DEF vars, serial, trust, screen, SerialTypes, ScreenTypes, RecordsBound
<1> QED BY <1>1, <1>2, <1>3, <1>4, <1>5, <1>6, <1>7 DEF Next

\* Every variable has its type; line_, the receive block and the trust list keep
\* within kSerialLineLimit, the block's size and the capacity of TrustStore,
\* whatever is sent, switched, tapped or restarted.
THEOREM LoopTypeOK == Spec => []TypeOK
<1>1. LoopTypes => TypeOK
  BY DEF LoopTypes, LoopInv, SwitchInv, FileInv, SerialTypes, ScreenTypes, RecordsBound, TypeOK
<1> QED BY <1>1, InitTypes, NextTypes, PTL DEF Spec
-----------------------------------------------------------------------------
(* The bytes on the wire.                                                  *)

\* A message has a byte before the one that ends it.  A line has no newline and
\* a COBS block no zero but the one at its end, and the lines that ask for
\* another protocol are short enough for the legacy endpoint.
PlainText ==
  /\ \A k \in Kinds : Len(Text[k]) >= 2
  /\ \A k \in LineKinds : \A j \in 1..(Len(Text[k]) - 1) : Text[k][j] = "char"
  /\ \A k \in FrameKinds : \A j \in 1..(Len(Text[k]) - 1) : Text[k][j] # "zero"
  /\ \A k \in {"upgrade", "gateway"} : Len(Text[k]) - 1 <= LineLimit

\* The bytes of what was sent, and the place of the next byte to read.
LengthOf(i) == Len(Text[sent[i]])
Byte(i, j) == [of |-> i, at |-> j, is |-> Text[sent[i]][j]]
NextOf == IF wire = <<>> THEN Len(sent) + 1 ELSE wire[1].of
NextAt == IF wire = <<>> THEN 1 ELSE wire[1].at

\* The bytes on the wire are those not read, each behind the one before it.
IsByte(b) == b.of \in DOMAIN sent /\ b.at \in 1..LengthOf(b.of) /\ b = Byte(b.of, b.at)
Ends(b) == b.at = LengthOf(b.of)
Follows(b, c) ==
  \/ Ends(b) /\ c.of = b.of + 1 /\ c.at = 1
  \/ ~Ends(b) /\ c.of = b.of /\ c.at = b.at + 1
WireInv ==
  /\ \A j \in DOMAIN wire : IsByte(wire[j])
  /\ \A j \in 1..(Len(wire) - 1) : Follows(wire[j], wire[j + 1])
  /\ wire # <<>> => Ends(wire[Len(wire)]) /\ wire[Len(wire)].of = Len(sent)
  /\ \A i \in DOMAIN sent : i >= NextOf => \E j \in DOMAIN wire : wire[j].of = i /\ Ends(wire[j])

\* What Text gives.
LEMMA Lengths ==
  ASSUME PlainText, SerialTypes
  PROVE  /\ \A k \in Kinds : Len(Text[k]) \in Nat /\ Len(Text[k]) >= 2
         /\ \A i \in DOMAIN sent : sent[i] \in Kinds /\ LengthOf(i) \in Nat /\ LengthOf(i) >= 2
         /\ Len(sent) \in Nat /\ DOMAIN sent = 1..Len(sent) /\ Len(wire) \in Nat
         /\ DOMAIN wire = 1..Len(wire) /\ (wire # <<>> <=> Len(wire) >= 1)
<1>1. \A k \in Kinds : Len(Text[k]) \in Nat /\ Len(Text[k]) >= 2
  BY LoopAssumption DEF PlainText
<1>2. /\ sent \in Seq(Kinds) /\ wire \in Seq(ByteSet)
  BY DEF SerialTypes
<1>3. /\ Len(sent) \in Nat /\ DOMAIN sent = 1..Len(sent) /\ Len(wire) \in Nat
      /\ DOMAIN wire = 1..Len(wire) /\ (wire # <<>> <=> Len(wire) >= 1)
      /\ \A i \in DOMAIN sent : sent[i] \in Kinds
  BY <1>2
<1> QED BY <1>1, <1>3 DEF LengthOf

\* A sequence is empty when its length is zero.
LEMMA EmptyOrNot ==
  ASSUME NEW T, NEW s \in Seq(T)
  PROVE  DOMAIN s = 1..Len(s) /\ (s = <<>> <=> Len(s) = 0) /\ Len(s) \in Nat
OBVIOUS

\* One sequence behind another.
LEMMA Joined ==
  ASSUME NEW T, NEW s \in Seq(T), NEW u \in Seq(T)
  PROVE  /\ s \o u \in Seq(T) /\ Len(s \o u) = Len(s) + Len(u)
         /\ \A j \in 1..(Len(s) + Len(u)) : (s \o u)[j] = IF j <= Len(s) THEN s[j] ELSE u[j - Len(s)]
OBVIOUS

\* Where the next byte is.
LEMMA NextRange ==
  ASSUME PlainText, SerialTypes, WireInv
  PROVE  /\ NextOf \in 1..(Len(sent) + 1) /\ NextAt \in Nat \ {0}
         /\ (wire # <<>> => /\ NextOf \in DOMAIN sent /\ NextAt \in 1..LengthOf(NextOf)
                            /\ wire[1] = Byte(NextOf, NextAt))
         /\ (NextAt # 1 => wire # <<>>)
<1>1. CASE wire = <<>>
  BY <1>1, Lengths DEF NextOf, NextAt
<1>2. CASE wire # <<>>
  <2>1. 1 \in DOMAIN wire /\ NextOf = wire[1].of /\ NextAt = wire[1].at
    BY <1>2, Lengths DEF NextOf, NextAt
  <2>2. IsByte(wire[1])
    BY <2>1 DEF WireInv
  <2>3. NextOf \in DOMAIN sent /\ NextAt \in 1..LengthOf(NextOf) /\ wire[1] = Byte(NextOf, NextAt)
    BY <2>1, <2>2 DEF IsByte
  <2>4. NextOf \in 1..(Len(sent) + 1) /\ NextAt \in Nat \ {0}
    BY <2>3, Lengths
  <2> QED BY <1>2, <2>3, <2>4
<1> QED BY <1>1, <1>2

\* The next byte is read.
LEMMA ReadsByte ==
  ASSUME PlainText, SerialTypes, WireInv, wire # <<>>, wire' = Tail(wire), UNCHANGED sent
  PROVE  /\ Head(wire) = Byte(NextOf, NextAt)
         /\ WireInv'
         /\ (NextAt = LengthOf(NextOf) => NextOf' = NextOf + 1 /\ NextAt' = 1)
         /\ (NextAt # LengthOf(NextOf) => NextOf' = NextOf /\ NextAt' = NextAt + 1)
<1>1. PICK w, n : w = wire /\ n = Len(wire)
  OBVIOUS
<1>2. /\ w \in Seq(ByteSet) /\ n \in Nat \ {0} /\ DOMAIN w = 1..n /\ Head(w) = w[1]
      /\ Len(Tail(w)) = n - 1 /\ Tail(w) \in Seq(ByteSet)
      /\ \A j \in 1..(n - 1) : Tail(w)[j] = w[j + 1]
  BY <1>1 DEF SerialTypes
<1>3. PICK t : t = Tail(w)
  OBVIOUS
<1>4. /\ Len(t) = n - 1 /\ DOMAIN t = 1..(n - 1) /\ \A j \in 1..(n - 1) : t[j] = w[j + 1] /\ j + 1 \in 1..n
      /\ (t = <<>> <=> n = 1)
  <2>1. t \in Seq(ByteSet) /\ Len(t) = n - 1 /\ \A j \in 1..(n - 1) : t[j] = w[j + 1]
    BY <1>2, <1>3
  <2>2. DOMAIN t = 1..(n - 1) /\ (t = <<>> <=> n - 1 = 0)
    BY <2>1, EmptyOrNot
  <2>3. \A j \in 1..(n - 1) : j + 1 \in 1..n
    BY <1>2
  <2> QED BY <1>2, <2>1, <2>2, <2>3
<1>5. /\ \A j \in DOMAIN w : IsByte(w[j])
      /\ \A j \in 1..(n - 1) : Follows(w[j], w[j + 1])
      /\ Ends(w[n]) /\ w[n].of = Len(sent)
      /\ \A i \in DOMAIN sent : i >= NextOf => \E j \in DOMAIN w : w[j].of = i /\ Ends(w[j])
  BY <1>1 DEF WireInv
<1>6. /\ NextOf = w[1].of /\ NextAt = w[1].at /\ w[1] = Byte(NextOf, NextAt)
      /\ NextOf \in DOMAIN sent /\ NextAt \in 1..LengthOf(NextOf)
  BY <1>1, NextRange DEF NextOf, NextAt
<1>7. wire' = t /\ sent' = sent
  BY <1>1, <1>3
<1>8. \A b, c : /\ IsByte(b)' = IsByte(b) /\ Ends(b)' = Ends(b) /\ Follows(b, c)' = Follows(b, c)
  BY <1>7 DEF IsByte, Ends, Follows, LengthOf, Byte
<1>9. /\ (NextAt = LengthOf(NextOf) => NextOf' = NextOf + 1 /\ NextAt' = 1)
      /\ (NextAt # LengthOf(NextOf) => NextOf' = NextOf /\ NextAt' = NextAt + 1)
  <2>1. NextAt = LengthOf(NextOf) <=> Ends(w[1])
    BY <1>6 DEF Ends
  <2>2. CASE n = 1
    <3>1. NextOf' = Len(sent) + 1 /\ NextAt' = 1
      BY <1>4, <1>7, <2>2 DEF NextOf, NextAt
    <3>2. Ends(w[1]) /\ NextOf = Len(sent)
      BY <1>5, <1>6, <2>2
    <3> QED BY <2>1, <3>1, <3>2
  <2>3. CASE n # 1
    <3>1. NextOf' = t[1].of /\ NextAt' = t[1].at
      BY <1>4, <1>7, <2>3 DEF NextOf, NextAt
    <3>2. 1 \in 1..(n - 1) /\ 1 + 1 = 2
      BY <1>2, <2>3
    <3>3. t[1] = w[2] /\ Follows(w[1], w[2])
      BY <1>4, <1>5, <3>2
    <3> QED BY <1>6, <2>1, <3>1, <3>3 DEF Follows
  <2> QED BY <2>2, <2>3
<1>10. WireInv'
  <2>1. \A j \in DOMAIN t : IsByte(t[j])
    BY <1>2, <1>4, <1>5
  <2>2. \A j \in 1..(Len(t) - 1) : Follows(t[j], t[j + 1])
    <3> SUFFICES ASSUME NEW j \in 1..(n - 2) PROVE Follows(t[j], t[j + 1])
      BY <1>2, <1>4
    <3>1. j \in 1..(n - 1) /\ j + 1 \in 1..(n - 1)
      BY <1>2
    <3> QED BY <1>4, <1>5, <3>1
  <2>3. t # <<>> => Ends(t[Len(t)]) /\ t[Len(t)].of = Len(sent)
    <3> SUFFICES ASSUME n # 1 PROVE Ends(t[n - 1]) /\ t[n - 1].of = Len(sent)
      BY <1>4
    <3>1. n - 1 \in 1..(n - 1) /\ (n - 1) + 1 = n
      BY <1>2
    <3>2. t[n - 1] = w[n]
      BY <1>4, <3>1
    <3> QED BY <1>5, <3>2
  <2>4. \A i \in DOMAIN sent : i >= NextOf' => \E j \in DOMAIN t : t[j].of = i /\ Ends(t[j])
    <3> SUFFICES ASSUME NEW i \in DOMAIN sent, i >= NextOf'
                 PROVE  \E j \in DOMAIN t : t[j].of = i /\ Ends(t[j])
      OBVIOUS
    <3>1. i \in Nat /\ NextOf \in Nat
      BY <1>6, Lengths
    <3>2. i >= NextOf
      BY <1>9, <3>1
    <3>3. PICK j \in 1..n : w[j].of = i /\ Ends(w[j])
      BY <1>2, <1>5, <3>2
    <3>4. j # 1
      <4> SUFFICES ASSUME j = 1 PROVE FALSE
        OBVIOUS
      <4>1. NextAt = LengthOf(NextOf) /\ i = NextOf
        BY <1>6, <3>3 DEF Ends
      <4> QED BY <1>9, <3>1, <4>1
    <3>5. j - 1 \in 1..(n - 1) /\ (j - 1) + 1 = j
      BY <1>2, <3>4
    <3>6. t[j - 1] = w[j]
      BY <1>4, <3>5
    <3> QED BY <1>4, <3>3, <3>5, <3>6
  <2>5. PICK o : o = NextOf'
    OBVIOUS
  <2>6. \A i \in DOMAIN sent : i >= o => \E j \in DOMAIN t : t[j].of = i /\ Ends(t[j])
    BY <2>4, <2>5
  <2>7. /\ \A j \in DOMAIN t : IsByte(t[j])'
        /\ \A j \in 1..(Len(t) - 1) : Follows(t[j], t[j + 1])'
        /\ t # <<>> => Ends(t[Len(t)])' /\ t[Len(t)].of = Len(sent)
        /\ \A i \in DOMAIN sent : i >= o => \E j \in DOMAIN t : t[j].of = i /\ Ends(t[j])'
    BY <1>8, <2>1, <2>2, <2>3, <2>6
  <2>8. wire' = t /\ sent' = sent /\ NextOf' = o
    BY <1>7, <2>5
  <2> QED BY ONLY <2>7, <2>8 DEF WireInv
<1> QED BY <1>1, <1>2, <1>6, <1>9, <1>10

\* The bytes of a message that was sent.
LEMMA BytesOfNew ==
  ASSUME PlainText, NEW i \in Nat, NEW k \in Kinds, NEW new, new = Bytes(i, k)
  PROVE  /\ new \in Seq(ByteSet) /\ Len(new) = Len(Text[k]) /\ Len(Text[k]) \in Nat /\ Len(Text[k]) >= 2
         /\ \A j \in 1..Len(Text[k]) : new[j] = [of |-> i, at |-> j, is |-> Text[k][j]]
BY BytesAre, LoopAssumption DEF PlainText, Bytes

\* A message is sent.
LEMMA SendsBytes ==
  ASSUME PlainText, SerialTypes, WireInv, NEW k \in Kinds, HostSends(k)
  PROVE  /\ WireInv' /\ NextOf' = NextOf /\ NextAt' = NextAt
         /\ sent' = Append(sent, k) /\ Len(sent') = Len(sent) + 1 /\ sent'[Len(sent) + 1] = k
         /\ \A i \in DOMAIN sent : sent'[i] = sent[i] /\ i \in DOMAIN sent'
         /\ DOMAIN sent' = 1..(Len(sent) + 1)
<1>1. PICK w, n, m, new, size : /\ w = wire /\ n = Len(wire) /\ m = Len(sent) + 1
                               /\ new = Bytes(Len(sent) + 1, k) /\ size = Len(Text[k])
  OBVIOUS
<1>2. /\ w \in Seq(ByteSet) /\ n \in Nat /\ n = Len(w) /\ DOMAIN w = 1..n /\ m \in Nat \ {0}
      /\ sent \in Seq(Kinds) /\ DOMAIN sent = 1..(m - 1) /\ Len(sent) = m - 1
      /\ (w = <<>> <=> n = 0)
  BY <1>1 DEF SerialTypes
<1>3. /\ new \in Seq(ByteSet) /\ Len(new) = size /\ size \in Nat /\ size >= 2
      /\ \A j \in 1..size : new[j] = [of |-> m, at |-> j, is |-> Text[k][j]]
  <2>1. m \in Nat /\ new = Bytes(m, k)
    BY <1>1, <1>2
  <2>2. /\ new \in Seq(ByteSet) /\ Len(new) = Len(Text[k]) /\ Len(Text[k]) \in Nat /\ Len(Text[k]) >= 2
        /\ \A j \in 1..Len(Text[k]) : new[j] = [of |-> m, at |-> j, is |-> Text[k][j]]
    BY ONLY PlainText, <2>1, k \in Kinds, BytesOfNew
  <2> QED BY <1>1, <2>2
<1>4. PICK t, s : t = w \o new /\ s = Append(sent, k)
  OBVIOUS
<1>5. wire' = t /\ sent' = s
  BY <1>1, <1>4 DEF HostSends
<1>6. /\ t \in Seq(ByteSet) /\ Len(t) = n + size /\ DOMAIN t = 1..(n + size)
      /\ \A j \in 1..n : t[j] = w[j]
      /\ \A j \in 1..size : t[n + j] = new[j]
  <2>1. t \in Seq(ByteSet) /\ Len(t) = n + size
        /\ \A j \in 1..(n + size) : t[j] = IF j <= n THEN w[j] ELSE new[j - n]
    <3>1. w \in Seq(ByteSet) /\ new \in Seq(ByteSet)
      BY <1>2, <1>3
    <3>2. /\ w \o new \in Seq(ByteSet) /\ Len(w \o new) = Len(w) + Len(new)
          /\ \A j \in 1..(Len(w) + Len(new)) :
               (w \o new)[j] = IF j <= Len(w) THEN w[j] ELSE new[j - Len(w)]
      BY <3>1, Joined
    <3>3. Len(w) = n /\ Len(new) = size
      BY <1>2, <1>3
    <3> QED BY <1>4, <3>2, <3>3
  <2>2. \A j \in 1..n : j \in 1..(n + size) /\ j <= n
    BY <1>2, <1>3
  <2>3. \A j \in 1..size : n + j \in 1..(n + size) /\ ~(n + j <= n) /\ (n + j) - n = j
    BY <1>2, <1>3
  <2>4. DOMAIN t = 1..(n + size)
    BY <2>1
  <2> QED BY <2>1, <2>2, <2>3, <2>4
<1>7. /\ Len(s) = m /\ s[m] = k /\ \A i \in 1..(m - 1) : s[i] = sent[i]
      /\ DOMAIN s = 1..m
  BY <1>2, <1>4
<1>8. \A j \in 1..(n + size) : j \in 1..n \/ (j - n \in 1..size /\ j = n + (j - n))
  BY <1>2, <1>3
<1>9. /\ \A j \in DOMAIN w : IsByte(w[j])
      /\ \A j \in 1..(n - 1) : Follows(w[j], w[j + 1])
      /\ (n # 0 => Ends(w[n]) /\ w[n].of = m - 1)
      /\ \A i \in DOMAIN sent : i >= NextOf => \E j \in DOMAIN w : w[j].of = i /\ Ends(w[j])
  BY <1>1, <1>2 DEF WireInv
<1>10. NextOf' = NextOf /\ NextAt' = NextAt
  <2>1. t # <<>> /\ NextOf' = t[1].of /\ NextAt' = t[1].at
    <3>1. t # <<>>
      BY <1>2, <1>3, <1>6
    <3> QED BY <1>5, <3>1 DEF NextOf, NextAt
  <2>2. CASE n = 0
    <3>1. NextOf = m /\ NextAt = 1
      BY <1>1, <1>2, <2>2 DEF NextOf, NextAt
    <3>2. t[0 + 1] = new[1] /\ 1 \in 1..size
      BY <1>3, <1>6, <2>2
    <3>3. t[1] = new[1]
      BY <3>2
    <3> QED BY <1>3, <2>1, <3>1, <3>2, <3>3
  <2>3. CASE n # 0
    <3>1. t[1] = w[1]
      BY <1>2, <1>6, <2>3
    <3>2. NextOf = w[1].of /\ NextAt = w[1].at
      BY <1>1, <1>2, <2>3 DEF NextOf, NextAt
    <3> QED BY <2>1, <3>1, <3>2
  <2> QED BY <2>2, <2>3
<1>11. \A i \in 1..(m - 1) : LengthOf(i)' = LengthOf(i) /\ \A j : Byte(i, j)' = Byte(i, j)
  BY <1>5, <1>7 DEF LengthOf, Byte
<1>12. LengthOf(m)' = size /\ \A j : Byte(m, j)' = [of |-> m, at |-> j, is |-> Text[k][j]]
  BY <1>1, <1>5, <1>7 DEF LengthOf, Byte
<1>13. \A j \in 1..n : IsByte(w[j])' /\ Ends(w[j])' = Ends(w[j]) /\ w[j].of \in 1..(m - 1)
  <2> SUFFICES ASSUME NEW j \in 1..n
               PROVE  IsByte(w[j])' /\ Ends(w[j])' = Ends(w[j]) /\ w[j].of \in 1..(m - 1)
    OBVIOUS
  <2>1. PICK b : b = w[j]
    OBVIOUS
  <2>2. b.of \in 1..(m - 1) /\ b.at \in 1..LengthOf(b.of) /\ b = Byte(b.of, b.at)
    BY <1>2, <1>9, <2>1 DEF IsByte
  <2>3. /\ LengthOf(b.of)' = LengthOf(b.of) /\ Byte(b.of, b.at)' = Byte(b.of, b.at)
    BY <1>11, <2>2
  <2>4. b.of \in DOMAIN sent'
    BY <1>2, <1>5, <1>7, <2>2
  <2>5. IsByte(b)'
    BY <2>2, <2>3, <2>4 DEF IsByte
  <2>6. Ends(b)' = Ends(b)
    BY <2>3 DEF Ends
  <2> QED BY <2>1, <2>2, <2>5, <2>6
<1>14. \A j \in 1..size : IsByte(new[j])' /\ (Ends(new[j])' <=> j = size) /\ new[j].of = m /\ new[j].at = j
  <2> SUFFICES ASSUME NEW j \in 1..size
               PROVE  IsByte(new[j])' /\ (Ends(new[j])' <=> j = size) /\ new[j].of = m /\ new[j].at = j
    OBVIOUS
  <2>1. PICK b : b = new[j]
    OBVIOUS
  <2>2. b = [of |-> m, at |-> j, is |-> Text[k][j]] /\ b.of = m /\ b.at = j
    BY <1>3, <2>1
  <2>3. m \in DOMAIN sent'
    BY <1>2, <1>5, <1>7
  <2>4. IsByte(b)'
    BY <1>12, <2>2, <2>3 DEF IsByte
  <2>5. Ends(b)' <=> j = size
    BY <1>12, <2>2 DEF Ends
  <2> QED BY <2>1, <2>2, <2>4, <2>5
<1>15. WireInv'
  <2>1. \A j \in DOMAIN t : IsByte(t[j])'
    BY <1>6, <1>8, <1>13, <1>14
  <2>2. ASSUME NEW j \in 1..(n + size - 1) PROVE Follows(t[j], t[j + 1])'
    <3>1. CASE j \in 1..(n - 1)
      <4>1. j \in 1..n /\ j + 1 \in 1..n
        BY <1>2, <3>1
      <4>2. t[j] = w[j] /\ t[j + 1] = w[j + 1] /\ Follows(w[j], w[j + 1]) /\ Ends(w[j])' = Ends(w[j])
        BY <1>6, <1>9, <1>13, <3>1, <4>1
      <4> QED BY <4>2 DEF Follows
    <3>2. CASE j = n
      <4>1. n \in 1..n /\ 1 \in 1..size /\ n + 1 = j + 1 /\ n # 0 /\ (m - 1) + 1 = m
        BY <1>2, <1>3, <3>2
      <4>2. t[j] = w[n] /\ t[j + 1] = new[1] /\ Ends(w[n])' /\ w[n].of = m - 1
        BY <1>6, <1>9, <1>13, <3>2, <4>1
      <4>3. new[1].of = m /\ new[1].at = 1
        BY <1>14, <4>1
      <4> QED BY <4>1, <4>2, <4>3 DEF Follows
    <3>3. CASE ~(j <= n)
      <4>1. PICK i : i = j - n
        OBVIOUS
      <4>2. i \in 1..size /\ i + 1 \in 1..size /\ j = n + i /\ j + 1 = n + (i + 1) /\ i # size
        BY <1>2, <1>3, <3>3, <4>1
      <4>3. t[j] = new[i] /\ t[j + 1] = new[i + 1]
        BY <1>6, <4>2
      <4>4. ~Ends(new[i])' /\ new[i].of = m /\ new[i].at = i /\ new[i + 1].of = m /\ new[i + 1].at = i + 1
        BY <1>14, <4>2
      <4> QED BY <4>3, <4>4 DEF Follows
    <3> QED BY <1>2, <3>1, <3>2, <3>3
  <2>3. Ends(t[n + size])' /\ t[n + size].of = m
    <3>1. size \in 1..size
      BY <1>3
    <3> QED BY <1>6, <1>14, <3>1
  <2>4. ASSUME NEW i \in 1..m, i >= NextOf PROVE \E j \in DOMAIN t : t[j].of = i /\ Ends(t[j])'
    <3>1. CASE i = m
      <4>1. n + size \in DOMAIN t
        BY <1>2, <1>3, <1>6
      <4> QED BY <2>3, <3>1, <4>1
    <3>2. CASE i # m
      <4>1. i \in DOMAIN sent
        BY <1>2, <3>2
      <4>2. PICK j \in 1..n : w[j].of = i /\ Ends(w[j])
        BY <1>2, <1>9, <2>4, <4>1
      <4>3. j \in DOMAIN t /\ t[j] = w[j]
        BY <1>2, <1>3, <1>6
      <4> QED BY <1>13, <4>2, <4>3
    <3> QED BY <3>1, <3>2
  <2>5. PICK o : o = NextOf
    OBVIOUS
  <2>6. \A i \in 1..m : i >= o => \E j \in DOMAIN t : t[j].of = i /\ Ends(t[j])'
    BY <2>4, <2>5
  <2>7. NextOf' = o
    BY <1>10, <2>5
  <2>8. \A j \in 1..(Len(t) - 1) : Follows(t[j], t[j + 1])'
    <3>1. Len(t) - 1 = n + size - 1
      BY <1>2, <1>3, <1>6
    <3> QED BY <2>2, <3>1
  <2>9. DOMAIN sent' = 1..m /\ Len(sent') = m
    BY <1>5, <1>7
  <2> QED BY <1>5, <1>6, <2>1, <2>3, <2>6, <2>7, <2>8, <2>9 DEF WireInv
<1> QED BY <1>1, <1>2, <1>4, <1>5, <1>7, <1>10, <1>15
-----------------------------------------------------------------------------
(* What is said of the port.                                               *)

\* The first n bytes of message i, whose text is t.
Bits(i, t, n) == [j \in 1..n |-> [of |-> i, at |-> j, is |-> t[j]]]
ReadSoFar(n) == Bits(NextOf, Text[sent[NextOf]], n)

\* A host that has asked for another protocol sends COBS blocks only.
Asks == {"upgrade", "gateway"} \cup FrameKinds
SentInv ==
  /\ \A i, j \in DOMAIN sent : i < j /\ sent[i] \in Asks => sent[j] \in FrameKinds
  /\ ~byButton => \A j \in DOMAIN sent : sent[j] \in FrameKinds =>
       \E i \in DOMAIN sent : i < j /\ sent[i] \in {"upgrade", "gateway"}

\* line_ is what was read of a message, unless it is too long, and after a
\* request the endpoint stands between two messages.
LineInv ==
  active = "Legacy" =>
    /\ ~byButton /\ block = <<>>
    /\ requested = "none" =>
         /\ \A i \in DOMAIN sent : i < NextOf => sent[i] \in LineKinds \ {"upgrade", "gateway"}
         /\ discarding => line = <<>> /\ NextAt - 1 > LineLimit
         /\ ~discarding => line = ReadSoFar(NextAt - 1) /\ NextAt - 1 <= LineLimit
    /\ requested # "none" =>
         /\ requested \in {"upgrade", "gateway"}
         /\ NextAt = 1 /\ NextOf > 1 /\ sent[NextOf - 1] = requested

\* The block is what was read of a message, cut at its limit, as soon as the
\* endpoint has found its place between two messages.
InStep == ~byButton \/ (NextOf > 1 /\ sent[NextOf - 1] \in FrameKinds)
Cut(n) == IF n < BlockLimit THEN n ELSE BlockLimit
BlockInv ==
  active # "Legacy" =>
    /\ ~byButton => \E i \in DOMAIN sent : i < NextOf /\ sent[i] \in Asks
    /\ InStep => block = ReadSoFar(Cut(NextAt - 1))
    /\ block # <<>> =>
         /\ block[1].of \in DOMAIN sent /\ block[1].of <= NextOf
         /\ \A n \in DOMAIN handled : handled[n].of < block[1].of

Owed(i) == Sound(i) /\ (sent[i] \in FrameKinds => FitsBlock(sent[i]))
HandledInv ==
  /\ handled \in Seq([of: Nat, by: Owners])
  /\ \A n \in DOMAIN handled :
       /\ handled[n].of \in DOMAIN sent /\ handled[n].of < NextOf
       /\ sent[handled[n].of] \in LineKinds <=> handled[n].by = "Legacy"
  /\ \A m, n \in DOMAIN handled : m < n => handled[m].of < handled[n].of
  /\ \A i \in DOMAIN sent : i < NextOf /\ Owed(i) => \E n \in DOMAIN handled : handled[n].of = i

PortInv == WireInv /\ SentInv /\ LineInv /\ BlockInv /\ HandledInv

\* It says that every message is handled once.
LEMMA PortSuffices ==
  ASSUME PlainText, SerialTypes, PortInv
  PROVE  EveryMessageOnce
<1>1. \A n \in DOMAIN handled : handled[n].of # Garbage
  BY Lengths DEF PortInv, HandledInv, Garbage
<1>2. \A m, n \in DOMAIN handled : m < n => handled[m].of < handled[n].of
  BY DEF PortInv, HandledInv
<1>3. \A n \in DOMAIN handled : sent[handled[n].of] \in LineKinds <=> handled[n].by = "Legacy"
  BY DEF PortInv, HandledInv
<1>4. ASSUME NEW i \in Consumed, Owed(i) PROVE \E n \in DOMAIN handled : handled[n].of = i
  <2>1. i \in DOMAIN sent /\ \A j \in DOMAIN wire : wire[j].of # i
    BY <1>4 DEF Consumed
  <2>2. ~(i >= NextOf)
    BY <2>1 DEF PortInv, WireInv
  <2>3. i < NextOf
    BY <2>1, <2>2, Lengths, NextRange DEF PortInv
  <2> QED BY <1>4, <2>1, <2>3 DEF PortInv, HandledInv
<1> QED BY <1>1, <1>2, <1>3, <1>4 DEF EveryMessageOnce, Owed

\* What the first bytes of a message are.
LEMMA BitsAre ==
  ASSUME NEW i, NEW t, NEW n \in Nat
  PROVE  /\ Bits(i, t, 0) = <<>> /\ Len(Bits(i, t, n)) = n
         /\ Append(Bits(i, t, n), [of |-> i, at |-> n + 1, is |-> t[n + 1]]) = Bits(i, t, n + 1)
         /\ Front(Bits(i, t, n + 1)) = Bits(i, t, n)
         /\ n # 0 => Bits(i, t, n) # <<>> /\ Bits(i, t, n)[1].of = i
<1>1. PICK x : x = [j \in 1..(n + 1) |-> [of |-> i, at |-> j, is |-> t[j]]]
  OBVIOUS
<1> DEFINE T == {x[j] : j \in 1..(n + 1)}
<1>2. n + 1 \in Nat /\ \A j \in 1..n : j \in 1..(n + 1)
  OBVIOUS
<1>3. PICK s, u : s = [j \in 1..n |-> x[j]] /\ u = x[n + 1]
  OBVIOUS
<1>4. s \in [1..n -> T] /\ x \in [1..(n + 1) -> T] /\ u \in T
  BY <1>1, <1>2, <1>3
<1> HIDE DEF T
<1>5. s \in Seq(T) /\ Len(s) = n /\ x \in Seq(T) /\ Len(x) = n + 1
  BY <1>2, <1>4
<1>6. Bits(i, t, n) = s /\ Bits(i, t, n + 1) = x
  BY <1>1, <1>2, <1>3 DEF Bits
<1>7. u = [of |-> i, at |-> n + 1, is |-> t[n + 1]]
  BY <1>1, <1>3
<1>8. Append(s, u) = x
  <2>1. PICK a : a = Append(s, u)
    OBVIOUS
  <2>2. a \in Seq(T) /\ Len(a) = n + 1 /\ a[n + 1] = u /\ \A j \in 1..n : a[j] = s[j]
    BY <1>4, <1>5, <2>1
  <2>3. \A j \in 1..(n + 1) : a[j] = x[j]
    <3>1. \A j \in 1..(n + 1) : j \in 1..n \/ j = n + 1
      OBVIOUS
    <3> QED BY <1>3, <2>2, <3>1
  <2>4. a = [j \in 1..(n + 1) |-> a[j]] /\ x = [j \in 1..(n + 1) |-> x[j]]
    BY <1>5, <2>2
  <2> QED BY <2>1, <2>3, <2>4
<1>9. Front(x) = s
  <2>1. Front(x) = SubSeq(x, 1, n)
    BY <1>5 DEF Front
  <2>2. SubSeq(x, 1, n) = [j \in 1..n |-> x[j]]
    BY <1>2, <1>5
  <2> QED BY <1>3, <2>1, <2>2
<1>10. n # 0 => s # <<>> /\ s[1].of = i
  <2>1. n # 0 => 1 \in 1..n /\ 1 \in 1..(n + 1)
    OBVIOUS
  <2> QED BY <1>1, <1>3, <1>5, <2>1
<1>11. Bits(i, t, 0) = <<>>
  BY DEF Bits
<1> QED BY <1>5, <1>6, <1>7, <1>8, <1>9, <1>10, <1>11

\* Which bytes end a message.
LEMMA EndByte ==
  ASSUME PlainText, NEW k \in Kinds, NEW j \in 1..Len(Text[k])
  PROVE  /\ k \in LineKinds => (Text[k][j] = "newline" <=> j = Len(Text[k])) /\ Text[k][j] # "zero"
         /\ k \in FrameKinds => (Text[k][j] = "zero" <=> j = Len(Text[k]))
<1>1. Len(Text[k]) \in Nat
  BY LoopAssumption
<1>2. j = Len(Text[k]) \/ j \in 1..(Len(Text[k]) - 1)
  BY <1>1
<1>3. /\ k \in LineKinds => Text[k][Len(Text[k])] = "newline"
      /\ k \in FrameKinds => Text[k][Len(Text[k])] = "zero"
  BY LoopAssumption DEF Last
<1>4. j \in 1..(Len(Text[k]) - 1) => j # Len(Text[k])
  BY <1>1
<1> QED BY <1>2, <1>3, <1>4 DEF PlainText

\* What is left of a message once its last byte is read.
LEMMA FrontOfBytes ==
  ASSUME PlainText, SerialTypes, NEW i \in DOMAIN sent
  PROVE  Front(Bytes(i, sent[i])) = Bits(i, Text[sent[i]], LengthOf(i) - 1)
<1>0. PICK t, n : t = Text[sent[i]] /\ n = LengthOf(i) - 1
  OBVIOUS
<1>1. n \in Nat /\ n + 1 = LengthOf(i)
  BY <1>0, Lengths
<1>2. Bytes(i, sent[i]) = Bits(i, t, LengthOf(i))
  BY <1>0 DEF Bytes, Bits, LengthOf
<1>3. Bytes(i, sent[i]) = Bits(i, t, n + 1)
  BY <1>1, <1>2
<1>4. Front(Bits(i, t, n + 1)) = Bits(i, t, n)
  BY <1>1, BitsAre
<1> QED BY <1>0, <1>3, <1>4
-----------------------------------------------------------------------------
(* A message is sent, and steps that leave the port alone.                 *)

\* No step of the other components concerns the port.
LEMMA PortRests == ASSUME PortInv, UNCHANGED serial PROVE PortInv'
<1>1. /\ UNCHANGED <<active, sent, wire, line, discarding, block, requested, handled, byButton>>
  BY DEF serial
<1>2. NextOf' = NextOf /\ NextAt' = NextAt
  BY <1>1 DEF NextOf, NextAt
<1>3. WireInv'
  BY <1>1, <1>2 DEF PortInv, WireInv, IsByte, Ends, Follows, LengthOf, Byte
<1>4. SentInv'
  BY <1>1 DEF PortInv, SentInv
<1>5. LineInv'
  BY <1>1, <1>2 DEF PortInv, LineInv, ReadSoFar
<1>6. BlockInv'
  BY <1>1, <1>2 DEF PortInv, BlockInv, ReadSoFar, InStep
<1>7. HandledInv'
  BY <1>1, <1>2 DEF PortInv, HandledInv, Owed, Sound
<1> QED BY <1>3, <1>4, <1>5, <1>6, <1>7 DEF PortInv

\* The port of a board that has just started.
LEMMA PortStarts ==
  ASSUME sent = <<>>, wire = <<>>, handled = <<>>, byButton = FALSE, active = "Legacy",
         line = <<>>, discarding = FALSE, block = <<>>, requested = "none"
  PROVE  PortInv
<1>1. Len(sent) = 0 /\ DOMAIN sent = {} /\ DOMAIN wire = {} /\ Len(wire) = 0 /\ DOMAIN handled = {}
  OBVIOUS
<1>2. NextOf = 1 /\ NextAt = 1
  BY <1>1 DEF NextOf, NextAt
<1>3. WireInv
  BY <1>1 DEF WireInv
<1>4. SentInv
  BY <1>1 DEF SentInv
<1>5. LineInv
  <2>1. ReadSoFar(NextAt - 1) = <<>> /\ NextAt - 1 = 0
    BY <1>2 DEF ReadSoFar, Bits
  <2> QED BY <1>1, <2>1, LoopAssumption DEF LineInv
<1>6. BlockInv
  BY DEF BlockInv
<1>7. handled \in Seq([of: Nat, by: Owners])
  OBVIOUS
<1>8. HandledInv
  BY <1>1, <1>7 DEF HandledInv
<1> QED BY <1>3, <1>4, <1>5, <1>6, <1>8 DEF PortInv

\* A message more on the wire.
LEMMA PortSends ==
  ASSUME PlainText, SerialTypes, PortInv, NEW k \in Kinds, HostSends(k)
  PROVE  PortInv'
<1>1. PICK m : m = Len(sent) + 1
  OBVIOUS
<1>2. /\ WireInv' /\ NextOf' = NextOf /\ NextAt' = NextAt
      /\ sent'[m] = k /\ DOMAIN sent' = 1..m
      /\ \A i \in DOMAIN sent : sent'[i] = sent[i] /\ i \in DOMAIN sent'
  BY <1>1, SendsBytes DEF PortInv
<1>3. /\ k \in Expects
      /\ UNCHANGED <<active, line, discarding, block, requested, handled, byButton>>
  BY DEF HostSends
<1>4. m \in Nat \ {0} /\ DOMAIN sent = 1..(m - 1) /\ \A i \in 1..m : i \in 1..(m - 1) \/ i = m
  BY <1>1, Lengths
<1>5. NextOf \in 1..m /\ NextAt \in Nat \ {0} /\ (NextAt # 1 => NextOf \in DOMAIN sent)
  BY <1>1, NextRange DEF PortInv
<1>6. \A n \in Nat : n <= NextAt - 1 => ReadSoFar(n)' = ReadSoFar(n)
  <2> SUFFICES ASSUME NEW n \in Nat, n <= NextAt - 1 PROVE ReadSoFar(n)' = ReadSoFar(n)
    OBVIOUS
  <2>1. CASE n = 0
    BY <2>1, BitsAre DEF ReadSoFar
  <2>2. CASE n # 0
    <3>1. NextOf \in DOMAIN sent
      BY <1>5, <2>2
    <3>2. sent'[NextOf'] = sent[NextOf]
      BY <1>2, <3>1
    <3> QED BY <1>2, <3>2 DEF ReadSoFar
  <2> QED BY <2>1, <2>2
<1>7. NextAt - 1 \in Nat /\ Cut(NextAt - 1) \in Nat /\ Cut(NextAt - 1) <= NextAt - 1
  BY <1>5, LoopAssumption DEF Cut
<1>8. SentInv'
  <2>1. ASSUME NEW i \in DOMAIN sent, sent[i] \in Asks PROVE k \in FrameKinds
    <3>1. Expects = FrameKinds
      BY <2>1 DEF Expects, Asks
    <3> QED BY <1>3, <3>1
  <2>2. ASSUME NEW i \in 1..m, NEW j \in 1..m, i < j, sent'[i] \in Asks PROVE sent'[j] \in FrameKinds
    <3>1. i \in DOMAIN sent /\ sent'[i] = sent[i]
      BY <1>2, <1>4, <2>2
    <3>2. CASE j = m
      BY <1>2, <2>1, <2>2, <3>1, <3>2
    <3>3. CASE j # m
      BY <1>2, <1>4, <2>2, <3>1, <3>3 DEF PortInv, SentInv
    <3> QED BY <3>2, <3>3
  <2>3. ASSUME ~byButton, NEW j \in 1..m, sent'[j] \in FrameKinds
        PROVE  \E i \in 1..m : i < j /\ sent'[i] \in {"upgrade", "gateway"}
    <3>1. ASSUME NEW n \in DOMAIN sent, sent[n] \in FrameKinds, n <= j
          PROVE  \E i \in 1..m : i < j /\ sent'[i] \in {"upgrade", "gateway"}
      <4>1. PICK i \in DOMAIN sent : i < n /\ sent[i] \in {"upgrade", "gateway"}
        BY <2>3, <3>1 DEF PortInv, SentInv
      <4> QED BY <1>2, <1>4, <3>1, <4>1
    <3>2. CASE j # m
      <4>1. j \in DOMAIN sent /\ j <= j
        BY <1>4, <3>2
      <4>2. sent[j] \in FrameKinds
        BY <1>2, <2>3, <4>1
      <4> QED BY <3>1, <4>1, <4>2
    <3>3. CASE j = m
      <4>1. k \in FrameKinds
        BY <1>2, <2>3, <3>3
      <4>2. \E i \in DOMAIN sent : sent[i] \in {"upgrade", "gateway"} \cup FrameKinds
        <5> SUFFICES ASSUME ~ \E i \in DOMAIN sent : sent[i] \in {"upgrade", "gateway"} \cup FrameKinds
                     PROVE  FALSE
          OBVIOUS
        <5>1. Expects = LineKinds
          BY <2>3 DEF Expects
        <5> QED BY <1>3, <4>1, <5>1, LoopAssumption
      <4>3. PICK i \in DOMAIN sent : sent[i] \in {"upgrade", "gateway"} \cup FrameKinds
        BY <4>2
      <4>4. i < j /\ i <= j /\ i \in 1..m
        BY <1>4, <3>3
      <4>5. CASE sent[i] \in FrameKinds
        BY <3>1, <4>4, <4>5
      <4>6. CASE sent[i] \in {"upgrade", "gateway"}
        BY <1>2, <4>4, <4>6
      <4> QED BY <4>3, <4>5, <4>6
    <3> QED BY <3>2, <3>3
  <2> QED BY <1>2, <1>3, <2>2, <2>3 DEF SentInv
<1>9. LineInv'
  <2>1. ASSUME active = "Legacy", requested # "none" PROVE sent'[NextOf - 1] = requested
    <3>1. NextOf > 1 /\ sent[NextOf - 1] = requested
      BY <2>1 DEF PortInv, LineInv
    <3>2. NextOf - 1 \in DOMAIN sent
      BY <1>4, <1>5, <3>1
    <3> QED BY <1>2, <3>1, <3>2
  <2>2. ASSUME active = "Legacy", requested = "none", NEW i \in DOMAIN sent', i < NextOf
        PROVE  sent'[i] \in LineKinds \ {"upgrade", "gateway"}
    <3>1. i \in DOMAIN sent
      BY <1>2, <1>4, <1>5, <2>2
    <3> QED BY <1>2, <2>2, <3>1 DEF PortInv, LineInv
  <2>3. ReadSoFar(NextAt - 1)' = ReadSoFar(NextAt - 1)
    BY <1>2, <1>5, <1>6, <1>7 DEF ReadSoFar
  <2> QED BY <1>2, <1>3, <2>1, <2>2, <2>3 DEF PortInv, LineInv
<1>10. BlockInv'
  <2>1. InStep' => InStep
    <3> SUFFICES ASSUME NextOf > 1, sent'[NextOf - 1] \in FrameKinds PROVE sent[NextOf - 1] \in FrameKinds
      BY <1>2, <1>3 DEF InStep
    <3>1. NextOf - 1 \in DOMAIN sent
      BY <1>4, <1>5
    <3> QED BY <1>2, <3>1
  <2>2. ReadSoFar(Cut(NextAt - 1))' = ReadSoFar(Cut(NextAt - 1))
    BY <1>2, <1>6, <1>7 DEF ReadSoFar, Cut
  <2>3. ASSUME NEW i \in DOMAIN sent, sent[i] \in Asks PROVE sent'[i] \in Asks
    BY <1>2, <2>3
  <2> QED BY <1>2, <1>3, <2>1, <2>2, <2>3 DEF PortInv, BlockInv
<1>11. HandledInv'
  <2>1. ASSUME NEW i \in DOMAIN sent', i < NextOf', Owed(i)' PROVE i \in DOMAIN sent /\ Owed(i)
    <3>1. i \in DOMAIN sent
      BY <1>2, <1>4, <1>5, <2>1
    <3>2. i > 1 => i - 1 \in DOMAIN sent
      BY <1>4, <3>1
    <3>3. sent'[i] = sent[i] /\ (i > 1 => sent'[i - 1] = sent[i - 1])
      BY <1>2, <3>1, <3>2
    <3> QED BY <1>3, <2>1, <3>1, <3>3 DEF Owed, Sound
  <2> QED BY <1>2, <1>3, <2>1 DEF PortInv, HandledInv
<1> QED BY <1>2, <1>8, <1>9, <1>10, <1>11 DEF PortInv
-----------------------------------------------------------------------------
(* The port changes hands; the legacy endpoint reads.                      *)

\* The port changes hands between two messages, or wherever the screen has it.
LEMMA PortChangesHands ==
  ASSUME PlainText, SerialTypes, PortInv, SerialDone
  PROVE  PortInv'
<1>1. UNCHANGED <<sent, wire, line, discarding, block, requested, handled>>
  BY DEF SerialDone
<1>2. CASE UNCHANGED <<active, byButton>>
  BY <1>1, <1>2, PortRests DEF serial
<1>3. CASE ~ UNCHANGED <<active, byButton>>
  <2>1. /\ active = "Legacy" /\ active' # "Legacy"
        /\ \/ requested = "upgrade" /\ byButton' = byButton
           \/ byButton' = (requested # "gateway")
    <3>1. active = "Legacy"
      BY <1>3 DEF SerialDone
    <3>2. CASE WantsGateway
      BY <3>1, <3>2 DEF SerialDone, EnterGateway
    <3>3. CASE ~WantsGateway
      BY <1>3, <3>1, <3>3 DEF SerialDone
    <3> QED BY <3>1, <3>2, <3>3
  <2>2. ~byButton /\ block = <<>>
    BY <2>1 DEF PortInv, LineInv
  <2>3. NextOf' = NextOf /\ NextAt' = NextAt
    BY <1>1 DEF NextOf, NextAt
  <2>4. WireInv'
    BY <1>1, <2>3 DEF PortInv, WireInv, IsByte, Ends, Follows, LengthOf, Byte
  <2>5. SentInv'
    BY <1>1, <2>2 DEF PortInv, SentInv
  <2>6. LineInv'
    BY <2>1 DEF LineInv
  <2>7. /\ NextOf \in 1..(Len(sent) + 1) /\ NextAt \in Nat \ {0} /\ Len(sent) \in Nat
        /\ DOMAIN sent = 1..Len(sent)
    BY NextRange, Lengths DEF PortInv
  <2>8. requested # "none" => NextAt = 1 /\ NextOf - 1 \in DOMAIN sent /\ NextOf - 1 < NextOf
                              /\ sent[NextOf - 1] \in {"upgrade", "gateway"}
    BY <2>1, <2>7 DEF PortInv, LineInv
  <2>9. requested = "none" => byButton'
    BY <2>1
  <2>10. BlockInv'
    <3>1. ASSUME ~byButton' PROVE \E i \in DOMAIN sent : i < NextOf /\ sent[i] \in Asks
      BY <2>8, <2>9, <3>1 DEF Asks
    <3>2. ASSUME InStep' PROVE NextAt = 1
      <4> SUFFICES ASSUME requested = "none" PROVE FALSE
        BY <2>8
      <4>1. NextOf > 1 /\ sent[NextOf - 1] \in FrameKinds
        BY <1>1, <2>3, <2>9, <3>2 DEF InStep
      <4>2. NextOf - 1 \in DOMAIN sent /\ NextOf - 1 < NextOf
        BY <2>7, <4>1
      <4>3. sent[NextOf - 1] \in LineKinds
        BY <2>1, <4>2 DEF PortInv, LineInv
      <4> QED BY <4>1, <4>3, LoopAssumption
    <3>3. ASSUME NextAt = 1 PROVE block = ReadSoFar(Cut(NextAt - 1))'
      <4>1. Cut(NextAt - 1) = 0
        BY <3>3, LoopAssumption DEF Cut
      <4>2. Cut(NextAt - 1)' = 0
        BY <2>3, <4>1 DEF Cut
      <4> QED BY <2>2, <4>2, BitsAre DEF ReadSoFar
    <3> QED BY <1>1, <2>2, <2>3, <3>1, <3>2, <3>3 DEF BlockInv
  <2>11. HandledInv'
    <3>1. \A i : Owed(i)' => Owed(i)
      BY <1>1, <2>2 DEF Owed, Sound
    <3> QED BY <1>1, <2>3, <3>1 DEF PortInv, HandledInv
  <2> QED BY <2>4, <2>5, <2>6, <2>10, <2>11 DEF PortInv
<1> QED BY <1>2, <1>3

\* A byte that ends no message handled, or one that need not be.
LEMMA HandlesNone ==
  ASSUME PlainText, SerialTypes, HandledInv, WireInv, UNCHANGED <<sent, byButton, handled>>,
         \/ NextOf' = NextOf
         \/ NextOf' = NextOf + 1 /\ ~Owed(NextOf)
  PROVE  HandledInv'
<1>1. NextOf \in Nat /\ \A i \in DOMAIN sent : i \in Nat
  BY NextRange, Lengths
<1>2. \A i \in DOMAIN sent : i < NextOf' /\ Owed(i)' => i < NextOf /\ Owed(i)
  <2>1. \A i : Owed(i)' = Owed(i)
    BY DEF Owed, Sound
  <2>2. \A i \in DOMAIN sent : i < NextOf' => i < NextOf \/ (i = NextOf /\ NextOf' = NextOf + 1)
    BY <1>1
  <2> QED BY <2>1, <2>2
<1>3. \A i \in DOMAIN sent : i < NextOf => i < NextOf'
  BY <1>1
<1> QED BY <1>2, <1>3 DEF HandledInv

\* A byte that ends the message handled.
LEMMA HandlesOne ==
  ASSUME PlainText, SerialTypes, HandledInv, WireInv, UNCHANGED <<sent, byButton>>,
         NextOf' = NextOf + 1, NEW i \in DOMAIN sent, i <= NextOf, NEW a \in Owners,
         handled' = Append(handled, [of |-> i, by |-> a]),
         \A n \in DOMAIN handled : handled[n].of < i,
         sent[i] \in LineKinds <=> a = "Legacy",
         Owed(NextOf) => i = NextOf
  PROVE  HandledInv'
<1>1. NextOf \in Nat /\ \A j \in DOMAIN sent : j \in Nat
  BY NextRange, Lengths
<1>2. PICK h, r, new : h = handled /\ r = [of |-> i, by |-> a] /\ new = Append(h, r)
  OBVIOUS
<1> DEFINE T == [of: Nat, by: Owners]
<1>3. h \in Seq(T) /\ r \in T /\ r.of = i /\ r.by = a
  BY <1>1, <1>2 DEF HandledInv
<1>4. handled' = new
  BY <1>2
<1> HIDE DEF T
<1>5. /\ new \in Seq(T) /\ DOMAIN new = 1..(Len(h) + 1) /\ DOMAIN h = 1..Len(h) /\ Len(h) \in Nat
      /\ new[Len(h) + 1] = r /\ \A n \in 1..Len(h) : new[n] = h[n]
  BY <1>2, <1>3
<1>6. \A n \in DOMAIN new : n \in DOMAIN h \/ n = Len(h) + 1
  BY <1>5
<1>7. ASSUME NEW n \in DOMAIN new
      PROVE  /\ new[n].of \in DOMAIN sent /\ new[n].of < NextOf + 1
             /\ sent[new[n].of] \in LineKinds <=> new[n].by = "Legacy"
  <2>1. CASE n \in DOMAIN h
    <3>1. /\ h[n].of \in DOMAIN sent /\ h[n].of < NextOf
          /\ sent[h[n].of] \in LineKinds <=> h[n].by = "Legacy"
      BY <1>2, <2>1 DEF HandledInv
    <3> QED BY <1>1, <1>5, <2>1, <3>1
  <2>2. CASE n = Len(h) + 1
    BY <1>1, <1>3, <1>5, <2>2
  <2> QED BY <1>6, <2>1, <2>2
<1>8. ASSUME NEW m \in DOMAIN new, NEW n \in DOMAIN new, m < n PROVE new[m].of < new[n].of
  <2>1. m \in DOMAIN h
    BY <1>5, <1>6, <1>8
  <2>2. CASE n \in DOMAIN h
    BY <1>2, <1>5, <1>8, <2>1, <2>2 DEF HandledInv
  <2>3. CASE n = Len(h) + 1
    BY <1>2, <1>3, <1>5, <2>1, <2>3
  <2> QED BY <1>6, <2>2, <2>3
<1>9. ASSUME NEW j \in DOMAIN sent, j < NextOf + 1, Owed(j)
      PROVE  \E n \in DOMAIN new : new[n].of = j
  <2>1. CASE j < NextOf
    <3>1. PICK n \in DOMAIN h : h[n].of = j
      BY <1>2, <1>9, <2>1 DEF HandledInv
    <3> QED BY <1>5, <3>1
  <2>2. CASE j = NextOf
    <3>1. Len(h) + 1 \in DOMAIN new
      BY <1>5
    <3> QED BY <1>3, <1>5, <1>9, <2>2, <3>1
  <2> QED BY <1>1, <1>9, <2>1, <2>2
<1>10. \A j : Owed(j)' = Owed(j)
  BY DEF Owed, Sound
<1>11. new \in Seq([of: Nat, by: Owners])
  BY <1>5 DEF T
<1>12. HandledInv'
  BY <1>4, <1>7, <1>8, <1>9, <1>10, <1>11 DEF HandledInv
<1> QED BY <1>12

\* The legacy endpoint reads only lines.
LEMMA LineIsNext ==
  ASSUME PlainText, SerialTypes, PortInv, active = "Legacy", requested = "none", wire # <<>>
  PROVE  /\ NextOf \in DOMAIN sent /\ sent[NextOf] \in LineKinds /\ NextAt \in 1..LengthOf(NextOf)
         /\ \A i \in DOMAIN sent : i < NextOf => sent[i] \in LineKinds \ {"upgrade", "gateway"}
<1>1. /\ NextOf \in DOMAIN sent /\ NextAt \in 1..LengthOf(NextOf) /\ sent[NextOf] \in Kinds
  BY NextRange, Lengths DEF PortInv
<1>2. ~byButton /\ \A i \in DOMAIN sent : i < NextOf => sent[i] \in LineKinds \ {"upgrade", "gateway"}
  BY DEF PortInv, LineInv
<1>3. sent[NextOf] \notin FrameKinds
  BY <1>1, <1>2 DEF PortInv, SentInv
<1> QED BY <1>1, <1>2, <1>3 DEF Kinds

\* A byte is read by the legacy endpoint.
LEMMA PortReadsLine ==
  ASSUME PlainText, SerialTypes, PortInv, ReadLine
  PROVE  PortInv'
<1>1. /\ active = "Legacy" /\ requested = "none" /\ wire # <<>> /\ wire' = Tail(wire)
      /\ UNCHANGED <<active, sent, block, byButton>>
  BY DEF ReadLine, KeepsReading
<1>2. PICK o, k, t, len, at, b :
        o = NextOf /\ k = sent[o] /\ t = Text[k] /\ len = Len(t) /\ at = NextAt /\ b = Head(wire)
  OBVIOUS
<1>3. /\ o \in DOMAIN sent /\ k \in LineKinds /\ k \in Kinds /\ at \in 1..len /\ len = LengthOf(o)
      /\ \A i \in DOMAIN sent : i < o => sent[i] \in LineKinds \ {"upgrade", "gateway"}
      /\ len \in Nat /\ len >= 2 /\ o \in Nat \ {0}
      /\ \A i \in DOMAIN sent : i \in Nat
  BY <1>1, <1>2, LineIsNext, Lengths DEF LengthOf, Kinds
<1>4. /\ b = Byte(o, at) /\ WireInv'
      /\ (at = len => NextOf' = o + 1 /\ NextAt' = 1)
      /\ (at # len => NextOf' = o /\ NextAt' = at + 1)
  BY <1>1, <1>2, <1>3, ReadsByte DEF PortInv
<1>5. b.of = o /\ b = [of |-> o, at |-> at, is |-> t[at]] /\ (b.is = "newline" <=> at = len)
  <2>1. b = [of |-> o, at |-> at, is |-> t[at]]
    BY <1>2, <1>4 DEF Byte
  <2>2. at \in 1..Len(Text[k])
    BY <1>2, <1>3
  <2>3. k \in LineKinds => (Text[k][at] = "newline" <=> at = Len(Text[k])) /\ Text[k][at] # "zero"
    BY ONLY PlainText, <1>3, <2>2, EndByte
  <2> QED BY <1>2, <1>3, <2>1, <2>3
<1>6. /\ ~byButton /\ block = <<>>
      /\ discarding => line = <<>> /\ at - 1 > LineLimit
      /\ ~discarding => line = Bits(o, t, at - 1) /\ at - 1 <= LineLimit
  BY <1>1, <1>2 DEF PortInv, LineInv, ReadSoFar
<1>7. SentInv'
  BY <1>1 DEF PortInv, SentInv
<1>8. BlockInv'
  BY <1>1 DEF BlockInv
<1>9. LineLimit \in Nat
  BY LoopAssumption
<1>10. CASE at = len
  <2>1. EndOfLine(b)
    BY <1>2, <1>5, <1>10 DEF ReadLine
  <2>2. /\ handled' = Append(handled, [of |-> o, by |-> "Legacy"])
        /\ requested' = IF k \in {"upgrade", "gateway"} THEN k ELSE "none"
    <3>1. CASE discarding
      <4>1. k \notin {"upgrade", "gateway"}
        <5>1. k \in {"upgrade", "gateway"} => len - 1 <= LineLimit
          BY <1>2 DEF PlainText
        <5>2. len - 1 > LineLimit
          BY <1>6, <1>10, <3>1
        <5> QED BY <1>3, <1>9, <5>1, <5>2
      <4>2. handled' = Append(handled, [of |-> o, by |-> "Legacy"]) /\ requested' = requested
        BY <1>1, <1>5, <2>1, <3>1 DEF EndOfLine, Handle
      <4> QED BY <1>1, <4>1, <4>2
    <3>2. CASE ~discarding
      <4>1. line = Bits(o, t, len - 1) /\ len - 1 \in Nat /\ len - 1 # 0
        BY <1>3, <1>6, <1>10, <3>2
      <4>2. line # <<>> /\ line[1].of = o
        BY <4>1, BitsAre
      <4>3. line = Front(Bytes(o, sent[o]))
        BY <1>2, <1>3, <4>1, FrontOfBytes
      <4>4. Whole(line, LineKinds)
        BY <1>2, <1>3, <4>2, <4>3 DEF Whole
      <4>5. ProcessLine
        BY <2>1, <3>2, <4>2 DEF EndOfLine
      <4> QED BY <1>1, <1>2, <4>2, <4>4, <4>5 DEF ProcessLine, Handle
    <3> QED BY <3>1, <3>2
  <2>3. line' = <<>> /\ discarding' = FALSE
    BY <2>1 DEF EndOfLine
  <2>4. LineInv'
    <3>1. CASE k \in {"upgrade", "gateway"}
      <4>1. requested' = k /\ requested' # "none" /\ sent'[NextOf' - 1] = k /\ NextOf' > 1 /\ NextAt' = 1
        BY <1>1, <1>2, <1>3, <1>4, <1>10, <2>2, <3>1
      <4> QED BY <1>1, <1>6, <3>1, <4>1 DEF LineInv
    <3>2. CASE k \notin {"upgrade", "gateway"}
      <4>1. requested' = "none" /\ NextOf' = o + 1 /\ NextAt' = 1
        BY <1>4, <1>10, <2>2, <3>2
      <4>2. \A i \in DOMAIN sent : i < o + 1 => sent[i] \in LineKinds \ {"upgrade", "gateway"}
        <5>1. \A i \in DOMAIN sent : i < o + 1 => i < o \/ i = o
          BY <1>3
        <5> QED BY <1>2, <1>3, <3>2, <5>1
      <4>3. ReadSoFar(NextAt - 1)' = <<>>
        <5>1. NextAt' - 1 = 0
          BY <4>1
        <5> QED BY <5>1, BitsAre DEF ReadSoFar
      <4> QED BY <1>1, <1>6, <1>9, <2>3, <4>1, <4>2, <4>3 DEF LineInv
    <3> QED BY <3>1, <3>2
  <2>5. HandledInv'
    <3>1. "Legacy" \in Owners /\ o <= NextOf /\ NextOf' = NextOf + 1
          /\ \A n \in DOMAIN handled : handled[n].of < o
      BY <1>2, <1>3, <1>4, <1>10 DEF Owners, PortInv, HandledInv
    <3> QED BY <1>1, <1>2, <1>3, <2>2, <3>1, HandlesOne DEF PortInv
  <2> QED BY <1>4, <1>7, <1>8, <2>4, <2>5 DEF PortInv
<1>11. CASE at # len
  <2>1. CharOfLine(b)
    BY <1>2, <1>5, <1>11 DEF ReadLine
  <2>2. UNCHANGED <<handled, requested>>
    BY <2>1 DEF CharOfLine
  <2>3. NextOf' = o /\ NextAt' = at + 1 /\ NextAt' - 1 = at /\ at \in Nat /\ at - 1 \in Nat /\ (at - 1) + 1 = at
    BY <1>3, <1>4, <1>11
  <2>4. ReadSoFar(NextAt - 1)' = Bits(o, t, at)
    BY <1>1, <1>2, <2>3 DEF ReadSoFar
  <2>5. /\ discarding' => line' = <<>> /\ at > LineLimit
        /\ ~discarding' => line' = Bits(o, t, at) /\ at <= LineLimit
    <3>1. CASE discarding
      BY <1>6, <1>9, <2>1, <2>3, <3>1 DEF CharOfLine
    <3>2. CASE ~discarding
      <4>1. line = Bits(o, t, at - 1) /\ Len(line) = at - 1
        <5>1. line = Bits(o, t, at - 1)
          BY <1>6, <3>2
        <5>2. Len(Bits(o, t, at - 1)) = at - 1
          <6>1. at - 1 \in Nat
            BY <2>3
          <6> QED BY ONLY <6>1, BitsAre
        <5> QED BY <5>1, <5>2
      <4>2. CASE Len(line) >= LineLimit
        <5>1. discarding' = TRUE /\ line' = <<>>
          BY <2>1, <3>2, <4>2 DEF CharOfLine
        <5> QED BY <1>9, <2>3, <4>1, <4>2, <5>1
      <4>3. CASE ~(Len(line) >= LineLimit)
        <5>1. line' = Append(line, b) /\ discarding' = discarding
          BY <2>1, <3>2, <4>3 DEF CharOfLine
        <5>2. Append(Bits(o, t, at - 1), [of |-> o, at |-> (at - 1) + 1, is |-> t[(at - 1) + 1]])
                = Bits(o, t, (at - 1) + 1)
          <6>1. at - 1 \in Nat
            BY <2>3
          <6> QED BY ONLY <6>1, BitsAre
        <5>3. line' = Bits(o, t, at)
          BY <1>5, <2>3, <4>1, <5>1, <5>2
        <5> QED BY <1>9, <2>3, <3>2, <4>1, <4>3, <5>1, <5>3
      <4> QED BY <4>2, <4>3
    <3> QED BY <3>1, <3>2
  <2>6. LineInv'
    BY <1>1, <1>3, <1>6, <2>2, <2>3, <2>4, <2>5 DEF LineInv
  <2>7. HandledInv'
    BY <1>1, <1>2, <2>2, <2>3, HandlesNone DEF PortInv
  <2> QED BY <1>4, <1>7, <1>8, <2>6, <2>7 DEF PortInv
<1> QED BY <1>10, <1>11
-----------------------------------------------------------------------------
(* An owner that reads blocks.                                             *)

\* A block that takes one byte more, unless it is full, holds one byte more of
\* the message it held the beginning of.
LEMMA BlockGrows ==
  ASSUME NEW i, NEW t, NEW n \in Nat, NEW b, b = [of |-> i, at |-> n + 1, is |-> t[n + 1]],
         NEW s, s = Bits(i, t, Cut(n))
  PROVE  (IF Len(s) < BlockLimit THEN Append(s, b) ELSE s) = Bits(i, t, Cut(n + 1))
<1>1. BlockLimit \in Nat /\ Cut(n) \in Nat
  BY LoopAssumption DEF Cut
<1>2. Len(s) = Cut(n)
  BY <1>1, BitsAre
<1>3. CASE n < BlockLimit
  <2>1. Cut(n) = n /\ Cut(n + 1) = n + 1
    BY <1>1, <1>3 DEF Cut
  <2>2. Append(Bits(i, t, n), [of |-> i, at |-> n + 1, is |-> t[n + 1]]) = Bits(i, t, n + 1)
    BY BitsAre
  <2> QED BY <1>2, <1>3, <2>1, <2>2
<1>4. CASE ~(n < BlockLimit)
  <2>1. Cut(n) = BlockLimit /\ Cut(n + 1) = BlockLimit
    BY <1>1, <1>4 DEF Cut
  <2> QED BY <1>1, <1>2, <2>1
<1> QED BY <1>3, <1>4

\* The first byte of a block is there from when it was put in an empty one.
LEMMA FirstStays ==
  ASSUME NEW T, NEW s \in Seq(T), NEW b \in T
  PROVE  /\ Append(s, b) # <<>>
         /\ Append(s, b)[1] = IF s = <<>> THEN b ELSE s[1]
<1>1. CASE s = <<>>
  BY <1>1
<1>2. CASE s # <<>>
  <2>1. Len(s) >= 1
    BY <1>2
  <2> QED BY <1>2, <2>1
<1> QED BY <1>1, <1>2

\* A line is on its way to an owner that reads blocks only when the screen made
\* the switch, and then it is not in step.
LEMMA LineOutOfStep ==
  ASSUME PlainText, SerialTypes, PortInv, active # "Legacy",
         NextOf \in DOMAIN sent, sent[NextOf] \in LineKinds
  PROVE  ~InStep /\ byButton
<1>1. sent[NextOf] \notin FrameKinds
  BY LoopAssumption
<1>2. \A i \in DOMAIN sent : i < NextOf => sent[i] \notin Asks
  BY <1>1 DEF PortInv, SentInv
<1>3. byButton
  BY <1>2 DEF PortInv, BlockInv
<1>4. ASSUME NextOf > 1, sent[NextOf - 1] \in FrameKinds PROVE FALSE
  <2>1. NextOf - 1 \in DOMAIN sent /\ NextOf - 1 < NextOf
    BY <1>4, Lengths
  <2> QED BY <1>2, <1>4, <2>1 DEF Asks
<1> QED BY <1>3, <1>4 DEF InStep

\* A byte is read by an owner that reads blocks.
LEMMA PortReadsBlock ==
  ASSUME PlainText, SerialTypes, PortInv, ReadBlock
  PROVE  PortInv'
<1>1. /\ active # "Legacy" /\ wire # <<>> /\ wire' = Tail(wire)
      /\ UNCHANGED <<active, sent, line, discarding, requested, byButton>>
  BY DEF ReadBlock
<1>2. PICK o, k, t, len, at, b :
        o = NextOf /\ k = sent[o] /\ t = Text[k] /\ len = Len(t) /\ at = NextAt /\ b = Head(wire)
  OBVIOUS
<1>3. /\ o \in DOMAIN sent /\ k \in Kinds /\ at \in 1..len /\ len = LengthOf(o)
      /\ len \in Nat /\ len >= 2 /\ o \in Nat \ {0} /\ \A i \in DOMAIN sent : i \in Nat
  BY <1>1, <1>2, NextRange, Lengths DEF LengthOf, PortInv
<1>4. /\ b = Byte(o, at) /\ WireInv'
      /\ (at = len => NextOf' = o + 1 /\ NextAt' = 1)
      /\ (at # len => NextOf' = o /\ NextAt' = at + 1)
  BY <1>1, <1>2, <1>3, ReadsByte DEF PortInv
<1>5. /\ b = [of |-> o, at |-> at, is |-> t[at]] /\ b.of = o /\ b.is = t[at] /\ b \in ByteSet
  <2>1. b = [of |-> o, at |-> at, is |-> t[at]]
    BY <1>2, <1>4 DEF Byte
  <2>2. b \in ByteSet
    BY <1>1, <1>2 DEF SerialTypes
  <2> QED BY <2>1, <2>2
<1>6. /\ k \in LineKinds => t[at] # "zero"
      /\ k \in FrameKinds => (t[at] = "zero" <=> at = len)
  <2>1. at \in 1..Len(Text[k])
    BY <1>2, <1>3
  <2>2. /\ k \in LineKinds => (Text[k][at] = "newline" <=> at = Len(Text[k])) /\ Text[k][at] # "zero"
        /\ k \in FrameKinds => (Text[k][at] = "zero" <=> at = Len(Text[k]))
    BY ONLY PlainText, <1>3, <2>1, EndByte
  <2> QED BY <1>2, <2>2
<1>7. SentInv'
  BY <1>1 DEF PortInv, SentInv
<1>8. LineInv'
  BY <1>1 DEF LineInv
<1>9. /\ ~byButton => \E i \in DOMAIN sent : i < o /\ sent[i] \in Asks
      /\ InStep => block = Bits(o, t, Cut(at - 1))
      /\ block # <<>> => /\ block[1].of \in DOMAIN sent /\ block[1].of <= o
                         /\ \A n \in DOMAIN handled : handled[n].of < block[1].of
      /\ \A n \in DOMAIN handled : handled[n].of < o
  BY <1>1, <1>2 DEF PortInv, BlockInv, ReadSoFar, HandledInv
<1>10. block \in Seq(ByteSet) /\ BlockLimit \in Nat
  BY LoopAssumption DEF SerialTypes
<1>11. ~byButton => \E i \in DOMAIN sent : i < NextOf' /\ sent[i] \in Asks
  <2>1. \A i \in DOMAIN sent : i < o => i < NextOf'
    BY <1>3, <1>4
  <2> QED BY <1>9, <2>1
<1>12. active # "Legacy" /\ active \in Owners
  BY <1>1 DEF SerialTypes
<1>13. CASE b.is = "zero"
  <2>1. k \in FrameKinds /\ at = len /\ k \notin LineKinds
    BY <1>3, <1>5, <1>6, <1>13, LoopAssumption DEF Kinds
  <2>2. /\ block' = <<>>
        /\ IF Whole(block, FrameKinds) THEN Handle(block[1].of) ELSE UNCHANGED handled
    BY <1>2, <1>13 DEF ReadBlock
  <2>3. NextOf' = o + 1 /\ NextAt' = 1
    BY <1>4, <2>1
  <2>4. Owed(o) => Whole(block, FrameKinds) /\ block[1].of = o
    <3>0. SUFFICES ASSUME Owed(o) PROVE Whole(block, FrameKinds) /\ block[1].of = o
      OBVIOUS
    <3>1. InStep
      BY <1>2, <3>0 DEF Owed, Sound, InStep
    <3>2. len - 1 <= BlockLimit
      BY <1>2, <2>1, <3>0 DEF Owed, FitsBlock
    <3>3. len - 1 \in Nat /\ len - 1 # 0 /\ Cut(at - 1) = len - 1
      BY <1>3, <1>10, <2>1, <3>2 DEF Cut
    <3>4. block = Bits(o, t, len - 1)
      BY <1>9, <3>1, <3>3
    <3>5. block # <<>> /\ block[1].of = o
      <4>1. Bits(o, t, len - 1) # <<>> /\ Bits(o, t, len - 1)[1].of = o
        BY ONLY <3>3, BitsAre
      <4> QED BY <3>4, <4>1
    <3>6. block = Front(Bytes(o, sent[o]))
      <4>1. Front(Bytes(o, sent[o])) = Bits(o, Text[sent[o]], LengthOf(o) - 1)
        BY <1>3, FrontOfBytes
      <4> QED BY <1>2, <1>3, <3>4, <4>1
    <3> QED BY <1>2, <2>1, <3>5, <3>6 DEF Whole
  <2>5. BlockInv'
    <3>1. ReadSoFar(Cut(NextAt - 1))' = <<>>
      <4>1. Cut(NextAt - 1)' = 0
        BY <1>10, <2>3 DEF Cut
      <4> QED BY <4>1, BitsAre DEF ReadSoFar
    <3> QED BY <1>1, <1>11, <2>2, <3>1 DEF BlockInv
  <2>6. HandledInv'
    <3>1. CASE Whole(block, FrameKinds)
      <4>1. PICK i : i = block[1].of
        OBVIOUS
      <4>2. /\ i \in DOMAIN sent /\ i <= o /\ \A n \in DOMAIN handled : handled[n].of < i
            /\ sent[i] \in FrameKinds
        BY <1>9, <3>1, <4>1 DEF Whole
      <4>3. handled' = Append(handled, [of |-> i, by |-> active])
        BY <2>2, <3>1, <4>1 DEF Handle
      <4>4. sent[i] \in LineKinds <=> active = "Legacy"
        BY <1>12, <4>2, LoopAssumption
      <4>5. Owed(NextOf) => i = NextOf
        BY <1>2, <2>4, <4>1
      <4>6. i <= NextOf /\ NextOf' = NextOf + 1
        BY <1>2, <2>3, <4>2
      <4>7. HandledInv /\ WireInv /\ UNCHANGED <<sent, byButton>>
        BY <1>1 DEF PortInv
      <4> QED BY ONLY PlainText, SerialTypes, <1>12, <4>2, <4>3, <4>4, <4>5, <4>6, <4>7, HandlesOne
    <3>2. CASE ~Whole(block, FrameKinds)
      BY <1>1, <1>2, <2>2, <2>3, <2>4, <3>2, HandlesNone DEF PortInv
    <3> QED BY <3>1, <3>2
  <2> QED BY <1>4, <1>7, <1>8, <2>5, <2>6 DEF PortInv
<1>14. CASE b.is # "zero"
  <2>1. /\ block' = IF Len(block) < BlockLimit THEN Append(block, b) ELSE block
        /\ handled' = handled
    BY <1>2, <1>14 DEF ReadBlock
  <2>2. PICK s : s = block'
    OBVIOUS
  <2>3. s # <<>> => /\ s[1].of \in DOMAIN sent /\ s[1].of <= o
                    /\ \A n \in DOMAIN handled : handled[n].of < s[1].of
    <3>1. CASE Len(block) < BlockLimit
      <4>1. s = Append(block, b)
        BY <2>1, <2>2, <3>1
      <4>2. s[1] = IF block = <<>> THEN b ELSE block[1]
        BY <1>5, <1>10, <4>1, FirstStays
      <4> QED BY <1>3, <1>5, <1>9, <4>2
    <3>2. CASE ~(Len(block) < BlockLimit)
      BY <1>9, <2>1, <2>2, <3>2
    <3> QED BY <3>1, <3>2
  <2>4. o <= NextOf'
    BY <1>3, <1>4
  <2>5. CASE k \in FrameKinds
    <3>1. at # len /\ NextOf' = o /\ NextAt' = at + 1 /\ at - 1 \in Nat /\ (at - 1) + 1 = at
      BY <1>3, <1>4, <1>5, <1>6, <1>14, <2>5
    <3>2. InStep' = InStep
      BY <1>1, <1>2, <3>1 DEF InStep
    <3>3. InStep => s = Bits(o, t, Cut(at))
      <4> SUFFICES ASSUME InStep PROVE s = Bits(o, t, Cut(at))
        OBVIOUS
      <4>1. PICK x, n : x = block /\ n = at - 1
        OBVIOUS
      <4>2. n \in Nat /\ n + 1 = at /\ x = Bits(o, t, Cut(n)) /\ b = [of |-> o, at |-> n + 1, is |-> t[n + 1]]
        BY <1>5, <1>9, <3>1, <4>1
      <4>3. (IF Len(x) < BlockLimit THEN Append(x, b) ELSE x) = Bits(o, t, Cut(n + 1))
        BY ONLY <4>2, BlockGrows
      <4> QED BY <2>1, <2>2, <4>1, <4>2, <4>3
    <3>4. ReadSoFar(Cut(NextAt - 1))' = Bits(o, t, Cut(at))
      <4>1. NextAt' - 1 = at
        BY <1>3, <3>1
      <4> QED BY <1>1, <1>2, <3>1, <4>1 DEF ReadSoFar, Cut
    <3>5. BlockInv'
      BY <1>1, <1>2, <1>11, <2>1, <2>2, <2>3, <3>1, <3>2, <3>3, <3>4 DEF BlockInv
    <3>6. HandledInv'
      BY <1>1, <1>2, <2>1, <3>1, HandlesNone DEF PortInv
    <3> QED BY <1>4, <1>7, <1>8, <3>5, <3>6 DEF PortInv
  <2>6. CASE k \in LineKinds
    <3>1. ~InStep /\ byButton /\ k \notin FrameKinds
      BY <1>1, <1>2, <1>3, <2>6, LineOutOfStep, LoopAssumption
    <3>2. ~InStep'
      <4>1. CASE at = len
        <5>1. NextOf' - 1 = o
          BY <1>3, <1>4, <4>1
        <5> QED BY <1>1, <1>2, <3>1, <5>1 DEF InStep
      <4>2. CASE at # len
        BY <1>1, <1>2, <1>4, <3>1, <4>2 DEF InStep
      <4> QED BY <4>1, <4>2
    <3>3. BlockInv'
      <4>1. s # <<>> => s[1].of <= NextOf'
        <5>1. s # <<>> => s[1].of \in Nat
          BY <1>3, <2>3
        <5>2. NextOf' \in Nat
          BY <1>3, <1>4
        <5> QED BY <1>3, <2>3, <2>4, <5>1, <5>2
      <4> QED BY <1>1, <2>1, <2>2, <2>3, <3>1, <3>2, <4>1 DEF BlockInv
    <3>4. ~Owed(NextOf)
      BY <1>2, <3>1 DEF Owed, Sound
    <3>5. HandledInv'
      BY <1>1, <1>2, <1>4, <2>1, <3>4, HandlesNone DEF PortInv
    <3> QED BY <1>4, <1>7, <1>8, <3>3, <3>5 DEF PortInv
  <2> QED BY <1>3, <2>5, <2>6 DEF Kinds
<1> QED BY <1>13, <1>14
-----------------------------------------------------------------------------
(* The messages.                                                           *)

\* After a restart it stands as at first.
LEMMA PortRestarts == ASSUME Restart PROVE PortInv'
<1>1. /\ sent' = <<>> /\ wire' = <<>> /\ handled' = <<>> /\ byButton' = FALSE /\ active' = "Legacy"
      /\ line' = <<>> /\ discarding' = FALSE /\ block' = <<>> /\ requested' = "none"
  BY DEF Restart
<1>2. /\ Len(sent') = 0 /\ DOMAIN sent' = {} /\ DOMAIN wire' = {} /\ Len(wire') = 0
      /\ DOMAIN handled' = {}
  BY <1>1
<1>3. NextOf' = 1 /\ NextAt' = 1
  BY <1>1, <1>2 DEF NextOf, NextAt
<1>4. WireInv'
  BY <1>1, <1>2 DEF WireInv
<1>5. SentInv'
  BY <1>1, <1>2 DEF SentInv
<1>6. LineInv'
  <2>1. ReadSoFar(NextAt - 1)' = <<>> /\ NextAt' - 1 = 0
    BY <1>3 DEF ReadSoFar, Bits
  <2> QED BY <1>1, <1>2, <2>1, LoopAssumption DEF LineInv
<1>7. BlockInv'
  BY <1>1 DEF BlockInv
<1>8. handled' \in Seq([of: Nat, by: Owners])
  BY <1>1
<1>9. HandledInv'
  BY <1>1, <1>2, <1>8 DEF HandledInv
<1> QED BY <1>4, <1>5, <1>6, <1>7, <1>9 DEF PortInv

\* Every step keeps what is said of the port.
LEMMA NextPort ==
  ASSUME PlainText PROVE LoopTypes /\ PortInv /\ [Next]_vars => PortInv'
<1> SUFFICES ASSUME LoopTypes, PortInv, [Next]_vars PROVE PortInv'
  OBVIOUS
<1>0. SerialTypes
  BY DEF LoopTypes
<1>1. CASE \E k \in Kinds : HostSends(k)
  BY <1>0, <1>1, PortSends
<1>2. CASE ReadLine
  BY <1>0, <1>2, PortReadsLine
<1>3. CASE ReadBlock
  BY <1>0, <1>3, PortReadsBlock
<1>4. CASE SerialDone
  BY <1>0, <1>4, PortChangesHands
<1>5. CASE Radio \/ Requests
  BY <1>5, PortRests DEF Radio, Requests
<1>6. CASE Screen
  <2>1. UNCHANGED serial
    BY <1>6 DEF Screen, TouchNavigate, TouchSecure, TouchGateway, NoTouch, TouchForget, Touch
  <2> QED BY <2>1, PortRests
<1>7. CASE Restart
  BY <1>7, PortRestarts
<1>8. CASE UNCHANGED vars
  BY <1>8, PortRests DEF vars
<1> QED BY <1>1, <1>2, <1>3, <1>4, <1>5, <1>6, <1>7, <1>8 DEF Next

\* Whatever is sent and wherever the port changes hands, every message that the
\* endpoint of its protocol could have read whole is handled once, in order and
\* by that endpoint.
THEOREM MessagesHandledOnce ==
  ASSUME PlainText PROVE Spec => []EveryMessageOnce
<1>1. Init => PortInv
  BY PortStarts DEF Init
<1>2. LoopTypes /\ PortInv /\ [Next]_vars => PortInv'
  BY NextPort
<1>3. LoopTypes /\ PortInv => EveryMessageOnce
  BY PortSuffices DEF LoopTypes
<1> QED BY <1>1, <1>2, <1>3, InitTypes, NextTypes, PTL DEF Spec
=============================================================================
