\* Boards and bounds: see README.md.
CONSTANTS
  a = a
  b = b
  c = c
  NoPeer = NoPeer
  Devices = {a, b}
  MaxHellos <- Budget2
  MaxIdentities <- TwoAtB
  MaxRecords = 2
  MaxPeers <- OneSlot
  GatewayBoards = {a}
  WriteResults = {"empty", "cut", "whole"}
  Window = 0
SPECIFICATION Spec
INVARIANTS
  TypeOK
  LinkAgreement
  TrustedByHand
  SilentReconnect
  HandshakeInClear
  OneRecordPerMac
  ForgottenNeedsTap
  NoOrphanEntry
PROPERTIES
  ImplementsConsent
  PinNeverReplaced
