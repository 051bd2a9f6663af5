\* Boards and bounds: see README.md.
CONSTANTS
  a = a
  b = b
  c = c
  NoPeer = NoPeer
  Devices = {a, b, c}
  MaxHellos <- Budget21
  MaxIdentities <- OneIdentity
  MaxRecords = 1
  MaxPeers <- TwoSlotsAtA
  GatewayBoards = {}
  WriteResults = {"whole"}
  Window = 1
SPECIFICATION FairSpec
INVARIANTS
  IInv
  EncryptedWithinLimit
PROPERTIES
  AttemptEnds
