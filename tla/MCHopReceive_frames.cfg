SPECIFICATION Spec
CONSTANTS
  relayed = relayed
  local = local
  gateway = gateway
  d1 = d1
  d2 = d2
  NoDatagram = NoDatagram
  Streams <- OneGateway
  Board <- TheGateway
  Session <- TwoSessions
  Sizes <- PingsAreShort
  RingSize = 3
  MaxPartial = 1
  MaxMessages = 2
  MaxRestarts = 2
INVARIANTS
  TypeOK
  WholeMessages
  NothingHeardIsLost
PROPERTIES
  QueueSpec
CHECK_DEADLOCK FALSE
