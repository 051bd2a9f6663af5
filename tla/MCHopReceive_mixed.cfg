SPECIFICATION Spec
CONSTANTS
  relayed = relayed
  local = local
  gateway = gateway
  d1 = d1
  d2 = d2
  NoDatagram = NoDatagram
  Streams <- TwoDisplays
  Board <- ItsOwn
  Session <- SameSession
  Sizes <- TwoFrames
  RingSize = 3
  MaxPartial = 2
  MaxMessages = 1
  MaxRestarts = 0
INVARIANTS
  WholeMessages
CHECK_DEADLOCK FALSE
