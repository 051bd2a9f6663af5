SPECIFICATION Spec
CONSTANTS
  a = a
  b = b
  c = c
  NoPeer = NoPeer
  Unreadable = Unreadable
  NoRequest = NoRequest
  LineKinds = {"line", "long", "upgrade", "gateway"}
  FrameKinds = {"frame", "big"}
  Text <- Texts
  LineLimit = 1
  BlockLimit = 2
  MaxMessages = 0
  Peers = {a, b, c}
  MaxRecords = 3
  WriteResults = {"whole"}
INVARIANTS
  ForgetsTheRowShown
