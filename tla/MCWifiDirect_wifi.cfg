SPECIFICATION FairSpec
CONSTANTS
  c1 = c1
  c2 = c2
  None = None
  Mixed = Mixed
  Credentials = {c1, c2}
  WifiTimeout = 1
  TcpTimeout = 1
  Backoff = 1
  HeaderBytes = 2
  MaxFrameBytes = 2
  Lengths = {0, 1, 2, 3}
  MaxFrames = 2
INVARIANTS
  TypeOK
  FramesAsSent
PROPERTIES
  AttemptsEnd
  Reconnects
