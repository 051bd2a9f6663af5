SPECIFICATION Spec
CONSTANTS
  c1 = c1
  c2 = c2
  gw = gw
  Gateway = gw
  NoPeer = NoPeer
  Clients <- OneDisplay
  MaxRecords = 1
  MayToggle <- Nobody
  MayRestart <- GatewayOnly
  MayForget <- Nobody
  MaxAttempts <- TwoAttempts
  MaxRestarts = 1
  MaxOperations = 3
  MaxAnswers = 2
INVARIANTS
  NextCommandAccepted
