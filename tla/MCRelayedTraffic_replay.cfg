SPECIFICATION Spec
CONSTANTS
  c1 = c1
  c2 = c2
  gw = gw
  Gateway = gw
  NoPeer = NoPeer
  Clients <- OneDisplay
  MaxRecords = 1
  MayToggle <- OneDisplay
  MayRestart <- OneDisplay
  MayForget <- OneDisplay
  MaxAttempts <- TwoAttempts
  MaxRestarts = 1
  MaxOperations = 2
  MaxAnswers = 2
INVARIANTS
  TypeOK
  AcceptedOnce
  NextCommandAccepted
