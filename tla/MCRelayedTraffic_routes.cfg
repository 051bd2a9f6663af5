SPECIFICATION Spec
CONSTANTS
  c1 = c1
  c2 = c2
  gw = gw
  Gateway = gw
  NoPeer = NoPeer
  Clients <- TwoDisplays
  MaxRecords = 2
  MayToggle <- Nobody
  MayRestart <- GatewayOnly
  MayForget <- GatewayOnly
  MaxAttempts <- OneByADisplay
  MaxRestarts = 1
  MaxOperations = 1
  MaxAnswers = 1
SYMMETRY Swapped
INVARIANTS
  RightClient
PROPERTIES
  RouteStable
