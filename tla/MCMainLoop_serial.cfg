SPECIFICATION FairSpec
CONSTANTS
  a = a
  b = b
  c = c
  NoPeer = NoPeer
  Unreadable = Unreadable
  NoRequest = NoRequest
  LineKinds = {"line", "long", "upgrade", "gateway"}
  FrameKinds = {"frame", "big"}
  Text <- Texts
  LineLimit = 1
  BlockLimit = 2
  MaxMessages = 3
  Peers = {a}
  MaxRecords = 1
  WriteResults = {"refused", "empty", "cut", "whole"}
INVARIANTS
  TypeOK
  EveryMessageOnce
  SecureShownIsEnforced
  TrustOnFlash
PROPERTIES
  ButtonEntersGateway
