SPECIFICATION FairSpec
CONSTANTS
  Ports = {2,3}
  Services <- TcpAndUdp
  Older = {2}
  Updates <- Rivals
  MaxFd = 3
  MaxSockets = 2
  MaxEvents = 2
  Allowed = {}
INVARIANTS
  TypeOK
  Shadowed
  RightSocket
  TruthfulReport
  OwnEvents
  OnlyWhenDone
  Inductive
  ListsInductive
PROPERTIES
  Retires
CHECK_DEADLOCK FALSE
