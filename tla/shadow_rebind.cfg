SPECIFICATION Spec
CONSTANTS
  Ports = {2,3}
  Services <- TcpAndUdp
  Older = {2}
  Updates <- Rivals
  MaxFd = 3
  MaxSockets = 2
  MaxEvents = 2
  Allowed = {"close"}
INVARIANTS
  BindReturns
CHECK_DEADLOCK FALSE
