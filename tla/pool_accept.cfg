SPECIFICATION Spec
CONSTANTS
  Workers = {w1,w2}
  Conns = {c1}
  Updaters = {u1}
  QueueCap = 2
  Handler = "epoll"
  AcceptCall = "accept"
  MayExit = {u1}
  LateStart = FALSE
  WriteFails = FALSE
  None = None
INVARIANTS
  DrainedWhenKilled
CHECK_DEADLOCK FALSE
