SPECIFICATION Spec
CONSTANTS
  Workers = {w1,w2}
  Conns = {c1,c2}
  Updaters = {u1}
  QueueCap = 1
  Handler = "epoll"
  AcceptCall = "accept4"
  MayExit = {u1}
  LateStart = FALSE
  WriteFails = FALSE
  None = None
INVARIANTS
  DrainedWhenKilled
CHECK_DEADLOCK FALSE
