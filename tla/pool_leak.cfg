SPECIFICATION Spec
CONSTANTS
  Workers = {w1,w2}
  Conns = {c1}
  Updaters = {u1,u2}
  QueueCap = 2
  Handler = "epoll"
  AcceptCall = "accept4"
  MayExit = {u1,u2}
  LateStart = FALSE
  WriteFails = FALSE
  None = None
INVARIANTS
  OnlyOwnEvents
CHECK_DEADLOCK FALSE
