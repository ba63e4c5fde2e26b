SPECIFICATION FairSpec
CONSTANTS
  Workers = {w1,w2}
  Conns = {c1}
  Updaters = {u1,u2}
  QueueCap = 2
  Handler = "epoll"
  AcceptCall = "accept4"
  MayExit = {u2}
  LateStart = FALSE
  WriteFails = FALSE
  None = None
INVARIANTS
  NoUpdateCutOff
PROPERTIES
  GroupEnds
  Answered
CHECK_DEADLOCK FALSE
