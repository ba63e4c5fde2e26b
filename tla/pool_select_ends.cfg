SPECIFICATION FairSpec
CONSTANTS
  Workers = {w1,w2}
  Conns = {c1}
  Updaters = {u1}
  QueueCap = 2
  Handler = "select"
  AcceptCall = "accept4"
  MayExit = {u1}
  LateStart = FALSE
  WriteFails = FALSE
  None = None
PROPERTIES
  GroupEnds
CHECK_DEADLOCK FALSE
