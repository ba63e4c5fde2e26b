SPECIFICATION Spec
CONSTANTS
  Workers = {w1,w2,w3}
  Conns = {c1,c2}
  Updaters = {u1}
  QueueCap = 3
  Handler = "epoll"
  AcceptCall = "accept4"
  MayExit = {w3,u1}
  LateStart = FALSE
  WriteFails = TRUE
  None = None
SYMMETRY Symmetry
INVARIANTS
  TypeOK
  SessionsCounted
  WorkersCounted
  Inductive
  DrainedWhenKilled
  KillOnlyWhenAlone
  SupersededWhenKilled
  NoLostWakeup
PROPERTIES
  LivesAsOne
CHECK_DEADLOCK FALSE
