SPECIFICATION FairSpec
CONSTANTS
  Workers = {w1,w2}
  Conns = {c1,c2}
  Updaters = {u1}
  QueueCap = 2
  Handler = "select"
  AcceptCall = "accept4"
  MayExit = {u1}
  LateStart = FALSE
  WriteFails = FALSE
  None = None
INVARIANTS
  DrainedWhenKilled
  KillOnlyWhenAlone
  OnlyOwnEvents
  Inductive
PROPERTIES
  Quiesces
CHECK_DEADLOCK FALSE
