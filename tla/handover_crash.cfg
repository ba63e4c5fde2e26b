SPECIFICATION FairSpec
CONSTANTS
  Versions = {v1,v2,v3}
  Handler = "epoll"
  Starts = "settled"
  ServingDies = TRUE
  SigPipe = TRUE
  WriteFails = FALSE
  None = None
INVARIANTS
  OnePublicSocket
  SingleServer
  OneUpdate
PROPERTIES
  Answered
  UpdateEnds
CHECK_DEADLOCK FALSE
