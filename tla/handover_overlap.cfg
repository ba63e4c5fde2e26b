SPECIFICATION Spec
CONSTANTS
  Versions = {v1,v2,v3}
  Handler = "epoll"
  Starts = "served"
  ServingDies = FALSE
  SigPipe = FALSE
  WriteFails = FALSE
  None = None
INVARIANTS
  SingleServer
CHECK_DEADLOCK FALSE
