SPECIFICATION Spec
CONSTANTS
  Versions = {v1,v2,v3,v4,v5}
  Handler = "select"
  Starts = "served"
  ServingDies = FALSE
  SigPipe = FALSE
  WriteFails = TRUE
  None = None
SYMMETRY Symmetry
INVARIANTS
  TypeOK
  Updatable
  NoOtherVersion
  Inductive
  NameKept
PROPERTIES
  PortServed
  KeepsPortOpen
  LivesAsPromised
CHECK_DEADLOCK FALSE
