CONSTANTS
  Mod64 <- MC_Mod64
SPECIFICATION Spec
INVARIANT
  MalformedLineDropped
CHECK_DEADLOCK FALSE
