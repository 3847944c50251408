\* Every record of F5Parser!Records in every variant; each line is parsed
\* once, so every state is initial and stutters.
CONSTANTS
  Mod64 <- MC_Mod64
SPECIFICATION Spec
INVARIANTS
  MalformedNeverDecoded
  RoundTrip
CHECK_DEADLOCK FALSE
