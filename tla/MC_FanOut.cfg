\* The terminal states are the end of a behaviour (all MaxEvents pushed and
\* drained) or the process after shutdown; real stalls are what the
\* liveness properties check.
CONSTANTS
  ApiCap <- MC_ApiCap
  OutCap <- MC_OutCap
  MaxEvents <- MC_MaxEvents
SPECIFICATION Spec
INVARIANTS
  TypeOK
  DropAccounting
PROPERTIES
  MulticastRefined
  IngestionNeverStalls
  ShutdownStopsPipeline
CHECK_DEADLOCK FALSE
