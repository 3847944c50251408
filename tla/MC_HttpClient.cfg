\* The loop ends when buildHTTPClient returns; that final state is no deadlock.
CONSTANTS
  MaxWebhooks <- MC_MaxWebhooks
SPECIFICATION Spec
INVARIANTS
  TypeOK
  BuildMatchesReference
CHECK_DEADLOCK FALSE
