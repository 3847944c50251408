\* The spec's per-webhook TLS policy against the one shared transport.
CONSTANTS
  MaxWebhooks <- MC_MaxWebhooks
SPECIFICATION Spec
INVARIANT
  PerWebhookTLSPolicy
CHECK_DEADLOCK FALSE
