\* The worker is in the middle of an event when the queue is found empty.
CONSTANTS
  e1 = e1
  e2 = e2
  e3 = e3
  Webhooks <- MCWebhooks
  Repeated = {e3}
  NoWebhook = NoWebhook
SPECIFICATION Spec
INVARIANTS StopsGracefully
CHECK_DEADLOCK FALSE
