\* A signal at any time, with and without the deadline being reached.
CONSTANTS
  e1 = e1
  e2 = e2
  e3 = e3
  Webhooks <- MCWebhooks
  Repeated = {e3}
  NoWebhook = NoWebhook
SPECIFICATION FairSpec
INVARIANTS TypeOK StopLosesAtMostOne
PROPERTIES SignalExits
CHECK_DEADLOCK FALSE
