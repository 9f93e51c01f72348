--------------------------- MODULE MCNotification ---------------------------
(* The worker's small instances with handlers of notifications beside it.  *)
EXTENDS MCWorker, Notification
=============================================================================
