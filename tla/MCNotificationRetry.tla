------------------------- MODULE MCNotificationRetry -------------------------
(* NotificationRetry on small instances.  MCNotificationRetry.cfg checks      *)
(* liveness, so there is no symmetry; MCNotificationRetryCrash.cfg looks for  *)
(* one notification lost by one worker.                                       *)
EXTENDS NotificationRetry
=============================================================================
