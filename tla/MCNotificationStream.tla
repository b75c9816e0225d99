------------------------ MODULE MCNotificationStream ------------------------
(* NotificationStream on a small instance.  Liveness is checked: no symmetry. *)
EXTENDS NotificationStream
=============================================================================
