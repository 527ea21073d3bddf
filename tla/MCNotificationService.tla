----------------------- MODULE MCNotificationService ------------------------
(* NotificationService on small instances.                                 *)
EXTENDS NotificationService

\* Connections.
CONSTANTS c1, c2

=============================================================================
