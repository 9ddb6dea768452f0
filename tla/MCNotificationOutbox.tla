------------------------ MODULE MCNotificationOutbox ------------------------
(* A small instance of NotificationOutbox for TLC. *)
EXTENDS NotificationOutbox

CONSTANTS d1, d2, w1, w2
=============================================================================
