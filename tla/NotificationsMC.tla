--------------------------- MODULE NotificationsMC ---------------------------
(***************************************************************************)
(* Small instances of Notifications.                                       *)
(***************************************************************************)
EXTENDS Notifications

CONSTANTS n1, n2, s1, s2
=============================================================================
