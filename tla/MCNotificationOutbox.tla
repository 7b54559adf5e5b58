------------------------ MODULE MCNotificationOutbox ------------------------
(***************************************************************************)
(* Small instances of NotificationOutbox for TLC.                          *)
(***************************************************************************)
EXTENDS NotificationOutbox, TLC

CONSTANTS notice, reminder, reminder2, meeting, w1, w2

OneBooking == [j \in Jobs |-> meeting]
=============================================================================
