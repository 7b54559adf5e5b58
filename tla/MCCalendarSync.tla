--------------------------- MODULE MCCalendarSync ---------------------------
(***************************************************************************)
(* Small instances of CalendarSync for TLC.                                *)
(***************************************************************************)
EXTENDS CalendarSync, TLC

CONSTANTS meeting, work, home, w1, w2

WorkersAlike == Permutations(Workers)
=============================================================================
