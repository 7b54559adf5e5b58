---------------------------- MODULE MCBookingPage ----------------------------
(***************************************************************************)
(* Small instances of BookingPage for TLC, in hours: a host in New York,   *)
(* whose clock goes forward on the first date, and an attendee there or in *)
(* Tokyo.                                                                  *)
(* Beside it the questions of the event type: the two parts of the page    *)
(* have no variable in common, so that what holds of one beside the other  *)
(* is what holds of it alone, and "part" says which of them goes.          *)
(***************************************************************************)
EXTENDS BookingPage, Questions, TLC

CONSTANTS newYork, tokyo, f1, f2, p1, p2

VARIABLE part

\* At seven in the morning, UTC, of the first date.
ClockChange == 31
Clocks(zone, t) == IF zone = tokyo THEN 9 ELSE IF t < ClockChange THEN -5 ELSE -4

TwoDates == {1, 2}

\* A night shift, whose first slot meets the change of the clock, and the last
\* slot of an ordinary day.
Nights == {3}
Afternoons == {17}
NightStarts == {22, 32, 47, 55}
AfternoonStarts == {45, 69}

\* Calls, ids and wordings share their model values: one symmetry serves them all.
CallsAlike == Permutations(FetchIds) \cup Permutations(PostIds)

PageInit ==
  /\ part \in {"slots", "questions"}
  /\ Init /\ QuestionsInit
  /\ part = "slots" => drawn = {} /\ ~asked.calls /\ \A q \in QuestionIds : kinds[q] = "TEXT"
  /\ part = "questions" => selectedDate = 1 /\ attendeeTimezone = HostZone

PageNext ==
  /\ UNCHANGED part
  /\ \/ part = "slots" /\ Next /\ UNCHANGED questionVars
     \/ part = "questions" /\ QuestionsNext /\ UNCHANGED vars

PageSpec == PageInit /\ [][PageNext]_<<part, vars, questionVars>>

\* The part that goes has its types.
PageTypeOK ==
  /\ part = "slots" => TypeOK
  /\ part = "questions" => QuestionsTypeOK
=============================================================================
