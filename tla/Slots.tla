------------------------------- MODULE Slots -------------------------------
(***************************************************************************)
(* The slot algorithm of schedules/slots.service.ts, as pure operators.    *)
(* Time is a number of grid ticks on the UTC line.  A window is one        *)
(* working interval of the host's schedule, already placed on that line:   *)
(* the weekday, override and time-zone arithmetic that turns a weekly      *)
(* schedule into windows is not part of this module.                       *)
(***************************************************************************)
EXTENDS Integers

CONSTANTS
  StepCap,  \* the 30-minute cap on the step between two offered slots
  Windows,  \* the host's working windows: a set of [open, close] records
  Day       \* 24 hours, the reach of the "existing bookings" query

ASSUME StepCapAssumption == StepCap \in Nat \ {0}
ASSUME WindowsAssumption == \A w \in Windows : w.open \in Nat /\ w.close \in Nat
ASSUME DayAssumption == Day \in Nat \ {0}

\* What an event type contributes to the computation (EventTypeConfig).
Config == [duration : Nat \ {0}, before : Nat, after : Nat, notice : Nat]

\* Half-open intervals [s1, e1) and [s2, e2) have a point in common.
Overlap(s1, e1, s2, e2) == s1 < e2 /\ s2 < e1

\* generateIntervalSlots: the buffers are kept inside the window and slots
\* are a step apart, the step being the duration capped at 30 minutes.
SlotStep(config) == IF config.duration < StepCap THEN config.duration ELSE StepCap

IntervalSlots(window, config) ==
  LET first == window.open + config.before
      last  == window.close - config.after - config.duration
  IN {t \in first .. last : (t - first) % SlotStep(config) = 0}

\* A slot is hidden by an existing booking that meets its buffered interval.
Blocked(start, config, booking) ==
  Overlap(start - config.before, start + config.duration + config.after,
          booking.start, booking.end)

\* computeAvailableSlots as its callers use it: is `start` one of the slots
\* offered at time `now`, given the bookings the caller has read?
SlotOffered(start, config, now, existing) ==
  /\ \E w \in Windows : start \in IntervalSlots(w, config)
  /\ start > now + config.notice
  /\ \A booking \in existing : ~Blocked(start, config, booking)
=============================================================================
