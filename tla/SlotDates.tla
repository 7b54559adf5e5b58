------------------------------ MODULE SlotDates ------------------------------
(***************************************************************************)
(* Dates, local times and instants: how the slot service                   *)
(* (schedules/slots.service.ts) places the working times of a host's date  *)
(* on the UTC line, and how a page names the date of an instant in the     *)
(* time zone of an attendee.                                               *)
(*                                                                         *)
(* An instant is a whole number of the unit in which a day has DayLength;  *)
(* local time is the instant plus the offset the zone has at that instant. *)
(***************************************************************************)
EXTENDS Integers

CONSTANTS
  DayLength,   \* how many units a day has
  Zones,       \* the time zones
  Offset(_, _),\* Offset(zone, t): what local time is ahead of UTC at instant t
  HostZone,    \* the zone of the host's schedule
  WorkingTimes \* the local times at which the host's slots begin

ASSUME DayAssumption == DayLength \in Nat \ {0}
ASSUME ZonesAssumption == HostZone \in Zones
ASSUME WorkingAssumption == WorkingTimes \subseteq 0 .. DayLength - 1

UtcDate(t) == t \div DayLength
LocalTime(t, zone) == t + Offset(zone, t)

\* formatDateInTimezone
DateIn(t, zone) == LocalTime(t, zone) \div DayLength

\* Mutant of ZonedTimeToUtc: the difference is taken the other way round.
ZonedTimeToUtcTwice(date, time, zone) ==
  LET guess == date * DayLength + time IN guess + Offset(zone, guess)

\* The local time is read as if it were UTC, and moved by the offset the zone
\* has at that instant, which need not be the one it has at the result.
ZonedTimeToUtc(date, time, zone) ==
  LET guess == date * DayLength + time IN guess - Offset(zone, guess)

\* The slots of a date: those of the host's date.  The time zone of the request
\* gives the slots their labels and selects none.
DayStarts(date) == {ZonedTimeToUtc(date, time, HostZone) : time \in WorkingTimes}

\* The local times of the guess and of the result lie on the same side of every
\* change of the host's offset.
Steady(date, time) ==
  Offset(HostZone, date * DayLength + time) = Offset(HostZone, ZonedTimeToUtc(date, time, HostZone))
=============================================================================
