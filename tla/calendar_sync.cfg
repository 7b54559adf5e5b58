\* One booking that is moved and cancelled, two calendars, and two workers that
\* may crash or stall, and whose calls to Google may fail.
SPECIFICATION Spec
CONSTANTS
  meeting = meeting  work = work  home = home  w1 = w1  w2 = w2
  BookingIds = {meeting}
  Calendars = {work, home}
  Workers = {w1, w2}
  Limit = 2
  MaxAttempts = 2
  MaxChanges = 1
  MaxFaults = 1
  MaxSwitches = 1
SYMMETRY WorkersAlike
INVARIANTS
  TypeOK
  GoogleAgrees
  CompletedMeansSynced
  GivenUpWithReason
