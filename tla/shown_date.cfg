\* As booking_page, with one booking.  A page that found no event stops.
SPECIFICATION PageSpec
CONSTANTS
  newYork = newYork  tokyo = tokyo  f1 = f1  f2 = f2  p1 = p1  p2 = p2
  DayLength = 24
  Zones = {newYork, tokyo}
  HostZone = newYork
  Offset <- Clocks
  WorkingTimes <- Afternoons
  Dates <- TwoDates
  Starts <- AfternoonStarts
  None = None
  FetchIds = {f1, f2}
  PostIds = {p1}
  MaxOthers = 1
  QuestionIds = {f1}
  Wordings = {p1}
  Unworded = Unworded
  MaxEdits = 0
CHECK_DEADLOCK FALSE
INVARIANTS
  ShownDateIsSlotDate
