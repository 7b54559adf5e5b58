\* Two dates of one slot each, two slot lists and two bookings on their way; two
\* questions and two edits of them.  A page that found no event, or was left,
\* stops.
SPECIFICATION PageSpec
CONSTANTS
  newYork = newYork  tokyo = tokyo  f1 = f1  f2 = f2  p1 = p1  p2 = p2
  DayLength = 24
  Zones = {newYork, tokyo}
  HostZone = newYork
  Offset <- Clocks
  WorkingTimes <- Nights
  Dates <- TwoDates
  Starts <- NightStarts
  None = None
  FetchIds = {f1, f2}
  PostIds = {p1, p2}
  MaxOthers = 1
  QuestionIds = {f1, f2}
  Wordings = {p1, p2}
  Unworded = Unworded
  MaxEdits = 2
SYMMETRY CallsAlike
CHECK_DEADLOCK FALSE
INVARIANTS
  PageTypeOK
  SlotsOfSelectedDate
  OffersInWorkingTimes
  BookedOnce
  TakenByOthers
  BusyMeansWaiting
  QuestionsSurvive
  AnswersAsAsked
  RefusedOnlyIfEdited
