\* One booking with a notice and a reminder, and two workers that may crash
\* or stall, and whose provider may fail.
SPECIFICATION FairSpec
CONSTANTS
  notice = notice  reminder = reminder  reminder2 = reminder2
  meeting = meeting  w1 = w1  w2 = w2
  Jobs = {notice, reminder}
  Reminders = {reminder}
  BookingIds = {meeting}
  BookingOf <- OneBooking
  Workers = {w1, w2}
  Limit = 2
  MaxAttempts = 2
  MaxChanges = 1
  MaxFaults = 1
INVARIANTS
  TypeOK
  SentWasMailed
  GivenUpAfterFailures
  NoNeedlessMail
PROPERTIES
  EveryJobSettles
