\* A reminder claimed just before its booking is moved.
SPECIFICATION Spec
CONSTANTS
  notice = notice  reminder = reminder  reminder2 = reminder2
  meeting = meeting  w1 = w1  w2 = w2
  Jobs = {notice, reminder, reminder2}
  Reminders = {reminder, reminder2}
  BookingIds = {meeting}
  BookingOf <- OneBooking
  Workers = {w1}
  Limit = 2
  MaxAttempts = 2
  MaxChanges = 1
  MaxFaults = 0
PROPERTIES
  NoOutdatedReminder
