\* One booking while the clock runs, the worker takes what is due, and the host
\* connects and disconnects Google.
SPECIFICATION Spec
CONSTANTS
  b1 = b1  b2 = b2  r1 = r1  r2 = r2
  talk = talk  chat = chat  host = host  mail1 = mail1  mail2 = mail2
  calA = calA  calB = calB
  BookingIds = {b1}
  Requests = {r1}
  EventTypes = {chat}
  Hosts = {host}
  HostOf <- OneHost
  Configs <- OnlyShort
  Integrations <- OnOff
  Emails = {mail1, mail2}
  Starts = {2, 4}
  Windows <- Hours
  StepCap = 2
  Day = 96
  Lead24h = 2
  Lead1h = 1
  Workers = 1
  MaxSequence = 2
  MaxNow = 1
INVARIANTS
  RemindersCurrent
