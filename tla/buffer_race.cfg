\* Two bookings placed at once, one in the buffer of the other.
\* The instance stops when its last booking is deleted and no id is left.
SPECIFICATION RequestsOnly
CHECK_DEADLOCK FALSE
CONSTANTS
  b1 = b1  b2 = b2  r1 = r1  r2 = r2
  talk = talk  chat = chat  host = host  mail1 = mail1  mail2 = mail2
  calA = calA  calB = calB
  BookingIds = {b1, b2}
  Requests = {r1, r2}
  EventTypes = {chat}
  Hosts = {host}
  HostOf <- OneHost
  Configs <- OnlyPadded
  Integrations <- AlwaysConnected
  Emails = {mail1}
  Starts = {1, 2, 3}
  Windows <- Hours
  StepCap = 2
  Day = 96
  Lead24h = 3
  Lead1h = 1
  Workers = 1
  MaxSequence = 1
  MaxNow = 0
PROPERTIES
  PlacedOutsideBuffers
