\* The life of one booking over three changes, under requests that wait for
\* each other's locks, while the host edits the event type.
SPECIFICATION FairSpec
CONSTANTS
  b1 = b1  b2 = b2  r1 = r1  r2 = r2
  talk = talk  chat = chat  host = host  mail1 = mail1  mail2 = mail2
  calA = calA  calB = calB
  BookingIds = {b1}
  Requests = {r1, r2}
  EventTypes = {chat}
  Hosts = {host}
  HostOf <- OneHost
  Configs <- ShortNoticed
  Integrations <- AlwaysConnected
  Emails = {mail1}
  Starts = {1, 2}
  Windows <- Hours
  StepCap = 2
  Day = 96
  Lead24h = 3
  Lead1h = 1
  Workers = 1
  MaxSequence = 3
  MaxNow = 0
INVARIANTS
  HistoryChain
  NoticePerChange
  ChildrenHaveParent
PROPERTIES
  EveryRequestEnds
