----------------------- MODULE BookingsRecords_proofs -----------------------
(***************************************************************************)
(* What the tables that hang on a booking tell of it, for every set of     *)
(* bookings and requests: the reschedule history is the chain of its       *)
(* moves, the waiting reminders are those of the present, and every change *)
(* has left its notices.                                                   *)
(***************************************************************************)
EXTENDS Bookings_proofs, FiniteSetTheorems

(* The reschedule history *)

\* g is the move right before h in the history H.
Follows(H, g, h) ==
  g.sequence < h.sequence /\ ~\E m \in H : g.sequence < m.sequence /\ m.sequence < h.sequence

Unique(H) == \A g, h \in H : g.sequence = h.sequence => g = h
Joined(H) == \A g, h \in H : Follows(H, g, h) =>
               <<g.newStart, g.newEnd>> = <<h.prevStart, h.prevEnd>>
EndsAt(H, row) == \A h \in H : (\A g \in H : g.sequence <= h.sequence) =>
                    /\ <<h.newStart, h.newEnd>> = <<row.start, row.end>>
                    /\ <<h.prevStart, h.prevEnd>> = <<row.prevStart, row.prevEnd>>

\* H is the history of a booking whose row is row.  No move is later than the
\* booking: that is what makes the number of the next one a new one.
Chain(H, row) ==
  /\ IsFiniteSet(H) /\ Cardinality(H) = row.rescheduleCount
  /\ Unique(H) /\ Joined(H) /\ EndsAt(H, row)
  /\ \A h \in H : h.sequence <= row.sequence

HistoryInv == \A b \in BookingIds : Live(b) => Chain(HistoryOf(b), bookings[b])

LEMMA ChainIsInvariant ==
  ASSUME HistoryInv
  PROVE  HistoryChain
BY DEF HistoryInv, HistoryChain, Chain, Unique, Joined, EndsAt, Follows

-----------------------------------------------------------------------------
(* Histories *)

LEMMA EmptyChain ==
  ASSUME NEW row, row.rescheduleCount = 0
  PROVE  Chain({}, row)
BY FS_EmptySet DEF Chain, Unique, Joined, EndsAt

\* A change that moves nothing leaves the history as it is.
LEMMA ChainKept ==
  ASSUME NEW H \in SUBSET Move, NEW row \in Row, NEW new \in Row, Chain(H, row),
         new.rescheduleCount = row.rescheduleCount, row.sequence <= new.sequence,
         <<new.start, new.end>> = <<row.start, row.end>>,
         <<new.prevStart, new.prevEnd>> = <<row.prevStart, row.prevEnd>>
  PROVE  Chain(H, new)
<1>1. \A h \in H : h.sequence <= new.sequence
  <2>1. row.sequence \in Nat /\ new.sequence \in Nat /\ \A h \in H : h.sequence \in Nat
    BY DEF Row, Move
  <2> QED BY <2>1 DEF Chain
<1>2. EndsAt(H, new)
  BY DEF Chain, EndsAt
<1> QED BY <1>1, <1>2 DEF Chain

\* A move that starts from the present times goes on with the chain.
LEMMA ChainExtended ==
  ASSUME NEW H \in SUBSET Move, NEW row \in Row, NEW new \in Row, NEW m \in Move,
         Chain(H, row), m.sequence = row.sequence + 1,
         <<m.prevStart, m.prevEnd>> = <<row.start, row.end>>,
         new.sequence = m.sequence, new.rescheduleCount = row.rescheduleCount + 1,
         <<new.start, new.end>> = <<m.newStart, m.newEnd>>,
         <<new.prevStart, new.prevEnd>> = <<m.prevStart, m.prevEnd>>
  PROVE  Chain(H \cup {m}, new)
<1> DEFINE all == H \cup {m}
<1>1. m.sequence \in Nat /\ \A h \in H : h.sequence \in Nat /\ h.sequence < m.sequence
  <2>1. row.sequence \in Nat /\ \A h \in H : h.sequence \in Nat
    BY DEF Row, Move
  <2> QED BY <2>1 DEF Chain
<1>2. m \notin H
  BY <1>1
<1>3. IsFiniteSet(all) /\ Cardinality(all) = new.rescheduleCount
  <2>1. IsFiniteSet(H) /\ Cardinality(H) = row.rescheduleCount
    BY DEF Chain
  <2>2. IsFiniteSet(all) /\ Cardinality(all) = Cardinality(H) + 1
    BY ONLY <1>2, <2>1, FS_AddElement, Zenon
  <2> QED BY <2>1, <2>2
<1>4. Unique(all)
  BY <1>1 DEF Chain, Unique
<1>5. Joined(all)
  <2> SUFFICES ASSUME NEW g \in all, NEW h \in all, Follows(all, g, h)
               PROVE  <<g.newStart, g.newEnd>> = <<h.prevStart, h.prevEnd>>
    BY DEF Joined
  <2>1. g \in H
    BY <1>1 DEF Follows
  <2>2. CASE h = m
    <3>1. \A x \in H : x.sequence <= g.sequence
      BY <1>1, <2>1, <2>2 DEF Follows
    <3> QED BY <2>1, <2>2, <3>1 DEF Chain, EndsAt
  <2>3. CASE h \in H
    BY <2>1, <2>3 DEF Follows, Chain, Joined
  <2> QED BY <2>2, <2>3
<1>6. EndsAt(all, new)
  <2> SUFFICES ASSUME NEW h \in all, \A g \in all : g.sequence <= h.sequence
               PROVE  h = m
    BY DEF EndsAt
  <2> QED BY <1>1
<1>7. \A h \in all : h.sequence <= new.sequence
  BY <1>1
<1> QED BY <1>3, <1>4, <1>5, <1>6, <1>7 DEF Chain

-----------------------------------------------------------------------------
(* Steps *)

\* A step that changes one booking, and no history but that booking's.
LEMMA HistoryAfterChange ==
  ASSUME TypeOK, HistoryInv, NEW b \in BookingIds, NEW row,
         bookings' = [bookings EXCEPT ![b] = row],
         \A a \in BookingIds \ {b} : HistoryOf(a)' = HistoryOf(a),
         row.status \in {"CONFIRMED", "CANCELLED"} => Chain(HistoryOf(b)', row)
  PROVE  HistoryInv'
<1>1. bookings'[b] = row /\ \A a \in BookingIds \ {b} : bookings'[a] = bookings[a]
  BY DEF TypeOK
<1> SUFFICES ASSUME NEW a \in BookingIds, Live(a)'
             PROVE  Chain(HistoryOf(a)', bookings'[a])
  BY DEF HistoryInv
<1>2. CASE a = b
  BY <1>1, <1>2 DEF Live
<1>3. CASE a # b
  <2>1. Live(a)
    BY <1>1, <1>3 DEF Live
  <2> QED BY <1>1, <1>3, <2>1 DEF HistoryInv
<1> QED BY <1>2, <1>3

LEMMA HistoryTyped ==
  ASSUME TypeOK, NEW b \in BookingIds
  PROVE  HistoryOf(b) \in SUBSET Move /\ bookings[b] \in Row
BY DEF TypeOK, HistoryOf

LEMMA HistoryCreateCommit ==
  ASSUME TypeOK, ChildrenHaveParent, HistoryInv, NEW r \in Requests, NEW b \in BookingIds,
         CreateCommit(r, b)
  PROVE  HistoryInv'
<1>1. HistoryOf(b) = {}
  BY DEF CreateCommit, ChildrenHaveParent, Live
<1>2. UNCHANGED history
  BY DEF CreateCommit
<1>3. Chain({}, NewRow(reqs[r]))
  BY EmptyChain DEF NewRow
<1> QED BY <1>1, <1>2, <1>3, HistoryAfterChange DEF CreateCommit, HistoryOf

LEMMA HistoryRescheduleCommit ==
  ASSUME TypeOK, SeenInv, HistoryInv, NEW r \in Requests, RescheduleCommit(r)
  PROVE  HistoryInv'
<1> DEFINE q == reqs[r]
<1>0. q \in MoveReq
  BY RequestKinds DEF TypeOK, RescheduleCommit
<1>1. PICK b \in BookingIds : b = q.booking
  BY <1>0 DEF MoveReq
<1> DEFINE row == MovedRow(bookings[b], q)
           m == HistoryRow(b, bookings[b], q)
<1>2. HistoryOf(b) \in SUBSET Move /\ bookings[b] \in Row
  BY <1>1, HistoryTyped
<1>3. row \in Row /\ m \in Move
  BY <1>0, <1>2, MovedRowTyped
<1>4. Chain(HistoryOf(b), bookings[b])
  BY <1>1 DEF HistoryInv, RescheduleCommit, SeenInv, LockHoldersSeePresent, Locking
<1>5. /\ m.sequence = bookings[b].sequence + 1
      /\ <<m.prevStart, m.prevEnd>> = <<bookings[b].start, bookings[b].end>>
      /\ <<m.newStart, m.newEnd>> = <<q.start, q.end>>
      /\ m.booking = b
  BY DEF HistoryRow
<1>6. /\ row.sequence = bookings[b].sequence + 1
      /\ row.rescheduleCount = bookings[b].rescheduleCount + 1
      /\ <<row.start, row.end>> = <<q.start, q.end>>
      /\ <<row.prevStart, row.prevEnd>> = <<bookings[b].start, bookings[b].end>>
  BY <1>2 DEF MovedRow, Row
<1>7. Chain(HistoryOf(b) \cup {m}, row)
  <2> HIDE DEF m, row, q
  <2> QED BY <1>2, <1>3, <1>4, <1>5, <1>6, ChainExtended
<1>8. history' = history \cup {m} /\ bookings' = [bookings EXCEPT ![b] = row]
  BY <1>1 DEF RescheduleCommit
<1>9. HistoryOf(b)' = HistoryOf(b) \cup {m} /\ \A a \in BookingIds \ {b} : HistoryOf(a)' = HistoryOf(a)
  <2> HIDE DEF m, row
  <2> QED BY <1>5, <1>8 DEF HistoryOf
<1> HIDE DEF m, row
<1> QED BY <1>1, <1>7, <1>8, <1>9, HistoryAfterChange

LEMMA HistoryCancelCommit ==
  ASSUME TypeOK, SeenInv, HistoryInv, NEW r \in Requests, CancelCommit(r)
  PROVE  HistoryInv'
<1> DEFINE b == reqs[r].booking
           old == bookings[b]
           row == CancelledRow(old, reqs[r].actor)
<1>1. b \in BookingIds /\ reqs[r].actor \in Actors
  BY CancelCommitTyped DEF CancelCommit
<1>2. HistoryOf(b) \in SUBSET Move /\ old \in Row
  BY <1>1, HistoryTyped
<1>3. /\ row \in Row /\ row.rescheduleCount = old.rescheduleCount
      /\ old.sequence <= row.sequence
      /\ <<row.start, row.end>> = <<old.start, old.end>>
      /\ <<row.prevStart, row.prevEnd>> = <<old.prevStart, old.prevEnd>>
  <2>1. row \in Row /\ row.sequence = old.sequence + 1 /\ old.sequence \in Nat
    BY <1>1, <1>2, CancelledRowTyped DEF Row
  <2>2. /\ row.rescheduleCount = old.rescheduleCount
        /\ <<row.start, row.end>> = <<old.start, old.end>>
        /\ <<row.prevStart, row.prevEnd>> = <<old.prevStart, old.prevEnd>>
    BY <1>2 DEF Row, CancelledRow
  <2> QED BY <2>1, <2>2
<1>4. Chain(HistoryOf(b), old)
  BY <1>1 DEF HistoryInv, CancelCommit, SeenInv, LockHoldersSeePresent, Locking
<1>5. bookings' = [bookings EXCEPT ![b] = row] /\ UNCHANGED history
  BY DEF CancelCommit
<1> HIDE DEF row, old
<1>6. Chain(HistoryOf(b), row)
  BY <1>2, <1>3, <1>4, ChainKept
<1> QED BY <1>1, <1>5, <1>6, HistoryAfterChange DEF HistoryOf

\* The deletion has removed the history with the booking: the foreign keys have
\* refused it if a move was added since.
LEMMA HistoryDeleteRow ==
  ASSUME TypeOK, HistoryInv, NEW r \in Requests, DeleteRow(r)
  PROVE  HistoryInv'
<1> DEFINE b == reqs[r].booking
           row == [NoBooking EXCEPT !.status = "DELETED"]
<1>1. b \in BookingIds
  BY RequestKinds DEF TypeOK, DeleteRow, DeleteReq
<1>2. row.status = "DELETED"
  BY DEF NoBooking
<1>3. bookings' = [bookings EXCEPT ![b] = row]
  BY DEF DeleteRow
<1>4. \A a \in BookingIds \ {b} : HistoryOf(a)' = HistoryOf(a)
  BY DEF DeleteRow, Emptied, HistoryOf
<1> HIDE DEF row
<1> QED BY <1>1, <1>2, <1>3, <1>4, HistoryAfterChange

LEMMA HistoryUpdateAttendeeEmail ==
  ASSUME TypeOK, HistoryInv, NEW b \in BookingIds, NEW email \in Emails,
         UpdateAttendeeEmail(b, email)
  PROVE  HistoryInv'
<1> DEFINE old == bookings[b]
           row == [old EXCEPT !.email = email]
<1>1. HistoryOf(b) \in SUBSET Move /\ old \in Row
  BY HistoryTyped
<1>2. /\ row \in Row /\ row.rescheduleCount = old.rescheduleCount
      /\ old.sequence <= row.sequence
      /\ <<row.start, row.end>> = <<old.start, old.end>>
      /\ <<row.prevStart, row.prevEnd>> = <<old.prevStart, old.prevEnd>>
  BY <1>1 DEF Row
<1>3. Chain(HistoryOf(b), old)
  BY DEF HistoryInv, UpdateAttendeeEmail
<1>4. bookings' = [bookings EXCEPT ![b] = row] /\ UNCHANGED history
  BY DEF UpdateAttendeeEmail
<1> HIDE DEF row, old
<1>5. Chain(HistoryOf(b), row)
  BY <1>1, <1>2, <1>3, ChainKept
<1> QED BY <1>4, <1>5, HistoryAfterChange DEF HistoryOf

LEMMA HistoryUnchanged ==
  ASSUME HistoryInv, UNCHANGED tables
  PROVE  HistoryInv'
BY DEF HistoryInv, HistoryOf, Live, tables

LEMMA HistoryWorker ==
  ASSUME TypeOK, HistoryInv, Worker
  PROVE  HistoryInv'
<1>1. UNCHANGED <<bookings, history>>
  BY WorkerSteps
<1> QED BY <1>1 DEF HistoryInv, HistoryOf, Live

LEMMA HistoryNext ==
  ASSUME TypeOK, SeenInv, ChildrenHaveParent, HistoryInv, [Next]_vars
  PROVE  HistoryInv'
<1>1. ASSUME NEW r \in Requests, Serve(r)
      PROVE  HistoryInv'
  BY <1>1, HistoryCreateCommit, HistoryRescheduleCommit, HistoryCancelCommit, HistoryDeleteRow,
     HistoryUnchanged
     DEF Serve, CreateOffer, CreateValidate, CreateCollisionCheck, RescheduleLock, DeleteChildren, Fail, DeadlockVictim
<1>2. ASSUME NEW r \in Requests, Client(r)
      PROVE  HistoryInv'
  BY <1>2, HistoryUnchanged
     DEF Client, CreateAsk, LoadPage, RescheduleRead, CancelLock, LeavePage, DeleteRead, Abort
<1>3. CASE Environment
  BY <1>3, HistoryUpdateAttendeeEmail, HistoryUnchanged, HistoryWorker
     DEF Environment, UpdateEventType, ArchiveEventType, ChangeIntegration, Tick
<1>4. CASE UNCHANGED vars
  BY <1>4, HistoryUnchanged DEF vars, tables
<1> QED BY <1>1, <1>2, <1>3, <1>4 DEF Next

LEMMA HistoryAlways == Spec => []HistoryInv
<1>1. Init => HistoryInv
  BY DEF Init, HistoryInv, Live, NoBooking
<1>2. TypeOK /\ SeenInv /\ ChildrenHaveParent /\ HistoryInv /\ [Next]_vars => HistoryInv'
  BY HistoryNext
<1> QED BY TypeCorrect, SeenAlways, NoOrphans, <1>1, <1>2, PTL DEF Spec

\* The history of a live booking is the chain of its moves, from the booked
\* times to the present ones, one row for each counted reschedule, whatever
\* requests race and whatever cancellations and reactivations lie in between.
THEOREM HistoryIsChain == Spec => []HistoryChain
<1>1. HistoryInv => HistoryChain
  BY ChainIsInvariant
<1> QED BY HistoryAlways, <1>1, PTL

-----------------------------------------------------------------------------
(* The waiting reminders *)

\* The reminder waits and no worker has handed it back.
Fresh(job, b) == PendingReminder(job, b) /\ ~job.failed

\* The fresh reminders of b in the outbox J are those of its row at time n, and
\* no worker is at them.
Current(J, b, row, n) ==
  /\ \A job \in J : Fresh(job, b) =>
       /\ row.status = "CONFIRMED"
       /\ <<job.start, job.end>> = <<row.start, row.end>>
       /\ job.runAt = row.start - Lead(job.kind)
       /\ job.workers = 0
  /\ \A kind \in Reminders : row.status = "CONFIRMED" /\ row.start - Lead(kind) > n =>
       \E job \in J : Fresh(job, b) /\ job.kind = kind

\* Between J and K the fresh reminders of booking a stay the same, and its
\* rows are numbered as before.
Untouched(a, J, K) ==
  /\ \A job : Fresh(job, a) => (job \in J <=> job \in K)
  /\ \A job \in K : job.booking = a =>
       \E old \in J : old.booking = a /\ old.sequence = job.sequence

\* No row about b is numbered above n.
UpTo(J, b, n) == \A job \in J : job.booking = b => job.sequence <= n

\* All of them are numbered below n.
Below(J, b, n) == \A job \in J : job.booking = b => job.sequence < n

\* A request decides by a time that has been.
Deciding == {"asked", "offered", "validated", "checked", "reading", "locked"}
DecidesInPast(q, n) == q.pc \in Deciding => q.now <= n

RemindersInv ==
  /\ \A b \in BookingIds : Current(jobs, b, bookings[b], now)
  /\ \A b \in BookingIds : Live(b) => UpTo(jobs, b, bookings[b].sequence)
  /\ \A r \in Requests : DecidesInPast(reqs[r], now)

LEMMA RemindersInvCurrent ==
  ASSUME RemindersInv
  PROVE  RemindersCurrent
<1> SUFFICES ASSUME NEW b \in BookingIds
             PROVE  /\ \A job \in jobs : Fresh(job, b) =>
                         /\ Confirmed(b)
                         /\ <<job.start, job.end>> = <<bookings[b].start, bookings[b].end>>
                         /\ job.runAt = bookings[b].start - Lead(job.kind)
                    /\ \A kind \in Reminders :
                         Confirmed(b) /\ bookings[b].start - Lead(kind) > now =>
                           \E job \in jobs : /\ Fresh(job, b)
                                             /\ job.kind = kind
                                             /\ job.workers = 0
  BY DEF RemindersCurrent, Fresh
<1>1. Current(jobs, b, bookings[b], now)
  BY DEF RemindersInv
<1> QED BY <1>1 DEF Current, Confirmed

LEMMA UntouchedTwice ==
  ASSUME NEW a, NEW J, NEW K, NEW L, Untouched(a, J, K), Untouched(a, K, L)
  PROVE  Untouched(a, J, L)
BY DEF Untouched

-----------------------------------------------------------------------------
(* The calls of the outbox *)

\* After the withdrawal nothing waits, and the numbers are what they were.
LEMMA Withdrawn ==
  ASSUME NEW J \in SUBSET Job, NEW b, NEW n, Below(J, b, n)
  PROVE  /\ \A job \in CancelPendingReminderJobs(J, b) : ~Fresh(job, b)
         /\ Below(CancelPendingReminderJobs(J, b), b, n)
         /\ \A a : a # b => Untouched(a, J, CancelPendingReminderJobs(J, b))
<1>1. ASSUME NEW job \in Job
      PROVE  LET new == [job EXCEPT !.status = "CANCELLED", !.failed = TRUE]
             IN new.status = "CANCELLED" /\ new.booking = job.booking /\ new.sequence = job.sequence
  BY DEF Job
<1>2. \A job \in CancelPendingReminderJobs(J, b) : ~Fresh(job, b)
  BY <1>1 DEF CancelPendingReminderJobs, Fresh, PendingReminder
<1>3. ASSUME NEW job \in CancelPendingReminderJobs(J, b)
      PROVE  \E old \in J : old.booking = job.booking /\ old.sequence = job.sequence
  <2>1. CASE job \in J
    BY <2>1
  <2>2. CASE \E old \in J : job = [old EXCEPT !.status = "CANCELLED", !.failed = TRUE]
    BY <1>1, <2>2
  <2> QED BY <2>1, <2>2 DEF CancelPendingReminderJobs
<1>4. Below(CancelPendingReminderJobs(J, b), b, n)
  BY <1>3 DEF Below
<1>5. ASSUME NEW a, a # b
      PROVE  Untouched(a, J, CancelPendingReminderJobs(J, b))
  <2>1. \A job : Fresh(job, a) => ~Fresh(job, b)
    BY <1>5 DEF Fresh, PendingReminder
  <2>2. \A job : Fresh(job, a) =>
          (job \in J <=> job \in CancelPendingReminderJobs(J, b))
    BY <1>1, <2>1 DEF CancelPendingReminderJobs, Fresh, PendingReminder
  <2>3. \A job \in CancelPendingReminderJobs(J, b) : job.booking = a =>
          \E old \in J : old.booking = a /\ old.sequence = job.sequence
    BY <1>3
  <2> QED BY <2>2, <2>3 DEF Untouched
<1> QED BY <1>2, <1>4, <1>5

\* K is J with new rows about b, numbered n, none of them a reminder.
Noticed(J, K, b, n) ==
  /\ J \subseteq K
  /\ \A job \in K : job \in J \/ /\ job.booking = b /\ job.sequence = n
                                 /\ job.kind \notin Reminders

\* Notices are no reminders.
LEMMA NoticesAdded ==
  ASSUME NEW J, NEW b, NEW row
  PROVE  /\ Noticed(J, EnqueueConfirmationJobs(J, b, row), b, row.sequence)
         /\ Noticed(J, EnqueueRescheduleJobs(J, b, row), b, row.sequence)
         /\ Noticed(J, EnqueueCancellationJobs(J, b, row), b, row.sequence)
<1>1. \A kind, to, runAt : LET job == NewJob(b, row, kind, to, runAt)
                           IN job.booking = b /\ job.sequence = row.sequence /\ job.kind = kind
  BY DEF NewJob
<1>2. Noticed(J, EnqueueConfirmationJobs(J, b, row), b, row.sequence)
  BY <1>1 DEF EnqueueConfirmationJobs, UpsertJobs, Reminders, Noticed
<1>3. Noticed(J, EnqueueRescheduleJobs(J, b, row), b, row.sequence)
  BY <1>1 DEF EnqueueRescheduleJobs, UpsertJobs, Reminders, Noticed
<1>4. Noticed(J, EnqueueCancellationJobs(J, b, row), b, row.sequence)
  BY <1>1 DEF EnqueueCancellationJobs, UpsertJobs, Reminders, Noticed
<1> QED BY <1>2, <1>3, <1>4

\* Reminders written for a change that has none yet, where none waits, are
\* those of the row.  The time of the request may be behind the clock.
LEMMA RemindersWritten ==
  ASSUME NEW J, NEW b \in BookingIds, NEW row \in Row, row.status = "CONFIRMED",
         NEW t \in Int, NEW n \in Int, t <= n,
         \A job \in J : ~Fresh(job, b),
         \A job \in J : job.booking = b /\ job.kind \in Reminders => job.sequence # row.sequence
  PROVE  /\ Current(EnqueueReminderJobs(J, b, row, t), b, row, n)
         /\ \A job \in EnqueueReminderJobs(J, b, row, t) :
              job \in J \/ (job.booking = b /\ job.sequence = row.sequence)
         /\ \A a : a # b => Untouched(a, J, EnqueueReminderJobs(J, b, row, t))
<1> DEFINE reminder(kind) == NewJob(b, row, kind, "attendee", row.start - Lead(kind))
           due == {k \in Reminders : row.start - Lead(k) > t}
           after == EnqueueReminderJobs(J, b, row, t)
<1>1. ASSUME NEW kind
      PROVE  /\ reminder(kind).booking = b /\ reminder(kind).sequence = row.sequence
             /\ reminder(kind).kind = kind /\ reminder(kind).status = "PENDING"
             /\ <<reminder(kind).start, reminder(kind).end>> = <<row.start, row.end>>
             /\ reminder(kind).runAt = row.start - Lead(kind)
             /\ ~reminder(kind).failed /\ reminder(kind).workers = 0
  BY DEF NewJob
<1>2. ASSUME NEW kind \in Reminders, NEW job \in J
      PROVE  Key(job) # Key(reminder(kind))
  <2> HIDE DEF reminder
  <2> QED BY <1>1, <1>2 DEF Key
<1>3. after = J \cup {reminder(kind) : kind \in due}
  BY <1>2 DEF EnqueueReminderJobs, UpsertJobs
<1> HIDE DEF reminder, after
<1>4. \A job \in after : job \in J \/ \E kind \in Reminders : job = reminder(kind)
  BY <1>3
<1>5. \A job \in after : Fresh(job, b) =>
        /\ row.status = "CONFIRMED"
        /\ <<job.start, job.end>> = <<row.start, row.end>>
        /\ job.runAt = row.start - Lead(job.kind)
        /\ job.workers = 0
  <2> SUFFICES ASSUME NEW job \in after, Fresh(job, b)
               PROVE  /\ <<job.start, job.end>> = <<row.start, row.end>>
                      /\ job.runAt = row.start - Lead(job.kind)
                      /\ job.workers = 0
    OBVIOUS
  <2>1. PICK kind \in Reminders : job = reminder(kind)
    BY <1>4
  <2> QED BY <1>1, <2>1
<1>6. ASSUME NEW kind \in Reminders, row.start - Lead(kind) > n
      PROVE  \E job \in after : Fresh(job, b) /\ job.kind = kind
  <2>1. row.start - Lead(kind) \in Int
    BY LeadAssumption DEF Row, Lead
  <2>2. row.start - Lead(kind) > t
    BY <1>6, <2>1
  <2>3. reminder(kind) \in after
    BY <1>3, <2>2
  <2> QED BY <1>1, <2>3 DEF Fresh, PendingReminder
<1>7. Current(after, b, row, n)
  BY <1>5, <1>6 DEF Current
<1>8. ASSUME NEW a, a # b
      PROVE  Untouched(a, J, after)
  <2>1. J \subseteq after
    BY <1>3
  <2>2. \A job \in after : job \in J \/ job.booking = b
    BY <1>1, <1>4
  <2> QED BY <1>8, <2>1, <2>2 DEF Untouched, Fresh, PendingReminder
<1>9. \A job \in after : job \in J \/ (job.booking = b /\ job.sequence = row.sequence)
  BY <1>1, <1>4
<1> QED BY <1>7, <1>8, <1>9 DEF after

\* The rows written with a change that places b: its notices, its reminders.
LEMMA PlacementWritten ==
  ASSUME NEW J, NEW N, NEW b \in BookingIds, NEW row \in Row, row.status = "CONFIRMED",
         NEW t \in Int, NEW n \in Int, t <= n, J \subseteq Job,
         \A job \in J : ~Fresh(job, b), Below(J, b, row.sequence),
         Noticed(J, N, b, row.sequence)
  PROVE  LET after == EnqueueReminderJobs(N, b, row, t)
         IN /\ Current(after, b, row, n)
            /\ UpTo(after, b, row.sequence)
            /\ \A a : a # b => Untouched(a, J, after)
<1> DEFINE after == EnqueueReminderJobs(N, b, row, t)
<1>1. row.sequence \in Nat /\ \A job \in J : job.sequence \in Nat
  BY DEF Row, Job
<1>2. \A job \in N : ~Fresh(job, b)
  BY DEF Noticed, Fresh, PendingReminder
<1>3. \A job \in N : job.booking = b /\ job.kind \in Reminders => job.sequence # row.sequence
  BY <1>1 DEF Noticed, Below
<1>4. /\ Current(after, b, row, n)
      /\ \A job \in after : job \in N \/ (job.booking = b /\ job.sequence = row.sequence)
      /\ \A a : a # b => Untouched(a, N, after)
  BY <1>2, <1>3, RemindersWritten
<1> HIDE DEF after
<1>5. UpTo(after, b, row.sequence)
  BY <1>1, <1>4 DEF UpTo, Noticed, Below
<1>6. \A a : a # b => Untouched(a, J, N)
  BY DEF Untouched, Noticed, Fresh, PendingReminder
<1>7. \A a : a # b => Untouched(a, J, after)
  BY <1>4, <1>6, UntouchedTwice
<1> QED BY <1>4, <1>5, <1>7 DEF after

-----------------------------------------------------------------------------
(* Steps *)

\* Whatever a request becomes, it decides by a time that has been.
LEMMA PastAfterStep ==
  ASSUME TypeOK, RemindersInv, NEW r \in Requests, NEW q, Become(r, q), now' = now,
         DecidesInPast(q, now)
  PROVE  \A s \in Requests : DecidesInPast(reqs'[s], now')
<1>1. \A s \in Requests : reqs'[s] = q \/ reqs'[s] = reqs[s]
  BY DEF TypeOK, Become
<1> QED BY <1>1 DEF RemindersInv

LEMMA IdleDecidesNothing == \A n : DecidesInPast(Idle, n)
BY DEF Idle, DecidesInPast, Deciding

\* A step that changes booking b and the rows about it.
LEMMA RemindersAfterChange ==
  ASSUME TypeOK, RemindersInv, NEW b \in BookingIds, NEW row,
         bookings' = [bookings EXCEPT ![b] = row], now' = now,
         Current(jobs', b, row, now),
         row.status \in {"CONFIRMED", "CANCELLED"} => UpTo(jobs', b, row.sequence),
         \A a \in BookingIds \ {b} : Untouched(a, jobs, jobs'),
         \A r \in Requests : DecidesInPast(reqs'[r], now')
  PROVE  RemindersInv'
<1>1. bookings'[b] = row /\ \A a \in BookingIds \ {b} : bookings'[a] = bookings[a]
  BY DEF TypeOK
<1>2. ASSUME NEW a \in BookingIds
      PROVE  Current(jobs', a, bookings'[a], now')
  <2>1. CASE a = b
    BY <1>1, <2>1
  <2>2. CASE a # b
    <3>1. Current(jobs, a, bookings'[a], now) /\ Untouched(a, jobs, jobs')
      BY <1>1, <2>2 DEF RemindersInv
    <3> QED BY <3>1 DEF Current, Untouched
  <2> QED BY <2>1, <2>2
<1>3. ASSUME NEW a \in BookingIds, Live(a)'
      PROVE  UpTo(jobs', a, bookings'[a].sequence)
  <2>1. CASE a = b
    BY <1>1, <1>3, <2>1 DEF Live
  <2>2. CASE a # b
    <3>1. Live(a)
      BY <1>1, <1>3, <2>2 DEF Live
    <3>2. UpTo(jobs, a, bookings'[a].sequence) /\ Untouched(a, jobs, jobs')
      BY <1>1, <2>2, <3>1 DEF RemindersInv
    <3> QED BY <3>2 DEF UpTo, Untouched
  <2> QED BY <2>1, <2>2
<1> QED BY <1>2, <1>3 DEF RemindersInv

LEMMA RemindersCreateCommit ==
  ASSUME TypeOK, ChildrenHaveParent, RemindersInv, NEW r \in Requests, NEW b \in BookingIds,
         CreateCommit(r, b)
  PROVE  RemindersInv'
<1> DEFINE q == reqs[r]
           row == NewRow(q)
           N == EnqueueConfirmationJobs(jobs, b, row)
<1>1. q \in CreateReq /\ row \in Row /\ row.status = "CONFIRMED"
  BY RequestKinds, NewRowTyped DEF TypeOK, CreateCommit, NewRow
<1>2. q.now \in Int /\ now \in Int /\ q.now <= now
  BY <1>1 DEF TypeOK, CreateReq, CreateCommit, RemindersInv, DecidesInPast, Deciding
<1>3. \A job \in jobs : job.booking # b
  BY DEF CreateCommit, ChildrenHaveParent, Live, JobsOf
<1>4. (\A job \in jobs : ~Fresh(job, b)) /\ Below(jobs, b, row.sequence)
  BY <1>3 DEF Fresh, PendingReminder, Below
<1>5. Noticed(jobs, N, b, row.sequence) /\ jobs \subseteq Job
  BY NoticesAdded DEF TypeOK
<1>6. /\ bookings' = [bookings EXCEPT ![b] = row] /\ now' = now
      /\ jobs' = EnqueueReminderJobs(N, b, row, q.now)
      /\ Become(r, Idle)
  BY DEF CreateCommit
<1> HIDE DEF row, N, q
<1>7. /\ Current(jobs', b, row, now) /\ UpTo(jobs', b, row.sequence)
      /\ \A a : a # b => Untouched(a, jobs, jobs')
  BY <1>1, <1>2, <1>4, <1>5, <1>6, PlacementWritten
<1>8. \A s \in Requests : DecidesInPast(reqs'[s], now')
  BY <1>6, PastAfterStep, IdleDecidesNothing
<1> QED BY <1>6, <1>7, <1>8, RemindersAfterChange

LEMMA RemindersRescheduleCommit ==
  ASSUME TypeOK, SeenInv, RemindersInv, NEW r \in Requests, RescheduleCommit(r)
  PROVE  RemindersInv'
<1> DEFINE q == reqs[r]
<1>0. q \in MoveReq
  BY RequestKinds DEF TypeOK, RescheduleCommit
<1>1. PICK b \in BookingIds : b = q.booking
  BY <1>0 DEF MoveReq
<1> DEFINE old == bookings[b]
           row == MovedRow(old, q)
           kept == CancelPendingReminderJobs(jobs, b)
           N == EnqueueRescheduleJobs(kept, b, row)
<1>2. old \in Row /\ row \in Row
  BY <1>0, <1>1, MovedRowTyped DEF TypeOK
<1>3. row.status = "CONFIRMED" /\ row.sequence = old.sequence + 1
  BY <1>2 DEF MovedRow, Row
<1>4. q.now \in Int /\ now \in Int /\ q.now <= now
  BY <1>0 DEF TypeOK, MoveReq, RescheduleCommit, RemindersInv, DecidesInPast, Deciding
<1>5. UpTo(jobs, b, old.sequence)
  BY <1>1 DEF RescheduleCommit, SeenInv, LockHoldersSeePresent, Locking, RemindersInv
<1>6. Below(jobs, b, row.sequence)
  <2>1. old.sequence \in Nat /\ \A job \in jobs : job.sequence \in Nat
    BY <1>2 DEF TypeOK, Job, Row
  <2> HIDE DEF row, old
  <2> QED BY <1>3, <1>5, <2>1 DEF UpTo, Below
<1>7. jobs \in SUBSET Job /\ kept \subseteq Job
  BY WithdrawnReminders DEF TypeOK
<1>8. Noticed(kept, N, b, row.sequence)
  BY NoticesAdded
<1>9. /\ bookings' = [bookings EXCEPT ![b] = row] /\ now' = now
      /\ jobs' = EnqueueReminderJobs(N, b, row, q.now)
      /\ Become(r, Idle)
  BY <1>1 DEF RescheduleCommit
<1> HIDE DEF row, N, q, old
<1>10. /\ \A job \in kept : ~Fresh(job, b)
       /\ Below(kept, b, row.sequence)
       /\ \A a : a # b => Untouched(a, jobs, kept)
  BY <1>6, <1>7, Withdrawn
<1> HIDE DEF kept
<1>11. /\ Current(jobs', b, row, now) /\ UpTo(jobs', b, row.sequence)
       /\ \A a : a # b => Untouched(a, kept, jobs')
  BY <1>2, <1>3, <1>4, <1>7, <1>8, <1>9, <1>10, PlacementWritten
<1>12. \A a : a # b => Untouched(a, jobs, jobs')
  BY <1>10, <1>11, UntouchedTwice
<1>13. \A s \in Requests : DecidesInPast(reqs'[s], now')
  BY <1>9, PastAfterStep, IdleDecidesNothing
<1> QED BY <1>9, <1>11, <1>12, <1>13, RemindersAfterChange

LEMMA RemindersCancelCommit ==
  ASSUME TypeOK, SeenInv, RemindersInv, NEW r \in Requests, CancelCommit(r)
  PROVE  RemindersInv'
<1>1. PICK b \in BookingIds : b = reqs[r].booking
  BY CancelCommitTyped DEF CancelCommit
<1> DEFINE old == bookings[b]
           row == CancelledRow(old, reqs[r].actor)
           kept == CancelPendingReminderJobs(jobs, b)
<1>2. old \in Row /\ reqs[r].actor \in Actors
  BY <1>1, CancelCommitTyped DEF CancelCommit
<1>3. row.status = "CANCELLED" /\ row.sequence = old.sequence + 1
  BY <1>2, CancelledRowTyped
<1>4. UpTo(jobs, b, old.sequence)
  BY <1>1 DEF CancelCommit, SeenInv, LockHoldersSeePresent, Locking, RemindersInv
<1>5. /\ old.sequence \in Nat /\ row.sequence \in Nat
      /\ \A job \in jobs : job.sequence \in Nat
  BY <1>2, <1>3 DEF TypeOK, Job, Row
<1>6. /\ bookings' = [bookings EXCEPT ![b] = row] /\ now' = now
      /\ jobs' = EnqueueCancellationJobs(kept, b, row)
      /\ Become(r, Idle)
  BY <1>1 DEF CancelCommit
<1>7. jobs \in SUBSET Job
  BY DEF TypeOK
<1> HIDE DEF row, old
<1>8. Below(jobs, b, row.sequence)
  BY <1>3, <1>4, <1>5 DEF UpTo, Below
<1>9. /\ \A job \in kept : ~Fresh(job, b)
      /\ Below(kept, b, row.sequence)
      /\ \A a : a # b => Untouched(a, jobs, kept)
  BY <1>7, <1>8, Withdrawn
<1>10. Noticed(kept, jobs', b, row.sequence)
  BY <1>6, NoticesAdded
<1>11. \A job \in kept : job.sequence \in Nat
  BY <1>7, WithdrawnReminders DEF Job
<1> HIDE DEF kept
<1>12. \A job \in jobs' : ~Fresh(job, b)
  BY <1>9, <1>10 DEF Noticed, Fresh, PendingReminder
<1>13. Current(jobs', b, row, now)
  BY <1>3, <1>12 DEF Current
<1>14. UpTo(jobs', b, row.sequence)
  BY <1>5, <1>9, <1>10, <1>11 DEF UpTo, Below, Noticed
<1>15. \A a : a # b => Untouched(a, kept, jobs')
  BY <1>10 DEF Untouched, Noticed, Fresh, PendingReminder
<1>16. \A a : a # b => Untouched(a, jobs, jobs')
  BY <1>9, <1>15, UntouchedTwice
<1>17. \A s \in Requests : DecidesInPast(reqs'[s], now')
  BY <1>6, PastAfterStep, IdleDecidesNothing
<1> QED BY <1>6, <1>13, <1>14, <1>16, <1>17, RemindersAfterChange

LEMMA RemindersDeleteRow ==
  ASSUME TypeOK, RemindersInv, NEW r \in Requests, DeleteRow(r)
  PROVE  RemindersInv'
<1>1. PICK b \in BookingIds : b = reqs[r].booking
  BY RequestKinds DEF TypeOK, DeleteRow, DeleteReq
<1> DEFINE row == [NoBooking EXCEPT !.status = "DELETED"]
<1>2. row.status = "DELETED"
  BY DEF NoBooking
<1>3. bookings' = [bookings EXCEPT ![b] = row] /\ now' = now /\ Become(r, Idle)
  BY <1>1 DEF DeleteRow
<1>4. jobs' \subseteq jobs /\ \A job \in jobs' : job.booking # b
  BY <1>1 DEF DeleteRow, Emptied, NoOtherChildren
<1>5. \A a \in BookingIds \ {b} : Untouched(a, jobs, jobs')
  BY <1>1, <1>4 DEF DeleteRow, Emptied, Untouched, Fresh, PendingReminder
<1> HIDE DEF row
<1>6. Current(jobs', b, row, now)
  BY <1>2, <1>4 DEF Current, Fresh, PendingReminder
<1>7. \A s \in Requests : DecidesInPast(reqs'[s], now')
  BY <1>3, PastAfterStep, IdleDecidesNothing
<1> QED BY <1>2, <1>3, <1>5, <1>6, <1>7, RemindersAfterChange

LEMMA RemindersUpdateAttendeeEmail ==
  ASSUME TypeOK, RemindersInv, NEW b \in BookingIds, NEW email \in Emails,
         UpdateAttendeeEmail(b, email)
  PROVE  RemindersInv'
<1> DEFINE old == bookings[b]
           row == [old EXCEPT !.email = email]
<1>1. /\ row.status = old.status /\ row.start = old.start /\ row.end = old.end
      /\ row.sequence = old.sequence
  BY DEF TypeOK, Row
<1>2. Current(jobs, b, old, now) /\ UpTo(jobs, b, old.sequence)
  BY DEF RemindersInv, UpdateAttendeeEmail
<1>3. /\ bookings' = [bookings EXCEPT ![b] = row] /\ now' = now
      /\ jobs' = jobs /\ reqs' = reqs
  BY DEF UpdateAttendeeEmail
<1> HIDE DEF row, old
<1>4. Current(jobs', b, row, now) /\ UpTo(jobs', b, row.sequence)
  BY <1>1, <1>2, <1>3 DEF Current
<1>5. \A a \in BookingIds \ {b} : Untouched(a, jobs, jobs')
  BY <1>3 DEF Untouched
<1>6. \A s \in Requests : DecidesInPast(reqs'[s], now')
  BY <1>3 DEF RemindersInv
<1> QED BY <1>3, <1>4, <1>5, <1>6, RemindersAfterChange

\* A step of the clock or of a request that writes no table.
LEMMA RemindersTablesUnchanged ==
  ASSUME TypeOK, RemindersInv, UNCHANGED tables, now' \in Nat, now <= now',
         \A r \in Requests : DecidesInPast(reqs'[r], now')
  PROVE  RemindersInv'
<1>1. \A b \in BookingIds : Live(b)' <=> Live(b)
  BY DEF Live, tables
<1>2. ASSUME NEW b \in BookingIds, NEW kind \in Reminders, bookings[b].start - Lead(kind) > now'
      PROVE  bookings[b].start - Lead(kind) > now
  <2>1. bookings[b].start - Lead(kind) \in Int /\ now \in Nat
    BY LeadAssumption DEF TypeOK, Row, Lead
  <2> QED BY <1>2, <2>1
<1>3. \A b \in BookingIds : Current(jobs, b, bookings[b], now')
  BY <1>2 DEF RemindersInv, Current
<1> QED BY <1>1, <1>3 DEF RemindersInv, tables

LEMMA RemindersRequestStep ==
  ASSUME TypeOK, RemindersInv, NEW r \in Requests, NEW q, Become(r, q),
         UNCHANGED <<tables, now>>, DecidesInPast(q, now)
  PROVE  RemindersInv'
<1>1. now \in Nat /\ now' = now
  BY DEF TypeOK
<1>2. \A s \in Requests : DecidesInPast(reqs'[s], now')
  BY <1>1, PastAfterStep
<1> QED BY <1>1, <1>2, RemindersTablesUnchanged

\* A creation and a reschedule note the time at which they decide.
LEMMA RemindersRequestSteps ==
  ASSUME TypeOK, RemindersInv, NEW r \in Requests,
         \/ CreateOffer(r) \/ CreateValidate(r) \/ CreateCollisionCheck(r)
         \/ RescheduleLock(r) \/ DeleteChildren(r)
         \/ Fail(r) \/ DeadlockVictim(r) \/ LeavePage(r) \/ Abort(r)
         \/ \E b \in BookingIds : LoadPage(r, b) \/ DeleteRead(r, b)
         \/ \E start \in Starts : RescheduleRead(r, start)
         \/ \E et \in EventTypes, start \in Starts, email \in Emails :
              CreateAsk(r, et, start, email)
         \/ \E actor \in Actors : CancelLock(r, actor)
  PROVE  RemindersInv'
<1>1. now <= now
  BY DEF TypeOK
<1>2. ASSUME \/ Fail(r) \/ DeadlockVictim(r) \/ LeavePage(r) \/ Abort(r)
      PROVE  RemindersInv'
  BY <1>2, RemindersRequestStep, IdleDecidesNothing
     DEF Fail, DeadlockVictim, LeavePage, Abort, tables
<1>3. CASE CreateCollisionCheck(r)
  <2> DEFINE q == [reqs[r] EXCEPT !.pc = "checked"]
  <2>1. q.now = reqs[r].now /\ DecidesInPast(reqs[r], now) /\ reqs[r].pc \in Deciding
    BY <1>3, RequestKinds DEF TypeOK, CreateCollisionCheck, CreateReq, RemindersInv, Deciding
  <2>2. DecidesInPast(q, now)
    BY <2>1 DEF DecidesInPast
  <2>3. Become(r, q) /\ UNCHANGED <<tables, now>>
    BY <1>3 DEF CreateCollisionCheck, tables
  <2> HIDE DEF q
  <2> QED BY <2>2, <2>3, RemindersRequestStep
<1>4. CASE RescheduleLock(r)
  <2> DEFINE q == [reqs[r] EXCEPT !.pc = "locked", !.now = now,
                     !.config = eventTypes[bookings[reqs[r].booking].eventType].config]
  <2>1. q.now = now
    BY <1>4, RequestKinds DEF TypeOK, RescheduleLock, MoveReq
  <2>2. Become(r, q) /\ UNCHANGED <<tables, now>>
    BY <1>4 DEF RescheduleLock, tables
  <2> HIDE DEF q
  <2>3. DecidesInPast(q, now)
    BY <1>1, <2>1 DEF DecidesInPast
  <2> QED BY <2>2, <2>3, RemindersRequestStep
<1>5. CASE DeleteChildren(r)
  <2> DEFINE q == [reqs[r] EXCEPT !.pc = "emptied", !.upTo = bookings[reqs[r].booking].sequence]
  <2>1. q.pc = "emptied"
    BY <1>5, RequestKinds DEF TypeOK, DeleteChildren, DeleteReq
  <2>2. Become(r, q) /\ UNCHANGED <<tables, now>>
    BY <1>5 DEF DeleteChildren, tables
  <2> HIDE DEF q
  <2>3. DecidesInPast(q, now)
    BY <2>1 DEF DecidesInPast, Deciding
  <2> QED BY <2>2, <2>3, RemindersRequestStep
<1>6. ASSUME NEW b \in BookingIds, LoadPage(r, b) \/ DeleteRead(r, b)
      PROVE  RemindersInv'
  <2> DEFINE page == [pc |-> "page", booking |-> b, view |-> ViewOf(b)]
             deletion == [pc |-> "deletable", booking |-> b, upTo |-> 0]
  <2>1. DecidesInPast(page, now) /\ DecidesInPast(deletion, now)
    BY DEF DecidesInPast, Deciding
  <2>2. (Become(r, page) \/ Become(r, deletion)) /\ UNCHANGED <<tables, now>>
    BY <1>6 DEF LoadPage, DeleteRead, tables
  <2> HIDE DEF page, deletion
  <2> QED BY <2>1, <2>2, RemindersRequestStep
<1>7. ASSUME NEW start \in Starts, RescheduleRead(r, start)
      PROVE  RemindersInv'
  <2>1. PICK q : Become(r, q) /\ q.now = now
    BY <1>7 DEF RescheduleRead
  <2>2. DecidesInPast(q, now)
    BY <1>1, <2>1 DEF DecidesInPast
  <2> QED BY <1>7, <2>1, <2>2, RemindersRequestStep DEF RescheduleRead, tables
<1>8. ASSUME NEW et \in EventTypes, NEW start \in Starts, NEW email \in Emails,
             CreateAsk(r, et, start, email)
      PROVE  RemindersInv'
  <2>1. PICK q : Become(r, q) /\ q.now = now
    BY <1>8 DEF CreateAsk
  <2>2. DecidesInPast(q, now)
    BY <1>1, <2>1 DEF DecidesInPast
  <2> QED BY <1>8, <2>1, <2>2, RemindersRequestStep DEF CreateAsk, tables
<1>9. CASE CreateOffer(r)
  <2> DEFINE q == [reqs[r] EXCEPT !.pc = "offered"]
  <2>1. q.now = reqs[r].now /\ DecidesInPast(reqs[r], now) /\ reqs[r].pc \in Deciding
    BY <1>9, RequestKinds DEF TypeOK, CreateOffer, AskReq, RemindersInv, Deciding
  <2>2. DecidesInPast(q, now)
    BY <2>1 DEF DecidesInPast
  <2>3. Become(r, q) /\ UNCHANGED <<tables, now>>
    BY <1>9 DEF CreateOffer, tables
  <2> HIDE DEF q
  <2> QED BY <2>2, <2>3, RemindersRequestStep
<1>10. CASE CreateValidate(r)
  <2>1. PICK q : Become(r, q) /\ q.now = reqs[r].now
    BY <1>10 DEF CreateValidate
  <2>2. DecidesInPast(reqs[r], now) /\ reqs[r].pc \in Deciding
    BY <1>10 DEF CreateValidate, RemindersInv, Deciding
  <2>3. DecidesInPast(q, now)
    BY <2>1, <2>2 DEF DecidesInPast
  <2> QED BY <1>10, <2>1, <2>3, RemindersRequestStep DEF CreateValidate, tables
<1>11. ASSUME NEW actor \in Actors, CancelLock(r, actor)
       PROVE  RemindersInv'
  <2>1. PICK q : Become(r, q) /\ q.pc = "cancelling"
    BY <1>11 DEF CancelLock
  <2>2. DecidesInPast(q, now)
    BY <2>1 DEF DecidesInPast, Deciding
  <2> QED BY <1>11, <2>1, <2>2, RemindersRequestStep DEF CancelLock, tables
<1> QED BY <1>2, <1>3, <1>4, <1>5, <1>6, <1>7, <1>8, <1>9, <1>10, <1>11

\* The worker claims no reminder that is still to come, and hands none back
\* without a word about it.
LEMMA RemindersWorker ==
  ASSUME TypeOK, RemindersInv, Worker
  PROVE  RemindersInv'
<1>1. UNCHANGED <<bookings, reqs, now>>
  BY WorkerSteps
<1>2. PICK job \in jobs, left \in Job :
        /\ jobs' = (jobs \ {job}) \cup {left}
        /\ job.kind \in Reminders
        /\ left.booking = job.booking /\ left.kind = job.kind
        /\ left.sequence = job.sequence
        /\ \/ job.status = "PENDING" /\ job.runAt <= now
           \/ job.status = "PROCESSING"
           \/ job.workers > 0
        /\ left.status = "PENDING" /\ ~left.failed =>
             job.status = "PENDING" /\ ~job.failed /\ job.workers > 0
  BY WorkerSteps
<1>3. ASSUME NEW b \in BookingIds
      PROVE  Current(jobs', b, bookings[b], now)
  <2>1. Current(jobs, b, bookings[b], now)
    BY DEF RemindersInv
  <2>2. ~Fresh(left, b)
    <3>1. Fresh(left, b) => Fresh(job, b) /\ job.workers > 0
      BY <1>2 DEF Fresh, PendingReminder
    <3>2. Fresh(job, b) => job.workers = 0
      BY <2>1 DEF Current
    <3> QED BY <3>1, <3>2
  <2>3. ASSUME NEW kind \in Reminders, NEW w \in jobs, Fresh(w, b), w.kind = kind,
               bookings[b].start - Lead(kind) > now
        PROVE  w \in jobs'
    <3>1. w.runAt > now /\ w.workers = 0 /\ w.status = "PENDING"
      BY <2>1, <2>3 DEF Current, Fresh, PendingReminder
    <3>2. w.runAt \in Int /\ now \in Int
      BY DEF TypeOK, Job
    <3>3. w # job
      BY <1>2, <3>1, <3>2
    <3> QED BY <1>2, <3>3
  <2>4. \A x \in jobs' : x \in jobs \/ x = left
    BY <1>2
  <2> QED BY <2>1, <2>2, <2>3, <2>4 DEF Current
<1>4. ASSUME NEW b \in BookingIds, Live(b)
      PROVE  UpTo(jobs', b, bookings[b].sequence)
  BY <1>2, <1>4 DEF RemindersInv, UpTo
<1>5. \A b : Live(b)' <=> Live(b)
  BY <1>1 DEF Live
<1> QED BY <1>1, <1>3, <1>4, <1>5 DEF RemindersInv

\* The host's edits write none of these tables; the clock only goes forward.
LEMMA RemindersEnvironment ==
  ASSUME TypeOK, TypeOK', RemindersInv, NEW delta \in {0, 1}, now' = now + delta,
         UNCHANGED <<tables, reqs>>
  PROVE  RemindersInv'
<1>1. now \in Nat /\ now' \in Nat /\ now <= now'
  BY DEF TypeOK
<1>2. ASSUME NEW r \in Requests
      PROVE  DecidesInPast(reqs'[r], now')
  <2>1. reqs[r].pc \in Deciding => reqs[r].now \in Nat
    BY RequestKinds DEF TypeOK, Deciding, AskReq, CreateReq, MoveReq
  <2>2. DecidesInPast(reqs[r], now)
    BY DEF RemindersInv
  <2> QED BY <1>1, <2>1, <2>2 DEF DecidesInPast
<1> QED BY <1>1, <1>2, RemindersTablesUnchanged

LEMMA RemindersNext ==
  ASSUME TypeOK, TypeOK', SeenInv, ChildrenHaveParent, RemindersInv, [Next]_vars
  PROVE  RemindersInv'
<1>1. ASSUME NEW r \in Requests, Serve(r)
      PROVE  RemindersInv'
  BY <1>1, RemindersCreateCommit, RemindersRescheduleCommit, RemindersCancelCommit,
     RemindersDeleteRow, RemindersRequestSteps DEF Serve
<1>2. ASSUME NEW r \in Requests, Client(r)
      PROVE  RemindersInv'
  BY <1>2, RemindersRequestSteps DEF Client
<1>3. CASE Environment
  <2>1. now \in Nat /\ now + 0 = now
    BY DEF TypeOK
  <2>2. CASE Tick
    BY <2>2, RemindersEnvironment DEF Tick
  <2>3. CASE \/ \E et \in EventTypes, config \in Configs : UpdateEventType(et, config)
             \/ \E et \in EventTypes : ArchiveEventType(et)
             \/ \E h \in Hosts, i \in Integrations : ChangeIntegration(h, i)
    BY <2>1, <2>3, RemindersEnvironment
       DEF UpdateEventType, ArchiveEventType, ChangeIntegration
  <2> QED BY <1>3, <2>2, <2>3, RemindersUpdateAttendeeEmail, RemindersWorker DEF Environment
<1>4. CASE UNCHANGED vars
  <2>1. now \in Nat /\ now + 0 = now
    BY DEF TypeOK
  <2> QED BY <1>4, <2>1, RemindersEnvironment DEF vars, tables
<1> QED BY <1>1, <1>2, <1>3, <1>4 DEF Next

\* The waiting reminders that no worker has handed back are those of the
\* present: of a confirmed booking, with its present times, due by its lead.
\* And none that is still to come is missing or in a worker's hands, although
\* requests decide by a time that has passed, a booking may be moved, cancelled
\* and confirmed again, and workers claim, lose and hand back what is due.
THEOREM RemindersOfPresent == Spec => []RemindersCurrent
<1>1. Init => RemindersInv
  BY DEF Init, RemindersInv, Current, Live, NoBooking, DecidesInPast, Deciding, Idle
<1>2. TypeOK /\ TypeOK' /\ SeenInv /\ ChildrenHaveParent /\ RemindersInv /\ [Next]_vars
        => RemindersInv'
  BY RemindersNext
<1>3. RemindersInv => RemindersCurrent
  BY RemindersInvCurrent
<1> QED BY TypeCorrect, SeenAlways, NoOrphans, <1>1, <1>2, <1>3, PTL DEF Spec

-----------------------------------------------------------------------------
(* The notices *)

UpToMove(H, n) == {h \in H : h.sequence <= n}
IsLast(S, x) == x \in S /\ \A y \in S : y.sequence <= x.sequence
IsFirst(S, x) == x \in S /\ \A y \in S : x.sequence <= y.sequence

\* TimesAt, for a history and a row.
TimesIn(H, row, n) ==
  IF UpToMove(H, n) # {}
  THEN LET h == CHOOSE x \in UpToMove(H, n) : \A y \in UpToMove(H, n) : y.sequence <= x.sequence
       IN <<h.newStart, h.newEnd>>
  ELSE IF H # {}
  THEN LET h == CHOOSE x \in H : \A y \in H : x.sequence <= y.sequence
       IN <<h.prevStart, h.prevEnd>>
  ELSE <<row.start, row.end>>

\* There is a first move, and a last one up to each number.
Ranked(H) ==
  /\ H # {} => \E x : IsFirst(H, x)
  /\ \A n \in Nat : UpToMove(H, n) # {} => \E x : IsLast(UpToMove(H, n), x)

LEMMA NoMoves == \A row, n : Ranked({}) /\ TimesIn({}, row, n) = <<row.start, row.end>>
BY DEF Ranked, TimesIn, UpToMove

LEMMA TimesAfterLast ==
  ASSUME NEW H, Unique(H), NEW row, NEW n, NEW x, IsLast(UpToMove(H, n), x),
         H \in SUBSET Move
  PROVE  TimesIn(H, row, n) = <<x.newStart, x.newEnd>>
<1> DEFINE past == UpToMove(H, n)
           last == CHOOSE y \in past : \A z \in past : z.sequence <= y.sequence
<1>1. x \in past /\ \A z \in past : z.sequence <= x.sequence
  BY DEF IsLast
<1>2. last \in past /\ \A z \in past : z.sequence <= last.sequence
  <2> HIDE DEF past
  <2> QED BY <1>1
<1>3. \A y \in past : y \in H /\ y.sequence \in Nat
  BY DEF UpToMove, Move
<1> HIDE DEF last
<1>4. last = x
  BY <1>1, <1>2, <1>3 DEF Unique
<1> QED BY <1>1, <1>4 DEF TimesIn, last

LEMMA TimesBeforeFirst ==
  ASSUME NEW H, Unique(H), NEW row, NEW n, UpToMove(H, n) = {}, NEW x, IsFirst(H, x),
         H \in SUBSET Move
  PROVE  TimesIn(H, row, n) = <<x.prevStart, x.prevEnd>>
<1> DEFINE first == CHOOSE y \in H : \A z \in H : y.sequence <= z.sequence
<1>1. x \in H /\ \A z \in H : x.sequence <= z.sequence
  BY DEF IsFirst
<1>2. first \in H /\ \A z \in H : first.sequence <= z.sequence
  BY <1>1
<1>3. \A y \in H : y.sequence \in Nat
  BY DEF Move
<1> HIDE DEF first
<1>4. first = x
  BY <1>1, <1>2, <1>3 DEF Unique
<1> QED BY <1>1, <1>4 DEF TimesIn, first

\* A change that moves nothing: up to the booking's number all times stay, and
\* from there on they are those of its row.
LEMMA TimesOfRow ==
  ASSUME NEW H \in SUBSET Move, NEW row \in Row, Chain(H, row), Ranked(H),
         NEW n \in Nat, row.sequence <= n
  PROVE  TimesIn(H, row, n) = <<row.start, row.end>>
<1>1. UpToMove(H, n) = H
  <2>1. row.sequence \in Nat /\ \A h \in H : h.sequence \in Nat
    BY DEF Row, Move
  <2> QED BY <2>1 DEF Chain, UpToMove
<1>2. CASE H = {}
  BY <1>2, NoMoves
<1>3. CASE H # {}
  <2>1. PICK x : IsLast(H, x)
    BY <1>1, <1>3 DEF Ranked
  <2>2. TimesIn(H, row, n) = <<x.newStart, x.newEnd>>
    BY <1>1, <2>1, TimesAfterLast DEF Chain
  <2> QED BY <2>1, <2>2 DEF IsLast, Chain, EndsAt
<1> QED BY <1>2, <1>3

\* Every move of H is before number n.
Earlier(H, n) == \A h \in H : h.sequence < n

\* A move that starts from the present times leaves the times before it.
LEMMA TimesOfMove ==
  ASSUME NEW H \in SUBSET Move, Unique(H), Ranked(H), NEW m \in Move,
         Earlier(H, m.sequence), NEW row, NEW new,
         <<m.prevStart, m.prevEnd>> = <<row.start, row.end>>
  PROVE  /\ Ranked(H \cup {m})
         /\ \A n \in Nat : n < m.sequence => TimesIn(H \cup {m}, new, n) = TimesIn(H, row, n)
         /\ TimesIn(H \cup {m}, new, m.sequence) = <<m.newStart, m.newEnd>>
<1> DEFINE all == H \cup {m}
<1>1. all \in SUBSET Move /\ m.sequence \in Nat /\ \A h \in all : h.sequence \in Nat
  BY DEF Move
<1>2. Unique(all)
  BY <1>1 DEF Unique, Earlier
<1>3. ASSUME NEW n \in Nat, m.sequence <= n
      PROVE  IsLast(UpToMove(all, n), m)
  BY <1>1, <1>3 DEF IsLast, UpToMove, Earlier
<1>4. ASSUME NEW n \in Nat, n < m.sequence
      PROVE  UpToMove(all, n) = UpToMove(H, n)
  BY <1>1, <1>4 DEF UpToMove
<1>5. ASSUME H # {}
      PROVE  \E x : IsFirst(H, x) /\ IsFirst(all, x)
  <2>1. PICK x : IsFirst(H, x)
    BY <1>5 DEF Ranked
  <2>2. IsFirst(all, x)
    BY <1>1, <2>1 DEF IsFirst, Earlier
  <2> QED BY <2>1, <2>2
<1>6. H = {} => IsFirst(all, m)
  BY <1>1 DEF IsFirst
<1>7. Ranked(all)
  <2>1. \E x : IsFirst(all, x)
    BY <1>5, <1>6
  <2>2. ASSUME NEW n \in Nat, UpToMove(all, n) # {}
        PROVE  \E x : IsLast(UpToMove(all, n), x)
    <3>1. CASE m.sequence <= n
      BY <1>3, <3>1
    <3>2. CASE n < m.sequence
      BY <1>4, <2>2, <3>2 DEF Ranked
    <3>3. m.sequence <= n \/ n < m.sequence
      BY <1>1
    <3> HIDE DEF all
    <3> QED BY <3>1, <3>2, <3>3
  <2> HIDE DEF all
  <2> QED BY <2>1, <2>2 DEF Ranked
<1>8. ASSUME NEW n \in Nat, n < m.sequence
      PROVE  TimesIn(all, new, n) = TimesIn(H, row, n)
  <2>1. UpToMove(all, n) = UpToMove(H, n)
    BY <1>4, <1>8
  <2>2. CASE UpToMove(H, n) # {}
    <3>1. PICK x : IsLast(UpToMove(H, n), x)
      BY <2>2 DEF Ranked
    <3> HIDE DEF all
    <3> QED BY <1>1, <1>2, <2>1, <3>1, TimesAfterLast
  <2>3. CASE UpToMove(H, n) = {} /\ H # {}
    <3>1. PICK x : IsFirst(H, x) /\ IsFirst(all, x)
      BY <1>5, <2>3
    <3> HIDE DEF all
    <3> QED BY <1>1, <1>2, <2>1, <2>3, <3>1, TimesBeforeFirst
  <2>4. CASE UpToMove(H, n) = {} /\ H = {}
    <3>1. TimesIn(all, new, n) = <<m.prevStart, m.prevEnd>>
      <4> HIDE DEF all
      <4> QED BY <1>1, <1>2, <1>6, <2>1, <2>4, TimesBeforeFirst
    <3>2. TimesIn(H, row, n) = <<row.start, row.end>>
      BY <2>4, NoMoves
    <3> QED BY <3>1, <3>2
  <2> QED BY <2>2, <2>3, <2>4
<1>9. TimesIn(all, new, m.sequence) = <<m.newStart, m.newEnd>>
  <2>1. IsLast(UpToMove(all, m.sequence), m)
    BY <1>1, <1>3
  <2> HIDE DEF all
  <2> QED BY <1>1, <1>2, <2>1, TimesAfterLast
<1> QED BY <1>7, <1>8, <1>9

-----------------------------------------------------------------------------
(* What the rows of the outbox say of a booking *)

\* What a row says, whatever has become of it.
Word(job) == [sequence |-> job.sequence, kind |-> job.kind, to |-> job.to,
              start |-> job.start, end |-> job.end]
WordOf(row, kind, to) == [sequence |-> row.sequence, kind |-> kind, to |-> to,
                          start |-> row.start, end |-> row.end]
\* What a change says in its notices and in its reminders.
NoticeWords(row, kind, parties) == {WordOf(row, kind, to) : to \in parties}
RemindersSay(row) == {WordOf(row, kind, "attendee") : kind \in Reminders}
Words(J, b) == {Word(job) : job \in {j \in J : j.booking = b}}

\* The notices among the words W for change number n, and those it must have.
NoticesOf(W, n) == {<<w.kind, w.to>> : w \in {x \in W : x.sequence = n /\ x.kind \notin Reminders}}
Due(notices, H, n) ==
  IF n = 0 THEN notices = {"confirmed"} \X {"attendee", "host"}
  ELSE IF \E h \in H : h.sequence = n THEN notices = {"rescheduled"} \X {"attendee", "host"}
  ELSE \E to \in {"attendee", "host"} : notices = {<<"cancelled", to>>}

\* The words W tell the story of a booking with history H and this row.
Told(W, H, row) ==
  /\ \A w \in W : w.sequence <= row.sequence /\ <<w.start, w.end>> = TimesIn(H, row, w.sequence)
  /\ \A n \in 0 .. row.sequence : Due(NoticesOf(W, n), H, n)
  /\ row.status # "CONFIRMED" =>
       \E w \in W : w.sequence = row.sequence /\ w.to = Notified(row.cancelledBy)

NoticesInv ==
  \A b \in BookingIds : Live(b) =>
    Ranked(HistoryOf(b)) /\ Told(Words(jobs, b), HistoryOf(b), bookings[b])

LEMMA ToldIsNotices ==
  ASSUME NoticesInv
  PROVE  NoticePerChange
<1> SUFFICES ASSUME NEW b \in BookingIds, Live(b)
    PROVE  /\ \A job \in JobsOf(b) :
                /\ job.sequence <= bookings[b].sequence
                /\ <<job.start, job.end>> = TimesAt(b, job.sequence)
           /\ \A n \in 0 .. bookings[b].sequence :
                Due({<<job.kind, job.to>> : job \in {j \in JobsOf(b) :
                       j.sequence = n /\ j.kind \notin Reminders}}, HistoryOf(b), n)
           /\ ~Confirmed(b) =>
                \E job \in JobsOf(b) : /\ job.sequence = bookings[b].sequence
                                       /\ job.to = Notified(bookings[b].cancelledBy)
  BY DEF NoticePerChange, Due
<1> DEFINE W == Words(jobs, b)
<1>1. Told(W, HistoryOf(b), bookings[b])
  BY DEF NoticesInv
<1>2. \A job \in JobsOf(b) : Word(job) \in W
  BY DEF Words, JobsOf
<1>3. \A w \in W : \E job \in JobsOf(b) : w = Word(job)
  BY DEF Words, JobsOf
<1>4. \A job : /\ Word(job).sequence = job.sequence /\ Word(job).kind = job.kind
               /\ Word(job).to = job.to /\ Word(job).start = job.start /\ Word(job).end = job.end
  BY DEF Word
<1> HIDE DEF W
<1>5. \A n : TimesAt(b, n) = TimesIn(HistoryOf(b), bookings[b], n)
  BY DEF TimesAt, TimesIn, UpToMove
<1>6. \A job \in JobsOf(b) : /\ job.sequence <= bookings[b].sequence
                             /\ <<job.start, job.end>> = TimesAt(b, job.sequence)
  BY <1>1, <1>2, <1>4, <1>5 DEF Told
<1>7. ASSUME NEW n \in 0 .. bookings[b].sequence
      PROVE  Due({<<job.kind, job.to>> : job \in {j \in JobsOf(b) :
                    j.sequence = n /\ j.kind \notin Reminders}}, HistoryOf(b), n)
  <2>1. NoticesOf(W, n) = {<<job.kind, job.to>> : job \in {j \in JobsOf(b) :
                             j.sequence = n /\ j.kind \notin Reminders}}
    BY <1>2, <1>3, <1>4 DEF NoticesOf
  <2> QED BY <1>1, <2>1 DEF Told
<1>8. ~Confirmed(b) => \E job \in JobsOf(b) : /\ job.sequence = bookings[b].sequence
                                              /\ job.to = Notified(bookings[b].cancelledBy)
  BY <1>1, <1>3, <1>4 DEF Told, Confirmed
<1> QED BY <1>6, <1>7, <1>8

\* A withdrawn reminder says what it said.
LEMMA WithdrawnWords ==
  ASSUME NEW J \in SUBSET Job, NEW b, NEW a
  PROVE  Words(CancelPendingReminderJobs(J, b), a) = Words(J, a)
<1> DEFINE K == CancelPendingReminderJobs(J, b)
           gone(job) == [job EXCEPT !.status = "CANCELLED", !.failed = TRUE]
<1>1. \A job \in J : gone(job).booking = job.booking /\ Word(gone(job)) = Word(job)
  BY DEF Job, Word
<1>2. \A job \in K : \E old \in J : old.booking = job.booking /\ Word(old) = Word(job)
  BY <1>1 DEF CancelPendingReminderJobs
<1>3. \A old \in J : \E job \in K : old.booking = job.booking /\ Word(old) = Word(job)
  BY <1>1 DEF CancelPendingReminderJobs
<1> HIDE DEF K
<1>4. Words(K, a) = Words(J, a)
  BY <1>2, <1>3 DEF Words
<1> QED BY <1>4 DEF K

\* No row about b is numbered n.
NoneFor(J, b, n) == \A job \in J : job.booking = b => job.sequence # n

\* All the rows are about b.
About(rows, b) == \A n \in rows : n.booking = b

\* New rows about b add words about b only, and all of theirs if their keys are new.
LEMMA OthersWords ==
  ASSUME NEW J, NEW new, NEW b, About(new, b), NEW a, a # b
  PROVE  Words(UpsertJobs(J, new), a) = Words(J, a)
BY DEF Words, UpsertJobs, About

LEMMA SomeWords ==
  ASSUME NEW J, NEW new, NEW b, About(new, b)
  PROVE  /\ Words(J, b) \subseteq Words(UpsertJobs(J, new), b)
         /\ \A w \in Words(UpsertJobs(J, new), b) : w \in Words(J, b) \/ \E n \in new : w = Word(n)
BY DEF Words, UpsertJobs, About

LEMMA AllWords ==
  ASSUME NEW J, NEW new, NEW b, About(new, b),
         \A n \in new, job \in J : Key(job) # Key(n)
  PROVE  Words(UpsertJobs(J, new), b) = Words(J, b) \cup {Word(n) : n \in new}
<1>1. UpsertJobs(J, new) = J \cup new
  BY DEF UpsertJobs
<1> QED BY <1>1 DEF Words, About

\* The words of a row written for a booking, and of the rows it may clash with.
LEMMA NewWords ==
  ASSUME NEW b, NEW row
  PROVE  \A kind, to, runAt : LET n == NewJob(b, row, kind, to, runAt)
           IN /\ Word(n) = WordOf(row, kind, to) /\ n.booking = b
              /\ Key(n) = <<b, kind, row.sequence, to>>
BY DEF NewJob, Word, WordOf, Key

\* The rows of the notices of a change, of one kind.
NoticeRows(b, row, kind, parties) == {NewJob(b, row, kind, to, AtOnce) : to \in parties}

LEMMA NoticesAreRows ==
  ASSUME NEW J, NEW b, NEW row
  PROVE  /\ EnqueueConfirmationJobs(J, b, row) =
              UpsertJobs(J, NoticeRows(b, row, "confirmed", {"attendee", "host"}))
         /\ EnqueueRescheduleJobs(J, b, row) =
              UpsertJobs(J, NoticeRows(b, row, "rescheduled", {"attendee", "host"}))
         /\ EnqueueCancellationJobs(J, b, row) =
              UpsertJobs(J, NoticeRows(b, row, "cancelled", {Notified(row.cancelledBy)}))
BY DEF EnqueueConfirmationJobs, EnqueueRescheduleJobs, EnqueueCancellationJobs, NoticeRows

\* The notices of a change that has no rows yet are all written, and nothing
\* about another booking.
LEMMA NoticesWritten ==
  ASSUME NEW J, NEW b, NEW row, NEW kind, NEW parties, NoneFor(J, b, row.sequence)
  PROVE  Words(UpsertJobs(J, NoticeRows(b, row, kind, parties)), b) =
           Words(J, b) \cup NoticeWords(row, kind, parties)
<1> DEFINE new == NoticeRows(b, row, kind, parties)
<1>1. About(new, b)
  BY NewWords DEF About, NoticeRows
<1>2. \A n \in new, job \in J : Key(job) # Key(n)
  BY NewWords DEF Key, NoneFor, NoticeRows
<1>3. {Word(n) : n \in new} = NoticeWords(row, kind, parties)
  <2>1. \A to \in parties : Word(NewJob(b, row, kind, to, AtOnce)) = WordOf(row, kind, to)
    BY NewWords
  <2> QED BY <2>1 DEF NoticeWords, NoticeRows
<1> HIDE DEF new
<1>4. Words(UpsertJobs(J, new), b) = Words(J, b) \cup {Word(n) : n \in new}
  BY <1>1, <1>2, AllWords
<1> QED BY <1>3, <1>4 DEF new

LEMMA NoticesNotOfOthers ==
  ASSUME NEW J, NEW b, NEW row, NEW kind, NEW parties, NEW a, a # b
  PROVE  Words(UpsertJobs(J, NoticeRows(b, row, kind, parties)), a) = Words(J, a)
<1>1. About(NoticeRows(b, row, kind, parties), b)
  BY NewWords DEF About, NoticeRows
<1> QED BY <1>1, OthersWords

\* The reminders add words of their own kind.
LEMMA ReminderWords ==
  ASSUME NEW J, NEW b, NEW row, NEW t
  PROVE  /\ \A a : a # b => Words(EnqueueReminderJobs(J, b, row, t), a) = Words(J, a)
         /\ \E V \in SUBSET RemindersSay(row) :
              Words(EnqueueReminderJobs(J, b, row, t), b) = Words(J, b) \cup V
<1> DEFINE due == {k \in Reminders : row.start - Lead(k) > t}
           new == {NewJob(b, row, kind, "attendee", row.start - Lead(kind)) : kind \in due}
<1>1. CASE row.status # "CONFIRMED"
  <2>1. EnqueueReminderJobs(J, b, row, t) = J
    BY <1>1 DEF EnqueueReminderJobs
  <2>2. {} \in SUBSET RemindersSay(row)
    OBVIOUS
  <2> QED BY <2>1, <2>2
<1>2. CASE row.status = "CONFIRMED"
  <2>1. EnqueueReminderJobs(J, b, row, t) = UpsertJobs(J, new)
    BY <1>2 DEF EnqueueReminderJobs
  <2>2. About(new, b)
    BY NewWords DEF About
  <2>3. \A n \in new : \E kind \in Reminders : Word(n) = WordOf(row, kind, "attendee")
    BY NewWords
  <2> HIDE DEF new
  <2>4. /\ Words(J, b) \subseteq Words(UpsertJobs(J, new), b)
        /\ \A w \in Words(UpsertJobs(J, new), b) : w \in Words(J, b) \/ \E n \in new : w = Word(n)
    BY <2>2, SomeWords
  <2>5. \A a : a # b => Words(UpsertJobs(J, new), a) = Words(J, a)
    BY <2>2, OthersWords
  <2> DEFINE V == Words(UpsertJobs(J, new), b) \ Words(J, b)
  <2>6. Words(UpsertJobs(J, new), b) = Words(J, b) \cup V
    BY <2>4
  <2>7. V \in SUBSET RemindersSay(row)
    BY <2>3, <2>4 DEF RemindersSay
  <2> QED BY <2>1, <2>5, <2>6, <2>7
<1> QED BY <1>1, <1>2

-----------------------------------------------------------------------------
(* The story goes on *)

\* The words V of a change number row.sequence: they tell its times, and hold
\* the notices of the given kind and parties.
Notify(V, row, kind, parties) ==
  /\ \A w \in V : w.sequence = row.sequence /\ <<w.start, w.end>> = <<row.start, row.end>>
  /\ \A w \in V : w.kind \in Reminders \/ (w.kind = kind /\ w.to \in parties)
  /\ \A to \in parties : \E w \in V : w.kind = kind /\ w.to = to

LEMMA NotifyNotices ==
  ASSUME NEW V, NEW row, NEW kind, NEW parties, kind \notin Reminders,
         Notify(V, row, kind, parties)
  PROVE  NoticesOf(V, row.sequence) = {<<kind, to>> : to \in parties}
BY DEF Notify, NoticesOf

\* The words of a change: its notices and, perhaps, reminders.
LEMMA WordsNotify ==
  ASSUME NEW row, NEW kind, kind \notin Reminders, NEW parties,
         NEW V \in SUBSET RemindersSay(row)
  PROVE  Notify(NoticeWords(row, kind, parties) \cup V, row, kind, parties)
<1> DEFINE N == NoticeWords(row, kind, parties)
<1>1. \A k, to : /\ WordOf(row, k, to).sequence = row.sequence
                 /\ WordOf(row, k, to).kind = k /\ WordOf(row, k, to).to = to
                 /\ <<WordOf(row, k, to).start, WordOf(row, k, to).end>> = <<row.start, row.end>>
  BY DEF WordOf
<1>2. \A w \in N : \E to \in parties : w = WordOf(row, kind, to)
  BY DEF NoticeWords
<1>3. \A to \in parties : WordOf(row, kind, to) \in N
  BY DEF NoticeWords
<1>4. \A w \in V : \E k \in Reminders : w = WordOf(row, k, "attendee")
  BY DEF RemindersSay
<1> HIDE DEF N
<1>5. \A w \in N \cup V :
        /\ w.sequence = row.sequence /\ <<w.start, w.end>> = <<row.start, row.end>>
        /\ w.kind \in Reminders \/ (w.kind = kind /\ w.to \in parties)
  BY <1>1, <1>2, <1>4
<1>6. \A to \in parties : \E w \in N \cup V : w.kind = kind /\ w.to = to
  BY <1>1, <1>3
<1>7. Notify(N \cup V, row, kind, parties)
  BY <1>5, <1>6 DEF Notify
<1> QED BY <1>7 DEF N

LEMMA ToldFirst ==
  ASSUME NEW V, NEW row, row.sequence = 0, row.status = "CONFIRMED",
         Notify(V, row, "confirmed", {"attendee", "host"})
  PROVE  Ranked({}) /\ Told(V, {}, row)
<1>1. NoticesOf(V, 0) = {<<"confirmed", to>> : to \in {"attendee", "host"}}
  BY NotifyNotices DEF Reminders
<1>2. Due(NoticesOf(V, 0), {}, 0)
  BY <1>1 DEF Due
<1>3. \A w \in V : w.sequence <= 0 /\ <<w.start, w.end>> = TimesIn({}, row, w.sequence)
  BY NoMoves DEF Notify
<1> QED BY <1>2, <1>3, NoMoves DEF Told

\* A change adds its words: what was told before stays told.
LEMMA ToldExtended ==
  ASSUME NEW W, \A w \in W : w.sequence \in Nat, NEW V, NEW H, NEW K, NEW old \in Row,
         NEW new \in Row, NEW kind, kind \notin Reminders, NEW parties,
         Told(W, H, old), new.sequence = old.sequence + 1,
         \A n \in 0 .. old.sequence : TimesIn(K, new, n) = TimesIn(H, old, n),
         TimesIn(K, new, new.sequence) = <<new.start, new.end>>,
         \A n \in 0 .. old.sequence : (\E h \in K : h.sequence = n) <=> (\E h \in H : h.sequence = n),
         Notify(V, new, kind, parties),
         Due({<<kind, to>> : to \in parties}, K, new.sequence),
         new.status # "CONFIRMED" => Notified(new.cancelledBy) \in parties
  PROVE  Told(W \cup V, K, new)
<1>1. old.sequence \in Nat /\ new.sequence \in Nat
  BY DEF Row
<1>2. ASSUME NEW w \in W \cup V
      PROVE  w.sequence <= new.sequence /\ <<w.start, w.end>> = TimesIn(K, new, w.sequence)
  <2>1. CASE w \in W
    <3>1. w.sequence \in 0 .. old.sequence
      BY <1>1, <2>1 DEF Told
    <3> QED BY <1>1, <2>1, <3>1 DEF Told
  <2>2. CASE w \in V
    BY <1>1, <2>2 DEF Notify
  <2> QED BY <2>1, <2>2
<1>3. ASSUME NEW n \in 0 .. new.sequence
      PROVE  Due(NoticesOf(W \cup V, n), K, n)
  <2>1. CASE n \in 0 .. old.sequence
    <3>1. \A w \in V : w.sequence # n
      BY <1>1, <2>1 DEF Notify
    <3>2. NoticesOf(W \cup V, n) = NoticesOf(W, n)
      BY <3>1 DEF NoticesOf
    <3>3. Due(NoticesOf(W, n), H, n)
      BY <2>1 DEF Told
    <3>4. (\E h \in K : h.sequence = n) <=> (\E h \in H : h.sequence = n)
      BY <2>1
    <3> HIDE DEF NoticesOf
    <3> QED BY <3>2, <3>3, <3>4 DEF Due
  <2>2. CASE n = new.sequence
    <3>1. \A w \in W : w.sequence # n
      BY <1>1, <2>2 DEF Told
    <3>2. NoticesOf(W \cup V, n) = NoticesOf(V, n)
      BY <3>1 DEF NoticesOf
    <3>3. NoticesOf(V, n) = {<<kind, to>> : to \in parties}
      BY <2>2, NotifyNotices
    <3> QED BY <2>2, <3>2, <3>3
  <2>3. n \in 0 .. old.sequence \/ n = new.sequence
    BY <1>1
  <2> QED BY <2>1, <2>2, <2>3
<1>4. new.status # "CONFIRMED" =>
        \E w \in W \cup V : w.sequence = new.sequence /\ w.to = Notified(new.cancelledBy)
  BY DEF Notify
<1> QED BY <1>2, <1>3, <1>4 DEF Told

\* The words written with a change that places b: its notices and reminders.
LEMMA PlacementWords ==
  ASSUME NEW J, NEW N, NEW b, NEW row, NEW t, NEW kind, kind \notin Reminders, NEW parties,
         Words(N, b) = Words(J, b) \cup NoticeWords(row, kind, parties),
         \A a : a # b => Words(N, a) = Words(J, a)
  PROVE  /\ \A a : a # b => Words(EnqueueReminderJobs(N, b, row, t), a) = Words(J, a)
         /\ \E V : /\ Notify(V, row, kind, parties)
                   /\ Words(EnqueueReminderJobs(N, b, row, t), b) = Words(J, b) \cup V
<1> DEFINE after == EnqueueReminderJobs(N, b, row, t)
           notices == NoticeWords(row, kind, parties)
<1>1. \A a : a # b => Words(after, a) = Words(J, a)
  BY ReminderWords
<1>2. PICK V \in SUBSET RemindersSay(row) :
        Words(after, b) = Words(N, b) \cup V
  BY ReminderWords
<1>3. Notify(notices \cup V, row, kind, parties)
  BY WordsNotify
<1>4. Words(after, b) = Words(J, b) \cup (notices \cup V)
  <2> HIDE DEF after, notices
  <2>1. Words(N, b) = Words(J, b) \cup notices
    BY DEF notices
  <2> QED BY <1>2, <2>1
<1> HIDE DEF after, notices
<1>5. \E U : Notify(U, row, kind, parties) /\ Words(after, b) = Words(J, b) \cup U
  BY <1>3, <1>4
<1> QED BY <1>1, <1>5 DEF after

\* No row is numbered as the next change yet.
LEMMA NextIsNew ==
  ASSUME NEW J \in SUBSET Job, NEW b, NEW H, NEW old \in Row, NEW next,
         Told(Words(J, b), H, old), next = old.sequence + 1
  PROVE  /\ NoneFor(J, b, next)
         /\ \A w \in Words(J, b) : w.sequence \in Nat
<1>1. \A job \in J : job.booking = b => Word(job) \in Words(J, b)
  BY DEF Words
<1>2. \A job \in J : Word(job).sequence = job.sequence /\ job.sequence \in Nat
  BY DEF Word, Job
<1>3. old.sequence \in Nat
  BY DEF Row
<1>4. \A job \in J : job.booking = b => job.sequence <= old.sequence
  BY <1>1, <1>2 DEF Told
<1>5. \A w \in Words(J, b) : \E job \in J : w = Word(job)
  BY DEF Words
<1> QED BY <1>2, <1>3, <1>4, <1>5 DEF NoneFor

\* A step that changes booking b and the rows about it.
LEMMA NoticesAfterChange ==
  ASSUME TypeOK, NoticesInv, NEW b \in BookingIds, NEW row,
         bookings' = [bookings EXCEPT ![b] = row],
         \A a \in BookingIds \ {b} : HistoryOf(a)' = HistoryOf(a) /\ Words(jobs', a) = Words(jobs, a),
         row.status \in {"CONFIRMED", "CANCELLED"} =>
           Ranked(HistoryOf(b)') /\ Told(Words(jobs', b), HistoryOf(b)', row)
  PROVE  NoticesInv'
<1>1. bookings'[b] = row /\ \A a \in BookingIds \ {b} : bookings'[a] = bookings[a]
  BY DEF TypeOK
<1> SUFFICES ASSUME NEW a \in BookingIds, Live(a)'
             PROVE  Ranked(HistoryOf(a)') /\ Told(Words(jobs', a), HistoryOf(a)', bookings'[a])
  BY DEF NoticesInv
<1>2. CASE a = b
  BY <1>1, <1>2 DEF Live
<1>3. CASE a # b
  <2>1. Live(a)
    BY <1>1, <1>3 DEF Live
  <2> QED BY <1>1, <1>3, <2>1 DEF NoticesInv
<1> QED BY <1>2, <1>3

LEMMA NoticesCreateCommit ==
  ASSUME TypeOK, ChildrenHaveParent, NoticesInv, NEW r \in Requests, NEW b \in BookingIds,
         CreateCommit(r, b)
  PROVE  NoticesInv'
<1> DEFINE q == reqs[r]
           row == NewRow(q)
           N == EnqueueConfirmationJobs(jobs, b, row)
           parties == {"attendee", "host"}
<1>1. row.status = "CONFIRMED" /\ row.sequence = 0
  BY DEF NewRow
<1>2. /\ bookings' = [bookings EXCEPT ![b] = row]
      /\ jobs' = EnqueueReminderJobs(N, b, row, q.now)
      /\ history' = history
  BY DEF CreateCommit
<1>3. HistoryOf(b) = {} /\ \A job \in jobs : job.booking # b
  BY DEF CreateCommit, ChildrenHaveParent, Live, JobsOf
<1>4. Words(jobs, b) = {}
  BY <1>3 DEF Words
<1> HIDE DEF row
<1>5. /\ Words(N, b) = Words(jobs, b) \cup NoticeWords(row, "confirmed", parties)
      /\ \A a : a # b => Words(N, a) = Words(jobs, a)
  <2>1. NoneFor(jobs, b, row.sequence)
    BY <1>3 DEF NoneFor
  <2>2. N = UpsertJobs(jobs, NoticeRows(b, row, "confirmed", parties))
    BY NoticesAreRows
  <2> HIDE DEF N
  <2>3. Words(N, b) = Words(jobs, b) \cup NoticeWords(row, "confirmed", parties)
    BY <2>1, <2>2, NoticesWritten
  <2>4. \A a : a # b => Words(N, a) = Words(jobs, a)
    BY <2>2, NoticesNotOfOthers
  <2> QED BY <2>3, <2>4
<1>6. "confirmed" \notin Reminders
  BY DEF Reminders
<1> HIDE DEF N, q
<1>7. /\ \A a : a # b => Words(jobs', a) = Words(jobs, a)
      /\ \E V : /\ Notify(V, row, "confirmed", parties)
                /\ Words(jobs', b) = Words(jobs, b) \cup V
  BY <1>2, <1>5, <1>6, PlacementWords
<1>8. PICK V : Notify(V, row, "confirmed", parties) /\ Words(jobs', b) = V
  BY <1>4, <1>7
<1>9. Ranked({}) /\ Told(Words(jobs', b), {}, row)
  BY <1>1, <1>8, ToldFirst
<1>10. HistoryOf(b)' = {} /\ \A a : HistoryOf(a)' = HistoryOf(a)
  BY <1>2, <1>3 DEF HistoryOf
<1> QED BY <1>2, <1>7, <1>9, <1>10, NoticesAfterChange

LEMMA NoticesRescheduleCommit ==
  ASSUME TypeOK, SeenInv, HistoryInv, NoticesInv, NEW r \in Requests, RescheduleCommit(r)
  PROVE  NoticesInv'
<1> DEFINE q == reqs[r]
           parties == {"attendee", "host"}
<1>0. q \in MoveReq
  BY RequestKinds DEF TypeOK, RescheduleCommit
<1>1. PICK b \in BookingIds : b = q.booking
  BY <1>0 DEF MoveReq
<1> DEFINE old == bookings[b]
           row == MovedRow(old, q)
           m == HistoryRow(b, old, q)
           H == HistoryOf(b)
           kept == CancelPendingReminderJobs(jobs, b)
           N == EnqueueRescheduleJobs(kept, b, row)
<1>2. H \in SUBSET Move /\ old \in Row
  BY <1>1, HistoryTyped
<1>3. row \in Row /\ m \in Move
  BY <1>0, <1>2, MovedRowTyped
<1>4. Live(b)
  BY <1>1 DEF RescheduleCommit, SeenInv, LockHoldersSeePresent, Locking
<1>5. Chain(H, old) /\ Ranked(H) /\ Told(Words(jobs, b), H, old)
  BY <1>4 DEF HistoryInv, NoticesInv
<1>6. /\ m.sequence = old.sequence + 1
      /\ <<m.prevStart, m.prevEnd>> = <<old.start, old.end>>
      /\ <<m.newStart, m.newEnd>> = <<q.start, q.end>>
      /\ m.booking = b
  BY DEF HistoryRow
<1>7. /\ row.sequence = old.sequence + 1 /\ row.status = "CONFIRMED"
      /\ <<row.start, row.end>> = <<q.start, q.end>>
  BY <1>2 DEF MovedRow, Row
<1>8. /\ bookings' = [bookings EXCEPT ![b] = row]
      /\ history' = history \cup {m}
      /\ jobs' = EnqueueReminderJobs(N, b, row, q.now)
  BY <1>1 DEF RescheduleCommit
<1>9. jobs \in SUBSET Job /\ kept \in SUBSET Job
  BY WithdrawnReminders DEF TypeOK
<1>10. \A a : Words(kept, a) = Words(jobs, a)
  BY <1>9, WithdrawnWords
<1>11. HistoryOf(b)' = H \cup {m} /\ \A a \in BookingIds \ {b} : HistoryOf(a)' = HistoryOf(a)
  <2> HIDE DEF m
  <2> QED BY <1>6, <1>8 DEF HistoryOf
<1>12. old.sequence \in Nat
  BY <1>2 DEF Row
<1> HIDE DEF H, row, old, m, kept
<1>13. /\ NoneFor(kept, b, row.sequence)
       /\ \A w \in Words(jobs, b) : w.sequence \in Nat
  BY <1>2, <1>5, <1>7, <1>9, <1>10, NextIsNew
<1>14. /\ Words(N, b) = Words(kept, b) \cup NoticeWords(row, "rescheduled", parties)
       /\ \A a : a # b => Words(N, a) = Words(kept, a)
  <2>1. N = UpsertJobs(kept, NoticeRows(b, row, "rescheduled", parties))
    BY NoticesAreRows
  <2> HIDE DEF N
  <2>2. Words(N, b) = Words(kept, b) \cup NoticeWords(row, "rescheduled", parties)
    BY <1>13, <2>1, NoticesWritten
  <2>3. \A a : a # b => Words(N, a) = Words(kept, a)
    BY <2>1, NoticesNotOfOthers
  <2> QED BY <2>2, <2>3
<1>15. "rescheduled" \notin Reminders
  BY DEF Reminders
<1> HIDE DEF N, q
<1>16. /\ \A a : a # b => Words(jobs', a) = Words(kept, a)
       /\ \E V : Notify(V, row, "rescheduled", parties) /\ Words(jobs', b) = Words(kept, b) \cup V
  BY <1>8, <1>14, <1>15, PlacementWords
<1>17. PICK V : /\ Notify(V, row, "rescheduled", parties)
                /\ Words(jobs', b) = Words(jobs, b) \cup V
  BY <1>10, <1>16
<1>18. Earlier(H, m.sequence)
  <2>1. \A h \in H : h.sequence \in Nat
    BY <1>2 DEF Move
  <2> QED BY <1>5, <1>6, <1>12, <2>1 DEF Chain, Earlier
<1>19. Unique(H)
  BY <1>5 DEF Chain
<1>20. /\ Ranked(H \cup {m})
       /\ \A n \in Nat : n < m.sequence => TimesIn(H \cup {m}, row, n) = TimesIn(H, old, n)
       /\ TimesIn(H \cup {m}, row, m.sequence) = <<m.newStart, m.newEnd>>
  <2>1. H \in SUBSET Move /\ m \in Move /\ Ranked(H)
    BY <1>2, <1>3, <1>5
  <2>2. <<m.prevStart, m.prevEnd>> = <<old.start, old.end>>
    BY <1>6
  <2> QED BY <1>18, <1>19, <2>1, <2>2, TimesOfMove
<1>21. \A n \in 0 .. old.sequence : TimesIn(H \cup {m}, row, n) = TimesIn(H, old, n)
  BY <1>6, <1>12, <1>20
<1>22. \A n \in 0 .. old.sequence :
         (\E h \in H \cup {m} : h.sequence = n) <=> (\E h \in H : h.sequence = n)
  BY <1>6, <1>12
<1>23. Due({<<"rescheduled", to>> : to \in parties}, H \cup {m}, row.sequence)
  <2>1. row.sequence # 0 /\ \E h \in H \cup {m} : h.sequence = row.sequence
    BY <1>6, <1>7, <1>12
  <2>2. {<<"rescheduled", to>> : to \in parties} = {"rescheduled"} \X {"attendee", "host"}
    OBVIOUS
  <2> QED BY <2>1, <2>2 DEF Due
<1>24. TimesIn(H \cup {m}, row, row.sequence) = <<row.start, row.end>>
  BY <1>6, <1>7, <1>20
<1>25. Told(Words(jobs, b) \cup V, H \cup {m}, row)
  BY <1>2, <1>3, <1>5, <1>7, <1>13, <1>15, <1>17, <1>21, <1>22, <1>23, <1>24, ToldExtended
<1> QED BY <1>8, <1>10, <1>11, <1>16, <1>17, <1>20, <1>25, NoticesAfterChange

LEMMA NoticesCancelCommit ==
  ASSUME TypeOK, SeenInv, HistoryInv, NoticesInv, NEW r \in Requests, CancelCommit(r)
  PROVE  NoticesInv'
<1>1. PICK b \in BookingIds : b = reqs[r].booking /\ reqs[r].actor \in Actors
  BY CancelCommitTyped DEF CancelCommit
<1> DEFINE old == bookings[b]
           row == CancelledRow(old, reqs[r].actor)
           H == HistoryOf(b)
           kept == CancelPendingReminderJobs(jobs, b)
           told == Notified(row.cancelledBy)
           V == NoticeWords(row, "cancelled", {told})
<1>2. H \in SUBSET Move /\ old \in Row /\ old.sequence \in Nat
  BY <1>1, HistoryTyped DEF Row
<1>3. /\ row.sequence = old.sequence + 1 /\ row.start = old.start /\ row.end = old.end
      /\ row.status = "CANCELLED"
  BY <1>2 DEF Row, CancelledRow
<1>4. row \in Row
  BY <1>1, <1>2, CancelledRowTyped
<1>5. Chain(H, old) /\ Ranked(H) /\ Told(Words(jobs, b), H, old)
  BY <1>1 DEF HistoryInv, NoticesInv, CancelCommit, SeenInv, LockHoldersSeePresent, Locking
<1>6. /\ bookings' = [bookings EXCEPT ![b] = row]
      /\ history' = history
      /\ jobs' = EnqueueCancellationJobs(kept, b, row)
  BY <1>1 DEF CancelCommit
<1>7. jobs \in SUBSET Job /\ kept \in SUBSET Job
  BY WithdrawnReminders DEF TypeOK
<1>8. \A a : Words(kept, a) = Words(jobs, a)
  BY <1>7, WithdrawnWords
<1>9. told \in {"attendee", "host"}
  BY DEF Notified
<1>10. \A a : HistoryOf(a)' = HistoryOf(a)
  BY <1>6 DEF HistoryOf
<1> HIDE DEF row, old, kept, H
<1>11. /\ NoneFor(kept, b, row.sequence)
       /\ \A w \in Words(jobs, b) : w.sequence \in Nat
  BY <1>2, <1>3, <1>5, <1>7, <1>8, NextIsNew
<1>12. /\ Words(jobs', b) = Words(jobs, b) \cup V
       /\ \A a : a # b => Words(jobs', a) = Words(jobs, a)
  <2>1. jobs' = UpsertJobs(kept, NoticeRows(b, row, "cancelled", {told}))
    BY <1>6, NoticesAreRows
  <2> HIDE DEF told
  <2>2. Words(jobs', b) = Words(kept, b) \cup V
    BY <1>11, <2>1, NoticesWritten
  <2>3. \A a : a # b => Words(jobs', a) = Words(kept, a)
    BY <2>1, NoticesNotOfOthers
  <2> QED BY <1>8, <2>2, <2>3
<1>13. "cancelled" \notin Reminders
  BY DEF Reminders
<1>14. Notify(V, row, "cancelled", {told})
  <2> DEFINE none == {}
  <2>1. none \in SUBSET RemindersSay(row) /\ V \cup none = V
    OBVIOUS
  <2> HIDE DEF none, told
  <2>2. Notify(NoticeWords(row, "cancelled", {told}) \cup none, row, "cancelled", {told})
    BY <1>13, <2>1, WordsNotify
  <2> QED BY <2>1, <2>2
<1>15. \A n \in 0 .. old.sequence : TimesIn(H, row, n) = TimesIn(H, old, n)
  BY <1>3 DEF TimesIn
<1>16. TimesIn(H, row, row.sequence) = <<row.start, row.end>>
  <2>1. old.sequence <= row.sequence /\ row.sequence \in Nat
    BY <1>2, <1>3
  <2>2. TimesIn(H, old, row.sequence) = <<old.start, old.end>>
    BY <1>2, <1>5, <2>1, TimesOfRow
  <2> QED BY <1>3, <2>2 DEF TimesIn
<1>17. Due({<<"cancelled", to>> : to \in {told}}, H, row.sequence)
  <2>1. \A h \in H : h.sequence # row.sequence
    <3>1. \A h \in H : h.sequence \in Nat /\ h.sequence <= old.sequence
      BY <1>2, <1>5 DEF Move, Chain
    <3> QED BY <1>2, <1>3, <3>1
  <2>2. row.sequence # 0
    BY <1>2, <1>3
  <2>3. {<<"cancelled", to>> : to \in {told}} = {<<"cancelled", told>>}
    OBVIOUS
  <2> HIDE DEF told
  <2> QED BY <1>9, <2>1, <2>2, <2>3 DEF Due
<1>18. Told(Words(jobs, b) \cup V, H, row)
  <2>1. Notified(row.cancelledBy) \in {told}
    OBVIOUS
  <2> HIDE DEF told, V
  <2> QED BY <1>2, <1>3, <1>4, <1>5, <1>11, <1>13, <1>14, <1>15, <1>16, <1>17, <2>1, ToldExtended
<1>19. HistoryOf(b)' = H
  BY <1>10 DEF H
<1> QED BY <1>5, <1>6, <1>10, <1>12, <1>18, <1>19, NoticesAfterChange

LEMMA NoticesUpdateAttendeeEmail ==
  ASSUME TypeOK, NoticesInv, NEW b \in BookingIds, NEW email \in Emails,
         UpdateAttendeeEmail(b, email)
  PROVE  NoticesInv'
<1> DEFINE old == bookings[b]
           row == [old EXCEPT !.email = email]
<1>1. /\ row.status = old.status /\ row.sequence = old.sequence
      /\ row.start = old.start /\ row.end = old.end /\ row.cancelledBy = old.cancelledBy
  BY DEF TypeOK, Row
<1>2. Ranked(HistoryOf(b)) /\ Told(Words(jobs, b), HistoryOf(b), old)
  BY DEF NoticesInv, UpdateAttendeeEmail
<1>3. bookings' = [bookings EXCEPT ![b] = row] /\ history' = history /\ jobs' = jobs
  BY DEF UpdateAttendeeEmail
<1> HIDE DEF row, old
<1>4. Told(Words(jobs, b), HistoryOf(b), row)
  <2>1. \A n : TimesIn(HistoryOf(b), row, n) = TimesIn(HistoryOf(b), old, n)
    BY <1>1 DEF TimesIn
  <2> QED BY <1>1, <1>2, <2>1 DEF Told
<1>5. \A a : HistoryOf(a)' = HistoryOf(a) /\ Words(jobs', a) = Words(jobs, a)
  BY <1>3 DEF HistoryOf
<1> QED BY <1>2, <1>3, <1>4, <1>5, NoticesAfterChange

LEMMA NoticesDeleteRow ==
  ASSUME TypeOK, NoticesInv, NEW r \in Requests, DeleteRow(r)
  PROVE  NoticesInv'
<1> DEFINE b == reqs[r].booking
           row == [NoBooking EXCEPT !.status = "DELETED"]
<1>1. b \in BookingIds
  BY RequestKinds DEF TypeOK, DeleteRow, DeleteReq
<1>2. row.status = "DELETED"
  BY DEF NoBooking
<1>3. bookings' = [bookings EXCEPT ![b] = row]
  BY DEF DeleteRow
<1>4. \A a \in BookingIds \ {b} : HistoryOf(a)' = HistoryOf(a)
  BY DEF DeleteRow, Emptied, HistoryOf
<1>5. \A a \in BookingIds \ {b} : Words(jobs', a) = Words(jobs, a)
  BY DEF DeleteRow, Emptied, Words
<1> HIDE DEF row
<1> QED BY <1>1, <1>2, <1>3, <1>4, <1>5, NoticesAfterChange

LEMMA NoticesUnchanged ==
  ASSUME NoticesInv, UNCHANGED tables
  PROVE  NoticesInv'
BY DEF NoticesInv, HistoryOf, Live, tables

\* Whatever a worker leaves of a row, it says what it said.
LEMMA NoticesWorker ==
  ASSUME TypeOK, NoticesInv, Worker
  PROVE  NoticesInv'
<1>1. UNCHANGED <<bookings, history>>
  BY WorkerSteps
<1>2. PICK job \in jobs, left \in Job :
        /\ jobs' = (jobs \ {job}) \cup {left}
        /\ left.booking = job.booking /\ left.kind = job.kind /\ left.to = job.to
        /\ left.sequence = job.sequence /\ left.start = job.start /\ left.end = job.end
  BY WorkerSteps
<1>3. Word(left) = Word(job)
  BY <1>2 DEF Word
<1>4. ASSUME NEW b
      PROVE  Words(jobs', b) = Words(jobs, b)
  <2>1. \A x \in jobs' : \E y \in jobs : y.booking = x.booking /\ Word(y) = Word(x)
    BY <1>2, <1>3
  <2>2. \A y \in jobs : \E x \in jobs' : x.booking = y.booking /\ Word(x) = Word(y)
    BY <1>2, <1>3
  <2> QED BY <2>1, <2>2 DEF Words
<1>5. \A b : HistoryOf(b)' = HistoryOf(b) /\ (Live(b)' <=> Live(b))
  BY <1>1 DEF HistoryOf, Live
<1> QED BY <1>1, <1>4, <1>5 DEF NoticesInv

LEMMA NoticesNext ==
  ASSUME TypeOK, SeenInv, ChildrenHaveParent, HistoryInv, NoticesInv, [Next]_vars
  PROVE  NoticesInv'
<1>1. ASSUME NEW r \in Requests, Serve(r)
      PROVE  NoticesInv'
  BY <1>1, NoticesCreateCommit, NoticesRescheduleCommit, NoticesCancelCommit, NoticesDeleteRow,
     NoticesUnchanged
     DEF Serve, CreateOffer, CreateValidate, CreateCollisionCheck, RescheduleLock, DeleteChildren, Fail, DeadlockVictim
<1>2. ASSUME NEW r \in Requests, Client(r)
      PROVE  NoticesInv'
  BY <1>2, NoticesUnchanged
     DEF Client, CreateAsk, LoadPage, RescheduleRead, CancelLock, LeavePage, DeleteRead, Abort
<1>3. CASE Environment
  BY <1>3, NoticesUpdateAttendeeEmail, NoticesUnchanged, NoticesWorker
     DEF Environment, UpdateEventType, ArchiveEventType, ChangeIntegration, Tick
<1>4. CASE UNCHANGED vars
  BY <1>4, NoticesUnchanged DEF vars, tables
<1> QED BY <1>1, <1>2, <1>3, <1>4 DEF Next

\* Every change of a live booking has left its notices in the outbox, of one
\* kind and for the right parties, and whatever the outbox says of the booking
\* gives the times it had after that change.
THEOREM NoticesComplete == Spec => []NoticePerChange
<1>1. Init => NoticesInv
  BY DEF Init, NoticesInv, Live, NoBooking
<1>2. TypeOK /\ SeenInv /\ ChildrenHaveParent /\ HistoryInv /\ NoticesInv /\ [Next]_vars
        => NoticesInv'
  BY NoticesNext
<1>3. NoticesInv => NoticePerChange
  BY ToldIsNotices
<1> QED BY TypeCorrect, SeenAlways, NoOrphans, HistoryAlways, <1>1, <1>2, <1>3, PTL DEF Spec
=============================================================================
