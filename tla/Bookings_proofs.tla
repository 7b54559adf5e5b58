-------------------------- MODULE Bookings_proofs --------------------------
(***************************************************************************)
(* What holds of Bookings for every set of bookings, requests, event types *)
(* and times, proved with TLAPS.                                           *)
(***************************************************************************)
EXTENDS Bookings, TLAPS

\* A new row of the outbox has the type of the outbox.
LEMMA NewJobTyped ==
  ASSUME NEW b \in BookingIds, NEW row \in Row, NEW kind \in Kinds,
         NEW to \in {"attendee", "host"}, NEW runAt \in Int
  PROVE  NewJob(b, row, kind, to, runAt) \in Job
<1>1. row.sequence \in Nat /\ row.start \in Int /\ row.end \in Int /\ row.email \in Emails
  BY DEF Row
<1>2. (IF to = "attendee" THEN row.email ELSE "host") \in Emails \cup {"host"}
  BY <1>1
<1> QED BY <1>1, <1>2 DEF NewJob, Job, JobStatuses

\* An upsert adds nothing but new rows.
LEMMA UpsertedRows ==
  ASSUME NEW J, J \subseteq Job, NEW N, N \subseteq Job
  PROVE  UpsertJobs(J, N) \subseteq Job
BY DEF UpsertJobs

\* The notices of a change are rows of the outbox's type.
LEMMA EnqueuedNotices ==
  ASSUME NEW J, J \subseteq Job, NEW b \in BookingIds, NEW row \in Row
  PROVE  /\ EnqueueConfirmationJobs(J, b, row) \subseteq Job
         /\ EnqueueRescheduleJobs(J, b, row) \subseteq Job
         /\ EnqueueCancellationJobs(J, b, row) \subseteq Job
<1>1. AtOnce \in Int /\ {"confirmed", "rescheduled", "cancelled"} \subseteq Kinds
  BY DEF AtOnce, Kinds
<1>2. EnqueueConfirmationJobs(J, b, row) \subseteq Job
  <2>1. {NewJob(b, row, "confirmed", to, AtOnce) : to \in {"attendee", "host"}} \subseteq Job
    BY <1>1, NewJobTyped
  <2> QED BY <2>1, UpsertedRows DEF EnqueueConfirmationJobs
<1>3. EnqueueRescheduleJobs(J, b, row) \subseteq Job
  <2>1. {NewJob(b, row, "rescheduled", to, AtOnce) : to \in {"attendee", "host"}} \subseteq Job
    BY <1>1, NewJobTyped
  <2> QED BY <2>1, UpsertedRows DEF EnqueueRescheduleJobs
<1>4. EnqueueCancellationJobs(J, b, row) \subseteq Job
  <2>1. {NewJob(b, row, "cancelled", Notified(row.cancelledBy), AtOnce)} \subseteq Job
    BY <1>1, NewJobTyped DEF Notified
  <2> QED BY <2>1, UpsertedRows DEF EnqueueCancellationJobs
<1> QED BY <1>2, <1>3, <1>4

\* So are the reminders, whatever time they are written at.
LEMMA EnqueuedReminders ==
  ASSUME NEW J, J \subseteq Job, NEW b \in BookingIds, NEW row \in Row, NEW n
  PROVE  EnqueueReminderJobs(J, b, row, n) \subseteq Job
<1> DEFINE due == {k \in Reminders : row.start - Lead(k) > n}
<1>1. ASSUME NEW kind \in due
      PROVE  NewJob(b, row, kind, "attendee", row.start - Lead(kind)) \in Job
  <2>1. kind \in Kinds
    BY DEF Kinds
  <2>2. row.start - Lead(kind) \in Int
    BY LeadAssumption DEF Row, Lead
  <2> QED BY <2>1, <2>2, NewJobTyped
<1>2. {NewJob(b, row, kind, "attendee", row.start - Lead(kind)) : kind \in due} \subseteq Job
  BY <1>1
<1> QED BY <1>2, UpsertedRows DEF EnqueueReminderJobs

\* A withdrawn reminder stays a row of the outbox.
LEMMA WithdrawnReminders ==
  ASSUME NEW J, J \subseteq Job, NEW b
  PROVE  CancelPendingReminderJobs(J, b) \subseteq Job
<1>1. ASSUME NEW job \in Job
      PROVE  [job EXCEPT !.status = "CANCELLED", !.failed = TRUE] \in Job
  BY DEF Job, JobStatuses
<1> QED BY <1>1 DEF CancelPendingReminderJobs

\* A request slot in a given stage holds a request of the kind of that stage.
LEMMA RequestKinds ==
  ASSUME NEW q \in Request
  PROVE  /\ q.pc \in {"asked", "offered"} => q \in AskReq
         /\ q.pc \in {"validated", "checked"} => q \in CreateReq
         /\ q.pc = "page" => q \in PageReq
         /\ q.pc \in {"reading", "locked"} => q \in MoveReq
         /\ q.pc = "cancelling" => q \in CancelReq
         /\ q.pc \in {"deletable", "emptied"} => q \in DeleteReq
BY DEF Request, Idle, AskReq, CreateReq, PageReq, MoveReq, CancelReq, DeleteReq

\* Replacing one request leaves all the others requests.
LEMMA BecomeTyped ==
  ASSUME reqs \in [Requests -> Request], NEW r \in Requests, NEW q \in Request, Become(r, q)
  PROVE  reqs' \in [Requests -> Request]
BY DEF Become

LEMMA IdleTyped == Idle \in Request
BY DEF Request

LEMMA NoBookingTyped == NoBooking \in Row
BY NonEmptyAssumption DEF NoBooking, Row, Statuses, NoTime

\* A new sync job has the fields the type of the table asks for.
LEMMA NewSyncJobsTyped ==
  ASSUME NEW b \in BookingIds, NEW n \in Nat, NEW i, NEW job \in NewSyncJobs(b, n, i)
  PROVE  job.booking \in BookingIds /\ job.sequence \in Nat /\ job.status = "PENDING"
BY DEF NewSyncJobs

LEMMA TypeInit == Init => TypeOK
<1> SUFFICES ASSUME Init PROVE TypeOK
  OBVIOUS
<1>1. bookings \in [BookingIds -> Row] /\ reqs \in [Requests -> Request]
  BY NoBookingTyped, IdleTyped DEF Init
<1>2. eventTypes \in [EventTypes -> [config : Configs, archived : BOOLEAN]]
  BY DEF Init
<1> QED BY <1>1, <1>2 DEF Init, TypeOK

LEMMA TypeCreateAsk ==
  ASSUME TypeOK, NEW r \in Requests, NEW et \in EventTypes, NEW start \in Starts,
         NEW email \in Emails, CreateAsk(r, et, start, email)
  PROVE  TypeOK'
<1> DEFINE q == [pc |-> "asked", eventType |-> et, config |-> eventTypes[et].config,
                 start |-> start, email |-> email, now |-> now]
<1>1. q \in AskReq
  BY StartsAssumption DEF TypeOK, AskReq
<1>2. reqs' \in [Requests -> Request]
  BY <1>1, BecomeTyped DEF CreateAsk, TypeOK, Request
<1> QED BY <1>2 DEF CreateAsk, TypeOK, tables

LEMMA TypeCreateOffer ==
  ASSUME TypeOK, NEW r \in Requests, CreateOffer(r)
  PROVE  TypeOK'
<1>1. reqs[r] \in AskReq
  BY RequestKinds DEF TypeOK, CreateOffer
<1>2. [reqs[r] EXCEPT !.pc = "offered"] \in Request
  BY <1>1 DEF AskReq, Request
<1>3. reqs' \in [Requests -> Request]
  BY <1>2, BecomeTyped DEF CreateOffer, TypeOK
<1> QED BY <1>3 DEF CreateOffer, TypeOK, tables

LEMMA TypeCreateValidate ==
  ASSUME TypeOK, NEW r \in Requests, CreateValidate(r)
  PROVE  TypeOK'
<1> DEFINE a == reqs[r]
           q == [pc |-> "validated", eventType |-> a.eventType, config |-> a.config,
                 start |-> a.start, email |-> a.email, now |-> a.now,
                 integration |-> integration[HostOf[a.eventType]]]
<1>1. a \in AskReq
  BY RequestKinds DEF TypeOK, CreateValidate
<1>2. q \in CreateReq
  BY <1>1, HostOfAssumption DEF TypeOK, AskReq, CreateReq
<1>3. reqs' \in [Requests -> Request]
  BY <1>2, BecomeTyped DEF CreateValidate, TypeOK, Request
<1> QED BY <1>3 DEF CreateValidate, TypeOK, tables

LEMMA TypeCreateCollisionCheck ==
  ASSUME TypeOK, NEW r \in Requests, CreateCollisionCheck(r)
  PROVE  TypeOK'
<1>1. reqs[r] \in CreateReq
  BY RequestKinds DEF TypeOK, CreateCollisionCheck
<1>2. [reqs[r] EXCEPT !.pc = "checked"] \in Request
  BY <1>1 DEF CreateReq, Request
<1>3. reqs' \in [Requests -> Request]
  BY <1>2, BecomeTyped DEF CreateCollisionCheck, TypeOK
<1> QED BY <1>3 DEF CreateCollisionCheck, TypeOK, tables

\* The row a create inserts.
LEMMA NewRowTyped ==
  ASSUME NEW q \in CreateReq
  PROVE  /\ NewRow(q) \in Row
         /\ q.config \in Config
         /\ NewRow(q).start < NewRow(q).end
<1>1. q.config \in Config
  BY ConfigsAssumption DEF CreateReq
<1> QED BY <1>1 DEF NewRow, CreateReq, Row, Statuses, Config, NoTime

LEMMA TypeCreateCommit ==
  ASSUME TypeOK, NEW r \in Requests, NEW b \in BookingIds, CreateCommit(r, b)
  PROVE  TypeOK'
<1> DEFINE q == reqs[r]
           row == NewRow(q)
<1>1. q \in CreateReq
  BY RequestKinds DEF TypeOK, CreateCommit
<1>2. row \in Row
  BY <1>1, NewRowTyped
<1>3. bookings' \in [BookingIds -> Row]
  BY <1>2 DEF TypeOK, CreateCommit
<1>4. EnqueueConfirmationJobs(jobs, b, row) \subseteq Job
  BY <1>2, EnqueuedNotices DEF TypeOK
<1>5. jobs' \subseteq Job
  BY <1>2, <1>4, EnqueuedReminders DEF CreateCommit
<1>6. \A job \in syncJobs' :
        job.booking \in BookingIds /\ job.sequence \in Nat /\ job.status = "PENDING"
  BY NewSyncJobsTyped DEF TypeOK, CreateCommit
<1>7. reqs' \in [Requests -> Request]
  BY IdleTyped, BecomeTyped DEF TypeOK, CreateCommit
<1> QED BY <1>3, <1>5, <1>6, <1>7 DEF CreateCommit, TypeOK

\* A page shows the booking as it is, in the type of a page.
LEMMA ViewTyped ==
  ASSUME TypeOK, NEW b \in BookingIds, Live(b)
  PROVE  ViewOf(b) \in View
BY DEF TypeOK, Live, ViewOf, View, Row

LEMMA TypeLoadPage ==
  ASSUME TypeOK, NEW r \in Requests, NEW b \in BookingIds, LoadPage(r, b)
  PROVE  TypeOK'
<1>1. [pc |-> "page", booking |-> b, view |-> ViewOf(b)] \in Request
  BY ViewTyped DEF LoadPage, Request, PageReq
<1>2. reqs' \in [Requests -> Request]
  BY <1>1, BecomeTyped DEF LoadPage, TypeOK
<1> QED BY <1>2 DEF LoadPage, TypeOK, tables

LEMMA TypeRescheduleRead ==
  ASSUME TypeOK, NEW r \in Requests, NEW start \in Starts, RescheduleRead(r, start)
  PROVE  TypeOK'
<1> DEFINE b == reqs[r].booking
           q == [pc |-> "reading", booking |-> b, view |-> reqs[r].view, start |-> start,
                 end |-> start + Duration(b),
                 config |-> eventTypes[bookings[b].eventType].config, now |-> now,
                 integration |-> integration[Host(b)]]
<1>1. reqs[r] \in PageReq
  BY RequestKinds DEF TypeOK, RescheduleRead
<1>2. b \in BookingIds /\ bookings[b] \in Row /\ reqs[r].view \in View
  BY <1>1 DEF TypeOK, PageReq
<1>3. start \in Int /\ start + Duration(b) \in Int
  BY <1>2, StartsAssumption DEF Row, Duration
<1>4. /\ eventTypes[bookings[b].eventType].config \in Configs
      /\ integration[Host(b)] \in Integrations
      /\ now \in Nat
  BY <1>2, HostOfAssumption DEF TypeOK, Row, Host
<1>5. q \in Request
  BY <1>2, <1>3, <1>4 DEF Request, MoveReq
<1>6. reqs' \in [Requests -> Request]
  BY <1>5, BecomeTyped DEF RescheduleRead, TypeOK
<1> QED BY <1>6 DEF RescheduleRead, TypeOK, tables

LEMMA TypeRescheduleLock ==
  ASSUME TypeOK, NEW r \in Requests, RescheduleLock(r)
  PROVE  TypeOK'
<1> DEFINE q == reqs[r]
           c == eventTypes[bookings[q.booking].eventType].config
<1>1. q \in MoveReq
  BY RequestKinds DEF TypeOK, RescheduleLock
<1>2. c \in Configs /\ now \in Nat
  BY <1>1 DEF TypeOK, MoveReq, Row
<1>3. [q EXCEPT !.pc = "locked", !.now = now, !.config = c] \in Request
  BY <1>1, <1>2 DEF MoveReq, Request
<1>4. reqs' \in [Requests -> Request]
  BY <1>3, BecomeTyped DEF RescheduleLock, TypeOK
<1> QED BY <1>4 DEF RescheduleLock, TypeOK, tables

\* The row a reschedule writes, and its entry in the history.
LEMMA MovedRowTyped ==
  ASSUME NEW row \in Row, NEW q \in MoveReq, NEW b \in BookingIds
  PROVE  MovedRow(row, q) \in Row /\ HistoryRow(b, row, q) \in Move
<1>1. MovedRow(row, q) \in Row
  <2>1. /\ q.start \in Int /\ q.end \in Int
        /\ row.sequence + 1 \in Nat /\ row.rescheduleCount + 1 \in Nat
        /\ row.start \in Int /\ row.end \in Int
    BY DEF Row, MoveReq
  <2> QED BY <2>1, Zenon DEF MovedRow, Row, Statuses
<1>2. HistoryRow(b, row, q) \in Move
  BY DEF HistoryRow, Row, MoveReq, Move
<1> QED BY <1>1, <1>2

LEMMA TypeRescheduleCommit ==
  ASSUME TypeOK, NEW r \in Requests, RescheduleCommit(r)
  PROVE  TypeOK'
<1> DEFINE q == reqs[r]
           b == q.booking
           row == MovedRow(bookings[b], q)
           kept == CancelPendingReminderJobs(jobs, b)
<1>1. q \in MoveReq
  BY RequestKinds DEF TypeOK, RescheduleCommit
<1>2. b \in BookingIds /\ bookings[b] \in Row
  BY <1>1 DEF TypeOK, MoveReq
<1>3. row \in Row /\ HistoryRow(b, bookings[b], q) \in Move
  BY <1>1, <1>2, MovedRowTyped
<1>4. bookings' \in [BookingIds -> Row] /\ history' \subseteq Move
  BY <1>3 DEF TypeOK, RescheduleCommit
<1>5. kept \subseteq Job
  BY WithdrawnReminders DEF TypeOK
<1>6. EnqueueRescheduleJobs(kept, b, row) \subseteq Job
  BY <1>2, <1>3, <1>5, EnqueuedNotices
<1>7. jobs' \subseteq Job
  BY <1>2, <1>3, <1>6, EnqueuedReminders DEF RescheduleCommit
<1>8. row.sequence \in Nat
  BY <1>3 DEF Row
<1>9. \A job \in syncJobs' :
        job.booking \in BookingIds /\ job.sequence \in Nat /\ job.status = "PENDING"
  BY <1>2, <1>8, NewSyncJobsTyped DEF TypeOK, RescheduleCommit
<1>10. reqs' \in [Requests -> Request]
  BY IdleTyped, BecomeTyped DEF TypeOK, RescheduleCommit
<1> QED BY <1>4, <1>7, <1>9, <1>10 DEF RescheduleCommit, TypeOK

LEMMA TypeCancelLock ==
  ASSUME TypeOK, NEW r \in Requests, NEW actor \in Actors, CancelLock(r, actor)
  PROVE  TypeOK'
<1> DEFINE q == [pc |-> "cancelling", booking |-> reqs[r].booking, view |-> reqs[r].view,
                 actor |-> actor]
<1>1. reqs[r] \in PageReq
  BY RequestKinds DEF TypeOK, CancelLock
<1>2. q \in CancelReq
  BY <1>1 DEF PageReq, CancelReq
<1>3. reqs' \in [Requests -> Request]
  BY <1>2, BecomeTyped DEF CancelLock, TypeOK, Request
<1> QED BY <1>3 DEF CancelLock, TypeOK, tables

\* The row a cancellation writes.
LEMMA CancelledRowTyped ==
  ASSUME NEW row \in Row, NEW actor \in Actors
  PROVE  /\ CancelledRow(row, actor) \in Row
         /\ CancelledRow(row, actor).status = "CANCELLED"
         /\ CancelledRow(row, actor).sequence = row.sequence + 1
<1>1. row.sequence + 1 \in Nat
  BY DEF Row
<1>2. CancelledRow(row, actor) \in Row
  BY <1>1, Zenon DEF CancelledRow, Row, Statuses
<1>3. /\ CancelledRow(row, actor).status = "CANCELLED"
      /\ CancelledRow(row, actor).sequence = row.sequence + 1
  BY DEF CancelledRow, Row
<1> QED BY <1>2, <1>3

\* What the end of a cancellation finds in its request.
LEMMA CancelCommitTyped ==
  ASSUME TypeOK, NEW r \in Requests, reqs[r].pc = "cancelling"
  PROVE  /\ reqs[r].booking \in BookingIds
         /\ bookings[reqs[r].booking] \in Row
         /\ reqs[r].actor \in Actors
<1>1. reqs[r] \in CancelReq
  BY RequestKinds DEF TypeOK
<1> QED BY <1>1 DEF TypeOK, CancelReq

LEMMA TypeCancelCommit ==
  ASSUME TypeOK, NEW r \in Requests, CancelCommit(r)
  PROVE  TypeOK'
<1> DEFINE b == reqs[r].booking
           row == CancelledRow(bookings[b], reqs[r].actor)
<1>1. b \in BookingIds /\ bookings[b] \in Row /\ reqs[r].actor \in Actors
  BY CancelCommitTyped DEF CancelCommit
<1>2. row \in Row
  BY <1>1, CancelledRowTyped
<1>3. bookings' \in [BookingIds -> Row]
  BY <1>2 DEF TypeOK, CancelCommit
<1>4. CancelPendingReminderJobs(jobs, b) \subseteq Job
  BY WithdrawnReminders DEF TypeOK
<1>5. jobs' \subseteq Job
  BY <1>1, <1>2, <1>4, EnqueuedNotices DEF CancelCommit
<1>6. row.sequence \in Nat
  BY <1>2 DEF Row
<1>7. \A job \in syncJobs' :
        job.booking \in BookingIds /\ job.sequence \in Nat /\ job.status = "PENDING"
  BY <1>1, <1>6, NewSyncJobsTyped DEF TypeOK, CancelCommit
<1>8. reqs' \in [Requests -> Request]
  BY IdleTyped, BecomeTyped DEF TypeOK, CancelCommit
<1> QED BY <1>3, <1>5, <1>7, <1>8 DEF CancelCommit, TypeOK

LEMMA TypeDeleteRead ==
  ASSUME TypeOK, NEW r \in Requests, NEW b \in BookingIds, DeleteRead(r, b)
  PROVE  TypeOK'
<1>1. [pc |-> "deletable", booking |-> b, upTo |-> 0] \in Request
  BY DEF Request, DeleteReq
<1>2. reqs' \in [Requests -> Request]
  BY <1>1, BecomeTyped DEF DeleteRead, TypeOK
<1> QED BY <1>2 DEF DeleteRead, TypeOK, tables

LEMMA TypeDeleteChildren ==
  ASSUME TypeOK, NEW r \in Requests, DeleteChildren(r)
  PROVE  TypeOK'
<1> DEFINE q == reqs[r]
<1>1. q \in DeleteReq
  BY RequestKinds DEF TypeOK, DeleteChildren
<1>2. bookings[q.booking].sequence \in Nat
  BY <1>1 DEF TypeOK, DeleteReq, Row
<1>3. [q EXCEPT !.pc = "emptied", !.upTo = bookings[q.booking].sequence] \in Request
  BY <1>1, <1>2 DEF DeleteReq, Request
<1>4. reqs' \in [Requests -> Request]
  BY <1>3, BecomeTyped DEF DeleteChildren, TypeOK
<1> QED BY <1>4 DEF DeleteChildren, TypeOK, tables

LEMMA TypeDeleteRow ==
  ASSUME TypeOK, NEW r \in Requests, DeleteRow(r)
  PROVE  TypeOK'
<1>1. [NoBooking EXCEPT !.status = "DELETED"] \in Row
  BY NoBookingTyped DEF Row, Statuses
<1>2. bookings' \in [BookingIds -> Row]
  BY <1>1 DEF TypeOK, DeleteRow
<1>3. history' \subseteq Move /\ jobs' \subseteq Job
  BY DEF TypeOK, DeleteRow, Emptied
<1>4. reqs' \in [Requests -> Request]
  BY IdleTyped, BecomeTyped DEF TypeOK, DeleteRow
<1> QED BY <1>2, <1>3, <1>4 DEF DeleteRow, TypeOK

\* A request that ends without a change.
LEMMA TypeEnd ==
  ASSUME TypeOK, NEW r \in Requests, Become(r, Idle),
         UNCHANGED <<tables, eventTypes, integration, now>>
  PROVE  TypeOK'
<1>1. reqs' \in [Requests -> Request]
  BY IdleTyped, BecomeTyped DEF TypeOK
<1> QED BY <1>1 DEF TypeOK, tables

\* What a step of the worker does to the outbox: a reminder, of the same
\* booking, is replaced by what the worker makes of it.
LEMMA WorkerSteps ==
  ASSUME TypeOK, Worker
  PROVE  /\ UNCHANGED <<bookings, history, syncJobs, eventTypes, integration, reqs, now>>
         /\ \E job \in jobs, left \in Job :
              /\ jobs' = (jobs \ {job}) \cup {left}
              /\ job.kind \in Reminders
              /\ left.booking = job.booking /\ left.kind = job.kind /\ left.to = job.to
              /\ left.sequence = job.sequence /\ left.recipient = job.recipient
              /\ left.start = job.start /\ left.end = job.end /\ left.runAt = job.runAt
              /\ \/ job.status = "PENDING" /\ job.runAt <= now
                 \/ job.status = "PROCESSING"
                 \/ job.workers > 0
              /\ left.status = "PENDING" /\ ~left.failed =>
                   job.status = "PENDING" /\ ~job.failed /\ job.workers > 0
<1> DEFINE Same(job, left) ==
      /\ left \in Job
      /\ left.booking = job.booking /\ left.kind = job.kind /\ left.to = job.to
      /\ left.sequence = job.sequence /\ left.recipient = job.recipient
      /\ left.start = job.start /\ left.end = job.end /\ left.runAt = job.runAt
<1> PICK job \in jobs : ClaimReminder(job) \/ RecoverReminder(job) \/ FinishReminder(job)
  BY DEF Worker
<1>1. job \in Job
  BY DEF TypeOK
<1>2. CASE ClaimReminder(job)
  <2>1. Same(job, ClaimedJob(job)) /\ ClaimedJob(job).status = "PROCESSING"
    <3>1. job.workers + 1 \in Nat
      BY <1>1 DEF Job
    <3>2. ClaimedJob(job) \in Job
      BY <1>1, <3>1, Zenon DEF Job, JobStatuses, ClaimedJob
    <3>3. ClaimedJob(job).status = "PROCESSING"
      BY <1>1 DEF Job, ClaimedJob
    <3> QED BY <1>1, <3>2, <3>3 DEF Job, ClaimedJob
  <2>2. job.status = "PENDING" /\ job.runAt <= now /\ WorkerStep(job, ClaimedJob(job))
    BY <1>2 DEF ClaimReminder
  <2> QED BY <2>1, <2>2 DEF WorkerStep
<1>3. CASE RecoverReminder(job)
  <2>1. Same(job, RecoveredJob(job)) /\ RecoveredJob(job).failed
    BY <1>1 DEF Job, JobStatuses, RecoveredJob
  <2> QED BY <1>3, <2>1 DEF RecoverReminder, WorkerStep
<1>4. CASE FinishReminder(job)
  <2> PICK left \in WorkerResults(job) : WorkerStep(job, left)
    BY <1>4 DEF FinishReminder
  <2>1. job.workers > 0 /\ job.workers - 1 \in Nat
    BY <1>1, <1>4 DEF FinishReminder, Job
  <2> DEFINE rest == [job EXCEPT !.workers = job.workers - 1]
  <2>2. /\ Same(job, rest)
        /\ rest.status = job.status /\ rest.failed = job.failed
    BY <1>1, <2>1 DEF Job
  <2>3. /\ Same(rest, [rest EXCEPT !.status = "SENT", !.failed = FALSE])
        /\ [rest EXCEPT !.status = "SENT", !.failed = FALSE].status = "SENT"
    BY <2>2 DEF Job, JobStatuses
  <2>4. ASSUME NEW status \in {"PENDING", "CANCELLED", "DEAD_LETTER"}
        PROVE  /\ Same(rest, [rest EXCEPT !.status = status, !.failed = TRUE])
               /\ [rest EXCEPT !.status = status, !.failed = TRUE].failed
    BY <2>2 DEF Job, JobStatuses
  <2> HIDE DEF rest
  <2>5. /\ Same(job, left)
        /\ left.status = "PENDING" /\ ~left.failed => job.status = "PENDING" /\ ~job.failed
    <3>1. CASE left = rest
      BY <2>2, <3>1
    <3>2. CASE left = [rest EXCEPT !.status = "SENT", !.failed = FALSE]
      BY <2>2, <2>3, <3>2
    <3>3. CASE \E status \in {"PENDING", "CANCELLED", "DEAD_LETTER"} :
                 left = [rest EXCEPT !.status = status, !.failed = TRUE]
      BY <2>2, <2>4, <3>3
    <3> QED BY <3>1, <3>2, <3>3 DEF WorkerResults, rest
  <2> QED BY <2>1, <2>5 DEF WorkerStep
<1> QED BY <1>2, <1>3, <1>4

LEMMA TypeEnvironment ==
  ASSUME TypeOK, Environment
  PROVE  TypeOK'
<1>1. ASSUME NEW b \in BookingIds, NEW email \in Emails, UpdateAttendeeEmail(b, email)
      PROVE  TypeOK'
  <2>1. [bookings[b] EXCEPT !.email = email] \in Row
    BY DEF TypeOK, Row
  <2>2. bookings' \in [BookingIds -> Row]
    BY <1>1, <2>1 DEF TypeOK, UpdateAttendeeEmail
  <2> QED BY <1>1, <2>2 DEF UpdateAttendeeEmail, TypeOK
<1>2. ASSUME NEW et \in EventTypes, NEW config \in Configs, UpdateEventType(et, config)
      PROVE  TypeOK'
  BY <1>2 DEF UpdateEventType, TypeOK, tables
<1>3. ASSUME NEW et \in EventTypes, ArchiveEventType(et)
      PROVE  TypeOK'
  BY <1>3 DEF ArchiveEventType, TypeOK, tables
<1>4. ASSUME NEW h \in Hosts, NEW i \in Integrations, ChangeIntegration(h, i)
      PROVE  TypeOK'
  BY <1>4 DEF ChangeIntegration, TypeOK, tables
<1>5. CASE Tick
  BY <1>5 DEF Tick, TypeOK, tables
<1>6. CASE Worker
  <2>1. jobs' \subseteq Job
    BY <1>6, WorkerSteps DEF TypeOK
  <2> QED BY <1>6, <2>1, WorkerSteps DEF TypeOK
<1> QED BY <1>1, <1>2, <1>3, <1>4, <1>5, <1>6 DEF Environment

LEMMA TypeNext ==
  ASSUME TypeOK, [Next]_vars
  PROVE  TypeOK'
<1>1. ASSUME NEW r \in Requests, Serve(r)
      PROVE  TypeOK'
  BY <1>1, TypeCreateOffer, TypeCreateValidate, TypeCreateCollisionCheck, TypeCreateCommit,
     TypeRescheduleLock, TypeRescheduleCommit, TypeCancelCommit, TypeDeleteChildren,
     TypeDeleteRow, TypeEnd
     DEF Serve, Fail, DeadlockVictim
<1>2. ASSUME NEW r \in Requests, Client(r)
      PROVE  TypeOK'
  BY <1>2, TypeCreateAsk, TypeLoadPage, TypeRescheduleRead, TypeCancelLock,
     TypeDeleteRead, TypeEnd
     DEF Client, LeavePage, Abort
<1>3. CASE Environment
  BY <1>3, TypeEnvironment
<1>4. CASE UNCHANGED vars
  BY <1>4 DEF vars, TypeOK
<1> QED BY <1>1, <1>2, <1>3, <1>4 DEF Next

\* Every variable keeps its type.
THEOREM TypeCorrect == Spec => []TypeOK
<1>1. TypeOK /\ [Next]_vars => TypeOK'
  BY TypeNext
<1> QED BY TypeInit, <1>1, PTL DEF Spec

-----------------------------------------------------------------------------
(* No double booking *)

\* Writing one row keeps the confirmed bookings apart if the row satisfies the
\* exclusion constraint whenever it is confirmed.
LEMMA PlacementKeepsApart ==
  ASSUME TypeOK, NoDoubleBooking, NEW b \in BookingIds, NEW row \in Row,
         row.status = "CONFIRMED" => ExclusionHolds(b, HostOf[row.eventType], row.start, row.end),
         bookings' = [bookings EXCEPT ![b] = row]
  PROVE  NoDoubleBooking'
<1>1. bookings'[b] = row
  BY DEF TypeOK
<1>2. \A a \in BookingIds \ {b} : bookings'[a] = bookings[a]
  BY DEF TypeOK
<1>3. ASSUME NEW a \in BookingIds \ {b}, Confirmed(a), row.status = "CONFIRMED",
             Host(a) = HostOf[row.eventType]
      PROVE  ~Overlap(bookings[a].start, bookings[a].end, row.start, row.end)
  BY <1>3 DEF ExclusionHolds, Collision
<1>4. ASSUME NEW a \in BookingIds \ {b}, Confirmed(a), row.status = "CONFIRMED",
             Host(a) = HostOf[row.eventType]
      PROVE  ~Overlap(row.start, row.end, bookings[a].start, bookings[a].end)
  BY <1>3, <1>4 DEF Overlap
<1> SUFFICES ASSUME NEW x \in BookingIds, NEW y \in BookingIds, x # y,
                    Confirmed(x)', Confirmed(y)', Host(x)' = Host(y)'
             PROVE  ~Overlap(bookings'[x].start, bookings'[x].end,
                             bookings'[y].start, bookings'[y].end)
  BY DEF NoDoubleBooking
<1>5. CASE x = b
  BY <1>1, <1>2, <1>4, <1>5 DEF Confirmed, Host
<1>6. CASE y = b
  BY <1>1, <1>2, <1>3, <1>6 DEF Confirmed, Host
<1>7. CASE x # b /\ y # b
  BY <1>2, <1>7 DEF NoDoubleBooking, Confirmed, Host
<1> QED BY <1>5, <1>6, <1>7

LEMMA ApartCreateCommit ==
  ASSUME TypeOK, NoDoubleBooking, NEW r \in Requests, NEW b \in BookingIds, CreateCommit(r, b)
  PROVE  NoDoubleBooking'
<1>1. reqs[r] \in CreateReq
  BY RequestKinds DEF TypeOK, CreateCommit
<1>2. NewRow(reqs[r]) \in Row
  BY <1>1, NewRowTyped
<1> QED BY <1>2, PlacementKeepsApart DEF CreateCommit

LEMMA ApartRescheduleCommit ==
  ASSUME TypeOK, NoDoubleBooking, NEW r \in Requests, RescheduleCommit(r)
  PROVE  NoDoubleBooking'
<1> DEFINE q == reqs[r]
           b == q.booking
           row == MovedRow(bookings[b], q)
<1>1. q \in MoveReq
  BY RequestKinds DEF TypeOK, RescheduleCommit
<1>2. b \in BookingIds /\ bookings[b] \in Row
  BY <1>1 DEF TypeOK, MoveReq
<1>3. row \in Row
  BY <1>1, <1>2, MovedRowTyped
<1>4. row.start = q.start /\ row.end = q.end /\ row.eventType = bookings[b].eventType
  BY <1>2 DEF MovedRow, Row
<1>5. ExclusionHolds(b, HostOf[row.eventType], row.start, row.end)
  BY <1>4 DEF RescheduleCommit, Host
<1> QED BY <1>2, <1>3, <1>5, PlacementKeepsApart DEF RescheduleCommit

LEMMA ApartCancelCommit ==
  ASSUME TypeOK, NoDoubleBooking, NEW r \in Requests, CancelCommit(r)
  PROVE  NoDoubleBooking'
<1> DEFINE b == reqs[r].booking
           row == CancelledRow(bookings[b], reqs[r].actor)
<1>1. b \in BookingIds /\ bookings[b] \in Row /\ reqs[r].actor \in Actors
  BY CancelCommitTyped DEF CancelCommit
<1>2. row \in Row /\ row.status # "CONFIRMED"
  BY <1>1, CancelledRowTyped
<1> QED BY <1>1, <1>2, PlacementKeepsApart DEF CancelCommit

LEMMA ApartDeleteRow ==
  ASSUME TypeOK, NoDoubleBooking, NEW r \in Requests, DeleteRow(r)
  PROVE  NoDoubleBooking'
<1> DEFINE row == [NoBooking EXCEPT !.status = "DELETED"]
<1>1. reqs[r].booking \in BookingIds
  BY RequestKinds DEF TypeOK, DeleteRow, DeleteReq
<1>2. row \in Row /\ row.status # "CONFIRMED"
  BY NoBookingTyped DEF Row, Statuses
<1> QED BY <1>1, <1>2, PlacementKeepsApart DEF DeleteRow

LEMMA ApartUpdateAttendeeEmail ==
  ASSUME TypeOK, NoDoubleBooking, NEW b \in BookingIds, NEW email \in Emails,
         UpdateAttendeeEmail(b, email)
  PROVE  NoDoubleBooking'
<1>1. \A a \in BookingIds : /\ bookings'[a].status = bookings[a].status
                            /\ bookings'[a].eventType = bookings[a].eventType
                            /\ bookings'[a].start = bookings[a].start
                            /\ bookings'[a].end = bookings[a].end
  BY DEF TypeOK, Row, UpdateAttendeeEmail
<1> QED BY <1>1 DEF NoDoubleBooking, Confirmed, Host

LEMMA ApartUnchanged ==
  ASSUME NoDoubleBooking, UNCHANGED bookings
  PROVE  NoDoubleBooking'
BY DEF NoDoubleBooking, Confirmed, Host

LEMMA ApartNext ==
  ASSUME TypeOK, NoDoubleBooking, [Next]_vars
  PROVE  NoDoubleBooking'
<1>1. ASSUME NEW r \in Requests, Serve(r)
      PROVE  NoDoubleBooking'
  BY <1>1, ApartCreateCommit, ApartRescheduleCommit, ApartCancelCommit, ApartDeleteRow,
     ApartUnchanged
     DEF Serve, CreateOffer, CreateValidate, CreateCollisionCheck, RescheduleLock, DeleteChildren, Fail, DeadlockVictim, tables
<1>2. ASSUME NEW r \in Requests, Client(r)
      PROVE  NoDoubleBooking'
  BY <1>2, ApartUnchanged
     DEF Client, CreateAsk, LoadPage, RescheduleRead, CancelLock, LeavePage, DeleteRead, Abort,
         tables
<1>3. CASE Environment
  BY <1>3, ApartUpdateAttendeeEmail, ApartUnchanged, WorkerSteps
     DEF Environment, UpdateEventType, ArchiveEventType, ChangeIntegration, Tick, tables
<1>4. CASE UNCHANGED vars
  BY <1>4, ApartUnchanged DEF vars
<1> QED BY <1>1, <1>2, <1>3, <1>4 DEF Next

\* No host has two confirmed bookings at the same time, however many requests
\* race for it and whatever their event types and buffers are.
THEOREM NeverDoubleBooked == Spec => []NoDoubleBooking
<1>1. Init => NoDoubleBooking
  BY DEF Init, NoDoubleBooking, NoBooking, Confirmed
<1>2. TypeOK /\ NoDoubleBooking /\ [Next]_vars => NoDoubleBooking'
  BY ApartNext
<1> QED BY TypeCorrect, <1>1, <1>2, PTL DEF Spec

-----------------------------------------------------------------------------
(* No lost update *)

\* The stages of a request that carry what its client saw.
Seeing == {"page", "reading", "locked", "cancelling"}

\* Those in which it holds the row lock.
Locking == {"cancelling", "locked"}

\* What a client saw is a version of the booking that exists or existed: if the
\* sequence is still that of the booking, so is everything else it saw.
ViewsArePast ==
  \A r \in Requests : reqs[r].pc \in Seeing =>
    LET b == reqs[r].booking
        view == reqs[r].view
    IN /\ bookings[b].status # "NONE"
       /\ Live(b) => view.sequence <= bookings[b].sequence
       /\ Live(b) /\ view.sequence = bookings[b].sequence => view = ViewOf(b)

\* Under the row lock it is the present version, and the lock has one holder.
LockHoldersSeePresent ==
  \A r \in Requests : reqs[r].pc \in Locking =>
    /\ Live(reqs[r].booking)
    /\ reqs[r].view.sequence = bookings[reqs[r].booking].sequence
    /\ reqs[r].pc = "cancelling" => Confirmed(reqs[r].booking)

OneLockHolder ==
  \A r, s \in Requests :
    reqs[r].pc \in Locking /\ reqs[s].pc \in Locking /\ reqs[r].booking = reqs[s].booking
      => r = s

SeenInv == ViewsArePast /\ LockHoldersSeePresent /\ OneLockHolder

\* A booking gets a new row: it is created, changed under a new sequence, or
\* deleted, while nobody holds its lock afterwards.
LEMMA SeenAfterChange ==
  ASSUME TypeOK, SeenInv, NEW b \in BookingIds, NEW row \in Row,
         bookings' = [bookings EXCEPT ![b] = row],
         row.status # "NONE",
         \/ bookings[b].status = "NONE"
         \/ row.status = "DELETED"
         \/ Live(b) /\ row.sequence > bookings[b].sequence,
         \A s \in Requests : reqs'[s].pc \in Seeing => reqs'[s] = reqs[s],
         \A s \in Requests : reqs'[s].pc \in Locking => reqs'[s].booking # b
  PROVE  SeenInv'
<1>1. bookings'[b] = row /\ \A a \in BookingIds \ {b} : bookings'[a] = bookings[a]
  BY DEF TypeOK
<1>2. ASSUME NEW s \in Requests, reqs'[s].pc \in Seeing
      PROVE  /\ reqs[s] = reqs'[s]
             /\ reqs[s].pc \in Seeing
             /\ reqs[s].booking \in BookingIds
             /\ reqs[s].view \in View
  BY <1>2, RequestKinds DEF TypeOK, Seeing, PageReq, MoveReq, CancelReq
<1>3. ViewsArePast'
  <2> SUFFICES ASSUME NEW s \in Requests, reqs'[s].pc \in Seeing
               PROVE  LET a == reqs[s].booking
                          view == reqs[s].view
                      IN /\ bookings'[a].status # "NONE"
                         /\ Live(a)' => view.sequence <= bookings'[a].sequence
                         /\ Live(a)' /\ view.sequence = bookings'[a].sequence => view = ViewOf(a)'
    BY <1>2 DEF ViewsArePast, Live, ViewOf
  <2> DEFINE a == reqs[s].booking
             view == reqs[s].view
  <2>1. /\ bookings[a].status # "NONE"
        /\ Live(a) => view.sequence <= bookings[a].sequence
        /\ Live(a) /\ view.sequence = bookings[a].sequence => view = ViewOf(a)
    BY <1>2 DEF SeenInv, ViewsArePast
  <2>2. CASE a # b
    BY <1>1, <1>2, <2>1, <2>2 DEF Live, ViewOf
  <2>3. CASE a = b
    <3>1. row.sequence \in Nat /\ bookings[b].sequence \in Nat /\ view.sequence \in Nat
      BY <1>2 DEF TypeOK, Row, View
    <3>2. row.status = "DELETED" \/ (Live(b) /\ row.sequence > view.sequence)
      BY <2>1, <2>3, <3>1
    <3> QED BY <1>1, <2>3, <3>1, <3>2 DEF Live
  <2> QED BY <2>2, <2>3
<1>4. LockHoldersSeePresent'
  <2> SUFFICES ASSUME NEW s \in Requests, reqs'[s].pc \in Locking
               PROVE  /\ Live(reqs[s].booking)'
                      /\ reqs[s].view.sequence = bookings'[reqs[s].booking].sequence
                      /\ reqs[s].pc = "cancelling" => Confirmed(reqs[s].booking)'
    BY <1>2 DEF LockHoldersSeePresent, Live, Confirmed, Seeing, Locking
  <2>1. reqs[s] = reqs'[s] /\ reqs[s].booking \in BookingIds \ {b}
    BY <1>2 DEF Seeing, Locking
  <2> QED BY <1>1, <2>1 DEF SeenInv, LockHoldersSeePresent, Live, Confirmed
<1>5. OneLockHolder'
  BY <1>2 DEF SeenInv, OneLockHolder, Seeing, Locking
<1> QED BY <1>3, <1>4, <1>5 DEF SeenInv

\* A request takes a step that leaves every booking alone.
LEMMA SeenAfterStep ==
  ASSUME TypeOK, SeenInv, NEW r \in Requests, NEW q \in Request, Become(r, q),
         bookings' = bookings,
         q.pc \in Seeing =>
           /\ bookings[q.booking].status # "NONE"
           /\ Live(q.booking) => q.view.sequence <= bookings[q.booking].sequence
           /\ Live(q.booking) /\ q.view.sequence = bookings[q.booking].sequence
                => q.view = ViewOf(q.booking),
         q.pc \in Locking =>
           /\ Live(q.booking)
           /\ q.view.sequence = bookings[q.booking].sequence
           /\ q.pc = "cancelling" => Confirmed(q.booking)
           /\ ~RowLocked(q.booking)
  PROVE  SeenInv'
<1>1. reqs'[r] = q /\ \A s \in Requests \ {r} : reqs'[s] = reqs[s]
  BY DEF TypeOK, Become
<1>2. \A b : (Live(b)' <=> Live(b)) /\ (Confirmed(b)' <=> Confirmed(b)) /\ ViewOf(b)' = ViewOf(b)
  BY DEF Live, Confirmed, ViewOf
<1>3. ViewsArePast'
  BY <1>1, <1>2 DEF SeenInv, ViewsArePast
<1>4. LockHoldersSeePresent'
  BY <1>1, <1>2 DEF SeenInv, LockHoldersSeePresent
<1>5. OneLockHolder'
  BY <1>1 DEF SeenInv, OneLockHolder, RowLocked, Locking
<1> QED BY <1>3, <1>4, <1>5 DEF SeenInv

\* A request ends without a change.
LEMMA SeenAfterEnd ==
  ASSUME TypeOK, SeenInv, NEW r \in Requests, Become(r, Idle), bookings' = bookings
  PROVE  SeenInv'
BY SeenAfterStep, IdleTyped DEF Idle, Seeing, Locking

\* Neither the requests nor what a page shows of a booking change.
LEMMA SeenUnchanged ==
  ASSUME SeenInv, UNCHANGED <<bookings, reqs>>
  PROVE  SeenInv'
<1>1. \A b : (Live(b)' <=> Live(b)) /\ (Confirmed(b)' <=> Confirmed(b)) /\ ViewOf(b)' = ViewOf(b)
  BY DEF Live, Confirmed, ViewOf
<1>2. ViewsArePast'
  BY <1>1 DEF SeenInv, ViewsArePast
<1>3. LockHoldersSeePresent'
  BY <1>1 DEF SeenInv, LockHoldersSeePresent
<1>4. OneLockHolder'
  BY DEF SeenInv, OneLockHolder
<1> QED BY <1>2, <1>3, <1>4 DEF SeenInv

\* What a request that becomes idle leaves to the others.
LEMMA OthersStay ==
  ASSUME reqs \in [Requests -> Request], NEW r \in Requests, Become(r, Idle)
  PROVE  /\ \A s \in Requests : reqs'[s].pc \in Seeing => reqs'[s] = reqs[s]
         /\ \A s \in Requests : reqs'[s].pc \in Locking => s # r /\ reqs[s] = reqs'[s]
BY DEF Become, Idle, Seeing, Locking

LEMMA SeenCreateCommit ==
  ASSUME TypeOK, SeenInv, NEW r \in Requests, NEW b \in BookingIds, CreateCommit(r, b)
  PROVE  SeenInv'
<1> DEFINE row == NewRow(reqs[r])
<1>1. row \in Row /\ row.status # "NONE"
  BY RequestKinds, NewRowTyped DEF TypeOK, CreateCommit, NewRow
<1>2. \A s \in Requests : reqs'[s].pc \in Seeing => reqs'[s] = reqs[s]
  BY OthersStay DEF TypeOK, CreateCommit
<1>3. \A s \in Requests : reqs'[s].pc \in Locking => reqs'[s].booking # b
  BY OthersStay DEF TypeOK, CreateCommit, SeenInv, LockHoldersSeePresent, Live
<1> QED BY <1>1, <1>2, <1>3, SeenAfterChange DEF CreateCommit

LEMMA SeenRescheduleCommit ==
  ASSUME TypeOK, SeenInv, NEW r \in Requests, RescheduleCommit(r)
  PROVE  SeenInv'
<1> DEFINE q == reqs[r]
           b == q.booking
           row == MovedRow(bookings[b], q)
<1>1. q \in MoveReq
  BY RequestKinds DEF TypeOK, RescheduleCommit
<1>2. b \in BookingIds /\ bookings[b] \in Row
  BY <1>1 DEF TypeOK, MoveReq
<1>3. row \in Row
  BY <1>1, <1>2, MovedRowTyped
<1>4. row.status = "CONFIRMED" /\ row.sequence = bookings[b].sequence + 1
  BY <1>2 DEF MovedRow, Row
<1>5. Live(b) /\ row.sequence > bookings[b].sequence
  BY <1>2, <1>4 DEF Row, RescheduleCommit, SeenInv, LockHoldersSeePresent, Locking
<1>6. \A s \in Requests : reqs'[s].pc \in Seeing => reqs'[s] = reqs[s]
  BY OthersStay DEF TypeOK, RescheduleCommit
<1>7. \A s \in Requests : reqs'[s].pc \in Locking => reqs'[s].booking # b
  BY OthersStay DEF TypeOK, RescheduleCommit, SeenInv, OneLockHolder, Locking
<1> QED BY <1>2, <1>3, <1>4, <1>5, <1>6, <1>7, SeenAfterChange DEF RescheduleCommit

LEMMA SeenCancelLock ==
  ASSUME TypeOK, TypeOK', SeenInv, NEW r \in Requests, NEW actor \in Actors,
         CancelLock(r, actor)
  PROVE  SeenInv'
<1> DEFINE q == reqs'[r]
<1>1. q.pc = "cancelling" /\ q.booking = reqs[r].booking /\ q.view = reqs[r].view
  BY DEF CancelLock, Become, TypeOK
<1>2. q \in Request /\ bookings' = bookings /\ Become(r, q)
  BY DEF CancelLock, Become, TypeOK, tables
<1>3. /\ bookings[q.booking].status # "NONE"
      /\ Live(q.booking) => q.view.sequence <= bookings[q.booking].sequence
      /\ Live(q.booking) /\ q.view.sequence = bookings[q.booking].sequence
           => q.view = ViewOf(q.booking)
  BY <1>1 DEF SeenInv, ViewsArePast, CancelLock, Seeing
<1>4. /\ Live(q.booking) /\ Confirmed(q.booking)
      /\ q.view.sequence = bookings[q.booking].sequence
      /\ ~RowLocked(q.booking)
  BY <1>1 DEF CancelLock, Confirmed, Live
<1> QED BY <1>1, <1>2, <1>3, <1>4, SeenAfterStep

LEMMA SeenCancelCommit ==
  ASSUME TypeOK, SeenInv, NEW r \in Requests, CancelCommit(r)
  PROVE  SeenInv'
<1> DEFINE b == reqs[r].booking
           row == CancelledRow(bookings[b], reqs[r].actor)
<1>1. b \in BookingIds /\ bookings[b] \in Row /\ reqs[r].actor \in Actors
  BY CancelCommitTyped DEF CancelCommit
<1>2. row \in Row /\ row.status = "CANCELLED" /\ row.sequence = bookings[b].sequence + 1
  BY <1>1, CancelledRowTyped
<1>3. Live(b) /\ row.sequence > bookings[b].sequence
  BY <1>1, <1>2 DEF Row, CancelCommit, SeenInv, LockHoldersSeePresent, Locking
<1>4. \A s \in Requests : reqs'[s].pc \in Seeing => reqs'[s] = reqs[s]
  BY OthersStay DEF TypeOK, CancelCommit
<1>5. \A s \in Requests : reqs'[s].pc \in Locking => reqs'[s].booking # b
  BY OthersStay DEF TypeOK, CancelCommit, SeenInv, OneLockHolder, Locking
<1> QED BY <1>1, <1>2, <1>3, <1>4, <1>5, SeenAfterChange DEF CancelCommit

LEMMA SeenDeleteRow ==
  ASSUME TypeOK, SeenInv, NEW r \in Requests, DeleteRow(r)
  PROVE  SeenInv'
<1> DEFINE b == reqs[r].booking
           row == [NoBooking EXCEPT !.status = "DELETED"]
<1>1. b \in BookingIds
  BY RequestKinds DEF TypeOK, DeleteRow, DeleteReq
<1>2. row \in Row /\ row.status = "DELETED"
  BY NoBookingTyped DEF Row, Statuses
<1>3. \A s \in Requests : reqs'[s].pc \in Seeing => reqs'[s] = reqs[s]
  BY OthersStay DEF TypeOK, DeleteRow
<1>4. \A s \in Requests : reqs'[s].pc \in Locking => reqs'[s].booking # b
  BY OthersStay DEF TypeOK, DeleteRow, RowLocked, Locking
<1> QED BY <1>1, <1>2, <1>3, <1>4, SeenAfterChange DEF DeleteRow

LEMMA SeenUpdateAttendeeEmail ==
  ASSUME TypeOK, SeenInv, NEW b \in BookingIds, NEW email \in Emails,
         UpdateAttendeeEmail(b, email)
  PROVE  SeenInv'
<1>1. \A a \in BookingIds : /\ bookings'[a].status = bookings[a].status
                            /\ bookings'[a].sequence = bookings[a].sequence
                            /\ (Live(a)' <=> Live(a))
                            /\ (Confirmed(a)' <=> Confirmed(a))
                            /\ ViewOf(a)' = ViewOf(a)
  BY DEF TypeOK, Row, UpdateAttendeeEmail, Live, Confirmed, ViewOf
<1>2. \A r \in Requests : reqs[r].pc \in Seeing => reqs[r].booking \in BookingIds
  BY RequestKinds DEF TypeOK, Seeing, PageReq, MoveReq, CancelReq
<1>3. reqs' = reqs
  BY DEF UpdateAttendeeEmail
<1>4. ViewsArePast'
  BY <1>1, <1>2, <1>3 DEF SeenInv, ViewsArePast
<1>5. LockHoldersSeePresent'
  BY <1>1, <1>2, <1>3 DEF SeenInv, LockHoldersSeePresent, Seeing, Locking
<1>6. OneLockHolder'
  BY <1>3 DEF SeenInv, OneLockHolder
<1> QED BY <1>4, <1>5, <1>6 DEF SeenInv

LEMMA SeenCreateSteps ==
  ASSUME TypeOK, TypeOK', SeenInv, NEW r \in Requests,
         \/ \E et \in EventTypes, start \in Starts, email \in Emails :
              CreateAsk(r, et, start, email)
         \/ CreateOffer(r)
         \/ CreateValidate(r)
         \/ CreateCollisionCheck(r)
  PROVE  SeenInv'
<1>1. /\ reqs' = [reqs EXCEPT ![r] = reqs'[r]]
      /\ reqs'[r].pc \notin Seeing
      /\ bookings' = bookings
  <2>1. CASE \E et \in EventTypes, start \in Starts, email \in Emails :
               CreateAsk(r, et, start, email)
    BY <2>1 DEF TypeOK, CreateAsk, Become, Seeing, tables
  <2>2. CASE CreateOffer(r)
    <3>1. reqs[r] \in AskReq
      BY <2>2, RequestKinds DEF TypeOK, CreateOffer
    <3>2. [reqs[r] EXCEPT !.pc = "offered"].pc = "offered"
      BY <3>1 DEF AskReq
    <3> QED BY <2>2, <3>2 DEF TypeOK, CreateOffer, Become, Seeing, tables
  <2>3. CASE CreateValidate(r)
    BY <2>3 DEF TypeOK, CreateValidate, Become, Seeing, tables
  <2>4. CASE CreateCollisionCheck(r)
    <3>1. reqs[r] \in CreateReq
      BY <2>4, RequestKinds DEF TypeOK, CreateCollisionCheck
    <3>2. [reqs[r] EXCEPT !.pc = "checked"].pc = "checked"
      BY <3>1 DEF CreateReq
    <3> QED BY <2>4, <3>2 DEF TypeOK, CreateCollisionCheck, Become, Seeing, tables
  <2> QED BY <2>1, <2>2, <2>3, <2>4
<1>2. reqs'[r] \in Request
  BY DEF TypeOK
<1> QED BY <1>1, <1>2, SeenAfterStep DEF Become, Seeing, Locking

LEMMA SeenLoadPage ==
  ASSUME TypeOK, SeenInv, NEW r \in Requests, NEW b \in BookingIds, LoadPage(r, b)
  PROVE  SeenInv'
<1> DEFINE q == [pc |-> "page", booking |-> b, view |-> ViewOf(b)]
<1>1. q \in Request
  BY ViewTyped DEF LoadPage, Request, PageReq
<1>2. bookings[b].sequence \in Nat
  BY DEF TypeOK, Row
<1>3. q.view.sequence = bookings[b].sequence /\ bookings[b].status # "NONE"
  BY DEF ViewOf, LoadPage, Live
<1>4. bookings' = bookings /\ Become(r, q)
  BY DEF LoadPage, tables
<1> QED BY <1>1, <1>2, <1>3, <1>4, SeenAfterStep DEF Locking

LEMMA SeenRescheduleRead ==
  ASSUME TypeOK, TypeOK', SeenInv, NEW r \in Requests, NEW start \in Starts,
         RescheduleRead(r, start)
  PROVE  SeenInv'
<1> DEFINE q == reqs'[r]
<1>1. q.pc = "reading" /\ q.booking = reqs[r].booking /\ q.view = reqs[r].view
  BY DEF RescheduleRead, Become, TypeOK
<1>2. q \in Request /\ bookings' = bookings /\ Become(r, q)
  BY DEF RescheduleRead, Become, TypeOK, tables
<1>3. /\ bookings[q.booking].status # "NONE"
      /\ Live(q.booking) => q.view.sequence <= bookings[q.booking].sequence
      /\ Live(q.booking) /\ q.view.sequence = bookings[q.booking].sequence
           => q.view = ViewOf(q.booking)
  BY <1>1 DEF SeenInv, ViewsArePast, RescheduleRead, Seeing
<1> QED BY <1>1, <1>2, <1>3, SeenAfterStep DEF Locking

LEMMA SeenRescheduleLock ==
  ASSUME TypeOK, TypeOK', SeenInv, NEW r \in Requests, RescheduleLock(r)
  PROVE  SeenInv'
<1> DEFINE q == reqs'[r]
<1>1. reqs[r] \in MoveReq
  BY RequestKinds DEF TypeOK, RescheduleLock
<1>2. q.pc = "locked" /\ q.booking = reqs[r].booking /\ q.view = reqs[r].view
  BY <1>1 DEF RescheduleLock, Become, TypeOK, MoveReq
<1>3. q \in Request /\ bookings' = bookings /\ Become(r, q)
  BY DEF RescheduleLock, Become, TypeOK, tables
<1>4. /\ bookings[q.booking].status # "NONE"
      /\ Live(q.booking) => q.view.sequence <= bookings[q.booking].sequence
      /\ Live(q.booking) /\ q.view.sequence = bookings[q.booking].sequence
           => q.view = ViewOf(q.booking)
  BY <1>2 DEF SeenInv, ViewsArePast, RescheduleLock, Seeing
<1>5. /\ Live(q.booking)
      /\ q.view.sequence = bookings[q.booking].sequence
      /\ ~RowLocked(q.booking)
  BY <1>2 DEF RescheduleLock, MayReschedule
<1> QED BY <1>2, <1>3, <1>4, <1>5, SeenAfterStep

LEMMA SeenDeleteSteps ==
  ASSUME TypeOK, TypeOK', SeenInv, NEW r \in Requests,
         DeleteChildren(r) \/ \E b \in BookingIds : DeleteRead(r, b)
  PROVE  SeenInv'
<1>1. /\ reqs' = [reqs EXCEPT ![r] = reqs'[r]]
      /\ reqs'[r].pc \notin Seeing
      /\ bookings' = bookings
  <2>1. CASE \E b \in BookingIds : DeleteRead(r, b)
    BY <2>1 DEF TypeOK, DeleteRead, Become, Seeing, tables
  <2>2. CASE DeleteChildren(r)
    <3>1. reqs[r] \in DeleteReq
      BY <2>2, RequestKinds DEF TypeOK, DeleteChildren
    <3>2. [reqs[r] EXCEPT !.pc = "emptied",
                          !.upTo = bookings[reqs[r].booking].sequence].pc = "emptied"
      BY <3>1 DEF DeleteReq
    <3> QED BY <2>2, <3>2 DEF TypeOK, DeleteChildren, Become, Seeing, tables
  <2> QED BY <2>1, <2>2
<1>2. reqs'[r] \in Request
  BY DEF TypeOK
<1> QED BY <1>1, <1>2, SeenAfterStep DEF Become, Seeing, Locking

LEMMA SeenNext ==
  ASSUME TypeOK, TypeOK', SeenInv, [Next]_vars
  PROVE  SeenInv'
<1>1. ASSUME NEW r \in Requests, Serve(r)
      PROVE  SeenInv'
  BY <1>1, SeenCreateSteps, SeenCreateCommit, SeenRescheduleLock, SeenRescheduleCommit,
     SeenCancelCommit, SeenDeleteSteps, SeenDeleteRow, SeenAfterEnd
     DEF Serve, Fail, DeadlockVictim, tables
<1>2. ASSUME NEW r \in Requests, Client(r)
      PROVE  SeenInv'
  BY <1>2, SeenCreateSteps, SeenLoadPage, SeenRescheduleRead, SeenCancelLock,
     SeenDeleteSteps, SeenAfterEnd
     DEF Client, LeavePage, Abort, tables
<1>3. CASE Environment
  BY <1>3, SeenUpdateAttendeeEmail, SeenUnchanged, WorkerSteps
     DEF Environment, UpdateEventType, ArchiveEventType, ChangeIntegration, Tick, tables
<1>4. CASE UNCHANGED vars
  BY <1>4, SeenUnchanged DEF vars
<1> QED BY <1>1, <1>2, <1>3, <1>4 DEF Next

\* A booking that stays and shows other times, another status or another
\* sequence was changed by the end of a request that had seen it as it was.
ChangedBySeer(b) ==
  Live(b) /\ Live(b)' /\ ViewOf(b)' # ViewOf(b) =>
    \E r \in Requests : /\ reqs[r].pc \in Locking
                        /\ reqs'[r].pc = "idle"
                        /\ reqs[r].booking = b
                        /\ reqs[r].view = ViewOf(b)

\* Nothing to show for a step that changes no row ...
LEMMA UnchangedSeen ==
  ASSUME NEW b, bookings'[b] = bookings[b]
  PROVE  ChangedBySeer(b)
BY DEF ChangedBySeer, ViewOf

\* ... and the end of a request that had seen the row it writes is what is asked.
LEMMA SeerChanges ==
  ASSUME TypeOK, SeenInv, NEW r \in Requests, reqs[r].pc \in Locking,
         NEW row, bookings' = [bookings EXCEPT ![reqs[r].booking] = row],
         Become(r, Idle), NEW b \in BookingIds
  PROVE  ChangedBySeer(b)
<1>1. CASE b # reqs[r].booking
  BY <1>1, UnchangedSeen DEF TypeOK
<1>2. CASE b = reqs[r].booking
  <2>1. reqs[r].view = ViewOf(b)
    BY <1>2 DEF SeenInv, ViewsArePast, LockHoldersSeePresent, Seeing, Locking
  <2>2. reqs'[r].pc = "idle"
    BY DEF TypeOK, Become, Idle
  <2> QED BY <1>2, <2>1, <2>2 DEF ChangedBySeer
<1> QED BY <1>1, <1>2

LEMMA SeerNext ==
  ASSUME TypeOK, SeenInv, [Next]_vars, NEW b \in BookingIds
  PROVE  ChangedBySeer(b)
<1>1. ASSUME NEW r \in Requests, NEW i \in BookingIds, CreateCommit(r, i)
      PROVE  ChangedBySeer(b)
  <2>1. CASE b # i
    BY <1>1, <2>1, UnchangedSeen DEF TypeOK, CreateCommit
  <2>2. CASE b = i
    BY <1>1, <2>2 DEF CreateCommit, ChangedBySeer, Live
  <2> QED BY <2>1, <2>2
<1>2. ASSUME NEW r \in Requests, RescheduleCommit(r)
      PROVE  ChangedBySeer(b)
  BY <1>2, SeerChanges DEF RescheduleCommit, Locking
<1>3. ASSUME NEW r \in Requests, CancelCommit(r)
      PROVE  ChangedBySeer(b)
  BY <1>3, SeerChanges DEF CancelCommit, Locking
<1>4. ASSUME NEW r \in Requests, DeleteRow(r)
      PROVE  ChangedBySeer(b)
  <2>1. CASE b # reqs[r].booking
    BY <1>4, <2>1, UnchangedSeen DEF TypeOK, DeleteRow
  <2>2. CASE b = reqs[r].booking
    <3>1. bookings'[b].status = "DELETED"
      BY <1>4, <2>2, NoBookingTyped DEF TypeOK, DeleteRow, Row
    <3> QED BY <3>1 DEF ChangedBySeer, Live
  <2> QED BY <2>1, <2>2
<1>5. ASSUME NEW i \in BookingIds, NEW email \in Emails, UpdateAttendeeEmail(i, email)
      PROVE  ChangedBySeer(b)
  <2>1. ViewOf(b)' = ViewOf(b)
    BY <1>5 DEF TypeOK, Row, UpdateAttendeeEmail, ViewOf
  <2> QED BY <2>1 DEF ChangedBySeer
<1>6. ASSUME NEW r \in Requests, Serve(r)
      PROVE  ChangedBySeer(b)
  BY <1>1, <1>2, <1>3, <1>4, <1>6, UnchangedSeen
     DEF Serve, CreateOffer, CreateValidate, CreateCollisionCheck, RescheduleLock, DeleteChildren, Fail, DeadlockVictim, tables
<1>7. ASSUME NEW r \in Requests, Client(r)
      PROVE  ChangedBySeer(b)
  BY <1>7, UnchangedSeen
     DEF Client, CreateAsk, LoadPage, RescheduleRead, CancelLock, LeavePage, DeleteRead, Abort,
         tables
<1>8. CASE Environment
  BY <1>5, <1>8, UnchangedSeen, WorkerSteps
     DEF Environment, UpdateEventType, ArchiveEventType, ChangeIntegration, Tick, tables
<1>9. CASE UNCHANGED vars
  BY <1>9, UnchangedSeen DEF vars
<1> QED BY <1>6, <1>7, <1>8, <1>9 DEF Next

LEMMA SeenAlways == Spec => []SeenInv
<1>1. Init => SeenInv
  BY DEF Init, SeenInv, ViewsArePast, LockHoldersSeePresent, OneLockHolder, Idle, Seeing, Locking
<1>2. TypeOK /\ TypeOK' /\ SeenInv /\ [Next]_vars => SeenInv'
  BY SeenNext
<1> QED BY TypeCorrect, <1>1, <1>2, PTL DEF Spec

\* No update is lost: who reschedules or cancels a booking does so to the
\* booking it was looking at, however many requests work on it at once.
THEOREM NoLostUpdate == Spec => SeenIsCurrent
<1>1. TypeOK /\ SeenInv /\ [Next]_vars => [\A b \in BookingIds : ChangedBySeer(b)]_vars
  BY SeerNext
<1>2. Spec => [][\A b \in BookingIds : ChangedBySeer(b)]_vars
  BY TypeCorrect, SeenAlways, <1>1, PTL DEF Spec
<1> QED BY <1>2 DEF SeenIsCurrent, ChangedBySeer, Locking

-----------------------------------------------------------------------------
(* No orphans *)

\* The rows of table `new` that are not rows of `old` are about booking b.
OnlyAdds(b, old, new) ==
  \A x \in new : x.booking = b \/ \E y \in old : y.booking = x.booking

LEMMA OnlyAddsTwice ==
  ASSUME NEW b, NEW J, NEW K, NEW L, OnlyAdds(b, J, K), OnlyAdds(b, K, L)
  PROVE  OnlyAdds(b, J, L)
BY DEF OnlyAdds

\* The outbox calls for booking b add rows of b only.
LEMMA EnqueuedOwners ==
  ASSUME NEW J, NEW b, NEW row, NEW n
  PROVE  /\ OnlyAdds(b, J, EnqueueConfirmationJobs(J, b, row))
         /\ OnlyAdds(b, J, EnqueueRescheduleJobs(J, b, row))
         /\ OnlyAdds(b, J, EnqueueCancellationJobs(J, b, row))
         /\ OnlyAdds(b, J, EnqueueReminderJobs(J, b, row, n))
<1>1. \A kind, to, runAt : NewJob(b, row, kind, to, runAt).booking = b
  BY DEF NewJob
<1>2. OnlyAdds(b, J, EnqueueConfirmationJobs(J, b, row))
  BY <1>1 DEF EnqueueConfirmationJobs, UpsertJobs, OnlyAdds
<1>3. OnlyAdds(b, J, EnqueueRescheduleJobs(J, b, row))
  BY <1>1 DEF EnqueueRescheduleJobs, UpsertJobs, OnlyAdds
<1>4. OnlyAdds(b, J, EnqueueCancellationJobs(J, b, row))
  BY <1>1 DEF EnqueueCancellationJobs, UpsertJobs, OnlyAdds
<1>5. OnlyAdds(b, J, EnqueueReminderJobs(J, b, row, n))
  BY <1>1 DEF EnqueueReminderJobs, UpsertJobs, OnlyAdds
<1> QED BY <1>2, <1>3, <1>4, <1>5

LEMMA WithdrawnOwners ==
  ASSUME NEW J, J \subseteq Job, NEW b
  PROVE  OnlyAdds(b, J, CancelPendingReminderJobs(J, b))
<1>1. ASSUME NEW job \in Job
      PROVE  [job EXCEPT !.status = "CANCELLED", !.failed = TRUE].booking = job.booking
  BY DEF Job
<1> QED BY <1>1 DEF CancelPendingReminderJobs, OnlyAdds

LEMMA SyncOwners ==
  ASSUME NEW S, NEW b, NEW n, NEW i
  PROVE  OnlyAdds(b, S, S \cup NewSyncJobs(b, n, i))
BY DEF NewSyncJobs, OnlyAdds

\* A booking that exists afterwards may get new rows.
LEMMA ParentAfterChange ==
  ASSUME TypeOK, ChildrenHaveParent, NEW b \in BookingIds, NEW row,
         bookings' = [bookings EXCEPT ![b] = row], row.status \in {"CONFIRMED", "CANCELLED"},
         OnlyAdds(b, history, history'), OnlyAdds(b, jobs, jobs'), OnlyAdds(b, syncJobs, syncJobs')
  PROVE  ChildrenHaveParent'
<1>1. bookings'[b] = row /\ \A a \in BookingIds \ {b} : bookings'[a] = bookings[a]
  BY DEF TypeOK
<1> SUFFICES ASSUME NEW a \in BookingIds, ~Live(a)'
             PROVE  \A x \in history' \cup jobs' \cup syncJobs' : x.booking # a
  BY DEF ChildrenHaveParent, HistoryOf, JobsOf
<1>2. a # b /\ ~Live(a)
  BY <1>1 DEF Live
<1>3. \A y \in history \cup jobs \cup syncJobs : y.booking # a
  BY <1>2 DEF ChildrenHaveParent, HistoryOf, JobsOf
<1> QED BY <1>2, <1>3 DEF OnlyAdds

LEMMA ParentUnchanged ==
  ASSUME ChildrenHaveParent, UNCHANGED <<history, jobs, syncJobs>>,
         \A b \in BookingIds : Live(b)' <=> Live(b)
  PROVE  ChildrenHaveParent'
BY DEF ChildrenHaveParent, HistoryOf, JobsOf

LEMMA ParentCreateCommit ==
  ASSUME TypeOK, ChildrenHaveParent, NEW r \in Requests, NEW b \in BookingIds,
         CreateCommit(r, b)
  PROVE  ChildrenHaveParent'
<1> DEFINE row == NewRow(reqs[r])
           confirmed == EnqueueConfirmationJobs(jobs, b, row)
<1>1. OnlyAdds(b, jobs, confirmed) /\ OnlyAdds(b, confirmed, jobs')
  BY EnqueuedOwners DEF CreateCommit
<1>2. OnlyAdds(b, jobs, jobs')
  BY <1>1, OnlyAddsTwice
<1>3. OnlyAdds(b, syncJobs, syncJobs') /\ OnlyAdds(b, history, history')
  BY SyncOwners DEF CreateCommit, OnlyAdds
<1> QED BY <1>2, <1>3, ParentAfterChange DEF CreateCommit, NewRow

LEMMA ParentRescheduleCommit ==
  ASSUME TypeOK, ChildrenHaveParent, NEW r \in Requests, RescheduleCommit(r)
  PROVE  ChildrenHaveParent'
<1> DEFINE b == reqs[r].booking
           row == MovedRow(bookings[b], reqs[r])
           kept == CancelPendingReminderJobs(jobs, b)
           told == EnqueueRescheduleJobs(kept, b, row)
<1>1. b \in BookingIds /\ row.status = "CONFIRMED"
  BY RequestKinds DEF TypeOK, RescheduleCommit, MoveReq, MovedRow, Row
<1>2. OnlyAdds(b, jobs, kept) /\ OnlyAdds(b, kept, told) /\ OnlyAdds(b, told, jobs')
  BY EnqueuedOwners, WithdrawnOwners DEF TypeOK, RescheduleCommit
<1>3. OnlyAdds(b, jobs, jobs')
  BY <1>2, OnlyAddsTwice
<1>4. OnlyAdds(b, syncJobs, syncJobs')
  BY SyncOwners DEF RescheduleCommit
<1>5. OnlyAdds(b, history, history')
  BY DEF RescheduleCommit, HistoryRow, OnlyAdds
<1> QED BY <1>1, <1>3, <1>4, <1>5, ParentAfterChange DEF RescheduleCommit

LEMMA ParentCancelCommit ==
  ASSUME TypeOK, ChildrenHaveParent, NEW r \in Requests, CancelCommit(r)
  PROVE  ChildrenHaveParent'
<1> DEFINE b == reqs[r].booking
           row == CancelledRow(bookings[b], reqs[r].actor)
           kept == CancelPendingReminderJobs(jobs, b)
<1>1. b \in BookingIds /\ row.status = "CANCELLED"
  BY CancelCommitTyped, CancelledRowTyped DEF CancelCommit
<1>2. OnlyAdds(b, jobs, kept) /\ OnlyAdds(b, kept, jobs')
  BY EnqueuedOwners, WithdrawnOwners DEF TypeOK, CancelCommit
<1>3. OnlyAdds(b, jobs, jobs')
  BY <1>2, OnlyAddsTwice
<1>4. OnlyAdds(b, syncJobs, syncJobs') /\ OnlyAdds(b, history, history')
  BY SyncOwners DEF CancelCommit, OnlyAdds
<1> QED BY <1>1, <1>3, <1>4, ParentAfterChange DEF CancelCommit

\* What the deleteMany statements have left is of other bookings: the foreign
\* keys have refused the deletion if anything was added since.
LEMMA ParentDeleteRow ==
  ASSUME TypeOK, ChildrenHaveParent, NEW r \in Requests, DeleteRow(r)
  PROVE  ChildrenHaveParent'
<1> DEFINE b == reqs[r].booking
<1>1. \A a \in BookingIds \ {b} : bookings'[a] = bookings[a]
  BY DEF TypeOK, DeleteRow
<1>2. \A x \in history' \cup jobs' \cup syncJobs' :
        x \in history \cup jobs \cup syncJobs /\ x.booking # b
  BY DEF DeleteRow, Emptied, NoOtherChildren
<1>3. \A a \in BookingIds \ {b} : ~Live(a)' => ~Live(a)
  BY <1>1 DEF Live
<1> SUFFICES ASSUME NEW a \in BookingIds, ~Live(a)'
             PROVE  \A x \in history' \cup jobs' \cup syncJobs' : x.booking # a
  BY DEF ChildrenHaveParent, HistoryOf, JobsOf
<1>4. a # b => \A x \in history \cup jobs \cup syncJobs : x.booking # a
  BY <1>3 DEF ChildrenHaveParent, HistoryOf, JobsOf
<1> QED BY <1>2, <1>4

LEMMA ParentUpdateAttendeeEmail ==
  ASSUME TypeOK, ChildrenHaveParent, NEW b \in BookingIds, NEW email \in Emails,
         UpdateAttendeeEmail(b, email)
  PROVE  ChildrenHaveParent'
<1>1. \A a \in BookingIds : Live(a)' <=> Live(a)
  BY DEF TypeOK, Row, UpdateAttendeeEmail, Live
<1> QED BY <1>1, ParentUnchanged DEF UpdateAttendeeEmail

LEMMA ParentTablesUnchanged ==
  ASSUME ChildrenHaveParent, UNCHANGED tables
  PROVE  ChildrenHaveParent'
BY DEF ChildrenHaveParent, HistoryOf, JobsOf, Live, tables

\* The worker replaces a row by one of the same booking.
LEMMA ParentWorker ==
  ASSUME TypeOK, ChildrenHaveParent, Worker
  PROVE  ChildrenHaveParent'
<1>1. PICK job \in jobs, left \in Job :
        jobs' = (jobs \ {job}) \cup {left} /\ left.booking = job.booking
  BY WorkerSteps
<1>2. UNCHANGED <<bookings, history, syncJobs>>
  BY WorkerSteps
<1> QED BY <1>1, <1>2 DEF ChildrenHaveParent, HistoryOf, JobsOf, Live

LEMMA ParentNext ==
  ASSUME TypeOK, ChildrenHaveParent, [Next]_vars
  PROVE  ChildrenHaveParent'
<1>1. ASSUME NEW r \in Requests, Serve(r)
      PROVE  ChildrenHaveParent'
  BY <1>1, ParentCreateCommit, ParentRescheduleCommit, ParentCancelCommit, ParentDeleteRow,
     ParentTablesUnchanged
     DEF Serve, CreateOffer, CreateValidate, CreateCollisionCheck, RescheduleLock, DeleteChildren, Fail, DeadlockVictim
<1>2. ASSUME NEW r \in Requests, Client(r)
      PROVE  ChildrenHaveParent'
  BY <1>2, ParentTablesUnchanged
     DEF Client, CreateAsk, LoadPage, RescheduleRead, CancelLock, LeavePage, DeleteRead, Abort
<1>3. CASE Environment
  BY <1>3, ParentUpdateAttendeeEmail, ParentTablesUnchanged, ParentWorker
     DEF Environment, UpdateEventType, ArchiveEventType, ChangeIntegration, Tick
<1>4. CASE UNCHANGED vars
  BY <1>4, ParentTablesUnchanged DEF vars, tables
<1> QED BY <1>1, <1>2, <1>3, <1>4 DEF Next

\* A deletion leaves no orphan, although it removes the child rows before it
\* has the row lock and other requests may add some until then.
THEOREM NoOrphans == Spec => []ChildrenHaveParent
<1>1. Init => ChildrenHaveParent
  BY DEF Init, ChildrenHaveParent, HistoryOf, JobsOf
<1>2. TypeOK /\ ChildrenHaveParent /\ [Next]_vars => ChildrenHaveParent'
  BY ParentNext
<1> QED BY TypeCorrect, <1>1, <1>2, PTL DEF Spec
=============================================================================
