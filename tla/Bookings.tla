------------------------------ MODULE Bookings ------------------------------
(***************************************************************************)
(* bookings/bookings.service.ts over PostgreSQL: HTTP requests that create,*)
(* reschedule, cancel and delete bookings, and edit the attendee's email,  *)
(* interleaved statement by statement where another request can get in     *)
(* between.                                                                *)
(*                                                                         *)
(* Every transaction runs at READ COMMITTED, the default of both Prisma    *)
(* and PostgreSQL: a statement sees what was committed when it started.    *)
(* The steps of a request are therefore the reads it makes before its      *)
(* transaction, the reads and locks inside it, and its writes together     *)
(* with the commit.  A request that fails, times out or crashes before its *)
(* commit leaves nothing behind.                                           *)
(***************************************************************************)
EXTENDS FiniteSets, Slots, NotificationJobs

CONSTANTS
  BookingIds,    \* the UUIDs bookings may be given
  EventTypes,    \* the event types, each owned by a host
  Hosts,
  HostOf,        \* HostOf[et]: the owner of event type et
  Configs,       \* the configurations event types may have
  Integrations,  \* the states a host's calendar_integrations row may be in
  Emails,        \* attendee addresses
  Starts,        \* the start times clients ask for
  Requests,      \* request slots: how many requests are in flight at once
  Workers,       \* how many processes sweep the outbox
  MaxSequence,   \* bound: how often one booking may be changed
  MaxNow         \* bound: how far the clock may run

ASSUME NonEmptyAssumption == EventTypes # {} /\ Emails # {}
ASSUME HostOfAssumption == HostOf \in [EventTypes -> Hosts]
ASSUME ConfigsAssumption == Configs \subseteq Config
ASSUME IntegrationsAssumption ==
  \A i \in Integrations : i.connected \in BOOLEAN /\ "calendar" \in DOMAIN i
ASSUME StartsAssumption == Starts \subseteq Nat
ASSUME BoundsAssumption == MaxSequence \in Nat /\ MaxNow \in Nat /\ Workers \in Nat

VARIABLES
  bookings,      \* the bookings table, indexed by id
  history,       \* the booking_reschedule_history table
  jobs,          \* the notification_jobs table
  syncJobs,      \* the calendar_sync_jobs table
  eventTypes,    \* the configuration and archived flag of every event type
  integration,   \* every host's calendar integration
  reqs,          \* the state of every request in flight
  now            \* wall-clock time

tables == <<bookings, history, jobs, syncJobs>>
vars == <<bookings, history, jobs, syncJobs, eventTypes, integration, reqs, now>>

-----------------------------------------------------------------------------
(* Rows and requests *)

\* NONE: no booking has this id yet.  DELETED: the row is gone, and its id,
\* a random UUID, is never drawn again.
Statuses == {"NONE", "CONFIRMED", "CANCELLED", "DELETED"}
Actors == {"HOST", "ATTENDEE"}
NoTime == -1      \* a NULL timestamp

Row == [status : Statuses, eventType : EventTypes, start : Int, end : Int,
        sequence : Nat, rescheduleCount : Nat, prevStart : Int, prevEnd : Int,
        email : Emails, cancelledBy : Actors \cup {"nobody"}]

Move == [booking : BookingIds, sequence : Nat, prevStart : Int, prevEnd : Int,
         newStart : Int, newEnd : Int]

Job == [booking : BookingIds, kind : Kinds, to : {"attendee", "host"}, sequence : Nat,
        recipient : Emails \cup {"host"}, start : Int, end : Int, runAt : Int,
        status : JobStatuses, failed : BOOLEAN, workers : Nat]

Live(b) == bookings[b].status \in {"CONFIRMED", "CANCELLED"}
Confirmed(b) == bookings[b].status = "CONFIRMED"
Host(b) == HostOf[bookings[b].eventType]
Duration(b) == bookings[b].end - bookings[b].start

\* What a client's page shows of a booking, and what its request relies on.
View == [status : {"CONFIRMED", "CANCELLED"}, start : Int, end : Int, sequence : Nat]
ViewOf(b) == [status |-> bookings[b].status, start |-> bookings[b].start,
              end |-> bookings[b].end, sequence |-> bookings[b].sequence]

\* A request slot: free; a create that has read its event type, that has
\* found the slot on offer, that has asked Google, and that has checked for
\* collisions; a client looking at a booking; a reschedule before and after
\* its row lock; a cancellation that holds the lock; a delete before its
\* transaction and inside it.
Idle == [pc |-> "idle"]
AskReq == [pc : {"asked", "offered"}, eventType : EventTypes, config : Configs,
           start : Int, email : Emails, now : Nat]
CreateReq == [pc : {"validated", "checked"}, eventType : EventTypes, config : Configs,
              start : Int, email : Emails, now : Nat, integration : Integrations]
PageReq == [pc : {"page"}, booking : BookingIds, view : View]
MoveReq == [pc : {"reading", "locked"}, booking : BookingIds, view : View, start : Int,
            end : Int, config : Configs, now : Nat, integration : Integrations]
CancelReq == [pc : {"cancelling"}, booking : BookingIds, view : View, actor : Actors]
DeleteReq == [pc : {"deletable", "emptied"}, booking : BookingIds, upTo : Nat]
Request ==
  {Idle} \cup AskReq \cup CreateReq \cup PageReq \cup MoveReq \cup CancelReq \cup DeleteReq

Creating == {"asked", "offered", "validated", "checked"}

\* SELECT ... FOR UPDATE, held by a reschedule or a cancellation until it
\* commits or aborts.
RowLocked(b) ==
  \E r \in Requests : reqs[r].pc \in {"locked", "cancelling"} /\ reqs[r].booking = b

\* Rows an open delete has removed, not yet committed: whoever updates one of
\* them waits for that delete.
BeingDeleted(job) ==
  \E r \in Requests : /\ reqs[r].pc = "emptied"
                      /\ reqs[r].booking = job.booking
                      /\ job.sequence <= reqs[r].upTo
RemindersLocked(b) == \E job \in jobs : PendingReminder(job, b) /\ BeingDeleted(job)

\* The collision query of both transactions, over all bookings but `others`.
Collision(host, from, to, others) ==
  \E b \in BookingIds \ others :
    Confirmed(b) /\ Host(b) = host /\ Overlap(bookings[b].start, bookings[b].end, from, to)

\* Mutant of ExclusionHolds: a schema without the constraint.
NoConstraint(b, host, from, to) == TRUE

\* The exclusion constraint no_overlapping_confirmed_bookings, for a row of
\* id b about to hold [from, to).  A conflicting row that is not committed
\* yet makes the writer wait, so the check and the commit are one step.
ExclusionHolds(b, host, from, to) == ~Collision(host, from, to, {b})

\* The host's confirmed bookings within a day of the requested interval.
ExistingBookings(host, start, end, others) ==
  {bookings[b] : b \in {o \in BookingIds \ others :
     /\ Confirmed(o)
     /\ Host(o) = host
     /\ bookings[o].start \in (start - Day) .. (end + Day)}}

\* The sync job written with a booking change, if the request believes the
\* integration to be connected.
NewSyncJobs(b, sequence, i) ==
  IF i.connected
  THEN {[booking |-> b, sequence |-> sequence, calendar |-> i.calendar, status |-> "PENDING"]}
  ELSE {}

NoBooking ==
  [status |-> "NONE", eventType |-> CHOOSE et \in EventTypes : TRUE, start |-> 0, end |-> 0,
   sequence |-> 0, rescheduleCount |-> 0, prevStart |-> NoTime, prevEnd |-> NoTime,
   email |-> CHOOSE e \in Emails : TRUE, cancelledBy |-> "nobody"]

Init ==
  /\ bookings = [b \in BookingIds |-> NoBooking]
  /\ history = {}
  /\ jobs = {}
  /\ syncJobs = {}
  /\ eventTypes \in [EventTypes -> [config : Configs, archived : {FALSE}]]
  /\ integration \in [Hosts -> Integrations]
  /\ reqs = [r \in Requests |-> Idle]
  /\ now = 0

Become(r, request) == reqs' = [reqs EXCEPT ![r] = request]

-----------------------------------------------------------------------------
(* createBooking *)

\* Bound: every create in flight finds an id that is still free.
IdLeft ==
  Cardinality({r \in Requests : reqs[r].pc \in Creating})
    < Cardinality({b \in BookingIds : bookings[b].status = "NONE"})

\* The reads before the transaction, each of which may be out of date when
\* the transaction runs.  First the event type, for its length, buffers and
\* notice ...
CreateAsk(r, et, start, email) ==
  LET config == eventTypes[et].config
  IN /\ reqs[r].pc = "idle"
     /\ IdLeft
     /\ ~eventTypes[et].archived
     /\ start >= now + config.notice
     /\ Become(r, [pc |-> "asked", eventType |-> et, config |-> config, start |-> start,
                   email |-> email, now |-> now])
     /\ UNCHANGED <<tables, eventTypes, integration, now>>

\* ... then the slot list; an overlapping booking of the same attendee, asked
\* for just before, takes the slot off it too ...
OnOffer(q) ==
  LET end == q.start + q.config.duration
  IN SlotOffered(q.start, q.config, q.now, ExistingBookings(HostOf[q.eventType], q.start, end, {}))

CreateOffer(r) ==
  /\ reqs[r].pc = "asked"
  /\ OnOffer(reqs[r])
  /\ Become(r, [reqs[r] EXCEPT !.pc = "offered"])
  /\ UNCHANGED <<tables, eventTypes, integration, now>>

\* ... then the integration, and with it the FreeBusy call to Google.
CreateValidate(r) ==
  LET q == reqs[r]
  IN /\ q.pc = "offered"
     /\ Become(r, [pc |-> "validated", eventType |-> q.eventType, config |-> q.config,
                   start |-> q.start, email |-> q.email, now |-> q.now,
                   integration |-> integration[HostOf[q.eventType]]])
     /\ UNCHANGED <<tables, eventTypes, integration, now>>

BufferedCollision(host, start, end, config, others) ==
  Collision(host, start - config.before, end + config.after, others)

\* The first statement of the transaction.
CreateCollisionCheck(r) ==
  LET q == reqs[r]
  IN /\ q.pc = "validated"
     /\ ~BufferedCollision(HostOf[q.eventType], q.start, q.start + q.config.duration, q.config, {})
     /\ Become(r, [q EXCEPT !.pc = "checked"])
     /\ UNCHANGED <<tables, eventTypes, integration, now>>

NewRow(q) ==
  [status |-> "CONFIRMED", eventType |-> q.eventType, start |-> q.start,
   end |-> q.start + q.config.duration, sequence |-> 0, rescheduleCount |-> 0,
   prevStart |-> NoTime, prevEnd |-> NoTime, email |-> q.email, cancelledBy |-> "nobody"]

\* The inserts and the commit, under the exclusion constraint.
CreateCommit(r, b) ==
  LET q == reqs[r]
      row == NewRow(q)
  IN /\ q.pc = "checked"
     /\ bookings[b].status = "NONE"
     /\ ExclusionHolds(b, HostOf[row.eventType], row.start, row.end)
     /\ bookings' = [bookings EXCEPT ![b] = row]
     /\ jobs' = EnqueueReminderJobs(EnqueueConfirmationJobs(jobs, b, row), b, row, q.now)
     /\ syncJobs' = syncJobs \cup NewSyncJobs(b, 0, q.integration)
     /\ Become(r, Idle)
     /\ UNCHANGED <<history, eventTypes, integration, now>>

-----------------------------------------------------------------------------
(* rescheduleBooking *)

\* A client loads the booking; its sequence becomes expectedSequence.
LoadPage(r, b) ==
  /\ reqs[r].pc = "idle"
  /\ Live(b)
  /\ Become(r, [pc |-> "page", booking |-> b, view |-> ViewOf(b)])
  /\ UNCHANGED <<tables, eventTypes, integration, now>>

\* The reads before the transaction: the booking, for its duration, and the
\* integration.  The configuration and the time are read under the lock.
RescheduleRead(r, start) ==
  LET q == reqs[r]
      b == q.booking
  IN /\ q.pc = "page"
     /\ q.view.sequence < MaxSequence
     /\ Live(b)
     /\ Become(r, [pc |-> "reading", booking |-> b, view |-> q.view, start |-> start,
                   end |-> start + Duration(b),
                   config |-> eventTypes[bookings[b].eventType].config, now |-> now,
                   integration |-> integration[Host(b)]])
     /\ UNCHANGED <<tables, eventTypes, integration, now>>

\* Mutant of MayReschedule: the row lock without the version check.
MayRescheduleAnyVersion(q) ==
  LET b == q.booking
      config == eventTypes[bookings[b].eventType].config
  IN /\ Live(b)
     /\ SlotOffered(q.start, config, now, ExistingBookings(Host(b), q.start, q.end, {b}))
     /\ ~BufferedCollision(Host(b), q.start, q.end, config, {b})

\* The checks made under the row lock, on what is committed by then.
MayReschedule(q) ==
  LET b == q.booking
      config == eventTypes[bookings[b].eventType].config
  IN /\ Live(b)
     /\ bookings[b].sequence = q.view.sequence
     /\ q.start >= now + config.notice
     /\ SlotOffered(q.start, config, now, ExistingBookings(Host(b), q.start, q.end, {b}))
     /\ ~BufferedCollision(Host(b), q.start, q.end, config, {b})

RescheduleLock(r) ==
  LET q == reqs[r]
  IN /\ q.pc = "reading"
     /\ ~RowLocked(q.booking)
     /\ MayReschedule(q)
     /\ Become(r, [q EXCEPT !.pc = "locked", !.now = now,
                            !.config = eventTypes[bookings[q.booking].eventType].config])
     /\ UNCHANGED <<tables, eventTypes, integration, now>>

\* Mutant of MovedRow: a cancelled booking is moved but stays cancelled.
MovedRowNotReactivated(row, q) ==
  [row EXCEPT !.start = q.start, !.end = q.end, !.sequence = row.sequence + 1,
              !.rescheduleCount = row.rescheduleCount + 1,
              !.prevStart = row.start, !.prevEnd = row.end]

MovedRow(row, q) ==
  [row EXCEPT !.start = q.start, !.end = q.end, !.status = "CONFIRMED",
              !.cancelledBy = "nobody", !.sequence = row.sequence + 1,
              !.rescheduleCount = row.rescheduleCount + 1,
              !.prevStart = row.start, !.prevEnd = row.end]

\* Mutant of HistoryRow: written after the update, from the times just set.
HistoryRowAfterUpdate(b, row, q) ==
  [booking |-> b, sequence |-> row.sequence + 1, prevStart |-> q.start,
   prevEnd |-> q.end, newStart |-> q.start, newEnd |-> q.end]

HistoryRow(b, row, q) ==
  [booking |-> b, sequence |-> row.sequence + 1, prevStart |-> row.start,
   prevEnd |-> row.end, newStart |-> q.start, newEnd |-> q.end]

\* The writes, the outbox rows and the commit, which releases the lock.  A
\* CANCELLED booking becomes CONFIRMED again.
RescheduleCommit(r) ==
  LET q == reqs[r]
      b == q.booking
      row == MovedRow(bookings[b], q)
  IN /\ q.pc = "locked"
     /\ ExclusionHolds(b, Host(b), q.start, q.end)
     /\ ~RemindersLocked(b)
     /\ history' = history \cup {HistoryRow(b, bookings[b], q)}
     /\ bookings' = [bookings EXCEPT ![b] = row]
     /\ jobs' = EnqueueReminderJobs(
                  EnqueueRescheduleJobs(CancelPendingReminderJobs(jobs, b), b, row),
                  b, row, q.now)
     /\ syncJobs' = syncJobs \cup NewSyncJobs(b, row.sequence, q.integration)
     /\ Become(r, Idle)
     /\ UNCHANGED <<eventTypes, integration, now>>

-----------------------------------------------------------------------------
(* cancelBooking *)

\* Everything a cancellation checks, it checks under the row lock ...
CancelLock(r, actor) ==
  LET b == reqs[r].booking
  IN /\ reqs[r].pc = "page"
     /\ ~RowLocked(b)
     /\ Confirmed(b)
     /\ bookings[b].sequence = reqs[r].view.sequence
     /\ bookings[b].sequence < MaxSequence
     /\ Become(r, [pc |-> "cancelling", booking |-> b, view |-> reqs[r].view, actor |-> actor])
     /\ UNCHANGED <<tables, eventTypes, integration, now>>

CancelledRow(row, actor) ==
  [row EXCEPT !.status = "CANCELLED", !.cancelledBy = actor, !.sequence = row.sequence + 1]

\* ... and holds while its updateMany waits for the reminder rows.
CancelCommit(r) ==
  LET b == reqs[r].booking
      row == CancelledRow(bookings[b], reqs[r].actor)
  IN /\ reqs[r].pc = "cancelling"
     /\ ~RemindersLocked(b)
     /\ bookings' = [bookings EXCEPT ![b] = row]
     /\ jobs' = EnqueueCancellationJobs(CancelPendingReminderJobs(jobs, b), b, row)
     /\ syncJobs' = syncJobs \cup NewSyncJobs(b, row.sequence, integration[Host(b)])
     /\ Become(r, Idle)
     /\ UNCHANGED <<history, eventTypes, integration, now>>

\* The client leaves the page, or its cancellation changes nothing: the
\* booking is gone, already cancelled, or has another sequence by now.
LeavePage(r) ==
  /\ reqs[r].pc = "page"
  /\ Become(r, Idle)
  /\ UNCHANGED <<tables, eventTypes, integration, now>>

-----------------------------------------------------------------------------
(* deleteByHost *)

\* The status is read before the transaction, without a lock ...
DeleteRead(r, b) ==
  /\ reqs[r].pc = "idle"
  /\ bookings[b].status = "CANCELLED"
  /\ Become(r, [pc |-> "deletable", booking |-> b, upTo |-> 0])
  /\ UNCHANGED <<tables, eventTypes, integration, now>>

\* ... and not again inside it.  The child rows committed by now are removed;
\* they all belong to sequences up to the current one.  Nobody else sees it.
DeleteChildren(r) ==
  LET q == reqs[r]
  IN /\ q.pc = "deletable"
     /\ Become(r, [q EXCEPT !.pc = "emptied", !.upTo = bookings[q.booking].sequence])
     /\ UNCHANGED <<tables, eventTypes, integration, now>>

\* What the deleteMany statements have left of a child table.
Emptied(q, rows) == {x \in rows : ~(x.booking = q.booking /\ x.sequence <= q.upTo)}

\* Mutant of NoOtherChildren: foreign keys that do not restrict deletion.
ForeignKeysIgnored(q) == TRUE

\* The foreign keys of history and notification jobs, ON DELETE RESTRICT: no
\* row committed since the deleteMany statements refers to the booking.
NoOtherChildren(q) ==
  /\ \A h \in history : h.booking = q.booking => h.sequence <= q.upTo
  /\ \A job \in jobs : job.booking = q.booking => job.sequence <= q.upTo

\* The row itself waits for its lock; the sync jobs go with it (CASCADE).
DeleteRow(r) ==
  LET q == reqs[r]
      b == q.booking
  IN /\ q.pc = "emptied"
     /\ ~RowLocked(b)
     /\ Live(b)
     /\ NoOtherChildren(q)
     /\ bookings' = [bookings EXCEPT ![b] = [NoBooking EXCEPT !.status = "DELETED"]]
     /\ history' = Emptied(q, history)
     /\ jobs' = Emptied(q, jobs)
     /\ syncJobs' = {job \in syncJobs : job.booking # b}
     /\ Become(r, Idle)
     /\ UNCHANGED <<eventTypes, integration, now>>

-----------------------------------------------------------------------------
(* updateAttendeeEmail *)

\* One UPDATE statement; it neither counts as a change of the booking (the
\* sequence stays) nor touches the jobs already written.
UpdateAttendeeEmail(b, email) ==
  /\ Live(b)
  /\ ~RowLocked(b)
  /\ email # bookings[b].email
  /\ bookings' = [bookings EXCEPT ![b].email = email]
  /\ UNCHANGED <<history, jobs, syncJobs, eventTypes, integration, reqs, now>>

-----------------------------------------------------------------------------
(* The end of a request that changes nothing *)

\* Mutant of CannotDelete: the deletion tries again until nothing refers to
\* the row any more.
DeleteRetries(q) == FALSE

CannotDelete(q) == ~Live(q.booking) \/ ~NoOtherChildren(q)

\* A request whose next check fails answers with an error.
Fails(q) ==
  \/ q.pc = "asked" /\ ~OnOffer(q)
  \/ /\ q.pc = "validated"
     /\ BufferedCollision(HostOf[q.eventType], q.start, q.start + q.config.duration, q.config, {})
  \/ /\ q.pc = "checked"
     /\ Collision(HostOf[q.eventType], q.start, q.start + q.config.duration, {})
  \/ /\ q.pc = "reading"
     /\ ~RowLocked(q.booking)
     /\ ~MayReschedule(q)
  \/ /\ q.pc = "locked"
     /\ ~ExclusionHolds(q.booking, Host(q.booking), q.start, q.end)
  \/ /\ q.pc = "emptied"
     /\ ~RowLocked(q.booking)
     /\ CannotDelete(q)

Fail(r) ==
  /\ Fails(reqs[r])
  /\ Become(r, Idle)
  /\ UNCHANGED <<tables, eventTypes, integration, now>>

\* A reschedule or a cancellation that waits for the reminders of an open
\* delete, which waits for its row lock: PostgreSQL aborts one of the two.
Deadlocked(r) ==
  /\ reqs[r].pc \in {"locked", "cancelling", "emptied"}
  /\ RowLocked(reqs[r].booking)
  /\ RemindersLocked(reqs[r].booking)

DeadlockVictim(r) ==
  /\ Deadlocked(r)
  /\ Become(r, Idle)
  /\ UNCHANGED <<tables, eventTypes, integration, now>>

\* Google says busy or does not answer, the transaction times out, the
\* process crashes: at any point of a request before its commit.
Abort(r) ==
  /\ reqs[r].pc \notin {"idle", "page"}
  /\ Become(r, Idle)
  /\ UNCHANGED <<tables, eventTypes, integration, now>>

-----------------------------------------------------------------------------
(* The outbox worker *)

\* Reminders alone: of a notice nothing here asks for more than that it was
\* written.  What a worker reads, mails and counts is NotificationOutbox's.
WorkerStep(job, left) ==
  /\ job.kind \in Reminders
  /\ ~BeingDeleted(job)
  /\ jobs' = (jobs \ {job}) \cup {left}
  /\ UNCHANGED <<bookings, history, syncJobs, eventTypes, integration, reqs, now>>

ClaimReminder(job) ==
  /\ job.status = "PENDING"
  /\ job.runAt <= now
  /\ job.workers < Workers
  /\ WorkerStep(job, ClaimedJob(job))

RecoverReminder(job) ==
  /\ job.status = "PROCESSING"
  /\ WorkerStep(job, RecoveredJob(job))

FinishReminder(job) ==
  /\ job.workers > 0
  /\ \E left \in WorkerResults(job) : WorkerStep(job, left)

-----------------------------------------------------------------------------
(* What happens around the requests *)

\* The archived flag is looked at in a statement before the UPDATE, so it does
\* not keep an event type that is archived in between from being changed.
UpdateEventType(et, config) ==
  /\ config # eventTypes[et].config
  /\ eventTypes' = [eventTypes EXCEPT ![et].config = config]
  /\ UNCHANGED <<tables, integration, reqs, now>>

ArchiveEventType(et) ==
  /\ eventTypes' = [eventTypes EXCEPT ![et].archived = ~eventTypes[et].archived]
  /\ UNCHANGED <<tables, integration, reqs, now>>

\* The host connects, disconnects, or selects another calendar.
ChangeIntegration(h, i) ==
  /\ i # integration[h]
  /\ integration' = [integration EXCEPT ![h] = i]
  /\ UNCHANGED <<tables, eventTypes, reqs, now>>

Tick ==
  /\ now < MaxNow
  /\ now' = now + 1
  /\ UNCHANGED <<tables, eventTypes, integration, reqs>>

-----------------------------------------------------------------------------

\* The steps a request takes once the server works on it.
Serve(r) ==
  \/ CreateOffer(r)
  \/ CreateValidate(r)
  \/ CreateCollisionCheck(r)
  \/ \E b \in BookingIds : CreateCommit(r, b)
  \/ RescheduleLock(r)
  \/ RescheduleCommit(r)
  \/ CancelCommit(r)
  \/ DeleteChildren(r)
  \/ DeleteRow(r)
  \/ Fail(r)
  \/ DeadlockVictim(r)

\* The steps that begin a request, and those that end it early.
Client(r) ==
  \/ \E et \in EventTypes, start \in Starts, email \in Emails : CreateAsk(r, et, start, email)
  \/ \E b \in BookingIds : LoadPage(r, b)
  \/ \E start \in Starts : RescheduleRead(r, start)
  \/ \E actor \in Actors : CancelLock(r, actor)
  \/ LeavePage(r)
  \/ \E b \in BookingIds : DeleteRead(r, b)
  \/ Abort(r)

Worker ==
  \E job \in jobs : ClaimReminder(job) \/ RecoverReminder(job) \/ FinishReminder(job)

Environment ==
  \/ Worker
  \/ \E b \in BookingIds, email \in Emails : UpdateAttendeeEmail(b, email)
  \/ \E et \in EventTypes, config \in Configs : UpdateEventType(et, config)
  \/ \E et \in EventTypes : ArchiveEventType(et)
  \/ \E h \in Hosts, i \in Integrations : ChangeIntegration(h, i)
  \/ Tick

Next ==
  \/ \E r \in Requests : Serve(r) \/ Client(r)
  \/ Environment

Spec == Init /\ [][Next]_vars

\* The server finishes what it has begun.  Fairness is strong because a request
\* that waits for a row lock must get its turn although others take the lock
\* between its attempts: PostgreSQL grants a row lock in the order of its queue.
FairSpec == Spec /\ \A r \in Requests : SF_vars(Serve(r))

-----------------------------------------------------------------------------
(* Invariants *)

HistoryOf(b) == {h \in history : h.booking = b}
JobsOf(b) == {job \in jobs : job.booking = b}

\* Every variable has its type.
TypeOK ==
  /\ bookings \in [BookingIds -> Row]
  /\ history \subseteq Move
  /\ jobs \subseteq Job
  /\ \A job \in syncJobs :
       job.booking \in BookingIds /\ job.sequence \in Nat /\ job.status = "PENDING"
  /\ eventTypes \in [EventTypes -> [config : Configs, archived : BOOLEAN]]
  /\ integration \in [Hosts -> Integrations]
  /\ reqs \in [Requests -> Request]
  /\ now \in Nat

\* No two confirmed bookings of one host overlap, whatever the interleaving
\* of the requests that placed them: the collision check of createBooking and
\* rescheduleBooking alone cannot promise it, the exclusion constraint does.
NoDoubleBooking ==
  \A a, b \in BookingIds :
    a # b /\ Confirmed(a) /\ Confirmed(b) /\ Host(a) = Host(b)
      => ~Overlap(bookings[a].start, bookings[a].end, bookings[b].start, bookings[b].end)

\* The reschedule history of a booking is the chain of its moves: one row per
\* counted reschedule, each starting from the times the one before led to,
\* the last one from the previous times in the booking row to its present ones.
HistoryChain ==
  \A b \in BookingIds : Live(b) =>
    LET H == HistoryOf(b)
        Follows(g, h) == g.sequence < h.sequence
                           /\ ~\E m \in H : g.sequence < m.sequence /\ m.sequence < h.sequence
    IN /\ Cardinality(H) = bookings[b].rescheduleCount
       /\ \A g, h \in H : g.sequence = h.sequence => g = h
       /\ \A g, h \in H : Follows(g, h) => <<g.newStart, g.newEnd>> = <<h.prevStart, h.prevEnd>>
       /\ \A h \in H : (\A g \in H : g.sequence <= h.sequence) =>
            /\ <<h.newStart, h.newEnd>> = <<bookings[b].start, bookings[b].end>>
            /\ <<h.prevStart, h.prevEnd>> = <<bookings[b].prevStart, bookings[b].prevEnd>>
            /\ h.sequence <= bookings[b].sequence

\* The times booking b had after its change number n, told by its history.
TimesAt(b, n) ==
  LET H == HistoryOf(b)
      past == {h \in H : h.sequence <= n}
  IN IF past # {}
     THEN LET h == CHOOSE x \in past : \A y \in past : y.sequence <= x.sequence
          IN <<h.newStart, h.newEnd>>
     ELSE IF H # {}
     THEN LET h == CHOOSE x \in H : \A y \in H : x.sequence <= y.sequence
          IN <<h.prevStart, h.prevEnd>>
     ELSE <<bookings[b].start, bookings[b].end>>

\* Every change of a booking has its notices in the outbox, exactly one kind
\* of them and for the right parties, and each tells the times the booking
\* had after that change: none is lost to a colliding idempotency key, none
\* is left over from a transaction that did not commit.
NoticePerChange ==
  \A b \in BookingIds : Live(b) =>
    /\ \A job \in JobsOf(b) :
         /\ job.sequence <= bookings[b].sequence
         /\ <<job.start, job.end>> = TimesAt(b, job.sequence)
    /\ \A n \in 0 .. bookings[b].sequence :
         LET notices == {<<job.kind, job.to>> : job \in {j \in JobsOf(b) :
                            j.sequence = n /\ j.kind \notin Reminders}}
             moved == \E h \in HistoryOf(b) : h.sequence = n
         IN IF n = 0 THEN notices = {"confirmed"} \X {"attendee", "host"}
            ELSE IF moved THEN notices = {"rescheduled"} \X {"attendee", "host"}
            ELSE \E to \in {"attendee", "host"} : notices = {<<"cancelled", to>>}
    /\ ~Confirmed(b) =>
         \E job \in JobsOf(b) : /\ job.sequence = bookings[b].sequence
                                /\ job.to = Notified(bookings[b].cancelledBy)

\* The waiting reminders that no worker has handed back are those of the
\* present: such a reminder is for a confirmed booking, tells its present times
\* and is due ahead of them by its lead; and no reminder whose time is still to
\* come is missing, or in the hands of a worker.  (One that was claimed before
\* its booking was moved may wait again, for the former times.)
RemindersCurrent ==
  \A b \in BookingIds :
    /\ \A job \in jobs : PendingReminder(job, b) /\ ~job.failed =>
         /\ Confirmed(b)
         /\ <<job.start, job.end>> = <<bookings[b].start, bookings[b].end>>
         /\ job.runAt = bookings[b].start - Lead(job.kind)
    /\ \A kind \in Reminders :
         Confirmed(b) /\ bookings[b].start - Lead(kind) > now =>
           \E job \in jobs : /\ PendingReminder(job, b)
                             /\ job.kind = kind
                             /\ ~job.failed /\ job.workers = 0

\* A deleted booking leaves no row behind in any table that refers to it, also
\* when another request adds rows while the deletion is under way.
ChildrenHaveParent ==
  \A b \in BookingIds : ~Live(b) =>
    /\ HistoryOf(b) = {}
    /\ JobsOf(b) = {}
    /\ \A job \in syncJobs : job.booking # b

-----------------------------------------------------------------------------
(* Action properties *)

\* The step places booking b: creates it, moves it or makes it confirmed.
Placed(b) ==
  /\ bookings'[b].status = "CONFIRMED"
  /\ \/ bookings[b].status # "CONFIRMED"
     \/ bookings[b].sequence # bookings'[b].sequence

\* A change of a booking is made by a request whose client was looking at the
\* booking as it is at that moment, status, times and sequence: no update is
\* lost, and nobody cancels or moves a meeting they had not seen.
SeenIsCurrent ==
  [][\A b \in BookingIds : Live(b) /\ Live(b)' /\ ViewOf(b)' # ViewOf(b) =>
       \E r \in Requests : /\ reqs[r].pc \in {"cancelling", "locked"}
                           /\ reqs'[r].pc = "idle"
                           /\ reqs[r].booking = b
                           /\ reqs[r].view = ViewOf(b)]_vars

\* "Only cancelled bookings can be deleted from history."
OnlyCancelledDeleted ==
  [][\A b \in BookingIds : Confirmed(b) => bookings'[b].status # "DELETED"]_vars

\* The collision check "including custom buffer minutes": no booking is placed
\* within the buffers, as its request knows them, around another one.
PlacedOutsideBuffers ==
  [][\A b \in BookingIds, r \in Requests :
       Placed(b) /\ reqs[r].pc \in {"checked", "locked"} /\ reqs'[r].pc = "idle" =>
         \A a \in BookingIds \ {b} :
           Confirmed(a) /\ Host(a) = HostOf[bookings'[b].eventType] =>
             ~Overlap(bookings[a].start, bookings[a].end,
                      bookings'[b].start - reqs[r].config.before,
                      bookings'[b].end + reqs[r].config.after)]_vars

\* A booking is placed inside the host's working hours.
PlacedInsideWindow ==
  [][\A b \in BookingIds : Placed(b) =>
       \E w \in Windows : w.open <= bookings'[b].start /\ bookings'[b].end <= w.close]_vars

-----------------------------------------------------------------------------
(* Liveness and refinement *)

\* A request the server has begun comes to an end: no wait for a row lock,
\* for the rows of an open delete or for both is forever.
EveryRequestEnds ==
  \A r \in Requests : reqs[r].pc \notin {"idle", "page"} ~> reqs[r].pc \in {"idle", "page"}

Ledger == INSTANCE BookingLedger WITH
  Ids <- BookingIds,
  ledger <- [b \in BookingIds |->
               [status |-> bookings[b].status, host |-> HostOf[bookings[b].eventType],
                start |-> bookings[b].start, end |-> bookings[b].end,
                sequence |-> bookings[b].sequence]]

\* To its users the service is the atomic ledger of BookingLedger.
ImplementsLedger == Ledger!Spec
=============================================================================
