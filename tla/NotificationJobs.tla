-------------------------- MODULE NotificationJobs --------------------------
(***************************************************************************)
(* The transactional outbox as its writers see it                          *)
(* (notifications/notifications.service.ts): every operator takes the set  *)
(* of rows of notification_jobs and a booking row, and yields the rows     *)
(* after the call.  All of them run inside the booking's transaction.  At  *)
(* the end, what the worker that shares the table does to one row.         *)
(***************************************************************************)
EXTENDS Integers

CONSTANTS
  Lead24h, Lead1h   \* how long before the start each reminder is due

ASSUME LeadAssumption == Lead24h \in Nat /\ Lead1h \in Nat

\* Jobs without a nextRunAt of their own are due when they are written.
AtOnce == -1

Reminders == {"reminder24h", "reminder1h"}
Kinds == {"confirmed", "rescheduled", "cancelled"} \cup Reminders

\* The statuses a job can have; FAILED exists in the schema but is never set.
JobStatuses == {"PENDING", "PROCESSING", "SENT", "CANCELLED", "DEAD_LETTER"}

Lead(kind) == IF kind = "reminder24h" THEN Lead24h ELSE Lead1h

\* A new row: the snapshot of the booking (its times and sequence are the
\* part of the payload anything depends on), for one of the two parties.
\* failed: last_error is set; workers: how many workers are at the row, which
\* is not in the table.
NewJob(b, row, kind, to, runAt) ==
  [booking |-> b, kind |-> kind, to |-> to, sequence |-> row.sequence,
   recipient |-> IF to = "attendee" THEN row.email ELSE "host",
   start |-> row.start, end |-> row.end,
   runAt |-> runAt, status |-> "PENDING", failed |-> FALSE, workers |-> 0]

\* Mutant of Key: one key for all the changes of a booking.
KeyWithoutSequence(job) == <<job.booking, job.kind, job.to>>

\* idempotencyKey, a unique column
Key(job) == <<job.booking, job.kind, job.sequence, job.to>>

\* upsert with `update: {}`: a row with the same key stays as it is.
UpsertJobs(jobs, new) ==
  jobs \cup {n \in new : \A job \in jobs : Key(job) # Key(n)}

EnqueueConfirmationJobs(jobs, b, row) ==
  UpsertJobs(jobs, {NewJob(b, row, "confirmed", to, AtOnce) : to \in {"attendee", "host"}})

EnqueueRescheduleJobs(jobs, b, row) ==
  UpsertJobs(jobs, {NewJob(b, row, "rescheduled", to, AtOnce) : to \in {"attendee", "host"}})

\* Mutant of Notified: the party that cancelled, under its name as an actor.
NotifiedActor(cancelledBy) == cancelledBy

\* The party that did not cancel is told.
Notified(cancelledBy) == IF cancelledBy = "HOST" THEN "attendee" ELSE "host"

EnqueueCancellationJobs(jobs, b, row) ==
  UpsertJobs(jobs, {NewJob(b, row, "cancelled", Notified(row.cancelledBy), AtOnce)})

\* A reminder is written only while its time is still ahead of `now`.
EnqueueReminderJobs(jobs, b, row, now) ==
  IF row.status # "CONFIRMED"
  THEN jobs
  ELSE UpsertJobs(jobs, {NewJob(b, row, kind, "attendee", row.start - Lead(kind)) :
                           kind \in {k \in Reminders : row.start - Lead(k) > now}})

\* Only PENDING rows are withdrawn: a reminder a worker holds is out of reach
\* and may be PENDING again afterwards.
PendingReminder(job, b) ==
  job.booking = b /\ job.status = "PENDING" /\ job.kind \in Reminders

\* Mutant of CancelPendingReminderJobs: the call is forgotten.
KeepReminderJobs(jobs, b) == jobs

CancelPendingReminderJobs(jobs, b) ==
  {job \in jobs : ~PendingReminder(job, b)}
    \cup {[job EXCEPT !.status = "CANCELLED", !.failed = TRUE] :
            job \in {j \in jobs : PendingReminder(j, b)}}

(* What the worker does to a row (notifications/notifications.processor.ts) *)

\* claimPendingJobs
ClaimedJob(job) == [job EXCEPT !.status = "PROCESSING", !.workers = job.workers + 1]

\* recoverStaleJobs: whoever had claimed the row may still be at work.
RecoveredJob(job) == [job EXCEPT !.status = "PENDING", !.failed = TRUE]

\* What a worker may leave of its row, found by its id whatever its status is
\* by then: nothing, when the process stops; SENT; CANCELLED, when it saw the
\* booking cancelled; DEAD_LETTER, after the last attempt; PENDING again, due
\* within a minute, which is less than a tick.
WorkerResults(job) ==
  LET left == [job EXCEPT !.workers = job.workers - 1]
  IN {left, [left EXCEPT !.status = "SENT", !.failed = FALSE]}
     \cup {[left EXCEPT !.status = status, !.failed = TRUE] :
             status \in {"PENDING", "CANCELLED", "DEAD_LETTER"}}
=============================================================================
