-------------------------- MODULE NotificationOutbox --------------------------
(***************************************************************************)
(* The worker side of the outbox (notifications/notifications.processor.ts)*)
(* over the table its writers share with it: several API processes sweep   *)
(* the table for due jobs, mail them and record the result, while bookings *)
(* are made, moved, cancelled and deleted.                                 *)
(*                                                                         *)
(* The booking service is the atomic ledger it was shown to implement      *)
(* (BookingLedger): a change of a booking and its rows in the outbox are   *)
(* one step.  Time is not counted: a row becomes due, and a lock gets      *)
(* older than five minutes, in steps of their own.                         *)
(***************************************************************************)
EXTENDS Integers, FiniteSets

CONSTANTS
  Jobs,          \* the rows notification_jobs may come to hold
  Reminders,     \* those of the types BOOKING_REMINDER_24H and _1H
  BookingIds,
  BookingOf,     \* BookingOf[j]: the booking of job j
  Workers,       \* the API processes, each with its sweep timer
  Limit,         \* how many jobs a sweep claims
  MaxAttempts,   \* the default of the max_attempts column
  MaxChanges,    \* bound: how often a booking is moved or cancelled
  MaxFaults      \* bound: how often a process crashes or loses its database,
                 \* or a live worker outlasts the lock of a job

ASSUME SetsAssumption == Jobs # {} /\ IsFiniteSet(Workers)
ASSUME RemindersAssumption == Reminders \subseteq Jobs
ASSUME BookingOfAssumption == BookingOf \in [Jobs -> BookingIds]
ASSUME LimitAssumption == Limit \in Nat \ {0}
ASSUME MaxAttemptsAssumption == MaxAttempts \in Nat \ {0}
ASSUME BoundsAssumption == MaxChanges \in Nat /\ MaxFaults \in Nat

VARIABLES
  rows,       \* notification_jobs
  booking,    \* what the bookings table says of each booking
  workers,    \* the sweep each process is in
  mails,      \* mails[j]: how often the mail of j was accepted for delivery
  failures,   \* failures[j]: how often the delivery of j was found to have failed
  recoveries, \* recoveries[j]: how often the lock of j was found stale
  faults      \* how often a process stopped or a live worker was too slow

log == <<mails, failures, recoveries>>
vars == <<rows, booking, workers, mails, failures, recoveries, faults>>

-----------------------------------------------------------------------------
(* Rows, bookings and workers *)

\* NONE: not written yet.  DELETED: removed with its booking.
Waiting == {"PENDING", "PROCESSING"}
Settled == {"SENT", "CANCELLED", "DEAD_LETTER"}
RowStatuses == {"NONE", "DELETED"} \cup Waiting \cup Settled

\* due: next_run_at has passed; stale: locked_at is more than five minutes
\* ago; sequence: that of the booking when a reminder was written.
Row == [status : RowStatuses, attempts : 0 .. MaxAttempts, due : BOOLEAN,
        stale : BOOLEAN, sequence : Nat]

BookingRow == [status : {"NONE", "CONFIRMED", "CANCELLED", "DELETED"}, sequence : Nat]

Present(j) == rows[j].status \notin {"NONE", "DELETED"}
JobsOf(b) == {j \in Jobs : BookingOf[j] = b}

\* A sweep: the jobs it has claimed and not come to, with the attempts it read
\* when it claimed them, and the one it is at.  Before the first job and
\* between two jobs the step is "next" and the job is not looked at.
Steps == {"idle", "recovered", "next", "sending", "skipping", "sent", "failed"}
Worker == [step : Steps, batch : SUBSET Jobs, read : [Jobs -> 0 .. MaxAttempts], job : Jobs]

AtJob == {"sending", "skipping", "sent", "failed"}
At(w, j) == workers[w].step \in AtJob /\ workers[w].job = j
Holds(w, j) == j \in workers[w].batch \/ At(w, j)

EmptyRow == [status |-> "NONE", attempts |-> 0, due |-> FALSE, stale |-> FALSE, sequence |-> 0]
IdleWorker == [step |-> "idle", batch |-> {}, read |-> [j \in Jobs |-> 0],
               job |-> CHOOSE j \in Jobs : TRUE]

Init ==
  /\ rows = [j \in Jobs |-> EmptyRow]
  /\ booking = [b \in BookingIds |-> [status |-> "NONE", sequence |-> 0]]
  /\ workers = [w \in Workers |-> IdleWorker]
  /\ mails = [j \in Jobs |-> 0]
  /\ failures = [j \in Jobs |-> 0]
  /\ recoveries = [j \in Jobs |-> 0]
  /\ faults = 0

-----------------------------------------------------------------------------
(* A sweep begins: recoverStaleJobs and claimPendingJobs *)

\* Mutant of RecoveredRow: the attempt of the lost worker counts.
RecoveryCounts(row) ==
  [row EXCEPT !.status = "PENDING", !.stale = FALSE, !.attempts = row.attempts + 1]

\* The attempt the lost worker made is not counted.
RecoveredRow(row) == [row EXCEPT !.status = "PENDING", !.stale = FALSE]

\* Mutant of StaleJobs: recovery looks for locks that are stale but not taken.
StalePending == {j \in Jobs : rows[j].status = "PENDING" /\ rows[j].stale}

StaleJobs == {j \in Jobs : rows[j].status = "PROCESSING" /\ rows[j].stale}

\* isProcessing keeps one process from sweeping twice at a time.
Recover(w) ==
  /\ workers[w].step = "idle"
  /\ rows' = [j \in Jobs |-> IF j \in StaleJobs THEN RecoveredRow(rows[j]) ELSE rows[j]]
  /\ recoveries' = [j \in Jobs |-> IF j \in StaleJobs THEN recoveries[j] + 1 ELSE recoveries[j]]
  /\ workers' = [workers EXCEPT ![w].step = "recovered"]
  /\ UNCHANGED <<booking, mails, failures, faults>>

\* Mutant of ClaimedRow: a claim that does not take the row.
StillPending(row) == [row EXCEPT !.stale = FALSE]

Goto(w, step) == workers' = [workers EXCEPT ![w].step = step]
BecomeIdle(w) == workers' = [workers EXCEPT ![w] = IdleWorker]

\* On to the rest of the batch; the sweep ends with its last job.
Continue(w, batch, read) ==
  IF batch = {} THEN BecomeIdle(w)
  ELSE workers' = [workers EXCEPT
         ![w] = [step |-> "next", batch |-> batch, read |-> read, job |-> IdleWorker.job]]

ClaimedRow(row) == [row EXCEPT !.status = "PROCESSING", !.stale = FALSE]

Claimable == {j \in Jobs : rows[j].status = "PENDING" /\ rows[j].due}

\* One statement, FOR UPDATE SKIP LOCKED: no other worker can claim the same
\* rows.  Which of too many due rows come first is left open.
Claim(w) ==
  /\ workers[w].step = "recovered"
  /\ \E batch \in SUBSET Claimable :
       /\ \/ Cardinality(batch) = Limit
          \/ batch = Claimable /\ Cardinality(batch) <= Limit
       /\ rows' = [j \in Jobs |-> IF j \in batch THEN ClaimedRow(rows[j]) ELSE rows[j]]
       /\ Continue(w, batch, [j \in Jobs |-> IF j \in batch THEN rows[j].attempts ELSE 0])
  /\ UNCHANGED <<booking, log, faults>>

-----------------------------------------------------------------------------
(* deliverJob and handleJobFailure *)

\* The next job of the batch; for a reminder, whether its booking is (still)
\* confirmed.  The mail itself is made of the snapshot in the row.
Begin(w, j) ==
  /\ workers[w].step = "next"
  /\ j \in workers[w].batch
  /\ workers' = [workers EXCEPT
       ![w].batch = workers[w].batch \ {j},
       ![w].job = j,
       ![w].step = IF j \in Reminders /\ booking[BookingOf[j]].status # "CONFIRMED"
                   THEN "skipping" ELSE "sending"]
  /\ UNCHANGED <<rows, booking, log, faults>>

Mail(w) ==
  LET j == workers[w].job
  IN /\ workers[w].step = "sending"
     /\ mails' = [mails EXCEPT ![j] = @ + 1]
     /\ Goto(w, "sent")
     /\ UNCHANGED <<rows, booking, failures, recoveries, faults>>

\* Mutant of AfterFailure: the error of the provider is swallowed.
FailureSwallowed == "sent"

AfterFailure == "failed"

\* The mail is refused, or it is accepted and then the answer of the provider
\* or the update to SENT is lost; or the pre-check or the update to CANCELLED
\* fails.
DeliverFails(w) ==
  LET j == workers[w].job
  IN /\ workers[w].step \in {"sending", "skipping"}
     /\ \E accepted \in {0, 1} :
          /\ workers[w].step = "skipping" => accepted = 0
          /\ mails' = [mails EXCEPT ![j] = @ + accepted]
     /\ Goto(w, AfterFailure)
     /\ UNCHANGED <<rows, booking, failures, recoveries, faults>>

\* Every result is written by id alone, whatever the row says by now.  If the
\* row is gone, the update throws; so does the one of handleJobFailure, which
\* nobody catches: the rest of the batch is abandoned.
Record(w, row) ==
  LET j == workers[w].job
  IN IF Present(j)
     THEN /\ rows' = [rows EXCEPT ![j] = row]
          /\ Continue(w, workers[w].batch, [workers[w].read EXCEPT ![j] = 0])
     ELSE UNCHANGED rows /\ BecomeIdle(w)

Skip(w) ==
  LET j == workers[w].job
  IN /\ workers[w].step = "skipping"
     /\ Record(w, [rows[j] EXCEPT !.status = "CANCELLED", !.stale = FALSE])
     /\ UNCHANGED <<booking, log, faults>>

MarkSent(w) ==
  LET j == workers[w].job
  IN /\ workers[w].step = "sent"
     /\ Record(w, [rows[j] EXCEPT !.status = "SENT", !.stale = FALSE])
     /\ UNCHANGED <<booking, log, faults>>

\* Mutant of Exhausted: off by one.
ExhaustedLater(attempts) == attempts > MaxAttempts

Exhausted(attempts) == attempts >= MaxAttempts

\* attempts counts on from the row as it was when it was claimed; a row that is
\* given up gets back its next_run_at, which was due then.
FailedRow(row, read) ==
  [row EXCEPT !.status = IF Exhausted(read + 1) THEN "DEAD_LETTER" ELSE "PENDING",
              !.attempts = read + 1,
              !.due = Exhausted(read + 1),
              !.stale = FALSE]

MarkFailed(w) ==
  LET j == workers[w].job
  IN /\ workers[w].step = "failed"
     /\ Record(w, FailedRow(rows[j], workers[w].read[j]))
     /\ failures' = [failures EXCEPT ![j] = @ + 1]
     /\ UNCHANGED <<booking, mails, recoveries, faults>>

\* The process crashes, or loses its database, and starts again.
Stop(w) ==
  /\ workers[w].step # "idle"
  /\ faults < MaxFaults
  /\ faults' = faults + 1
  /\ BecomeIdle(w)
  /\ UNCHANGED <<rows, booking, log>>

Work(w) ==
  \/ Recover(w)
  \/ Claim(w)
  \/ \E j \in Jobs : Begin(w, j)
  \/ Mail(w)
  \/ DeliverFails(w)
  \/ Skip(w)
  \/ MarkSent(w)
  \/ MarkFailed(w)

-----------------------------------------------------------------------------
(* Time *)

BecomeDue(j) ==
  /\ rows[j].status = "PENDING" /\ ~rows[j].due
  /\ rows' = [rows EXCEPT ![j].due = TRUE]
  /\ UNCHANGED <<booking, workers, log, faults>>

\* Five minutes pass over a lock whose worker is gone ...
LockExpires(j) ==
  /\ rows[j].status = "PROCESSING" /\ ~rows[j].stale
  /\ \A w \in Workers : ~Holds(w, j)
  /\ rows' = [rows EXCEPT ![j].stale = TRUE]
  /\ UNCHANGED <<booking, workers, log, faults>>

TimePasses == \E j \in Jobs : BecomeDue(j) \/ LockExpires(j)

\* ... or is still busy: with this job, or with those before it in its batch.
WorkerStalls(j) ==
  /\ rows[j].status = "PROCESSING" /\ ~rows[j].stale
  /\ \E w \in Workers : Holds(w, j)
  /\ faults < MaxFaults
  /\ faults' = faults + 1
  /\ rows' = [rows EXCEPT ![j].stale = TRUE]
  /\ UNCHANGED <<booking, workers, log>>

-----------------------------------------------------------------------------
(* The booking service *)

NewRow(j, sequence) ==
  [status |-> "PENDING", attempts |-> 0, due |-> j \notin Reminders, stale |-> FALSE,
   sequence |-> IF j \in Reminders THEN sequence ELSE 0]

\* cancelPendingReminderJobsInTx: a reminder a worker holds is out of reach.
Withdrawn(row) == IF row.status = "PENDING" THEN [row EXCEPT !.status = "CANCELLED"] ELSE row

\* A booking gets a new status and sequence, its pending reminders are
\* withdrawn and the rows `new` are written, reminders only if it is confirmed.
Change(b, status, sequence, new) ==
  /\ \A j \in new : rows[j].status = "NONE"
  /\ status = "CONFIRMED" \/ new \cap Reminders = {}
  /\ booking' = [booking EXCEPT ![b] = [status |-> status, sequence |-> sequence]]
  /\ rows' = [j \in Jobs |->
       IF j \in new THEN NewRow(j, sequence)
       ELSE IF j \in JobsOf(b) \cap Reminders THEN Withdrawn(rows[j]) ELSE rows[j]]
  /\ UNCHANGED <<workers, log, faults>>

Book(b) ==
  /\ booking[b].status = "NONE"
  /\ \E new \in SUBSET JobsOf(b) : Change(b, "CONFIRMED", 0, new)

\* A reschedule confirms a cancelled booking again.
Reschedule(b) ==
  /\ booking[b].status \in {"CONFIRMED", "CANCELLED"}
  /\ booking[b].sequence < MaxChanges
  /\ \E new \in SUBSET JobsOf(b) : Change(b, "CONFIRMED", booking[b].sequence + 1, new)

Cancel(b) ==
  /\ booking[b].status = "CONFIRMED"
  /\ booking[b].sequence < MaxChanges
  /\ \E new \in SUBSET JobsOf(b) : Change(b, "CANCELLED", booking[b].sequence + 1, new)

\* deleteByHost looks for a cancelled booking, but may meet one confirmed again
\* since (Bookings, delete_race).  A row that was never written stays so.
DeleteBooking(b) ==
  /\ booking[b].status \in {"CONFIRMED", "CANCELLED"}
  /\ booking' = [booking EXCEPT ![b].status = "DELETED"]
  /\ rows' = [j \in Jobs |->
       IF j \in JobsOf(b) /\ Present(j) THEN [EmptyRow EXCEPT !.status = "DELETED"] ELSE rows[j]]
  /\ UNCHANGED <<workers, log, faults>>

-----------------------------------------------------------------------------

Next ==
  \/ \E w \in Workers : Work(w) \/ Stop(w)
  \/ TimePasses
  \/ \E j \in Jobs : WorkerStalls(j)
  \/ \E b \in BookingIds : Book(b) \/ Reschedule(b) \/ Cancel(b) \/ DeleteBooking(b)

Spec == Init /\ [][Next]_vars

\* The sweep timer goes off every three seconds and a sweep goes on until it
\* ends; time passes.  Nothing makes a booking change, a process stop or a
\* worker stall.
FairSpec ==
  /\ Spec
  /\ \A w \in Workers : WF_vars(Work(w))
  /\ WF_vars(TimePasses)

-----------------------------------------------------------------------------
(* Properties *)

\* Every variable has its type; no job counts more attempts than it may have.
TypeOK ==
  /\ rows \in [Jobs -> Row]
  /\ booking \in [BookingIds -> BookingRow]
  /\ workers \in [Workers -> Worker]
  /\ mails \in [Jobs -> Nat]
  /\ failures \in [Jobs -> Nat]
  /\ recoveries \in [Jobs -> Nat]
  /\ faults \in Nat

\* A job that says SENT was mailed, although a result may be written by a
\* worker that lost the job long ago and over the result of another.
SentWasMailed == \A j \in Jobs : rows[j].status = "SENT" => mails[j] > 0

\* A job is given up only after as many failures as it may have attempts: a
\* recovery, a lost claim or a worker that writes late never counts as one.
GivenUpAfterFailures ==
  \A j \in Jobs : /\ rows[j].attempts <= failures[j]
                  /\ rows[j].status = "DEAD_LETTER" => failures[j] >= MaxAttempts

\* A mail goes out once, and once more at most for each recorded failure and
\* each lock found stale: as long as nothing fails and no worker stops or
\* stalls, nobody is mailed twice, whatever the sweeps do at the same time.
NoNeedlessMail == \A j \in Jobs : mails[j] <= 1 + failures[j] + recoveries[j]

\* Every job that waits, or that a worker has lost or abandoned, is settled in
\* the end: sent, withdrawn, given up, or deleted with its booking.
EveryJobSettles ==
  \A j \in Jobs : rows[j].status \in Waiting ~> rows[j].status \in Settled \cup {"DELETED"}

\* "Old sequence 0 reminders should be CANCELLED": a reminder that passes the
\* check before it is mailed is one of the booking as it is at that moment, not
\* of a time the booking was moved away from while the job was claimed.
NoOutdatedReminder ==
  [][\A w \in Workers, j \in Reminders :
       Begin(w, j) /\ workers'[w].step = "sending" =>
         rows[j].sequence = booking[BookingOf[j]].sequence]_vars
=============================================================================
