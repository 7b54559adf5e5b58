---------------------------- MODULE CalendarSync ----------------------------
(***************************************************************************)
(* The calendar sync worker (integrations/services/                        *)
(* calendar-sync.processor.ts) between the outbox the booking transactions *)
(* write and the host's Google calendars: several API processes sweep the  *)
(* outbox, read the booking as it is by then, and make its event in Google *)
(* agree with it, while the booking is moved, cancelled, confirmed again   *)
(* and deleted, and the host connects, disconnects and selects calendars.  *)
(*                                                                         *)
(* Google is outside the repository and modelled from how                  *)
(* google-calendar.provider.ts uses it.  The booking service is the atomic *)
(* ledger it was shown to implement; of the integration's row, which is    *)
(* that of GoogleConnection, its status and calendar are kept.  Time is    *)
(* not counted: a row becomes due, and a lock stale, in steps of their     *)
(* own.                                                                    *)
(***************************************************************************)
EXTENDS Integers, FiniteSets

CONSTANTS
  BookingIds,    \* the bookings of one host
  Calendars,     \* the calendars of the host's Google account
  Workers,       \* the API processes, each with its sweep timer
  Limit,         \* how many jobs a sweep claims
  MaxAttempts,   \* the default of the max_attempts column
  MaxChanges,    \* bound: how often a booking is moved or cancelled
  MaxFaults,     \* bound: how often a process stops or outlasts the lock of a job
  MaxSwitches    \* bound: how often the integration changes

ASSUME SetsAssumption == BookingIds # {} /\ Calendars # {} /\ IsFiniteSet(Workers)
ASSUME LimitAssumption == Limit \in Nat \ {0}
ASSUME MaxAttemptsAssumption == MaxAttempts \in Nat \ {0}
ASSUME BoundsAssumption == MaxChanges \in Nat /\ MaxFaults \in Nat /\ MaxSwitches \in Nat

VARIABLES
  booking,      \* what the bookings table says of each booking
  rows,         \* calendar_sync_jobs: one row per booking and sequence
  mapping,      \* external_calendar_events: one row per booking, or none
  integration,  \* the host's calendar_integrations row
  events,       \* the events Google keeps, by calendar and booking
  workers,      \* the sweep each process is in
  failures,     \* failures[j]: how often job j was found to have failed
  revocations,  \* how often Google refused the grant of the integration
  crossed,      \* bookings two workers were at, at the same time
  faults, switches

log == <<failures, revocations>>
tables == <<booking, rows, mapping, integration>>
bounds == <<faults, switches>>
vars == <<tables, events, workers, log, crossed, bounds>>

-----------------------------------------------------------------------------
(* Rows *)

\* The unique key of the outbox is (booking, integration, sequence).
Sequences == 0 .. MaxChanges
Jobs == BookingIds \X Sequences
BookingOf(j) == j[1]
SequenceOf(j) == j[2]

\* The start and end of a booking are told apart by the change that set them.
BookingRow == [status : {"NONE", "CONFIRMED", "CANCELLED", "DELETED"},
               sequence : Sequences, time : Sequences]

Waiting == {"PENDING", "PROCESSING"}
Settled == {"COMPLETED", "DEAD_LETTER"}
Row == [status : {"NONE", "DELETED"} \cup Waiting \cup Settled, attempts : 0 .. MaxAttempts,
        due : BOOLEAN, stale : BOOLEAN, calendar : Calendars]

Mapping == [status : {"NONE", "SYNCED", "FAILED"}, sequence : Sequences, calendar : Calendars]

\* A deleted event keeps its id: Google refuses to insert it again.
Event == [state : {"absent", "present", "deleted"}, time : Sequences]

Integration == [status : {"CONNECTED", "DISCONNECTED", "REVOKED"}, calendar : Calendars]

\* A sweep is at a job from the read of its booking to the last write about it.
Looking == {"reading", "authorising", "calling", "conflict", "recording", "completing"}
Failing == {"refused", "failed", "flagging"}
AtJob == Looking \cup Failing
Worker == [step : {"idle", "recovered", "next"} \cup AtJob, batch : SUBSET Jobs,
           read : [Jobs -> 0 .. MaxAttempts], job : Jobs, view : BookingRow]

Present(j) == rows[j].status \notin {"NONE", "DELETED"}
At(w, j) == workers[w].step \in AtJob /\ workers[w].job = j
Holds(w, j) == j \in workers[w].batch \/ At(w, j)
AtBooking(w, b) == workers[w].step \in AtJob /\ BookingOf(workers[w].job) = b

AnyCalendar == CHOOSE c \in Calendars : TRUE
EmptyRow == [status |-> "NONE", attempts |-> 0, due |-> FALSE, stale |-> FALSE,
             calendar |-> AnyCalendar]
NoBooking == [status |-> "NONE", sequence |-> 0, time |-> 0]
NoMapping == [status |-> "NONE", sequence |-> 0, calendar |-> AnyCalendar]
NoJob == CHOOSE j \in Jobs : TRUE
IdleWorker == [step |-> "idle", batch |-> {}, read |-> [j \in Jobs |-> 0], job |-> NoJob,
               view |-> NoBooking]

Init ==
  /\ booking = [b \in BookingIds |-> NoBooking]
  /\ rows = [j \in Jobs |-> EmptyRow]
  /\ mapping = [b \in BookingIds |-> NoMapping]
  /\ integration = [status |-> "CONNECTED", calendar |-> AnyCalendar]
  /\ events = [c \in Calendars |-> [b \in BookingIds |-> [state |-> "absent", time |-> 0]]]
  /\ workers = [w \in Workers |-> IdleWorker]
  /\ failures = [j \in Jobs |-> 0]
  /\ revocations = 0
  /\ crossed = {}
  /\ faults = 0
  /\ switches = 0

-----------------------------------------------------------------------------
(* A sweep begins: recoverStaleJobs and claimPendingJobs *)

\* Mutant of RecoveredRow: the attempt of the lost worker counts.
RecoveryCounts(row) ==
  [row EXCEPT !.status = "PENDING", !.stale = FALSE, !.attempts = row.attempts + 1]

RecoveredRow(row) == [row EXCEPT !.status = "PENDING", !.stale = FALSE]

StaleJobs == {j \in Jobs : rows[j].status = "PROCESSING" /\ rows[j].stale}

Goto(w, step) == workers' = [workers EXCEPT ![w].step = step]
BecomeIdle(w) == workers' = [workers EXCEPT ![w] = IdleWorker]

Continue(w, batch, read) ==
  IF batch = {} THEN BecomeIdle(w)
  ELSE workers' = [workers EXCEPT
         ![w] = [step |-> "next", batch |-> batch, read |-> read, job |-> NoJob,
                 view |-> NoBooking]]

\* isProcessing keeps one process from sweeping twice at a time.
Recover(w) ==
  /\ workers[w].step = "idle"
  /\ rows' = [j \in Jobs |-> IF j \in StaleJobs THEN RecoveredRow(rows[j]) ELSE rows[j]]
  /\ Goto(w, "recovered")
  /\ UNCHANGED <<booking, mapping, integration, events, log, crossed, bounds>>

Claimable == {j \in Jobs : rows[j].status = "PENDING" /\ rows[j].due}
ClaimedRow(row) == [row EXCEPT !.status = "PROCESSING", !.stale = FALSE]

\* FOR UPDATE SKIP LOCKED: no two workers claim the same row.
Claim(w) ==
  /\ workers[w].step = "recovered"
  /\ \E batch \in SUBSET Claimable :
       /\ \/ Cardinality(batch) = Limit
          \/ batch = Claimable /\ Cardinality(batch) <= Limit
       /\ rows' = [j \in Jobs |-> IF j \in batch THEN ClaimedRow(rows[j]) ELSE rows[j]]
       /\ Continue(w, batch, [j \in Jobs |-> IF j \in batch THEN rows[j].attempts ELSE 0])
  /\ UNCHANGED <<booking, mapping, integration, events, log, crossed, bounds>>

-----------------------------------------------------------------------------
(* syncJob *)

\* Mutant of Outdated: the job of the present sequence is taken for old too.
OutdatedAtOnce(j) == SequenceOf(j) <= booking[BookingOf(j)].sequence

Outdated(j) == SequenceOf(j) < booking[BookingOf(j)].sequence

Gone(b) == booking[b].status \in {"NONE", "DELETED"}

\* The booking is read as it is now; it is what the event will be made of.
Begin(w, j) ==
  LET b == BookingOf(j)
  IN /\ workers[w].step = "next"
     /\ j \in workers[w].batch
     /\ workers' = [workers EXCEPT
          ![w].batch = workers[w].batch \ {j},
          ![w].job = j,
          ![w].view = booking[b],
          ![w].step = IF Gone(b) \/ Outdated(j) THEN "completing" ELSE "reading"]
     /\ crossed' = IF \E v \in Workers \ {w} : AtBooking(v, b) THEN crossed \cup {b} ELSE crossed
     /\ UNCHANGED <<tables, events, log, bounds>>

ReadIntegration(w) ==
  /\ workers[w].step = "reading"
  /\ Goto(w, IF integration.status = "CONNECTED" THEN "authorising" ELSE "completing")
  /\ UNCHANGED <<tables, events, log, crossed, bounds>>

\* getValidCredentials answers with the tokens of the row that was read ...
Authorise(w) ==
  /\ workers[w].step = "authorising"
  /\ Goto(w, "calling")
  /\ UNCHANGED <<tables, events, log, crossed, bounds>>

Revoke == integration' = [integration EXCEPT !.status = "REVOKED"]

\* ... or learns while refreshing them that the grant is gone.
GrantRefused(w) ==
  /\ workers[w].step = "authorising"
  /\ switches < MaxSwitches
  /\ switches' = switches + 1
  /\ Revoke
  /\ revocations' = revocations + 1
  /\ Goto(w, "refused")
  /\ UNCHANGED <<booking, rows, mapping, events, failures, crossed, faults>>

EventOf(w) == events[rows[workers[w].job].calendar][BookingOf(workers[w].job)]
SetEvent(w, event) ==
  events' = [events EXCEPT ![rows[workers[w].job].calendar][BookingOf(workers[w].job)] = event]
Removed(event) == IF event.state = "present" THEN [event EXCEPT !.state = "deleted"] ELSE event

\* deleteEvent: an event Google no longer knows counts as deleted.
DeleteEvent(w) ==
  /\ workers[w].step = "calling"
  /\ workers[w].view.status = "CANCELLED"
  /\ SetEvent(w, Removed(EventOf(w)))
  /\ Goto(w, "recording")
  /\ UNCHANGED <<tables, log, crossed, bounds>>

\* syncEvent inserts first; an id that is known, even as deleted, is a 409.
InsertEvent(w) ==
  /\ workers[w].step = "calling"
  /\ workers[w].view.status = "CONFIRMED"
  /\ \/ /\ EventOf(w).state = "absent"
        /\ SetEvent(w, [state |-> "present", time |-> workers[w].view.time])
        /\ Goto(w, "recording")
     \/ /\ EventOf(w).state # "absent"
        /\ Goto(w, "conflict")
        /\ UNCHANGED events
  /\ UNCHANGED <<tables, log, crossed, bounds>>

\* Mutant of Patched: the event that is there is taken for the right one.
NotPatched(event, time) == event

\* The patch names the start and end but no status: it revives no deleted event.
Patched(event, time) == [event EXCEPT !.time = time]

PatchEvent(w) ==
  /\ workers[w].step = "conflict"
  /\ SetEvent(w, Patched(EventOf(w), workers[w].view.time))
  /\ Goto(w, "recording")
  /\ UNCHANGED <<tables, log, crossed, bounds>>

\* A statement fails, or a call does: before it had an effect in Google, or
\* after it had one and only the answer is lost.
SyncFails(w) ==
  /\ workers[w].step \in Looking
  /\ \/ UNCHANGED events
     \/ /\ workers[w].step = "calling" /\ workers[w].view.status = "CANCELLED"
        /\ SetEvent(w, Removed(EventOf(w)))
     \/ /\ workers[w].step = "calling" /\ workers[w].view.status = "CONFIRMED"
        /\ EventOf(w).state = "absent"
        /\ SetEvent(w, [state |-> "present", time |-> workers[w].view.time])
     \/ /\ workers[w].step = "conflict"
        /\ SetEvent(w, Patched(EventOf(w), workers[w].view.time))
  /\ Goto(w, "failed")
  /\ UNCHANGED <<tables, log, crossed, bounds>>

\* The upsert of a confirmed booking names the calendar of the job, the update
\* of a cancelled one changes a row that is there and leaves its calendar.
RecordMapping(w) ==
  LET j == workers[w].job
      b == BookingOf(j)
  IN /\ workers[w].step = "recording"
     /\ \/ /\ workers[w].view.status = "CONFIRMED" /\ ~Gone(b)
           /\ mapping' = [mapping EXCEPT ![b] =
                [status |-> "SYNCED", sequence |-> SequenceOf(j), calendar |-> rows[j].calendar]]
        \/ /\ workers[w].view.status = "CANCELLED" /\ mapping[b].status # "NONE"
           /\ mapping' = [mapping EXCEPT ![b].status = "SYNCED", ![b].sequence = SequenceOf(j)]
        \/ /\ workers[w].view.status = "CANCELLED" /\ mapping[b].status = "NONE"
           /\ UNCHANGED mapping
     /\ Goto(w, "completing")
     /\ UNCHANGED <<booking, rows, integration, events, log, crossed, bounds>>

-----------------------------------------------------------------------------
(* markJobCompleted and handleJobFailure *)

\* By id alone.  If the row is gone with its booking the update throws, and so
\* does the one of handleJobFailure: the rest of the batch is abandoned.
CompletedRow(row) == [row EXCEPT !.status = "COMPLETED", !.stale = FALSE]

Complete(w) ==
  LET j == workers[w].job
  IN /\ workers[w].step = "completing"
     /\ IF Present(j)
        THEN /\ rows' = [rows EXCEPT ![j] = CompletedRow(@)]
             /\ Continue(w, workers[w].batch, [workers[w].read EXCEPT ![j] = 0])
        ELSE UNCHANGED rows /\ BecomeIdle(w)
     /\ UNCHANGED <<booking, mapping, integration, events, log, crossed, bounds>>

\* The second write of the revocation: the one of handleJobFailure.
RevokeAgain(w) ==
  /\ workers[w].step = "refused"
  /\ Revoke
  /\ LET j == workers[w].job
     IN IF Present(j)
        THEN /\ rows' = [rows EXCEPT ![j].status = "DEAD_LETTER", ![j].stale = FALSE,
                                     ![j].attempts = workers[w].read[j] + 1]
             /\ Goto(w, "flagging")
        ELSE UNCHANGED rows /\ BecomeIdle(w)
  /\ UNCHANGED <<booking, mapping, events, log, crossed, bounds>>

\* Mutant of Exhausted: off by one.
ExhaustedLater(attempts) == attempts > MaxAttempts

Exhausted(attempts) == attempts >= MaxAttempts

FailedRow(row, read) ==
  [row EXCEPT !.status = IF Exhausted(read + 1) THEN "DEAD_LETTER" ELSE "PENDING",
              !.attempts = read + 1, !.due = Exhausted(read + 1), !.stale = FALSE]

MarkFailed(w) ==
  LET j == workers[w].job
  IN /\ workers[w].step = "failed"
     /\ failures' = [failures EXCEPT ![j] = @ + 1]
     /\ IF Present(j)
        THEN /\ rows' = [rows EXCEPT ![j] = FailedRow(@, workers[w].read[j])]
             /\ Goto(w, "flagging")
        ELSE UNCHANGED rows /\ BecomeIdle(w)
     /\ UNCHANGED <<booking, mapping, integration, events, revocations, crossed, bounds>>

\* A mapping that is there is flagged, whoever wrote it.
FlagMapping(w) ==
  LET j == workers[w].job
      b == BookingOf(j)
  IN /\ workers[w].step = "flagging"
     /\ mapping' = IF mapping[b].status = "NONE" THEN mapping
                   ELSE [mapping EXCEPT ![b].status = "FAILED"]
     /\ Continue(w, workers[w].batch, [workers[w].read EXCEPT ![j] = 0])
     /\ UNCHANGED <<booking, rows, integration, events, log, crossed, bounds>>

\* The process crashes, or loses its database, and starts again.
Stop(w) ==
  /\ workers[w].step # "idle"
  /\ faults < MaxFaults
  /\ faults' = faults + 1
  /\ BecomeIdle(w)
  /\ UNCHANGED <<tables, events, log, crossed, switches>>

Work(w) ==
  \/ Recover(w) \/ Claim(w)
  \/ \E j \in Jobs : Begin(w, j)
  \/ ReadIntegration(w) \/ Authorise(w) \/ GrantRefused(w)
  \/ DeleteEvent(w) \/ InsertEvent(w) \/ PatchEvent(w) \/ RecordMapping(w)
  \/ Complete(w) \/ SyncFails(w) \/ RevokeAgain(w) \/ MarkFailed(w) \/ FlagMapping(w)

-----------------------------------------------------------------------------
(* Time, the host and the booking service *)

\* Five minutes pass over a lock whose worker is gone, or is still busy.
LockExpires(j) ==
  /\ rows[j].status = "PROCESSING" /\ ~rows[j].stale
  /\ \A w \in Workers : ~Holds(w, j)
  /\ rows' = [rows EXCEPT ![j].stale = TRUE]
  /\ UNCHANGED <<booking, mapping, integration, events, workers, log, crossed, bounds>>

BecomeDue(j) ==
  /\ rows[j].status = "PENDING" /\ ~rows[j].due
  /\ rows' = [rows EXCEPT ![j].due = TRUE]
  /\ UNCHANGED <<booking, mapping, integration, events, workers, log, crossed, bounds>>

TimePasses == \E j \in Jobs : BecomeDue(j) \/ LockExpires(j)

WorkerStalls(j) ==
  /\ rows[j].status = "PROCESSING" /\ ~rows[j].stale
  /\ \E w \in Workers : Holds(w, j)
  /\ faults < MaxFaults
  /\ faults' = faults + 1
  /\ rows' = [rows EXCEPT ![j].stale = TRUE]
  /\ UNCHANGED <<booking, mapping, integration, events, workers, log, crossed, switches>>

\* The host disconnects, connects again, or selects another calendar.
ChangeIntegration ==
  /\ switches < MaxSwitches
  /\ switches' = switches + 1
  /\ \/ integration' = [integration EXCEPT !.status = "DISCONNECTED"]
     \/ integration.status # "CONNECTED" /\ integration' = [integration EXCEPT !.status = "CONNECTED"]
     \/ /\ integration.status = "CONNECTED"
        /\ \E c \in Calendars \ {integration.calendar} :
             integration' = [integration EXCEPT !.calendar = c]
  /\ UNCHANGED <<booking, rows, mapping, events, workers, log, crossed, faults>>

NewRow == [EmptyRow EXCEPT !.status = "PENDING", !.due = TRUE,
                              !.calendar = integration.calendar]

\* A change of a booking and, if the host is connected, its row in the outbox.
Change(b, status, sequence, time) ==
  /\ booking' = [booking EXCEPT ![b] = [status |-> status, sequence |-> sequence, time |-> time]]
  /\ rows' = IF integration.status = "CONNECTED"
             THEN [rows EXCEPT ![<<b, sequence>>] = NewRow] ELSE rows
  /\ UNCHANGED <<mapping, integration, events, workers, log, crossed, bounds>>

Book(b) ==
  /\ booking[b].status = "NONE"
  /\ Change(b, "CONFIRMED", 0, 0)

\* A reschedule confirms a cancelled booking again.
Reschedule(b) ==
  LET next == booking[b].sequence + 1
  IN /\ booking[b].status \in {"CONFIRMED", "CANCELLED"}
     /\ booking[b].sequence < MaxChanges
     /\ Change(b, "CONFIRMED", next, next)

Cancel(b) ==
  /\ booking[b].status = "CONFIRMED"
  /\ booking[b].sequence < MaxChanges
  /\ Change(b, "CANCELLED", booking[b].sequence + 1, booking[b].time)

\* deleteByHost looks for a cancelled booking, but may meet one confirmed again
\* since (Bookings, delete_race).  The jobs and the mapping go with it; the event
\* in Google stays.
DeleteBooking(b) ==
  /\ booking[b].status \in {"CONFIRMED", "CANCELLED"}
  /\ booking' = [booking EXCEPT ![b].status = "DELETED"]
  /\ rows' = [j \in Jobs |-> IF BookingOf(j) = b /\ Present(j)
                             THEN [EmptyRow EXCEPT !.status = "DELETED",
                                                   !.calendar = rows[j].calendar]
                             ELSE rows[j]]
  /\ mapping' = [mapping EXCEPT ![b] = NoMapping]
  /\ UNCHANGED <<integration, events, workers, log, crossed, bounds>>

-----------------------------------------------------------------------------

Next ==
  \/ \E w \in Workers : Work(w) \/ Stop(w)
  \/ TimePasses
  \/ \E j \in Jobs : WorkerStalls(j)
  \/ ChangeIntegration
  \/ \E b \in BookingIds : Book(b) \/ Reschedule(b) \/ Cancel(b) \/ DeleteBooking(b)

Spec == Init /\ [][Next]_vars

-----------------------------------------------------------------------------
(* Properties *)

\* Every variable has its type; no job counts more attempts than it may have.
TypeOK ==
  /\ booking \in [BookingIds -> BookingRow]
  /\ rows \in [Jobs -> Row]
  /\ mapping \in [BookingIds -> Mapping]
  /\ integration \in Integration
  /\ events \in [Calendars -> [BookingIds -> Event]]
  /\ workers \in [Workers -> Worker]
  /\ failures \in [Jobs -> Nat]
  /\ revocations \in Nat
  /\ crossed \subseteq BookingIds
  /\ faults \in Nat /\ switches \in Nat

\* What the mapping says is so: if it is SYNCED at the present sequence of a
\* booking that no two workers were at together, Google's event has the present
\* time of a confirmed booking, or has been deleted and was not revived; that of
\* a cancelled one is gone, if the job that deleted it named the same calendar.
GoogleAgrees ==
  \A b \in BookingIds \ crossed :
    LET m == mapping[b]
        event == events[m.calendar][b]
    IN m.status = "SYNCED" /\ m.sequence = booking[b].sequence =>
         /\ booking[b].status = "CONFIRMED" =>
              /\ event.state # "absent"
              /\ event.state = "present" => event.time = booking[b].time
         /\ booking[b].status = "CANCELLED" /\ rows[<<b, m.sequence>>].calendar = m.calendar =>
              event.state # "present"

\* A job is completed without a call to Google only if the booking has changed
\* since, or the host was not connected: as long as the integration stays as it
\* is and no two workers meet, the job of the present sequence leaves its mark.
CompletedMeansSynced ==
  \A b \in BookingIds \ crossed :
    /\ switches = 0
    /\ booking[b].status = "CONFIRMED"
    /\ rows[<<b, booking[b].sequence>>].status = "COMPLETED"
    => mapping[b].status # "NONE" /\ mapping[b].sequence = booking[b].sequence

\* A job is given up only after as many failures as it may have attempts, or
\* because Google refused the grant: recoveries and late results never count.
GivenUpWithReason ==
  \A j \in Jobs : rows[j].status = "DEAD_LETTER" => failures[j] >= MaxAttempts \/ revocations > 0
=============================================================================
