---------------------- MODULE NotificationOutbox_proofs ----------------------
(***************************************************************************)
(* What holds of NotificationOutbox for every set of jobs, bookings and    *)
(* workers and for every bound, proved with TLAPS.                         *)
(***************************************************************************)
EXTENDS NotificationOutbox, FiniteSetTheorems, TLAPS

\* A job that waits, or that a worker has read, has an attempt left.
RowsLeft == \A j \in Jobs : rows[j].status \in Waiting => rows[j].attempts < MaxAttempts
ReadsLeft == \A w \in Workers, j \in Jobs : workers[w].read[j] < MaxAttempts

TypeInv == TypeOK /\ RowsLeft /\ ReadsLeft

-----------------------------------------------------------------------------
(* What the updates of rows and workers preserve *)

LEMMA RowUpdates ==
  ASSUME NEW row \in Row
  PROVE  /\ RecoveredRow(row) \in Row
         /\ ClaimedRow(row) \in Row
         /\ Withdrawn(row) \in Row
         /\ [row EXCEPT !.status = "CANCELLED", !.stale = FALSE] \in Row
         /\ [row EXCEPT !.status = "SENT", !.stale = FALSE] \in Row
BY DEF Row, RowStatuses, Waiting, Settled, RecoveredRow, ClaimedRow, Withdrawn

\* A failure leaves an attempt unless it gives the job up.
LEMMA FailedRows ==
  ASSUME NEW row \in Row, NEW read \in 0 .. MaxAttempts, read < MaxAttempts
  PROVE  /\ FailedRow(row, read) \in Row
         /\ FailedRow(row, read).attempts = read + 1
         /\ FailedRow(row, read).status =
              IF read + 1 >= MaxAttempts THEN "DEAD_LETTER" ELSE "PENDING"
<1>1. read + 1 \in 0 .. MaxAttempts
  BY MaxAttemptsAssumption
<1>2. Exhausted(read + 1) \in BOOLEAN
  BY DEF Exhausted
<1> QED BY <1>1, <1>2 DEF Row, RowStatuses, Waiting, Settled, FailedRow, Exhausted

LEMMA NewRows ==
  ASSUME NEW j \in Jobs, NEW n \in Nat
  PROVE  NewRow(j, n) \in Row /\ NewRow(j, n).attempts = 0 /\ NewRow(j, n).status = "PENDING"
<1>1. 0 \in 0 .. MaxAttempts
  BY MaxAttemptsAssumption
<1> QED BY <1>1 DEF NewRow, Row, RowStatuses, Waiting

LEMMA EmptyRows ==
  /\ EmptyRow \in Row
  /\ [EmptyRow EXCEPT !.status = "DELETED"] \in Row
<1>1. 0 \in 0 .. MaxAttempts
  BY MaxAttemptsAssumption
<1> QED BY <1>1 DEF EmptyRow, Row, RowStatuses

LEMMA IdleTyped == IdleWorker \in Worker /\ \A j \in Jobs : IdleWorker.read[j] < MaxAttempts
<1>1. 0 \in 0 .. MaxAttempts /\ 0 < MaxAttempts
  BY MaxAttemptsAssumption
<1>2. (CHOOSE j \in Jobs : TRUE) \in Jobs
  BY SetsAssumption
<1> QED BY <1>1, <1>2 DEF IdleWorker, Worker, Steps

\* A worker that only takes its next step reads nothing.
LEMMA GotoTyped ==
  ASSUME TypeInv, NEW w \in Workers, NEW step \in Steps, Goto(w, step)
  PROVE  workers' \in [Workers -> Worker] /\ ReadsLeft'
<1>1. [workers[w] EXCEPT !.step = step] \in Worker
  BY DEF TypeInv, TypeOK, Worker
<1>2. [workers[w] EXCEPT !.step = step].read = workers[w].read
  BY DEF TypeInv, TypeOK, Worker
<1>3. workers' = [workers EXCEPT ![w] = [workers[w] EXCEPT !.step = step]]
  BY DEF Goto
<1> QED BY <1>1, <1>2, <1>3 DEF TypeInv, TypeOK, ReadsLeft

LEMMA BecomeIdleTyped ==
  ASSUME TypeInv, NEW w \in Workers, BecomeIdle(w)
  PROVE  workers' \in [Workers -> Worker] /\ ReadsLeft'
BY IdleTyped DEF BecomeIdle, TypeInv, TypeOK, ReadsLeft

LEMMA ContinueTyped ==
  ASSUME TypeInv, NEW w \in Workers, NEW batch \in SUBSET Jobs,
         NEW read \in [Jobs -> 0 .. MaxAttempts], \A j \in Jobs : read[j] < MaxAttempts,
         Continue(w, batch, read)
  PROVE  workers' \in [Workers -> Worker] /\ ReadsLeft'
<1>1. CASE batch = {}
  BY <1>1, BecomeIdleTyped DEF Continue
<1>2. CASE batch # {}
  <2> DEFINE next == [step |-> "next", batch |-> batch, read |-> read, job |-> IdleWorker.job]
  <2>1. IdleWorker.job \in Jobs
    BY IdleTyped DEF Worker
  <2>2. next \in Worker /\ next.read = read
    BY <2>1 DEF Worker, Steps
  <2>3. workers' = [workers EXCEPT ![w] = next]
    BY <1>2 DEF Continue
  <2> QED BY <2>2, <2>3 DEF TypeInv, TypeOK, ReadsLeft
<1> QED BY <1>1, <1>2

\* Recording a result writes the row, if it is there, and goes on.
LEMMA RecordTyped ==
  ASSUME TypeInv, NEW w \in Workers, NEW row \in Row,
         row.status \in Waiting => row.attempts < MaxAttempts, Record(w, row)
  PROVE  /\ rows' \in [Jobs -> Row] /\ RowsLeft'
         /\ workers' \in [Workers -> Worker] /\ ReadsLeft'
<1> DEFINE j == workers[w].job
<1>1. workers[w] \in Worker /\ j \in Jobs
  BY DEF TypeInv, TypeOK, Worker
<1>2. CASE Present(j)
  <2>1. rows' = [rows EXCEPT ![j] = row]
    BY <1>2 DEF Record
  <2>2. rows' \in [Jobs -> Row] /\ RowsLeft'
    BY <1>1, <2>1 DEF TypeInv, TypeOK, RowsLeft
  <2>3. Continue(w, workers[w].batch, [workers[w].read EXCEPT ![j] = 0])
    BY <1>2 DEF Record
  <2>4. /\ [workers[w].read EXCEPT ![j] = 0] \in [Jobs -> 0 .. MaxAttempts]
        /\ \A k \in Jobs : [workers[w].read EXCEPT ![j] = 0][k] < MaxAttempts
    BY <1>1, MaxAttemptsAssumption DEF TypeInv, ReadsLeft, Worker
  <2>5. workers[w].batch \in SUBSET Jobs
    BY <1>1 DEF Worker
  <2> QED BY <2>2, <2>3, <2>4, <2>5, ContinueTyped
<1>3. CASE ~Present(j)
  BY <1>3, BecomeIdleTyped DEF Record, TypeInv, TypeOK, RowsLeft
<1> QED BY <1>2, <1>3

-----------------------------------------------------------------------------
(* Types and attempts *)

LEMMA TypeInit == Init => TypeInv
<1> SUFFICES ASSUME Init PROVE TypeInv
  OBVIOUS
<1>1. rows \in [Jobs -> Row] /\ RowsLeft
  BY EmptyRows DEF Init, RowsLeft, EmptyRow, Waiting
<1>2. workers \in [Workers -> Worker] /\ ReadsLeft
  BY IdleTyped DEF Init, ReadsLeft
<1>3. booking \in [BookingIds -> BookingRow]
  BY DEF Init, BookingRow
<1> QED BY <1>1, <1>2, <1>3 DEF Init, TypeInv, TypeOK

LEMMA TypeRecover ==
  ASSUME TypeInv, NEW w \in Workers, Recover(w)
  PROVE  TypeInv'
<1>1. rows' \in [Jobs -> Row]
  BY RowUpdates DEF Recover, TypeInv, TypeOK
<1>2. RowsLeft'
  <2>1. ASSUME NEW j \in StaleJobs
        PROVE  /\ rows[j].status = "PROCESSING"
               /\ RecoveredRow(rows[j]).attempts = rows[j].attempts
    BY DEF StaleJobs, RecoveredRow, TypeInv, TypeOK, Row
  <2> QED BY <2>1 DEF Recover, TypeInv, TypeOK, RowsLeft, Waiting
<1>3. Goto(w, "recovered")
  BY DEF Recover, Goto
<1>4. workers' \in [Workers -> Worker] /\ ReadsLeft'
  BY <1>3, GotoTyped DEF Steps
<1>5. recoveries' \in [Jobs -> Nat]
  BY DEF Recover, TypeInv, TypeOK
<1> QED BY <1>1, <1>2, <1>4, <1>5 DEF Recover, TypeInv, TypeOK

LEMMA TypeClaim ==
  ASSUME TypeInv, NEW w \in Workers, Claim(w)
  PROVE  TypeInv'
<1>1. PICK batch \in SUBSET Claimable :
        /\ rows' = [j \in Jobs |-> IF j \in batch THEN ClaimedRow(rows[j]) ELSE rows[j]]
        /\ Continue(w, batch, [j \in Jobs |-> IF j \in batch THEN rows[j].attempts ELSE 0])
  BY DEF Claim
<1>2. ASSUME NEW j \in batch
      PROVE  /\ rows[j].status = "PENDING" /\ rows[j].attempts \in 0 .. MaxAttempts
             /\ rows[j].attempts < MaxAttempts
             /\ ClaimedRow(rows[j]).attempts = rows[j].attempts
  BY DEF Claimable, ClaimedRow, TypeInv, TypeOK, RowsLeft, Row, Waiting
<1>3. rows' \in [Jobs -> Row] /\ RowsLeft'
  BY <1>1, <1>2, RowUpdates DEF TypeInv, TypeOK, RowsLeft
<1> DEFINE read == [j \in Jobs |-> IF j \in batch THEN rows[j].attempts ELSE 0]
<1>4. read \in [Jobs -> 0 .. MaxAttempts] /\ \A j \in Jobs : read[j] < MaxAttempts
  BY <1>2, MaxAttemptsAssumption
<1>5. batch \in SUBSET Jobs
  BY DEF Claimable
<1>6. workers' \in [Workers -> Worker] /\ ReadsLeft'
  BY <1>1, <1>4, <1>5, ContinueTyped
<1> QED BY <1>3, <1>6 DEF Claim, log, TypeInv, TypeOK

LEMMA TypeBegin ==
  ASSUME TypeInv, NEW w \in Workers, NEW j \in Jobs, Begin(w, j)
  PROVE  TypeInv'
<1> DEFINE step == IF j \in Reminders /\ booking[BookingOf[j]].status # "CONFIRMED"
                   THEN "skipping" ELSE "sending"
           begun == [workers[w] EXCEPT !.batch = workers[w].batch \ {j}, !.job = j, !.step = step]
<1>1. workers' = [workers EXCEPT ![w] = begun]
  BY DEF Begin
<1>2. workers[w] \in Worker
  BY DEF TypeInv, TypeOK
<1>3. step \in Steps
  BY DEF Steps
<1> HIDE DEF step
<1>4. begun \in Worker /\ begun.read = workers[w].read
  BY <1>2, <1>3 DEF Worker
<1>5. workers' \in [Workers -> Worker] /\ ReadsLeft'
  BY <1>1, <1>4 DEF TypeInv, TypeOK, ReadsLeft
<1> QED BY <1>5 DEF Begin, log, TypeInv, TypeOK, RowsLeft

LEMMA TypeDeliver ==
  ASSUME TypeInv, NEW w \in Workers, Mail(w) \/ DeliverFails(w)
  PROVE  TypeInv'
<1>1. Goto(w, "sent") \/ Goto(w, "failed")
  BY DEF Mail, DeliverFails, AfterFailure
<1>2. workers' \in [Workers -> Worker] /\ ReadsLeft'
  BY <1>1, GotoTyped DEF Steps
<1>3. PICK accepted \in {0, 1} : mails' = [mails EXCEPT ![workers[w].job] = @ + accepted]
  BY DEF Mail, DeliverFails
<1>4. mails' \in [Jobs -> Nat]
  <2>1. workers[w].job \in Jobs /\ mails[workers[w].job] + accepted \in Nat
    BY DEF TypeInv, TypeOK, Worker
  <2> QED BY <1>3, <2>1 DEF TypeInv, TypeOK
<1> QED BY <1>2, <1>4 DEF Mail, DeliverFails, TypeInv, TypeOK, RowsLeft

LEMMA TypeSettle ==
  ASSUME TypeInv, NEW w \in Workers, Skip(w) \/ MarkSent(w)
  PROVE  TypeInv'
<1> DEFINE row == rows[workers[w].job]
<1>1. row \in Row
  BY DEF TypeInv, TypeOK, Worker
<1>2. ASSUME NEW status \in {"CANCELLED", "SENT"}, Record(w, [row EXCEPT !.status = status, !.stale = FALSE])
      PROVE  /\ rows' \in [Jobs -> Row] /\ RowsLeft'
             /\ workers' \in [Workers -> Worker] /\ ReadsLeft'
  <2> DEFINE settled == [row EXCEPT !.status = status, !.stale = FALSE]
  <2>1. settled \in Row
    BY <1>1, RowUpdates
  <2>2. settled.status \notin Waiting
    BY <1>1 DEF Row, Waiting
  <2> HIDE DEF settled
  <2> QED BY <1>2, <2>1, <2>2, RecordTyped DEF settled
<1>3. /\ rows' \in [Jobs -> Row] /\ RowsLeft'
      /\ workers' \in [Workers -> Worker] /\ ReadsLeft'
  BY <1>2 DEF Skip, MarkSent
<1> QED BY <1>3 DEF Skip, MarkSent, log, TypeInv, TypeOK

LEMMA TypeMarkFailed ==
  ASSUME TypeInv, NEW w \in Workers, MarkFailed(w)
  PROVE  TypeInv'
<1> DEFINE j == workers[w].job
           row == FailedRow(rows[j], workers[w].read[j])
<1>1. j \in Jobs /\ rows[j] \in Row /\ workers[w].read[j] \in 0 .. MaxAttempts
  BY DEF TypeInv, TypeOK, Worker
<1>2. workers[w].read[j] < MaxAttempts
  BY <1>1 DEF TypeInv, ReadsLeft
<1>3. row \in Row /\ (row.status \in Waiting => row.attempts < MaxAttempts)
  <2>1. /\ row \in Row /\ row.attempts = workers[w].read[j] + 1
        /\ row.status = IF workers[w].read[j] + 1 >= MaxAttempts THEN "DEAD_LETTER" ELSE "PENDING"
    BY <1>1, <1>2, FailedRows
  <2> HIDE DEF row
  <2> QED BY <1>1, <2>1, MaxAttemptsAssumption DEF Waiting
<1>4. Record(w, row)
  BY DEF MarkFailed
<1> HIDE DEF row
<1>5. /\ rows' \in [Jobs -> Row] /\ RowsLeft'
      /\ workers' \in [Workers -> Worker] /\ ReadsLeft'
  BY <1>3, <1>4, RecordTyped
<1>6. failures' \in [Jobs -> Nat]
  BY <1>1 DEF MarkFailed, TypeInv, TypeOK
<1> QED BY <1>5, <1>6 DEF MarkFailed, TypeInv, TypeOK

LEMMA TypeStop ==
  ASSUME TypeInv, NEW w \in Workers, Stop(w)
  PROVE  TypeInv'
BY BecomeIdleTyped DEF Stop, log, TypeInv, TypeOK, RowsLeft

LEMMA TypeTime ==
  ASSUME TypeInv, NEW j \in Jobs, BecomeDue(j) \/ LockExpires(j) \/ WorkerStalls(j)
  PROVE  TypeInv'
<1>1. rows[j] \in Row
  BY DEF TypeInv, TypeOK
<1>2. /\ [rows[j] EXCEPT !.due = TRUE] \in Row /\ [rows[j] EXCEPT !.stale = TRUE] \in Row
      /\ [rows[j] EXCEPT !.due = TRUE].status = rows[j].status
      /\ [rows[j] EXCEPT !.stale = TRUE].status = rows[j].status
      /\ [rows[j] EXCEPT !.due = TRUE].attempts = rows[j].attempts
      /\ [rows[j] EXCEPT !.stale = TRUE].attempts = rows[j].attempts
  BY <1>1 DEF Row
<1>3. \/ rows' = [rows EXCEPT ![j] = [rows[j] EXCEPT !.due = TRUE]]
      \/ rows' = [rows EXCEPT ![j] = [rows[j] EXCEPT !.stale = TRUE]]
  BY DEF BecomeDue, LockExpires, WorkerStalls
<1>4. rows' \in [Jobs -> Row] /\ RowsLeft'
  BY <1>2, <1>3 DEF TypeInv, TypeOK, RowsLeft
<1>5. faults' \in Nat
  BY DEF BecomeDue, LockExpires, WorkerStalls, TypeInv, TypeOK
<1> QED BY <1>4, <1>5 DEF BecomeDue, LockExpires, WorkerStalls, log, TypeInv, TypeOK, ReadsLeft

LEMMA TypeChange ==
  ASSUME TypeInv, NEW b \in BookingIds, NEW status \in {"CONFIRMED", "CANCELLED"},
         NEW n \in Nat, NEW new \in SUBSET JobsOf(b), Change(b, status, n, new)
  PROVE  TypeInv'
<1>1. booking' \in [BookingIds -> BookingRow]
  BY DEF Change, TypeInv, TypeOK, BookingRow
<1>2. ASSUME NEW j \in Jobs
      PROVE  /\ rows'[j] \in Row
             /\ rows'[j].status \in Waiting => rows'[j].attempts < MaxAttempts
  <2>1. rows'[j] = NewRow(j, n) \/ rows'[j] = Withdrawn(rows[j]) \/ rows'[j] = rows[j]
    BY DEF Change
  <2>2. CASE rows'[j] = NewRow(j, n)
    BY <2>2, NewRows, MaxAttemptsAssumption
  <2>3. CASE rows'[j] = Withdrawn(rows[j])
    <3>1. rows[j] \in Row
      BY DEF TypeInv, TypeOK
    <3>2. Withdrawn(rows[j]).status \in Waiting =>
            Withdrawn(rows[j]).attempts < MaxAttempts
      BY <3>1 DEF Withdrawn, Waiting, Row, TypeInv, RowsLeft
    <3> QED BY <2>3, <3>1, <3>2, RowUpdates
  <2>4. CASE rows'[j] = rows[j]
    BY <2>4 DEF TypeInv, TypeOK, RowsLeft
  <2> QED BY <2>1, <2>2, <2>3, <2>4
<1>3. rows' \in [Jobs -> Row] /\ RowsLeft'
  <2>1. rows' = [j \in Jobs |-> rows'[j]]
    BY DEF Change
  <2> QED BY <1>2, <2>1 DEF RowsLeft
<1> QED BY <1>1, <1>3 DEF Change, log, TypeInv, TypeOK, ReadsLeft

\* Booking, moving and cancelling are such changes.
LEMMA Changes ==
  ASSUME TypeInv, NEW b \in BookingIds, Book(b) \/ Reschedule(b) \/ Cancel(b)
  PROVE  \E status \in {"CONFIRMED", "CANCELLED"}, n \in Nat, new \in SUBSET JobsOf(b) :
           Change(b, status, n, new)
<1>1. booking[b].sequence + 1 \in Nat /\ 0 \in Nat
  BY DEF TypeInv, TypeOK, BookingRow
<1>2. CASE Book(b)
  BY <1>1, <1>2 DEF Book
<1>3. CASE Reschedule(b)
  BY <1>1, <1>3 DEF Reschedule
<1>4. CASE Cancel(b)
  BY <1>1, <1>4 DEF Cancel
<1> QED BY <1>2, <1>3, <1>4

LEMMA TypeDelete ==
  ASSUME TypeInv, NEW b \in BookingIds, DeleteBooking(b)
  PROVE  TypeInv'
<1>1. booking' \in [BookingIds -> BookingRow]
  BY DEF DeleteBooking, TypeInv, TypeOK, BookingRow
<1>2. [EmptyRow EXCEPT !.status = "DELETED"].status \notin Waiting
  BY DEF EmptyRow, Waiting
<1>3. rows' \in [Jobs -> Row] /\ RowsLeft'
  BY <1>2, EmptyRows DEF DeleteBooking, TypeInv, TypeOK, RowsLeft
<1> QED BY <1>1, <1>3 DEF DeleteBooking, log, TypeInv, TypeOK, ReadsLeft

\* One step for each action; the other invariants follow the same cases.
LEMMA TypeStep ==
  ASSUME TypeInv, [Next]_vars
  PROVE  TypeInv'
<1>1. CASE UNCHANGED vars
  BY <1>1 DEF vars, TypeInv, TypeOK, RowsLeft, ReadsLeft
<1>2. ASSUME NEW w \in Workers, Work(w) \/ Stop(w)
      PROVE  TypeInv'
  BY <1>2, TypeRecover, TypeClaim, TypeBegin, TypeDeliver, TypeSettle, TypeMarkFailed, TypeStop
     DEF Work
<1>3. ASSUME TimePasses \/ \E j \in Jobs : WorkerStalls(j)
      PROVE  TypeInv'
  BY <1>3, TypeTime DEF TimePasses
<1>4. ASSUME NEW b \in BookingIds, Book(b) \/ Reschedule(b) \/ Cancel(b) \/ DeleteBooking(b)
      PROVE  TypeInv'
  BY <1>4, Changes, TypeChange, TypeDelete
<1> QED BY <1>1, <1>2, <1>3, <1>4 DEF Next

\* Every variable has its type in every reachable state, for any number of
\* workers and jobs: in particular no job counts more attempts than it may
\* have, although a worker counts on from what it read when it claimed the job.
THEOREM TypeCorrect == Spec => []TypeOK
<1>1. TypeInv => TypeOK
  BY DEF TypeInv
<1> QED BY <1>1, TypeInit, TypeStep, PTL DEF Spec

-----------------------------------------------------------------------------
(* Where a step leaves the workers and the rows *)

\* Everything the sweep w may become when it goes to the rest of a batch.
WentOn(w, batch, read) ==
  /\ \A v \in Workers \ {w} : workers'[v] = workers[v]
  /\ workers'[w].step \in {"idle", "next"}
  /\ workers'[w].batch = batch
  /\ \A j \in Jobs : workers'[w].read[j] \in {0, read[j]}

LEMMA AfterIdle ==
  ASSUME TypeInv, NEW w \in Workers, BecomeIdle(w)
  PROVE  WentOn(w, {}, workers[w].read)
BY DEF BecomeIdle, IdleWorker, WentOn, TypeInv, TypeOK

LEMMA AfterContinue ==
  ASSUME TypeInv, NEW w \in Workers, NEW batch, NEW read \in [Jobs -> 0 .. MaxAttempts],
         Continue(w, batch, read)
  PROVE  WentOn(w, batch, read)
<1>1. CASE batch = {}
  BY <1>1 DEF Continue, BecomeIdle, IdleWorker, WentOn, TypeInv, TypeOK
<1>2. CASE batch # {}
  BY <1>2 DEF Continue, WentOn, TypeInv, TypeOK
<1> QED BY <1>1, <1>2

\* A result changes the row of the job or, if the job is gone, no row.
LEMMA AfterRecord ==
  ASSUME TypeInv, NEW w \in Workers, NEW row, Record(w, row)
  PROVE  /\ \E batch \in {{}, workers[w].batch} : WentOn(w, batch, workers[w].read)
         /\ \A j \in Jobs : \/ rows'[j] = rows[j]
                            \/ j = workers[w].job /\ Present(j) /\ rows'[j] = row
<1> DEFINE j == workers[w].job
<1>1. CASE Present(j)
  <2>1. [workers[w].read EXCEPT ![j] = 0] \in [Jobs -> 0 .. MaxAttempts]
    BY MaxAttemptsAssumption DEF TypeInv, TypeOK, Worker
  <2>2. WentOn(w, workers[w].batch, [workers[w].read EXCEPT ![j] = 0])
    BY <1>1, <2>1, AfterContinue DEF Record
  <2>3. \A k \in Jobs : [workers[w].read EXCEPT ![j] = 0][k] \in {0, workers[w].read[k]}
    BY DEF TypeInv, TypeOK, Worker
  <2>4. WentOn(w, workers[w].batch, workers[w].read)
    BY <2>2, <2>3 DEF WentOn
  <2>5. rows' = [rows EXCEPT ![j] = row]
    BY <1>1 DEF Record
  <2>6. \A k \in Jobs : rows'[k] = rows[k] \/ (k = j /\ Present(k) /\ rows'[k] = row)
    BY <1>1, <2>5 DEF TypeInv, TypeOK
  <2> QED BY <2>4, <2>6
<1>2. CASE ~Present(j)
  BY <1>2, AfterIdle DEF Record
<1> QED BY <1>1, <1>2

\* A change of a booking writes fresh rows and withdraws pending reminders.
LEMMA AfterChange ==
  ASSUME TypeInv, NEW b \in BookingIds, Book(b) \/ Reschedule(b) \/ Cancel(b)
  PROVE  /\ UNCHANGED <<workers, log, faults>>
         /\ \A j \in Jobs :
              \/ rows'[j] = rows[j]
              \/ rows[j].status = "NONE" /\ rows'[j].status = "PENDING" /\ rows'[j].attempts = 0
              \/ /\ rows[j].status = "PENDING" /\ rows'[j].status = "CANCELLED"
                 /\ rows'[j].attempts = rows[j].attempts
<1>1. PICK status \in {"CONFIRMED", "CANCELLED"}, n \in Nat, new \in SUBSET JobsOf(b) :
        Change(b, status, n, new)
  BY Changes
<1>2. ASSUME NEW j \in Jobs
      PROVE  \/ rows'[j] = rows[j]
             \/ rows[j].status = "NONE" /\ rows'[j].status = "PENDING" /\ rows'[j].attempts = 0
             \/ /\ rows[j].status = "PENDING" /\ rows'[j].status = "CANCELLED"
                /\ rows'[j].attempts = rows[j].attempts
  <2>1. CASE j \in new
    <3>1. rows[j].status = "NONE" /\ rows'[j] = NewRow(j, n)
      BY <1>1, <2>1 DEF Change
    <3> QED BY <3>1, NewRows
  <2>2. CASE j \notin new
    <3>1. rows'[j] = Withdrawn(rows[j]) \/ rows'[j] = rows[j]
      BY <1>1, <2>2 DEF Change
    <3>2. rows[j] \in Row
      BY DEF TypeInv, TypeOK
    <3>3. \/ Withdrawn(rows[j]) = rows[j]
          \/ /\ rows[j].status = "PENDING" /\ Withdrawn(rows[j]).status = "CANCELLED"
             /\ Withdrawn(rows[j]).attempts = rows[j].attempts
      BY <3>2 DEF Withdrawn, Row
    <3> QED BY <3>1, <3>3
  <2> QED BY <2>1, <2>2
<1> QED BY <1>1, <1>2 DEF Change

\* Time moves no row to another status.
LEMMA AfterTime ==
  ASSUME TypeInv, TimePasses \/ \E j \in Jobs : WorkerStalls(j)
  PROVE  /\ UNCHANGED <<workers, log>>
         /\ \A j \in Jobs : /\ rows'[j].status = rows[j].status
                            /\ rows'[j].attempts = rows[j].attempts
<1>1. PICK k \in Jobs : BecomeDue(k) \/ LockExpires(k) \/ WorkerStalls(k)
  BY DEF TimePasses
<1>2. \/ rows' = [rows EXCEPT ![k] = [rows[k] EXCEPT !.due = TRUE]]
      \/ rows' = [rows EXCEPT ![k] = [rows[k] EXCEPT !.stale = TRUE]]
  BY <1>1 DEF BecomeDue, LockExpires, WorkerStalls
<1>3. rows[k] \in Row
  BY DEF TypeInv, TypeOK
<1> QED BY <1>1, <1>2, <1>3 DEF BecomeDue, LockExpires, WorkerStalls, TypeInv, TypeOK, Row

LEMMA AfterDelete ==
  ASSUME TypeInv, NEW b \in BookingIds, DeleteBooking(b)
  PROVE  /\ UNCHANGED <<workers, log, faults>>
         /\ \A j \in Jobs : \/ rows'[j] = rows[j]
                            \/ /\ rows[j].status # "NONE"
                               /\ rows'[j].status = "DELETED" /\ rows'[j].attempts = 0
<1>1. [EmptyRow EXCEPT !.status = "DELETED"].status = "DELETED"
      /\ [EmptyRow EXCEPT !.status = "DELETED"].attempts = 0
  BY DEF EmptyRow
<1> QED BY <1>1 DEF DeleteBooking, Present

LEMMA AfterRecover ==
  ASSUME TypeInv, NEW w \in Workers, Recover(w)
  PROVE  /\ \A v \in Workers \ {w} : workers'[v] = workers[v]
         /\ workers'[w] = [workers[w] EXCEPT !.step = "recovered"]
         /\ UNCHANGED <<mails, failures>>
         /\ \A j \in Jobs :
              \/ rows'[j] = rows[j] /\ recoveries'[j] = recoveries[j]
              \/ /\ rows[j].status = "PROCESSING" /\ rows'[j].status = "PENDING"
                 /\ rows'[j].attempts = rows[j].attempts
                 /\ recoveries'[j] = recoveries[j] + 1
<1>1. ASSUME NEW j \in StaleJobs
      PROVE  /\ rows[j].status = "PROCESSING" /\ RecoveredRow(rows[j]).status = "PENDING"
             /\ RecoveredRow(rows[j]).attempts = rows[j].attempts
  BY DEF StaleJobs, RecoveredRow, TypeInv, TypeOK, Row
<1> QED BY <1>1 DEF Recover, TypeInv, TypeOK

LEMMA AfterClaim ==
  ASSUME TypeInv, NEW w \in Workers, Claim(w)
  PROVE  \E batch \in SUBSET Claimable :
           /\ UNCHANGED log
           /\ WentOn(w, batch, [j \in Jobs |-> IF j \in batch THEN rows[j].attempts ELSE 0])
           /\ \A j \in Jobs :
                \/ j \notin batch /\ rows'[j] = rows[j]
                \/ /\ j \in batch
                   /\ rows[j].status = "PENDING" /\ rows'[j].status = "PROCESSING"
                   /\ rows'[j].attempts = rows[j].attempts
<1>1. PICK batch \in SUBSET Claimable :
        /\ rows' = [j \in Jobs |-> IF j \in batch THEN ClaimedRow(rows[j]) ELSE rows[j]]
        /\ Continue(w, batch, [j \in Jobs |-> IF j \in batch THEN rows[j].attempts ELSE 0])
  BY DEF Claim
<1>2. ASSUME NEW j \in batch
      PROVE  /\ rows[j].status = "PENDING" /\ ClaimedRow(rows[j]).status = "PROCESSING"
             /\ rows[j].attempts \in 0 .. MaxAttempts
             /\ ClaimedRow(rows[j]).attempts = rows[j].attempts
  BY DEF Claimable, ClaimedRow, TypeInv, TypeOK, Row
<1>3. [j \in Jobs |-> IF j \in batch THEN rows[j].attempts ELSE 0] \in [Jobs -> 0 .. MaxAttempts]
  BY <1>2, MaxAttemptsAssumption
<1>4. WentOn(w, batch, [j \in Jobs |-> IF j \in batch THEN rows[j].attempts ELSE 0])
  BY <1>1, <1>3, AfterContinue
<1>5. \A j \in Jobs :
        \/ j \notin batch /\ rows'[j] = rows[j]
        \/ /\ j \in batch
           /\ rows[j].status = "PENDING" /\ rows'[j].status = "PROCESSING"
           /\ rows'[j].attempts = rows[j].attempts
  BY <1>1, <1>2
<1> QED BY <1>4, <1>5 DEF Claim

LEMMA AfterBegin ==
  ASSUME TypeInv, NEW w \in Workers, NEW j \in Jobs, Begin(w, j)
  PROVE  /\ \A v \in Workers \ {w} : workers'[v] = workers[v]
         /\ j \in workers[w].batch /\ workers'[w].batch = workers[w].batch \ {j}
         /\ workers'[w].job = j /\ workers'[w].step \in {"sending", "skipping"}
         /\ workers'[w].read = workers[w].read
         /\ UNCHANGED <<rows, log>>
BY DEF Begin, TypeInv, TypeOK, Worker

LEMMA AfterDeliver ==
  ASSUME TypeInv, NEW w \in Workers, Mail(w) \/ DeliverFails(w)
  PROVE  /\ \A v \in Workers \ {w} : workers'[v] = workers[v]
         /\ workers[w].step \in {"sending", "skipping"}
         /\ workers'[w].batch = workers[w].batch /\ workers'[w].read = workers[w].read
         /\ workers'[w].job = workers[w].job /\ workers[w].job \in Jobs
         /\ UNCHANGED <<rows, failures, recoveries>>
         /\ \/ /\ workers'[w].step = "sent"
               /\ mails' = [mails EXCEPT ![workers[w].job] = @ + 1]
            \/ /\ workers'[w].step = "failed"
               /\ \E accepted \in {0, 1} : mails' = [mails EXCEPT ![workers[w].job] = @ + accepted]
BY DEF Mail, DeliverFails, Goto, AfterFailure, TypeInv, TypeOK, Worker

-----------------------------------------------------------------------------
(* What is marked SENT was mailed *)

\* The result SENT is on its way only after the mail.
SentHoldersMailed == \A w \in Workers : workers[w].step = "sent" => mails[workers[w].job] > 0

SentInv == SentWasMailed /\ SentHoldersMailed

\* A step that marks nothing unmailed SENT, and starts no such mark, keeps it.
LEMMA SentKept ==
  ASSUME TypeInv, TypeInv', SentInv,
         \A j \in Jobs : mails'[j] >= mails[j],
         \A j \in Jobs : rows'[j].status = "SENT" => rows[j].status = "SENT" \/ mails[j] > 0,
         \A w \in Workers : \/ workers'[w].step = "sent" => mails'[workers'[w].job] > 0
                            \/ workers'[w] = workers[w]
  PROVE  SentInv'
<1>1. \A j \in Jobs : mails[j] \in Nat /\ mails'[j] \in Nat
  BY DEF TypeInv, TypeOK
<1>2. \A j \in Jobs : mails[j] > 0 => mails'[j] > 0
  BY <1>1
<1>3. \A w \in Workers : workers[w].job \in Jobs
  BY DEF TypeInv, TypeOK, Worker
<1> QED BY <1>2, <1>3 DEF SentInv, SentWasMailed, SentHoldersMailed

LEMMA SentStep ==
  ASSUME TypeInv, TypeInv', SentInv, [Next]_vars
  PROVE  SentInv'
<1> USE DEF log
<1>1. \A j \in Jobs : mails[j] \in Nat
  BY DEF TypeInv, TypeOK
<1>2. CASE UNCHANGED vars
  BY <1>2 DEF vars, SentInv, SentWasMailed, SentHoldersMailed
<1>3. ASSUME NEW w \in Workers, Recover(w) PROVE SentInv'
  <2>1. workers'[w].step # "sent"
    BY <1>3, AfterRecover DEF TypeInv, TypeOK, Worker
  <2>2. \A j \in Jobs : rows'[j].status = "SENT" => rows[j].status = "SENT"
    BY <1>3, AfterRecover
  <2>3. UNCHANGED mails /\ \A v \in Workers : workers'[v] = workers[v] \/ v = w
    BY <1>3, AfterRecover
  <2> QED BY <1>1, <2>1, <2>2, <2>3, SentKept
<1>4. ASSUME NEW w \in Workers, Claim(w) PROVE SentInv'
  <2>1. \A j \in Jobs : rows'[j].status = "SENT" => rows[j].status = "SENT"
    BY <1>4, AfterClaim
  <2> QED BY <1>1, <1>4, <2>1, AfterClaim, SentKept DEF WentOn
<1>5. ASSUME NEW w \in Workers, NEW j \in Jobs, Begin(w, j) PROVE SentInv'
  BY <1>1, <1>5, AfterBegin, SentKept
<1>6. ASSUME NEW w \in Workers, Mail(w) \/ DeliverFails(w) PROVE SentInv'
  <2>1. \A j \in Jobs : mails'[j] >= mails[j]
    BY <1>1, <1>6, AfterDeliver DEF TypeInv, TypeOK
  <2>2. workers'[w].step = "sent" => mails'[workers'[w].job] > 0
    BY <1>1, <1>6, AfterDeliver DEF TypeInv, TypeOK
  <2> QED BY <1>6, <2>1, <2>2, AfterDeliver, SentKept
<1>7. ASSUME NEW w \in Workers, Skip(w) PROVE SentInv'
  <2> DEFINE row == [rows[workers[w].job] EXCEPT !.status = "CANCELLED", !.stale = FALSE]
  <2>1. Record(w, row)
    BY <1>7 DEF Skip
  <2>2. row.status # "SENT"
    <3>1. rows[workers[w].job] \in Row
      BY DEF TypeInv, TypeOK, Worker
    <3> QED BY <3>1 DEF Row
  <2> HIDE DEF row
  <2> QED BY <1>1, <1>7, <2>1, <2>2, AfterRecord, SentKept DEF Skip, WentOn
<1>8. ASSUME NEW w \in Workers, MarkSent(w) PROVE SentInv'
  <2>1. mails[workers[w].job] > 0
    BY <1>8 DEF MarkSent, SentInv, SentHoldersMailed
  <2>2. \E row : Record(w, row)
    BY <1>8 DEF MarkSent
  <2> QED BY <1>1, <1>8, <2>1, <2>2, AfterRecord, SentKept DEF MarkSent, WentOn
<1>9. ASSUME NEW w \in Workers, MarkFailed(w) PROVE SentInv'
  <2> DEFINE row == FailedRow(rows[workers[w].job], workers[w].read[workers[w].job])
  <2>1. Record(w, row)
    BY <1>9 DEF MarkFailed
  <2>2. row.status # "SENT"
    <3> DEFINE j == workers[w].job
    <3>1. j \in Jobs /\ rows[j] \in Row /\ workers[w].read[j] \in 0 .. MaxAttempts
      BY DEF TypeInv, TypeOK, Worker
    <3>2. workers[w].read[j] < MaxAttempts
      BY <3>1 DEF TypeInv, ReadsLeft
    <3>3. row.status \in {"DEAD_LETTER", "PENDING"}
      BY <3>1, <3>2, FailedRows
    <3> QED BY <3>3
  <2> HIDE DEF row
  <2> QED BY <1>1, <1>9, <2>1, <2>2, AfterRecord, SentKept DEF MarkFailed, WentOn
<1>10. ASSUME NEW w \in Workers, Stop(w) PROVE SentInv'
  BY <1>1, <1>10, AfterIdle, SentKept DEF Stop, WentOn
<1>11. ASSUME TimePasses \/ \E j \in Jobs : WorkerStalls(j) PROVE SentInv'
  BY <1>1, <1>11, AfterTime, SentKept
<1>12. ASSUME NEW b \in BookingIds, Book(b) \/ Reschedule(b) \/ Cancel(b) PROVE SentInv'
  <2>1. \A j \in Jobs : rows'[j].status = "SENT" => rows[j].status = "SENT"
    BY <1>12, AfterChange
  <2> QED BY <1>1, <1>12, <2>1, AfterChange, SentKept
<1>13. ASSUME NEW b \in BookingIds, DeleteBooking(b) PROVE SentInv'
  <2>1. \A j \in Jobs : rows'[j].status = "SENT" => rows[j].status = "SENT"
    BY <1>13, AfterDelete
  <2> QED BY <1>1, <1>13, <2>1, AfterDelete, SentKept
<1> QED BY <1>2, <1>3, <1>4, <1>5, <1>6, <1>7, <1>8, <1>9, <1>10, <1>11, <1>12, <1>13
        DEF Next, Work

\* A job that says SENT was mailed, for any number of workers: every result is
\* written by id alone, so what counts is what the workers hold, not the row.
THEOREM SentMeansMailed == Spec => []SentWasMailed
<1>1. Init => SentInv
  BY DEF Init, EmptyRow, IdleWorker, SentInv, SentWasMailed, SentHoldersMailed
<1>2. TypeInv /\ SentInv /\ [Next]_vars => TypeInv' /\ SentInv'
  BY TypeStep, SentStep
<1>3. SentInv => SentWasMailed
  BY DEF SentInv
<1> QED BY <1>1, <1>2, <1>3, TypeInit, PTL DEF Spec

-----------------------------------------------------------------------------
(* A job is given up only after its failures *)

\* What a worker has read of a job counts failures of it too.
ReadsCounted == \A w \in Workers, j \in Jobs : workers[w].read[j] <= failures[j]

FailuresInv == GivenUpAfterFailures /\ ReadsCounted

\* A step that counts no attempt and gives up no job keeps it.
LEMMA FailuresKept ==
  ASSUME TypeInv, TypeInv', FailuresInv, UNCHANGED failures,
         \A j \in Jobs : /\ rows'[j].attempts \in {0, rows[j].attempts}
                         /\ rows'[j].status = "DEAD_LETTER" => rows[j].status = "DEAD_LETTER",
         \A w \in Workers, j \in Jobs :
           workers'[w].read[j] \in {0, workers[w].read[j], rows[j].attempts}
  PROVE  FailuresInv'
<1>1. \A j \in Jobs : failures[j] \in Nat
  BY DEF TypeInv, TypeOK
<1>2. ASSUME NEW w \in Workers, NEW j \in Jobs
      PROVE  workers'[w].read[j] <= failures'[j]
  BY <1>1 DEF FailuresInv, GivenUpAfterFailures, ReadsCounted
<1>3. ASSUME NEW j \in Jobs
      PROVE  /\ rows'[j].attempts <= failures'[j]
             /\ rows'[j].status = "DEAD_LETTER" => failures'[j] >= MaxAttempts
  BY <1>1 DEF FailuresInv, GivenUpAfterFailures
<1> QED BY <1>2, <1>3 DEF FailuresInv, GivenUpAfterFailures, ReadsCounted

\* A result that is no failure is such a step.
LEMMA FailuresSettle ==
  ASSUME TypeInv, TypeInv', FailuresInv, NEW w \in Workers, Skip(w) \/ MarkSent(w)
  PROVE  FailuresInv'
<1> DEFINE row(status) == [rows[workers[w].job] EXCEPT !.status = status, !.stale = FALSE]
<1>1. PICK status \in {"CANCELLED", "SENT"} : Record(w, row(status))
  BY DEF Skip, MarkSent
<1>2. /\ row(status).status # "DEAD_LETTER"
      /\ row(status).attempts = rows[workers[w].job].attempts
  <2>1. rows[workers[w].job] \in Row
    BY DEF TypeInv, TypeOK, Worker
  <2> QED BY <2>1 DEF Row
<1>3. UNCHANGED failures
  BY DEF Skip, MarkSent, log
<1> HIDE DEF row
<1> QED BY <1>1, <1>2, <1>3, AfterRecord, FailuresKept DEF WentOn

LEMMA FailuresMarkFailed ==
  ASSUME TypeInv, TypeInv', FailuresInv, NEW w \in Workers, MarkFailed(w)
  PROVE  FailuresInv'
<1> DEFINE j == workers[w].job
           read == workers[w].read[j]
           row == FailedRow(rows[j], read)
<1>1. j \in Jobs /\ rows[j] \in Row /\ read \in 0 .. MaxAttempts
  BY DEF TypeInv, TypeOK, Worker
<1>2. read < MaxAttempts /\ read <= failures[j]
  BY <1>1 DEF TypeInv, ReadsLeft, FailuresInv, ReadsCounted
<1>3. /\ row.attempts = read + 1
      /\ row.status = IF read + 1 >= MaxAttempts THEN "DEAD_LETTER" ELSE "PENDING"
  BY <1>1, <1>2, FailedRows
<1>4. /\ failures'[j] = failures[j] + 1
      /\ \A k \in Jobs : k # j => failures'[k] = failures[k]
      /\ \A k \in Jobs : failures[k] \in Nat /\ failures'[k] >= failures[k]
  BY <1>1 DEF MarkFailed, TypeInv, TypeOK
<1>5. Record(w, row)
  BY DEF MarkFailed
<1> HIDE DEF row
<1>6. ASSUME NEW v \in Workers, NEW k \in Jobs
      PROVE  workers'[v].read[k] <= failures'[k]
  <2>1. workers'[v].read[k] \in {0, workers[v].read[k]}
    BY <1>5, AfterRecord DEF WentOn
  <2>2. workers[v].read[k] <= failures[k] /\ workers[v].read[k] \in Nat
    BY DEF FailuresInv, ReadsCounted, TypeInv, TypeOK, Worker
  <2>3. failures[k] \in Nat /\ failures'[k] \in Nat /\ failures'[k] >= failures[k]
    BY <1>4 DEF TypeInv, TypeOK
  <2> QED BY <2>1, <2>2, <2>3
<1>7. ASSUME NEW k \in Jobs
      PROVE  /\ rows'[k].attempts <= failures'[k]
             /\ rows'[k].status = "DEAD_LETTER" => failures'[k] >= MaxAttempts
  <2>1. failures[k] \in Nat /\ failures'[k] \in Nat /\ failures'[k] >= failures[k]
    BY <1>4 DEF TypeInv, TypeOK
  <2>2. CASE rows'[k] = rows[k]
    <3>1. /\ rows[k].attempts <= failures[k] /\ rows[k].attempts \in Nat
          /\ rows[k].status = "DEAD_LETTER" => failures[k] >= MaxAttempts
      BY DEF FailuresInv, GivenUpAfterFailures, TypeInv, TypeOK, Row
    <3> QED BY <2>1, <2>2, <3>1, MaxAttemptsAssumption
  <2>3. CASE k = j /\ rows'[k] = row
    BY <1>1, <1>2, <1>3, <1>4, <2>1, <2>3, MaxAttemptsAssumption
  <2> QED BY <1>5, <2>2, <2>3, AfterRecord
<1> QED BY <1>6, <1>7 DEF FailuresInv, GivenUpAfterFailures, ReadsCounted

LEMMA FailuresStep ==
  ASSUME TypeInv, TypeInv', FailuresInv, [Next]_vars
  PROVE  FailuresInv'
<1> USE DEF log
<1>1. CASE UNCHANGED vars
  BY <1>1 DEF vars, FailuresInv, GivenUpAfterFailures, ReadsCounted
<1>2. ASSUME NEW w \in Workers, Recover(w) PROVE FailuresInv'
  <2>1. \A v \in Workers : workers'[v].read = workers[v].read
    <3>1. workers[w] \in Worker
      BY DEF TypeInv, TypeOK
    <3>2. [workers[w] EXCEPT !.step = "recovered"].read = workers[w].read
      BY <3>1 DEF Worker
    <3> QED BY <1>2, <3>2, AfterRecover
  <2>2. /\ UNCHANGED failures
        /\ \A j \in Jobs : rows'[j] = rows[j]
                           \/ (rows'[j].status = "PENDING" /\ rows'[j].attempts = rows[j].attempts)
    BY <1>2, AfterRecover
  <2> QED BY <2>1, <2>2, FailuresKept
<1>3. ASSUME NEW w \in Workers, Claim(w) PROVE FailuresInv'
  <2>1. \A v \in Workers, j \in Jobs :
          workers'[v].read[j] \in {0, workers[v].read[j], rows[j].attempts}
    BY <1>3, AfterClaim DEF WentOn
  <2>2. /\ UNCHANGED failures
        /\ \A j \in Jobs : rows'[j] = rows[j]
                           \/ (rows'[j].status = "PROCESSING" /\ rows'[j].attempts = rows[j].attempts)
    BY <1>3, AfterClaim
  <2> QED BY <2>1, <2>2, FailuresKept
<1>4. ASSUME NEW w \in Workers, NEW j \in Jobs, Begin(w, j) PROVE FailuresInv'
  BY <1>4, AfterBegin, FailuresKept
<1>5. ASSUME NEW w \in Workers, Mail(w) \/ DeliverFails(w) PROVE FailuresInv'
  BY <1>5, AfterDeliver, FailuresKept
<1>6. ASSUME NEW w \in Workers, Stop(w) PROVE FailuresInv'
  BY <1>6, AfterIdle, FailuresKept DEF Stop, WentOn
<1>7. ASSUME TimePasses \/ \E j \in Jobs : WorkerStalls(j) PROVE FailuresInv'
  BY <1>7, AfterTime, FailuresKept
<1>8. ASSUME NEW b \in BookingIds, Book(b) \/ Reschedule(b) \/ Cancel(b) PROVE FailuresInv'
  <2>1. \A j \in Jobs : /\ rows'[j].attempts \in {0, rows[j].attempts}
                        /\ rows'[j].status = "DEAD_LETTER" => rows[j].status = "DEAD_LETTER"
    BY <1>8, AfterChange
  <2> QED BY <1>8, <2>1, AfterChange, FailuresKept
<1>9. ASSUME NEW b \in BookingIds, DeleteBooking(b) PROVE FailuresInv'
  <2>1. \A j \in Jobs : /\ rows'[j].attempts \in {0, rows[j].attempts}
                        /\ rows'[j].status = "DEAD_LETTER" => rows[j].status = "DEAD_LETTER"
    BY <1>9, AfterDelete
  <2> QED BY <1>9, <2>1, AfterDelete, FailuresKept
<1> QED BY <1>1, <1>2, <1>3, <1>4, <1>5, <1>6, <1>7, <1>8, <1>9, FailuresSettle, FailuresMarkFailed
        DEF Next, Work

\* No job is given up before as many of its deliveries failed as it may have
\* attempts: what a worker lost, or wrote late, is never counted as a failure.
THEOREM GivenUpOnlyAfterFailures == Spec => []GivenUpAfterFailures
<1>1. Init => FailuresInv
  BY DEF Init, EmptyRow, IdleWorker, FailuresInv, GivenUpAfterFailures, ReadsCounted
<1>2. TypeInv /\ FailuresInv /\ [Next]_vars => TypeInv' /\ FailuresInv'
  BY TypeStep, FailuresStep
<1>3. FailuresInv => GivenUpAfterFailures
  BY DEF FailuresInv
<1> QED BY <1>1, <1>2, <1>3, TypeInit, PTL DEF Spec

-----------------------------------------------------------------------------
(* No mail without a reason *)

\* The workers that may still mail j, and whether one more may claim it.
Delivering == {"sending", "skipping"}
Unsent(w, j) == \/ j \in workers[w].batch
                \/ workers[w].step \in Delivering /\ workers[w].job = j
Unsents(j) == {w \in Workers : Unsent(w, j)}
Unclaimed(j) == IF rows[j].status \in {"NONE", "PENDING"} THEN 1 ELSE 0

\* The mails of a job and those that may still go out: every claim turns an
\* unclaimed row into a worker that may mail it, and every mail uses up one
\* worker; only a failure or a recovery makes a row unclaimed again.
MailsCounted(j) ==
  mails[j] + Cardinality(Unsents(j)) + Unclaimed(j) <= 1 + failures[j] + recoveries[j]

LeftBatch == \A w \in Workers : workers[w].step \in Delivering => workers[w].job \notin workers[w].batch

MailInv == LeftBatch /\ \A j \in Jobs : MailsCounted(j)

LEMMA UnsentsFinite ==
  ASSUME NEW j
  PROVE  /\ IsFiniteSet(Unsents(j)) /\ Cardinality(Unsents(j)) \in Nat
         /\ IsFiniteSet(Unsents(j)') /\ Cardinality(Unsents(j)') \in Nat
<1>1. Unsents(j) \in SUBSET Workers /\ Unsents(j)' \in SUBSET Workers
  BY DEF Unsents
<1> QED BY <1>1, SetsAssumption, FS_Subset, FS_CardinalityType

\* How the number of workers that may mail j changes with one of them.
LEMMA UnsentsChange ==
  ASSUME NEW j, NEW w \in Workers,
         \A v \in Workers \ {w} : Unsent(v, j)' => Unsent(v, j)
  PROVE  /\ Cardinality(Unsents(j)') <= Cardinality(Unsents(j)) + 1
         /\ (Unsent(w, j)' => Unsent(w, j)) => Cardinality(Unsents(j)') <= Cardinality(Unsents(j))
         /\ Unsent(w, j) /\ ~Unsent(w, j)' => Cardinality(Unsents(j)') <= Cardinality(Unsents(j)) - 1
<1> DEFINE S == Unsents(j)
           T == Unsents(j)'
<1>1. T \subseteq S \cup {w}
  BY DEF Unsents
<1>2. IsFiniteSet(S) /\ Cardinality(S) \in Nat /\ Cardinality(T) \in Nat
  BY UnsentsFinite
<1>3. /\ IsFiniteSet(S \cup {w}) /\ Cardinality(S \cup {w}) <= Cardinality(S) + 1
      /\ Cardinality(S \cup {w}) \in Nat
  <2> HIDE DEF S, T
  <2>1. /\ IsFiniteSet(S \cup {w})
        /\ Cardinality(S \cup {w}) = IF w \in S THEN Cardinality(S) ELSE Cardinality(S) + 1
    BY <1>2, FS_AddElement
  <2> QED BY <1>2, <2>1
<1>4. Cardinality(T) <= Cardinality(S) + 1
  <2> HIDE DEF S, T
  <2>1. Cardinality(T) <= Cardinality(S \cup {w})
    BY <1>1, <1>3, FS_Subset
  <2> QED BY <1>2, <1>3, <2>1
<1>5. ASSUME Unsent(w, j)' => Unsent(w, j)
      PROVE  Cardinality(T) <= Cardinality(S)
  <2>1. T \subseteq S
    BY <1>5 DEF Unsents
  <2> HIDE DEF S, T
  <2> QED BY <1>2, <2>1, FS_Subset
<1>6. ASSUME Unsent(w, j), ~Unsent(w, j)'
      PROVE  Cardinality(T) <= Cardinality(S) - 1
  <2>1. T \subseteq S \ {w} /\ w \in S
    BY <1>6 DEF Unsents
  <2> HIDE DEF S, T
  <2>2. IsFiniteSet(S \ {w}) /\ Cardinality(S \ {w}) = Cardinality(S) - 1
    BY <1>2, <2>1, FS_RemoveElement
  <2>3. Cardinality(T) <= Cardinality(S \ {w})
    BY <2>1, <2>2, FS_Subset
  <2> QED BY <2>2, <2>3
<1> QED BY <1>4, <1>5, <1>6

\* A job whose mail is not touched, and whose row no claim could take that
\* could not before, unless a failure or a recovery is counted.
LEMMA MailsKept ==
  ASSUME TypeInv, TypeInv', NEW j \in Jobs, MailsCounted(j),
         mails'[j] = mails[j],
         Cardinality(Unsents(j)') <= Cardinality(Unsents(j)),
         \/ /\ failures'[j] + recoveries'[j] = failures[j] + recoveries[j]
            /\ Unclaimed(j)' <= Unclaimed(j)
         \/ failures'[j] + recoveries'[j] = failures[j] + recoveries[j] + 1
  PROVE  MailsCounted(j)'
<1>1. /\ mails[j] \in Nat /\ failures[j] \in Nat /\ recoveries[j] \in Nat
      /\ mails'[j] \in Nat /\ failures'[j] \in Nat /\ recoveries'[j] \in Nat
  BY DEF TypeInv, TypeOK
<1>2. Cardinality(Unsents(j)) \in Nat /\ Cardinality(Unsents(j)') \in Nat
  BY UnsentsFinite
<1>3. Unclaimed(j) \in {0, 1} /\ Unclaimed(j)' \in {0, 1}
  BY DEF Unclaimed
<1> QED BY <1>1, <1>2, <1>3 DEF MailsCounted

\* Settling a job, or losing or ending the rest of a sweep, mails nothing.
LEMMA MailsWentOn ==
  ASSUME TypeInv, TypeInv', MailInv, NEW w \in Workers, NEW batch \in {{}, workers[w].batch},
         WentOn(w, batch, workers[w].read), UNCHANGED mails,
         \A j \in Jobs :
           \/ /\ failures'[j] + recoveries'[j] = failures[j] + recoveries[j]
              /\ rows'[j] = rows[j] \/ rows'[j].status \notin {"NONE", "PENDING"}
           \/ failures'[j] + recoveries'[j] = failures[j] + recoveries[j] + 1
  PROVE  MailInv'
<1>1. ASSUME NEW v \in Workers, NEW j \in Jobs, Unsent(v, j)'
      PROVE  Unsent(v, j)
  BY <1>1 DEF WentOn, Unsent, Delivering
<1>2. LeftBatch'
  BY DEF MailInv, LeftBatch, WentOn, Delivering
<1>3. ASSUME NEW j \in Jobs
      PROVE  MailsCounted(j)'
  <2>1. Cardinality(Unsents(j)') <= Cardinality(Unsents(j))
    BY <1>1, UnsentsChange
  <2>2. rows'[j] = rows[j] \/ rows'[j].status \notin {"NONE", "PENDING"} => Unclaimed(j)' <= Unclaimed(j)
    BY DEF Unclaimed
  <2> QED BY <2>1, <2>2, MailsKept DEF MailInv
<1> QED BY <1>2, <1>3 DEF MailInv

LEMMA MailsRecover ==
  ASSUME TypeInv, TypeInv', MailInv, NEW w \in Workers, Recover(w)
  PROVE  MailInv'
<1>1. /\ workers'[w].step = "recovered" /\ workers'[w].batch = workers[w].batch
      /\ \A v \in Workers : v # w => workers'[v] = workers[v]
  <2>1. workers[w] \in Worker
    BY DEF TypeInv, TypeOK
  <2>2. /\ [workers[w] EXCEPT !.step = "recovered"].step = "recovered"
        /\ [workers[w] EXCEPT !.step = "recovered"].batch = workers[w].batch
    BY <2>1 DEF Worker
  <2> QED BY <2>2, AfterRecover
<1>2. LeftBatch'
  BY <1>1 DEF MailInv, LeftBatch, Delivering
<1>3. ASSUME NEW j \in Jobs
      PROVE  MailsCounted(j)'
  <2>1. Cardinality(Unsents(j)') <= Cardinality(Unsents(j))
    BY <1>1, UnsentsChange DEF Unsent, Delivering
  <2>2. \/ rows'[j] = rows[j] /\ recoveries'[j] = recoveries[j]
        \/ recoveries'[j] = recoveries[j] + 1
    BY AfterRecover
  <2>3. failures'[j] = failures[j] /\ mails'[j] = mails[j]
    BY AfterRecover
  <2>4. failures[j] \in Nat /\ recoveries[j] \in Nat
    BY DEF TypeInv, TypeOK
  <2>5. rows'[j] = rows[j] => Unclaimed(j)' <= Unclaimed(j)
    BY DEF Unclaimed
  <2>6. \/ /\ failures'[j] + recoveries'[j] = failures[j] + recoveries[j]
           /\ Unclaimed(j)' <= Unclaimed(j)
        \/ failures'[j] + recoveries'[j] = failures[j] + recoveries[j] + 1
    BY <2>2, <2>3, <2>4, <2>5
  <2> QED BY <2>1, <2>3, <2>6, MailsKept DEF MailInv
<1> QED BY <1>2, <1>3 DEF MailInv

LEMMA MailsClaim ==
  ASSUME TypeInv, TypeInv', MailInv, NEW w \in Workers, Claim(w)
  PROVE  MailInv'
<1>1. PICK batch \in SUBSET Claimable :
        /\ UNCHANGED log
        /\ WentOn(w, batch, [j \in Jobs |-> IF j \in batch THEN rows[j].attempts ELSE 0])
        /\ \A j \in Jobs :
             \/ j \notin batch /\ rows'[j] = rows[j]
             \/ j \in batch /\ rows[j].status = "PENDING" /\ rows'[j].status = "PROCESSING"
  BY AfterClaim
<1>2. LeftBatch'
  BY <1>1 DEF MailInv, LeftBatch, WentOn, Delivering
<1>3. ASSUME NEW j \in Jobs
      PROVE  MailsCounted(j)'
  <2>1. \A v \in Workers \ {w} : Unsent(v, j)' => Unsent(v, j)
    BY <1>1 DEF WentOn, Unsent
  <2>2. mails' = mails /\ failures' = failures /\ recoveries' = recoveries
    BY <1>1 DEF log
  <2>3. CASE j \notin batch
    <3>1. ~Unsent(w, j)' /\ Unclaimed(j)' = Unclaimed(j)
      BY <1>1, <2>3 DEF WentOn, Unsent, Delivering, Unclaimed
    <3>2. Cardinality(Unsents(j)') <= Cardinality(Unsents(j))
      BY <2>1, <3>1, UnsentsChange
    <3>3. Unclaimed(j) \in {0, 1}
      BY DEF Unclaimed
    <3> QED BY <2>2, <3>1, <3>2, <3>3, MailsKept DEF MailInv
  <2>4. CASE j \in batch
    <3>1. Unclaimed(j) = 1 /\ Unclaimed(j)' = 0
      BY <1>1, <2>4 DEF Unclaimed
    <3>2. Cardinality(Unsents(j)') <= Cardinality(Unsents(j)) + 1
      BY <2>1, UnsentsChange
    <3>3. /\ Cardinality(Unsents(j)) \in Nat /\ Cardinality(Unsents(j)') \in Nat
          /\ mails[j] \in Nat /\ failures[j] \in Nat /\ recoveries[j] \in Nat
      BY UnsentsFinite DEF TypeInv, TypeOK
    <3>4. mails[j] + Cardinality(Unsents(j)) + 1 <= 1 + failures[j] + recoveries[j]
      BY <3>1 DEF MailInv, MailsCounted
    <3>5. mails[j] + Cardinality(Unsents(j)') + 0 <= 1 + failures[j] + recoveries[j]
      BY <3>2, <3>3, <3>4
    <3> QED BY <2>2, <3>1, <3>5 DEF MailsCounted
  <2> QED BY <2>3, <2>4
<1> QED BY <1>2, <1>3 DEF MailInv

LEMMA MailsBegin ==
  ASSUME TypeInv, TypeInv', MailInv, NEW w \in Workers, NEW k \in Jobs, Begin(w, k)
  PROVE  MailInv'
<1>1. LeftBatch'
  BY AfterBegin DEF MailInv, LeftBatch, Delivering
<1>2. ASSUME NEW j \in Jobs
      PROVE  MailsCounted(j)'
  <2>1. Cardinality(Unsents(j)') <= Cardinality(Unsents(j))
    <3>1. \A v \in Workers \ {w} : Unsent(v, j)' => Unsent(v, j)
      BY AfterBegin DEF Unsent
    <3>2. Unsent(w, j)' => Unsent(w, j)
      BY AfterBegin DEF Unsent
    <3> QED BY <3>1, <3>2, UnsentsChange
  <2>2. Unclaimed(j)' = Unclaimed(j) /\ Unclaimed(j) \in {0, 1}
    BY AfterBegin DEF Unclaimed
  <2>3. mails' = mails /\ failures' = failures /\ recoveries' = recoveries
    BY AfterBegin DEF log
  <2> QED BY <2>1, <2>2, <2>3, MailsKept DEF MailInv
<1> QED BY <1>1, <1>2 DEF MailInv

LEMMA MailsDeliver ==
  ASSUME TypeInv, TypeInv', MailInv, NEW w \in Workers, Mail(w) \/ DeliverFails(w)
  PROVE  MailInv'
<1> DEFINE k == workers[w].job
<1>1. /\ \A v \in Workers \ {w} : workers'[v] = workers[v]
      /\ workers[w].step \in Delivering /\ workers'[w].step \notin Delivering
      /\ workers'[w].batch = workers[w].batch
      /\ k \in Jobs /\ UNCHANGED <<rows, failures, recoveries>>
  BY AfterDeliver DEF Delivering
<1>2. PICK accepted \in {0, 1} : mails' = [mails EXCEPT ![k] = @ + accepted]
  BY AfterDeliver
<1>3. LeftBatch'
  BY <1>1 DEF MailInv, LeftBatch
<1>4. ASSUME NEW j \in Jobs
      PROVE  MailsCounted(j)'
  <2>1. \A v \in Workers : Unsent(v, j)' => Unsent(v, j)
    BY <1>1 DEF Unsent
  <2>2. Unclaimed(j)' = Unclaimed(j) /\ Unclaimed(j) \in {0, 1}
    BY <1>1 DEF Unclaimed
  <2>3. CASE j # k
    <3>1. mails'[j] = mails[j]
      BY <1>2, <2>3 DEF TypeInv, TypeOK
    <3>2. Cardinality(Unsents(j)') <= Cardinality(Unsents(j))
      BY <2>1, UnsentsChange
    <3> QED BY <1>1, <2>2, <3>1, <3>2, MailsKept DEF MailInv
  <2>4. CASE j = k
    <3>1. Unsent(w, j) /\ ~Unsent(w, j)'
      BY <1>1, <2>4 DEF Unsent, MailInv, LeftBatch
    <3>2. Cardinality(Unsents(j)') <= Cardinality(Unsents(j)) - 1
      BY <2>1, <3>1, UnsentsChange
    <3>3. /\ Cardinality(Unsents(j)) \in Nat /\ Cardinality(Unsents(j)') \in Nat
          /\ mails[j] \in Nat /\ failures[j] \in Nat /\ recoveries[j] \in Nat
      BY UnsentsFinite DEF TypeInv, TypeOK
    <3>4. mails'[j] = mails[j] + accepted
      BY <1>2, <2>4 DEF TypeInv, TypeOK
    <3>5. mails[j] + Cardinality(Unsents(j)) + Unclaimed(j) <= 1 + failures[j] + recoveries[j]
      BY DEF MailInv, MailsCounted
    <3>6. mails'[j] + Cardinality(Unsents(j)') + Unclaimed(j) <= 1 + failures[j] + recoveries[j]
      BY <2>2, <3>2, <3>3, <3>4, <3>5
    <3> QED BY <1>1, <2>2, <3>6 DEF MailsCounted
  <2> QED BY <2>3, <2>4
<1> QED BY <1>3, <1>4 DEF MailInv

LEMMA MailsSettle ==
  ASSUME TypeInv, TypeInv', MailInv, NEW w \in Workers, Skip(w) \/ MarkSent(w)
  PROVE  MailInv'
<1> DEFINE row(status) == [rows[workers[w].job] EXCEPT !.status = status, !.stale = FALSE]
<1>1. PICK status \in {"CANCELLED", "SENT"} : Record(w, row(status))
  BY DEF Skip, MarkSent
<1>2. row(status).status \notin {"NONE", "PENDING"}
  <2>1. rows[workers[w].job] \in Row
    BY DEF TypeInv, TypeOK, Worker
  <2> QED BY <2>1 DEF Row
<1>3. mails' = mails /\ failures' = failures /\ recoveries' = recoveries
  BY DEF Skip, MarkSent, log
<1> HIDE DEF row
<1>4. PICK batch \in {{}, workers[w].batch} : WentOn(w, batch, workers[w].read)
  BY <1>1, AfterRecord
<1>5. \A j \in Jobs : rows'[j] = rows[j] \/ rows'[j].status \notin {"NONE", "PENDING"}
  BY <1>1, <1>2, AfterRecord
<1> QED BY <1>3, <1>4, <1>5, MailsWentOn

LEMMA MailsMarkFailed ==
  ASSUME TypeInv, TypeInv', MailInv, NEW w \in Workers, MarkFailed(w)
  PROVE  MailInv'
<1> DEFINE k == workers[w].job
           row == FailedRow(rows[k], workers[w].read[k])
<1>1. Record(w, row) /\ mails' = mails /\ recoveries' = recoveries
  BY DEF MarkFailed
<1> HIDE DEF row
<1>2. PICK batch \in {{}, workers[w].batch} : WentOn(w, batch, workers[w].read)
  BY <1>1, AfterRecord
<1>3. ASSUME NEW j \in Jobs
      PROVE  \/ /\ failures'[j] + recoveries'[j] = failures[j] + recoveries[j]
                /\ rows'[j] = rows[j]
             \/ failures'[j] + recoveries'[j] = failures[j] + recoveries[j] + 1
  <2>1. failures[j] \in Nat /\ recoveries[j] \in Nat
    BY DEF TypeInv, TypeOK
  <2>2. CASE j = k
    <3>1. failures'[j] = failures[j] + 1
      BY <2>2 DEF MarkFailed, TypeInv, TypeOK
    <3> QED BY <1>1, <2>1, <3>1
  <2>3. CASE j # k
    <3>1. failures'[j] = failures[j]
      BY <2>3 DEF MarkFailed, TypeInv, TypeOK
    <3> QED BY <1>1, <2>3, <3>1, AfterRecord
  <2> QED BY <2>2, <2>3
<1> QED BY <1>1, <1>2, <1>3, MailsWentOn

\* The clock and the booking service give no worker a job.
LEMMA MailsElsewhere ==
  ASSUME TypeInv, TypeInv', MailInv, UNCHANGED <<workers, log>>,
         \A j \in Jobs : rows'[j].status \in {"NONE", "PENDING"} => rows[j].status \in {"NONE", "PENDING"}
  PROVE  MailInv'
<1>1. LeftBatch'
  BY DEF MailInv, LeftBatch
<1>2. ASSUME NEW j \in Jobs
      PROVE  MailsCounted(j)'
  <2>1. Unsents(j)' = Unsents(j)
    BY DEF Unsents, Unsent
  <2>2. Cardinality(Unsents(j)') <= Cardinality(Unsents(j))
    BY <2>1, UnsentsFinite
  <2>3. Unclaimed(j)' <= Unclaimed(j)
    BY DEF Unclaimed
  <2>4. mails' = mails /\ failures' = failures /\ recoveries' = recoveries
    BY DEF log
  <2> QED BY <2>2, <2>3, <2>4, MailsKept DEF MailInv
<1> QED BY <1>1, <1>2 DEF MailInv

LEMMA MailsStep ==
  ASSUME TypeInv, TypeInv', MailInv, [Next]_vars
  PROVE  MailInv'
<1>1. CASE UNCHANGED vars
  BY <1>1, MailsElsewhere DEF vars, log
<1>2. ASSUME NEW w \in Workers, Stop(w) PROVE MailInv'
  <2>1. WentOn(w, {}, workers[w].read) /\ UNCHANGED <<rows, mails, failures, recoveries>>
    BY <1>2, AfterIdle DEF Stop, log
  <2> QED BY <2>1, MailsWentOn
<1>3. ASSUME TimePasses \/ \E j \in Jobs : WorkerStalls(j) PROVE MailInv'
  BY <1>3, AfterTime, MailsElsewhere
<1>4. ASSUME NEW b \in BookingIds, Book(b) \/ Reschedule(b) \/ Cancel(b) PROVE MailInv'
  <2>1. \A j \in Jobs : rows'[j].status \in {"NONE", "PENDING"} => rows[j].status \in {"NONE", "PENDING"}
    BY <1>4, AfterChange
  <2> QED BY <1>4, <2>1, AfterChange, MailsElsewhere
<1>5. ASSUME NEW b \in BookingIds, DeleteBooking(b) PROVE MailInv'
  <2>1. \A j \in Jobs : rows'[j].status \in {"NONE", "PENDING"} => rows[j].status \in {"NONE", "PENDING"}
    BY <1>5, AfterDelete
  <2> QED BY <1>5, <2>1, AfterDelete, MailsElsewhere
<1> QED BY <1>1, <1>2, <1>3, <1>4, <1>5, MailsRecover, MailsClaim, MailsBegin, MailsDeliver,
           MailsSettle, MailsMarkFailed DEF Next, Work

\* A job is mailed at most once more than it failed or was found abandoned, for
\* any number of workers that sweep at the same time: SKIP LOCKED gives a row
\* to one of them, and MailsCounted bounds what a worker that is late can add.
THEOREM MailedOnlyWithReason == Spec => []NoNeedlessMail
<1>1. Init => MailInv
  <2> SUFFICES ASSUME Init PROVE MailInv
    OBVIOUS
  <2>1. LeftBatch
    BY DEF Init, IdleWorker, LeftBatch, Delivering
  <2>2. ASSUME NEW j \in Jobs PROVE MailsCounted(j)
    <3>1. Unsents(j) = {}
      BY DEF Init, IdleWorker, Unsents, Unsent, Delivering
    <3>2. Cardinality(Unsents(j)) = 0
      BY <3>1, FS_EmptySet
    <3>3. mails[j] = 0 /\ failures[j] = 0 /\ recoveries[j] = 0 /\ Unclaimed(j) \in {0, 1}
      BY DEF Init, Unclaimed
    <3> QED BY <3>2, <3>3 DEF MailsCounted
  <2> QED BY <2>1, <2>2 DEF MailInv
<1>2. TypeInv /\ MailInv /\ [Next]_vars => TypeInv' /\ MailInv'
  BY TypeStep, MailsStep
<1>3. TypeInv /\ MailInv => NoNeedlessMail
  <2> SUFFICES ASSUME TypeInv, MailInv, NEW j \in Jobs
               PROVE  mails[j] <= 1 + failures[j] + recoveries[j]
    BY DEF NoNeedlessMail
  <2>1. /\ Cardinality(Unsents(j)) \in Nat /\ Unclaimed(j) \in {0, 1}
        /\ mails[j] \in Nat /\ failures[j] \in Nat /\ recoveries[j] \in Nat
    BY UnsentsFinite DEF Unclaimed, TypeInv, TypeOK
  <2> QED BY <2>1 DEF MailInv, MailsCounted
<1> QED BY <1>1, <1>2, <1>3, TypeInit, PTL DEF Spec

=============================================================================
