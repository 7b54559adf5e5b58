------------------------ MODULE CalendarSync_proofs ------------------------
(***************************************************************************)
(* What the sync worker promises for any number of bookings, processes,    *)
(* calendars and faults: the types, with the count of attempts, that a job *)
(* is given up with a reason, that a mapping which is SYNCED tells the     *)
(* truth about Google, and that a completed job has left its mark.         *)
(***************************************************************************)
EXTENDS CalendarSync, TLAPS

\* An attempt is left in every waiting row, and in what a sweep has read.
AttemptsLeft ==
  /\ \A j \in Jobs : rows[j].status \in Waiting => rows[j].attempts < MaxAttempts
  /\ \A w \in Workers, j \in Jobs : workers[w].read[j] < MaxAttempts

\* Every attempt that is counted, or was read, was a failure.
AttemptsFailed ==
  revocations = 0 =>
    /\ \A j \in Jobs : rows[j].attempts <= failures[j]
    /\ \A w \in Workers, j \in Jobs : workers[w].read[j] <= failures[j]

\* A worker that records a refusal was refused.
RefusedCounted == \A w \in Workers : workers[w].step = "refused" => revocations > 0

SyncInv == TypeOK /\ AttemptsLeft /\ AttemptsFailed /\ RefusedCounted /\ GivenUpWithReason

Steps == {"idle", "recovered", "next"} \cup AtJob
Reads == [Jobs -> 0 .. MaxAttempts]

-----------------------------------------------------------------------------
(* The values the operators are built from *)

LEMMA JobParts == \A j \in Jobs : BookingOf(j) \in BookingIds /\ SequenceOf(j) \in Sequences
BY DEF Jobs, BookingOf, SequenceOf

LEMMA JobsOfBookings == \A b \in BookingIds, sequence \in Sequences : <<b, sequence>> \in Jobs
BY DEF Jobs

LEMMA NoJobTyped == NoJob \in Jobs
<1>1. 0 \in Sequences
  BY BoundsAssumption DEF Sequences
<1>2. \E j : j \in Jobs
  BY <1>1, SetsAssumption, JobsOfBookings
<1> QED
  BY <1>2 DEF NoJob

LEMMA AnyCalendarTyped == AnyCalendar \in Calendars
BY SetsAssumption DEF AnyCalendar

LEMMA NoneTyped == NoBooking \in BookingRow /\ NoMapping \in Mapping /\ EmptyRow \in Row
<1>1. 0 \in Sequences /\ 0 \in 0 .. MaxAttempts
  BY BoundsAssumption, MaxAttemptsAssumption DEF Sequences
<1>2. NoBooking \in BookingRow
  BY <1>1 DEF NoBooking, BookingRow
<1>3. NoMapping \in Mapping
  BY <1>1, AnyCalendarTyped DEF NoMapping, Mapping
<1>4. EmptyRow \in Row
  BY <1>1, AnyCalendarTyped DEF EmptyRow, Row
<1> QED
  BY <1>2, <1>3, <1>4

LEMMA IdleTyped == IdleWorker \in Worker /\ \A j \in Jobs : IdleWorker.read[j] = 0
<1>1. [j \in Jobs |-> 0] \in Reads
  BY MaxAttemptsAssumption DEF Reads
<1> QED
  BY <1>1, NoJobTyped, NoneTyped DEF IdleWorker, Worker, Reads

-----------------------------------------------------------------------------
(* The steps of a worker *)

\* What a step of a worker leaves of the others and of what he has read.
WorkerMoves(w, step) ==
  /\ workers' \in [Workers -> Worker]
  /\ \A v \in Workers \ {w} : workers'[v] = workers[v]
  /\ workers'[w].step = step
  /\ \A j \in Jobs : workers'[w].read[j] = workers[w].read[j]

LEMMA GotoMoves ==
  ASSUME TypeOK, NEW w \in Workers, NEW step \in Steps, Goto(w, step)
  PROVE  WorkerMoves(w, step)
<1>1. workers[w] \in Worker /\ workers \in [Workers -> Worker]
  BY DEF TypeOK
<1>2. [workers[w] EXCEPT !.step = step] \in Worker
  BY <1>1 DEF Worker, Steps
<1>3. workers' = [workers EXCEPT ![w] = [workers[w] EXCEPT !.step = step]]
  BY <1>1 DEF Goto
<1>4. [workers[w] EXCEPT !.step = step].step = step
      /\ [workers[w] EXCEPT !.step = step].read = workers[w].read
  BY <1>1 DEF Worker
<1> QED
  BY <1>1, <1>2, <1>3, <1>4 DEF WorkerMoves

\* The next job or the end of the sweep; "read" is what is read from then on.
WorkerGoesOn(w, read) ==
  /\ workers' \in [Workers -> Worker]
  /\ \A v \in Workers \ {w} : workers'[v] = workers[v]
  /\ workers'[w].step \in {"idle", "next"}
  /\ \A j \in Jobs : workers'[w].read[j] \in {0, read[j]}

LEMMA IdleGoesOn ==
  ASSUME TypeOK, NEW w \in Workers, NEW read \in Reads, BecomeIdle(w)
  PROVE  WorkerGoesOn(w, read)
<1>1. workers \in [Workers -> Worker] /\ workers' = [workers EXCEPT ![w] = IdleWorker]
  BY DEF TypeOK, BecomeIdle
<1>2. IdleWorker.step = "idle"
  BY DEF IdleWorker
<1> QED
  BY <1>1, <1>2, IdleTyped DEF WorkerGoesOn

LEMMA ContinueGoesOn ==
  ASSUME TypeOK, NEW w \in Workers, NEW batch \in SUBSET Jobs, NEW read \in Reads,
         Continue(w, batch, read)
  PROVE  WorkerGoesOn(w, read)
<1>1. CASE batch = {}
  BY <1>1, IdleGoesOn DEF Continue
<1>2. CASE batch # {}
  <2> DEFINE new == [step |-> "next", batch |-> batch, read |-> read, job |-> NoJob,
                     view |-> NoBooking]
  <2>1. workers' = [workers EXCEPT ![w] = new] /\ workers \in [Workers -> Worker]
    BY <1>2 DEF Continue, TypeOK
  <2>2. new \in Worker
    BY NoJobTyped, NoneTyped DEF Worker, Reads
  <2>3. new.step = "next" /\ new.read = read
    OBVIOUS
  <2> HIDE DEF new
  <2> QED
    BY <2>1, <2>2, <2>3 DEF WorkerGoesOn
<1> QED
  BY <1>1, <1>2

-----------------------------------------------------------------------------
(* What a step keeps *)

\* A row that was written to and not given up: it counts no attempt more.
RowKept(new, old) ==
  /\ new.attempts \in {0, old.attempts}
  /\ new.status = "DEAD_LETTER" => old.status = "DEAD_LETTER"
  /\ new.status \in Waiting => old.status \in Waiting \/ new.attempts = 0

\* Of a row a worker has read nothing, what he had read, or what it says.
ReadsKept ==
  \A w \in Workers, j \in Jobs :
    \/ workers'[w].read[j] \in {0, workers[w].read[j]}
    \/ workers'[w].read[j] = rows[j].attempts /\ rows[j].status \in Waiting

RefusalsKept == \A w \in Workers : workers'[w].step = "refused" => workers[w].step = "refused"

LEMMA KeptStep ==
  ASSUME SyncInv, TypeOK', ReadsKept, RefusalsKept, UNCHANGED log,
         \A j \in Jobs : RowKept(rows'[j], rows[j])
  PROVE  SyncInv'
<1> USE DEF log
<1>1. \A j \in Jobs : rows[j].attempts \in Nat /\ failures[j] \in Nat
  BY MaxAttemptsAssumption DEF SyncInv, TypeOK, Row
<1>2. AttemptsLeft'
  <2>1. \A j \in Jobs : rows'[j].status \in Waiting => rows'[j].attempts < MaxAttempts
    BY MaxAttemptsAssumption DEF SyncInv, AttemptsLeft, RowKept
  <2>2. \A w \in Workers, j \in Jobs : workers'[w].read[j] < MaxAttempts
    BY MaxAttemptsAssumption DEF SyncInv, AttemptsLeft, ReadsKept
  <2> QED
    BY <2>1, <2>2 DEF AttemptsLeft
<1>3. AttemptsFailed'
  <2> SUFFICES ASSUME revocations = 0
               PROVE  /\ \A j \in Jobs : rows'[j].attempts <= failures[j]
                      /\ \A w \in Workers, j \in Jobs : workers'[w].read[j] <= failures[j]
    BY DEF AttemptsFailed
  <2>1. \A j \in Jobs : rows'[j].attempts <= failures[j]
    BY <1>1 DEF SyncInv, AttemptsFailed, RowKept
  <2>2. \A w \in Workers, j \in Jobs : workers'[w].read[j] <= failures[j]
    BY <1>1 DEF SyncInv, AttemptsFailed, ReadsKept
  <2> QED
    BY <2>1, <2>2
<1>4. RefusedCounted'
  BY DEF SyncInv, RefusedCounted, RefusalsKept
<1>5. GivenUpWithReason'
  BY DEF SyncInv, GivenUpWithReason, RowKept
<1> QED
  BY <1>2, <1>3, <1>4, <1>5 DEF SyncInv

\* The workers' moves keep what is asked of them.
LEMMA MovesKept ==
  ASSUME NEW w \in Workers, NEW step, step # "refused", WorkerMoves(w, step)
  PROVE  ReadsKept /\ RefusalsKept
<1>1. \A v \in Workers : v = w \/ workers'[v] = workers[v]
  BY DEF WorkerMoves
<1> QED
  BY <1>1 DEF WorkerMoves, ReadsKept, RefusalsKept

LEMMA GoingOnKept ==
  ASSUME NEW w \in Workers, NEW read, WorkerGoesOn(w, read),
         \A j \in Jobs : \/ read[j] \in {0, workers[w].read[j]}
                         \/ read[j] = rows[j].attempts /\ rows[j].status \in Waiting
  PROVE  ReadsKept /\ RefusalsKept
<1>1. \A v \in Workers : v = w \/ workers'[v] = workers[v]
  BY DEF WorkerGoesOn
<1> QED
  BY <1>1 DEF WorkerGoesOn, ReadsKept, RefusalsKept

LEMMA SameRowsKept == UNCHANGED rows => \A j \in Jobs : RowKept(rows'[j], rows[j])
BY DEF RowKept

LEMMA SameWorkersKept == UNCHANGED workers => ReadsKept /\ RefusalsKept
BY DEF ReadsKept, RefusalsKept

-----------------------------------------------------------------------------
(* The actions of a worker *)

LEMMA RecoverStep ==
  ASSUME SyncInv, NEW w \in Workers, Recover(w)
  PROVE  SyncInv'
<1>1. TypeOK /\ UNCHANGED <<booking, mapping, integration, events, log, crossed, bounds>>
  BY DEF Recover, SyncInv
<1>2. WorkerMoves(w, "recovered")
  BY <1>1, GotoMoves DEF Recover, Steps
<1>3. \A j \in Jobs : rows[j].status = "PROCESSING"
                       => RecoveredRow(rows[j]) \in Row /\ RowKept(RecoveredRow(rows[j]), rows[j])
  BY <1>1 DEF TypeOK, Row, RecoveredRow, RowKept, Waiting
<1>4. \A j \in Jobs : /\ rows'[j] \in Row
                      /\ RowKept(rows'[j], rows[j])
  BY <1>1, <1>3 DEF Recover, StaleJobs, TypeOK, RowKept
<1>5. rows' \in [Jobs -> Row]
  BY <1>4 DEF Recover
<1>6. TypeOK'
  BY <1>1, <1>2, <1>5 DEF TypeOK, WorkerMoves, log, bounds
<1> QED
  BY <1>1, <1>2, <1>4, <1>6, MovesKept, KeptStep

LEMMA ClaimStep ==
  ASSUME SyncInv, NEW w \in Workers, Claim(w)
  PROVE  SyncInv'
<1>1. TypeOK /\ UNCHANGED <<booking, mapping, integration, events, log, crossed, bounds>>
  BY DEF Claim, SyncInv
<1>2. PICK batch \in SUBSET Claimable :
        /\ rows' = [j \in Jobs |-> IF j \in batch THEN ClaimedRow(rows[j]) ELSE rows[j]]
        /\ Continue(w, batch, [j \in Jobs |-> IF j \in batch THEN rows[j].attempts ELSE 0])
  BY DEF Claim
<1> DEFINE read == [j \in Jobs |-> IF j \in batch THEN rows[j].attempts ELSE 0]
<1>3. batch \in SUBSET Jobs /\ \A j \in batch : rows[j].status = "PENDING"
  BY DEF Claimable
<1>4. \A j \in batch : /\ ClaimedRow(rows[j]) \in Row
                       /\ RowKept(ClaimedRow(rows[j]), rows[j])
  BY <1>1, <1>3 DEF TypeOK, Row, ClaimedRow, RowKept, Waiting
<1>5. rows' \in [Jobs -> Row] /\ \A j \in Jobs : RowKept(rows'[j], rows[j])
  <2>1. \A j \in Jobs : rows[j] \in Row /\ RowKept(rows[j], rows[j])
    BY <1>1 DEF TypeOK, RowKept
  <2> QED
    BY <1>2, <1>3, <1>4, <2>1
<1>6. read \in Reads
  BY <1>1, <1>3, MaxAttemptsAssumption DEF TypeOK, Row, Reads
<1>7. WorkerGoesOn(w, read)
  BY <1>1, <1>2, <1>3, <1>6, ContinueGoesOn
<1>8. ReadsKept /\ RefusalsKept
  <2>1. \A j \in Jobs : \/ read[j] \in {0, workers[w].read[j]}
                        \/ read[j] = rows[j].attempts /\ rows[j].status \in Waiting
    BY <1>3 DEF Waiting
  <2> HIDE DEF read
  <2> QED
    BY <1>7, <2>1, GoingOnKept
<1>9. TypeOK'
  BY <1>1, <1>5, <1>7 DEF TypeOK, WorkerGoesOn, log, bounds
<1> QED
  BY <1>1, <1>5, <1>8, <1>9, KeptStep

LEMMA BeginStep ==
  ASSUME SyncInv, NEW w \in Workers, NEW j \in Jobs, Begin(w, j)
  PROVE  SyncInv'
<1> DEFINE step == IF Gone(BookingOf(j)) \/ Outdated(j) THEN "completing" ELSE "reading"
           new == [workers[w] EXCEPT !.batch = workers[w].batch \ {j}, !.job = j,
                                     !.view = booking[BookingOf(j)], !.step = step]
<1>1. TypeOK /\ UNCHANGED <<tables, events, log, bounds>> /\ workers[w] \in Worker
      /\ workers \in [Workers -> Worker]
  BY DEF Begin, SyncInv, TypeOK
<1>2. workers' = [workers EXCEPT ![w] = new]
  BY <1>1 DEF Begin
<1>3. booking[BookingOf(j)] \in BookingRow /\ step \in AtJob /\ step # "refused"
  BY <1>1, JobParts DEF TypeOK, AtJob, Looking
<1> HIDE DEF step
<1>4. new \in Worker
  BY <1>1, <1>3 DEF Worker
<1>5. new.step = step /\ new.read = workers[w].read
  BY <1>1 DEF Worker
<1> HIDE DEF new
<1>6. WorkerMoves(w, step)
  BY <1>1, <1>2, <1>4, <1>5 DEF WorkerMoves
<1>7. crossed' \subseteq BookingIds
  BY <1>1, JobParts DEF Begin, TypeOK
<1>8. TypeOK'
  BY <1>1, <1>6, <1>7 DEF TypeOK, WorkerMoves, tables, log, bounds
<1>9. \A k \in Jobs : RowKept(rows'[k], rows[k])
  BY <1>1, SameRowsKept DEF tables
<1> QED
  BY <1>1, <1>3, <1>6, <1>8, <1>9, MovesKept, KeptStep

\* The steps that read the integration, call Google and record what it said: of
\* the worker they change the step, and of the tables the mapping.
LEMMA CallStep ==
  ASSUME SyncInv, NEW w \in Workers, NEW step \in Steps, step # "refused", Goto(w, step),
         UNCHANGED <<booking, rows, integration, log, crossed, bounds>>,
         mapping' \in [BookingIds -> Mapping],
         events' \in [Calendars -> [BookingIds -> Event]]
  PROVE  SyncInv'
<1>1. TypeOK
  BY DEF SyncInv
<1>2. WorkerMoves(w, step)
  BY <1>1, GotoMoves
<1>3. TypeOK'
  BY <1>1, <1>2 DEF TypeOK, WorkerMoves, log, bounds
<1> QED
  BY <1>2, <1>3, MovesKept, SameRowsKept, KeptStep

LEMMA JobTyped ==
  ASSUME TypeOK, NEW w \in Workers
  PROVE  /\ workers[w].job \in Jobs /\ BookingOf(workers[w].job) \in BookingIds
         /\ SequenceOf(workers[w].job) \in Sequences
         /\ rows[workers[w].job] \in Row /\ rows[workers[w].job].calendar \in Calendars
         /\ workers[w].view.time \in Sequences
         /\ workers[w].read \in Reads
         /\ workers[w].batch \in SUBSET Jobs
<1>1. workers[w] \in Worker
  BY DEF TypeOK
<1>2. workers[w].job \in Jobs /\ workers[w].read \in Reads /\ workers[w].batch \in SUBSET Jobs
      /\ workers[w].view \in BookingRow
  BY <1>1 DEF Worker, Reads
<1>3. workers[w].view.time \in Sequences
  BY <1>2 DEF BookingRow
<1>4. rows[workers[w].job] \in Row
  BY <1>2 DEF TypeOK
<1> QED
  BY <1>2, <1>3, <1>4, JobParts DEF Row

LEMMA EventsTyped ==
  ASSUME TypeOK, NEW w \in Workers
  PROVE  /\ EventOf(w) \in Event
         /\ \A event \in Event : SetEvent(w, event) => events' \in [Calendars -> [BookingIds -> Event]]
         /\ Removed(EventOf(w)) \in Event
         /\ \A time \in Sequences : Patched(EventOf(w), time) \in Event
         /\ [state |-> "present", time |-> workers[w].view.time] \in Event
<1> DEFINE c == rows[workers[w].job].calendar
           b == BookingOf(workers[w].job)
<1>1. c \in Calendars /\ b \in BookingIds /\ workers[w].view.time \in Sequences
  BY JobTyped
<1>2. events \in [Calendars -> [BookingIds -> Event]]
  BY DEF TypeOK
<1>3. EventOf(w) = events[c][b]
  BY DEF EventOf
<1>4. \A event \in Event : SetEvent(w, event) => events' = [events EXCEPT ![c][b] = event]
  BY DEF SetEvent
<1> HIDE DEF c, b
<1>5. EventOf(w) \in Event
  BY <1>1, <1>2, <1>3
<1>6. \A event \in Event : SetEvent(w, event) => events' \in [Calendars -> [BookingIds -> Event]]
  BY <1>1, <1>2, <1>4
<1>7. Removed(EventOf(w)) \in Event
  BY <1>5 DEF Removed, Event
<1>8. \A time \in Sequences : Patched(EventOf(w), time) \in Event
  BY <1>5 DEF Patched, Event
<1>9. [state |-> "present", time |-> workers[w].view.time] \in Event
  BY <1>1 DEF Event
<1> QED
  BY <1>5, <1>6, <1>7, <1>8, <1>9

LEMMA GoogleStep ==
  ASSUME SyncInv, NEW w \in Workers,
         \/ ReadIntegration(w) \/ Authorise(w)
         \/ DeleteEvent(w) \/ InsertEvent(w) \/ PatchEvent(w) \/ SyncFails(w)
  PROVE  SyncInv'
<1>1. TypeOK /\ UNCHANGED <<booking, rows, integration, log, crossed, bounds, mapping>>
  BY DEF SyncInv, ReadIntegration, Authorise, DeleteEvent, InsertEvent, PatchEvent, SyncFails,
         tables
<1>2. mapping' \in [BookingIds -> Mapping]
  BY <1>1 DEF TypeOK
<1>3. UNCHANGED events => events' \in [Calendars -> [BookingIds -> Event]]
  BY <1>1 DEF TypeOK
<1>4. workers[w].view.time \in Sequences
  BY <1>1, JobTyped
<1>5. events' \in [Calendars -> [BookingIds -> Event]]
  BY <1>1, <1>3, <1>4, EventsTyped
     DEF ReadIntegration, Authorise, DeleteEvent, InsertEvent, PatchEvent, SyncFails
<1>6. PICK step \in Steps \ {"refused"} : Goto(w, step)
  BY DEF ReadIntegration, Authorise, DeleteEvent, InsertEvent, PatchEvent, SyncFails, Steps, AtJob,
         Looking, Failing
<1> QED
  BY <1>1, <1>2, <1>5, <1>6, CallStep

LEMMA RecordStep ==
  ASSUME SyncInv, NEW w \in Workers, RecordMapping(w)
  PROVE  SyncInv'
<1> DEFINE j == workers[w].job
           b == BookingOf(j)
<1>1. TypeOK /\ UNCHANGED <<booking, rows, integration, events, log, crossed, bounds>>
      /\ Goto(w, "completing")
  BY DEF SyncInv, RecordMapping
<1>2. b \in BookingIds /\ SequenceOf(j) \in Sequences /\ rows[j].calendar \in Calendars
  BY <1>1, JobTyped
<1>3. mapping \in [BookingIds -> Mapping] /\ mapping[b] \in Mapping
  BY <1>1, <1>2 DEF TypeOK
<1>4. [status |-> "SYNCED", sequence |-> SequenceOf(j), calendar |-> rows[j].calendar] \in Mapping
  BY <1>2 DEF Mapping
<1>5. [mapping[b] EXCEPT !.status = "SYNCED", !.sequence = SequenceOf(j)] \in Mapping
  BY <1>2, <1>3 DEF Mapping
<1>6. \/ mapping' = [mapping EXCEPT ![b] =
            [status |-> "SYNCED", sequence |-> SequenceOf(j), calendar |-> rows[j].calendar]]
      \/ mapping' = [mapping EXCEPT ![b] =
            [mapping[b] EXCEPT !.status = "SYNCED", !.sequence = SequenceOf(j)]]
      \/ mapping' = mapping
  BY <1>2, <1>3 DEF RecordMapping
<1> HIDE DEF j, b
<1>7. mapping' \in [BookingIds -> Mapping]
  BY <1>2, <1>3, <1>4, <1>5, <1>6
<1>8. events' \in [Calendars -> [BookingIds -> Event]]
  BY <1>1 DEF TypeOK
<1> QED
  BY <1>1, <1>7, <1>8, CallStep DEF Steps, AtJob, Looking

\* The first write of a refusal: from now on there is a reason to give up.
LEMMA RefusedStep ==
  ASSUME SyncInv, NEW w \in Workers, GrantRefused(w)
  PROVE  SyncInv'
<1>1. TypeOK /\ UNCHANGED <<booking, rows, mapping, events, failures, crossed, faults>>
      /\ revocations' = revocations + 1 /\ switches' = switches + 1 /\ Revoke
      /\ Goto(w, "refused")
  BY DEF SyncInv, GrantRefused
<1>2. WorkerMoves(w, "refused")
  BY <1>1, GotoMoves DEF Steps, AtJob, Failing
<1>3. revocations' \in Nat /\ revocations' > 0 /\ switches' \in Nat
  BY <1>1 DEF TypeOK
<1>4. integration' \in Integration
  BY <1>1 DEF TypeOK, Revoke, Integration
<1>5. TypeOK'
  BY <1>1, <1>2, <1>3, <1>4 DEF TypeOK, WorkerMoves
<1>6. AttemptsLeft'
  BY <1>1, <1>2 DEF SyncInv, AttemptsLeft, WorkerMoves
<1> QED
  BY <1>1, <1>3, <1>5, <1>6 DEF SyncInv, AttemptsFailed, RefusedCounted, GivenUpWithReason

\* Workers that end a job have read nothing of it any more.
LEMMA ReadEnds ==
  ASSUME TypeOK, NEW w \in Workers, NEW k \in Jobs
  PROVE  /\ [workers[w].read EXCEPT ![k] = 0] \in Reads
         /\ \A j \in Jobs : [workers[w].read EXCEPT ![k] = 0][j] \in {0, workers[w].read[j]}
<1>1. workers[w].read \in Reads
  BY JobTyped
<1> QED
  BY <1>1, MaxAttemptsAssumption DEF Reads

LEMMA CompleteStep ==
  ASSUME SyncInv, NEW w \in Workers, Complete(w)
  PROVE  SyncInv'
<1> DEFINE j == workers[w].job
           read == [workers[w].read EXCEPT ![j] = 0]
<1>1. TypeOK /\ UNCHANGED <<booking, mapping, integration, events, log, crossed, bounds>>
  BY DEF Complete, SyncInv
<1>2. j \in Jobs /\ rows[j] \in Row /\ workers[w].batch \in SUBSET Jobs
  BY <1>1, JobTyped
<1>3. read \in Reads /\ \A k \in Jobs : read[k] \in {0, workers[w].read[k]}
  BY <1>1, <1>2, ReadEnds
<1>4. CompletedRow(rows[j]) \in Row /\ RowKept(CompletedRow(rows[j]), rows[j])
  BY <1>2 DEF Row, CompletedRow, RowKept, Waiting, Settled
<1>5. \/ rows' = [rows EXCEPT ![j] = CompletedRow(rows[j])] /\ Continue(w, workers[w].batch, read)
      \/ UNCHANGED rows /\ BecomeIdle(w)
  BY <1>1, <1>2 DEF Complete, TypeOK
<1> HIDE DEF j, read
<1>6. WorkerGoesOn(w, read)
  BY <1>1, <1>2, <1>3, <1>5, ContinueGoesOn, IdleGoesOn
<1>7. rows' \in [Jobs -> Row] /\ \A k \in Jobs : RowKept(rows'[k], rows[k])
  <2>1. rows \in [Jobs -> Row] /\ \A k \in Jobs : RowKept(rows[k], rows[k])
    BY <1>1 DEF TypeOK, RowKept
  <2> QED
    BY <1>2, <1>4, <1>5, <2>1
<1>8. ReadsKept /\ RefusalsKept
  BY <1>3, <1>6, GoingOnKept
<1>9. TypeOK'
  BY <1>1, <1>6, <1>7 DEF TypeOK, WorkerGoesOn, log, bounds
<1> QED
  BY <1>1, <1>7, <1>8, <1>9, KeptStep

LEMMA FlagStep ==
  ASSUME SyncInv, NEW w \in Workers, FlagMapping(w)
  PROVE  SyncInv'
<1> DEFINE j == workers[w].job
           b == BookingOf(j)
           read == [workers[w].read EXCEPT ![j] = 0]
<1>1. TypeOK /\ UNCHANGED <<booking, rows, integration, events, log, crossed, bounds>>
  BY DEF FlagMapping, SyncInv
<1>2. j \in Jobs /\ b \in BookingIds /\ workers[w].batch \in SUBSET Jobs
  BY <1>1, JobTyped
<1>3. read \in Reads /\ \A k \in Jobs : read[k] \in {0, workers[w].read[k]}
  BY <1>1, <1>2, ReadEnds
<1>4. Continue(w, workers[w].batch, read)
      /\ \/ mapping' = mapping
         \/ mapping' = [mapping EXCEPT ![b].status = "FAILED"]
  BY DEF FlagMapping
<1> HIDE DEF j, b, read
<1>5. WorkerGoesOn(w, read)
  BY <1>1, <1>2, <1>3, <1>4, ContinueGoesOn
<1>6. mapping' \in [BookingIds -> Mapping]
  BY <1>1, <1>2, <1>4 DEF TypeOK, Mapping
<1>7. ReadsKept /\ RefusalsKept
  BY <1>3, <1>5, GoingOnKept
<1>8. TypeOK'
  BY <1>1, <1>5, <1>6 DEF TypeOK, WorkerGoesOn, log, bounds
<1> QED
  BY <1>1, <1>7, <1>8, SameRowsKept, KeptStep

LEMMA StopStep ==
  ASSUME SyncInv, NEW w \in Workers, Stop(w)
  PROVE  SyncInv'
<1>1. TypeOK /\ UNCHANGED <<tables, events, log, crossed, switches>> /\ BecomeIdle(w)
      /\ faults' = faults + 1
  BY DEF Stop, SyncInv
<1>2. WorkerGoesOn(w, workers[w].read)
  BY <1>1, JobTyped, IdleGoesOn
<1>3. ReadsKept /\ RefusalsKept
  BY <1>2, GoingOnKept
<1>4. TypeOK'
  BY <1>1, <1>2 DEF TypeOK, WorkerGoesOn, tables, log
<1> QED
  BY <1>1, <1>3, <1>4, SameRowsKept, KeptStep DEF tables

\* A failure is counted, and its attempt with it.
LEMMA FailedStep ==
  ASSUME SyncInv, NEW w \in Workers, MarkFailed(w)
  PROVE  SyncInv'
<1> DEFINE j == workers[w].job
           read == workers[w].read[j]
<1>1. TypeOK /\ UNCHANGED <<booking, mapping, integration, events, revocations, crossed, bounds>>
      /\ failures' = [failures EXCEPT ![j] = @ + 1] /\ workers[w].step = "failed"
  BY DEF MarkFailed, SyncInv
<1>2. j \in Jobs /\ rows[j] \in Row /\ workers[w].read \in Reads
  BY <1>1, JobTyped
<1>3. read \in 0 .. MaxAttempts /\ read < MaxAttempts
  BY <1>2 DEF Reads, SyncInv, AttemptsLeft
<1>4. failures' \in [Jobs -> Nat] /\ failures'[j] = failures[j] + 1 /\ failures[j] \in Nat
      /\ \A k \in Jobs : failures'[k] >= failures[k]
  BY <1>1, <1>2 DEF TypeOK
<1>5. \/ rows' = [rows EXCEPT ![j] = FailedRow(rows[j], read)] /\ Goto(w, "flagging")
      \/ UNCHANGED rows /\ BecomeIdle(w)
  BY <1>1, <1>2 DEF MarkFailed, TypeOK
<1> HIDE DEF j
<1>6. read + 1 \in 0 .. MaxAttempts
  BY <1>3, MaxAttemptsAssumption
<1> HIDE DEF read
<1> DEFINE attempts == read + 1
           status == IF Exhausted(attempts) THEN "DEAD_LETTER" ELSE "PENDING"
           failed == [rows[j] EXCEPT !.status = status, !.attempts = attempts,
                                     !.due = Exhausted(attempts), !.stale = FALSE]
<1>7. FailedRow(rows[j], read) \in Row /\ FailedRow(rows[j], read).attempts = read + 1
      /\ FailedRow(rows[j], read).status = IF Exhausted(read + 1) THEN "DEAD_LETTER" ELSE "PENDING"
  <2>1. FailedRow(rows[j], read) = failed
    BY DEF FailedRow
  <2>2. attempts \in 0 .. MaxAttempts /\ status \in Waiting \cup Settled
        /\ Exhausted(attempts) \in BOOLEAN
    BY <1>6 DEF Waiting, Settled, Exhausted
  <2> HIDE DEF attempts, status
  <2>3. failed \in Row /\ failed.attempts = attempts /\ failed.status = status
    BY <1>2, <2>2 DEF Row
  <2> QED
    BY <2>1, <2>3 DEF attempts, status
<1>8. /\ workers' \in [Workers -> Worker]
      /\ \A v \in Workers, k \in Jobs : workers'[v].read[k] \in {0, workers[v].read[k]}
      /\ \A v \in Workers : workers'[v].step = "refused" => workers[v].step = "refused"
  <2>1. CASE Goto(w, "flagging")
    <3>1. WorkerMoves(w, "flagging")
      BY <1>1, <2>1, GotoMoves DEF Steps, AtJob, Failing
    <3>2. \A v \in Workers : v = w \/ workers'[v] = workers[v]
      BY <3>1 DEF WorkerMoves
    <3> QED
      BY <3>1, <3>2 DEF WorkerMoves
  <2>2. CASE BecomeIdle(w)
    <3>1. WorkerGoesOn(w, workers[w].read)
      BY <1>1, <1>2, <2>2, IdleGoesOn
    <3>2. \A v \in Workers : v = w \/ workers'[v] = workers[v]
      BY <3>1 DEF WorkerGoesOn
    <3> QED
      BY <3>1, <3>2 DEF WorkerGoesOn
  <2> QED
    BY <1>5, <2>1, <2>2
<1>9. \A k \in Jobs : rows'[k] = rows[k] \/ (k = j /\ rows'[k] = FailedRow(rows[j], read))
  BY <1>1, <1>2, <1>5 DEF TypeOK
<1>10. rows' \in [Jobs -> Row]
  BY <1>1, <1>2, <1>5, <1>7 DEF TypeOK
<1>11. TypeOK'
  BY <1>1, <1>4, <1>8, <1>10 DEF TypeOK, bounds
<1>12. AttemptsLeft'
  <2>1. read + 1 < MaxAttempts \/ Exhausted(read + 1)
    BY <1>6, MaxAttemptsAssumption DEF Exhausted
  <2>2. \A k \in Jobs : rows'[k].status \in Waiting => rows'[k].attempts < MaxAttempts
    BY <1>7, <1>9, <2>1 DEF SyncInv, AttemptsLeft, Waiting
  <2>3. \A v \in Workers, k \in Jobs : workers'[v].read[k] < MaxAttempts
    BY <1>8, MaxAttemptsAssumption DEF SyncInv, AttemptsLeft
  <2> QED
    BY <2>2, <2>3 DEF AttemptsLeft
<1>13. AttemptsFailed'
  <2> SUFFICES ASSUME revocations = 0
               PROVE  /\ \A k \in Jobs : rows'[k].attempts <= failures'[k]
                      /\ \A v \in Workers, k \in Jobs : workers'[v].read[k] <= failures'[k]
    BY <1>1 DEF AttemptsFailed
  <2>1. \A k \in Jobs : /\ rows[k].attempts \in Nat /\ failures[k] \in Nat /\ failures'[k] \in Nat
                        /\ rows[k].attempts <= failures[k]
    BY <1>1, <1>4, MaxAttemptsAssumption DEF TypeOK, Row, SyncInv, AttemptsFailed
  <2>2. \A v \in Workers, k \in Jobs : workers[v].read[k] \in Nat /\ workers[v].read[k] <= failures[k]
    <3>1. \A v \in Workers : workers[v].read \in Reads
      BY <1>1, JobTyped
    <3> QED
      BY <3>1, MaxAttemptsAssumption DEF Reads, SyncInv, AttemptsFailed
  <2>3. read + 1 <= failures'[j]
    BY <1>2, <1>3, <1>4, <2>2 DEF read
  <2>4. \A k \in Jobs : rows'[k].attempts <= failures'[k]
    BY <1>4, <1>7, <1>9, <2>1, <2>3
  <2>5. \A v \in Workers, k \in Jobs : workers'[v].read[k] <= failures'[k]
    BY <1>4, <1>8, <2>1, <2>2
  <2> QED
    BY <2>4, <2>5
<1>14. RefusedCounted'
  BY <1>1, <1>8 DEF SyncInv, RefusedCounted
<1>15. GivenUpWithReason'
  <2> SUFFICES ASSUME NEW k \in Jobs, rows'[k].status = "DEAD_LETTER", ~(revocations > 0)
               PROVE  failures'[k] >= MaxAttempts
    BY <1>1 DEF GivenUpWithReason
  <2>1. revocations = 0
    BY <1>1 DEF TypeOK
  <2>2. CASE rows'[k] = rows[k]
    <3>1. failures[k] >= MaxAttempts /\ failures[k] \in Nat /\ failures'[k] \in Nat
      BY <1>1, <1>4, <2>2 DEF SyncInv, GivenUpWithReason, TypeOK
    <3> QED
      BY <1>4, <3>1, MaxAttemptsAssumption
  <2>3. CASE k = j /\ rows'[k] = FailedRow(rows[j], read)
    <3>1. read + 1 >= MaxAttempts
      BY <1>7, <2>3 DEF Exhausted
    <3>2. read + 1 <= failures'[j] /\ failures'[j] \in Nat
      BY <1>2, <1>4, <1>7, <1>9, <1>13, <2>1, <2>3, <1>1 DEF AttemptsFailed
    <3> QED
      BY <1>6, <2>3, <3>1, <3>2, MaxAttemptsAssumption
  <2> QED
    BY <1>9, <2>2, <2>3
<1> QED
  BY <1>11, <1>12, <1>13, <1>14, <1>15 DEF SyncInv

\* A refusal gives its job up at once, and says so.
LEMMA RevokeStep ==
  ASSUME SyncInv, NEW w \in Workers, RevokeAgain(w)
  PROVE  SyncInv'
<1> DEFINE j == workers[w].job
           read == workers[w].read[j]
           new == [rows[j] EXCEPT !.status = "DEAD_LETTER", !.stale = FALSE, !.attempts = read + 1]
<1>1. TypeOK /\ UNCHANGED <<booking, mapping, events, log, crossed, bounds>> /\ Revoke
      /\ workers[w].step = "refused"
  BY DEF RevokeAgain, SyncInv
<1>2. j \in Jobs /\ rows[j] \in Row /\ workers[w].read \in Reads
  BY <1>1, JobTyped
<1>3. read \in 0 .. MaxAttempts /\ read < MaxAttempts
  BY <1>2 DEF Reads, SyncInv, AttemptsLeft
<1>4. revocations > 0
  BY <1>1 DEF SyncInv, RefusedCounted
<1>5. \/ rows' = [rows EXCEPT ![j] = new] /\ Goto(w, "flagging")
      \/ UNCHANGED rows /\ BecomeIdle(w)
  BY <1>1, <1>2 DEF RevokeAgain, TypeOK
<1>6. read + 1 \in 0 .. MaxAttempts
  BY <1>3, MaxAttemptsAssumption
<1> HIDE DEF j, read
<1>7. new \in Row /\ new.status \notin Waiting
  BY <1>2, <1>6 DEF Row, Waiting, Settled
<1> HIDE DEF new
<1>8. /\ workers' \in [Workers -> Worker]
      /\ \A v \in Workers, k \in Jobs : workers'[v].read[k] \in {0, workers[v].read[k]}
  <2>1. CASE Goto(w, "flagging")
    <3>1. WorkerMoves(w, "flagging")
      BY <1>1, <2>1, GotoMoves DEF Steps, AtJob, Failing
    <3>2. \A v \in Workers : v = w \/ workers'[v] = workers[v]
      BY <3>1 DEF WorkerMoves
    <3> QED
      BY <3>1, <3>2 DEF WorkerMoves
  <2>2. CASE BecomeIdle(w)
    <3>1. WorkerGoesOn(w, workers[w].read)
      BY <1>1, <1>2, <2>2, IdleGoesOn
    <3>2. \A v \in Workers : v = w \/ workers'[v] = workers[v]
      BY <3>1 DEF WorkerGoesOn
    <3> QED
      BY <3>1, <3>2 DEF WorkerGoesOn
  <2> QED
    BY <1>5, <2>1, <2>2
<1>9. rows' \in [Jobs -> Row] /\ \A k \in Jobs : rows'[k] = rows[k] \/ rows'[k] = new
  BY <1>1, <1>2, <1>5, <1>7 DEF TypeOK
<1>10. integration' \in Integration
  BY <1>1 DEF TypeOK, Revoke, Integration
<1>11. TypeOK'
  BY <1>1, <1>8, <1>9, <1>10 DEF TypeOK, log, bounds
<1>12. AttemptsLeft'
  <2>1. \A k \in Jobs : rows'[k].status \in Waiting => rows'[k].attempts < MaxAttempts
    BY <1>7, <1>9 DEF SyncInv, AttemptsLeft
  <2>2. \A v \in Workers, k \in Jobs : workers'[v].read[k] < MaxAttempts
    BY <1>8, MaxAttemptsAssumption DEF SyncInv, AttemptsLeft
  <2> QED
    BY <2>1, <2>2 DEF AttemptsLeft
<1>13. revocations' > 0 /\ revocations' # 0
  BY <1>1, <1>4 DEF log, TypeOK
<1> QED
  BY <1>11, <1>12, <1>13 DEF SyncInv, AttemptsFailed, RefusedCounted, GivenUpWithReason

-----------------------------------------------------------------------------
(* Time, the host and the booking service *)

\* What is not done by a worker.
LEMMA WorldStep ==
  ASSUME SyncInv, UNCHANGED <<workers, events, log, crossed>>,
         booking' \in [BookingIds -> BookingRow], mapping' \in [BookingIds -> Mapping],
         integration' \in Integration, faults' \in Nat, switches' \in Nat,
         rows' \in [Jobs -> Row], \A j \in Jobs : RowKept(rows'[j], rows[j])
  PROVE  SyncInv'
<1>1. TypeOK'
  BY DEF SyncInv, TypeOK, log
<1> QED
  BY <1>1, SameWorkersKept, KeptStep

LEMMA TimeStep ==
  ASSUME SyncInv, TimePasses \/ \E j \in Jobs : WorkerStalls(j)
  PROVE  SyncInv'
<1>1. TypeOK
  BY DEF SyncInv
<1>2. PICK j \in Jobs : BecomeDue(j) \/ LockExpires(j) \/ WorkerStalls(j)
  BY DEF TimePasses
<1>3. \/ rows' = [rows EXCEPT ![j] = [rows[j] EXCEPT !.due = TRUE]]
      \/ rows' = [rows EXCEPT ![j] = [rows[j] EXCEPT !.stale = TRUE]]
  BY <1>1, <1>2 DEF BecomeDue, LockExpires, WorkerStalls, TypeOK
<1>4. [rows[j] EXCEPT !.due = TRUE] \in Row /\ RowKept([rows[j] EXCEPT !.due = TRUE], rows[j])
  BY <1>1 DEF TypeOK, Row, RowKept
<1>5. [rows[j] EXCEPT !.stale = TRUE] \in Row /\ RowKept([rows[j] EXCEPT !.stale = TRUE], rows[j])
  BY <1>1 DEF TypeOK, Row, RowKept
<1>6. rows' \in [Jobs -> Row] /\ \A k \in Jobs : RowKept(rows'[k], rows[k])
  <2>1. rows \in [Jobs -> Row] /\ \A k \in Jobs : RowKept(rows[k], rows[k])
    BY <1>1 DEF TypeOK, RowKept
  <2> QED
    BY <1>3, <1>4, <1>5, <2>1
<1>7. UNCHANGED <<booking, mapping, integration, events, workers, log, crossed>>
      /\ switches' = switches /\ faults' \in {faults, faults + 1}
  BY <1>2 DEF BecomeDue, LockExpires, WorkerStalls, bounds
<1> QED
  BY <1>1, <1>6, <1>7, WorldStep DEF TypeOK

LEMMA IntegrationStep ==
  ASSUME SyncInv, ChangeIntegration
  PROVE  SyncInv'
<1>1. TypeOK /\ UNCHANGED <<booking, rows, mapping, events, workers, log, crossed, faults>>
      /\ switches' = switches + 1
  BY DEF SyncInv, ChangeIntegration
<1>2. integration' \in Integration
  BY <1>1 DEF ChangeIntegration, TypeOK, Integration
<1> QED
  BY <1>1, <1>2, SameRowsKept, WorldStep DEF TypeOK

\* A change of a booking writes one row anew.
LEMMA ChangeStep ==
  ASSUME SyncInv, NEW b \in BookingIds, NEW status \in {"CONFIRMED", "CANCELLED"},
         NEW sequence \in Sequences, NEW time \in Sequences,
         Change(b, status, sequence, time)
  PROVE  SyncInv'
<1> DEFINE j == <<b, sequence>>
           new == [status |-> status, sequence |-> sequence, time |-> time]
<1>1. TypeOK /\ UNCHANGED <<mapping, integration, events, workers, log, crossed, bounds>>
  BY DEF SyncInv, Change
<1>2. j \in Jobs
  BY JobsOfBookings
<1>3. new \in BookingRow
  BY DEF BookingRow
<1>4. booking' = [booking EXCEPT ![b] = new]
      /\ (rows' = [rows EXCEPT ![j] = NewRow] \/ UNCHANGED rows)
  BY DEF Change
<1> HIDE DEF j, new
<1>5. booking' \in [BookingIds -> BookingRow]
  BY <1>1, <1>3, <1>4 DEF TypeOK
<1>6. NewRow \in Row /\ NewRow.attempts = 0 /\ NewRow.status = "PENDING"
  BY <1>1, NoneTyped DEF NewRow, EmptyRow, Row, TypeOK, Integration, Waiting
<1>7. rows' \in [Jobs -> Row] /\ \A k \in Jobs : RowKept(rows'[k], rows[k])
  <2>1. rows \in [Jobs -> Row] /\ \A k \in Jobs : RowKept(rows[k], rows[k]) /\ RowKept(NewRow, rows[k])
    BY <1>1, <1>6 DEF TypeOK, RowKept
  <2> QED
    BY <1>2, <1>4, <1>6, <2>1
<1> QED
  BY <1>1, <1>5, <1>7, WorldStep DEF TypeOK, bounds

LEMMA BookingStep ==
  ASSUME SyncInv, NEW b \in BookingIds, Book(b) \/ Reschedule(b) \/ Cancel(b)
  PROVE  SyncInv'
<1>1. booking[b] \in BookingRow
  BY DEF SyncInv, TypeOK
<1>2. booking[b].sequence \in Sequences /\ booking[b].time \in Sequences /\ 0 \in Sequences
  BY <1>1, BoundsAssumption DEF BookingRow, Sequences
<1>3. booking[b].sequence < MaxChanges => booking[b].sequence + 1 \in Sequences
  BY <1>2, BoundsAssumption DEF Sequences
<1> QED
  BY <1>2, <1>3, ChangeStep DEF Book, Reschedule, Cancel

LEMMA DeleteStep ==
  ASSUME SyncInv, NEW b \in BookingIds, DeleteBooking(b)
  PROVE  SyncInv'
<1>1. TypeOK /\ UNCHANGED <<integration, events, workers, log, crossed, bounds>>
  BY DEF SyncInv, DeleteBooking
<1>2. booking' \in [BookingIds -> BookingRow]
  BY <1>1 DEF DeleteBooking, TypeOK, BookingRow
<1>3. mapping' \in [BookingIds -> Mapping]
  BY <1>1, NoneTyped DEF DeleteBooking, TypeOK
<1>4. ASSUME NEW j \in Jobs
      PROVE  rows'[j] \in Row /\ RowKept(rows'[j], rows[j])
  <2> DEFINE new == [EmptyRow EXCEPT !.status = "DELETED", !.calendar = rows[j].calendar]
  <2>1. rows'[j] = IF BookingOf(j) = b /\ Present(j) THEN new ELSE rows[j]
    BY DEF DeleteBooking
  <2>2. rows[j] \in Row
    BY <1>1 DEF TypeOK
  <2>3. new \in Row /\ new.attempts = 0 /\ new.status = "DELETED"
    BY <2>2, NoneTyped DEF Row, EmptyRow
  <2> HIDE DEF new
  <2>4. RowKept(new, rows[j]) /\ RowKept(rows[j], rows[j])
    BY <2>3 DEF RowKept, Waiting
  <2> QED
    BY <2>1, <2>2, <2>3, <2>4
<1>5. rows' \in [Jobs -> Row]
  BY <1>4 DEF DeleteBooking
<1> QED
  BY <1>1, <1>2, <1>3, <1>4, <1>5, WorldStep DEF TypeOK, bounds

-----------------------------------------------------------------------------
LEMMA InitInv == Init => SyncInv
<1> SUFFICES ASSUME Init PROVE SyncInv
  OBVIOUS
<1> USE DEF Init
<1>1. 0 \in Sequences /\ [state |-> "absent", time |-> 0] \in Event
  BY BoundsAssumption DEF Sequences, Event
<1>2. booking \in [BookingIds -> BookingRow] /\ mapping \in [BookingIds -> Mapping]
      /\ rows \in [Jobs -> Row] /\ workers \in [Workers -> Worker]
  BY NoneTyped, IdleTyped
<1>3. events \in [Calendars -> [BookingIds -> Event]]
  BY <1>1
<1>4. integration \in Integration
  BY AnyCalendarTyped DEF Integration
<1>5. TypeOK
  BY <1>2, <1>3, <1>4 DEF TypeOK
<1>6. \A j \in Jobs : rows[j].attempts = 0 /\ rows[j].status = "NONE"
  BY DEF EmptyRow
<1>7. \A w \in Workers : workers[w].step = "idle" /\ \A j \in Jobs : workers[w].read[j] = 0
  BY IdleTyped DEF IdleWorker
<1>8. AttemptsLeft
  BY <1>6, <1>7, MaxAttemptsAssumption DEF AttemptsLeft, Waiting
<1>9. AttemptsFailed /\ RefusedCounted /\ GivenUpWithReason
  BY <1>6, <1>7 DEF AttemptsFailed, RefusedCounted, GivenUpWithReason
<1> QED
  BY <1>5, <1>8, <1>9 DEF SyncInv

LEMMA NextInv == SyncInv /\ [Next]_vars => SyncInv'
<1> SUFFICES ASSUME SyncInv, [Next]_vars PROVE SyncInv'
  OBVIOUS
<1>1. CASE UNCHANGED vars
  <2>1. UNCHANGED <<workers, events, log, crossed>> /\ UNCHANGED rows /\ UNCHANGED <<booking, mapping>>
        /\ UNCHANGED <<integration, faults, switches>>
    BY <1>1 DEF vars, tables, bounds
  <2> QED
    BY <2>1, SameRowsKept, WorldStep DEF SyncInv, TypeOK
<1>2. ASSUME NEW w \in Workers, Work(w) PROVE SyncInv'
  BY <1>2, RecoverStep, ClaimStep, BeginStep, GoogleStep, RefusedStep, RecordStep, CompleteStep,
     RevokeStep, FailedStep, FlagStep DEF Work
<1>3. ASSUME NEW w \in Workers, Stop(w) PROVE SyncInv'
  BY <1>3, StopStep
<1>4. CASE TimePasses \/ \E j \in Jobs : WorkerStalls(j)
  BY <1>4, TimeStep
<1>5. CASE ChangeIntegration
  BY <1>5, IntegrationStep
<1>6. ASSUME NEW b \in BookingIds, Book(b) \/ Reschedule(b) \/ Cancel(b) \/ DeleteBooking(b)
      PROVE  SyncInv'
  BY <1>6, BookingStep, DeleteStep
<1> QED
  BY <1>1, <1>2, <1>3, <1>4, <1>5, <1>6 DEF Next

LEMMA Invariance == Spec => []SyncInv
<1>1. Init => SyncInv
  BY InitInv
<1>2. SyncInv /\ [Next]_vars => SyncInv'
  BY NextInv
<1> QED
  BY <1>1, <1>2, PTL DEF Spec

\* The tables, Google's events and the sweeps have their types; no job counts
\* more attempts than max_attempts, whoever writes its result when.
THEOREM TypeCorrect == Spec => []TypeOK
<1>1. SyncInv => TypeOK
  BY DEF SyncInv
<1> QED
  BY <1>1, Invariance, PTL

\* A sync job is a dead letter only after max_attempts failures, or because
\* Google refused the grant (handleJobFailure).
THEOREM GivenUpOnlyWithReason == Spec => []GivenUpWithReason
<1>1. SyncInv => GivenUpWithReason
  BY DEF SyncInv
<1> QED
  BY <1>1, Invariance, PTL

-----------------------------------------------------------------------------
(* What the mapping says of Google *)

\* From the reading of the booking to the last write about it.
Acting == {"reading", "authorising", "calling", "conflict", "recording"}

BookingAt(w) == BookingOf(workers[w].job)

\* Two workers at one booking have crossed.
Alone ==
  \A w, v \in Workers :
    /\ w # v /\ workers[w].step \in AtJob /\ workers[v].step \in AtJob
    /\ BookingAt(w) = BookingAt(v)
    => BookingAt(w) \in crossed

\* A job was written with a change of its booking, and what a worker has claimed
\* or is at was written.
WrittenRow(j) ==
  rows[j].status # "NONE" =>
    /\ booking[BookingOf(j)].status # "NONE"
    /\ SequenceOf(j) <= booking[BookingOf(j)].sequence

Claimed(w) ==
  /\ \A j \in workers[w].batch : rows[j].status # "NONE"
  /\ workers[w].step \in AtJob => rows[workers[w].job].status # "NONE"

Written ==
  /\ \A j \in Jobs : WrittenRow(j)
  /\ \A w \in Workers : Claimed(w)

\* What a worker has read is the booking as the change left it that wrote his
\* job: it is what the booking says, or says something older.
ViewIs(view, j, row) ==
  /\ view.sequence = SequenceOf(j)
  /\ view.status \in {"CONFIRMED", "CANCELLED"}
  /\ row.sequence = view.sequence => row.time = view.time /\ row.status \in {view.status, "DELETED"}

ViewsOfJobs ==
  \A w \in Workers : workers[w].step \in Acting =>
    ViewIs(workers[w].view, workers[w].job, booking[BookingAt(w)])

\* The mapping is never ahead of the booking, nor of a worker who is alone at it.
Behind(m, sequence) == m.status # "NONE" => m.sequence <= sequence

BehindBooking(b) ==
  /\ Behind(mapping[b], booking[b].sequence)
  /\ mapping[b].status # "NONE" => booking[b].status # "NONE"

BehindWorker(w) ==
  workers[w].step \in Acting /\ BookingAt(w) \notin crossed =>
    Behind(mapping[BookingAt(w)], SequenceOf(workers[w].job))

MappingBehind ==
  /\ \A b \in BookingIds : BehindBooking(b)
  /\ \A w \in Workers : BehindWorker(w)

\* The event after a call that was answered.
Told(event, view) ==
  /\ view.status = "CONFIRMED" =>
       event.state # "absent" /\ (event.state = "present" => event.time = view.time)
  /\ view.status = "CANCELLED" => event.state # "present"

Called(w) ==
  /\ workers[w].step = "conflict" =>
       EventOf(w).state # "absent" /\ workers[w].view.status = "CONFIRMED"
  /\ workers[w].step = "recording" => Told(EventOf(w), workers[w].view)

EventsAsTold == \A w \in Workers : BookingAt(w) \notin crossed => Called(w)

\* GoogleAgrees, of one booking.
Agrees(m, row, event, calendar) ==
  m.status = "SYNCED" /\ m.sequence = row.sequence =>
    /\ row.status = "CONFIRMED" =>
         event.state # "absent" /\ (event.state = "present" => event.time = row.time)
    /\ row.status = "CANCELLED" /\ calendar = m.calendar => event.state # "present"

AgreesAt(b) ==
  Agrees(mapping[b], booking[b], events[mapping[b].calendar][b],
         rows[<<b, mapping[b].sequence>>].calendar)

AgreedAll == \A b \in BookingIds : b \notin crossed => AgreesAt(b)

\* As long as the integration has not changed.
Undisturbed ==
  switches = 0 => integration.status = "CONNECTED" /\ \A w \in Workers : workers[w].step # "refused"

\* The job that is completed has left its mark, if it is that of the present.
Marked(m, row) == m.status # "NONE" /\ m.sequence = row.sequence

LeavesMark ==
  \A w \in Workers :
    /\ workers[w].step = "completing" /\ BookingAt(w) \notin crossed /\ switches = 0
    /\ booking[BookingAt(w)].status = "CONFIRMED"
    /\ booking[BookingAt(w)].sequence = SequenceOf(workers[w].job)
    => Marked(mapping[BookingAt(w)], booking[BookingAt(w)])

MarkLeft ==
  \A b \in BookingIds :
    /\ b \notin crossed /\ switches = 0 /\ booking[b].status = "CONFIRMED"
    /\ rows[<<b, booking[b].sequence>>].status = "COMPLETED"
    => Marked(mapping[b], booking[b])

AgreeInv ==
  /\ Alone /\ Written /\ ViewsOfJobs /\ MappingBehind /\ EventsAsTold
  /\ AgreedAll /\ Undisturbed /\ LeavesMark /\ MarkLeft

LEMMA AgreedMeans == AgreeInv => GoogleAgrees /\ CompletedMeansSynced
<1>1. AgreedAll => GoogleAgrees
  BY DEF AgreedAll, AgreesAt, Agrees, GoogleAgrees
<1>2. MarkLeft => CompletedMeansSynced
  BY DEF MarkLeft, Marked, CompletedMeansSynced
<1> QED
  BY <1>1, <1>2 DEF AgreeInv

-----------------------------------------------------------------------------
(* Steps that leave what the tables say of a booking as it is *)

RowSteady(new, old) ==
  /\ new.calendar = old.calendar
  /\ new.status = "NONE" <=> old.status = "NONE"

\* No job is completed but one that has left its mark.
MarkedFirst(j) ==
  rows'[j].status = "COMPLETED" =>
    \/ rows[j].status = "COMPLETED"
    \/ /\ BookingOf(j) \notin crossed /\ switches = 0
       /\ booking[BookingOf(j)].status = "CONFIRMED"
       /\ booking[BookingOf(j)].sequence = SequenceOf(j)
       => Marked(mapping[BookingOf(j)], booking[BookingOf(j)])

MappingSteady(new, old) ==
  /\ new.sequence = old.sequence /\ new.calendar = old.calendar
  /\ new.status = "NONE" <=> old.status = "NONE"
  /\ new.status = "SYNCED" => old.status = "SYNCED"

\* A worker who begins no job, and calls nobody.
WorkerSteady(new, old) ==
  /\ new.step \in AtJob => old.step \in AtJob /\ new.job = old.job /\ new.view = old.view
  /\ new.step \in Acting => old.step \in Acting
  /\ new.step \in {"conflict", "recording", "completing"} => new.step = old.step

WorkerQuiet(w) ==
  /\ WorkerSteady(workers'[w], workers[w])
  /\ \A j \in workers'[w].batch : j \in Jobs /\ rows[j].status # "NONE"

WorkersQuiet == \A w \in Workers : WorkerQuiet(w)
RowsQuiet == \A j \in Jobs : RowSteady(rows'[j], rows[j]) /\ MarkedFirst(j)
MappingQuiet == \A b \in BookingIds : MappingSteady(mapping'[b], mapping[b])

Quiet ==
  /\ UNCHANGED <<booking, events, crossed>>
  /\ RowsQuiet /\ MappingQuiet /\ WorkersQuiet
  /\ Undisturbed' /\ (switches' = 0 => switches = 0)

LEMMA QuietStep ==
  ASSUME TypeOK, AgreeInv, Quiet
  PROVE  AgreeInv'
<1> USE DEF AgreeInv, Quiet, RowsQuiet, MappingQuiet, WorkersQuiet, WorkerQuiet
<1>1. \A w \in Workers : workers[w].job \in Jobs /\ BookingAt(w) \in BookingIds
  BY JobTyped DEF BookingAt
<1>2. \A w \in Workers : workers'[w].step \in AtJob => BookingAt(w)' = BookingAt(w)
  BY DEF WorkerSteady, BookingAt
<1>3. Acting \subseteq AtJob /\ {"conflict", "recording", "completing"} \subseteq AtJob
  BY DEF Acting, AtJob, Looking
<1>4. \A b \in BookingIds : mapping[b].sequence \in Sequences /\ booking[b].sequence \in Sequences
  BY DEF TypeOK, Mapping, BookingRow
<1>5. Alone'
  BY <1>2 DEF Alone, WorkerSteady
<1>6. Written'
  <2>1. \A j \in Jobs : WrittenRow(j)'
    BY DEF Written, WrittenRow, RowSteady
  <2>2. ASSUME NEW w \in Workers PROVE Claimed(w)'
    <3>1. \A j \in workers'[w].batch : rows'[j].status # "NONE"
      BY DEF RowSteady
    <3>2. workers'[w].step \in AtJob => rows'[workers'[w].job].status # "NONE"
      BY <1>1 DEF RowSteady, WorkerSteady, Written, Claimed
    <3> QED
      BY <3>1, <3>2 DEF Claimed
  <2> QED
    BY <2>1, <2>2 DEF Written
<1>7. ViewsOfJobs'
  BY <1>2, <1>3 DEF ViewsOfJobs, WorkerSteady
<1>8. MappingBehind'
  <2>1. \A b \in BookingIds : BehindBooking(b)'
    BY DEF MappingBehind, BehindBooking, Behind, MappingSteady
  <2>2. ASSUME NEW w \in Workers PROVE BehindWorker(w)'
    BY <1>1, <1>2, <1>3 DEF MappingBehind, BehindWorker, Behind, MappingSteady, WorkerSteady
  <2> QED
    BY <2>1, <2>2 DEF MappingBehind
<1>9. EventsAsTold'
  <2> SUFFICES ASSUME NEW w \in Workers, (BookingAt(w) \notin crossed)',
                      workers'[w].step \in {"conflict", "recording"}
               PROVE  Called(w)'
    BY DEF EventsAsTold, Called
  <2>1. workers'[w].step = workers[w].step /\ workers'[w].job = workers[w].job
        /\ workers'[w].view = workers[w].view
    BY <1>3 DEF WorkerSteady
  <2>2. rows'[workers[w].job].calendar = rows[workers[w].job].calendar
    BY <1>1 DEF RowSteady
  <2>3. EventOf(w)' = EventOf(w) /\ Called(w)
    BY <2>1, <2>2 DEF EventOf, EventsAsTold, BookingAt
  <2> QED
    BY <2>1, <2>3 DEF Called
<1>10. AgreedAll'
  <2> SUFFICES ASSUME NEW b \in BookingIds, b \notin crossed
               PROVE  AgreesAt(b)'
    BY DEF AgreedAll
  <2>1. AgreesAt(b) /\ MappingSteady(mapping'[b], mapping[b])
    BY DEF AgreedAll
  <2>2. <<b, mapping[b].sequence>> \in Jobs
    BY <1>4, JobsOfBookings
  <2>3. rows'[<<b, mapping'[b].sequence>>].calendar = rows[<<b, mapping[b].sequence>>].calendar
    BY <2>1, <2>2 DEF RowSteady, MappingSteady
  <2>4. events'[mapping'[b].calendar][b] = events[mapping[b].calendar][b]
    BY <2>1 DEF MappingSteady
  <2> QED
    BY <2>1, <2>3, <2>4 DEF AgreesAt, Agrees, MappingSteady
<1>11. LeavesMark'
  BY <1>1, <1>2, <1>3 DEF LeavesMark, Marked, MappingSteady, WorkerSteady
<1>12. MarkLeft'
  <2> SUFFICES ASSUME NEW b \in BookingIds, b \notin crossed, switches' = 0,
                      booking[b].status = "CONFIRMED",
                      rows'[<<b, booking[b].sequence>>].status = "COMPLETED"
               PROVE  Marked(mapping'[b], booking[b])
    BY DEF MarkLeft
  <2>1. <<b, booking[b].sequence>> \in Jobs
    BY <1>4, JobsOfBookings
  <2>2. MarkedFirst(<<b, booking[b].sequence>>)
    BY <2>1
  <2>3. Marked(mapping[b], booking[b])
    BY <2>2 DEF MarkLeft, MarkedFirst, BookingOf, SequenceOf
  <2> QED
    BY <2>3 DEF Marked, MappingSteady
<1> QED
  BY <1>5, <1>6, <1>7, <1>8, <1>9, <1>10, <1>11, <1>12

LEMMA ActingAtJob == Acting \subseteq AtJob /\ {"conflict", "recording", "completing"} \subseteq AtJob
BY DEF Acting, AtJob, Looking

\* What a step of a worker leaves of his job and of the others.
KeepsJob(w, step) ==
  /\ \A v \in Workers \ {w} : workers'[v] = workers[v]
  /\ workers'[w].step = step
  /\ workers'[w].job = workers[w].job /\ workers'[w].view = workers[w].view
  /\ workers'[w].batch = workers[w].batch

LEMMA GotoKeepsJob ==
  ASSUME TypeOK, NEW w \in Workers, NEW step, Goto(w, step)
  PROVE  KeepsJob(w, step)
<1>1. workers[w] \in Worker /\ workers \in [Workers -> Worker]
  BY DEF TypeOK
<1> DEFINE new == [workers[w] EXCEPT !.step = step]
<1>2. workers' = [workers EXCEPT ![w] = new]
  BY <1>1 DEF Goto
<1>3. new.step = step /\ new.job = workers[w].job /\ new.view = workers[w].view
      /\ new.batch = workers[w].batch
  BY <1>1 DEF Worker
<1> HIDE DEF new
<1> QED
  BY <1>1, <1>2, <1>3 DEF KeepsJob

LEMMA UnmovedQuiet ==
  ASSUME TypeOK, AgreeInv, NEW w \in Workers, workers'[w] = workers[w]
  PROVE  WorkerQuiet(w)
<1>1. workers[w].batch \subseteq Jobs
  BY JobTyped
<1> QED
  BY <1>1 DEF WorkerQuiet, WorkerSteady, AgreeInv, Written, Claimed

LEMMA GotoQuiet ==
  ASSUME TypeOK, AgreeInv, NEW w \in Workers, NEW step, Goto(w, step),
         step \notin {"conflict", "recording", "completing"},
         step \in AtJob => workers[w].step \in AtJob,
         step \in Acting => workers[w].step \in Acting
  PROVE  WorkersQuiet
<1>1. KeepsJob(w, step)
  BY GotoKeepsJob
<1>2. WorkerQuiet(w)
  <2>1. workers[w].batch \subseteq Jobs
    BY JobTyped
  <2> QED
    BY <1>1, <2>1 DEF KeepsJob, WorkerQuiet, WorkerSteady, AgreeInv, Written, Claimed
<1>3. \A v \in Workers \ {w} : WorkerQuiet(v)
  BY <1>1, UnmovedQuiet DEF KeepsJob
<1> QED
  BY <1>2, <1>3 DEF WorkersQuiet

LEMMA IdleQuiet ==
  ASSUME TypeOK, AgreeInv, NEW w \in Workers, BecomeIdle(w)
  PROVE  WorkersQuiet
<1>1. workers' = [workers EXCEPT ![w] = IdleWorker] /\ workers \in [Workers -> Worker]
  BY DEF BecomeIdle, TypeOK
<1>2. IdleWorker.step = "idle" /\ IdleWorker.batch = {}
  BY DEF IdleWorker
<1>3. workers'[w].step = "idle" /\ workers'[w].batch = {}
  BY <1>1, <1>2
<1>4. WorkerQuiet(w)
  BY <1>3 DEF WorkerQuiet, WorkerSteady, Acting, AtJob, Looking, Failing
<1>5. \A v \in Workers \ {w} : WorkerQuiet(v)
  BY <1>1, UnmovedQuiet
<1> QED
  BY <1>4, <1>5 DEF WorkersQuiet

LEMMA ContinueQuiet ==
  ASSUME TypeOK, AgreeInv, NEW w \in Workers, NEW batch \in SUBSET Jobs, NEW read,
         Continue(w, batch, read), \A j \in batch : rows[j].status # "NONE"
  PROVE  WorkersQuiet
<1>1. CASE batch = {}
  BY <1>1, IdleQuiet DEF Continue
<1>2. CASE batch # {}
  <2> DEFINE new == [step |-> "next", batch |-> batch, read |-> read, job |-> NoJob,
                     view |-> NoBooking]
  <2>1. workers' = [workers EXCEPT ![w] = new] /\ workers \in [Workers -> Worker]
    BY <1>2 DEF Continue, TypeOK
  <2>2. new.step = "next" /\ new.batch = batch
    OBVIOUS
  <2> HIDE DEF new
  <2>3. workers'[w].step = "next" /\ workers'[w].batch = batch
    BY <2>1, <2>2
  <2>4. WorkerQuiet(w)
    BY <2>3 DEF WorkerQuiet, WorkerSteady, Acting, AtJob, Looking, Failing
  <2>5. \A v \in Workers \ {w} : WorkerQuiet(v)
    BY <2>1, UnmovedQuiet
  <2> QED
    BY <2>4, <2>5 DEF WorkersQuiet
<1> QED
  BY <1>1, <1>2

LEMMA SameQuiet ==
  /\ UNCHANGED rows => RowsQuiet
  /\ UNCHANGED mapping => MappingQuiet
  /\ TypeOK /\ AgreeInv /\ UNCHANGED workers => WorkersQuiet
<1>1. UNCHANGED rows => RowsQuiet
  BY DEF RowsQuiet, RowSteady, MarkedFirst
<1>2. UNCHANGED mapping => MappingQuiet
  BY DEF MappingQuiet, MappingSteady
<1>3. TypeOK /\ AgreeInv /\ UNCHANGED workers => WorkersQuiet
  BY UnmovedQuiet DEF WorkersQuiet
<1> QED
  BY <1>1, <1>2, <1>3

\* A step that leaves the booking, Google and the integration alone.
LEMMA WorkQuiet ==
  ASSUME TypeOK, AgreeInv, UNCHANGED <<booking, events, crossed, integration, switches>>,
         RowsQuiet, MappingQuiet, WorkersQuiet,
         \A w \in Workers : workers'[w].step = "refused" => workers[w].step = "refused"
  PROVE  AgreeInv'
<1>1. Undisturbed'
  BY DEF AgreeInv, Undisturbed
<1> QED
  BY <1>1, QuietStep DEF Quiet

\* ... or changes the integration, after which nothing is undisturbed.
LEMMA SwitchQuiet ==
  ASSUME TypeOK, AgreeInv, UNCHANGED <<booking, events, crossed, rows, mapping>>, WorkersQuiet,
         switches' = switches + 1
  PROVE  AgreeInv'
<1>1. switches' # 0
  BY DEF TypeOK
<1>2. Undisturbed' /\ (switches' = 0 => switches = 0)
  BY <1>1 DEF Undisturbed
<1> QED
  BY <1>2, SameQuiet, QuietStep DEF Quiet

-----------------------------------------------------------------------------
(* The actions that leave the booking and Google as they are *)

\* One row is written anew, and not completed.
LEMMA OneRowQuiet ==
  ASSUME TypeOK, NEW j \in Jobs, NEW row,
         rows' = [rows EXCEPT ![j] = row] \/ UNCHANGED rows,
         row.calendar = rows[j].calendar, row.status \notin {"NONE", "COMPLETED"},
         rows[j].status # "NONE" \/ UNCHANGED rows
  PROVE  RowsQuiet
<1>1. rows \in [Jobs -> Row]
  BY DEF TypeOK
<1>2. \A k \in Jobs : rows'[k] = rows[k] \/ (rows'[k] = row /\ k = j /\ rows[j].status # "NONE")
  BY <1>1
<1> QED
  BY <1>2 DEF RowsQuiet, RowSteady, MarkedFirst

LEMMA AgreeRecover ==
  ASSUME TypeOK, AgreeInv, NEW w \in Workers, Recover(w)
  PROVE  AgreeInv'
<1>1. UNCHANGED <<booking, events, crossed, integration, switches>> /\ UNCHANGED mapping
      /\ Goto(w, "recovered")
  BY DEF Recover, bounds
<1>2. WorkersQuiet
  BY <1>1, GotoQuiet DEF AtJob, Acting, Looking, Failing
<1>3. KeepsJob(w, "recovered")
  BY <1>1, GotoKeepsJob
<1>4. \A v \in Workers : workers'[v].step = "refused" => workers[v].step = "refused"
  BY <1>3 DEF KeepsJob
<1>5. \A j \in Jobs : rows[j].status = "PROCESSING" =>
        RecoveredRow(rows[j]).status = "PENDING" /\ RecoveredRow(rows[j]).calendar = rows[j].calendar
  BY DEF TypeOK, Row, RecoveredRow
<1>6. RowsQuiet
  BY <1>5 DEF Recover, StaleJobs, RowsQuiet, RowSteady, MarkedFirst
<1> QED
  BY <1>1, <1>2, <1>4, <1>6, SameQuiet, WorkQuiet

LEMMA AgreeClaim ==
  ASSUME TypeOK, AgreeInv, NEW w \in Workers, Claim(w)
  PROVE  AgreeInv'
<1>1. UNCHANGED <<booking, events, crossed, integration, switches>> /\ UNCHANGED mapping
  BY DEF Claim, bounds
<1>2. PICK batch \in SUBSET Claimable, read \in Reads :
        /\ rows' = [j \in Jobs |-> IF j \in batch THEN ClaimedRow(rows[j]) ELSE rows[j]]
        /\ Continue(w, batch, read)
  <2>1. PICK batch \in SUBSET Claimable :
        /\ rows' = [j \in Jobs |-> IF j \in batch THEN ClaimedRow(rows[j]) ELSE rows[j]]
        /\ Continue(w, batch, [j \in Jobs |-> IF j \in batch THEN rows[j].attempts ELSE 0])
    BY DEF Claim
  <2>2. [j \in Jobs |-> IF j \in batch THEN rows[j].attempts ELSE 0] \in Reads
    BY MaxAttemptsAssumption DEF TypeOK, Row, Reads
  <2> QED
    BY <2>1, <2>2
<1>3. batch \in SUBSET Jobs /\ \A j \in batch : rows[j].status = "PENDING"
  BY DEF Claimable
<1>4. WorkersQuiet
  BY <1>2, <1>3, ContinueQuiet
<1>5. \A v \in Workers : workers'[v].step = "refused" => workers[v].step = "refused"
  <2>1. WorkerGoesOn(w, read)
    BY <1>2, <1>3, ContinueGoesOn
  <2>2. \A v \in Workers : v = w \/ workers'[v] = workers[v]
    BY <2>1 DEF WorkerGoesOn
  <2> QED
    BY <2>1, <2>2 DEF WorkerGoesOn
<1>6. \A j \in Jobs : ClaimedRow(rows[j]).status = "PROCESSING"
                      /\ ClaimedRow(rows[j]).calendar = rows[j].calendar
  BY DEF TypeOK, Row, ClaimedRow
<1>7. RowsQuiet
  BY <1>2, <1>3, <1>6 DEF RowsQuiet, RowSteady, MarkedFirst
<1> QED
  BY <1>1, <1>4, <1>5, <1>7, SameQuiet, WorkQuiet

LEMMA AgreeAuthorise ==
  ASSUME TypeOK, AgreeInv, NEW w \in Workers, Authorise(w)
  PROVE  AgreeInv'
<1>1. UNCHANGED <<booking, events, crossed, integration, switches>> /\ UNCHANGED <<rows, mapping>>
      /\ Goto(w, "calling") /\ workers[w].step = "authorising"
  BY DEF Authorise, tables, bounds
<1>2. WorkersQuiet
  BY <1>1, GotoQuiet DEF AtJob, Acting, Looking
<1>3. KeepsJob(w, "calling")
  BY <1>1, GotoKeepsJob
<1>4. \A v \in Workers : workers'[v].step = "refused" => workers[v].step = "refused"
  BY <1>3 DEF KeepsJob
<1> QED
  BY <1>1, <1>2, <1>4, SameQuiet, WorkQuiet

LEMMA AgreeRefused ==
  ASSUME TypeOK, AgreeInv, NEW w \in Workers, GrantRefused(w)
  PROVE  AgreeInv'
<1>1. UNCHANGED <<booking, events, crossed, rows, mapping>> /\ switches' = switches + 1
      /\ Goto(w, "refused") /\ workers[w].step = "authorising"
  BY DEF GrantRefused
<1>2. WorkersQuiet
  BY <1>1, GotoQuiet DEF AtJob, Acting, Looking, Failing
<1> QED
  BY <1>1, <1>2, SwitchQuiet

\* After a job that failed: its row, or if that is gone the end of the sweep.
LEMMA AgreeEnds ==
  ASSUME TypeOK, AgreeInv, NEW w \in Workers, NEW row,
         workers[w].step \in Failing,
         \/ /\ Present(workers[w].job)
            /\ rows' = [rows EXCEPT ![workers[w].job] = row] /\ Goto(w, "flagging")
         \/ UNCHANGED rows /\ BecomeIdle(w),
         row.calendar = rows[workers[w].job].calendar, row.status \notin {"NONE", "COMPLETED"},
         UNCHANGED <<booking, events, crossed, mapping, switches>>,
         UNCHANGED integration \/ switches # 0
  PROVE  AgreeInv'
<1>1. workers[w].job \in Jobs /\ workers[w].read \in Reads
  BY JobTyped
<1>2. RowsQuiet
  BY <1>1, OneRowQuiet DEF Present
<1>3. WorkersQuiet
  BY GotoQuiet, IdleQuiet DEF AtJob, Acting, Failing
<1>4. \A v \in Workers : workers'[v].step = "refused" => workers[v].step = "refused"
  <2>1. CASE Goto(w, "flagging")
    BY <2>1, GotoKeepsJob DEF KeepsJob
  <2>2. CASE BecomeIdle(w)
    <3>1. WorkerGoesOn(w, workers[w].read)
      BY <1>1, <2>2, IdleGoesOn
    <3>2. \A v \in Workers : v = w \/ workers'[v] = workers[v]
      BY <3>1 DEF WorkerGoesOn
    <3> QED
      BY <3>1, <3>2 DEF WorkerGoesOn
  <2> QED
    BY <2>1, <2>2
<1>5. Undisturbed'
  BY <1>4 DEF AgreeInv, Undisturbed
<1>6. MappingQuiet
  BY SameQuiet
<1> QED
  BY <1>2, <1>3, <1>5, <1>6, QuietStep DEF Quiet

LEMMA AgreeFailed ==
  ASSUME TypeOK, AgreeInv, NEW w \in Workers, MarkFailed(w)
  PROVE  AgreeInv'
<1> DEFINE j == workers[w].job
           row == FailedRow(rows[j], workers[w].read[j])
<1>1. j \in Jobs /\ rows[j] \in Row
  BY JobTyped
<1>2. row.calendar = rows[j].calendar /\ row.status \in {"DEAD_LETTER", "PENDING"}
  <2>1. \A read : FailedRow(rows[j], read).calendar = rows[j].calendar
                  /\ FailedRow(rows[j], read).status \in {"DEAD_LETTER", "PENDING"}
    BY <1>1 DEF FailedRow, Row
  <2> QED
    BY <2>1
<1>3. \/ Present(j) /\ rows' = [rows EXCEPT ![j] = row] /\ Goto(w, "flagging")
      \/ UNCHANGED rows /\ BecomeIdle(w)
  BY <1>1 DEF MarkFailed, TypeOK
<1>4. workers[w].step \in Failing /\ UNCHANGED <<booking, events, crossed, mapping, switches>>
      /\ UNCHANGED integration
  BY DEF MarkFailed, bounds, Failing
<1>5. row.status \notin {"NONE", "COMPLETED"}
  BY <1>2
<1> HIDE DEF row
<1> QED
  BY <1>2, <1>3, <1>4, <1>5, AgreeEnds

LEMMA AgreeRevoke ==
  ASSUME TypeOK, AgreeInv, NEW w \in Workers, RevokeAgain(w)
  PROVE  AgreeInv'
<1> DEFINE j == workers[w].job
           row == [rows[j] EXCEPT !.status = "DEAD_LETTER", !.stale = FALSE,
                                  !.attempts = workers[w].read[j] + 1]
<1>1. j \in Jobs /\ rows[j] \in Row
  BY JobTyped
<1>2. row.calendar = rows[j].calendar /\ row.status = "DEAD_LETTER"
  BY <1>1 DEF Row
<1>3. \/ Present(j) /\ rows' = [rows EXCEPT ![j] = row] /\ Goto(w, "flagging")
      \/ UNCHANGED rows /\ BecomeIdle(w)
  BY <1>1 DEF RevokeAgain, TypeOK
<1>4. workers[w].step \in Failing /\ UNCHANGED <<booking, events, crossed, mapping, switches>>
      /\ switches # 0
  BY DEF RevokeAgain, bounds, Failing, AgreeInv, Undisturbed
<1>5. row.status \notin {"NONE", "COMPLETED"}
  BY <1>2
<1> HIDE DEF row
<1> QED
  BY <1>2, <1>3, <1>4, <1>5, AgreeEnds

LEMMA AgreeFlag ==
  ASSUME TypeOK, AgreeInv, NEW w \in Workers, FlagMapping(w)
  PROVE  AgreeInv'
<1> DEFINE j == workers[w].job
           b == BookingOf(j)
           read == [workers[w].read EXCEPT ![j] = 0]
<1>1. j \in Jobs /\ b \in BookingIds /\ workers[w].batch \in SUBSET Jobs
      /\ \A k \in workers[w].batch : rows[k].status # "NONE"
  BY JobTyped DEF AgreeInv, Written, Claimed
<1>2. Continue(w, workers[w].batch, read)
      /\ \/ mapping' = mapping
         \/ mapping[b].status # "NONE" /\ mapping' = [mapping EXCEPT ![b].status = "FAILED"]
  BY DEF FlagMapping
<1>3. UNCHANGED <<booking, events, crossed, integration, switches>> /\ UNCHANGED rows
  BY DEF FlagMapping, bounds
<1>4. read \in Reads
  BY <1>1, ReadEnds
<1> HIDE DEF j, b, read
<1>5. WorkersQuiet
  BY <1>1, <1>2, ContinueQuiet
<1>6. \A v \in Workers : workers'[v].step = "refused" => workers[v].step = "refused"
  <2>1. WorkerGoesOn(w, read)
    BY <1>1, <1>2, <1>4, ContinueGoesOn
  <2>2. \A v \in Workers : v = w \/ workers'[v] = workers[v]
    BY <2>1 DEF WorkerGoesOn
  <2> QED
    BY <2>1, <2>2 DEF WorkerGoesOn
<1>7. MappingQuiet
  <2>1. \A a \in BookingIds : MappingSteady(mapping[a], mapping[a])
    BY DEF MappingSteady
  <2>2. ASSUME mapping[b].status # "NONE", mapping' = [mapping EXCEPT ![b].status = "FAILED"]
        PROVE  MappingQuiet
    <3> DEFINE new == [mapping[b] EXCEPT !.status = "FAILED"]
    <3>1. mapping \in [BookingIds -> Mapping] /\ mapping[b] \in Mapping
      BY <1>1 DEF TypeOK
    <3>2. mapping' = [mapping EXCEPT ![b] = new]
      BY <2>2, <3>1
    <3>3. MappingSteady(new, mapping[b])
      BY <2>2, <3>1 DEF Mapping, MappingSteady
    <3> HIDE DEF new
    <3>4. \A a \in BookingIds : mapping'[a] = mapping[a] \/ (a = b /\ mapping'[a] = new)
      BY <3>1, <3>2
    <3> QED
      BY <2>1, <3>3, <3>4 DEF MappingQuiet
  <2> QED
    BY <1>2, <2>2, SameQuiet
<1> QED
  BY <1>3, <1>5, <1>6, <1>7, SameQuiet, WorkQuiet

LEMMA AgreeStop ==
  ASSUME TypeOK, AgreeInv, NEW w \in Workers, Stop(w)
  PROVE  AgreeInv'
<1>1. UNCHANGED <<booking, events, crossed, integration, switches>> /\ UNCHANGED <<rows, mapping>>
      /\ BecomeIdle(w)
  BY DEF Stop, tables
<1>2. WorkersQuiet
  BY <1>1, IdleQuiet
<1>3. \A v \in Workers : workers'[v].step = "refused" => workers[v].step = "refused"
  <2>1. WorkerGoesOn(w, workers[w].read)
    BY <1>1, JobTyped, IdleGoesOn
  <2>2. \A v \in Workers : v = w \/ workers'[v] = workers[v]
    BY <2>1 DEF WorkerGoesOn
  <2> QED
    BY <2>1, <2>2 DEF WorkerGoesOn
<1> QED
  BY <1>1, <1>2, <1>3, SameQuiet, WorkQuiet

LEMMA AgreeTime ==
  ASSUME TypeOK, AgreeInv, TimePasses \/ \E j \in Jobs : WorkerStalls(j)
  PROVE  AgreeInv'
<1>1. PICK j \in Jobs : BecomeDue(j) \/ LockExpires(j) \/ WorkerStalls(j)
  BY DEF TimePasses
<1>2. UNCHANGED <<booking, events, crossed, integration, switches>> /\ UNCHANGED <<workers, mapping>>
      /\ rows[j].status \in Waiting
  BY <1>1 DEF BecomeDue, LockExpires, WorkerStalls, bounds, Waiting
<1>3. PICK row \in Row : /\ rows' = [rows EXCEPT ![j] = row]
                         /\ row.calendar = rows[j].calendar /\ row.status = rows[j].status
  <2>1. rows \in [Jobs -> Row] /\ rows[j] \in Row
    BY DEF TypeOK
  <2>2. \/ rows' = [rows EXCEPT ![j] = [rows[j] EXCEPT !.due = TRUE]]
        \/ rows' = [rows EXCEPT ![j] = [rows[j] EXCEPT !.stale = TRUE]]
    BY <1>1, <2>1 DEF BecomeDue, LockExpires, WorkerStalls
  <2>3. /\ [rows[j] EXCEPT !.due = TRUE] \in Row
        /\ [rows[j] EXCEPT !.due = TRUE].calendar = rows[j].calendar
        /\ [rows[j] EXCEPT !.due = TRUE].status = rows[j].status
    BY <2>1 DEF Row
  <2>4. /\ [rows[j] EXCEPT !.stale = TRUE] \in Row
        /\ [rows[j] EXCEPT !.stale = TRUE].calendar = rows[j].calendar
        /\ [rows[j] EXCEPT !.stale = TRUE].status = rows[j].status
    BY <2>1 DEF Row
  <2> QED
    BY <2>2, <2>3, <2>4
<1>4. RowsQuiet
  BY <1>2, <1>3, OneRowQuiet DEF Waiting
<1> QED
  BY <1>2, <1>4, SameQuiet, WorkQuiet

LEMMA AgreeSwitch ==
  ASSUME TypeOK, AgreeInv, ChangeIntegration
  PROVE  AgreeInv'
<1>1. UNCHANGED <<booking, events, crossed, rows, mapping>> /\ switches' = switches + 1
      /\ UNCHANGED workers
  BY DEF ChangeIntegration
<1> QED
  BY <1>1, SameQuiet, SwitchQuiet

LEMMA AgreeComplete ==
  ASSUME TypeOK, AgreeInv, NEW w \in Workers, Complete(w)
  PROVE  AgreeInv'
<1> DEFINE j == workers[w].job
           read == [workers[w].read EXCEPT ![j] = 0]
<1>1. j \in Jobs /\ rows[j] \in Row /\ workers[w].batch \in SUBSET Jobs
      /\ \A k \in workers[w].batch : rows[k].status # "NONE"
  BY JobTyped DEF AgreeInv, Written, Claimed
<1>2. UNCHANGED <<booking, events, crossed, integration, switches>> /\ UNCHANGED mapping
      /\ workers[w].step = "completing"
  BY DEF Complete, bounds
<1>3. \/ /\ Present(j) /\ rows' = [rows EXCEPT ![j] = CompletedRow(rows[j])]
         /\ Continue(w, workers[w].batch, read)
      \/ UNCHANGED rows /\ BecomeIdle(w)
  BY <1>1 DEF Complete, TypeOK
<1>4. read \in Reads /\ workers[w].read \in Reads
  BY <1>1, ReadEnds, JobTyped
<1>5. CompletedRow(rows[j]).status = "COMPLETED" /\ CompletedRow(rows[j]).calendar = rows[j].calendar
  BY <1>1 DEF CompletedRow, Row
<1>6. MarkedFirst(j)
  BY <1>2 DEF AgreeInv, LeavesMark, MarkedFirst, BookingAt
<1> HIDE DEF read, j
<1>7. WorkersQuiet
  BY <1>1, <1>3, ContinueQuiet, IdleQuiet
<1>8. \A v \in Workers : workers'[v].step = "refused" => workers[v].step = "refused"
  <2>1. WorkerGoesOn(w, read)
    BY <1>1, <1>3, <1>4, ContinueGoesOn, IdleGoesOn
  <2>2. \A v \in Workers : v = w \/ workers'[v] = workers[v]
    BY <2>1 DEF WorkerGoesOn
  <2> QED
    BY <2>1, <2>2 DEF WorkerGoesOn
<1>9. RowsQuiet
  <2>1. rows \in [Jobs -> Row]
    BY DEF TypeOK
  <2>2. \A k \in Jobs :
          \/ rows'[k] = rows[k]
          \/ rows'[k] = CompletedRow(rows[j]) /\ k = j /\ rows[j].status # "NONE"
    BY <1>1, <1>3, <2>1 DEF Present
  <2>3. ASSUME NEW k \in Jobs PROVE RowSteady(rows'[k], rows[k])
    BY <1>5, <2>2 DEF RowSteady
  <2>4. ASSUME NEW k \in Jobs PROVE MarkedFirst(k)
    <3>1. CASE rows'[k] = rows[k]
      BY <3>1 DEF MarkedFirst
    <3>2. CASE k = j
      BY <3>2, <1>6
    <3> QED
      BY <2>2, <3>1, <3>2
  <2> QED
    BY <2>3, <2>4 DEF RowsQuiet
<1> QED
  BY <1>2, <1>7, <1>8, <1>9, SameQuiet, WorkQuiet

-----------------------------------------------------------------------------
(* Google is told, and the mapping says so *)

\* A worker who goes on with his job: what does not depend on what he has done.
LEMMA GoingOn ==
  ASSUME TypeOK, AgreeInv, NEW w \in Workers, NEW step \in AtJob \ {"refused"}, Goto(w, step),
         workers[w].step \in Acting, UNCHANGED <<booking, rows, integration, crossed, switches>>
  PROVE  /\ \A v \in Workers : /\ v = w \/ workers'[v] = workers[v]
                               /\ workers'[v].job = workers[v].job
                               /\ workers'[v].view = workers[v].view
                               /\ BookingAt(v)' = BookingAt(v)
         /\ workers'[w].step = step
         /\ Alone' /\ Written' /\ ViewsOfJobs' /\ Undisturbed'
<1> USE DEF AgreeInv
<1>1. KeepsJob(w, step)
  BY GotoKeepsJob
<1>2. \A v \in Workers : /\ v = w \/ workers'[v] = workers[v]
                         /\ workers'[v].job = workers[v].job
                         /\ workers'[v].view = workers[v].view
                         /\ workers'[v].batch = workers[v].batch
  BY <1>1 DEF KeepsJob
<1>3. workers'[w].step = step
  BY <1>1 DEF KeepsJob
<1>4. \A v \in Workers : BookingAt(v)' = BookingAt(v)
  BY <1>2 DEF BookingAt
<1>5. \A v \in Workers : /\ workers'[v].step \in AtJob => workers[v].step \in AtJob
                         /\ workers'[v].step \in Acting => workers[v].step \in Acting
                         /\ workers'[v].step = "refused" => workers[v].step = "refused"
  BY <1>2, <1>3, ActingAtJob
<1>6. Alone'
  BY <1>4, <1>5 DEF Alone
<1>7. Written'
  <2>1. \A j \in Jobs : WrittenRow(j)'
    BY DEF Written, WrittenRow
  <2>2. \A v \in Workers : Claimed(v)'
    BY <1>2, <1>5 DEF Written, Claimed
  <2> QED
    BY <2>1, <2>2 DEF Written
<1>8. ViewsOfJobs'
  BY <1>2, <1>4, <1>5 DEF ViewsOfJobs
<1>9. Undisturbed'
  BY <1>5 DEF Undisturbed
<1> QED
  BY <1>2, <1>3, <1>4, <1>6, <1>7, <1>8, <1>9

\* ... and what does not if he leaves the mapping as it is.
LEMMA MappingKept ==
  ASSUME TypeOK, AgreeInv, NEW w \in Workers, NEW step \in AtJob \ {"refused"}, Goto(w, step),
         workers[w].step \in Acting,
         UNCHANGED <<booking, rows, integration, crossed, switches>>, UNCHANGED mapping
  PROVE  /\ MappingBehind' /\ MarkLeft'
         /\ step # "completing" => LeavesMark'
<1> USE DEF AgreeInv
<1>1. \A v \in Workers : /\ v = w \/ workers'[v] = workers[v]
                         /\ workers'[v].job = workers[v].job
                         /\ BookingAt(v)' = BookingAt(v)
  BY GoingOn
<1>2. workers'[w].step = step
  BY GoingOn
<1>3. MappingBehind'
  <2>1. \A b \in BookingIds : BehindBooking(b)'
    BY DEF MappingBehind, BehindBooking
  <2>2. \A v \in Workers : BehindWorker(v)'
    BY <1>1 DEF MappingBehind, BehindWorker
  <2> QED
    BY <2>1, <2>2 DEF MappingBehind
<1>4. MarkLeft'
  BY DEF MarkLeft
<1>5. step # "completing" => LeavesMark'
  BY <1>1, <1>2 DEF LeavesMark
<1> QED
  BY <1>3, <1>4, <1>5

LEMMA AgreeReads ==
  ASSUME TypeOK, AgreeInv, NEW w \in Workers, ReadIntegration(w)
  PROVE  AgreeInv'
<1> USE DEF AgreeInv
<1> DEFINE step == IF integration.status = "CONNECTED" THEN "authorising" ELSE "completing"
<1>1. UNCHANGED <<booking, rows, integration, crossed, switches>> /\ UNCHANGED mapping
      /\ UNCHANGED events /\ workers[w].step = "reading" /\ Goto(w, step)
  BY DEF ReadIntegration, tables, bounds
<1>2. step \in AtJob \ {"refused"} /\ workers[w].step \in Acting
  BY <1>1 DEF AtJob, Looking, Acting
<1>3. step = "completing" => switches # 0
  BY DEF Undisturbed
<1>4. step \in {"authorising", "completing"}
  OBVIOUS
<1> HIDE DEF step
<1>5. /\ \A v \in Workers : /\ v = w \/ workers'[v] = workers[v]
                            /\ workers'[v].job = workers[v].job
                            /\ workers'[v].view = workers[v].view
                            /\ BookingAt(v)' = BookingAt(v)
      /\ workers'[w].step = step
  BY <1>1, <1>2, GoingOn
<1>6. Alone' /\ Written' /\ ViewsOfJobs' /\ Undisturbed'
  BY <1>1, <1>2, GoingOn
<1>7. MappingBehind' /\ MarkLeft' /\ (step # "completing" => LeavesMark')
  BY <1>1, <1>2, MappingKept
<1>8. LeavesMark'
  BY <1>1, <1>3, <1>7 DEF LeavesMark
<1>9. EventsAsTold'
  <2> SUFFICES ASSUME NEW v \in Workers, BookingAt(v) \notin crossed PROVE Called(v)'
    BY <1>1, <1>5 DEF EventsAsTold
  <2>1. CASE v = w
    BY <1>4, <1>5, <2>1 DEF Called
  <2>2. CASE workers'[v] = workers[v]
    <3>1. EventOf(v)' = EventOf(v)
      BY <1>1, <2>2 DEF EventOf
    <3> QED
      BY <2>2, <3>1 DEF EventsAsTold, Called
  <2> QED
    BY <1>5, <2>1, <2>2
<1>10. AgreedAll'
  BY <1>1 DEF AgreedAll, AgreesAt
<1> QED
  BY <1>6, <1>7, <1>8, <1>9, <1>10

\* What a worker at a booking knows of it: his job was written, so its sequence
\* is that of the booking, or an older one.
LEMMA JobBehind ==
  ASSUME TypeOK, AgreeInv, NEW w \in Workers, workers[w].step \in AtJob
  PROVE  /\ booking[BookingAt(w)].status # "NONE"
         /\ SequenceOf(workers[w].job) <= booking[BookingAt(w)].sequence
BY JobTyped DEF AgreeInv, Written, Claimed, WrittenRow, BookingAt

LEMMA SequencesTyped ==
  ASSUME TypeOK
  PROVE  /\ \A b \in BookingIds : booking[b].sequence \in Nat /\ mapping[b].sequence \in Nat
         /\ \A w \in Workers : SequenceOf(workers[w].job) \in Nat
<1>1. Sequences \subseteq Nat
  BY BoundsAssumption DEF Sequences
<1>2. \A b \in BookingIds : booking[b].sequence \in Sequences /\ mapping[b].sequence \in Sequences
  BY DEF TypeOK, BookingRow, Mapping
<1>3. \A w \in Workers : SequenceOf(workers[w].job) \in Sequences
  BY JobTyped
<1> QED
  BY <1>1, <1>2, <1>3

\* Google is told something about one event, by a worker who is at its booking.
LEMMA AgreeTold ==
  ASSUME TypeOK, AgreeInv, NEW w \in Workers, NEW step \in {"recording", "failed"}, Goto(w, step),
         workers[w].step \in {"calling", "conflict"},
         NEW event \in Event, SetEvent(w, event),
         BookingAt(w) \notin crossed => Told(event, workers[w].view),
         UNCHANGED <<booking, rows, integration, crossed, switches>>, UNCHANGED mapping
  PROVE  AgreeInv'
<1> USE DEF AgreeInv
<1> DEFINE c == rows[workers[w].job].calendar
           b == BookingAt(w)
<1>1. c \in Calendars /\ b \in BookingIds
  BY JobTyped DEF BookingAt
<1>2. events \in [Calendars -> [BookingIds -> Event]]
  BY DEF TypeOK
<1>3. events' = [events EXCEPT ![c][b] = event]
  BY DEF SetEvent, BookingAt
<1>4. step \in AtJob \ {"refused"} /\ step # "completing" /\ workers[w].step \in Acting
  BY DEF AtJob, Looking, Failing, Acting
<1>5. /\ \A v \in Workers : /\ v = w \/ workers'[v] = workers[v]
                            /\ workers'[v].job = workers[v].job
                            /\ workers'[v].view = workers[v].view
                            /\ BookingAt(v)' = BookingAt(v)
      /\ workers'[w].step = step
  BY <1>4, GoingOn
<1>6. Alone' /\ Written' /\ ViewsOfJobs' /\ Undisturbed'
  BY <1>4, GoingOn
<1>7. MappingBehind' /\ MarkLeft' /\ LeavesMark'
  BY <1>4, MappingKept
<1>8. \A d \in Calendars, a \in BookingIds : a # b => events'[d][a] = events[d][a]
  BY <1>1, <1>2, <1>3
<1>9. events'[c][b] = event /\ \A d \in Calendars : d # c => events'[d][b] = events[d][b]
  BY <1>1, <1>2, <1>3
<1>10. EventOf(w)' = event
  BY <1>5, <1>9 DEF EventOf, BookingAt
<1>11. EventsAsTold'
  <2> SUFFICES ASSUME NEW v \in Workers, BookingAt(v) \notin crossed,
                      workers'[v].step \in {"conflict", "recording"}
               PROVE  Called(v)'
    BY <1>5 DEF EventsAsTold, Called
  <2>1. CASE v = w
    BY <1>5, <1>10, <2>1 DEF Called
  <2>2. CASE v # w
    <3>1. workers'[v] = workers[v]
      BY <1>5, <2>2
    <3>2. BookingAt(v) # b
      BY <1>4, <2>2, <3>1, ActingAtJob DEF Alone
    <3>3. BookingAt(v) \in BookingIds /\ rows[workers[v].job].calendar \in Calendars
      BY JobTyped DEF BookingAt
    <3>4. EventOf(v)' = EventOf(v)
      BY <1>8, <3>1, <3>2, <3>3 DEF EventOf, BookingAt
    <3> QED
      BY <3>1, <3>4 DEF EventsAsTold, Called
  <2> QED
    BY <2>1, <2>2
<1>12. AgreedAll'
  <2> SUFFICES ASSUME NEW a \in BookingIds, a \notin crossed PROVE AgreesAt(a)'
    BY DEF AgreedAll
  <2>1. mapping[a].calendar \in Calendars /\ AgreesAt(a)
    BY DEF TypeOK, Mapping, AgreedAll
  <2>2. CASE a # b \/ mapping[a].calendar # c
    <3>1. events'[mapping[a].calendar][a] = events[mapping[a].calendar][a]
      BY <1>8, <1>9, <2>1, <2>2
    <3> QED
      BY <2>1, <3>1 DEF AgreesAt
  <2>3. CASE a = b /\ mapping[b].calendar = c
    <3>1. Told(event, workers[w].view)
      BY <2>3
    <3>2. ViewIs(workers[w].view, workers[w].job, booking[b])
      BY <1>4 DEF ViewsOfJobs
    <3>3. booking[b].sequence \in Nat /\ mapping[b].sequence \in Nat
          /\ SequenceOf(workers[w].job) \in Nat
      BY <1>1, SequencesTyped
    <3>4. SequenceOf(workers[w].job) <= booking[b].sequence
      BY <1>4, ActingAtJob, JobBehind
    <3>5. mapping[b].status # "NONE" => mapping[b].sequence <= SequenceOf(workers[w].job)
      BY <1>4, <2>3 DEF MappingBehind, BehindWorker, Behind
    <3>6. mapping[b].status = "SYNCED" /\ mapping[b].sequence = booking[b].sequence =>
            booking[b].sequence = workers[w].view.sequence
      BY <3>2, <3>3, <3>4, <3>5 DEF ViewIs
    <3>7. events'[mapping'[b].calendar][b] = event
      BY <1>9, <2>3
    <3> QED
      BY <2>3, <3>1, <3>2, <3>6, <3>7 DEF AgreesAt, Agrees, ViewIs, Told
  <2> QED
    BY <2>2, <2>3
<1> QED
  BY <1>6, <1>7, <1>11, <1>12

LEMMA AgreeFailsSilently ==
  ASSUME TypeOK, AgreeInv, NEW w \in Workers, workers[w].step \in Looking, Goto(w, "failed"),
         UNCHANGED <<booking, rows, integration, crossed, switches>>, UNCHANGED mapping,
         UNCHANGED events
  PROVE  AgreeInv'
<1>1. WorkersQuiet
  BY GotoQuiet DEF AtJob, Acting, Failing
<1>2. \A v \in Workers : workers'[v].step = "refused" => workers[v].step = "refused"
  BY GotoKeepsJob DEF KeepsJob
<1> QED
  BY <1>1, <1>2, SameQuiet, WorkQuiet

\* The answers the calls of a worker bring about.
LEMMA Answers ==
  ASSUME TypeOK, AgreeInv, NEW w \in Workers
  PROVE  /\ workers[w].view.status = "CANCELLED" => Told(Removed(EventOf(w)), workers[w].view)
         /\ workers[w].view.status = "CONFIRMED" =>
              Told([state |-> "present", time |-> workers[w].view.time], workers[w].view)
         /\ workers[w].step = "conflict" /\ BookingAt(w) \notin crossed =>
              Told(Patched(EventOf(w), workers[w].view.time), workers[w].view)
<1>1. EventOf(w) \in Event
  BY EventsTyped
<1>2. workers[w].view.status = "CANCELLED" => Told(Removed(EventOf(w)), workers[w].view)
  BY <1>1 DEF Told, Removed, Event
<1>3. workers[w].view.status = "CONFIRMED" =>
        Told([state |-> "present", time |-> workers[w].view.time], workers[w].view)
  BY DEF Told
<1>4. workers[w].step = "conflict" /\ BookingAt(w) \notin crossed =>
        EventOf(w).state # "absent" /\ workers[w].view.status = "CONFIRMED"
  BY DEF AgreeInv, EventsAsTold, Called
<1>5. workers[w].step = "conflict" /\ BookingAt(w) \notin crossed =>
        Told(Patched(EventOf(w), workers[w].view.time), workers[w].view)
  BY <1>1, <1>4 DEF Told, Patched, Event
<1> QED
  BY <1>2, <1>3, <1>5

LEMMA AgreeCalls ==
  ASSUME TypeOK, AgreeInv, NEW w \in Workers,
         DeleteEvent(w) \/ InsertEvent(w) \/ PatchEvent(w) \/ SyncFails(w)
  PROVE  AgreeInv'
<1>1. UNCHANGED <<booking, rows, integration, crossed, switches>> /\ UNCHANGED mapping
  BY DEF DeleteEvent, InsertEvent, PatchEvent, SyncFails, tables, bounds
<1> DEFINE inserted == [state |-> "present", time |-> workers[w].view.time]
           patched == Patched(EventOf(w), workers[w].view.time)
<1>2. Removed(EventOf(w)) \in Event /\ inserted \in Event /\ patched \in Event
  BY EventsTyped, JobTyped
<1>3. CASE InsertEvent(w) /\ UNCHANGED events /\ Goto(w, "conflict") /\ EventOf(w).state # "absent"
  <2>1. workers[w].step = "calling" /\ workers[w].view.status = "CONFIRMED"
    BY <1>3 DEF InsertEvent
  <2>2. "conflict" \in AtJob \ {"refused"} /\ workers[w].step \in Acting
    BY <2>1 DEF AtJob, Looking, Acting
  <2>3. /\ \A v \in Workers : /\ v = w \/ workers'[v] = workers[v]
                              /\ workers'[v].job = workers[v].job
                              /\ workers'[v].view = workers[v].view
                              /\ BookingAt(v)' = BookingAt(v)
        /\ workers'[w].step = "conflict"
    BY <1>1, <1>3, <2>2, GoingOn
  <2>4. Alone' /\ Written' /\ ViewsOfJobs' /\ Undisturbed'
    BY <1>1, <1>3, <2>2, GoingOn
  <2>5. MappingBehind' /\ MarkLeft' /\ LeavesMark'
    BY <1>1, <1>3, <2>2, MappingKept
  <2>6. \A v \in Workers : EventOf(v)' = EventOf(v)
    BY <1>1, <1>3, <2>3 DEF EventOf
  <2>7. EventsAsTold'
    <3> SUFFICES ASSUME NEW v \in Workers, BookingAt(v) \notin crossed PROVE Called(v)'
      BY <1>1, <2>3 DEF EventsAsTold
    <3>1. CASE v = w
      BY <1>3, <2>1, <2>3, <2>6, <3>1 DEF Called
    <3>2. CASE workers'[v] = workers[v]
      BY <2>6, <3>2 DEF AgreeInv, EventsAsTold, Called
    <3> QED
      BY <2>3, <3>1, <3>2
  <2>8. AgreedAll'
    BY <1>1, <1>3 DEF AgreeInv, AgreedAll, AgreesAt
  <2> QED
    BY <2>4, <2>5, <2>7, <2>8 DEF AgreeInv
<1>4. CASE SyncFails(w) /\ UNCHANGED events
  BY <1>1, <1>4, AgreeFailsSilently DEF SyncFails
<1>5. ASSUME workers[w].view.status = "CANCELLED", workers[w].step = "calling",
             SetEvent(w, Removed(EventOf(w))), Goto(w, "recording") \/ Goto(w, "failed")
      PROVE  AgreeInv'
  <2>1. Told(Removed(EventOf(w)), workers[w].view)
    BY <1>5, Answers
  <2> QED
    BY <1>1, <1>2, <1>5, <2>1, AgreeTold
<1>6. ASSUME workers[w].view.status = "CONFIRMED", workers[w].step = "calling",
             SetEvent(w, inserted), Goto(w, "recording") \/ Goto(w, "failed")
      PROVE  AgreeInv'
  <2>1. Told(inserted, workers[w].view)
    BY <1>6, Answers
  <2> HIDE DEF inserted
  <2> QED
    BY <1>1, <1>2, <1>6, <2>1, AgreeTold
<1>7. ASSUME workers[w].step = "conflict", SetEvent(w, patched),
             Goto(w, "recording") \/ Goto(w, "failed")
      PROVE  AgreeInv'
  <2>1. BookingAt(w) \notin crossed => Told(patched, workers[w].view)
    BY <1>7, Answers
  <2> HIDE DEF patched
  <2> QED
    BY <1>1, <1>2, <1>7, <2>1, AgreeTold
<1> QED
  BY <1>3, <1>4, <1>5, <1>6, <1>7 DEF DeleteEvent, InsertEvent, PatchEvent, SyncFails

\* Who is alone at his booking records what he told Google.
LEMMA AgreeRecords ==
  ASSUME TypeOK, AgreeInv, NEW w \in Workers, RecordMapping(w)
  PROVE  AgreeInv'
<1> USE DEF AgreeInv
<1> DEFINE j == workers[w].job
           b == BookingAt(w)
           view == workers[w].view
           upserted == [status |-> "SYNCED", sequence |-> SequenceOf(j), calendar |-> rows[j].calendar]
           updated == [mapping[b] EXCEPT !.status = "SYNCED", !.sequence = SequenceOf(j)]
<1>1. UNCHANGED <<booking, rows, integration, crossed, switches>> /\ UNCHANGED events
      /\ workers[w].step = "recording" /\ Goto(w, "completing")
  BY DEF RecordMapping, bounds
<1>2. "completing" \in AtJob \ {"refused"} /\ workers[w].step \in Acting /\ workers[w].step \in AtJob
  BY <1>1 DEF AtJob, Looking, Acting
<1>3. /\ \A v \in Workers : /\ v = w \/ workers'[v] = workers[v]
                            /\ workers'[v].job = workers[v].job
                            /\ workers'[v].view = workers[v].view
                            /\ BookingAt(v)' = BookingAt(v)
      /\ workers'[w].step = "completing"
  BY <1>1, <1>2, GoingOn
<1>4. Alone' /\ Written' /\ ViewsOfJobs' /\ Undisturbed'
  BY <1>1, <1>2, GoingOn
<1>5. b \in BookingIds /\ mapping \in [BookingIds -> Mapping] /\ mapping[b] \in Mapping
      /\ j = <<b, SequenceOf(j)>>
  <2>1. j \in Jobs /\ b = BookingOf(j)
    BY JobTyped DEF BookingAt
  <2> QED
    BY <2>1, JobTyped DEF TypeOK, Jobs, BookingOf, SequenceOf
<1>6. /\ ViewIs(view, j, booking[b])
      /\ SequenceOf(j) <= booking[b].sequence /\ booking[b].status # "NONE"
      /\ b \notin crossed => Behind(mapping[b], SequenceOf(j)) /\ Told(events[rows[j].calendar][b], view)
  BY <1>1, <1>2, JobBehind
     DEF ViewsOfJobs, MappingBehind, BehindWorker, EventsAsTold, Called, EventOf, BookingAt
<1>7. SequenceOf(j) \in Nat /\ booking[b].sequence \in Nat /\ mapping[b].sequence \in Nat
  BY <1>5, SequencesTyped
<1>8. \/ view.status = "CONFIRMED" /\ mapping' = [mapping EXCEPT ![b] = upserted]
      \/ /\ view.status = "CANCELLED" /\ mapping[b].status # "NONE"
         /\ mapping' = [mapping EXCEPT ![b] = updated]
      \/ view.status = "CANCELLED" /\ mapping[b].status = "NONE" /\ mapping' = mapping
  BY <1>5 DEF RecordMapping, BookingAt
<1>9. /\ upserted.status = "SYNCED" /\ upserted.sequence = SequenceOf(j)
      /\ upserted.calendar = rows[j].calendar
      /\ updated.status = "SYNCED" /\ updated.sequence = SequenceOf(j)
      /\ updated.calendar = mapping[b].calendar
  BY <1>5 DEF Mapping
<1> HIDE DEF upserted, updated
<1>10. \A a \in BookingIds : a # b => mapping'[a] = mapping[a]
  BY <1>5, <1>8
<1>11. \/ view.status = "CONFIRMED" /\ mapping'[b] = upserted
       \/ view.status = "CANCELLED" /\ mapping[b].status # "NONE" /\ mapping'[b] = updated
       \/ view.status = "CANCELLED" /\ mapping[b].status = "NONE" /\ mapping'[b] = mapping[b]
  BY <1>5, <1>8
<1> HIDE DEF b, j, view
<1>12. \A v \in Workers : v # w /\ workers[v].step \in AtJob /\ BookingAt(v) = b => b \in crossed
  BY <1>2 DEF Alone, b
<1>13. MappingBehind'
  <2>1. \A a \in BookingIds : a = b => BehindBooking(a)'
    BY <1>1, <1>5, <1>6, <1>9, <1>11 DEF MappingBehind, BehindBooking, Behind
  <2>2. \A a \in BookingIds : BehindBooking(a)'
    BY <1>1, <1>10, <2>1 DEF MappingBehind, BehindBooking
  <2>3. ASSUME NEW v \in Workers PROVE BehindWorker(v)'
    <3>1. CASE v = w
      BY <1>3, <3>1 DEF BehindWorker, Acting
    <3>2. CASE v # w
      BY <1>1, <1>3, <1>10, <1>12, <3>2, ActingAtJob, JobTyped DEF MappingBehind, BehindWorker, BookingAt
    <3> QED
      BY <3>1, <3>2
  <2> QED
    BY <2>2, <2>3 DEF MappingBehind
<1>14. EventsAsTold'
  <2> SUFFICES ASSUME NEW v \in Workers, BookingAt(v) \notin crossed PROVE Called(v)'
    BY <1>1, <1>3 DEF EventsAsTold
  <2>1. CASE v = w
    BY <1>3, <2>1 DEF Called
  <2>2. CASE workers'[v] = workers[v]
    <3>1. EventOf(v)' = EventOf(v)
      BY <1>1, <2>2 DEF EventOf
    <3> QED
      BY <2>2, <3>1 DEF EventsAsTold, Called
  <2> QED
    BY <1>3, <2>1, <2>2
<1>15. ASSUME NEW a \in BookingIds, a = b, b \notin crossed PROVE AgreesAt(a)'
  <2> SUFFICES ASSUME mapping'[a].status = "SYNCED", mapping'[a].sequence = booking[a].sequence
               PROVE  /\ booking[a].status = "CONFIRMED" =>
                           LET event == events[mapping'[a].calendar][a]
                           IN /\ event.state # "absent"
                              /\ event.state = "present" => event.time = booking[a].time
                      /\ booking[a].status = "CANCELLED"
                         /\ rows[<<a, mapping'[a].sequence>>].calendar = mapping'[a].calendar =>
                           events[mapping'[a].calendar][a].state # "present"
    BY <1>1 DEF AgreesAt, Agrees
  <2>1. CASE view.status = "CONFIRMED" /\ mapping'[b] = upserted
    BY <1>6, <1>9, <1>15, <2>1 DEF ViewIs, Told
  <2>2. CASE view.status = "CANCELLED" /\ mapping'[b] = updated
    BY <1>5, <1>6, <1>9, <1>15, <2>2 DEF ViewIs, Told
  <2>3. CASE mapping[b].status = "NONE" /\ mapping'[b] = mapping[b]
    BY <1>15, <2>3
  <2> QED
    BY <1>11, <2>1, <2>2, <2>3
<1>16. AgreedAll'
  <2>1. \A a \in BookingIds : a # b /\ a \notin crossed => AgreesAt(a)'
    BY <1>1, <1>10 DEF AgreedAll, AgreesAt
  <2> QED
    BY <1>1, <1>15, <2>1 DEF AgreedAll
<1>17. b \notin crossed /\ booking[b].status = "CONFIRMED" /\ booking[b].sequence = SequenceOf(j)
         => Marked(mapping'[b], booking[b])
  BY <1>6, <1>9, <1>11 DEF ViewIs, Marked
<1>18. LeavesMark'
  <2> SUFFICES ASSUME NEW v \in Workers, workers'[v].step = "completing", BookingAt(v) \notin crossed,
                      switches = 0, booking[BookingAt(v)].status = "CONFIRMED",
                      booking[BookingAt(v)].sequence = SequenceOf(workers[v].job)
               PROVE  Marked(mapping'[BookingAt(v)], booking[BookingAt(v)])
    BY <1>1, <1>3 DEF LeavesMark
  <2>1. CASE v = w
    BY <1>17, <2>1 DEF b, j
  <2>2. CASE v # w
    <3>1. workers[v].step = "completing" /\ BookingAt(v) # b /\ BookingAt(v) \in BookingIds
      BY <1>3, <1>12, <2>2, ActingAtJob, JobTyped DEF BookingAt
    <3> QED
      BY <1>10, <3>1 DEF LeavesMark
  <2> QED
    BY <2>1, <2>2
<1>19. MarkLeft'
  <2> SUFFICES ASSUME NEW a \in BookingIds, a \notin crossed, switches = 0,
                      booking[a].status = "CONFIRMED",
                      rows[<<a, booking[a].sequence>>].status = "COMPLETED"
               PROVE  Marked(mapping'[a], booking[a])
    BY <1>1 DEF MarkLeft
  <2>1. Marked(mapping[a], booking[a])
    BY DEF MarkLeft
  <2>2. CASE a = b
    <3>1. booking[b].sequence = SequenceOf(j)
      BY <1>6, <1>7, <2>1, <2>2 DEF Marked, Behind
    <3> QED
      BY <1>17, <2>2, <3>1
  <2>3. CASE a # b
    BY <1>10, <2>1, <2>3
  <2> QED
    BY <2>2, <2>3
<1> QED
  BY <1>4, <1>13, <1>14, <1>16, <1>18, <1>19

-----------------------------------------------------------------------------
(* Jobs begin and bookings change *)

\* A job is begun: whoever else is at its booking has crossed the worker's way.
LEMMA AgreeBegins ==
  ASSUME TypeOK, AgreeInv, NEW w \in Workers, NEW j \in Jobs, Begin(w, j)
  PROVE  AgreeInv'
<1> USE DEF AgreeInv
<1> DEFINE b == BookingOf(j)
           step == IF Gone(b) \/ Outdated(j) THEN "completing" ELSE "reading"
           new == [workers[w] EXCEPT !.batch = workers[w].batch \ {j}, !.job = j,
                                     !.view = booking[b], !.step = step]
<1>1. UNCHANGED <<booking, rows, mapping, integration, switches>> /\ UNCHANGED events
      /\ j \in workers[w].batch /\ workers[w].step = "next"
      /\ crossed' = IF \E v \in Workers \ {w} : AtBooking(v, b) THEN crossed \cup {b} ELSE crossed
  BY DEF Begin, tables, bounds
<1>2. workers[w] \in Worker /\ workers \in [Workers -> Worker] /\ b \in BookingIds
      /\ booking[b] \in BookingRow
  BY JobParts DEF TypeOK
<1>3. workers' = [workers EXCEPT ![w] = new]
  BY <1>2 DEF Begin
<1>4. step \in {"completing", "reading"} /\ (step = "reading" => ~Gone(b) /\ ~Outdated(j))
      /\ (step = "completing" => Gone(b) \/ Outdated(j))
  OBVIOUS
<1> HIDE DEF step
<1>5. new.step = step /\ new.job = j /\ new.view = booking[b]
      /\ new.batch = workers[w].batch \ {j}
  BY <1>2 DEF Worker
<1> HIDE DEF new
<1>6. /\ \A v \in Workers : v = w \/ workers'[v] = workers[v]
      /\ workers'[w].step = step /\ workers'[w].job = j /\ workers'[w].view = booking[b]
      /\ workers'[w].batch = workers[w].batch \ {j}
  BY <1>2, <1>3, <1>5
<1>7. crossed \subseteq crossed'
  BY <1>1
<1>8. rows[j].status # "NONE" /\ SequenceOf(j) <= booking[b].sequence /\ booking[b].status # "NONE"
  BY <1>1 DEF Written, Claimed, WrittenRow
<1>9. SequenceOf(j) \in Nat /\ booking[b].sequence \in Nat /\ mapping[b].sequence \in Nat
  <2>1. SequenceOf(j) \in Nat
    BY JobParts, BoundsAssumption DEF Sequences
  <2> QED
    BY <1>2, <2>1, SequencesTyped
<1>10. step = "reading" => booking[b].sequence = SequenceOf(j)
                           /\ booking[b].status \in {"CONFIRMED", "CANCELLED"}
  BY <1>2, <1>4, <1>8, <1>9 DEF Gone, Outdated, BookingRow
<1>11. BookingAt(w)' = b
  BY <1>6 DEF BookingAt
<1>12. \A v \in Workers \ {w} : BookingAt(v)' = BookingAt(v)
  BY <1>6 DEF BookingAt
<1>13. \A v \in Workers \ {w} : workers[v].step \in AtJob /\ BookingAt(v) = b => b \in crossed'
  BY <1>1 DEF AtBooking, BookingAt
<1> HIDE DEF b
<1>14. Alone'
  <2> SUFFICES ASSUME NEW u \in Workers, NEW v \in Workers, u # v, workers'[u].step \in AtJob,
                      workers'[v].step \in AtJob, BookingAt(u)' = BookingAt(v)'
               PROVE  BookingAt(u)' \in crossed'
    BY DEF Alone
  <2>1. CASE u = w
    BY <1>6, <1>11, <1>12, <1>13, <2>1
  <2>2. CASE v = w
    BY <1>6, <1>11, <1>12, <1>13, <2>2
  <2>3. CASE u # w /\ v # w
    BY <1>6, <1>7, <1>12, <2>3 DEF Alone
  <2> QED
    BY <2>1, <2>2, <2>3
<1>15. Written'
  <2>1. \A k \in Jobs : WrittenRow(k)'
    BY <1>1 DEF Written, WrittenRow
  <2>2. ASSUME NEW v \in Workers PROVE Claimed(v)'
    <3>1. CASE v = w
      BY <1>1, <1>6, <1>8, <3>1 DEF Written, Claimed
    <3>2. CASE workers'[v] = workers[v]
      BY <1>1, <3>2 DEF Written, Claimed
    <3> QED
      BY <1>6, <3>1, <3>2
  <2> QED
    BY <2>1, <2>2 DEF Written
<1>16. ViewsOfJobs'
  <2> SUFFICES ASSUME NEW v \in Workers, workers'[v].step \in Acting
               PROVE  ViewIs(workers'[v].view, workers'[v].job, booking'[BookingAt(v)'])
    BY DEF ViewsOfJobs
  <2>1. CASE v = w
    <3>1. step = "reading"
      BY <1>4, <1>6, <2>1 DEF Acting
    <3> QED
      BY <1>1, <1>6, <1>10, <1>11, <2>1, <3>1 DEF ViewIs
  <2>2. CASE v # w
    BY <1>1, <1>6, <1>12, <2>2 DEF ViewsOfJobs
  <2> QED
    BY <2>1, <2>2
<1>17. MappingBehind'
  <2>1. \A a \in BookingIds : BehindBooking(a)'
    BY <1>1 DEF MappingBehind, BehindBooking
  <2>2. ASSUME NEW v \in Workers, workers'[v].step \in Acting, BookingAt(v)' \notin crossed'
        PROVE  Behind(mapping'[BookingAt(v)'], SequenceOf(workers'[v].job))
    <3>1. CASE v = w
      <4>1. step = "reading"
        BY <1>4, <1>6, <2>2, <3>1 DEF Acting
      <4>2. Behind(mapping[b], booking[b].sequence)
        BY <1>2 DEF MappingBehind, BehindBooking
      <4> QED
        BY <1>1, <1>6, <1>10, <1>11, <3>1, <4>1, <4>2
    <3>2. CASE v # w
      BY <1>1, <1>6, <1>7, <1>12, <2>2, <3>2 DEF MappingBehind, BehindWorker
    <3> QED
      BY <3>1, <3>2
  <2>3. \A v \in Workers : BehindWorker(v)'
    BY <2>2 DEF BehindWorker
  <2> QED
    BY <2>1, <2>3 DEF MappingBehind
<1>18. EventsAsTold'
  <2> SUFFICES ASSUME NEW v \in Workers, BookingAt(v)' \notin crossed' PROVE Called(v)'
    BY DEF EventsAsTold
  <2>1. CASE v = w
    BY <1>4, <1>6, <2>1 DEF Called
  <2>2. CASE v # w
    <3>1. workers'[v] = workers[v] /\ BookingAt(v) \notin crossed
      BY <1>6, <1>7, <1>12, <2>2
    <3>2. EventOf(v)' = EventOf(v)
      BY <1>1, <3>1 DEF EventOf
    <3> QED
      BY <3>1, <3>2 DEF EventsAsTold, Called
  <2> QED
    BY <2>1, <2>2
<1>19. AgreedAll'
  BY <1>1, <1>7 DEF AgreedAll, AgreesAt
<1>20. Undisturbed'
  <2>1. \A v \in Workers : workers'[v].step = "refused" => workers[v].step = "refused"
    BY <1>4, <1>6
  <2> QED
    BY <1>1, <2>1 DEF Undisturbed
<1>21. LeavesMark'
  <2> SUFFICES ASSUME NEW v \in Workers, workers'[v].step = "completing",
                      BookingAt(v)' \notin crossed', switches = 0,
                      booking[BookingAt(v)'].status = "CONFIRMED",
                      booking[BookingAt(v)'].sequence = SequenceOf(workers'[v].job)
               PROVE  Marked(mapping[BookingAt(v)'], booking[BookingAt(v)'])
    BY <1>1 DEF LeavesMark
  <2>1. CASE v = w
    <3>1. Gone(b) \/ Outdated(j)
      BY <1>4, <1>6, <2>1
    <3> QED
      BY <1>6, <1>9, <1>11, <2>1, <3>1 DEF Gone, Outdated, b
  <2>2. CASE v # w
    BY <1>6, <1>7, <1>12, <2>2 DEF LeavesMark
  <2> QED
    BY <2>1, <2>2
<1>22. MarkLeft'
  BY <1>1, <1>7 DEF MarkLeft
<1> QED
  BY <1>14, <1>15, <1>16, <1>17, <1>18, <1>19, <1>20, <1>21, <1>22

\* A change of a booking makes its older jobs, views and mapping old.
LEMMA AgreeChange ==
  ASSUME TypeOK, AgreeInv, NEW b \in BookingIds, NEW status \in {"CONFIRMED", "CANCELLED"},
         NEW sequence \in Sequences, NEW time \in Sequences,
         Change(b, status, sequence, time),
         booking[b].status = "NONE" \/ booking[b].sequence < sequence
  PROVE  AgreeInv'
<1> USE DEF AgreeInv
<1> DEFINE k == <<b, sequence>>
           new == [status |-> status, sequence |-> sequence, time |-> time]
<1>1. UNCHANGED <<mapping, integration, events, workers, crossed, switches>>
      /\ booking' = [booking EXCEPT ![b] = new]
      /\ (rows' = [rows EXCEPT ![k] = NewRow] \/ UNCHANGED rows)
  BY DEF Change, bounds
<1>2. k \in Jobs /\ BookingOf(k) = b /\ SequenceOf(k) = sequence
  BY JobsOfBookings DEF BookingOf, SequenceOf
<1>3. sequence \in Nat /\ \A j \in Jobs : SequenceOf(j) \in Nat
  BY JobParts, BoundsAssumption DEF Sequences
<1>4. \A a \in BookingIds : booking[a].sequence \in Nat /\ mapping[a].sequence \in Nat
  BY SequencesTyped
<1>5. NewRow.status = "PENDING"
  BY DEF NewRow, EmptyRow
<1>6. new.status = status /\ new.sequence = sequence
  OBVIOUS
<1> HIDE DEF k, new
<1>7. booking'[b] = new /\ \A a \in BookingIds : a # b => booking'[a] = booking[a]
  BY <1>1 DEF TypeOK
<1>8. (rows'[k] = NewRow \/ rows'[k] = rows[k]) /\ \A j \in Jobs : j # k => rows'[j] = rows[j]
  BY <1>1, <1>2 DEF TypeOK
<1>9. \A j \in Jobs : BookingOf(j) = b /\ rows[j].status # "NONE" => SequenceOf(j) < sequence
  BY <1>3, <1>4 DEF Written, WrittenRow
<1>10. rows[k].status = "NONE"
  BY <1>2, <1>3, <1>9
<1>11. \A j \in Jobs : rows[j].status # "NONE" => rows'[j] = rows[j]
  BY <1>8, <1>10
<1>12. mapping[b].status # "NONE" => mapping[b].sequence < sequence /\ mapping[b].sequence # sequence
  BY <1>3, <1>4 DEF MappingBehind, BehindBooking, Behind
<1>13. \A w \in Workers : workers[w].job \in Jobs /\ BookingAt(w) \in BookingIds
  BY JobTyped DEF BookingAt
<1>14. ASSUME NEW w \in Workers, workers[w].step \in AtJob
       PROVE  /\ rows'[workers[w].job] = rows[workers[w].job]
              /\ rows[workers[w].job].status # "NONE"
              /\ BookingAt(w) = b => SequenceOf(workers[w].job) # sequence
  <2>1. rows[workers[w].job].status # "NONE"
    BY <1>14 DEF Written, Claimed
  <2>2. BookingAt(w) = b => SequenceOf(workers[w].job) < sequence
    BY <1>9, <1>13, <2>1 DEF BookingAt
  <2> QED
    BY <1>3, <1>11, <1>13, <2>1, <2>2
<1>15. Alone'
  BY <1>1 DEF Alone, BookingAt
<1>16. Written'
  <2>1. ASSUME NEW j \in Jobs PROVE WrittenRow(j)'
    <3>1. CASE BookingOf(j) = b
      <4>1. rows[j].status # "NONE" => SequenceOf(j) < sequence
        BY <1>9, <3>1
      <4>2. rows'[j].status # "NONE" => SequenceOf(j) <= sequence
        BY <1>2, <1>3, <1>8, <4>1
      <4> QED
        BY <1>6, <1>7, <3>1, <4>2 DEF WrittenRow
    <3>2. CASE BookingOf(j) # b
      <4>1. rows'[j] = rows[j] /\ booking'[BookingOf(j)] = booking[BookingOf(j)]
        BY <1>2, <1>7, <1>8, <3>2, JobParts
      <4> QED
        BY <4>1 DEF Written, WrittenRow
    <3> QED
      BY <3>1, <3>2
  <2>2. ASSUME NEW w \in Workers PROVE Claimed(w)'
    <3>1. workers[w].batch \subseteq Jobs
      BY JobTyped
    <3> QED
      BY <1>1, <1>11, <1>14, <3>1 DEF Written, Claimed
  <2> QED
    BY <2>1, <2>2 DEF Written
<1>17. ViewsOfJobs'
  <2> SUFFICES ASSUME NEW w \in Workers, workers[w].step \in Acting
               PROVE  ViewIs(workers[w].view, workers[w].job, booking'[BookingAt(w)])
    BY <1>1 DEF ViewsOfJobs, BookingAt
  <2>1. ViewIs(workers[w].view, workers[w].job, booking[BookingAt(w)])
    BY DEF ViewsOfJobs
  <2>2. BookingAt(w) = b => SequenceOf(workers[w].job) # sequence
    BY <1>14, ActingAtJob
  <2> QED
    BY <1>6, <1>7, <1>13, <2>1, <2>2 DEF ViewIs
<1>18. MappingBehind'
  <2>1. ASSUME NEW a \in BookingIds PROVE BehindBooking(a)'
    <3>1. CASE a = b
      BY <1>1, <1>3, <1>4, <1>6, <1>7, <1>12, <3>1 DEF BehindBooking, Behind
    <3>2. CASE a # b
      BY <1>1, <1>7, <3>2 DEF MappingBehind, BehindBooking
    <3> QED
      BY <3>1, <3>2
  <2>2. \A w \in Workers : BehindWorker(w)'
    BY <1>1 DEF MappingBehind, BehindWorker, BookingAt
  <2> QED
    BY <2>1, <2>2 DEF MappingBehind
<1>19. EventsAsTold'
  <2> SUFFICES ASSUME NEW w \in Workers, BookingAt(w) \notin crossed,
                      workers[w].step \in {"conflict", "recording"}
               PROVE  Called(w)'
    BY <1>1 DEF EventsAsTold, BookingAt, Called
  <2>1. rows'[workers[w].job] = rows[workers[w].job]
    BY <1>14, ActingAtJob
  <2>2. EventOf(w)' = EventOf(w)
    BY <1>1, <2>1 DEF EventOf
  <2> QED
    BY <1>1, <2>2 DEF EventsAsTold, Called
<1>20. AgreedAll'
  <2> SUFFICES ASSUME NEW a \in BookingIds, a \notin crossed PROVE AgreesAt(a)'
    BY <1>1 DEF AgreedAll
  <2>1. CASE a = b
    BY <1>1, <1>6, <1>7, <1>12, <2>1 DEF AgreesAt, Agrees
  <2>2. CASE a # b
    <3>1. <<a, mapping[a].sequence>> \in Jobs /\ <<a, mapping[a].sequence>> # k
      BY <2>2, JobsOfBookings DEF TypeOK, Mapping, k
    <3> QED
      BY <1>1, <1>7, <1>8, <2>2, <3>1 DEF AgreedAll, AgreesAt
  <2> QED
    BY <2>1, <2>2
<1>21. Undisturbed'
  BY <1>1 DEF Undisturbed
<1>22. LeavesMark'
  <2> SUFFICES ASSUME NEW w \in Workers, workers[w].step = "completing", BookingAt(w) \notin crossed,
                      switches = 0, booking'[BookingAt(w)].status = "CONFIRMED",
                      booking'[BookingAt(w)].sequence = SequenceOf(workers[w].job)
               PROVE  Marked(mapping[BookingAt(w)], booking'[BookingAt(w)])
    BY <1>1 DEF LeavesMark, BookingAt
  <2>1. BookingAt(w) # b
    BY <1>6, <1>7, <1>14, ActingAtJob
  <2> QED
    BY <1>7, <1>13, <2>1 DEF LeavesMark
<1>23. MarkLeft'
  <2> SUFFICES ASSUME NEW a \in BookingIds, a \notin crossed, switches = 0,
                      booking'[a].status = "CONFIRMED",
                      rows'[<<a, booking'[a].sequence>>].status = "COMPLETED"
               PROVE  Marked(mapping[a], booking'[a])
    BY <1>1 DEF MarkLeft
  <2>1. CASE a = b
    <3>1. <<a, booking'[a].sequence>> = k
      BY <1>6, <1>7, <2>1 DEF k
    <3> QED
      BY <1>5, <1>8, <1>10, <3>1
  <2>2. CASE a # b
    <3>1. <<a, booking[a].sequence>> \in Jobs /\ <<a, booking[a].sequence>> # k
      BY <2>2, JobsOfBookings DEF TypeOK, BookingRow, k
    <3> QED
      BY <1>7, <1>8, <2>2, <3>1 DEF MarkLeft
  <2> QED
    BY <2>1, <2>2
<1> QED
  BY <1>15, <1>16, <1>17, <1>18, <1>19, <1>20, <1>21, <1>22, <1>23

LEMMA AgreeBooks ==
  ASSUME TypeOK, AgreeInv, NEW b \in BookingIds, Book(b) \/ Reschedule(b) \/ Cancel(b)
  PROVE  AgreeInv'
<1>1. booking[b] \in BookingRow
  BY DEF TypeOK
<1>2. booking[b].sequence \in Sequences /\ booking[b].time \in Sequences /\ 0 \in Sequences
  BY <1>1, BoundsAssumption DEF BookingRow, Sequences
<1>3. booking[b].sequence < MaxChanges =>
        booking[b].sequence + 1 \in Sequences /\ booking[b].sequence < booking[b].sequence + 1
  BY <1>2, BoundsAssumption DEF Sequences
<1> QED
  BY <1>2, <1>3, AgreeChange DEF Book, Reschedule, Cancel

LEMMA AgreeDeletes ==
  ASSUME TypeOK, AgreeInv, NEW b \in BookingIds, DeleteBooking(b)
  PROVE  AgreeInv'
<1> USE DEF AgreeInv
<1> DEFINE new == [booking[b] EXCEPT !.status = "DELETED"]
<1>1. UNCHANGED <<integration, events, workers, crossed, switches>>
      /\ booking[b].status # "NONE" /\ mapping' = [mapping EXCEPT ![b] = NoMapping]
  BY DEF DeleteBooking, bounds
<1>2. booking \in [BookingIds -> BookingRow] /\ mapping \in [BookingIds -> Mapping]
      /\ booking[b] \in BookingRow
  BY DEF TypeOK
<1>3. booking' = [booking EXCEPT ![b] = new]
  BY <1>2 DEF DeleteBooking
<1>4. new.status = "DELETED" /\ new.sequence = booking[b].sequence /\ new.time = booking[b].time
  BY <1>2 DEF BookingRow
<1> HIDE DEF new
<1>5. booking'[b] = new /\ \A a \in BookingIds : a # b => booking'[a] = booking[a]
  BY <1>2, <1>3
<1>6. mapping'[b].status = "NONE" /\ \A a \in BookingIds : a # b => mapping'[a] = mapping[a]
  BY <1>1, <1>2 DEF NoMapping
<1>7. ASSUME NEW j \in Jobs
      PROVE  /\ rows'[j].calendar = rows[j].calendar
             /\ rows'[j].status # "NONE" => rows[j].status # "NONE"
             /\ rows[j].status # "NONE" => rows'[j].status # "NONE"
             /\ BookingOf(j) # b => rows'[j] = rows[j]
  <2> DEFINE row == [EmptyRow EXCEPT !.status = "DELETED", !.calendar = rows[j].calendar]
  <2>1. rows'[j] = IF BookingOf(j) = b /\ Present(j) THEN row ELSE rows[j]
    BY DEF DeleteBooking
  <2>2. row.status = "DELETED" /\ row.calendar = rows[j].calendar
    BY DEF EmptyRow
  <2> HIDE DEF row
  <2> QED
    BY <2>1, <2>2 DEF Present
<1>8. \A w \in Workers : workers[w].job \in Jobs /\ BookingAt(w) \in BookingIds
  BY JobTyped DEF BookingAt
<1>9. Alone'
  BY <1>1 DEF Alone, BookingAt
<1>10. Written'
  <2>1. \A a \in BookingIds : booking'[a].sequence = booking[a].sequence
                              /\ (booking[a].status # "NONE" => booking'[a].status # "NONE")
    BY <1>4, <1>5
  <2>2. \A j \in Jobs : WrittenRow(j)'
    BY <1>7, <2>1, JobParts DEF Written, WrittenRow
  <2>3. ASSUME NEW w \in Workers PROVE Claimed(w)'
    <3>1. workers[w].batch \subseteq Jobs
      BY JobTyped
    <3> QED
      BY <1>1, <1>7, <1>8, <3>1 DEF Written, Claimed
  <2> QED
    BY <2>2, <2>3 DEF Written
<1>11. ViewsOfJobs'
  <2> SUFFICES ASSUME NEW w \in Workers, workers[w].step \in Acting
               PROVE  ViewIs(workers[w].view, workers[w].job, booking'[BookingAt(w)])
    BY <1>1 DEF ViewsOfJobs, BookingAt
  <2>1. ViewIs(workers[w].view, workers[w].job, booking[BookingAt(w)])
    BY DEF ViewsOfJobs
  <2> QED
    BY <1>4, <1>5, <1>8, <2>1 DEF ViewIs
<1>12. MappingBehind'
  <2>1. ASSUME NEW a \in BookingIds PROVE BehindBooking(a)'
    <3>1. CASE a = b
      BY <1>6, <3>1 DEF BehindBooking, Behind
    <3>2. CASE a # b
      BY <1>5, <1>6, <3>2 DEF MappingBehind, BehindBooking
    <3> QED
      BY <3>1, <3>2
  <2>2. ASSUME NEW w \in Workers, workers[w].step \in Acting, BookingAt(w) \notin crossed
        PROVE  Behind(mapping'[BookingAt(w)], SequenceOf(workers[w].job))
    <3>1. CASE BookingAt(w) = b
      BY <1>6, <3>1 DEF Behind
    <3>2. CASE BookingAt(w) # b
      BY <1>6, <1>8, <2>2, <3>2 DEF MappingBehind, BehindWorker
    <3> QED
      BY <3>1, <3>2
  <2>3. \A w \in Workers : BehindWorker(w)'
    BY <1>1, <2>2 DEF BehindWorker, BookingAt
  <2> QED
    BY <2>1, <2>3 DEF MappingBehind
<1>13. EventsAsTold'
  <2>1. \A w \in Workers : EventOf(w)' = EventOf(w)
    BY <1>1, <1>7, <1>8 DEF EventOf
  <2> QED
    BY <1>1, <2>1 DEF EventsAsTold, Called, BookingAt
<1>14. AgreedAll'
  <2> SUFFICES ASSUME NEW a \in BookingIds, a \notin crossed PROVE AgreesAt(a)'
    BY <1>1 DEF AgreedAll
  <2>1. CASE a = b
    BY <1>6, <2>1 DEF AgreesAt, Agrees
  <2>2. CASE a # b
    <3>1. <<a, mapping[a].sequence>> \in Jobs
      BY JobsOfBookings DEF TypeOK, Mapping
    <3> QED
      BY <1>1, <1>5, <1>6, <1>7, <2>2, <3>1 DEF AgreedAll, AgreesAt
  <2> QED
    BY <2>1, <2>2
<1>15. Undisturbed'
  BY <1>1 DEF Undisturbed
<1>16. LeavesMark'
  <2> SUFFICES ASSUME NEW w \in Workers, workers[w].step = "completing", BookingAt(w) \notin crossed,
                      switches = 0, booking'[BookingAt(w)].status = "CONFIRMED",
                      booking'[BookingAt(w)].sequence = SequenceOf(workers[w].job)
               PROVE  Marked(mapping'[BookingAt(w)], booking'[BookingAt(w)])
    BY <1>1 DEF LeavesMark, BookingAt
  <2>1. BookingAt(w) # b
    BY <1>4, <1>5
  <2> QED
    BY <1>5, <1>6, <1>8, <2>1 DEF LeavesMark
<1>17. MarkLeft'
  <2> SUFFICES ASSUME NEW a \in BookingIds, a \notin crossed, switches = 0,
                      booking'[a].status = "CONFIRMED",
                      rows'[<<a, booking'[a].sequence>>].status = "COMPLETED"
               PROVE  Marked(mapping'[a], booking'[a])
    BY <1>1 DEF MarkLeft
  <2>1. a # b
    BY <1>4, <1>5
  <2>2. <<a, booking[a].sequence>> \in Jobs /\ BookingOf(<<a, booking[a].sequence>>) = a
    BY JobsOfBookings DEF TypeOK, BookingRow, BookingOf
  <2> QED
    BY <1>5, <1>6, <1>7, <2>1, <2>2 DEF MarkLeft
<1> QED
  BY <1>9, <1>10, <1>11, <1>12, <1>13, <1>14, <1>15, <1>16, <1>17

-----------------------------------------------------------------------------
LEMMA InitAgrees == Init => AgreeInv
<1> SUFFICES ASSUME Init PROVE AgreeInv
  OBVIOUS
<1> USE DEF Init
<1>1. \A w \in Workers : /\ workers[w].step = "idle" /\ workers[w].batch = {}
                         /\ workers[w].step \notin AtJob /\ workers[w].step \notin Acting
  BY DEF IdleWorker, AtJob, Looking, Failing, Acting
<1>2. \A j \in Jobs : rows[j].status = "NONE"
  BY DEF EmptyRow
<1>3. \A b \in BookingIds : mapping[b].status = "NONE" /\ booking[b].status = "NONE"
  BY DEF NoMapping, NoBooking
<1>4. Alone /\ ViewsOfJobs /\ LeavesMark
  BY <1>1 DEF Alone, ViewsOfJobs, LeavesMark
<1>5. Written
  BY <1>1, <1>2 DEF Written, WrittenRow, Claimed
<1>6. MappingBehind
  BY <1>1, <1>3 DEF MappingBehind, BehindBooking, BehindWorker, Behind
<1>7. EventsAsTold
  BY <1>1 DEF EventsAsTold, Called
<1>8. AgreedAll
  BY <1>3 DEF AgreedAll, AgreesAt, Agrees
<1>9. Undisturbed
  BY <1>1 DEF Undisturbed
<1>10. MarkLeft
  BY <1>3 DEF MarkLeft
<1> QED
  BY <1>4, <1>5, <1>6, <1>7, <1>8, <1>9, <1>10 DEF AgreeInv

LEMMA NextAgrees == TypeOK /\ AgreeInv /\ [Next]_vars => AgreeInv'
<1> SUFFICES ASSUME TypeOK, AgreeInv, [Next]_vars PROVE AgreeInv'
  OBVIOUS
<1>1. CASE UNCHANGED vars
  <2>1. UNCHANGED <<booking, events, crossed, integration, switches>>
        /\ UNCHANGED rows /\ UNCHANGED mapping /\ UNCHANGED workers
    BY <1>1 DEF vars, tables, bounds
  <2> QED
    BY <2>1, SameQuiet, WorkQuiet
<1>2. ASSUME NEW w \in Workers, Work(w) PROVE AgreeInv'
  BY <1>2, AgreeRecover, AgreeClaim, AgreeBegins, AgreeReads, AgreeAuthorise, AgreeRefused,
     AgreeCalls, AgreeRecords, AgreeComplete, AgreeRevoke, AgreeFailed, AgreeFlag DEF Work
<1>3. ASSUME NEW w \in Workers, Stop(w) PROVE AgreeInv'
  BY <1>3, AgreeStop
<1>4. CASE TimePasses \/ \E j \in Jobs : WorkerStalls(j)
  BY <1>4, AgreeTime
<1>5. CASE ChangeIntegration
  BY <1>5, AgreeSwitch
<1>6. ASSUME NEW b \in BookingIds, Book(b) \/ Reschedule(b) \/ Cancel(b) \/ DeleteBooking(b)
      PROVE  AgreeInv'
  BY <1>6, AgreeBooks, AgreeDeletes
<1> QED
  BY <1>1, <1>2, <1>3, <1>4, <1>5, <1>6 DEF Next

LEMMA Agreement == Spec => []AgreeInv
<1>1. Init => AgreeInv
  BY InitAgrees
<1>2. TypeOK /\ AgreeInv /\ [Next]_vars => AgreeInv'
  BY NextAgrees
<1> QED
  BY <1>1, <1>2, TypeCorrect, PTL DEF Spec

\* What a SYNCED mapping of the present sequence says is so in Google, unless
\* two workers were at the booking together (syncJob, upsertEvent, deleteEvent).
THEOREM MappingTrue == Spec => []GoogleAgrees
BY Agreement, AgreedMeans, PTL

\* As long as the host's integration stays as it is, the completed job of the
\* present sequence of a confirmed booking has left its mark in the mapping
\* (markJobCompleted).
THEOREM CompletedMarked == Spec => []CompletedMeansSynced
BY Agreement, AgreedMeans, PTL
=============================================================================
