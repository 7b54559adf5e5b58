----------------------- MODULE BookingsLedger_proofs -----------------------
(***************************************************************************)
(* The booking service implements the atomic ledger of BookingLedger: every*)
(* step of every interleaving of requests is one ledger step or none.      *)
(***************************************************************************)
EXTENDS Bookings_proofs

-----------------------------------------------------------------------------
(* A reschedule keeps the length of the booking *)

\* A reschedule computes its end from the length it read before it held the
\* row lock; the length it writes is still that of the booking.
DurationKept ==
  \A r \in Requests : reqs[r].pc \in {"reading", "locked"} =>
    (Live(reqs[r].booking) => reqs[r].end = reqs[r].start + Duration(reqs[r].booking))

\* A booking gets a new row: one of the same length, or nobody reschedules it.
LEMMA DurationAfterChange ==
  ASSUME TypeOK, SeenInv, DurationKept, NEW b \in BookingIds, NEW row \in Row,
         bookings' = [bookings EXCEPT ![b] = row],
         \/ bookings[b].status = "NONE"
         \/ row.status = "DELETED"
         \/ Live(b) /\ row.end - row.start = Duration(b),
         \A s \in Requests : reqs'[s].pc \in Seeing => reqs'[s] = reqs[s]
  PROVE  DurationKept'
<1>1. bookings'[b] = row /\ \A a \in BookingIds \ {b} : bookings'[a] = bookings[a]
  BY DEF TypeOK
<1> SUFFICES ASSUME NEW s \in Requests, reqs'[s].pc \in {"reading", "locked"},
                    Live(reqs[s].booking)'
             PROVE  reqs'[s].end = reqs'[s].start + Duration(reqs[s].booking)'
  BY DEF DurationKept
<1>2. reqs'[s] = reqs[s] /\ reqs[s] \in MoveReq
  BY RequestKinds DEF TypeOK, Seeing
<1>3. reqs[s].booking \in BookingIds /\ bookings[reqs[s].booking].status # "NONE"
  BY <1>2 DEF MoveReq, SeenInv, ViewsArePast, Seeing
<1>4. CASE reqs[s].booking # b
  BY <1>1, <1>2, <1>3, <1>4 DEF DurationKept, Live, Duration
<1>5. CASE reqs[s].booking = b
  <2>1. Live(b) /\ row.end - row.start = Duration(b)
    BY <1>1, <1>2, <1>3, <1>5 DEF Live
  <2>2. reqs[s].end = reqs[s].start + Duration(b)
    BY <1>2, <1>5, <2>1 DEF DurationKept
  <2> QED BY <1>1, <1>2, <1>5, <2>1, <2>2 DEF Duration
<1> QED BY <1>4, <1>5

\* A request takes a step that leaves every booking alone.
LEMMA DurationAfterStep ==
  ASSUME TypeOK, DurationKept, NEW r \in Requests, NEW q \in Request, Become(r, q),
         bookings' = bookings,
         q.pc \in {"reading", "locked"} =>
           (Live(q.booking) => q.end = q.start + Duration(q.booking))
  PROVE  DurationKept'
<1>1. reqs'[r] = q /\ \A s \in Requests \ {r} : reqs'[s] = reqs[s]
  BY DEF TypeOK, Become
<1> QED BY <1>1 DEF DurationKept, Live, Duration

LEMMA DurationAfterEnd ==
  ASSUME TypeOK, DurationKept, NEW r \in Requests, Become(r, Idle), bookings' = bookings
  PROVE  DurationKept'
BY DurationAfterStep, IdleTyped DEF Idle

LEMMA DurationUnchanged ==
  ASSUME DurationKept, UNCHANGED <<bookings, reqs>>
  PROVE  DurationKept'
BY DEF DurationKept, Live, Duration

\* What the writers of rows do to the length of the booking.
LEMMA MovedRowLength ==
  ASSUME TypeOK, SeenInv, DurationKept, NEW r \in Requests, RescheduleCommit(r)
  PROVE  /\ reqs[r] \in MoveReq
         /\ reqs[r].booking \in BookingIds
         /\ Live(reqs[r].booking)
         /\ reqs[r].end = reqs[r].start + Duration(reqs[r].booking)
         /\ Duration(reqs[r].booking) \in Int
<1>1. reqs[r] \in MoveReq
  BY RequestKinds DEF TypeOK, RescheduleCommit
<1>2. reqs[r].booking \in BookingIds /\ bookings[reqs[r].booking] \in Row
  BY <1>1 DEF TypeOK, MoveReq
<1>3. Live(reqs[r].booking)
  BY DEF RescheduleCommit, SeenInv, LockHoldersSeePresent, Locking
<1>4. reqs[r].end = reqs[r].start + Duration(reqs[r].booking)
  BY <1>3 DEF RescheduleCommit, DurationKept
<1>5. Duration(reqs[r].booking) \in Int
  BY <1>2 DEF Duration, Row
<1> QED BY <1>1, <1>2, <1>3, <1>4, <1>5

LEMMA DurationNext ==
  ASSUME TypeOK, TypeOK', SeenInv, DurationKept, [Next]_vars
  PROVE  DurationKept'
<1>1. ASSUME NEW r \in Requests, NEW b \in BookingIds, CreateCommit(r, b)
      PROVE  DurationKept'
  <2>1. NewRow(reqs[r]) \in Row
    BY <1>1, RequestKinds, NewRowTyped DEF TypeOK, CreateCommit
  <2>2. \A s \in Requests : reqs'[s].pc \in Seeing => reqs'[s] = reqs[s]
    BY <1>1, OthersStay DEF TypeOK, CreateCommit
  <2> QED BY <1>1, <2>1, <2>2, DurationAfterChange DEF CreateCommit
<1>2. ASSUME NEW r \in Requests, RescheduleCommit(r)
      PROVE  DurationKept'
  <2> DEFINE b == reqs[r].booking
             row == MovedRow(bookings[b], reqs[r])
  <2>1. reqs[r] \in MoveReq /\ b \in BookingIds /\ Live(b) /\ Duration(b) \in Int
    BY <1>2, MovedRowLength
  <2>2. row \in Row
    BY <2>1, MovedRowTyped DEF TypeOK
  <2>3. bookings[b] \in Row
    BY <2>1 DEF TypeOK
  <2>4. row.start = reqs[r].start /\ row.end = reqs[r].end
    BY <2>3 DEF MovedRow, Row
  <2>5. row.end - row.start = Duration(b)
    BY <1>2, <2>1, <2>4, MovedRowLength DEF MoveReq
  <2>6. \A s \in Requests : reqs'[s].pc \in Seeing => reqs'[s] = reqs[s]
    BY <1>2, OthersStay DEF TypeOK, RescheduleCommit
  <2> QED BY <1>2, <2>1, <2>2, <2>5, <2>6, DurationAfterChange DEF RescheduleCommit
<1>3. ASSUME NEW r \in Requests, CancelCommit(r)
      PROVE  DurationKept'
  <2> DEFINE b == reqs[r].booking
             row == CancelledRow(bookings[b], reqs[r].actor)
  <2>1. b \in BookingIds /\ bookings[b] \in Row /\ reqs[r].actor \in Actors
    BY <1>3, CancelCommitTyped DEF CancelCommit
  <2>2. row \in Row
    BY <2>1, CancelledRowTyped
  <2>3. Live(b)
    BY <1>3 DEF CancelCommit, SeenInv, LockHoldersSeePresent, Locking
  <2>4. row.end - row.start = Duration(b)
    BY <2>1 DEF CancelledRow, Duration, Row
  <2>5. \A s \in Requests : reqs'[s].pc \in Seeing => reqs'[s] = reqs[s]
    BY <1>3, OthersStay DEF TypeOK, CancelCommit
  <2> QED BY <1>3, <2>1, <2>2, <2>3, <2>4, <2>5, DurationAfterChange DEF CancelCommit
<1>4. ASSUME NEW r \in Requests, DeleteRow(r)
      PROVE  DurationKept'
  <2> DEFINE b == reqs[r].booking
             row == [NoBooking EXCEPT !.status = "DELETED"]
  <2>1. b \in BookingIds
    BY <1>4, RequestKinds DEF TypeOK, DeleteRow, DeleteReq
  <2>2. row \in Row /\ row.status = "DELETED"
    BY NoBookingTyped DEF Row, Statuses
  <2>3. \A s \in Requests : reqs'[s].pc \in Seeing => reqs'[s] = reqs[s]
    BY <1>4, OthersStay DEF TypeOK, DeleteRow
  <2> QED BY <1>4, <2>1, <2>2, <2>3, DurationAfterChange DEF DeleteRow
<1>5. ASSUME NEW b \in BookingIds, NEW email \in Emails, UpdateAttendeeEmail(b, email)
      PROVE  DurationKept'
  <2>1. \A a \in BookingIds : (Live(a)' <=> Live(a)) /\ Duration(a)' = Duration(a)
    BY <1>5 DEF TypeOK, Row, UpdateAttendeeEmail, Live, Duration
  <2>2. \A s \in Requests : reqs[s].pc \in {"reading", "locked"} => reqs[s].booking \in BookingIds
    BY RequestKinds DEF TypeOK, MoveReq
  <2> QED BY <1>5, <2>1, <2>2 DEF UpdateAttendeeEmail, DurationKept
<1>6. ASSUME NEW r \in Requests, NEW start \in Starts, RescheduleRead(r, start)
      PROVE  DurationKept'
  <2> DEFINE q == reqs'[r]
  <2>1. q \in Request /\ bookings' = bookings /\ Become(r, q)
    BY <1>6 DEF RescheduleRead, Become, TypeOK, tables
  <2>2. q.start = start /\ q.end = start + Duration(q.booking)
    BY <1>6 DEF RescheduleRead, Become, TypeOK
  <2> QED BY <2>1, <2>2, DurationAfterStep
<1>7. ASSUME NEW r \in Requests, RescheduleLock(r)
      PROVE  DurationKept'
  <2> DEFINE q == reqs'[r]
  <2>1. q \in Request /\ bookings' = bookings /\ Become(r, q)
    BY <1>7 DEF RescheduleLock, Become, TypeOK, tables
  <2>2. reqs[r] \in MoveReq
    BY <1>7, RequestKinds DEF TypeOK, RescheduleLock
  <2>3. q.booking = reqs[r].booking /\ q.start = reqs[r].start /\ q.end = reqs[r].end
    BY <1>7, <2>2 DEF RescheduleLock, Become, TypeOK, MoveReq
  <2> QED BY <1>7, <2>1, <2>3, DurationAfterStep DEF RescheduleLock, DurationKept
<1>8. ASSUME NEW r \in Requests, bookings' = bookings, Become(r, reqs'[r]),
             reqs'[r].pc \notin {"reading", "locked"}
      PROVE  DurationKept'
  BY <1>8, DurationAfterStep DEF TypeOK
<1>9. ASSUME NEW r \in Requests, Serve(r)
      PROVE  DurationKept'
  <2>1. CASE CreateCollisionCheck(r)
    <3>1. reqs[r] \in CreateReq
      BY <2>1, RequestKinds DEF TypeOK, CreateCollisionCheck
    <3> QED BY <1>8, <2>1, <3>1 DEF TypeOK, CreateCollisionCheck, Become, CreateReq, tables
  <2>2. CASE DeleteChildren(r)
    <3>1. reqs[r] \in DeleteReq
      BY <2>2, RequestKinds DEF TypeOK, DeleteChildren
    <3> QED BY <1>8, <2>2, <3>1 DEF TypeOK, DeleteChildren, Become, DeleteReq, tables
  <2>3. CASE CreateOffer(r)
    <3>1. reqs[r] \in AskReq
      BY <2>3, RequestKinds DEF TypeOK, CreateOffer
    <3> QED BY <1>8, <2>3, <3>1 DEF TypeOK, CreateOffer, Become, AskReq, tables
  <2>4. CASE CreateValidate(r)
    BY <1>8, <2>4 DEF TypeOK, CreateValidate, Become, tables
  <2> QED BY <1>1, <1>2, <1>3, <1>4, <1>7, <1>9, <2>1, <2>2, <2>3, <2>4, DurationAfterEnd
          DEF Serve, Fail, DeadlockVictim, tables
<1>10. ASSUME NEW r \in Requests, Client(r)
      PROVE  DurationKept'
  <2>1. ASSUME NEW et \in EventTypes, NEW start \in Starts, NEW email \in Emails,
               CreateAsk(r, et, start, email)
        PROVE  DurationKept'
    BY <1>8, <2>1 DEF TypeOK, CreateAsk, Become, tables
  <2>2. ASSUME NEW b \in BookingIds, LoadPage(r, b)
        PROVE  DurationKept'
    BY <1>8, <2>2 DEF TypeOK, LoadPage, Become, tables
  <2>3. ASSUME NEW b \in BookingIds, DeleteRead(r, b)
        PROVE  DurationKept'
    BY <1>8, <2>3 DEF TypeOK, DeleteRead, Become, tables
  <2>4. ASSUME NEW actor \in Actors, CancelLock(r, actor)
        PROVE  DurationKept'
    BY <1>8, <2>4 DEF TypeOK, CancelLock, Become, tables
  <2> QED BY <1>6, <1>10, <2>1, <2>2, <2>3, <2>4, DurationAfterEnd
          DEF Client, LeavePage, Abort, tables
<1>11. CASE Environment
  BY <1>5, <1>11, DurationUnchanged, WorkerSteps
     DEF Environment, UpdateEventType, ArchiveEventType, ChangeIntegration, Tick, tables
<1>12. CASE UNCHANGED vars
  BY <1>12, DurationUnchanged DEF vars
<1> QED BY <1>9, <1>10, <1>11, <1>12 DEF Next

-----------------------------------------------------------------------------
(* Every step is a ledger step *)

\* The ledger the bookings table stands for.
Entries == [b \in BookingIds |->
              [status |-> bookings[b].status, host |-> HostOf[bookings[b].eventType],
               start |-> bookings[b].start, end |-> bookings[b].end,
               sequence |-> bookings[b].sequence]]

\* The ledger's actions, on the entries.
BookEntry(i, h, from, to) ==
  /\ Entries[i].status = "NONE"
  /\ from < to
  /\ \A j \in BookingIds \ {i} :
       Entries[j].status = "CONFIRMED" /\ Entries[j].host = h
         => to <= Entries[j].start \/ Entries[j].end <= from
  /\ Entries' = [Entries EXCEPT ![i] =
       [status |-> "CONFIRMED", host |-> h, start |-> from, end |-> to, sequence |-> 0]]

MoveEntry(i, from) ==
  LET to == from + (Entries[i].end - Entries[i].start)
  IN /\ Entries[i].status \in {"CONFIRMED", "CANCELLED"}
     /\ \A j \in BookingIds \ {i} :
          Entries[j].status = "CONFIRMED" /\ Entries[j].host = Entries[i].host
            => to <= Entries[j].start \/ Entries[j].end <= from
     /\ Entries' = [Entries EXCEPT ![i] =
          [status |-> "CONFIRMED", host |-> Entries[i].host, start |-> from,
           end |-> to, sequence |-> Entries[i].sequence + 1]]

CancelEntry(i) ==
  /\ Entries[i].status = "CONFIRMED"
  /\ Entries' = [Entries EXCEPT ![i] =
       [status |-> "CANCELLED", host |-> Entries[i].host, start |-> Entries[i].start,
        end |-> Entries[i].end, sequence |-> Entries[i].sequence + 1]]

RemoveEntry(i, h) ==
  /\ Entries[i].status \in {"CONFIRMED", "CANCELLED"}
  /\ Entries' = [Entries EXCEPT ![i] =
       [status |-> "DELETED", host |-> h, start |-> 0, end |-> 0, sequence |-> 0]]

EntryStep(i) ==
  \/ BookEntry(i, Entries'[i].host, Entries'[i].start, Entries'[i].end)
  \/ MoveEntry(i, Entries'[i].start)
  \/ CancelEntry(i)
  \/ RemoveEntry(i, Entries'[i].host)

\* They are the ledger's actions.
LEMMA EntryStepIsLedgerStep == (\E i \in BookingIds : EntryStep(i)) <=> Ledger!LedgerNext
BY Zenon DEF Entries, EntryStep, BookEntry, MoveEntry, CancelEntry, RemoveEntry,
     Ledger!LedgerNext, Ledger!Step, Ledger!Book, Ledger!Move, Ledger!Cancel, Ledger!Remove,
     Ledger!Free, Ledger!Booked, Ledger!Kept, Ledger!Available, Ledger!Entry

EntryOf(row) == [status |-> row.status, host |-> HostOf[row.eventType], start |-> row.start,
                 end |-> row.end, sequence |-> row.sequence]

\* Writing one row writes one entry.
LEMMA EntryWritten ==
  ASSUME TypeOK, NEW b \in BookingIds, NEW row, bookings' = [bookings EXCEPT ![b] = row]
  PROVE  Entries' = [Entries EXCEPT ![b] = EntryOf(row)]
<1>1. bookings'[b] = row /\ \A a \in BookingIds \ {b} : bookings'[a] = bookings[a]
  BY DEF TypeOK
<1> QED BY <1>1 DEF Entries, EntryOf

\* The exclusion constraint is what the ledger calls available.
LEMMA ExclusionIsAvailability ==
  ASSUME TypeOK, NEW b \in BookingIds, NEW h, NEW from \in Int, NEW to \in Int,
         ExclusionHolds(b, h, from, to)
  PROVE  \A a \in BookingIds \ {b} :
           Entries[a].status = "CONFIRMED" /\ Entries[a].host = h
             => to <= Entries[a].start \/ Entries[a].end <= from
<1> SUFFICES ASSUME NEW a \in BookingIds \ {b}, Confirmed(a), Host(a) = h
             PROVE  to <= bookings[a].start \/ bookings[a].end <= from
  BY DEF Entries, Confirmed, Host
<1>1. ~Overlap(bookings[a].start, bookings[a].end, from, to)
  BY DEF ExclusionHolds, Collision
<1>2. bookings[a].start \in Int /\ bookings[a].end \in Int
  BY DEF TypeOK, Row
<1> QED BY <1>1, <1>2 DEF Overlap

LEMMA LedgerCreateCommit ==
  ASSUME TypeOK, NEW r \in Requests, NEW b \in BookingIds, CreateCommit(r, b)
  PROVE  EntryStep(b)
<1> DEFINE row == NewRow(reqs[r])
           e == EntryOf(row)
<1>1. row \in Row /\ row.start < row.end
  BY RequestKinds, NewRowTyped DEF TypeOK, CreateCommit
<1>2. Entries' = [Entries EXCEPT ![b] = e]
  BY EntryWritten DEF CreateCommit
<1>3. e = [status |-> "CONFIRMED", host |-> e.host, start |-> row.start, end |-> row.end,
           sequence |-> 0]
  BY DEF EntryOf, NewRow
<1>4. Entries'[b] = e
  BY <1>2 DEF Entries
<1>5. \A a \in BookingIds \ {b} :
        Entries[a].status = "CONFIRMED" /\ Entries[a].host = e.host
          => row.end <= Entries[a].start \/ Entries[a].end <= row.start
  BY <1>1, ExclusionIsAvailability DEF CreateCommit, EntryOf, Row
<1>6. Entries[b].status = "NONE"
  BY DEF CreateCommit, Entries
<1>7. BookEntry(b, e.host, e.start, e.end)
  <2>1. e.start = row.start /\ e.end = row.end
    BY <1>3
  <2> QED BY <1>1, <1>2, <1>3, <1>5, <1>6, <2>1 DEF BookEntry
<1> QED BY <1>4, <1>7 DEF EntryStep

LEMMA LedgerRescheduleCommit ==
  ASSUME TypeOK, SeenInv, DurationKept, NEW r \in Requests, RescheduleCommit(r)
  PROVE  EntryStep(reqs[r].booking)
<1> DEFINE q == reqs[r]
           b == q.booking
           row == MovedRow(bookings[b], q)
           e == EntryOf(row)
<1>1. q \in MoveReq /\ b \in BookingIds /\ Live(b) /\ q.end = q.start + Duration(b)
  BY MovedRowLength
<1>2. bookings[b] \in Row /\ q.start \in Int /\ q.end \in Int
  BY <1>1 DEF TypeOK, MoveReq
<1>3. Entries' = [Entries EXCEPT ![b] = e]
  BY <1>1, EntryWritten DEF RescheduleCommit
<1>4. /\ row.status = "CONFIRMED"
      /\ row.eventType = bookings[b].eventType
      /\ row.start = q.start
      /\ row.end = q.end
      /\ row.sequence = bookings[b].sequence + 1
  BY <1>2 DEF MovedRow, Row
<1>5. e = [status |-> "CONFIRMED", host |-> Entries[b].host, start |-> q.start,
           end |-> q.start + (Entries[b].end - Entries[b].start),
           sequence |-> Entries[b].sequence + 1]
  BY <1>1, <1>4 DEF EntryOf, Entries, Duration
<1>6. Entries'[b] = e
  BY <1>1, <1>3 DEF Entries
<1>7. \A a \in BookingIds \ {b} :
        Entries[a].status = "CONFIRMED" /\ Entries[a].host = Host(b)
          => q.end <= Entries[a].start \/ Entries[a].end <= q.start
  BY <1>1, <1>2, ExclusionIsAvailability DEF RescheduleCommit
<1>8. Entries[b].host = Host(b) /\ q.end = q.start + (Entries[b].end - Entries[b].start)
  BY <1>1 DEF Entries, Host, Duration
<1>9. Entries[b].status \in {"CONFIRMED", "CANCELLED"}
  BY <1>1 DEF Entries, Live
<1>10. e.start = q.start
  BY <1>5
<1>11. MoveEntry(b, e.start)
  BY <1>3, <1>5, <1>7, <1>8, <1>9, <1>10 DEF MoveEntry
<1> QED BY <1>6, <1>11 DEF EntryStep

LEMMA LedgerCancelCommit ==
  ASSUME TypeOK, SeenInv, NEW r \in Requests, CancelCommit(r)
  PROVE  EntryStep(reqs[r].booking)
<1> DEFINE b == reqs[r].booking
           row == CancelledRow(bookings[b], reqs[r].actor)
           e == EntryOf(row)
<1>1. b \in BookingIds /\ bookings[b] \in Row
  BY CancelCommitTyped DEF CancelCommit
<1>2. Entries' = [Entries EXCEPT ![b] = e]
  BY <1>1, EntryWritten DEF CancelCommit
<1>3. /\ row.status = "CANCELLED"
      /\ row.eventType = bookings[b].eventType
      /\ row.start = bookings[b].start
      /\ row.end = bookings[b].end
      /\ row.sequence = bookings[b].sequence + 1
  BY <1>1 DEF Row, CancelledRow
<1>4. e = [status |-> "CANCELLED", host |-> Entries[b].host, start |-> Entries[b].start,
           end |-> Entries[b].end, sequence |-> Entries[b].sequence + 1]
  BY <1>1, <1>3 DEF EntryOf, Entries
<1>5. Entries[b].status = "CONFIRMED"
  BY <1>1 DEF Entries, CancelCommit, SeenInv, LockHoldersSeePresent, Locking, Confirmed
<1>6. CancelEntry(b)
  BY <1>2, <1>4, <1>5 DEF CancelEntry
<1> QED BY <1>6 DEF EntryStep

LEMMA LedgerDeleteRow ==
  ASSUME TypeOK, NEW r \in Requests, DeleteRow(r)
  PROVE  EntryStep(reqs[r].booking)
<1> DEFINE b == reqs[r].booking
           row == [NoBooking EXCEPT !.status = "DELETED"]
           e == EntryOf(row)
<1>1. b \in BookingIds
  BY RequestKinds DEF TypeOK, DeleteRow, DeleteReq
<1>2. Entries' = [Entries EXCEPT ![b] = e]
  BY <1>1, EntryWritten DEF DeleteRow
<1>3. e = [status |-> "DELETED", host |-> e.host, start |-> 0, end |-> 0, sequence |-> 0]
  BY DEF EntryOf, NoBooking
<1>4. Entries'[b] = e
  BY <1>1, <1>2 DEF Entries
<1>5. Entries[b].status \in {"CONFIRMED", "CANCELLED"}
  BY <1>1 DEF Entries, DeleteRow, Live
<1>6. RemoveEntry(b, e.host)
  BY <1>2, <1>3, <1>5 DEF RemoveEntry
<1> QED BY <1>4, <1>6 DEF EntryStep

\* All the other steps leave the ledger as it is.
LEMMA LedgerUnchanged ==
  ASSUME bookings' = bookings
  PROVE  Entries' = Entries
BY DEF Entries

LEMMA LedgerUpdateAttendeeEmail ==
  ASSUME TypeOK, NEW b \in BookingIds, NEW email \in Emails, UpdateAttendeeEmail(b, email)
  PROVE  Entries' = Entries
BY DEF TypeOK, Row, UpdateAttendeeEmail, Entries

LEMMA LedgerNext ==
  ASSUME TypeOK, SeenInv, DurationKept, [Next]_vars
  PROVE  (\E b \in BookingIds : EntryStep(b)) \/ Entries' = Entries
<1>1. ASSUME NEW r \in Requests, Serve(r)
      PROVE  (\E b \in BookingIds : EntryStep(b)) \/ Entries' = Entries
  <2>1. ASSUME NEW i \in BookingIds, CreateCommit(r, i)
        PROVE  \E b \in BookingIds : EntryStep(b)
    BY <2>1, LedgerCreateCommit
  <2>2. CASE RescheduleCommit(r)
    BY <2>2, LedgerRescheduleCommit, MovedRowLength
  <2>3. CASE DeleteRow(r)
    <3>1. reqs[r].booking \in BookingIds
      BY <2>3, RequestKinds DEF TypeOK, DeleteRow, DeleteReq
    <3> QED BY <2>3, <3>1, LedgerDeleteRow
  <2>4. CASE CancelCommit(r)
    BY <2>4, CancelCommitTyped, LedgerCancelCommit DEF CancelCommit
  <2> QED BY <1>1, <2>1, <2>2, <2>3, <2>4, LedgerUnchanged
          DEF Serve, CreateOffer, CreateValidate, CreateCollisionCheck, RescheduleLock, DeleteChildren, Fail,
              DeadlockVictim, tables
<1>2. ASSUME NEW r \in Requests, Client(r)
      PROVE  (\E b \in BookingIds : EntryStep(b)) \/ Entries' = Entries
  BY <1>2, LedgerUnchanged
     DEF Client, CreateAsk, LoadPage, RescheduleRead, CancelLock, LeavePage, DeleteRead, Abort,
         tables
<1>3. CASE Environment
  BY <1>3, LedgerUpdateAttendeeEmail, LedgerUnchanged, WorkerSteps
     DEF Environment, UpdateEventType, ArchiveEventType, ChangeIntegration, Tick, tables
<1>4. CASE UNCHANGED vars
  BY <1>4, LedgerUnchanged DEF vars
<1> QED BY <1>1, <1>2, <1>3, <1>4 DEF Next

\* The requests of createBooking, rescheduleBooking, cancelBooking and
\* deleteByHost, interleaved in any way, add up to the atomic ledger.
THEOREM ServiceIsLedger == Spec => ImplementsLedger
<1>1. Init => Ledger!LedgerInit
  BY DEF Init, NoBooking, Ledger!LedgerInit, Ledger!Free
<1>2. Init => DurationKept
  BY DEF Init, DurationKept, Idle
<1>3. TypeOK /\ TypeOK' /\ SeenInv /\ DurationKept /\ [Next]_vars => DurationKept'
  BY DurationNext
<1>4. Spec => []DurationKept
  BY TypeCorrect, SeenAlways, <1>2, <1>3, PTL DEF Spec
<1>5. TypeOK /\ SeenInv /\ DurationKept /\ [Next]_vars => [Ledger!LedgerNext]_Entries
  BY LedgerNext, EntryStepIsLedgerStep
<1>6. Spec => Ledger!LedgerInit /\ [][Ledger!LedgerNext]_Entries
  BY TypeCorrect, SeenAlways, <1>1, <1>4, <1>5, PTL DEF Spec
<1> QED BY <1>6, PTL DEF ImplementsLedger, Ledger!Spec, Entries
=============================================================================
