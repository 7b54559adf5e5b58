--------------------------- MODULE BookingLedger ---------------------------
(***************************************************************************)
(* What the booking service promises: one ledger of appointments in which  *)
(* every booking, move, cancellation and removal happens at once.  There   *)
(* are no requests, locks or retries here, and no way to see half a change.*)
(***************************************************************************)
EXTENDS Integers

CONSTANT Ids

VARIABLE ledger   \* ledger[i]: the appointment with id i

Free(i) == ledger[i].status = "NONE"
Booked(i) == ledger[i].status = "CONFIRMED"
Kept(i) == ledger[i].status \in {"CONFIRMED", "CANCELLED"}

\* Nobody but i has host h's time between start and end.
Available(i, h, start, end) ==
  \A j \in Ids \ {i} :
    Booked(j) /\ ledger[j].host = h => end <= ledger[j].start \/ ledger[j].end <= start

Entry(status, h, start, end, sequence) ==
  [status |-> status, host |-> h, start |-> start, end |-> end, sequence |-> sequence]

LedgerInit == \A i \in Ids : Free(i)

Book(i, h, start, end) ==
  /\ Free(i)
  /\ start < end
  /\ Available(i, h, start, end)
  /\ ledger' = [ledger EXCEPT ![i] = Entry("CONFIRMED", h, start, end, 0)]

\* A move keeps the length of the appointment, counts as a change, and
\* confirms a cancelled appointment again.
Move(i, start) ==
  LET e == ledger[i]
      end == start + (e.end - e.start)
  IN /\ Kept(i)
     /\ Available(i, e.host, start, end)
     /\ ledger' = [ledger EXCEPT ![i] = Entry("CONFIRMED", e.host, start, end, e.sequence + 1)]

Cancel(i) ==
  LET e == ledger[i]
  IN /\ Booked(i)
     /\ ledger' = [ledger EXCEPT ![i] =
                     Entry("CANCELLED", e.host, e.start, e.end, e.sequence + 1)]

\* Removal is final: the id is never booked again.
Remove(i, h) ==
  /\ Kept(i)
  /\ ledger' = [ledger EXCEPT ![i] = Entry("DELETED", h, 0, 0, 0)]

\* What was asked for can be told from the entry it leads to.
Step(i) ==
  LET e == ledger'[i]
  IN Book(i, e.host, e.start, e.end) \/ Move(i, e.start) \/ Cancel(i) \/ Remove(i, e.host)

LedgerNext == \E i \in Ids : Step(i)

Spec == LedgerInit /\ [][LedgerNext]_ledger
=============================================================================
