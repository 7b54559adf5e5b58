---------------------------- MODULE MCBookings ----------------------------
(***************************************************************************)
(* Small instances of Bookings for TLC.  One tick is a quarter of an hour. *)
(***************************************************************************)
EXTENDS Bookings, TLC

CONSTANTS b1, b2, r1, r2, talk, chat, host, mail1, mail2, calA, calB

\* Two lengths are enough for bookings that overlap in part; Padded has a
\* buffer, Noticed a notice period.
Long == [duration |-> 2, before |-> 0, after |-> 0, notice |-> 0]
Short == [duration |-> 1, before |-> 0, after |-> 0, notice |-> 0]
Padded == [duration |-> 1, before |-> 0, after |-> 1, notice |-> 0]
Noticed == [duration |-> 1, before |-> 0, after |-> 0, notice |-> 1]

OneHost == [et \in EventTypes |-> host]

Connected == [connected |-> TRUE, calendar |-> calA]
Disconnected == [connected |-> FALSE, calendar |-> calA]

\* One working window of four ticks, and a day longer than all of it.
Hours == {[open |-> 1, close |-> 5]}

LongShort == {Long, Short}
OnlyShort == {Short}
OnlyPadded == {Padded}
ShortNoticed == {Short, Noticed}
AlwaysConnected == {Connected}
OnOff == {Connected, Disconnected}

\* The requests alone, in a world where nothing else changes.
RequestsOnly == Init /\ [][\E r \in Requests : Serve(r) \/ Client(r)]_vars

SymmetricIds == Permutations(BookingIds) \cup Permutations(Requests)
=============================================================================
