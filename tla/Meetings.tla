------------------------------ MODULE Meetings ------------------------------
(***************************************************************************)
(* The host's page of meetings (dashboard/bookings/page.tsx, with its      *)
(* detail drawer) and what it asks of the booking service, while the       *)
(* attendees reschedule and cancel the same meetings.                      *)
(*                                                                         *)
(* Of a booking its sequence, status and start are kept; a reason is named *)
(* by the meeting it was typed for.  The service's own rules (slots,       *)
(* notice, notifications) are those of Bookings: here it refuses or not.   *)
(***************************************************************************)
EXTENDS Naturals, FiniteSets

CONSTANTS
  MeetingIds,      \* the bookings of the host
  Starts,          \* when a meeting may start
  NoMeeting, NoStart,
  MaxActs,         \* bound: how many changes are made to the bookings
  MaxSent          \* bound: how many requests that change one are on their way

ASSUME NothingAssumption == NoMeeting \notin MeetingIds /\ NoStart \notin Starts
ASSUME MeetingBoundsAssumption == MaxActs \in Nat /\ MaxSent \in Nat

VARIABLES
  rows,            \* the table of bookings
  cards,           \* the rows the page shows
  selected,        \* the meeting in the detail drawer, NoMeeting: it is closed
  fetching,        \* loadAllBookings waits for an answer
  modal,           \* the dialog that is open
  reason,          \* the meeting cancelReason was typed for
  sent,            \* the PATCH or DELETE of each kind that is on its way
  acts,            \* how many changes were made
  escaped,         \* the host left a typed reason behind with Escape
  unseen,          \* the host's request changed a booking he had not seen so
  strayed          \* a reason was sent with another meeting

meetingVars == <<rows, cards, selected, fetching, modal, reason, sent, acts, escaped, unseen,
                 strayed>>

Kinds == {"cancel", "reschedule", "delete"}
SomeMeeting == MeetingIds \cup {NoMeeting}

Meeting == [status : {"confirmed", "cancelled", "gone"}, sequence : 0..MaxActs,
            start : Starts \cup {NoStart}]

\* The row a dialog, or a request, was opened or sent with.
Modal == [kind : Kinds \cup {"none"}, id : SomeMeeting, row : Meeting]
Sent == [state : {"none", "sent", "checked", "done", "refused"}, id : SomeMeeting,
         row : Meeting, start : Starts \cup {NoStart}]

Gone == [status |-> "gone", sequence |-> 0, start |-> NoStart]
NoModal == [kind |-> "none", id |-> NoMeeting, row |-> Gone]
NotSent == [state |-> "none", id |-> NoMeeting, row |-> Gone, start |-> NoStart]

MeetingsInit ==
  /\ rows \in [MeetingIds -> [status : {"confirmed"}, sequence : {0}, start : Starts]]
  /\ cards = [m \in MeetingIds |-> Gone] /\ selected = NoMeeting /\ fetching = TRUE
  /\ modal = NoModal /\ reason = NoMeeting
  /\ sent = [kind \in Kinds |-> NotSent]
  /\ acts = 0 /\ escaped = FALSE /\ unseen = FALSE /\ strayed = FALSE

hostHistory == <<escaped, unseen, strayed>>
meetingPage == <<cards, selected, fetching, modal, reason>>

NoDialog == modal.kind = "none"

-----------------------------------------------------------------------------
(* The list and the drawer *)

\* The lists, and the drawer's booking with them: one that is gone closes it.
\* The three lists are three requests; a row read before the others is one
\* that was changed since.
BookingsFetched ==
  /\ fetching
  /\ fetching' = FALSE
  /\ \/ /\ cards' = rows
        /\ selected' = IF selected # NoMeeting /\ rows[selected] = Gone THEN NoMeeting
                                                                        ELSE selected
     \/ UNCHANGED <<cards, selected>>
  /\ UNCHANGED <<rows, modal, reason, sent, acts, hostHistory>>

\* The cards are hidden while they are fetched; the drawer is not.
SelectMeeting(m) ==
  /\ NoDialog /\ ~fetching
  /\ cards[m] # Gone /\ selected # m
  /\ selected' = m
  /\ UNCHANGED <<rows, cards, fetching, modal, reason, sent, acts, hostHistory>>

\* Another tab of the list closes it, or its cross, or Escape.
CloseDetails ==
  /\ NoDialog /\ selected # NoMeeting
  /\ selected' = NoMeeting
  /\ UNCHANGED <<rows, cards, fetching, modal, reason, sent, acts, hostHistory>>

\* The buttons of the drawer: an upcoming meeting is rescheduled or cancelled, a
\* cancelled one rebooked or deleted, and one that is over deleted.
Offered(kind, row) ==
  \/ kind = "reschedule"
  \/ kind = "cancel" /\ row.status = "confirmed"
  \/ kind = "delete"

OpenModal(kind) ==
  /\ NoDialog /\ selected # NoMeeting
  /\ Offered(kind, cards[selected])
  /\ modal' = [kind |-> kind, id |-> selected, row |-> cards[selected]]
  /\ UNCHANGED <<rows, cards, selected, fetching, reason, sent, acts, hostHistory>>

-----------------------------------------------------------------------------
(* The dialogs.  The reason of a rescheduling is reset as its dialog opens. *)

TypeReason ==
  /\ modal.kind = "cancel" /\ reason # modal.id
  /\ reason' = modal.id /\ escaped' = FALSE
  /\ UNCHANGED <<rows, cards, selected, fetching, modal, sent, acts, unseen, strayed>>

\* Mutant of Cleared: Keep Meeting leaves the reason in place.
ReasonLeft == reason

\* Keep Meeting clears the reason; the buttons of the other dialogs need not.
Cleared == IF modal.kind = "cancel" THEN NoMeeting ELSE reason

CloseModal ==
  /\ ~NoDialog
  /\ modal' = NoModal
  /\ reason' = Cleared
  /\ UNCHANGED <<rows, cards, selected, fetching, sent, acts, hostHistory>>

\* Escape clears nothing.
PressEscape ==
  /\ ~NoDialog
  /\ modal' = NoModal
  /\ escaped' = (escaped \/ (modal.kind = "cancel" /\ reason # NoMeeting))
  /\ UNCHANGED <<rows, cards, selected, fetching, reason, sent, acts, unseen, strayed>>

\* handleCancelMeeting, handleRescheduleMeeting, handleDeleteBooking: one of a
\* kind at a time.
Confirm(kind, start) ==
  /\ modal.kind = kind /\ sent[kind].state = "none"
  /\ Cardinality({k \in Kinds : sent[k].state # "none"}) < MaxSent
  /\ start \in IF kind = "reschedule" THEN Starts ELSE {NoStart}
  /\ sent' = [sent EXCEPT ![kind] = [state |-> "sent", id |-> modal.id, row |-> modal.row,
                                     start |-> start]]
  /\ strayed' = (strayed \/ (kind = "cancel" /\ reason \notin {modal.id, NoMeeting} /\ ~escaped))
  /\ UNCHANGED <<rows, meetingPage, acts, escaped, unseen>>

\* The answer closes the dialog of its kind, and a cancellation's clears the
\* reason, whatever was opened meanwhile; an answer that is lost reads like an
\* error, which closes nothing.
HostAnswered(kind) ==
  /\ sent[kind].state \in {"done", "refused"}
  /\ sent' = [sent EXCEPT ![kind] = NotSent]
  /\ \/ /\ sent[kind].state = "done"
        /\ modal' = IF modal.kind = kind THEN NoModal ELSE modal
        /\ reason' = IF kind = "cancel" THEN NoMeeting ELSE reason
        /\ fetching' = TRUE
     \/ UNCHANGED <<modal, reason, fetching>>
  /\ UNCHANGED <<rows, cards, selected, acts, hostHistory>>

-----------------------------------------------------------------------------
(* The booking service *)

\* Mutant of Cancelled: a cancellation leaves the sequence as it is.
CancelledOnly(row) == [row EXCEPT !.status = "cancelled"]

\* Mutant of Cancelled: the sequence is counted on twice.
CountedTwice(row) == [row EXCEPT !.status = "cancelled", !.sequence = row.sequence + 2]

Cancelled(row) == [row EXCEPT !.status = "cancelled", !.sequence = row.sequence + 1]

Rescheduled(row, start) ==
  [status |-> "confirmed", sequence |-> row.sequence + 1, start |-> start]

Replies(kind, state) == sent' = [sent EXCEPT ![kind] = [NotSent EXCEPT !.state = state]]

SameAs(row, seen) == row.status = seen.status /\ row.start = seen.start

\* Under the lock of the row: the sequence is the one the page showed.
Commit(kind) ==
  LET request == sent[kind]
      row == rows[request.id] IN
  /\ request.state = "sent" /\ kind \in {"cancel", "reschedule"}
  /\ row # Gone /\ row.sequence = request.row.sequence /\ acts < MaxActs
  /\ kind = "cancel" => row.status = "confirmed"
  /\ rows' = [rows EXCEPT ![request.id] =
                IF kind = "cancel" THEN Cancelled(row) ELSE Rescheduled(row, request.start)]
  /\ acts' = acts + 1
  /\ unseen' = (unseen \/ ~SameAs(row, request.row))
  /\ Replies(kind, "done")
  /\ UNCHANGED <<meetingPage, escaped, strayed>>

\* A meeting that is cancelled already is answered as if it were by this one.
CancelledAlready ==
  LET request == sent["cancel"] IN
  /\ request.state = "sent"
  /\ rows[request.id].status = "cancelled"
  /\ Replies("cancel", "done")
  /\ UNCHANGED <<rows, meetingPage, acts, hostHistory>>

\* A version conflict, a start that is not free, a meeting that is not
\* cancelled, one that is gone, or no answer at all.
Refuse(kind) ==
  /\ sent[kind].state \in {"sent", "checked"}
  /\ Replies(kind, "refused")
  /\ UNCHANGED <<rows, meetingPage, acts, hostHistory>>

\* deleteByHost looks at the row outside its transaction.
CheckDeletion ==
  LET request == sent["delete"] IN
  /\ request.state = "sent"
  /\ rows[request.id].status = "cancelled"
  /\ sent' = [sent EXCEPT !["delete"].state = "checked"]
  /\ UNCHANGED <<rows, meetingPage, acts, hostHistory>>

CommitDeletion ==
  LET request == sent["delete"] IN
  /\ request.state = "checked"
  /\ rows[request.id] # Gone
  /\ rows' = [rows EXCEPT ![request.id] = Gone]
  /\ Replies("delete", "done")
  /\ UNCHANGED <<meetingPage, acts, hostHistory>>

\* The attendee's own pages: the same two transactions.
AttendeeCancels(m) ==
  /\ rows[m].status = "confirmed" /\ acts < MaxActs
  /\ rows' = [rows EXCEPT ![m] = Cancelled(rows[m])]
  /\ acts' = acts + 1
  /\ UNCHANGED <<meetingPage, sent, hostHistory>>

AttendeeReschedules(m, start) ==
  /\ rows[m] # Gone /\ acts < MaxActs
  /\ rows' = [rows EXCEPT ![m] = Rescheduled(rows[m], start)]
  /\ acts' = acts + 1
  /\ UNCHANGED <<meetingPage, sent, hostHistory>>

MeetingsNext ==
  \/ BookingsFetched \/ CloseDetails \/ TypeReason \/ CloseModal \/ PressEscape
  \/ CancelledAlready \/ CheckDeletion \/ CommitDeletion
  \/ \E kind \in Kinds :
       \/ OpenModal(kind) \/ HostAnswered(kind) \/ Commit(kind) \/ Refuse(kind)
       \/ \E start \in Starts \cup {NoStart} : Confirm(kind, start)
  \/ \E m \in MeetingIds :
       \/ SelectMeeting(m) \/ AttendeeCancels(m)
       \/ \E start \in Starts : AttendeeReschedules(m, start)

MeetingsSpec == MeetingsInit /\ [][MeetingsNext]_meetingVars

-----------------------------------------------------------------------------
MeetingsTypeOK ==
  /\ rows \in [MeetingIds -> Meeting] /\ cards \in [MeetingIds -> Meeting]
  /\ selected \in SomeMeeting /\ fetching \in BOOLEAN
  /\ modal \in Modal /\ reason \in SomeMeeting
  /\ sent \in [Kinds -> Sent]
  /\ acts \in 0..MaxActs
  /\ escaped \in BOOLEAN /\ unseen \in BOOLEAN /\ strayed \in BOOLEAN

\* A host cancels or moves a meeting as the dialog shows it: a request that was
\* opened on a row an attendee has changed since changes nothing, however old
\* the list, the drawer or the dialog is.
ActsOnShownMeeting == ~unseen

\* The reason an attendee is given for a cancellation was typed for that
\* meeting, unless the host left the dialog of another with Escape.
ReasonOfItsMeeting == ~strayed
=============================================================================
