----------------------------- MODULE BookingPage -----------------------------
(***************************************************************************)
(* The public booking page (app/public/[username]/[eventSlug]/page.tsx) of *)
(* one attendee, between the slot list the API answers with, which may     *)
(* come late and out of order, and the booking it posts, whose answer may  *)
(* be lost, while others book.                                             *)
(*                                                                         *)
(* The API is what its two handlers do: the slot list reads the bookings   *)
(* once and Google's busy times if it gets them                            *)
(* (public-event-types.controller.ts), a booking first looks for one of    *)
(* the same attendee, then asks Google, and then commits or collides       *)
(* (createBooking).                                                        *)
(* Two bookings overlap only if they start together.                       *)
(***************************************************************************)
EXTENDS SlotDates, FiniteSets

CONSTANTS
  Dates,       \* the dates of the calendar, none of them past
  Starts,      \* the instants a booking may start at
  None,        \* no slot
  FetchIds,    \* bound: how many slot lists are on their way at a time
  PostIds,     \* bound: how many bookings are on their way at a time
  MaxOthers    \* bound: how many bookings others make

ASSUME SetsAssumption ==
  Dates \subseteq Int /\ Dates # {} /\ IsFiniteSet(Starts) /\ Starts # {}
ASSUME OffsetsAssumption ==
  \A date \in Dates, time \in WorkingTimes :
    /\ Offset(HostZone, date * DayLength + time) \in Int
    /\ Offset(HostZone, ZonedTimeToUtc(date, time, HostZone)) \in Int
ASSUME StartsAssumption == \A date \in Dates : DayStarts(date) \subseteq Starts
ASSUME NoneAssumption == None \notin Starts
ASSUME BoundsAssumption == MaxOthers \in Nat

VARIABLES
  page,         \* loading the event, open, missing, navigating away, or left
  selectedDate, attendeeTimezone, slots, isLoadingSlots, selectedSlot,
  slotConflictMessage, existingBookingDuplicate, isSubmitting,
  fetches,      \* the calls of loadSlots that are on their way
  posts,        \* the calls of handleBookSubmit that are on their way
  booked,       \* who booked each start: the bookings table
  crossed,      \* the last loadSlots was overtaken, or asked for another date
  lost,         \* the page gave up a POST that the API may still have served
  again         \* the form was submitted while the page was navigating away

choice == <<selectedDate, attendeeTimezone>>
panel == <<slotConflictMessage, existingBookingDuplicate>>
server == <<booked>>
ghosts == <<lost, again>>
vars == <<page, choice, slots, isLoadingSlots, selectedSlot, panel, isSubmitting, fetches,
          posts, server, crossed, ghosts>>

Pages == {"loading", "missing", "open", "navigating", "left"}

\* A call of loadSlots.  Its answer is read when it arrives: that the list is
\* older than that makes no difference, it may be as old when a slot is picked.
Fetch == [state : {"free", "asked"}, date : Dates]

\* A POST: the page waits for its answer; the API has it, has looked for a
\* booking of the attendee, has asked Google, has answered, or never got it.
Post == [state : {"free", "sent", "checked", "verified", "answered"}, awaited : BOOLEAN, start : Starts,
         date : Dates, overlapped : BOOLEAN,
         answer : {"none", "BOOKED", "BOOKING_ALREADY_EXISTS", "TAKEN", "ERROR"}]

AnyDate == CHOOSE date \in Dates : TRUE
NoFetch == [state |-> "free", date |-> AnyDate]
NoPost == [state |-> "free", awaited |-> FALSE, start |-> CHOOSE s \in Starts : TRUE,
           date |-> AnyDate, overlapped |-> FALSE, answer |-> "none"]

Init ==
  /\ page = "loading"
  /\ selectedDate \in Dates /\ attendeeTimezone \in Zones
  /\ slots = {} /\ isLoadingSlots = FALSE /\ selectedSlot = None
  /\ slotConflictMessage = FALSE /\ existingBookingDuplicate = FALSE
  /\ isSubmitting = FALSE
  /\ fetches = [f \in FetchIds |-> NoFetch]
  /\ posts = [p \in PostIds |-> NoPost]
  /\ booked = [s \in Starts |-> "nobody"]
  /\ crossed = FALSE /\ lost = FALSE /\ again = FALSE

-----------------------------------------------------------------------------
(* loadSlots *)

Mounted == page \in {"open", "navigating"}
InFlight == {f \in FetchIds : fetches[f].state # "free"}

\* A call leaves; the date is that of the render whose loadSlots it is.
LoadSlots(date, shown) ==
  /\ isLoadingSlots' = TRUE
  /\ \E f \in FetchIds \ InFlight :
       fetches' = [fetches EXCEPT ![f] = [state |-> "asked", date |-> date]]
  /\ crossed' = (InFlight # {} \/ date # shown)

\* Mutant of AfterChange: the effect forgets to drop the selected slot.
SlotKept == selectedSlot

\* The effect on selectedDate and attendeeTimezone begins with this.
AfterChange == None

LoadEvent ==
  /\ page = "loading"
  /\ \/ /\ page' = "open"
        /\ LoadSlots(selectedDate, selectedDate)
     \/ page' = "missing" /\ UNCHANGED <<isLoadingSlots, fetches, crossed>>
  /\ UNCHANGED <<choice, slots, selectedSlot, panel, isSubmitting, posts, server, ghosts>>

SelectDate(date) ==
  /\ Mounted
  /\ date # selectedDate
  /\ selectedDate' = date
  /\ selectedSlot' = AfterChange
  /\ LoadSlots(date, date)
  /\ UNCHANGED <<page, attendeeTimezone, slots, panel, isSubmitting, posts, server, ghosts>>

SelectTimezone(zone) ==
  /\ Mounted
  /\ zone # attendeeTimezone
  /\ attendeeTimezone' = zone
  /\ selectedSlot' = AfterChange
  /\ LoadSlots(selectedDate, selectedDate)
  /\ UNCHANGED <<page, selectedDate, slots, panel, isSubmitting, posts, server, ghosts>>

\* The bookings that touch the UTC day of the requested date.
Busy(date) == {s \in Starts : booked[s] # "nobody" /\ UtcDate(s) = date}

Offered(date) == DayStarts(date) \ Busy(date)

\* What Google may say of the host's time: none of it is known here.  A list that
\* gets no answer, or whose host is not connected, is one that is told of nothing.
GoogleBusy(starts) == SUBSET starts

\* Mutant of Loaded: the flag is cleared only if the answer has slots.
LoadedIfAny(offers) == isLoadingSlots /\ offers = {}

Loaded(offers) == FALSE

Arrive(f, offers) ==
  /\ fetches' = [fetches EXCEPT ![f] = NoFetch]
  /\ IF Mounted
     THEN slots' = offers /\ isLoadingSlots' = Loaded(offers)
     ELSE UNCHANGED <<slots, isLoadingSlots>>
  /\ UNCHANGED <<page, choice, selectedSlot, panel, isSubmitting, posts, server, crossed, ghosts>>

\* Whichever answer comes is shown, whatever the page has selected since.
SlotsArrive(f) ==
  /\ fetches[f].state = "asked"
  /\ \E busy \in GoogleBusy(Offered(fetches[f].date)) : Arrive(f, Offered(fetches[f].date) \ busy)

SlotsFail(f) == fetches[f].state = "asked" /\ Arrive(f, {})

-----------------------------------------------------------------------------
(* Slots, the form and handleBookSubmit *)

ListShown == Mounted /\ ~existingBookingDuplicate /\ selectedSlot = None
FormShown == Mounted /\ ~existingBookingDuplicate /\ selectedSlot # None

\* The date above the list and in the form: that of noon UTC of the selected
\* date in the attendee's zone, which is the selected date unless the zone is
\* twelve hours ahead of UTC or more.
FormattedSelectedDate == DateIn(selectedDate * DayLength + DayLength \div 2, attendeeTimezone)

PickSlot(s) ==
  /\ ListShown /\ ~isLoadingSlots
  /\ s \in slots
  /\ selectedSlot' = s
  /\ UNCHANGED <<page, choice, slots, isLoadingSlots, panel, isSubmitting, fetches, posts, server,
                 crossed, ghosts>>

ChangeSlot ==
  /\ FormShown
  /\ selectedSlot' = None
  /\ UNCHANGED <<page, choice, slots, isLoadingSlots, panel, isSubmitting, fetches, posts, server,
                 crossed, ghosts>>

\* Mutant of MaySubmit: the button stays enabled while a POST is awaited.
MayAlwaysSubmit == FormShown

\* Mutant of MaySubmit: nobody asks whether a slot is selected.
MaySubmitNothing == Mounted /\ ~existingBookingDuplicate /\ ~isSubmitting

MaySubmit == FormShown /\ ~isSubmitting

Submit ==
  /\ MaySubmit
  /\ isSubmitting' = TRUE
  /\ slotConflictMessage' = FALSE
  /\ \E p \in PostIds :
       /\ posts[p].state = "free"
       /\ posts' = [posts EXCEPT ![p] = [NoPost EXCEPT !.state = "sent", !.awaited = TRUE,
                                         !.start = selectedSlot, !.date = selectedDate]]
  /\ again' = (again \/ page = "navigating")
  /\ UNCHANGED <<page, choice, slots, isLoadingSlots, selectedSlot, existingBookingDuplicate,
                 fetches, server, crossed, lost>>

\* A post is forgotten when it is neither awaited nor served any more.
Forgotten(post) == IF post.state = "answered" /\ ~post.awaited THEN NoPost ELSE post

\* An answer ends the wait; the conflict handler loads the slots of the render
\* that submitted, and a success navigates away with the form still there.
AnswerArrives(p) ==
  /\ posts[p].state = "answered" /\ posts[p].awaited
  /\ posts' = [posts EXCEPT ![p] = NoPost]
  /\ IF ~Mounted
     THEN UNCHANGED <<page, isLoadingSlots, selectedSlot, panel, isSubmitting, fetches, crossed>>
     ELSE /\ isSubmitting' = FALSE
          /\ \/ /\ posts[p].answer = "BOOKED"
                /\ page' = "navigating"
                /\ UNCHANGED <<isLoadingSlots, selectedSlot, panel, fetches, crossed>>
             \/ /\ posts[p].answer = "BOOKING_ALREADY_EXISTS"
                /\ existingBookingDuplicate' = TRUE
                /\ UNCHANGED <<page, isLoadingSlots, selectedSlot, slotConflictMessage, fetches,
                               crossed>>
             \/ /\ posts[p].answer = "TAKEN"
                /\ selectedSlot' = None
                /\ slotConflictMessage' = TRUE
                /\ LoadSlots(posts[p].date, selectedDate)
                /\ UNCHANGED <<page, existingBookingDuplicate>>
             \/ /\ posts[p].answer = "ERROR"
                /\ UNCHANGED <<page, isLoadingSlots, selectedSlot, panel, fetches, crossed>>
  /\ UNCHANGED <<choice, slots, server, ghosts>>

\* The connection fails: the page says so, the API may go on or may never know.
PostLost(p) ==
  /\ posts[p].awaited
  /\ \/ posts' = [posts EXCEPT ![p] = Forgotten([posts[p] EXCEPT !.awaited = FALSE])]
     \/ posts[p].state = "sent" /\ posts' = [posts EXCEPT ![p] = NoPost]
  /\ isSubmitting' = (isSubmitting /\ ~Mounted)
  /\ lost' = TRUE
  /\ UNCHANGED <<page, choice, slots, isLoadingSlots, selectedSlot, panel, fetches, server,
                 crossed, again>>

\* "Choose Another Time", of the duplicate and of the conflict panel.
DismissDuplicate ==
  /\ Mounted /\ existingBookingDuplicate
  /\ existingBookingDuplicate' = FALSE
  /\ selectedSlot' = None
  /\ UNCHANGED <<page, choice, slots, isLoadingSlots, slotConflictMessage, isSubmitting, fetches,
                 posts, server, crossed, ghosts>>

DismissConflict ==
  /\ ListShown /\ slotConflictMessage
  /\ slotConflictMessage' = FALSE
  /\ LoadSlots(selectedDate, selectedDate)
  /\ UNCHANGED <<page, choice, slots, selectedSlot, existingBookingDuplicate, isSubmitting, posts,
                 server, ghosts>>

Leave ==
  /\ page = "navigating"
  /\ page' = "left"
  /\ UNCHANGED <<choice, slots, isLoadingSlots, selectedSlot, panel, isSubmitting, fetches, posts,
                 server, crossed, ghosts>>

-----------------------------------------------------------------------------
(* createBooking, and the others *)

Answered(p, answer) ==
  posts' = [posts EXCEPT ![p] = Forgotten([posts[p] EXCEPT !.state = "answered",
                                                           !.answer = answer])]

\* Mutant of Duplicate: nobody looks for a booking of the same attendee.
NeverDuplicate(s) == FALSE

Duplicate(s) == booked[s] = "attendee"

Served == {p \in PostIds : posts[p].state \in {"sent", "checked", "verified"}}

CheckDuplicate(p) ==
  /\ posts[p].state = "sent"
  /\ IF Duplicate(posts[p].start) THEN Answered(p, "BOOKING_ALREADY_EXISTS")
     ELSE posts' = [posts EXCEPT ![p].state = "checked",
                                 ![p].overlapped = \E q \in Served \ {p} :
                                                     posts[q].start = posts[p].start]
  /\ UNCHANGED <<page, choice, slots, isLoadingSlots, selectedSlot, panel, isSubmitting, fetches,
                 server, crossed, ghosts>>

\* The slot check, which reads the bookings, and checkAvailability, which asks
\* Google, where the attendee's own booking may have been entered by now.
AskGoogle(p) ==
  LET s == posts[p].start
  IN /\ posts[p].state = "checked"
     /\ \E busy \in GoogleBusy({s}) :
          IF booked[s] # "nobody" \/ s \in busy
          THEN Answered(p, "TAKEN")
          ELSE posts' = [posts EXCEPT ![p].state = "verified"]
     /\ UNCHANGED <<page, choice, slots, isLoadingSlots, selectedSlot, panel, isSubmitting,
                    fetches, server, crossed, ghosts>>

\* The collision check and the exclusion constraint say the same.
CommitBooking(p) ==
  LET s == posts[p].start
  IN /\ posts[p].state = "verified"
     /\ IF booked[s] = "nobody"
        THEN booked' = [booked EXCEPT ![s] = "attendee"] /\ Answered(p, "BOOKED")
        ELSE UNCHANGED booked /\ Answered(p, "TAKEN")
     /\ UNCHANGED <<page, choice, slots, isLoadingSlots, selectedSlot, panel, isSubmitting,
                    fetches, crossed, ghosts>>

\* Form errors, the rate limit, an unverifiable host calendar, a database error.
RefuseBooking(p) ==
  /\ p \in Served
  /\ Answered(p, "ERROR")
  /\ UNCHANGED <<page, choice, slots, isLoadingSlots, selectedSlot, panel, isSubmitting, fetches,
                 server, crossed, ghosts>>

\* The others book what they are offered, too.
OtherBooks(s) ==
  /\ booked[s] = "nobody"
  /\ \E date \in Dates : s \in DayStarts(date)
  /\ Cardinality({t \in Starts : booked[t] = "another"}) < MaxOthers
  /\ booked' = [booked EXCEPT ![s] = "another"]
  /\ UNCHANGED <<page, choice, slots, isLoadingSlots, selectedSlot, panel, isSubmitting, fetches,
                 posts, crossed, ghosts>>

-----------------------------------------------------------------------------

\* The network and the API.
FetchStep == \E f \in FetchIds : SlotsArrive(f) \/ SlotsFail(f)

PostStep ==
  \E p \in PostIds : \/ AnswerArrives(p) \/ PostLost(p)
                     \/ CheckDuplicate(p) \/ AskGoogle(p) \/ CommitBooking(p) \/ RefuseBooking(p)

Attendee ==
  \/ \E date \in Dates : SelectDate(date)
  \/ \E zone \in Zones : SelectTimezone(zone)
  \/ \E s \in Starts : PickSlot(s)
  \/ ChangeSlot \/ Submit \/ DismissDuplicate \/ DismissConflict

Next ==
  \/ LoadEvent \/ FetchStep \/ PostStep \/ Attendee \/ Leave
  \/ \E s \in Starts : OtherBooks(s)

Spec == Init /\ [][Next]_vars

-----------------------------------------------------------------------------
(* Properties *)

\* Every variable has its type.
TypeOK ==
  /\ page \in Pages
  /\ selectedDate \in Dates /\ attendeeTimezone \in Zones
  /\ slots \subseteq Starts /\ isLoadingSlots \in BOOLEAN
  /\ selectedSlot \in Starts \cup {None}
  /\ slotConflictMessage \in BOOLEAN /\ existingBookingDuplicate \in BOOLEAN
  /\ isSubmitting \in BOOLEAN
  /\ fetches \in [FetchIds -> Fetch]
  /\ posts \in [PostIds -> Post]
  /\ booked \in [Starts -> {"nobody", "attendee", "another"}]
  /\ crossed \in BOOLEAN /\ lost \in BOOLEAN /\ again \in BOOLEAN

\* The slots on the page, and the one in the form, are those the API has for the
\* selected date, unless the last loadSlots left while another call was on its
\* way or asked for another date: the conflict handler of an older render does.
SlotsOfSelectedDate ==
  Mounted /\ ~crossed =>
    /\ ~isLoadingSlots => slots \subseteq DayStarts(selectedDate)
    /\ selectedSlot # None => selectedSlot \in DayStarts(selectedDate)

\* A slot on the page begins at a working time of the host's date, unless the
\* host's clock changes between the guess of zonedTimeToUtc and its result.
OffersInWorkingTimes ==
  \A s \in slots : \E date \in Dates, time \in WorkingTimes :
    /\ s = ZonedTimeToUtc(date, time, HostZone)
    /\ Steady(date, time) => LocalTime(s, HostZone) = date * DayLength + time

\* Whoever submits one form at a time is booked once: for a second booking an
\* answer must have been lost, or the form sent again while the page navigates
\* to the first.
BookedOnce ==
  Cardinality({s \in Starts : booked[s] = "attendee"}) > 1 => lost \/ again

\* An attendee is told that somebody else took the slot although it is his own,
\* be it in the bookings or in the host's Google calendar, only if two POSTs for
\* it were served at the same time.
TakenByOthers ==
  \A p \in PostIds :
    posts[p].answer = "TAKEN" /\ booked[posts[p].start] = "attendee" => posts[p].overlapped

\* The page never waits for nothing: as long as it shows the skeletons of the
\* slot list or the spinner of the form, a call is on its way that will end it.
BusyMeansWaiting ==
  Mounted => /\ isLoadingSlots => InFlight # {}
             /\ isSubmitting => \E p \in PostIds : posts[p].awaited

\* "a refined summary card appears within the existing slot column displaying the
\* selected date and time": the date in the form is that of the chosen time, in
\* the time zone in which the page shows it.
ShownDateIsSlotDate ==
  FormShown => FormattedSelectedDate = DateIn(selectedSlot, attendeeTimezone)
=============================================================================
