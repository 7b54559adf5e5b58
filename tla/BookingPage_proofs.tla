------------------------- MODULE BookingPage_proofs -------------------------
(***************************************************************************)
(* What the booking page promises, for any dates, time zones, starts,      *)
(* calls and bookings of others, and what its custom questions promise,    *)
(* for any set of questions and wordings and any number of edits.          *)
(*                                                                         *)
(* The invariant of the slots says for which date each call on its way is; *)
(* that of the POSTs, which of them the page waits for, and that a POST    *)
(* that overlapped no other has its start for itself. That of the          *)
(* questions relates the stored list to the one the page loaded: what the  *)
(* page asks was drawn before, and is stored as it was loaded, reworded,   *)
(* or gone for good.                                                       *)
(***************************************************************************)
EXTENDS MCBookingPage, FiniteSetTheorems, TLAPS

\* Before the event is there nothing is chosen and nothing is sent.
NotYetOpen == page \in {"loading", "missing"}

-----------------------------------------------------------------------------
(* loadSlots and the slots *)

SlotTypes ==
  /\ selectedDate \in Dates /\ slots \subseteq Starts /\ isLoadingSlots \in BOOLEAN
  /\ selectedSlot \in Starts \cup {None} /\ fetches \in [FetchIds -> Fetch]
  /\ crossed \in BOOLEAN

\* Unless loadSlots was overtaken, every call on its way is for the selected date.
FetchesOfDate ==
  Mounted /\ ~crossed => \A f \in FetchIds : fetches[f].state = "free" \/ fetches[f].date = selectedDate

SlotOfSomeDate == \A s \in slots : \E date \in Dates : s \in DayStarts(date)

SlotsInv ==
  /\ SlotTypes /\ FetchesOfDate /\ SlotsOfSelectedDate /\ SlotOfSomeDate
  /\ NotYetOpen => selectedSlot = None
  /\ Mounted /\ isLoadingSlots => InFlight # {}

LEMMA NoFetchTyped == NoFetch \in Fetch /\ NoFetch.state = "free"
<1>1. AnyDate \in Dates
  BY SetsAssumption DEF AnyDate
<1> QED
  BY <1>1 DEF NoFetch, Fetch

LEMMA SlotsStart == Init => SlotsInv
BY NoFetchTyped, SetsAssumption
DEF Init, SlotsInv, SlotTypes, FetchesOfDate, SlotsOfSelectedDate, SlotOfSomeDate, Mounted

\* Nothing of the slots changes.
LEMMA SlotsStay ==
  ASSUME SlotsInv,
         UNCHANGED <<selectedDate, slots, isLoadingSlots, selectedSlot, fetches, crossed>>,
         Mounted' => Mounted, NotYetOpen' => NotYetOpen
  PROVE  SlotsInv'
BY DEF SlotsInv, SlotTypes, FetchesOfDate, SlotsOfSelectedDate, SlotOfSomeDate, InFlight

\* Another call leaves, and no slot is selected: only if it is the only one, and
\* asks for the selected date, the page is not crossed.
LEMMA SlotsAsked ==
  ASSUME SlotsInv, NEW date \in Dates, LoadSlots(date, selectedDate'), selectedDate' \in Dates,
         UNCHANGED slots, selectedSlot' = None
  PROVE  SlotsInv'
<1> DEFINE fetch == [state |-> "asked", date |-> date]
<1>1. PICK f \in FetchIds \ InFlight : fetches' = [fetches EXCEPT ![f] = fetch]
  BY DEF LoadSlots
<1>2. fetch \in Fetch /\ fetch.state = "asked" /\ fetch.date = date
  BY DEF Fetch
<1> HIDE DEF fetch
<1>3. fetches' \in [FetchIds -> Fetch] /\ fetches'[f] = fetch
      /\ \A g \in FetchIds : g # f => fetches'[g] = fetches[g]
  BY <1>1, <1>2 DEF SlotsInv, SlotTypes
<1>4. isLoadingSlots' = TRUE /\ crossed' \in BOOLEAN
      /\ (~crossed' => date = selectedDate' /\ InFlight = {})
  BY DEF LoadSlots
<1>5. SlotTypes'
  BY <1>3, <1>4 DEF SlotsInv, SlotTypes
<1>6. FetchesOfDate'
  BY <1>2, <1>3, <1>4 DEF FetchesOfDate, InFlight
<1>7. InFlight' # {}
  BY <1>1, <1>2, <1>3 DEF InFlight
<1>8. SlotsOfSelectedDate' /\ SlotOfSomeDate'
  BY <1>4 DEF SlotsInv, SlotsOfSelectedDate, SlotOfSomeDate
<1> QED
  BY <1>5, <1>6, <1>7, <1>8 DEF SlotsInv

\* A slot of the list is selected, or none is.
LEMMA SlotChosen ==
  ASSUME SlotsInv, UNCHANGED <<page, selectedDate, slots, isLoadingSlots, fetches, crossed>>,
         selectedSlot' = None \/ (Mounted /\ ~isLoadingSlots /\ selectedSlot' \in slots)
  PROVE  SlotsInv'
<1>1. Mounted' = Mounted /\ NotYetOpen' = NotYetOpen /\ (Mounted => ~NotYetOpen) /\ InFlight' = InFlight
  BY DEF Mounted, NotYetOpen, InFlight
<1>2. SlotTypes'
  BY DEF SlotsInv, SlotTypes
<1>3. FetchesOfDate' /\ SlotOfSomeDate' /\ (NotYetOpen' => selectedSlot' = None)
  BY <1>1 DEF SlotsInv, FetchesOfDate, SlotOfSomeDate
<1>4. SlotsOfSelectedDate'
  BY <1>1 DEF SlotsInv, SlotsOfSelectedDate
<1> QED
  BY <1>1, <1>2, <1>3, <1>4 DEF SlotsInv

\* A list arrives: the slots of the date that it was asked for.
LEMMA SlotsShown ==
  ASSUME SlotsInv, NEW f \in FetchIds, fetches[f].state = "asked",
         NEW offers, offers \subseteq DayStarts(fetches[f].date), Arrive(f, offers)
  PROVE  SlotsInv'
<1> DEFINE date == fetches[f].date
<1>1. fetches' = [fetches EXCEPT ![f] = NoFetch] /\ UNCHANGED <<page, selectedDate, selectedSlot, crossed>>
  BY DEF Arrive, choice
<1>2. date \in Dates
  BY DEF SlotsInv, SlotTypes, Fetch
<1>3. offers \subseteq Starts
  BY <1>2, StartsAssumption
<1>4. fetches' \in [FetchIds -> Fetch] /\ \A g \in FetchIds : fetches'[g] \in {fetches[g], NoFetch}
  BY <1>1, NoFetchTyped DEF SlotsInv, SlotTypes
<1>5. Mounted' = Mounted /\ NotYetOpen' = NotYetOpen
  BY <1>1 DEF Mounted, NotYetOpen
<1>6. FetchesOfDate'
  BY <1>1, <1>4, <1>5, NoFetchTyped DEF SlotsInv, FetchesOfDate
<1>7. CASE Mounted
  <2>1. slots' = offers /\ isLoadingSlots' = FALSE
    BY <1>7 DEF Arrive, Loaded
  <2>2. ~crossed => date = selectedDate
    BY <1>7 DEF SlotsInv, FetchesOfDate
  <2>3. SlotTypes' /\ SlotOfSomeDate'
    BY <1>1, <1>2, <1>3, <1>4, <2>1 DEF SlotsInv, SlotTypes, SlotOfSomeDate
  <2>4. SlotsOfSelectedDate'
    BY <1>1, <1>5, <2>1, <2>2 DEF SlotsInv, SlotsOfSelectedDate
  <2> QED
    BY <1>1, <1>5, <1>6, <2>1, <2>3, <2>4 DEF SlotsInv
<1>8. CASE ~Mounted
  <2>1. UNCHANGED <<slots, isLoadingSlots>>
    BY <1>8 DEF Arrive
  <2>2. SlotTypes' /\ SlotOfSomeDate' /\ SlotsOfSelectedDate'
    BY <1>1, <1>4, <1>5, <1>8, <2>1 DEF SlotsInv, SlotTypes, SlotOfSomeDate, SlotsOfSelectedDate
  <2> QED
    BY <1>1, <1>5, <1>6, <1>8, <2>2 DEF SlotsInv
<1> QED
  BY <1>7, <1>8

-----------------------------------------------------------------------------
(* handleBookSubmit and createBooking *)

PostTypes ==
  /\ isSubmitting \in BOOLEAN /\ posts \in [PostIds -> Post]
  /\ booked \in [Starts -> {"nobody", "attendee", "another"}]
  /\ lost \in BOOLEAN /\ again \in BOOLEAN

\* Only what is awaited has an answer.
PostSound(post) ==
  /\ post.state = "free" => ~post.awaited
  /\ post.answer # "none" => post.state = "answered"
  /\ post.state = "answered" => post.awaited

Sent == {p \in PostIds : posts[p].state # "free"}
Awaited == {p \in PostIds : posts[p].awaited}

\* The page waits for one POST at a time.
OneAwaited ==
  /\ \A p \in PostIds : PostSound(posts[p])
  /\ \A p, q \in Awaited : p = q
  /\ NotYetOpen => Sent = {} /\ ~isSubmitting
  /\ Mounted => (isSubmitting <=> Awaited # {})

OwnStarts == {s \in Starts : booked[s] = "attendee"}
Gone == page \in {"navigating", "left"}

\* As long as no POST was given up and none was sent once more, the POST that
\* booked is answered next, and the page is gone with its answer.
OneBooking ==
  ~lost /\ ~again =>
    /\ Sent \subseteq Awaited
    /\ Gone => Sent = {}
    /\ \A s, t \in OwnStarts : s = t
    /\ OwnStarts # {} => Gone \/ \E p \in PostIds : posts[p].answer = "BOOKED"

\* A POST that overlapped no other has its start for itself.
Alone(p, post) ==
  post.awaited /\ ~post.overlapped /\ (post.state \in {"checked", "verified"} \/ post.answer = "TAKEN")
    => /\ booked[post.start] # "attendee"
       /\ \A q \in Served \ {p} : posts[q].start # post.start

PostsInv == PostTypes /\ OneAwaited /\ OneBooking /\ \A p \in PostIds : Alone(p, posts[p])

LEMMA NoPostTyped ==
  NoPost \in Post /\ NoPost.state = "free" /\ ~NoPost.awaited /\ NoPost.answer = "none"
<1>1. AnyDate \in Dates /\ (CHOOSE s \in Starts : TRUE) \in Starts
  BY SetsAssumption DEF AnyDate
<1> QED
  BY <1>1 DEF NoPost, Post

LEMMA PostsStart == Init => PostsInv
<1> SUFFICES ASSUME Init PROVE PostsInv
  OBVIOUS
<1>1. PostTypes
  BY NoPostTyped DEF Init, PostTypes
<1>2. OneAwaited /\ OneBooking
  BY NoPostTyped DEF Init, OneAwaited, OneBooking, PostSound, Sent, Awaited, OwnStarts, Mounted
<1>3. \A p \in PostIds : Alone(p, posts[p])
  BY NoPostTyped DEF Init, Alone
<1> QED
  BY <1>1, <1>2, <1>3 DEF PostsInv

LEMMA PostTyped ==
  ASSUME PostsInv, NEW p \in PostIds
  PROVE  posts[p] \in Post /\ PostSound(posts[p]) /\ Alone(p, posts[p]) /\ posts[p].start \in Starts
         /\ posts \in [PostIds -> Post]
BY DEF PostsInv, PostTypes, OneAwaited, Post

\* The page may go on while nothing is sent or booked.
LEMMA PostsStay ==
  ASSUME PostsInv, UNCHANGED <<isSubmitting, posts, booked, lost, again>>,
         \/ page' = page
         \/ page = "loading" /\ page' \in {"open", "missing"}
         \/ page = "navigating" /\ page' = "left"
  PROVE  PostsInv'
<1>1. PostTypes' /\ Sent' = Sent /\ Awaited' = Awaited /\ OwnStarts' = OwnStarts /\ Served' = Served
  BY DEF PostsInv, PostTypes, Sent, Awaited, OwnStarts, Served
<1>2. \A p \in PostIds : Alone(p, posts[p])'
  BY <1>1 DEF PostsInv, Alone
<1>3. Awaited \subseteq Sent
  BY DEF PostsInv, OneAwaited, PostSound, Awaited, Sent
<1>4. OneAwaited'
  BY <1>1, <1>3 DEF PostsInv, OneAwaited, NotYetOpen, Mounted
<1>5. OneBooking'
  BY <1>1 DEF PostsInv, OneAwaited, OneBooking, Gone, NotYetOpen
<1> QED
  BY <1>1, <1>2, <1>4, <1>5 DEF PostsInv

\* One POST changes.
LEMMA PostChanged ==
  ASSUME PostsInv, NEW p \in PostIds, NEW new \in Post, posts' = [posts EXCEPT ![p] = new]
  PROVE  /\ posts' \in [PostIds -> Post] /\ posts'[p] = new
         /\ \A q \in PostIds : q # p => posts'[q] = posts[q]
         /\ \A q \in PostIds : q # p => (q \in Sent' <=> q \in Sent) /\ (q \in Awaited' <=> q \in Awaited)
                                       /\ (q \in Served' <=> q \in Served)
         /\ Sent' \subseteq Sent \cup {p} /\ Awaited' \subseteq Awaited \cup {p}
         /\ p \in Sent' <=> new.state # "free"
         /\ p \in Awaited' <=> new.awaited
BY PostTyped DEF Sent, Awaited, Served

\* The API goes on with a POST: as long as it is served nobody else books its
\* start for the attendee.
LEMMA PostServed ==
  ASSUME PostsInv, NEW p \in Served, NEW new \in Post, posts' = [posts EXCEPT ![p] = new],
         UNCHANGED <<page, isSubmitting, lost, again>>,
         booked' \in [Starts -> {"nobody", "attendee", "another"}],
         PostSound(new), new.awaited <=> posts[p].awaited,
         new.state = "free" \/ new.start = posts[p].start,
         \A s \in OwnStarts' : s \in OwnStarts \/ (s = posts[p].start /\ (new.awaited => new.answer = "BOOKED")),
         Alone(p, posts[p])'
  PROVE  PostsInv'
<1>1. p \in PostIds /\ posts[p].state \in {"sent", "checked", "verified"} /\ p \in Sent
  BY DEF Served, Sent
<1>2. PostTypes'
  BY <1>1, PostChanged DEF PostsInv, PostTypes
<1>3. OneAwaited'
  <2>1. \A q \in PostIds : PostSound(posts[q])'
    BY <1>1, PostChanged, PostTyped DEF PostSound
  <2>2. Awaited' = Awaited
    BY <1>1, PostChanged DEF Awaited
  <2>3. Sent' \subseteq Sent
    BY <1>1, PostChanged
  <2> QED
    BY <2>1, <2>2, <2>3 DEF PostsInv, OneAwaited, NotYetOpen, Mounted
<1>4. OneBooking'
  <2> SUFFICES ASSUME ~lost, ~again
               PROVE  /\ Sent' \subseteq Awaited' /\ ~Gone
                      /\ \A s, t \in OwnStarts' : s = t
                      /\ OwnStarts' # {} => \E q \in PostIds : posts'[q].answer = "BOOKED"
    BY DEF OneBooking, Gone
  <2>1. Sent \subseteq Awaited /\ ~Gone /\ p \in Awaited /\ posts[p].awaited
    BY <1>1 DEF PostsInv, OneBooking, Awaited
  <2>2. OwnStarts = {}
    <3>1. ASSUME NEW q \in PostIds, posts[q].answer = "BOOKED" PROVE FALSE
      <4>1. posts[q].state = "answered" /\ q \in Awaited
        BY <3>1, PostTyped DEF PostSound, Awaited
      <4>2. q = p
        BY <2>1, <4>1 DEF PostsInv, OneAwaited
      <4> QED
        BY <1>1, <4>1, <4>2
    <3> QED
      BY <2>1, <3>1 DEF PostsInv, OneBooking
  <2>3. \A s \in OwnStarts' : s = posts[p].start /\ new.answer = "BOOKED"
    BY <2>1, <2>2
  <2>4. Sent' \subseteq Awaited'
    <3> SUFFICES ASSUME NEW q \in Sent' PROVE q \in Awaited'
      OBVIOUS
    <3>1. CASE q = p
      BY <1>1, <2>1, <3>1, PostChanged
    <3>2. CASE q # p
      <4>1. q \in PostIds /\ q \in Sent
        BY <1>1, <3>2, PostChanged DEF Sent
      <4> QED
        BY <1>1, <2>1, <3>2, <4>1, PostChanged
    <3> QED
      BY <3>1, <3>2
  <2>5. posts'[p] = new
    BY <1>1, PostChanged
  <2>6. OwnStarts' # {} => posts'[p].answer = "BOOKED"
    BY <2>3, <2>5
  <2> QED
    BY <1>1, <2>1, <2>3, <2>4, <2>6
<1>5. ASSUME NEW q \in PostIds PROVE Alone(q, posts[q])'
  <2>1. CASE q # p
    <3>1. posts'[q] = posts[q]
      BY <1>1, <2>1, PostChanged
    <3>2. SUFFICES ASSUME posts[q].awaited, ~posts[q].overlapped,
                          posts[q].state \in {"checked", "verified"} \/ posts[q].answer = "TAKEN"
                   PROVE  /\ booked'[posts[q].start] # "attendee"
                          /\ \A r \in Served' \ {q} : posts'[r].start # posts[q].start
      BY <3>1 DEF Alone
    <3>3. booked[posts[q].start] # "attendee" /\ \A r \in Served \ {q} : posts[r].start # posts[q].start
      BY <3>2, PostTyped DEF Alone
    <3>4. posts[p].start # posts[q].start /\ posts[q].start \in Starts
      BY <2>1, <3>3, PostTyped
    <3>5. booked'[posts[q].start] # "attendee"
      BY <3>3, <3>4 DEF OwnStarts
    <3>6. ASSUME NEW r \in Served' \ {q} PROVE posts'[r].start # posts[q].start
      <4>1. CASE r = p
        <5>1. posts'[p] = new
          BY <1>1, PostChanged
        <5>2. new.state # "free"
          BY <3>6, <4>1, <5>1 DEF Served
        <5> QED
          BY <3>4, <4>1, <5>1, <5>2
      <4>2. CASE r # p
        <5>1. r \in PostIds /\ r \in Served
          BY <1>1, <3>6, <4>2, PostChanged DEF Served
        <5> QED
          BY <1>1, <3>3, <3>6, <4>2, <5>1, PostChanged
      <4> QED
        BY <4>1, <4>2
    <3> QED
      BY <3>5, <3>6
  <2> QED
    BY <2>1
<1> QED
  BY <1>2, <1>3, <1>4, <1>5 DEF PostsInv

\* An answer, which nobody keeps for a page that gave it up.
LEMMA AnswerTyped ==
  ASSUME PostsInv, NEW p \in Served,
         NEW answer \in {"BOOKED", "BOOKING_ALREADY_EXISTS", "TAKEN", "ERROR"}, Answered(p, answer)
  PROVE  \E new \in Post :
           /\ posts' = [posts EXCEPT ![p] = new] /\ PostSound(new) /\ (new.awaited <=> posts[p].awaited)
           /\ new.awaited => /\ new.state = "answered" /\ new.answer = answer /\ new.start = posts[p].start
                             /\ new.overlapped = posts[p].overlapped
           /\ ~new.awaited => new.state = "free"
<1> DEFINE made == [posts[p] EXCEPT !.state = "answered", !.answer = answer]
<1>1. p \in PostIds
  BY DEF Served
<1>2. made \in Post /\ made.state = "answered" /\ made.answer = answer /\ made.start = posts[p].start
      /\ made.overlapped = posts[p].overlapped /\ made.awaited = posts[p].awaited
  BY <1>1, PostTyped DEF Post
<1>3. posts' = [posts EXCEPT ![p] = Forgotten(made)]
  BY DEF Answered
<1> HIDE DEF made
<1>4. CASE made.awaited
  <2>1. Forgotten(made) = made
    BY <1>4 DEF Forgotten
  <2>2. PostSound(made)
    BY <1>2, <1>4 DEF PostSound
  <2> QED
    BY <1>2, <1>3, <1>4, <2>1, <2>2
<1>5. CASE ~made.awaited
  <2>1. Forgotten(made) = NoPost
    BY <1>2, <1>5 DEF Forgotten
  <2>2. PostSound(NoPost)
    BY NoPostTyped DEF PostSound
  <2> QED
    BY <1>2, <1>3, <1>5, <2>1, <2>2, NoPostTyped
<1> QED
  BY <1>4, <1>5

\* An answer that books nothing, "TAKEN" only to a POST that was checked.
LEMMA RefusedPost ==
  ASSUME PostsInv, NEW p \in Served, NEW answer \in {"BOOKING_ALREADY_EXISTS", "TAKEN", "ERROR"},
         Answered(p, answer), answer = "TAKEN" => posts[p].state \in {"checked", "verified"},
         UNCHANGED <<page, isSubmitting, lost, again, booked>>
  PROVE  PostsInv'
<1>1. PICK new \in Post :
           /\ posts' = [posts EXCEPT ![p] = new] /\ PostSound(new) /\ (new.awaited <=> posts[p].awaited)
           /\ new.awaited => /\ new.state = "answered" /\ new.answer = answer /\ new.start = posts[p].start
                             /\ new.overlapped = posts[p].overlapped
           /\ ~new.awaited => new.state = "free"
  BY AnswerTyped
<1>2. p \in PostIds /\ Alone(p, posts[p])
  BY PostTyped DEF Served
<1>3. \A r \in Served' \ {p} : r \in Served /\ posts'[r] = posts[r]
  BY <1>1, <1>2, PostChanged DEF Served
<1>4. Alone(p, posts[p])'
  <2>1. posts'[p] = new
    BY <1>1, <1>2, PostChanged
  <2>2. CASE ~new.awaited
    BY <2>1, <2>2 DEF Alone
  <2>3. CASE new.awaited
    BY <1>1, <1>2, <1>3, <2>1, <2>3 DEF Alone
  <2> QED
    BY <2>2, <2>3
<1>5. booked' \in [Starts -> {"nobody", "attendee", "another"}] /\ OwnStarts' = OwnStarts
  BY DEF PostsInv, PostTypes, OwnStarts
<1>6. new.state = "free" \/ new.start = posts[p].start
  BY <1>1
<1> QED
  BY <1>1, <1>4, <1>5, <1>6, PostServed

\* The check for a duplicate sees who else is served with the same start.
LEMMA CheckStep ==
  ASSUME PostsInv, NEW p \in PostIds, CheckDuplicate(p)
  PROVE  PostsInv'
<1>1. p \in Served /\ posts[p].state = "sent" /\ UNCHANGED <<page, isSubmitting, lost, again, booked>>
  BY DEF CheckDuplicate, Served, server, ghosts
<1>2. CASE Duplicate(posts[p].start)
  BY <1>1, <1>2, RefusedPost DEF CheckDuplicate
<1>3. CASE ~Duplicate(posts[p].start)
  <2> DEFINE overlaps == \E q \in Served \ {p} : posts[q].start = posts[p].start
             new == [posts[p] EXCEPT !.state = "checked", !.overlapped = overlaps]
  <2>1. posts' = [posts EXCEPT ![p] = new]
    BY <1>3, PostTyped DEF CheckDuplicate
  <2>2. overlaps \in BOOLEAN
    OBVIOUS
  <2> HIDE DEF overlaps
  <2>3. new \in Post /\ new.state = "checked" /\ new.awaited = posts[p].awaited
        /\ new.start = posts[p].start /\ new.overlapped = overlaps /\ new.answer = posts[p].answer
    BY <2>2, PostTyped DEF Post
  <2> HIDE DEF new
  <2>4. PostSound(new)
    BY <1>1, <2>3, PostTyped DEF PostSound
  <2>5. \A r \in Served' \ {p} : r \in Served /\ posts'[r] = posts[r]
    BY <2>1, <2>3, PostChanged DEF Served
  <2>6. Alone(p, posts[p])'
    <3>1. posts'[p] = new
      BY <2>1, <2>3, PostChanged
    <3>2. booked[posts[p].start] # "attendee"
      BY <1>3 DEF Duplicate
    <3>3. ~overlaps => \A r \in Served' \ {p} : posts'[r].start # posts[p].start
      BY <2>5 DEF overlaps
    <3> QED
      BY <1>1, <2>3, <3>1, <3>2, <3>3 DEF Alone
  <2>7. booked' \in [Starts -> {"nobody", "attendee", "another"}] /\ OwnStarts' = OwnStarts
    BY <1>1 DEF PostsInv, PostTypes, OwnStarts
  <2> QED
    BY <1>1, <2>1, <2>3, <2>4, <2>6, <2>7, PostServed
<1> QED
  BY <1>2, <1>3

LEMMA GoogleStep ==
  ASSUME PostsInv, NEW p \in PostIds, AskGoogle(p)
  PROVE  PostsInv'
<1>1. p \in Served /\ posts[p].state = "checked" /\ UNCHANGED <<page, isSubmitting, lost, again, booked>>
  BY DEF AskGoogle, Served, server, ghosts
<1>2. CASE Answered(p, "TAKEN")
  BY <1>1, <1>2, RefusedPost
<1>3. CASE posts' = [posts EXCEPT ![p].state = "verified"]
  <2> DEFINE new == [posts[p] EXCEPT !.state = "verified"]
  <2>1. posts' = [posts EXCEPT ![p] = new]
    BY <1>3, PostTyped
  <2>2. new \in Post /\ new.state = "verified" /\ new.awaited = posts[p].awaited
        /\ new.start = posts[p].start /\ new.overlapped = posts[p].overlapped
        /\ new.answer = posts[p].answer
    BY PostTyped DEF Post
  <2> HIDE DEF new
  <2>3. PostSound(new)
    BY <1>1, <2>2, PostTyped DEF PostSound
  <2>4. \A r \in Served' \ {p} : r \in Served /\ posts'[r] = posts[r]
    BY <2>1, <2>2, PostChanged DEF Served
  <2>5. Alone(p, posts[p])'
    <3>1. posts'[p] = new
      BY <2>1, <2>2, PostChanged
    <3>2. SUFFICES ASSUME new.awaited, ~new.overlapped
                   PROVE  /\ booked[new.start] # "attendee"
                          /\ \A r \in Served' \ {p} : posts'[r].start # new.start
      BY <1>1, <3>1 DEF Alone
    <3>3. booked[posts[p].start] # "attendee" /\ \A r \in Served \ {p} : posts[r].start # posts[p].start
      BY <1>1, <2>2, <3>2, PostTyped DEF Alone
    <3> QED
      BY <2>2, <2>4, <3>3
  <2>6. booked' \in [Starts -> {"nobody", "attendee", "another"}] /\ OwnStarts' = OwnStarts
    BY <1>1 DEF PostsInv, PostTypes, OwnStarts
  <2> QED
    BY <1>1, <2>1, <2>2, <2>3, <2>5, <2>6, PostServed
<1> QED
  BY <1>2, <1>3 DEF AskGoogle

LEMMA CommitStep ==
  ASSUME PostsInv, NEW p \in PostIds, CommitBooking(p)
  PROVE  PostsInv'
<1> DEFINE s == posts[p].start
<1>1. p \in Served /\ posts[p].state = "verified" /\ UNCHANGED <<page, isSubmitting, lost, again>>
  BY DEF CommitBooking, Served, ghosts
<1>2. CASE UNCHANGED booked /\ Answered(p, "TAKEN")
  BY <1>1, <1>2, RefusedPost
<1>3. CASE booked' = [booked EXCEPT ![s] = "attendee"] /\ Answered(p, "BOOKED")
  <2>1. PICK new \in Post :
           /\ posts' = [posts EXCEPT ![p] = new] /\ PostSound(new) /\ (new.awaited <=> posts[p].awaited)
           /\ new.awaited => /\ new.state = "answered" /\ new.answer = "BOOKED" /\ new.start = s
                             /\ new.overlapped = posts[p].overlapped
           /\ ~new.awaited => new.state = "free"
    BY <1>1, <1>3, AnswerTyped
  <2>2. Alone(p, posts[p])'
    <3>1. posts'[p] = new
      BY <2>1, PostChanged
    <3> QED
      BY <2>1, <3>1 DEF Alone
  <2>3. s \in Starts /\ booked \in [Starts -> {"nobody", "attendee", "another"}]
    BY PostTyped DEF PostsInv, PostTypes
  <2>4. booked' \in [Starts -> {"nobody", "attendee", "another"}]
        /\ \A t \in Starts : t # s => booked'[t] = booked[t]
    BY <1>3, <2>3
  <2>5. \A t \in OwnStarts' : t \in OwnStarts \/ (t = s /\ (new.awaited => new.answer = "BOOKED"))
    BY <2>1, <2>4 DEF OwnStarts
  <2>6. new.state = "free" \/ new.start = s
    BY <2>1
  <2> QED
    BY <1>1, <2>1, <2>2, <2>4, <2>5, <2>6, PostServed
<1> QED
  BY <1>2, <1>3 DEF CommitBooking

LEMMA RefuseStep ==
  ASSUME PostsInv, NEW p \in PostIds, RefuseBooking(p)
  PROVE  PostsInv'
BY RefusedPost DEF RefuseBooking, server, ghosts

LEMMA OtherStep ==
  ASSUME PostsInv, NEW s \in Starts, OtherBooks(s)
  PROVE  PostsInv'
<1>1. booked[s] = "nobody" /\ booked' = [booked EXCEPT ![s] = "another"]
      /\ UNCHANGED <<page, isSubmitting, posts, lost, again>>
  BY DEF OtherBooks, ghosts
<1>2. PostTypes' /\ \A t \in Starts : booked'[t] = "attendee" <=> booked[t] = "attendee"
  BY <1>1 DEF PostsInv, PostTypes
<1>3. Sent' = Sent /\ Awaited' = Awaited /\ OwnStarts' = OwnStarts /\ Served' = Served
  BY <1>1, <1>2 DEF Sent, Awaited, OwnStarts, Served
<1>4. OneAwaited' /\ OneBooking'
  BY <1>1, <1>3 DEF PostsInv, OneAwaited, OneBooking, NotYetOpen, Mounted, Gone
<1>5. ASSUME NEW p \in PostIds PROVE Alone(p, posts[p])'
  BY <1>1, <1>2, <1>3, PostTyped DEF Alone
<1> QED
  BY <1>2, <1>4, <1>5 DEF PostsInv

\* The POST that the page waits for ends, and with it the wait.
LEMMA WaitEnds ==
  ASSUME PostsInv, NEW p \in PostIds, posts[p].awaited,
         NEW new \in Post, posts' = [posts EXCEPT ![p] = new], PostSound(new), ~new.awaited,
         UNCHANGED booked, isSubmitting' = (isSubmitting /\ ~Mounted),
         lost' \in BOOLEAN, again' \in BOOLEAN, page' = page \/ (Mounted /\ page' = "navigating"),
         OneBooking'
  PROVE  PostsInv'
<1>1. PostTypes'
  BY PostChanged DEF PostsInv, PostTypes
<1>2. Awaited' = {}
  <2>1. Awaited = {p}
    BY DEF PostsInv, OneAwaited, Awaited
  <2>2. Awaited' \subseteq {p}
    BY <2>1, PostChanged
  <2>3. p \notin Awaited'
    BY PostChanged
  <2> QED
    BY <2>2, <2>3
<1>3. p \in Sent
  BY PostTyped DEF PostSound, Sent
<1>4. ~NotYetOpen /\ ~NotYetOpen' /\ (Mounted' => Mounted)
  BY <1>3 DEF PostsInv, OneAwaited, NotYetOpen, Mounted
<1>5. OneAwaited'
  <2>1. \A q \in PostIds : PostSound(posts[q])'
    BY PostChanged, PostTyped DEF PostSound
  <2> QED
    BY <1>2, <1>4, <2>1 DEF OneAwaited
<1>6. \A q \in PostIds : Alone(q, posts[q])'
  BY <1>2 DEF Alone, Awaited
<1> QED
  BY <1>1, <1>5, <1>6 DEF PostsInv

LEMMA AnswerStep ==
  ASSUME PostsInv, page \in Pages, NEW p \in PostIds, AnswerArrives(p)
  PROVE  PostsInv'
<1>1. posts[p].state = "answered" /\ posts[p].awaited /\ posts' = [posts EXCEPT ![p] = NoPost]
      /\ UNCHANGED <<booked, lost, again>>
  BY DEF AnswerArrives, server, ghosts
<1>2. isSubmitting' = (isSubmitting /\ ~Mounted)
  BY DEF AnswerArrives, PostsInv, PostTypes
<1>3. \/ Mounted /\ page' = "navigating"
      \/ page' = page /\ (Mounted => posts[p].answer # "BOOKED")
  BY DEF AnswerArrives
<1>4. PostSound(NoPost)
  BY NoPostTyped DEF PostSound
<1>5. OneBooking'
  <2> SUFFICES ASSUME ~lost, ~again
               PROVE  /\ Sent' = {} /\ \A s, t \in OwnStarts' : s = t
                      /\ OwnStarts' # {} => Gone'
    BY <1>1 DEF OneBooking
  <2>1. p \in Sent /\ p \in Awaited /\ Sent \subseteq Awaited /\ ~Gone
    BY <1>1 DEF PostsInv, OneBooking, Sent, Awaited
  <2>2. Sent \subseteq {p} /\ ~NotYetOpen
    BY <2>1 DEF PostsInv, OneAwaited
  <2>3. Sent' = {}
    <3>1. Sent' \subseteq {p}
      BY <1>1, <2>2, NoPostTyped, PostChanged
    <3>2. p \notin Sent'
      BY <1>1, NoPostTyped, PostChanged
    <3> QED
      BY <3>1, <3>2
  <2>4. Mounted
    BY <2>1, <2>2 DEF NotYetOpen, Gone, Mounted, Pages
  <2>5. OwnStarts' = OwnStarts
    BY <1>1 DEF OwnStarts
  <2>6. OwnStarts # {} => posts[p].answer = "BOOKED"
    <3>1. ASSUME NEW q \in PostIds, posts[q].answer = "BOOKED" PROVE q = p
      BY <2>2, <3>1, PostTyped DEF PostSound, Sent
    <3> QED
      BY <2>1, <3>1 DEF PostsInv, OneBooking
  <2>7. \A s, t \in OwnStarts : s = t
    BY <2>1 DEF PostsInv, OneBooking
  <2>8. OwnStarts # {} => Gone'
    BY <1>3, <2>4, <2>6 DEF Gone
  <2> QED
    BY <2>3, <2>5, <2>7, <2>8
<1> QED
  BY <1>1, <1>2, <1>3, <1>4, <1>5, NoPostTyped, WaitEnds DEF PostsInv, PostTypes

LEMMA LostStep ==
  ASSUME PostsInv, NEW p \in PostIds, PostLost(p)
  PROVE  PostsInv'
<1>1. posts[p].awaited /\ isSubmitting' = (isSubmitting /\ ~Mounted) /\ lost' = TRUE
      /\ UNCHANGED <<page, booked, again>>
  BY DEF PostLost, server
<1> DEFINE given == [posts[p] EXCEPT !.awaited = FALSE]
<1>2. given \in Post /\ ~given.awaited /\ given.state = posts[p].state /\ given.answer = posts[p].answer
  BY PostTyped DEF Post
<1>3. posts' = [posts EXCEPT ![p] = Forgotten(given)] \/ posts' = [posts EXCEPT ![p] = NoPost]
  BY DEF PostLost
<1> HIDE DEF given
<1>4. \E new \in {given, NoPost} : /\ posts' = [posts EXCEPT ![p] = new]
                                   /\ new = given => given.state # "answered"
  <2>1. CASE posts' = [posts EXCEPT ![p] = NoPost]
    <3>1. NoPost = given => given.state # "answered"
      BY NoPostTyped
    <3> QED
      BY <2>1, <3>1
  <2>2. CASE given.state = "answered" /\ posts' = [posts EXCEPT ![p] = Forgotten(given)]
    <3>1. Forgotten(given) = NoPost
      BY <1>2, <2>2 DEF Forgotten
    <3>2. NoPost = given => given.state # "answered"
      BY NoPostTyped
    <3> QED
      BY <2>2, <3>1, <3>2
  <2>3. CASE given.state # "answered" /\ posts' = [posts EXCEPT ![p] = Forgotten(given)]
    <3>1. Forgotten(given) = given
      BY <2>3 DEF Forgotten
    <3> QED
      BY <2>3, <3>1
  <2> QED
    BY <1>3, <2>1, <2>2, <2>3
<1>5. PICK new \in {given, NoPost} : /\ posts' = [posts EXCEPT ![p] = new]
                                     /\ new = given => given.state # "answered"
  BY <1>4
<1>6. new \in Post /\ ~new.awaited /\ PostSound(new)
  <2>1. CASE new = given
    <3>1. new.state # "answered" /\ new.answer = "none"
      <4>1. new.state # "answered"
        BY <1>5, <2>1
      <4> QED
        BY <1>2, <2>1, <4>1, PostTyped DEF PostSound
    <3> QED
      BY <1>2, <2>1, <3>1 DEF PostSound
  <2>2. CASE new = NoPost
    BY <2>2, NoPostTyped DEF PostSound
  <2> QED
    BY <1>5, <2>1, <2>2
<1>7. OneBooking'
  BY <1>1 DEF OneBooking
<1> QED
  <2>1. posts' = [posts EXCEPT ![p] = new] /\ lost' \in BOOLEAN /\ again' \in BOOLEAN
    BY <1>1, <1>5 DEF PostsInv, PostTypes
  <2> QED
    BY <1>1, <1>6, <1>7, <2>1, WaitEnds

\* The button is enabled only while nothing is awaited.
LEMMA SubmitStep ==
  ASSUME PostsInv, selectedSlot \in Starts \cup {None}, selectedDate \in Dates, Submit
  PROVE  PostsInv'
<1>1. Mounted /\ ~isSubmitting /\ isSubmitting' = TRUE /\ selectedSlot \in Starts
      /\ again' = (again \/ page = "navigating") /\ UNCHANGED <<page, booked, lost>>
  BY DEF Submit, MaySubmit, FormShown, server
<1> DEFINE new == [NoPost EXCEPT !.state = "sent", !.awaited = TRUE, !.start = selectedSlot,
                                 !.date = selectedDate]
<1>2. PICK p \in PostIds : posts[p].state = "free" /\ posts' = [posts EXCEPT ![p] = new]
  BY DEF Submit
<1>3. new \in Post /\ new.state = "sent" /\ new.awaited /\ new.answer = "none"
  BY <1>1, NoPostTyped DEF Post
<1> HIDE DEF new
<1>4. Awaited = {}
  BY <1>1 DEF PostsInv, OneAwaited
<1>5. Awaited' = {p} /\ posts'[p] = new
  <2>1. Awaited' \subseteq {p}
    BY <1>2, <1>3, <1>4, PostChanged
  <2>2. p \in Awaited' /\ posts'[p] = new
    BY <1>2, <1>3, PostChanged
  <2> QED
    BY <2>1, <2>2
<1>6. PostTypes'
  BY <1>1, <1>2, <1>3, PostChanged DEF PostsInv, PostTypes
<1>7. OneAwaited'
  <2>1. \A q \in PostIds : PostSound(posts[q])'
    BY <1>2, <1>3, PostChanged, PostTyped DEF PostSound
  <2>2. ~NotYetOpen' /\ Mounted'
    BY <1>1 DEF NotYetOpen, Mounted
  <2> QED
    BY <1>1, <1>5, <2>1, <2>2 DEF OneAwaited
<1>8. OneBooking'
  <2> SUFFICES ASSUME ~lost, ~again, page # "navigating"
               PROVE  Sent' \subseteq {p} /\ ~Gone' /\ OwnStarts' = {}
    BY <1>1, <1>5 DEF OneBooking
  <2>1. Sent = {} /\ ~Gone
    BY <1>1, <1>4 DEF PostsInv, OneBooking, Gone, Mounted
  <2>2. \A q \in PostIds : posts[q].answer = "none"
    BY <2>1, PostTyped DEF PostSound, Sent
  <2>3. OwnStarts = {}
    BY <2>1, <2>2 DEF PostsInv, OneBooking
  <2>4. Sent' \subseteq {p}
    BY <1>2, <1>3, <2>1, PostChanged
  <2> QED
    BY <1>1, <2>1, <2>3, <2>4 DEF Gone, OwnStarts
<1>9. ASSUME NEW q \in PostIds PROVE Alone(q, posts[q])'
  BY <1>3, <1>5 DEF Alone, Awaited
<1> QED
  BY <1>6, <1>7, <1>8, <1>9 DEF PostsInv

-----------------------------------------------------------------------------
(* The steps of the page *)

ViewTypes ==
  /\ page \in Pages /\ attendeeTimezone \in Zones
  /\ slotConflictMessage \in BOOLEAN /\ existingBookingDuplicate \in BOOLEAN

PageInv == ViewTypes /\ SlotsInv /\ PostsInv

LEMMA PageTypes == PageInv => TypeOK
BY DEF PageInv, ViewTypes, SlotsInv, SlotTypes, PostsInv, PostTypes, TypeOK

LEMMA PageStart == Init => PageInv
<1> SUFFICES ASSUME Init PROVE PageInv
  OBVIOUS
<1>1. ViewTypes
  BY DEF Init, ViewTypes, Pages
<1> QED
  BY <1>1, SlotsStart, PostsStart DEF PageInv

LEMMA LoadEventStep == PageInv /\ LoadEvent => PageInv'
<1> SUFFICES ASSUME PageInv, LoadEvent PROVE PageInv'
  OBVIOUS
<1>1. /\ page = "loading" /\ page' \in {"open", "missing"}
      /\ UNCHANGED <<selectedDate, attendeeTimezone, slots, selectedSlot, slotConflictMessage,
                     existingBookingDuplicate, isSubmitting, posts, booked, lost, again>>
  BY DEF LoadEvent, choice, panel, server, ghosts
<1>2. ViewTypes'
  BY <1>1 DEF PageInv, ViewTypes, Pages
<1>3. PostsInv'
  BY <1>1, PostsStay DEF PageInv
<1>4. selectedSlot = None /\ selectedDate \in Dates
  BY <1>1 DEF PageInv, SlotsInv, SlotTypes, NotYetOpen
<1>5. CASE LoadSlots(selectedDate, selectedDate)
  <2>1. LoadSlots(selectedDate, selectedDate')
    BY <1>1, <1>5
  <2> QED
    BY <1>1, <1>2, <1>3, <1>4, <2>1, SlotsAsked DEF PageInv
<1>6. CASE page' = "missing" /\ UNCHANGED <<isLoadingSlots, fetches, crossed>>
  <2>1. ~Mounted' /\ NotYetOpen
    BY <1>1, <1>6 DEF Mounted, NotYetOpen
  <2> QED
    BY <1>1, <1>2, <1>3, <1>6, <2>1, SlotsStay DEF PageInv
<1> QED
  BY <1>5, <1>6 DEF LoadEvent

\* Another date or another time zone is selected.
LEMMA SelectStep ==
  ASSUME PageInv,
         \/ \E date \in Dates : SelectDate(date)
         \/ \E zone \in Zones : SelectTimezone(zone)
         \/ DismissConflict
  PROVE  PageInv'
<1>1. /\ UNCHANGED <<page, slots, existingBookingDuplicate, isSubmitting, posts, booked, lost, again>>
      /\ selectedSlot' = None
      /\ attendeeTimezone' \in Zones /\ slotConflictMessage' \in BOOLEAN
  BY DEF SelectDate, SelectTimezone, DismissConflict, choice, panel, server, ghosts, AfterChange,
         ListShown, PageInv, ViewTypes
<1>2. selectedDate' \in Dates /\ LoadSlots(selectedDate', selectedDate')
  BY DEF SelectDate, SelectTimezone, DismissConflict, choice, PageInv, SlotsInv, SlotTypes
<1>3. ViewTypes'
  BY <1>1 DEF PageInv, ViewTypes
<1> QED
  BY <1>1, <1>2, <1>3, SlotsAsked, PostsStay DEF PageInv

LEMMA ArriveStep ==
  ASSUME PageInv, NEW f \in FetchIds, SlotsArrive(f) \/ SlotsFail(f)
  PROVE  PageInv'
<1>1. PICK offers : offers \subseteq DayStarts(fetches[f].date) /\ Arrive(f, offers)
  BY DEF SlotsArrive, SlotsFail, Offered
<1>2. fetches[f].state = "asked"
  BY DEF SlotsArrive, SlotsFail
<1>3. UNCHANGED <<page, attendeeTimezone, slotConflictMessage, existingBookingDuplicate, isSubmitting,
                  posts, booked, lost, again>>
  BY <1>1 DEF Arrive, choice, panel, server, ghosts
<1> QED
  BY <1>1, <1>2, <1>3, SlotsShown, PostsStay DEF PageInv, ViewTypes

\* A slot is picked or dropped.
LEMMA ChooseStep ==
  ASSUME PageInv, (\E s \in Starts : PickSlot(s)) \/ ChangeSlot \/ DismissDuplicate
  PROVE  PageInv'
<1>1. /\ UNCHANGED <<page, selectedDate, attendeeTimezone, slots, isLoadingSlots, fetches, crossed,
                     slotConflictMessage, isSubmitting, posts, booked, lost, again>>
      /\ existingBookingDuplicate' \in BOOLEAN
  BY DEF PickSlot, ChangeSlot, DismissDuplicate, choice, panel, server, ghosts, PageInv, ViewTypes
<1>2. selectedSlot' = None \/ (Mounted /\ ~isLoadingSlots /\ selectedSlot' \in slots)
  BY DEF PickSlot, ChangeSlot, DismissDuplicate, ListShown
<1> QED
  BY <1>1, <1>2, SlotChosen, PostsStay DEF PageInv, ViewTypes

\* The posts go on, and what of the page an answer changes.
LEMMA SubmitsStep == PageInv /\ Submit => PageInv'
<1> SUFFICES ASSUME PageInv, Submit PROVE PageInv'
  OBVIOUS
<1>1. /\ UNCHANGED <<page, selectedDate, attendeeTimezone, slots, isLoadingSlots, selectedSlot, fetches,
                     crossed, existingBookingDuplicate>>
      /\ slotConflictMessage' = FALSE
  BY DEF Submit, choice
<1>2. SlotsInv' /\ ViewTypes'
  BY <1>1, SlotsStay DEF PageInv, ViewTypes, Mounted, NotYetOpen
<1>3. PostsInv'
  BY SubmitStep DEF PageInv, SlotsInv, SlotTypes
<1> QED
  BY <1>2, <1>3 DEF PageInv

LEMMA AnswersStep ==
  ASSUME PageInv, NEW p \in PostIds, AnswerArrives(p)
  PROVE  PageInv'
<1>1. PostsInv'
  BY AnswerStep DEF PageInv, ViewTypes
<1>2. UNCHANGED <<selectedDate, attendeeTimezone, slots>>
  BY DEF AnswerArrives, choice
<1>3. posts[p].date \in Dates
  BY DEF PageInv, PostsInv, PostTypes, Post
<1>4. CASE UNCHANGED <<isLoadingSlots, selectedSlot, fetches, crossed>>
  <2>1. \/ page' = page
        \/ Mounted /\ page' = "navigating"
    BY DEF AnswerArrives
  <2>2. ViewTypes' /\ (Mounted' => Mounted) /\ (NotYetOpen' => NotYetOpen)
    BY <1>2, <2>1 DEF AnswerArrives, PageInv, ViewTypes, Pages, Mounted, NotYetOpen, panel
  <2> QED
    BY <1>1, <1>2, <1>4, <2>2, SlotsStay DEF PageInv
<1>5. CASE /\ selectedSlot' = None /\ slotConflictMessage' = TRUE
           /\ LoadSlots(posts[p].date, selectedDate) /\ UNCHANGED <<page, existingBookingDuplicate>>
  <2>1. LoadSlots(posts[p].date, selectedDate') /\ selectedDate' \in Dates
    BY <1>2, <1>5 DEF PageInv, SlotsInv, SlotTypes
  <2>2. SlotsInv'
    BY <1>2, <1>3, <1>5, <2>1, SlotsAsked DEF PageInv
  <2>3. ViewTypes'
    BY <1>2, <1>5 DEF PageInv, ViewTypes
  <2> QED
    BY <1>1, <2>2, <2>3 DEF PageInv
<1> QED
  BY <1>4, <1>5 DEF AnswerArrives

LEMMA PostsStep ==
  ASSUME PageInv, NEW p \in PostIds,
         PostLost(p) \/ CheckDuplicate(p) \/ AskGoogle(p) \/ CommitBooking(p) \/ RefuseBooking(p)
  PROVE  PageInv'
<1>1. UNCHANGED <<page, selectedDate, attendeeTimezone, slots, isLoadingSlots, selectedSlot, fetches,
                  crossed, slotConflictMessage, existingBookingDuplicate>>
  BY DEF PostLost, CheckDuplicate, AskGoogle, CommitBooking, RefuseBooking, choice, panel
<1>2. SlotsInv' /\ ViewTypes'
  BY <1>1, SlotsStay DEF PageInv, ViewTypes, Mounted, NotYetOpen
<1>3. PostsInv'
  BY LostStep, CheckStep, GoogleStep, CommitStep, RefuseStep DEF PageInv
<1> QED
  BY <1>2, <1>3 DEF PageInv

\* The page is left, others book, or nothing happens.
LEMMA OthersStep ==
  ASSUME PageInv, Leave \/ (\E s \in Starts : OtherBooks(s)) \/ UNCHANGED vars
  PROVE  PageInv'
<1>1. /\ UNCHANGED <<selectedDate, attendeeTimezone, slots, isLoadingSlots, selectedSlot, fetches,
                     crossed, slotConflictMessage, existingBookingDuplicate>>
      /\ page' = page \/ (page = "navigating" /\ page' = "left")
  BY DEF Leave, OtherBooks, choice, panel, vars
<1>2. SlotsInv' /\ ViewTypes'
  BY <1>1, SlotsStay DEF PageInv, ViewTypes, Mounted, NotYetOpen, Pages
<1>3. PostsInv'
  <2>1. CASE \E s \in Starts : OtherBooks(s)
    BY <2>1, OtherStep DEF PageInv
  <2>2. CASE Leave \/ UNCHANGED vars
    <3>1. UNCHANGED <<isSubmitting, posts, booked, lost, again>>
      BY <2>2 DEF Leave, server, ghosts, vars
    <3> QED
      BY <1>1, <3>1, PostsStay DEF PageInv
  <2> QED
    BY <2>1, <2>2
<1> QED
  BY <1>2, <1>3 DEF PageInv

LEMMA PageSteps == PageInv /\ [Next]_vars => PageInv'
<1> SUFFICES ASSUME PageInv, Next \/ UNCHANGED vars PROVE PageInv'
  OBVIOUS
<1>1. CASE \/ LoadEvent \/ Submit \/ Leave \/ UNCHANGED vars
           \/ \E s \in Starts : OtherBooks(s)
  BY <1>1, LoadEventStep, SubmitsStep, OthersStep
<1>2. CASE \E f \in FetchIds : SlotsArrive(f) \/ SlotsFail(f)
  BY <1>2, ArriveStep
<1>3. CASE PostStep
  BY <1>3, AnswersStep, PostsStep DEF PostStep
<1>4. CASE Attendee
  BY <1>4, SelectStep, ChooseStep, SubmitsStep DEF Attendee
<1> QED
  BY <1>1, <1>2, <1>3, <1>4 DEF Next, FetchStep

LEMMA PageHolds == Spec => []PageInv
<1>1. Init => PageInv
  BY PageStart
<1>2. PageInv /\ [Next]_vars => PageInv'
  BY PageSteps
<1> QED
  BY <1>1, <1>2, PTL DEF Spec

\* The slots shown and the one in the form are those of the selected date,
\* however late the lists arrive, unless loadSlots was overtaken.
THEOREM SlotsOfDate == Spec => []SlotsOfSelectedDate
<1>1. PageInv => SlotsOfSelectedDate
  BY DEF PageInv, SlotsInv
<1> QED
  BY <1>1, PageHolds, PTL

\* A start that zonedTimeToUtc placed is at its local time again, if the offsets
\* of the guess and of the result are the same.
LEMMA PlacedAtLocalTime ==
  ASSUME NEW date \in Dates, NEW time \in WorkingTimes, Steady(date, time)
  PROVE  LocalTime(ZonedTimeToUtc(date, time, HostZone), HostZone) = date * DayLength + time
<1> DEFINE guess == date * DayLength + time
           start == ZonedTimeToUtc(date, time, HostZone)
<1>1. guess \in Int
  BY SetsAssumption, DayAssumption, WorkingAssumption
<1>2. Offset(HostZone, guess) \in Int
  BY OffsetsAssumption
<1>3. start = guess - Offset(HostZone, guess)
  BY DEF ZonedTimeToUtc
<1>4. Offset(HostZone, start) = Offset(HostZone, guess)
  BY DEF Steady
<1>5. LocalTime(start, HostZone) = start + Offset(HostZone, start)
  BY DEF LocalTime
<1> HIDE DEF guess, start
<1>6. LocalTime(start, HostZone) = guess
  BY <1>1, <1>2, <1>3, <1>4, <1>5
<1> QED
  BY <1>6 DEF guess, start

\* The slots shown begin at working times of the host, if his clock does not
\* change between the guess and the result of zonedTimeToUtc, for any zones.
THEOREM OffersAtWork == Spec => []OffersInWorkingTimes
<1>1. PageInv => OffersInWorkingTimes
  <2> SUFFICES ASSUME PageInv, NEW s \in slots
               PROVE  \E date \in Dates, time \in WorkingTimes :
                        /\ s = ZonedTimeToUtc(date, time, HostZone)
                        /\ Steady(date, time) => LocalTime(s, HostZone) = date * DayLength + time
    BY DEF OffersInWorkingTimes
  <2>1. PICK date \in Dates, time \in WorkingTimes : s = ZonedTimeToUtc(date, time, HostZone)
    BY DEF PageInv, SlotsInv, SlotOfSomeDate, DayStarts
  <2> QED
    BY <2>1, PlacedAtLocalTime
<1> QED
  BY <1>1, PageHolds, PTL

\* Nobody is booked twice who loses no answer and submits nothing once more while
\* the page navigates, whatever happens beside it.
THEOREM NobodyBookedTwice == Spec => []BookedOnce
<1>1. PageInv => BookedOnce
  <2> SUFFICES ASSUME PageInv, ~lost, ~again PROVE ~(Cardinality(OwnStarts) > 1)
    BY DEF BookedOnce, OwnStarts
  <2>1. \A s, t \in OwnStarts : s = t
    BY DEF PageInv, PostsInv, OneBooking
  <2>2. CASE OwnStarts = {}
    BY <2>2, FS_EmptySet
  <2>3. CASE OwnStarts # {}
    <3>1. PICK s \in OwnStarts : OwnStarts = {s}
      BY <2>1, <2>3
    <3>2. Cardinality(OwnStarts) = 1
      BY <3>1, FS_Singleton
    <3> QED
      BY <3>2
  <2> QED
    BY <2>2, <2>3
<1> QED
  BY <1>1, PageHolds, PTL

\* Whoever is told that others took a start that is his had sent two POSTs for it
\* that were served together.
THEOREM TakenBySelf == Spec => []TakenByOthers
<1>1. PageInv => TakenByOthers
  <2> SUFFICES ASSUME PageInv, NEW p \in PostIds, posts[p].answer = "TAKEN",
                      booked[posts[p].start] = "attendee"
               PROVE  posts[p].overlapped
    BY DEF TakenByOthers
  <2>1. posts[p].awaited /\ Alone(p, posts[p])
    BY PostTyped DEF PageInv, PostSound
  <2> QED
    BY <2>1 DEF Alone
<1> QED
  BY <1>1, PageHolds, PTL

\* The page waits only for calls that are on their way.
THEOREM WaitsForSomething == Spec => []BusyMeansWaiting
<1>1. PageInv => BusyMeansWaiting
  BY DEF PageInv, SlotsInv, PostsInv, OneAwaited, Awaited, BusyMeansWaiting
<1> QED
  BY <1>1, PageHolds, PTL

-----------------------------------------------------------------------------
(* The questions *)

\* Each stored question says something, so that the reader drops none.
Worded(event) == \A q \in AskedBy(event) : event.questions[q].label # Unworded

\* What the drawer holds was drawn, and does not bring back what is gone.
NoReturn ==
  /\ AskedBy(asked) \subseteq drawn
  /\ AskedBy(draft.event) \subseteq drawn
  /\ AskedBy(shown.event) \subseteq drawn
  /\ AskedBy(shown.event) \cap AskedBy(draft.event) \subseteq AskedBy(asked)

\* A question of the page that is still asked is asked in the same words.
SameWords ==
  \A q \in AskedBy(shown.event) \cap AskedBy(asked) :
    q \in reworded \/ asked.questions[q].label = shown.event.questions[q].label

\* Until the event type is saved again the page shows what is stored.
ShownIsAsked == shown.state # "loading" /\ ~resaved => shown.event = asked

\* What is on its way was let through by the browser, for the page that waits.
PostedAllowed ==
  posted.state = "sent" =>
    /\ shown.state = "loaded"
    /\ \A q \in QuestionIds :
         /\ q \notin AskedBy(shown.event) => posted.form.answers[q] = "none"
         /\ q \in AskedBy(shown.event) /\ shown.event.questions[q].required
              => ~Unanswered(posted.form.answers[q])
    /\ shown.event.calls => posted.form.phone # "none"

\* The page that booked is left.
BookedPageLeft ==
  /\ booking.made => shown.state = "left"
  /\ ~booking.made => \A q \in QuestionIds : booking.answers[q] = "none"

QuestionsInv ==
  /\ QuestionsTypeOK
  /\ Worded(asked) /\ kept = asked
  /\ NoReturn /\ SameWords /\ ShownIsAsked /\ PostedAllowed /\ BookedPageLeft
  /\ AnswersAsAsked /\ RefusedOnlyIfEdited

-----------------------------------------------------------------------------
(* The operators *)

LEMMA ParsedWorded ==
  ASSUME NEW event, Worded(event)
  PROVE  Parsed(event) = event
BY DEF Parsed, Worded

LEMMA BlankTyped == Blank \in EventForm /\ AskedBy(Blank) = {}
BY DEF Blank, EventForm, NoQuestion, Question, AskedBy

LEMMA NoFormTyped == NoForm \in Form
BY DEF NoForm, Form, Values

LEMMA NotPostedTyped == NotPosted \in Posted
BY NoFormTyped DEF NotPosted, Posted

LEMMA NotMadeTyped == NotMade \in Booking
BY DEF NotMade, Booking, NoForm, Values

\* A question set in a form gives a form.
LEMMA SetQuestion ==
  ASSUME NEW event \in EventForm, NEW q \in QuestionIds, NEW question \in Question
  PROVE  /\ [event EXCEPT !.questions[q] = question] \in EventForm
         /\ [event EXCEPT !.questions[q] = question].questions
              = [event.questions EXCEPT ![q] = question]
BY DEF EventForm

LEMMA NoQuestionTyped == NoQuestion \in Question
BY DEF NoQuestion, Question

LEMMA QuestionsStart == QuestionsInit => QuestionsInv
<1> SUFFICES ASSUME QuestionsInit PROVE QuestionsInv
  OBVIOUS
<1> USE DEF QuestionsInit
<1>1. PICK calls \in BOOLEAN, old \in SUBSET QuestionIds, label \in Wordings :
        \E required \in [old -> BOOLEAN] :
          /\ asked = [questions |-> [q \in QuestionIds |->
                        IF q \in old THEN [isAsked |-> TRUE, label |-> label,
                                           required |-> required[q]]
                                     ELSE NoQuestion],
                      calls |-> calls]
          /\ drawn = old
  OBVIOUS
<1>2. PICK required \in [old -> BOOLEAN] :
          /\ asked = [questions |-> [q \in QuestionIds |->
                        IF q \in old THEN [isAsked |-> TRUE, label |-> label,
                                           required |-> required[q]]
                                     ELSE NoQuestion],
                      calls |-> calls]
          /\ drawn = old
  BY <1>1
<1> DEFINE question(q) == IF q \in old THEN [isAsked |-> TRUE, label |-> label,
                                             required |-> required[q]]
                                       ELSE NoQuestion
<1>3. \A q \in QuestionIds : question(q) \in Question
  BY NoQuestionTyped DEF Question
<1>4. asked \in EventForm
  BY <1>2, <1>3 DEF EventForm
<1>5. AskedBy(asked) = old /\ \A q \in old : asked.questions[q].label = label
  BY <1>2 DEF AskedBy, NoQuestion
<1>6. Worded(asked)
  BY <1>5, WordingAssumption DEF Worded
<1>7. QuestionsTypeOK
  <2>1. draft \in Draft /\ shown \in Page
    BY BlankTyped DEF Draft, Page
  <2>2. edits \in 0..MaxEdits
    BY EditsAssumption
  <2> QED
    BY <1>2, <1>4, <2>1, <2>2, NotPostedTyped, NotMadeTyped DEF QuestionsTypeOK
<1>8. NoReturn /\ SameWords
  BY <1>2, <1>5, BlankTyped DEF NoReturn, SameWords
<1>9. ShownIsAsked /\ PostedAllowed /\ BookedPageLeft /\ AnswersAsAsked /\ RefusedOnlyIfEdited
  BY DEF ShownIsAsked, PostedAllowed, BookedPageLeft, AnswersAsAsked, RefusedOnlyIfEdited,
         NotPosted, NotMade, NoForm
<1> QED
  BY <1>6, <1>7, <1>8, <1>9 DEF QuestionsInv

-----------------------------------------------------------------------------
(* The host *)

\* The drawer alone changes nothing that matters before it saves.
LEMMA DraftStep ==
  ASSUME QuestionsInv,
         UNCHANGED <<kinds, asked, kept, attendee, since>>,
         draft' \in Draft, edits' \in 0..MaxEdits,
         drawn \subseteq drawn', drawn' \subseteq QuestionIds,
         AskedBy(draft'.event) \subseteq drawn',
         AskedBy(shown.event) \cap AskedBy(draft'.event) \subseteq AskedBy(asked)
  PROVE  QuestionsInv'
<1> USE DEF QuestionsInv, attendee, since
<1>1. QuestionsTypeOK'
  BY DEF QuestionsTypeOK
<1>2. Worded(asked)' /\ (kept = asked)'
  BY DEF Worded, AskedBy
<1>3. AskedBy(asked)' = AskedBy(asked) /\ AskedBy(shown.event)' = AskedBy(shown.event)
      /\ AskedBy(draft.event)' = AskedBy(draft'.event)
  BY DEF AskedBy
<1>4. NoReturn'
  BY <1>3 DEF NoReturn
<1>5. SameWords'
  BY <1>3 DEF SameWords
<1>6. PostedAllowed'
  BY <1>3 DEF PostedAllowed
<1>7. ShownIsAsked' /\ BookedPageLeft' /\ AnswersAsAsked' /\ RefusedOnlyIfEdited'
  BY DEF ShownIsAsked, BookedPageLeft, AnswersAsAsked, RefusedOnlyIfEdited
<1> QED
  BY <1>1, <1>2, <1>4, <1>5, <1>6, <1>7

LEMMA OpenDraftStep == QuestionsInv /\ OpenDraft => QuestionsInv'
<1> SUFFICES ASSUME QuestionsInv, OpenDraft PROVE QuestionsInv'
  OBVIOUS
<1>1. Parsed(asked) = asked
  BY ParsedWorded DEF QuestionsInv
<1>2. draft' = [state |-> "open", event |-> asked] /\ AskedBy(draft'.event) = AskedBy(asked)
  BY <1>1 DEF OpenDraft
<1>3. draft' \in Draft
  BY <1>2 DEF QuestionsInv, QuestionsTypeOK, Draft
<1> QED
  BY <1>2, <1>3, DraftStep DEF OpenDraft, QuestionsInv, QuestionsTypeOK, NoReturn

LEMMA CloseDraftStep == QuestionsInv /\ CloseDraft => QuestionsInv'
<1> SUFFICES ASSUME QuestionsInv, CloseDraft PROVE QuestionsInv'
  OBVIOUS
<1>1. draft' \in Draft /\ AskedBy(draft'.event) = {}
  BY BlankTyped DEF CloseDraft, Draft
<1> QED
  BY <1>1, DraftStep DEF CloseDraft, QuestionsInv, QuestionsTypeOK

\* An edit: the form keeps its type and asks what it asked, and perhaps what was
\* just drawn.
LEMMA EditStep ==
  ASSUME QuestionsInv, NEW event \in EventForm, Edit(event),
         drawn \subseteq drawn', drawn' \subseteq QuestionIds,
         AskedBy(event) \subseteq AskedBy(draft.event) \cup (drawn' \ drawn)
  PROVE  QuestionsInv'
<1>1. draft' = [state |-> "open", event |-> event]
  BY DEF Edit, QuestionsInv, QuestionsTypeOK, Draft
<1>2. draft' \in Draft /\ AskedBy(draft'.event) = AskedBy(event)
  BY <1>1 DEF Draft
<1>3. edits' \in 0..MaxEdits
  BY EditsAssumption DEF Edit, QuestionsInv, QuestionsTypeOK
<1>4. AskedBy(event) \subseteq drawn' /\ AskedBy(shown.event) \cap AskedBy(event) \subseteq AskedBy(asked)
  BY DEF QuestionsInv, NoReturn
<1> QED
  BY <1>2, <1>3, <1>4, DraftStep DEF Edit

LEMMA DraftEventTyped == QuestionsInv => draft.event \in EventForm
BY DEF QuestionsInv, QuestionsTypeOK, Draft

LEMMA AddStep ==
  ASSUME QuestionsInv, NEW q \in QuestionIds, NEW label \in Wordings \cup {Unworded},
         HandleAddQuestion(q, label)
  PROVE  QuestionsInv'
<1> DEFINE question == [isAsked |-> TRUE, label |-> label, required |-> FALSE]
           event == [draft.event EXCEPT !.questions[q] = question]
<1>1. question \in Question
  BY DEF Question
<1>2. event \in EventForm /\ event.questions = [draft.event.questions EXCEPT ![q] = question]
  BY <1>1, DraftEventTyped, SetQuestion
<1>3. AskedBy(event) \subseteq AskedBy(draft.event) \cup {q}
  BY <1>2, DraftEventTyped DEF AskedBy, EventForm
<1>4. drawn' = drawn \cup {q} /\ q \notin drawn /\ drawn \subseteq QuestionIds /\ Edit(event)
  BY DEF HandleAddQuestion, Fresh, QuestionsInv, QuestionsTypeOK
<1> HIDE DEF event
<1> QED
  BY <1>2, <1>3, <1>4, EditStep

LEMMA RemoveStep ==
  ASSUME QuestionsInv, NEW q \in QuestionIds, HandleRemoveQuestion(q)
  PROVE  QuestionsInv'
<1> DEFINE event == [draft.event EXCEPT !.questions[q] = NoQuestion]
<1>1. event \in EventForm /\ event.questions = [draft.event.questions EXCEPT ![q] = NoQuestion]
  BY NoQuestionTyped, DraftEventTyped, SetQuestion
<1>2. AskedBy(event) \subseteq AskedBy(draft.event)
  BY <1>1, DraftEventTyped DEF AskedBy, EventForm, NoQuestion
<1>3. Edit(event) /\ drawn' = drawn /\ drawn \subseteq QuestionIds
  BY DEF HandleRemoveQuestion, QuestionsInv, QuestionsTypeOK
<1> HIDE DEF event
<1> QED
  BY <1>1, <1>2, <1>3, EditStep

LEMMA UpdateStep ==
  ASSUME QuestionsInv, NEW q \in QuestionIds, NEW label \in Wordings \cup {Unworded},
         NEW required \in BOOLEAN, HandleUpdateQuestion(q, label, required)
  PROVE  QuestionsInv'
<1> DEFINE question == [isAsked |-> TRUE, label |-> label, required |-> required]
           event == [draft.event EXCEPT !.questions[q] = question]
<1>1. question \in Question
  BY DEF Question
<1>2. draft.event \in EventForm /\ q \in AskedBy(draft.event)
  BY DraftEventTyped DEF HandleUpdateQuestion
<1>3. event \in EventForm /\ event.questions = [draft.event.questions EXCEPT ![q] = question]
  BY <1>1, <1>2, SetQuestion
<1>4. AskedBy(event) \subseteq AskedBy(draft.event)
  BY <1>2, <1>3 DEF AskedBy, EventForm
<1>5. Edit(event) /\ drawn' = drawn /\ drawn \subseteq QuestionIds
  BY DEF HandleUpdateQuestion, QuestionsInv, QuestionsTypeOK
<1> HIDE DEF event
<1> QED
  BY <1>3, <1>4, <1>5, EditStep

LEMMA SetLocationStep == QuestionsInv /\ SetLocationType => QuestionsInv'
<1> SUFFICES ASSUME QuestionsInv, SetLocationType PROVE QuestionsInv'
  OBVIOUS
<1> DEFINE event == [draft.event EXCEPT !.calls = ~draft.event.calls]
<1>1. event \in EventForm /\ event.questions = draft.event.questions
  BY DraftEventTyped DEF EventForm
<1>2. AskedBy(event) = AskedBy(draft.event)
  BY <1>1 DEF AskedBy
<1>3. Edit(event) /\ drawn' = drawn /\ drawn \subseteq QuestionIds
  BY DEF SetLocationType, QuestionsInv, QuestionsTypeOK
<1> HIDE DEF event
<1> QED
  BY <1>1, <1>2, <1>3, EditStep

\* The one step that changes what is stored: a question of the page is stored as
\* it was, is among the reworded, or is gone.
LEMMA SaveStep == QuestionsInv /\ HandleSave => QuestionsInv'
<1> SUFFICES ASSUME QuestionsInv, HandleSave PROVE QuestionsInv'
  OBVIOUS
<1> USE DEF HandleSave, attendee
<1>1. draft' \in Draft /\ AskedBy(draft'.event) = {} /\ asked' = draft.event
  BY BlankTyped DEF Draft
<1>2. RewordedBy(draft.event) \subseteq QuestionIds
  BY DEF RewordedBy, AskedBy
<1>3. QuestionsTypeOK'
  BY <1>1, <1>2, DraftEventTyped DEF QuestionsInv, QuestionsTypeOK
<1>4. Worded(asked)' /\ (kept = asked)'
  BY DEF Reconciled, Worded, AskedBy
<1>5. AskedBy(asked)' = AskedBy(draft.event) /\ AskedBy(shown.event)' = AskedBy(shown.event)
      /\ AskedBy(draft.event)' = {}
  BY <1>1 DEF AskedBy
<1>6. NoReturn'
  BY <1>5 DEF QuestionsInv, NoReturn
<1>7. SameWords'
  <2> SUFFICES ASSUME NEW q \in AskedBy(shown.event) \cap AskedBy(draft.event), q \notin reworded'
               PROVE  asked'.questions[q].label = shown'.event.questions[q].label
    BY <1>5 DEF SameWords
  <2>1. q \in AskedBy(asked)
    BY DEF QuestionsInv, NoReturn
  <2>2. q \notin reworded /\ q \notin RewordedBy(draft.event)
    OBVIOUS
  <2>3. asked.questions[q].label = shown.event.questions[q].label
    BY <2>1, <2>2 DEF QuestionsInv, SameWords
  <2>4. asked.questions[q].label = draft.event.questions[q].label
    BY <2>1, <2>2 DEF RewordedBy, AskedBy
  <2> QED
    BY <2>3, <2>4
<1>8. PostedAllowed'
  BY <1>5 DEF QuestionsInv, PostedAllowed
<1>9. ShownIsAsked' /\ BookedPageLeft' /\ AnswersAsAsked' /\ RefusedOnlyIfEdited'
  BY DEF QuestionsInv, ShownIsAsked, BookedPageLeft, AnswersAsAsked, RefusedOnlyIfEdited
<1> QED
  BY <1>3, <1>4, <1>6, <1>7, <1>8, <1>9 DEF QuestionsInv

-----------------------------------------------------------------------------
(* The attendee's page *)

LEMMA LoadedStep == QuestionsInv /\ EventLoaded => QuestionsInv'
<1> SUFFICES ASSUME QuestionsInv, EventLoaded PROVE QuestionsInv'
  OBVIOUS
<1> USE DEF EventLoaded
<1>1. shown' = [state |-> "loaded", event |-> asked]
  BY ParsedWorded DEF QuestionsInv
<1>2. shown' \in Page
  BY <1>1 DEF QuestionsInv, QuestionsTypeOK, Page
<1>3. QuestionsTypeOK'
  BY <1>2 DEF QuestionsInv, QuestionsTypeOK
<1>4. AskedBy(shown.event)' = AskedBy(asked) /\ AskedBy(asked)' = AskedBy(asked)
      /\ AskedBy(draft.event)' = AskedBy(draft.event)
  BY <1>1 DEF AskedBy
<1>5. NoReturn' /\ SameWords'
  BY <1>1, <1>4 DEF QuestionsInv, NoReturn, SameWords
<1>6. posted.state # "sent" /\ ~booking.made
  BY DEF QuestionsInv, PostedAllowed, BookedPageLeft
<1>7. PostedAllowed' /\ BookedPageLeft' /\ AnswersAsAsked'
  BY <1>6 DEF QuestionsInv, PostedAllowed, BookedPageLeft, AnswersAsAsked
<1>8. ShownIsAsked' /\ RefusedOnlyIfEdited' /\ Worded(asked)' /\ (kept = asked)'
  BY <1>1 DEF QuestionsInv, ShownIsAsked, RefusedOnlyIfEdited, Worded, AskedBy
<1> QED
  BY <1>3, <1>5, <1>7, <1>8 DEF QuestionsInv

LEMMA ReloadStep == QuestionsInv /\ ReloadPage => QuestionsInv'
<1> SUFFICES ASSUME QuestionsInv, ReloadPage PROVE QuestionsInv'
  OBVIOUS
<1> USE DEF ReloadPage, since
<1>1. shown' \in Page /\ AskedBy(shown'.event) = {}
  BY BlankTyped DEF Page
<1>2. QuestionsTypeOK'
  BY <1>1, NotPostedTyped DEF QuestionsInv, QuestionsTypeOK
<1>3. AskedBy(shown.event)' = {} /\ AskedBy(asked)' = AskedBy(asked)
      /\ AskedBy(draft.event)' = AskedBy(draft.event)
  BY <1>1 DEF AskedBy
<1>4. NoReturn' /\ SameWords'
  BY <1>3 DEF QuestionsInv, NoReturn, SameWords
<1>5. ~booking.made /\ posted'.state # "sent"
  BY DEF QuestionsInv, BookedPageLeft, NotPosted
<1>6. PostedAllowed' /\ BookedPageLeft' /\ AnswersAsAsked'
  BY <1>5 DEF QuestionsInv, PostedAllowed, BookedPageLeft, AnswersAsAsked
<1>7. ShownIsAsked' /\ RefusedOnlyIfEdited' /\ Worded(asked)' /\ (kept = asked)'
  BY DEF QuestionsInv, ShownIsAsked, RefusedOnlyIfEdited, Worded, AskedBy
<1> QED
  BY <1>2, <1>4, <1>6, <1>7 DEF QuestionsInv

LEMMA FormSubmitStep ==
  ASSUME QuestionsInv, NEW form \in Form, HandleSubmit(form)
  PROVE  QuestionsInv'
<1> USE DEF HandleSubmit, since
<1>1. posted' \in Posted
  BY DEF Posted
<1>2. QuestionsTypeOK'
  BY <1>1 DEF QuestionsInv, QuestionsTypeOK
<1>3. PostedAllowed'
  BY DEF PostedAllowed, BrowserAllows, AskedBy
<1>4. NoReturn' /\ SameWords' /\ Worded(asked)' /\ (kept = asked)'
  BY DEF QuestionsInv, NoReturn, SameWords, Worded, AskedBy
<1>5. ShownIsAsked' /\ BookedPageLeft' /\ AnswersAsAsked' /\ RefusedOnlyIfEdited'
  BY DEF QuestionsInv, ShownIsAsked, BookedPageLeft, AnswersAsAsked, RefusedOnlyIfEdited
<1> QED
  BY <1>2, <1>3, <1>4, <1>5 DEF QuestionsInv

-----------------------------------------------------------------------------
(* createBooking *)

LEMMA FormRefuseStep == QuestionsInv /\ RefuseForm => QuestionsInv'
<1> SUFFICES ASSUME QuestionsInv, RefuseForm PROVE QuestionsInv'
  OBVIOUS
<1> USE DEF RefuseForm, since
<1>1. QuestionsTypeOK'
  BY NotPostedTyped DEF QuestionsInv, QuestionsTypeOK
<1>2. SoundForm => resaved
  <2> SUFFICES ASSUME SoundForm, ~resaved PROVE FALSE
    OBVIOUS
  <2>1. shown.event = asked /\ Parsed(asked) = asked
    BY ParsedWorded DEF QuestionsInv, ShownIsAsked, PostedAllowed
  <2>2. ~(asked.calls /\ posted.form.phone # "given")
    <3>1. posted.form.phone \in {"none", "invalid", "given"}
      BY DEF QuestionsInv, QuestionsTypeOK, Posted, Form
    <3> QED
      BY <2>1, <3>1 DEF QuestionsInv, PostedAllowed, SoundForm
  <2>3. PICK q \in QuestionIds :
          IF asked.questions[q].isAsked
          THEN Missing(asked.questions[q], posted.form.answers[q]) \/ posted.form.answers[q] = "long"
          ELSE posted.form.answers[q] # "none"
    BY <2>1, <2>2 DEF Rejected
  <2>4. posted.form.answers[q] \notin {"blank", "long"}
    BY DEF SoundForm
  <2> QED
    BY <2>1, <2>3, <2>4 DEF QuestionsInv, PostedAllowed, AskedBy, Missing
<1>3. RefusedOnlyIfEdited'
  BY <1>2 DEF QuestionsInv, RefusedOnlyIfEdited
<1>4. PostedAllowed'
  BY DEF PostedAllowed, NotPosted
<1>5. NoReturn' /\ SameWords' /\ Worded(asked)' /\ (kept = asked)'
  BY DEF QuestionsInv, NoReturn, SameWords, Worded, AskedBy
<1>6. ShownIsAsked' /\ BookedPageLeft' /\ AnswersAsAsked'
  BY DEF QuestionsInv, ShownIsAsked, BookedPageLeft, AnswersAsAsked
<1> QED
  BY <1>1, <1>3, <1>4, <1>5, <1>6 DEF QuestionsInv

LEMMA AcceptStep == QuestionsInv /\ AcceptForm => QuestionsInv'
<1> SUFFICES ASSUME QuestionsInv, AcceptForm PROVE QuestionsInv'
  OBVIOUS
<1> USE DEF AcceptForm, since
<1>1. shown' = [state |-> "left", event |-> shown.event] /\ shown' \in Page
  BY DEF QuestionsInv, QuestionsTypeOK, Page
<1>2. booking' \in Booking
  <2>1. posted.form.answers \in [QuestionIds -> Values]
    BY DEF QuestionsInv, QuestionsTypeOK, Posted, Form
  <2>2. \A q \in QuestionIds : asked.questions[q].label \in Wordings \cup {Unworded}
    BY DEF QuestionsInv, QuestionsTypeOK, EventForm, Question
  <2> QED
    BY <2>1, <2>2 DEF Booking, Values
<1>3. QuestionsTypeOK'
  BY <1>1, <1>2, NotPostedTyped DEF QuestionsInv, QuestionsTypeOK
<1>4. AnswersAsAsked'
  <2> SUFFICES ASSUME NEW q \in QuestionIds, booking'.answers[q] # "none", q \notin reworded
               PROVE  booking'.labels[q] = shown.event.questions[q].label
    BY <1>1 DEF AnswersAsAsked
  <2>1. Stored(q, posted.form.answers[q]) /\ booking'.labels[q] = asked.questions[q].label
    OBVIOUS
  <2>2. posted.form.answers[q] # "none"
    BY <2>1 DEF Stored
  <2>3. q \in AskedBy(shown.event)
    BY <2>2 DEF QuestionsInv, PostedAllowed
  <2>4. q \in AskedBy(asked)
    BY <2>2, ParsedWorded DEF QuestionsInv, Rejected, AskedBy
  <2> QED
    BY <2>1, <2>3, <2>4 DEF QuestionsInv, SameWords
<1>5. PostedAllowed' /\ BookedPageLeft'
  BY <1>1 DEF PostedAllowed, BookedPageLeft, NotPosted
<1>6. NoReturn' /\ SameWords' /\ Worded(asked)' /\ (kept = asked)'
  BY <1>1 DEF QuestionsInv, NoReturn, SameWords, Worded, AskedBy
<1>7. ShownIsAsked' /\ RefusedOnlyIfEdited'
  BY <1>1 DEF QuestionsInv, ShownIsAsked, PostedAllowed, RefusedOnlyIfEdited
<1> QED
  BY <1>3, <1>4, <1>5, <1>6, <1>7 DEF QuestionsInv

-----------------------------------------------------------------------------
LEMMA QuestionsStutter == QuestionsInv /\ UNCHANGED questionVars => QuestionsInv'
<1> SUFFICES ASSUME QuestionsInv, UNCHANGED questionVars PROVE QuestionsInv'
  OBVIOUS
<1>1. draft' \in Draft /\ edits' \in 0..MaxEdits
  BY DEF questionVars, QuestionsInv, QuestionsTypeOK
<1>2. AskedBy(draft'.event) = AskedBy(draft.event)
  BY DEF questionVars
<1> QED
  BY <1>1, <1>2, DraftStep DEF questionVars, attendee, since, QuestionsInv, QuestionsTypeOK, NoReturn

LEMMA QuestionsSteps == QuestionsInv /\ [QuestionsNext]_questionVars => QuestionsInv'
<1> SUFFICES ASSUME QuestionsInv, QuestionsNext PROVE QuestionsInv'
  BY QuestionsStutter
<1>1. CASE OpenDraft \/ CloseDraft \/ SetLocationType \/ HandleSave
  BY <1>1, OpenDraftStep, CloseDraftStep, SetLocationStep, SaveStep
<1>2. CASE EventLoaded \/ ReloadPage \/ RefuseForm \/ AcceptForm
  BY <1>2, LoadedStep, ReloadStep, FormRefuseStep, AcceptStep
<1>3. CASE \E form \in Form : HandleSubmit(form)
  BY <1>3, FormSubmitStep
<1>4. CASE \E q \in QuestionIds : HandleRemoveQuestion(q)
  BY <1>4, RemoveStep
<1>5. CASE \E q \in QuestionIds, label \in Wordings \cup {Unworded} : HandleAddQuestion(q, label)
  BY <1>5, AddStep
<1>6. CASE \E q \in QuestionIds, label \in Wordings \cup {Unworded}, required \in BOOLEAN :
             HandleUpdateQuestion(q, label, required)
  BY <1>6, UpdateStep
<1> QED
  BY <1>1, <1>2, <1>3, <1>4, <1>5, <1>6 DEF QuestionsNext

LEMMA QuestionsHold == QuestionsSpec => []QuestionsInv
BY QuestionsStart, QuestionsSteps, PTL DEF QuestionsSpec

\* Every variable of the questions keeps its type.
THEOREM QuestionsTyped == QuestionsSpec => []QuestionsTypeOK
BY QuestionsHold, PTL DEF QuestionsInv

\* What the host saved without an error is what the API asks: parsing what
\* reconcileCustomQuestions stored loses nothing.
THEOREM SavedQuestionsSurvive == QuestionsSpec => []QuestionsSurvive
<1>1. QuestionsInv => QuestionsSurvive
  BY ParsedWorded DEF QuestionsInv, QuestionsSurvive
<1> QED
  BY <1>1, QuestionsHold, PTL

\* An answer is kept under the wording it was given to, however often the host
\* removes, adds and saves questions between the page and the booking.
THEOREM AnswersKeepTheirQuestion == QuestionsSpec => []AnswersAsAsked
BY QuestionsHold, PTL DEF QuestionsInv

\* A complete form is refused only after the event type was saved anew.
THEOREM OnlyStalePagesRefused == QuestionsSpec => []RefusedOnlyIfEdited
BY QuestionsHold, PTL DEF QuestionsInv

-----------------------------------------------------------------------------
(* The whole page *)

\* The two parts of the page, whichever of them goes.
PartsInv == PageInv /\ QuestionsInv

LEMMA PartsStart == PageInit => PartsInv
BY PageStart, QuestionsStart DEF PageInit, PartsInv

LEMMA PartsSteps == PartsInv /\ [PageNext]_<<part, vars, questionVars>> => PartsInv'
<1> SUFFICES ASSUME PartsInv, [Next]_vars, [QuestionsNext]_questionVars PROVE PartsInv'
  BY DEF PageNext
<1> QED
  BY PageSteps, QuestionsSteps DEF PartsInv

\* Every variable of the page keeps its type, whichever part goes.
THEOREM PageTyped == PageSpec => []PageTypeOK
<1>1. PageInit => PartsInv
  BY PartsStart
<1>2. PartsInv /\ [PageNext]_<<part, vars, questionVars>> => PartsInv'
  BY PartsSteps
<1>3. PartsInv => PageTypeOK
  BY PageTypes DEF PartsInv, QuestionsInv, PageTypeOK
<1> QED
  BY <1>1, <1>2, <1>3, PTL DEF PageSpec
=============================================================================
