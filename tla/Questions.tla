------------------------------ MODULE Questions ------------------------------
(***************************************************************************)
(* The custom questions of one event type (custom-questions-parser.ts):    *)
(* the host's drawer writes them (event-type-drawer.tsx), the booking page *)
(* asks them as they were when it was opened (page.tsx), and createBooking *)
(* reads the answers against them as they are by then.                     *)
(*                                                                         *)
(* A question keeps its id, which fixes its type; ids are drawn at random, *)
(* so that one that is gone does not return.  A text is kept as what the   *)
(* parser tells apart.  The attendee's phone number is checked beside the  *)
(* answers.  The drawer's form is its event type's: see EventTypeDrawer.   *)
(***************************************************************************)
EXTENDS Naturals, FiniteSets

CONSTANTS
  QuestionIds,     \* the ids of questions, those not yet drawn included
  Wordings,        \* what a question can say
  Unworded,        \* the label of a question just added: ""
  MaxEdits         \* bound: how many edits are made in the drawer

ASSUME WordingAssumption == Unworded \notin Wordings
ASSUME EditsAssumption == MaxEdits \in Nat

VARIABLES
  kinds,           \* the type of each question
  asked,           \* the stored event type: its questions, and who calls
  drawn,           \* the ids that were used
  draft,           \* the form of the drawer
  edits,           \* how many edits were made in it
  kept,            \* what the host saved last without an error
  shown,           \* the event type as the booking page loaded it
  posted,          \* the POST that is on its way
  booking,         \* the booking it made
  reworded,        \* the questions whose wording was changed since the page was loaded
  resaved,         \* the event type was saved since
  wronged          \* a form was refused though nothing was saved since

questionVars == <<kinds, asked, drawn, draft, edits, kept, shown, posted, booking,
                  reworded, resaved, wronged>>

QuestionKinds == {"TEXT", "SELECT", "CHECKBOX"}
Values == {"none", "empty", "blank", "long", "given"}

Question == [isAsked : BOOLEAN, label : Wordings \cup {Unworded}, required : BOOLEAN]
NoQuestion == [isAsked |-> FALSE, label |-> Unworded, required |-> FALSE]

\* The questions, and whether the host calls the attendee: HOST_CALLS_ATTENDEE.
EventForm == [questions : [QuestionIds -> Question], calls : BOOLEAN]
Blank == [questions |-> [q \in QuestionIds |-> NoQuestion], calls |-> FALSE]

Draft == [state : {"closed", "open"}, event : EventForm]
Page == [state : {"loading", "loaded", "left"}, event : EventForm]
Form == [answers : [QuestionIds -> Values], phone : {"none", "invalid", "given"}]
Posted == [state : {"none", "sent"}, form : Form]
Booking == [made : BOOLEAN, answers : [QuestionIds -> Values],
            labels : [QuestionIds -> Wordings \cup {Unworded}]]

NoForm == [answers |-> [q \in QuestionIds |-> "none"], phone |-> "none"]
NotPosted == [state |-> "none", form |-> NoForm]
NotMade == [made |-> FALSE, answers |-> NoForm.answers,
            labels |-> [q \in QuestionIds |-> Unworded]]

AskedBy(event) == {q \in QuestionIds : event.questions[q].isAsked}

\* Questions of any type, all with the same wording: some may have been added
\* to the event type over the API, which offers the one the drawer does not.
QuestionsInit ==
  /\ kinds \in [QuestionIds -> QuestionKinds]
  /\ \E calls \in BOOLEAN, old \in SUBSET QuestionIds, label \in Wordings :
       \E required \in [old -> BOOLEAN] :
         /\ asked = [questions |-> [q \in QuestionIds |->
                       IF q \in old THEN [isAsked |-> TRUE, label |-> label,
                                          required |-> required[q]]
                                    ELSE NoQuestion],
                     calls |-> calls]
         /\ drawn = old
  /\ draft = [state |-> "closed", event |-> Blank] /\ edits = 0
  /\ kept = asked
  /\ shown = [state |-> "loading", event |-> Blank]
  /\ posted = NotPosted /\ booking = NotMade
  /\ reworded = {} /\ resaved = FALSE /\ wronged = FALSE

attendee == <<shown, posted, booking, wronged>>
since == <<reworded, resaved>>

-----------------------------------------------------------------------------
(* The host *)

\* The API answers with a list that has the shape of one, or with none at all.
Parsed(event) ==
  IF \A q \in AskedBy(event) : event.questions[q].label # Unworded
  THEN event
  ELSE [event EXCEPT !.questions = Blank.questions]

OpenDraft ==
  /\ draft.state = "closed" /\ edits < MaxEdits
  /\ draft' = [state |-> "open", event |-> Parsed(asked)]
  /\ UNCHANGED <<kinds, asked, drawn, edits, kept, attendee, since>>

Edit(event) ==
  /\ draft.state = "open" /\ edits < MaxEdits
  /\ draft' = [draft EXCEPT !.event = event]
  /\ edits' = edits + 1
  /\ UNCHANGED <<kinds, asked, kept, attendee, since>>

\* Mutant of Fresh: a question is numbered by its place in the list.
Unused(q) == ~draft.event.questions[q].isAsked

\* crypto.randomUUID().
Fresh(q) == q \notin drawn

\* A checkbox begins with a wording, a text without.
HandleAddQuestion(q, label) ==
  /\ Fresh(q)
  /\ kinds[q] \in {"TEXT", "CHECKBOX"}
  /\ (kinds[q] = "CHECKBOX") = (label # Unworded)
  /\ Edit([draft.event EXCEPT !.questions[q] =
             [isAsked |-> TRUE, label |-> label, required |-> FALSE]])
  /\ drawn' = drawn \cup {q}

HandleRemoveQuestion(q) ==
  /\ q \in AskedBy(draft.event)
  /\ Edit([draft.event EXCEPT !.questions[q] = NoQuestion])
  /\ UNCHANGED drawn

HandleUpdateQuestion(q, label, required) ==
  /\ q \in AskedBy(draft.event)
  /\ Edit([draft.event EXCEPT !.questions[q] =
             [isAsked |-> TRUE, label |-> label, required |-> required]])
  /\ UNCHANGED drawn

SetLocationType ==
  /\ Edit([draft.event EXCEPT !.calls = ~draft.event.calls])
  /\ UNCHANGED drawn

\* Mutant of Reconciled: the list is stored as it comes.
AsItComes(event) == TRUE

\* The body's schema and reconcileCustomQuestions refuse a question that says
\* nothing.
Reconciled(event) == \A q \in AskedBy(event) : event.questions[q].label # Unworded

\* Questions that were asked and still are, in other words.
RewordedBy(event) ==
  {q \in AskedBy(asked) \cap AskedBy(event) :
     asked.questions[q].label # event.questions[q].label}

\* handleSave: the PATCH writes the whole list.
HandleSave ==
  /\ draft.state = "open"
  /\ Reconciled(draft.event)
  /\ asked' = draft.event /\ kept' = draft.event
  /\ draft' = [state |-> "closed", event |-> Blank]
  /\ reworded' = reworded \cup RewordedBy(draft.event) /\ resaved' = TRUE
  /\ UNCHANGED <<kinds, drawn, edits, attendee>>

\* An error keeps the drawer open: nothing changes until it is edited or closed.
CloseDraft ==
  /\ draft.state = "open"
  /\ draft' = [state |-> "closed", event |-> Blank]
  /\ UNCHANGED <<kinds, asked, drawn, edits, kept, attendee, since>>

-----------------------------------------------------------------------------
(* The attendee's page *)

\* loadEvent, once: the page does not look again.
EventLoaded ==
  /\ shown.state = "loading"
  /\ shown' = [state |-> "loaded", event |-> Parsed(asked)]
  /\ reworded' = {} /\ resaved' = FALSE
  /\ UNCHANGED <<kinds, asked, drawn, draft, edits, kept, posted, booking, wronged>>

\* Reloading the page forgets what was filled in.
ReloadPage ==
  /\ shown.state = "loaded" /\ posted = NotPosted
  /\ shown' = [state |-> "loading", event |-> Blank]
  /\ posted' = NotPosted
  /\ UNCHANGED <<kinds, asked, drawn, draft, edits, kept, booking, since, wronged>>

\* What setCustomAnswer leaves of a question's input; "none" while it is not touched.
Inputs(kind) ==
  CASE kind = "TEXT" -> {"none", "empty", "blank", "long", "given"}
    [] kind \in {"SELECT", "CHECKBOX"} -> {"none", "empty", "given"}

Unanswered(value) == value \in {"none", "empty"}

\* The browser wants what is required of the questions it shows: a choice, a
\* tick, a text of any kind.
BrowserAllows(form) ==
  /\ \A q \in AskedBy(shown.event) :
       shown.event.questions[q].required => ~Unanswered(form.answers[q])
  /\ shown.event.calls => form.phone # "none"

\* What was typed matters when it is sent: the form has an input for what the
\* page asks, and no other.
HandleSubmit(form) ==
  /\ shown.state = "loaded" /\ posted = NotPosted
  /\ \A q \in QuestionIds :
       form.answers[q] \in IF q \in AskedBy(shown.event) THEN Inputs(kinds[q]) ELSE {"none"}
  /\ form.phone # "none" => shown.event.calls
  /\ BrowserAllows(form)
  /\ posted' = [state |-> "sent", form |-> form]
  /\ UNCHANGED <<kinds, asked, drawn, draft, edits, kept, shown, booking, since, wronged>>

-----------------------------------------------------------------------------
(* createBooking and validateAndBuildCustomResponses *)

\* Mutant of Missing: what is not answered is missing.
AlwaysMissing(question, value) == Unanswered(value)

\* Nothing was chosen, ticked or typed where it has to be.
Missing(question, value) ==
  question.required /\ (Unanswered(value) \/ value = "blank")

\* An answer to a question that is not asked, none to one that is, or one that
\* is too long.
Rejected(answers) ==
  \E q \in QuestionIds :
    LET question == Parsed(asked).questions[q] IN
    IF question.isAsked THEN Missing(question, answers[q]) \/ answers[q] = "long"
                        ELSE answers[q] # "none"

\* A text left empty is not stored, a box left without its tick is.
Stored(q, value) ==
  \/ value \in {"given", "blank"}
  \/ value = "empty" /\ kinds[q] = "CHECKBOX"

\* The page's form is complete, and a text is neither blank nor too long.
SoundForm ==
  /\ \A q \in QuestionIds : posted.form.answers[q] \notin {"blank", "long"}
  /\ posted.form.phone # "invalid"

\* The event type is read once.  The attendee may correct the form, not what
\* the page asks.
RefuseForm ==
  /\ posted.state = "sent"
  /\ Rejected(posted.form.answers) \/ (asked.calls /\ posted.form.phone # "given")
  /\ posted' = NotPosted
  /\ wronged' = (wronged \/ (SoundForm /\ ~resaved))
  /\ UNCHANGED <<kinds, asked, drawn, draft, edits, kept, shown, booking, since>>

\* The answers are stored with the wording of the question; the confirmation
\* page is the next one.
AcceptForm ==
  /\ posted.state = "sent"
  /\ ~Rejected(posted.form.answers) /\ (asked.calls => posted.form.phone = "given")
  /\ booking' = [made |-> TRUE,
                 answers |-> [q \in QuestionIds |->
                   IF Stored(q, posted.form.answers[q]) THEN posted.form.answers[q] ELSE "none"],
                 labels |-> [q \in QuestionIds |->
                   IF Stored(q, posted.form.answers[q]) THEN asked.questions[q].label
                                                        ELSE Unworded]]
  /\ posted' = NotPosted
  /\ shown' = [shown EXCEPT !.state = "left"]
  /\ UNCHANGED <<kinds, asked, drawn, draft, edits, kept, since, wronged>>

QuestionsNext ==
  \/ OpenDraft \/ SetLocationType \/ HandleSave \/ CloseDraft
  \/ EventLoaded \/ ReloadPage \/ RefuseForm \/ AcceptForm
  \/ \E form \in Form : HandleSubmit(form)
  \/ \E q \in QuestionIds :
       \/ HandleRemoveQuestion(q)
       \/ \E label \in Wordings \cup {Unworded} :
            \/ HandleAddQuestion(q, label)
            \/ \E required \in BOOLEAN : HandleUpdateQuestion(q, label, required)

QuestionsSpec == QuestionsInit /\ [][QuestionsNext]_questionVars

-----------------------------------------------------------------------------
QuestionsTypeOK ==
  /\ kinds \in [QuestionIds -> QuestionKinds]
  /\ asked \in EventForm /\ kept \in EventForm
  /\ drawn \in SUBSET QuestionIds
  /\ draft \in Draft /\ edits \in 0..MaxEdits
  /\ shown \in Page /\ posted \in Posted /\ booking \in Booking
  /\ reworded \in SUBSET QuestionIds /\ resaved \in BOOLEAN /\ wronged \in BOOLEAN

\* What the host saved without an error is what the API asks from then on: the
\* reader drops the whole list over one question it does not take, so that the
\* writer has to refuse each such question.
QuestionsSurvive == Parsed(asked) = kept

\* An answer is kept under the wording it was given to, whatever the host
\* removed, added or saved meanwhile and whatever he does later, unless he
\* reworded that very question between the page and the booking.
AnswersAsAsked ==
  \A q \in QuestionIds :
    booking.answers[q] # "none" =>
      \/ q \in reworded
      \/ booking.labels[q] = shown.event.questions[q].label

\* A form that the browser lets through, whose texts are neither blank nor too
\* long and whose phone number is one, is refused only when the event type was
\* saved since the page was loaded.
RefusedOnlyIfEdited == ~wronged
=============================================================================
