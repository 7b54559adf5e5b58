---------------------------- MODULE Availability ----------------------------
(***************************************************************************)
(* The default schedule of one host (schedules.service.ts) and the editors *)
(* that show and save it, one per open tab (availability-editor.tsx).      *)
(*                                                                         *)
(* A week is a set of hours, each of which is a row.  The rows of a        *)
(* schedule, in the table as in a form, are told apart by the week they    *)
(* come from: a whole schedule is the set of one week, and a form that     *)
(* nothing was ever put into is {}.  The zone, the name and the overrides  *)
(* are saved along with the week and are left out.                         *)
(***************************************************************************)
EXTENDS Naturals, FiniteSets

CONSTANTS
  Editors,         \* the tabs with an availability editor
  Hours,           \* the rows of a week
  DefaultWeek,     \* Monday to Friday, 09:00 to 17:00
  ScheduleIds,     \* bound: how many schedules can be created
  NoEditor,
  NoSchedule,
  MaxEdits         \* bound: how often hours are added to or taken out of a form

Weeks == SUBSET Hours

ASSUME DefaultWeekAssumption == DefaultWeek \in Weeks
ASSUME NobodyAssumption == NoEditor \notin Editors /\ NoSchedule \notin ScheduleIds
ASSUME MaxEditsAssumption == MaxEdits \in Nat

VARIABLES
  defaults,        \* the schedules of the host marked as default
  days,            \* the committed rows of a schedule
  holder,          \* whose transaction holds the row of a schedule
  latest,          \* the week of the last PUT that was committed
  editors,         \* the tabs
  requests,        \* the request of a tab that is on its way
  removed,         \* the hours the host took out of a form, in whichever tab
  edits            \* how often a form was edited

scheduleVars == <<defaults, days, holder, latest, editors, requests, removed, edits>>

\* initial: the rows as loaded or saved, {} before the first load.
Editor == [state : {"closed", "loading", "open", "saving"}, initial : SUBSET Weeks,
           form : SUBSET Weeks]

Request == [state : {"idle", "sent", "creating", "found", "locked", "replaced", "committed",
                     "answered", "failed"},
            method : {"GET", "PUT"}, schedule : ScheduleIds \cup {NoSchedule},
            week : SUBSET Weeks, deleted : SUBSET Weeks]

NoRequest == [state |-> "idle", method |-> "GET", schedule |-> NoSchedule, week |-> {},
              deleted |-> {}]

AvailabilityInit ==
  /\ defaults = {} /\ days = [s \in ScheduleIds |-> {}]
  /\ holder = [s \in ScheduleIds |-> NoEditor]
  /\ latest = DefaultWeek
  /\ editors = [e \in Editors |-> [state |-> "closed", initial |-> {}, form |-> {}]]
  /\ requests = [e \in Editors |-> NoRequest]
  /\ removed = {} /\ edits = 0

schedules == <<defaults, days, holder, latest>>

Goes(e, state) == requests' = [requests EXCEPT ![e].state = state]

-----------------------------------------------------------------------------
(* getDefaultSchedule, updateDefaultSchedule *)

\* findFirst has no order: with two default schedules it returns either.
FindDefault(e) ==
  /\ requests[e].state = "sent"
  /\ \/ defaults = {} /\ Goes(e, "creating")
     \/ \E s \in defaults :
          requests' = [requests EXCEPT ![e].state = "found", ![e].schedule = s]
  /\ UNCHANGED <<schedules, editors, removed, edits>>

\* createInitialDefaultSchedule looks at no other request.
CreateDefault(e) ==
  /\ requests[e].state = "creating"
  /\ \E s \in ScheduleIds \ defaults :
       /\ defaults' = defaults \cup {s}
       /\ days' = [days EXCEPT ![s] = {DefaultWeek}]
       /\ requests' = [requests EXCEPT ![e].state = "found", ![e].schedule = s]
  /\ UNCHANGED <<holder, latest, editors, removed, edits>>

\* The rows as they are read: by a GET at once, by a PUT after its commit.
ReadSchedule(e) ==
  /\ requests[e].state = IF requests[e].method = "GET" THEN "found" ELSE "committed"
  /\ requests' = [requests EXCEPT ![e] =
       [NoRequest EXCEPT !.state = "answered", !.week = days[requests[e].schedule]]]
  /\ UNCHANGED <<schedules, editors, removed, edits>>

\* Mutant of RowFree: the name and the zone are not written first.
NeverWaits(s) == TRUE

RowFree(s) == holder[s] = NoEditor

\* The name and the zone, which the editor sends with every week, are written
\* first: the row is locked until the end.
LockSchedule(e) ==
  LET s == requests[e].schedule IN
  /\ requests[e].state = "found" /\ requests[e].method = "PUT"
  /\ RowFree(s)
  /\ holder' = [holder EXCEPT ![s] = e]
  /\ Goes(e, "locked")
  /\ UNCHANGED <<defaults, days, latest, editors, removed, edits>>

\* deleteMany finds the rows committed by now.
DeleteDays(e) ==
  /\ requests[e].state = "locked"
  /\ requests' = [requests EXCEPT ![e].state = "replaced",
                                  ![e].deleted = days[requests[e].schedule]]
  /\ UNCHANGED <<schedules, editors, removed, edits>>

\* createMany, and the commit.
CommitDays(e) ==
  LET request == requests[e]
      s == request.schedule IN
  /\ request.state = "replaced"
  /\ days' = [days EXCEPT ![s] = (days[s] \ request.deleted) \cup request.week]
  /\ \E week \in request.week : latest' = week
  /\ holder' = [holder EXCEPT ![s] = NoEditor]
  /\ Goes(e, "committed")
  /\ UNCHANGED <<defaults, editors, removed, edits>>

\* An error, a time-out or a body that is not valid; a transaction is undone.
RequestFails(e) ==
  /\ requests[e].state \in {"sent", "creating", "found", "locked", "replaced", "committed"}
  /\ requests' = [requests EXCEPT ![e] = [NoRequest EXCEPT !.state = "failed"]]
  /\ holder' = [s \in ScheduleIds |-> IF holder[s] = e THEN NoEditor ELSE holder[s]]
  /\ UNCHANGED <<defaults, days, latest, editors, removed, edits>>

-----------------------------------------------------------------------------
(* The editor *)

Send(e, method, week) ==
  requests' = [requests EXCEPT ![e] = [NoRequest EXCEPT !.state = "sent", !.method = method,
                                                        !.week = week]]

\* fetchSchedule, once; a tab is opened again when its last request is over.
OpenEditor(e) ==
  /\ editors[e].state = "closed" /\ requests[e].state = "idle"
  /\ editors' = [editors EXCEPT ![e].state = "loading"]
  /\ Send(e, "GET", {})
  /\ UNCHANGED <<schedules, removed, edits>>

\* Mutant of IsDirty: what was loaded is not asked for.
DiffersFromInitial(e) == editors[e].form # editors[e].initial

\* Nothing is dirty before the schedule was loaded.
IsDirty(e) == editors[e].initial # {} /\ editors[e].form # editors[e].initial

FormHours(e) == UNION editors[e].form

\* The fields are not disabled while a save is on its way, nor after a load
\* that failed, when the form shows no hours.
Edit(e, week) ==
  /\ editors[e].state \in {"open", "saving"}
  /\ editors' = [editors EXCEPT ![e].form = {week}]
  /\ edits < MaxEdits /\ edits' = edits + 1
  /\ UNCHANGED <<schedules, requests>>

AddHours(e, hours) == Edit(e, FormHours(e) \cup {hours}) /\ UNCHANGED removed

RemoveHours(e, hours) ==
  /\ hours \in FormHours(e)
  /\ Edit(e, FormHours(e) \ {hours})
  /\ removed' = removed \cup {hours}

DiscardWeek(e) ==
  /\ editors[e].state = "open" /\ IsDirty(e)
  /\ editors' = [editors EXCEPT ![e].form = editors[e].initial]
  /\ UNCHANGED <<schedules, requests, removed, edits>>

SaveWeek(e) ==
  /\ editors[e].state = "open" /\ IsDirty(e)
  /\ editors' = [editors EXCEPT ![e].state = "saving"]
  /\ Send(e, "PUT", editors[e].form)
  /\ UNCHANGED <<schedules, removed, edits>>

\* The form takes what the server answers, whatever was edited meanwhile; an
\* answer that is lost reads like an error.
ShowAnswer(e) ==
  /\ editors[e].state \in {"loading", "saving"}
  /\ \/ /\ requests[e].state = "answered"
        /\ editors' = [editors EXCEPT ![e] = [state |-> "open", initial |-> requests[e].week,
                                              form |-> requests[e].week]]
     \/ /\ requests[e].state \in {"answered", "failed"}
        /\ editors' = [editors EXCEPT ![e].state = "open"]
  /\ requests' = [requests EXCEPT ![e] = NoRequest]
  /\ UNCHANGED <<schedules, removed, edits>>

\* The host leaves the page; what was sent goes on, and nobody looks at its answer.
CloseEditor(e) ==
  /\ editors[e].state # "closed"
  /\ editors' = [editors EXCEPT ![e] = [state |-> "closed", initial |-> {}, form |-> {}]]
  /\ UNCHANGED <<schedules, requests, removed, edits>>

DropAnswer(e) ==
  /\ editors[e].state = "closed" /\ requests[e].state \in {"answered", "failed"}
  /\ requests' = [requests EXCEPT ![e] = NoRequest]
  /\ UNCHANGED <<schedules, editors, removed, edits>>

AvailabilityNext ==
  \E e \in Editors :
    \/ FindDefault(e) \/ CreateDefault(e) \/ ReadSchedule(e)
    \/ LockSchedule(e) \/ DeleteDays(e) \/ CommitDays(e) \/ RequestFails(e)
    \/ OpenEditor(e) \/ DiscardWeek(e) \/ SaveWeek(e) \/ ShowAnswer(e)
    \/ CloseEditor(e) \/ DropAnswer(e)
    \/ \E hours \in Hours : AddHours(e, hours) \/ RemoveHours(e, hours)

AvailabilitySpec == AvailabilityInit /\ [][AvailabilityNext]_scheduleVars

-----------------------------------------------------------------------------
AvailabilityTypeOK ==
  /\ defaults \subseteq ScheduleIds
  /\ days \in [ScheduleIds -> SUBSET Weeks]
  /\ holder \in [ScheduleIds -> Editors \cup {NoEditor}]
  /\ latest \in Weeks
  /\ editors \in [Editors -> Editor]
  /\ requests \in [Editors -> Request]
  /\ removed \subseteq Hours /\ edits \in 0..MaxEdits

\* Saving replaces the rows of a schedule by deleting and inserting: two tabs
\* that save at the same time never leave a schedule made of both weeks, and
\* the only default schedule of a host holds the week that was saved last.
SavedWhole ==
  \A s \in defaults :
    /\ Cardinality(days[s]) = 1
    /\ defaults = {s} => days[s] = {latest}

\* A host whose schedule failed to load sees an editor with no hours at all,
\* and may put hours into it: what he then has is never saved over the stored
\* week.  Hours leave a schedule only when the host took them out of some form,
\* however the loads, saves and first visits of his tabs interleave.
NoHoursLost ==
  \A s \in defaults : DefaultWeek \ removed \subseteq UNION days[s]
=============================================================================
