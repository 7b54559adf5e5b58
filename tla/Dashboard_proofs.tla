-------------------------- MODULE Dashboard_proofs --------------------------
(***************************************************************************)
(* What the pages of the dashboard promise beside the API, each for any    *)
(* values of its constants.                                                *)
(*                                                                         *)
(* Of a schedule the invariant says who holds it while its rows are        *)
(* replaced; of the drawer, whose event type its form shows; of the        *)
(* settings, that a form says what the row of its owner says until it is   *)
(* edited. Of the meetings it says how old what the host looks at may be:  *)
(* each row he was shown is the one in the table, or one with a lower      *)
(* sequence, or the meeting is gone.                                       *)
(***************************************************************************)
EXTENDS MCDashboard, Google_proofs, FiniteSetTheorems, TLAPS

-----------------------------------------------------------------------------
(* The schedules *)

\* The rows of one week, all of them, with the hours nobody took away.
Whole(week, gone) == \E each \in Weeks : week = {each} /\ DefaultWeek \ gone \subseteq each

\* A PUT brings a whole week; a request that found a schedule found a default one.
Replacing == {"locked", "replaced"}
RequestSound(request) ==
  /\ request.method = "PUT" \/ request.state = "answered" => Whole(request.week, removed)
  /\ request.state \in Replacing => request.method = "PUT"
  /\ request.state \in {"found", "committed"} \cup Replacing => request.schedule \in defaults

\* Who replaces the rows of a schedule holds it, and has deleted what is there
\* until his own rows are.
RequestExclusive(e, request) ==
  /\ request.state \in Replacing => holder[request.schedule] = e
  /\ request.state = "replaced" => request.deleted = days[request.schedule]

RequestsKept == \A e \in Editors : RequestSound(requests[e]) /\ RequestExclusive(e, requests[e])

\* Before the first schedule there was no PUT.
LatestStored ==
  /\ \A s \in defaults : Whole(days[s], removed) /\ (defaults = {s} => days[s] = {latest})
  /\ defaults = {} => latest = DefaultWeek

\* A form into which nothing was loaded may say anything.
FormWhole(editor, gone) ==
  editor.initial # {} => Whole(editor.initial, gone) /\ Whole(editor.form, gone)

EditorsKept ==
  /\ editors \in [Editors -> Editor]
  /\ \A e \in Editors : FormWhole(editors[e], removed)

AvailabilityInv == AvailabilityTypeOK /\ RequestsKept /\ LatestStored /\ EditorsKept

LEMMA NoRequestTyped == NoRequest \in Request
BY DEF NoRequest, Request

\* Hours that are taken away once are gone.
LEMMA WholeStays ==
  ASSUME removed \subseteq removed', NEW week, Whole(week, removed)
  PROVE  Whole(week, removed')
BY DEF Whole

LEMMA AvailabilityStarts == AvailabilityInit => AvailabilityInv
<1> SUFFICES ASSUME AvailabilityInit PROVE AvailabilityInv
  OBVIOUS
<1> USE DEF AvailabilityInit
<1>1. AvailabilityTypeOK
  BY NoRequestTyped, DefaultWeekAssumption, MaxEditsAssumption DEF AvailabilityTypeOK, Editor
<1>2. RequestsKept
  BY DEF RequestsKept, RequestSound, RequestExclusive, NoRequest, Replacing
<1>3. LatestStored
  BY DEF LatestStored
<1>4. EditorsKept
  BY DEF EditorsKept, FormWhole, Editor
<1> QED
  BY <1>1, <1>2, <1>3, <1>4 DEF AvailabilityInv

-----------------------------------------------------------------------------
(* The requests *)

\* One request moves on, and the rows of no schedule change.
LEMMA RequestMoves ==
  ASSUME AvailabilityInv, NEW e \in Editors, NEW new \in Request,
         requests' = [requests EXCEPT ![e] = new],
         UNCHANGED <<defaults, days, latest, removed, edits>>,
         holder' \in [ScheduleIds -> Editors \cup {NoEditor}],
         \A f \in Editors \ {e} :
           requests[f].state \in Replacing => holder'[requests[f].schedule] = f,
         RequestSound(new),
         new.state \in Replacing => holder'[new.schedule] = e,
         new.state = "replaced" => new.deleted = days[new.schedule],
         EditorsKept'
  PROVE  AvailabilityInv'
<1>1. requests \in [Editors -> Request]
  BY DEF AvailabilityInv, AvailabilityTypeOK
<1>2. requests'[e] = new /\ \A f \in Editors : f = e \/ requests'[f] = requests[f]
  BY <1>1
<1>3. AvailabilityTypeOK'
  BY <1>1 DEF AvailabilityInv, AvailabilityTypeOK, EditorsKept
<1>4. ASSUME NEW f \in Editors PROVE (RequestSound(requests[f]) /\ RequestExclusive(f, requests[f]))'
  <2>1. CASE f = e
    BY <1>2, <2>1 DEF RequestSound, RequestExclusive
  <2>2. CASE f # e
    BY <1>2, <2>2 DEF AvailabilityInv, RequestsKept, RequestSound, RequestExclusive
  <2> QED
    BY <2>1, <2>2
<1>5. LatestStored'
  BY DEF AvailabilityInv, LatestStored
<1> QED
  BY <1>3, <1>4, <1>5 DEF AvailabilityInv, RequestsKept

LEMMA RequestTyped ==
  ASSUME AvailabilityInv, NEW e \in Editors
  PROVE  /\ requests[e] \in Request /\ RequestSound(requests[e]) /\ RequestExclusive(e, requests[e])
         /\ requests[e].schedule \in ScheduleIds \cup {NoSchedule}
         /\ requests \in [Editors -> Request]
         /\ defaults \subseteq ScheduleIds
BY DEF AvailabilityInv, AvailabilityTypeOK, RequestsKept, Request

\* While the rows of the schedules and the editors stay, nothing else matters.
LEMMA RequestGoesOn ==
  ASSUME AvailabilityInv, NEW e \in Editors, NEW new \in Request,
         requests' = [requests EXCEPT ![e] = new],
         UNCHANGED <<schedules, editors, removed, edits>>,
         RequestSound(new), RequestExclusive(e, new)
  PROVE  AvailabilityInv'
<1>1. EditorsKept'
  BY DEF AvailabilityInv, EditorsKept
<1>2. holder' \in [ScheduleIds -> Editors \cup {NoEditor}]
  BY DEF AvailabilityInv, AvailabilityTypeOK, schedules
<1>3. \A f \in Editors : requests[f].state \in Replacing => holder'[requests[f].schedule] = f
  BY DEF AvailabilityInv, RequestsKept, RequestExclusive, schedules
<1> QED
  BY <1>1, <1>2, <1>3, RequestMoves DEF schedules, RequestExclusive

LEMMA FindStep ==
  ASSUME AvailabilityInv, NEW e \in Editors, FindDefault(e)
  PROVE  AvailabilityInv'
<1>1. requests[e] \in Request /\ RequestSound(requests[e]) /\ requests[e].state = "sent"
      /\ requests \in [Editors -> Request] /\ defaults \subseteq ScheduleIds
  BY RequestTyped DEF FindDefault
<1>2. CASE Goes(e, "creating")
  <2> DEFINE new == [requests[e] EXCEPT !.state = "creating"]
  <2>1. requests' = [requests EXCEPT ![e] = new]
    BY <1>1, <1>2 DEF Goes
  <2>2. new \in Request /\ new.state = "creating" /\ new.method = requests[e].method
        /\ new.week = requests[e].week
    BY <1>1 DEF Request
  <2>3. RequestSound(new) /\ RequestExclusive(e, new)
    BY <1>1, <2>2 DEF RequestSound, RequestExclusive, Replacing
  <2> HIDE DEF new
  <2> QED
    BY <2>1, <2>2, <2>3, RequestGoesOn DEF FindDefault
<1>3. ASSUME NEW s \in defaults,
             requests' = [requests EXCEPT ![e].state = "found", ![e].schedule = s]
      PROVE  AvailabilityInv'
  <2> DEFINE new == [requests[e] EXCEPT !.state = "found", !.schedule = s]
  <2>1. requests' = [requests EXCEPT ![e] = new]
    BY <1>1, <1>3
  <2>2. new \in Request /\ new.state = "found" /\ new.method = requests[e].method
        /\ new.week = requests[e].week /\ new.schedule = s
    BY <1>1 DEF Request
  <2>3. RequestSound(new) /\ RequestExclusive(e, new)
    BY <1>1, <2>2 DEF RequestSound, RequestExclusive, Replacing
  <2> HIDE DEF new
  <2> QED
    BY <2>1, <2>2, <2>3, RequestGoesOn DEF FindDefault
<1> QED
  BY <1>2, <1>3 DEF FindDefault

LEMMA ScheduleReadStep ==
  ASSUME AvailabilityInv, NEW e \in Editors, ReadSchedule(e)
  PROVE  AvailabilityInv'
<1> DEFINE week == days[requests[e].schedule]
           new == [NoRequest EXCEPT !.state = "answered", !.week = week]
<1>1. requests' = [requests EXCEPT ![e] = new] /\ requests[e].state \in {"found", "committed"}
  BY DEF ReadSchedule
<1>2. Whole(week, removed) /\ week \in SUBSET Weeks
  BY <1>1, RequestTyped DEF AvailabilityInv, LatestStored, RequestSound, Whole
<1> HIDE DEF week
<1>3. new \in Request /\ new.state = "answered" /\ new.week = week
  BY <1>2, NoRequestTyped DEF NoRequest, Request
<1>4. RequestSound(new) /\ RequestExclusive(e, new)
  BY <1>2, <1>3 DEF RequestSound, RequestExclusive, Replacing
<1> HIDE DEF new
<1> QED
  BY <1>1, <1>3, <1>4, RequestGoesOn DEF ReadSchedule

LEMMA LockStep ==
  ASSUME AvailabilityInv, NEW e \in Editors, LockSchedule(e)
  PROVE  AvailabilityInv'
<1> DEFINE s == requests[e].schedule
           new == [requests[e] EXCEPT !.state = "locked"]
<1>1. requests[e] \in Request /\ RequestSound(requests[e]) /\ requests[e].state = "found"
      /\ requests[e].method = "PUT" /\ requests \in [Editors -> Request]
      /\ s \in defaults /\ s \in ScheduleIds /\ holder[s] = NoEditor
  BY RequestTyped DEF LockSchedule, RowFree, RequestSound
<1>2. requests' = [requests EXCEPT ![e] = new] /\ holder' = [holder EXCEPT ![s] = e]
      /\ UNCHANGED <<defaults, days, latest, editors, removed, edits>>
  BY <1>1 DEF LockSchedule, Goes
<1>3. new \in Request /\ new.state = "locked" /\ new.method = "PUT" /\ new.schedule = s
      /\ new.week = requests[e].week
  BY <1>1 DEF Request
<1> HIDE DEF new, s
<1>4. RequestSound(new)
  BY <1>1, <1>3 DEF RequestSound, Replacing
<1>5. holder \in [ScheduleIds -> Editors \cup {NoEditor}]
  BY DEF AvailabilityInv, AvailabilityTypeOK
<1>6. holder' \in [ScheduleIds -> Editors \cup {NoEditor}] /\ holder'[s] = e
      /\ \A t \in ScheduleIds : t # s => holder'[t] = holder[t]
  BY <1>1, <1>2, <1>5
<1>7. ASSUME NEW f \in Editors \ {e}, requests[f].state \in Replacing
      PROVE  holder'[requests[f].schedule] = f
  <2>1. holder[requests[f].schedule] = f /\ requests[f].schedule \in ScheduleIds
    BY <1>7, RequestTyped DEF RequestExclusive, RequestSound
  <2>2. requests[f].schedule # s
    BY <1>1, <2>1, NobodyAssumption
  <2> QED
    BY <1>6, <2>1, <2>2
<1>8. EditorsKept'
  BY <1>2 DEF AvailabilityInv, EditorsKept
<1> QED
  BY <1>2, <1>3, <1>4, <1>6, <1>7, <1>8, RequestMoves

LEMMA DeleteDaysStep ==
  ASSUME AvailabilityInv, NEW e \in Editors, DeleteDays(e)
  PROVE  AvailabilityInv'
<1> DEFINE s == requests[e].schedule
           new == [requests[e] EXCEPT !.state = "replaced", !.deleted = days[s]]
<1>1. requests[e] \in Request /\ RequestSound(requests[e]) /\ requests[e].state = "locked"
      /\ requests \in [Editors -> Request] /\ s \in ScheduleIds /\ RequestExclusive(e, requests[e])
  BY RequestTyped DEF DeleteDays, RequestSound, Replacing
<1>2. requests' = [requests EXCEPT ![e] = new]
  BY <1>1 DEF DeleteDays
<1>3. days[s] \in SUBSET Weeks
  BY <1>1 DEF AvailabilityInv, AvailabilityTypeOK
<1>4. new \in Request /\ new.state = "replaced" /\ new.method = requests[e].method
      /\ new.schedule = s /\ new.week = requests[e].week /\ new.deleted = days[s]
  BY <1>1, <1>3 DEF Request
<1>5. RequestSound(new) /\ RequestExclusive(e, new)
  BY <1>1, <1>4 DEF RequestSound, RequestExclusive, Replacing
<1> HIDE DEF new
<1> QED
  BY <1>2, <1>4, <1>5, RequestGoesOn DEF DeleteDays

\* An error undoes what was not committed, and frees the row.
LEMMA RequestFailsStep ==
  ASSUME AvailabilityInv, NEW e \in Editors, RequestFails(e)
  PROVE  AvailabilityInv'
<1> DEFINE new == [NoRequest EXCEPT !.state = "failed"]
<1>1. new \in Request /\ new.state = "failed" /\ new.method = "GET"
  BY NoRequestTyped DEF NoRequest, Request
<1>2. RequestSound(new) /\ new.state \notin Replacing
  BY <1>1 DEF RequestSound, Replacing
<1>3. requests' = [requests EXCEPT ![e] = new] /\ UNCHANGED <<defaults, days, latest, editors, removed, edits>>
      /\ holder' = [s \in ScheduleIds |-> IF holder[s] = e THEN NoEditor ELSE holder[s]]
  BY DEF RequestFails
<1> HIDE DEF new
<1>4. holder' \in [ScheduleIds -> Editors \cup {NoEditor}]
  BY <1>3 DEF AvailabilityInv, AvailabilityTypeOK
<1>5. ASSUME NEW f \in Editors \ {e}, requests[f].state \in Replacing
      PROVE  holder'[requests[f].schedule] = f
  <2>1. holder[requests[f].schedule] = f /\ requests[f].schedule \in ScheduleIds
    BY <1>5, RequestTyped DEF RequestExclusive, RequestSound
  <2> QED
    BY <1>3, <2>1
<1>6. EditorsKept'
  BY <1>3 DEF AvailabilityInv, EditorsKept
<1> QED
  BY <1>1, <1>2, <1>3, <1>4, <1>5, <1>6, RequestMoves DEF Replacing

\* The first schedules of a host: none of them was in use before.
LEMMA ScheduleCreateStep ==
  ASSUME AvailabilityInv, NEW e \in Editors, CreateDefault(e)
  PROVE  AvailabilityInv'
<1>1. PICK s \in ScheduleIds \ defaults :
        /\ defaults' = defaults \cup {s}
        /\ days' = [days EXCEPT ![s] = {DefaultWeek}]
        /\ requests' = [requests EXCEPT ![e].state = "found", ![e].schedule = s]
  BY DEF CreateDefault
<1> DEFINE new == [requests[e] EXCEPT !.state = "found", !.schedule = s]
<1>2. requests[e] \in Request /\ RequestSound(requests[e]) /\ requests[e].state = "creating"
      /\ requests \in [Editors -> Request] /\ defaults \subseteq ScheduleIds
      /\ UNCHANGED <<holder, latest, editors, removed, edits>>
  BY RequestTyped DEF CreateDefault
<1>3. requests' = [requests EXCEPT ![e] = new]
  BY <1>1, <1>2
<1>4. new \in Request /\ new.state = "found" /\ new.method = requests[e].method
      /\ new.week = requests[e].week /\ new.schedule = s
  BY <1>2 DEF Request
<1> HIDE DEF new
<1>5. days \in [ScheduleIds -> SUBSET Weeks]
  BY DEF AvailabilityInv, AvailabilityTypeOK
<1>6. days' \in [ScheduleIds -> SUBSET Weeks] /\ days'[s] = {DefaultWeek}
      /\ \A t \in defaults : days'[t] = days[t]
  BY <1>1, <1>2, <1>5, DefaultWeekAssumption
<1>7. requests'[e] = new /\ \A f \in Editors : f = e \/ requests'[f] = requests[f]
  BY <1>2, <1>3
<1>8. AvailabilityTypeOK'
  <2>1. defaults' \subseteq ScheduleIds /\ requests' \in [Editors -> Request]
    BY <1>1, <1>2, <1>3, <1>4
  <2> QED
    BY <1>2, <1>6, <2>1 DEF AvailabilityInv, AvailabilityTypeOK
<1>9. ASSUME NEW f \in Editors PROVE (RequestSound(requests[f]) /\ RequestExclusive(f, requests[f]))'
  <2>1. CASE f = e
    BY <1>1, <1>2, <1>4, <1>7, <2>1 DEF RequestSound, RequestExclusive, Replacing
  <2>2. CASE requests'[f] = requests[f]
    <3>1. RequestSound(requests[f]) /\ RequestExclusive(f, requests[f])
      BY RequestTyped
    <3>2. RequestSound(requests[f])'
      <4>1. defaults \subseteq defaults'
        BY <1>1
      <4>2. requests[f].schedule \in defaults => requests[f].schedule \in defaults'
        BY <4>1
      <4> QED
        BY <1>2, <2>2, <3>1, <4>2 DEF RequestSound
    <3>3. RequestExclusive(f, requests[f])'
      BY <1>2, <1>6, <2>2, <3>1 DEF RequestExclusive, RequestSound, Replacing
    <3> QED
      BY <3>2, <3>3
  <2> QED
    BY <1>7, <2>1, <2>2
<1>10. LatestStored'
  <2>1. Whole({DefaultWeek}, removed)
    BY DefaultWeekAssumption DEF Whole
  <2>2. ASSUME NEW t \in defaults' PROVE Whole(days'[t], removed')
    BY <1>1, <1>2, <1>6, <2>1 DEF AvailabilityInv, LatestStored
  <2>3. ASSUME NEW t \in defaults', defaults' = {t} PROVE days'[t] = {latest'}
    <3>1. t = s /\ defaults = {}
      BY <1>1, <2>3
    <3> QED
      BY <1>2, <1>6, <3>1 DEF AvailabilityInv, LatestStored
  <2> QED
    BY <1>1, <2>2, <2>3 DEF LatestStored
<1>11. EditorsKept'
  BY <1>2 DEF AvailabilityInv, EditorsKept
<1> QED
  BY <1>8, <1>9, <1>10, <1>11 DEF AvailabilityInv, RequestsKept

\* The rows that are inserted replace all that were there.
LEMMA ScheduleCommitStep ==
  ASSUME AvailabilityInv, NEW e \in Editors, CommitDays(e)
  PROVE  AvailabilityInv'
<1> DEFINE request == requests[e]
           s == request.schedule
           new == [request EXCEPT !.state = "committed"]
<1>1. request \in Request /\ RequestSound(request) /\ RequestExclusive(e, request)
      /\ request.state = "replaced" /\ requests \in [Editors -> Request]
      /\ s \in defaults /\ s \in ScheduleIds /\ request.method = "PUT"
      /\ holder[s] = e /\ request.deleted = days[s]
  BY RequestTyped DEF CommitDays, RequestSound, RequestExclusive, Replacing
<1>2. PICK week \in Weeks : request.week = {week} /\ DefaultWeek \ removed \subseteq week
  BY <1>1 DEF RequestSound, Whole
<1>3. /\ days' = [days EXCEPT ![s] = (days[s] \ request.deleted) \cup request.week]
      /\ latest' = week
      /\ holder' = [holder EXCEPT ![s] = NoEditor]
      /\ UNCHANGED <<defaults, editors, removed, edits>>
  BY <1>2 DEF CommitDays
<1>4. requests' = [requests EXCEPT ![e] = new]
  BY <1>1 DEF CommitDays, Goes
<1>5. new \in Request /\ new.state = "committed" /\ new.method = "PUT" /\ new.schedule = s
      /\ new.week = {week}
  BY <1>1, <1>2 DEF Request
<1> HIDE DEF new
<1>6. (days[s] \ request.deleted) \cup request.week = {week}
  BY <1>1, <1>2
<1> HIDE DEF request, s
<1>7. days \in [ScheduleIds -> SUBSET Weeks] /\ holder \in [ScheduleIds -> Editors \cup {NoEditor}]
  BY DEF AvailabilityInv, AvailabilityTypeOK
<1>8. days' \in [ScheduleIds -> SUBSET Weeks] /\ days'[s] = {week}
      /\ \A t \in ScheduleIds : t # s => days'[t] = days[t]
  BY <1>1, <1>3, <1>6, <1>7
<1>9. holder' \in [ScheduleIds -> Editors \cup {NoEditor}]
      /\ \A t \in ScheduleIds : t # s => holder'[t] = holder[t]
  BY <1>1, <1>3, <1>7
<1>10. requests'[e] = new /\ \A f \in Editors : f = e \/ requests'[f] = requests[f]
  BY <1>1, <1>4
<1>11. AvailabilityTypeOK'
  BY <1>1, <1>3, <1>4, <1>5, <1>8, <1>9 DEF AvailabilityInv, AvailabilityTypeOK
<1>12. ASSUME NEW f \in Editors PROVE (RequestSound(requests[f]) /\ RequestExclusive(f, requests[f]))'
  <2>1. CASE f = e
    BY <1>1, <1>2, <1>3, <1>5, <1>10, <2>1 DEF RequestSound, RequestExclusive, Replacing, Whole
  <2>2. CASE f # e
    <3>1. requests'[f] = requests[f] /\ RequestSound(requests[f]) /\ RequestExclusive(f, requests[f])
      BY <1>10, <2>2, RequestTyped
    <3>2. requests[f].state \in Replacing => requests[f].schedule # s
                                             /\ requests[f].schedule \in ScheduleIds
      BY <1>1, <2>2, <3>1, RequestTyped DEF RequestExclusive, RequestSound
    <3>3. RequestSound(requests[f])'
      BY <1>3, <3>1 DEF RequestSound
    <3>4. RequestExclusive(f, requests[f])'
      BY <1>8, <1>9, <3>1, <3>2 DEF RequestExclusive, Replacing
    <3> QED
      BY <3>3, <3>4
  <2> QED
    BY <2>1, <2>2
<1>13. LatestStored'
  <2>1. \A t \in defaults : t \in ScheduleIds
    BY RequestTyped
  <2>2. \A t \in defaults : Whole(days'[t], removed')
    BY <1>2, <1>3, <1>8, <2>1 DEF AvailabilityInv, LatestStored, Whole
  <2>3. \A t \in defaults : defaults = {t} => days'[t] = {latest'}
    BY <1>1, <1>3, <1>8
  <2> QED
    BY <1>1, <1>3, <2>2, <2>3 DEF LatestStored
<1>14. EditorsKept'
  BY <1>3 DEF AvailabilityInv, EditorsKept
<1> QED
  BY <1>11, <1>12, <1>13, <1>14 DEF AvailabilityInv, RequestsKept

-----------------------------------------------------------------------------
(* The editor *)

\* One editor changes: what it was loaded with is whole still.
LEMMA EditorChanges ==
  ASSUME AvailabilityInv, NEW e \in Editors, NEW new \in Editor,
         editors' = [editors EXCEPT ![e] = new], removed \subseteq removed',
         FormWhole(new, removed')
  PROVE  EditorsKept'
<1>1. editors \in [Editors -> Editor]
  BY DEF AvailabilityInv, AvailabilityTypeOK
<1>2. editors' \in [Editors -> Editor] /\ \A f \in Editors : editors'[f] = editors[f] \/ editors'[f] = new
  BY <1>1
<1>3. \A f \in Editors : FormWhole(editors[f], removed')
  BY WholeStays DEF AvailabilityInv, EditorsKept, FormWhole
<1>4. \A f \in Editors : FormWhole(editors'[f], removed')
  BY <1>2, <1>3
<1> QED
  BY <1>2, <1>4 DEF EditorsKept

LEMMA EditorTyped ==
  ASSUME AvailabilityInv, NEW e \in Editors
  PROVE  editors[e] \in Editor /\ FormWhole(editors[e], removed) /\ editors \in [Editors -> Editor]
BY DEF AvailabilityInv, AvailabilityTypeOK, EditorsKept

\* ... with its request, which is a new one or none.
LEMMA EditorSends ==
  ASSUME AvailabilityInv, NEW e \in Editors, EditorsKept', NEW new \in Request,
         requests' = [requests EXCEPT ![e] = new], new.state \in {"idle", "sent"},
         new.method = "PUT" => Whole(new.week, removed), UNCHANGED <<schedules, removed, edits>>
  PROVE  AvailabilityInv'
<1>1. RequestSound(new) /\ new.state \notin Replacing
  BY DEF RequestSound, Replacing
<1>2. holder' \in [ScheduleIds -> Editors \cup {NoEditor}]
  BY DEF AvailabilityInv, AvailabilityTypeOK, schedules
<1>3. \A f \in Editors : requests[f].state \in Replacing => holder'[requests[f].schedule] = f
  BY DEF AvailabilityInv, RequestsKept, RequestExclusive, schedules
<1> QED
  BY <1>1, <1>2, <1>3, RequestMoves DEF schedules, Replacing

\* ... or without.
LEMMA EditorEdits ==
  ASSUME AvailabilityInv, EditorsKept', UNCHANGED <<schedules, requests>>,
         removed \subseteq removed', removed' \subseteq Hours, edits' \in 0..MaxEdits
  PROVE  AvailabilityInv'
<1>1. AvailabilityTypeOK'
  BY DEF AvailabilityInv, AvailabilityTypeOK, EditorsKept, schedules
<1>2. RequestsKept'
  <2>1. ASSUME NEW e \in Editors PROVE (RequestSound(requests[e]) /\ RequestExclusive(e, requests[e]))'
    BY WholeStays, RequestTyped DEF RequestSound, RequestExclusive, schedules
  <2> QED
    BY <2>1 DEF RequestsKept
<1>3. LatestStored'
  BY WholeStays DEF AvailabilityInv, LatestStored, schedules
<1> QED
  BY <1>1, <1>2, <1>3 DEF AvailabilityInv

LEMMA OpenStep ==
  ASSUME AvailabilityInv, NEW e \in Editors, OpenEditor(e)
  PROVE  AvailabilityInv'
<1> DEFINE editor == [editors[e] EXCEPT !.state = "loading"]
           new == [NoRequest EXCEPT !.state = "sent", !.method = "GET", !.week = {}]
<1>1. editors[e] \in Editor /\ FormWhole(editors[e], removed) /\ editors \in [Editors -> Editor]
  BY EditorTyped
<1>2. editors' = [editors EXCEPT ![e] = editor] /\ requests' = [requests EXCEPT ![e] = new]
      /\ UNCHANGED <<schedules, removed, edits>>
  BY <1>1 DEF OpenEditor, Send
<1>3. editor \in Editor /\ editor.state = "loading" /\ editor.initial = editors[e].initial
      /\ editor.form = editors[e].form
  BY <1>1 DEF Editor
<1>4. new \in Request /\ new.state = "sent" /\ new.method = "GET"
  BY NoRequestTyped DEF NoRequest, Request
<1>5. FormWhole(editor, removed)
  BY <1>1, <1>3 DEF FormWhole
<1> HIDE DEF editor, new
<1>6. EditorsKept'
  BY <1>2, <1>3, <1>5, EditorChanges
<1> QED
  BY <1>2, <1>4, <1>6, EditorSends

LEMMA WeekSaveStep ==
  ASSUME AvailabilityInv, NEW e \in Editors, SaveWeek(e)
  PROVE  AvailabilityInv'
<1> DEFINE editor == [editors[e] EXCEPT !.state = "saving"]
           new == [NoRequest EXCEPT !.state = "sent", !.method = "PUT", !.week = editors[e].form]
<1>1. editors[e] \in Editor /\ FormWhole(editors[e], removed) /\ editors \in [Editors -> Editor]
      /\ editors[e].initial # {}
  BY EditorTyped DEF SaveWeek, IsDirty
<1>2. editors' = [editors EXCEPT ![e] = editor] /\ requests' = [requests EXCEPT ![e] = new]
      /\ UNCHANGED <<schedules, removed, edits>>
  BY <1>1 DEF SaveWeek, Send
<1>3. editor \in Editor /\ editor.state = "saving" /\ editor.initial = editors[e].initial
      /\ editor.form = editors[e].form
  BY <1>1 DEF Editor
<1>4. new \in Request /\ new.state = "sent" /\ new.week = editors[e].form
  BY <1>1, NoRequestTyped DEF NoRequest, Request, Editor
<1>5. FormWhole(editor, removed) /\ Whole(new.week, removed)
  BY <1>1, <1>3, <1>4 DEF FormWhole
<1> HIDE DEF editor, new
<1>6. EditorsKept'
  BY <1>1, <1>2, <1>3, <1>5, EditorChanges
<1> QED
  BY <1>2, <1>4, <1>5, <1>6, EditorSends

LEMMA WeekShowStep ==
  ASSUME AvailabilityInv, NEW e \in Editors, ShowAnswer(e)
  PROVE  AvailabilityInv'
<1> DEFINE shown == [state |-> "open", initial |-> requests[e].week, form |-> requests[e].week]
           kept == [editors[e] EXCEPT !.state = "open"]
<1>1. editors[e] \in Editor /\ FormWhole(editors[e], removed) /\ editors \in [Editors -> Editor]
      /\ requests[e] \in Request /\ RequestSound(requests[e])
  BY EditorTyped, RequestTyped
<1>2. \/ requests[e].state = "answered" /\ editors' = [editors EXCEPT ![e] = shown]
      \/ editors' = [editors EXCEPT ![e] = kept]
  BY <1>1 DEF ShowAnswer
<1>3. requests' = [requests EXCEPT ![e] = NoRequest] /\ UNCHANGED <<schedules, removed, edits>>
  BY DEF ShowAnswer
<1>4. shown \in Editor /\ shown.state = "open" /\ kept \in Editor /\ kept.state = "open"
      /\ kept.initial = editors[e].initial /\ kept.form = editors[e].form
      /\ shown.initial = requests[e].week /\ shown.form = requests[e].week
  BY <1>1 DEF Editor, Request
<1> HIDE DEF shown, kept
<1>5. FormWhole(kept, removed) /\ (requests[e].state = "answered" => FormWhole(shown, removed))
  BY <1>1, <1>4 DEF FormWhole, RequestSound
<1>6. EditorsKept'
  BY <1>2, <1>3, <1>4, <1>5, EditorChanges
<1>7. NoRequest.state = "idle" /\ NoRequest.method = "GET"
  BY DEF NoRequest
<1> QED
  BY <1>3, <1>6, <1>7, NoRequestTyped, EditorSends

\* Who adds hours loses none, and who removes some has removed them.
LEMMA HoursStep ==
  ASSUME AvailabilityInv, NEW e \in Editors, NEW hours \in Hours,
         AddHours(e, hours) \/ RemoveHours(e, hours)
  PROVE  AvailabilityInv'
<1>1. /\ editors[e] \in Editor /\ FormWhole(editors[e], removed) /\ editors \in [Editors -> Editor]
      /\ removed \subseteq Hours /\ edits \in 0..MaxEdits
  BY EditorTyped DEF AvailabilityInv, AvailabilityTypeOK
<1>2. FormHours(e) \in Weeks
  BY <1>1 DEF FormHours, Editor, Weeks
<1>3. PICK week \in Weeks : /\ Edit(e, week) /\ removed' \subseteq Hours /\ removed \subseteq removed'
                           /\ FormHours(e) \ removed' \subseteq week
  <2>1. CASE AddHours(e, hours)
    <3>1. FormHours(e) \cup {hours} \in Weeks
      BY <1>2 DEF Weeks
    <3> QED
      BY <1>1, <2>1, <3>1 DEF AddHours
  <2>2. CASE RemoveHours(e, hours)
    <3>1. FormHours(e) \ {hours} \in Weeks
      BY <1>2 DEF Weeks
    <3> QED
      BY <1>1, <2>2, <3>1 DEF RemoveHours
  <2> QED
    BY <2>1, <2>2
<1> DEFINE new == [editors[e] EXCEPT !.form = {week}]
<1>4. editors' = [editors EXCEPT ![e] = new] /\ UNCHANGED <<schedules, requests>>
      /\ edits < MaxEdits /\ edits' = edits + 1
  BY <1>1, <1>3 DEF Edit
<1>5. new \in Editor /\ new.initial = editors[e].initial /\ new.form = {week}
  BY <1>1 DEF Editor
<1> HIDE DEF new
<1>6. FormWhole(new, removed')
  <2> SUFFICES ASSUME editors[e].initial # {}
               PROVE  Whole(editors[e].initial, removed') /\ Whole({week}, removed')
    BY <1>5 DEF FormWhole
  <2>1. PICK each \in Weeks : editors[e].form = {each} /\ DefaultWeek \ removed \subseteq each
    BY <1>1 DEF FormWhole, Whole
  <2>2. FormHours(e) = each
    BY <2>1 DEF FormHours
  <2>3. DefaultWeek \ removed' \subseteq week
    BY <1>3, <2>1, <2>2
  <2> QED
    BY <1>1, <1>3, <2>3, WholeStays DEF FormWhole, Whole
<1>7. EditorsKept'
  BY <1>3, <1>4, <1>5, <1>6, EditorChanges
<1>8. edits' \in 0..MaxEdits
  BY <1>1, <1>4, MaxEditsAssumption
<1> QED
  BY <1>3, <1>4, <1>7, <1>8, EditorEdits

LEMMA EditStep ==
  ASSUME AvailabilityInv, NEW e \in Editors, DiscardWeek(e) \/ CloseEditor(e)
  PROVE  AvailabilityInv'
<1>1. /\ editors[e] \in Editor /\ FormWhole(editors[e], removed) /\ editors \in [Editors -> Editor]
      /\ removed \subseteq Hours /\ edits \in 0..MaxEdits
  BY EditorTyped DEF AvailabilityInv, AvailabilityTypeOK
<1>2. PICK new \in Editor : editors' = [editors EXCEPT ![e] = new] /\ FormWhole(new, removed)
  <2>1. CASE DiscardWeek(e)
    <3> DEFINE new == [editors[e] EXCEPT !.form = editors[e].initial]
    <3>1. editors' = [editors EXCEPT ![e] = new]
      BY <1>1, <2>1 DEF DiscardWeek
    <3>2. new \in Editor /\ new.initial = editors[e].initial /\ new.form = editors[e].initial
      BY <1>1 DEF Editor
    <3>3. FormWhole(new, removed)
      BY <1>1, <3>2 DEF FormWhole
    <3> HIDE DEF new
    <3> QED
      BY <3>1, <3>2, <3>3
  <2>2. CASE CloseEditor(e)
    <3> DEFINE new == [state |-> "closed", initial |-> {}, form |-> {}]
    <3>1. editors' = [editors EXCEPT ![e] = new]
      BY <2>2 DEF CloseEditor
    <3>2. new \in Editor /\ FormWhole(new, removed)
      BY DEF Editor, FormWhole
    <3> HIDE DEF new
    <3> QED
      BY <3>1, <3>2
  <2> QED
    BY <2>1, <2>2
<1>3. UNCHANGED <<schedules, requests, removed, edits>>
  BY DEF DiscardWeek, CloseEditor
<1>4. EditorsKept'
  BY <1>2, <1>3, EditorChanges
<1> QED
  BY <1>1, <1>3, <1>4, EditorEdits

LEMMA DropStep ==
  ASSUME AvailabilityInv, NEW e \in Editors, DropAnswer(e)
  PROVE  AvailabilityInv'
<1>1. NoRequest.state = "idle" /\ NoRequest.method = "GET"
  BY DEF NoRequest
<1>2. RequestSound(NoRequest) /\ RequestExclusive(e, NoRequest)
  BY <1>1 DEF RequestSound, RequestExclusive, Replacing
<1> QED
  BY <1>2, NoRequestTyped, RequestGoesOn DEF DropAnswer

-----------------------------------------------------------------------------
LEMMA AvailabilitySteps == AvailabilityInv /\ [AvailabilityNext]_scheduleVars => AvailabilityInv'
<1> SUFFICES ASSUME AvailabilityInv, [AvailabilityNext]_scheduleVars PROVE AvailabilityInv'
  OBVIOUS
<1>1. CASE UNCHANGED scheduleVars
  <2>1. UNCHANGED <<schedules, requests>> /\ UNCHANGED <<editors, removed, edits>>
    BY <1>1 DEF scheduleVars, schedules
  <2>2. EditorsKept'
    BY <2>1 DEF AvailabilityInv, EditorsKept
  <2> QED
    BY <2>1, <2>2, EditorEdits DEF AvailabilityInv, AvailabilityTypeOK
<1>2. CASE AvailabilityNext
  BY <1>2, FindStep, ScheduleCreateStep, ScheduleReadStep, LockStep, DeleteDaysStep, ScheduleCommitStep, RequestFailsStep,
     OpenStep, WeekSaveStep, WeekShowStep, HoursStep, EditStep, DropStep DEF AvailabilityNext
<1> QED
  BY <1>1, <1>2

LEMMA AvailabilityHolds == AvailabilitySpec => []AvailabilityInv
<1>1. AvailabilityInit => AvailabilityInv
  BY AvailabilityStarts
<1>2. AvailabilityInv /\ [AvailabilityNext]_scheduleVars => AvailabilityInv'
  BY AvailabilitySteps
<1> QED
  BY <1>1, <1>2, PTL DEF AvailabilitySpec

\* A schedule is made of one week, however many tabs save at the same time, and
\* the only default schedule holds the week saved last (updateDefaultSchedule).
THEOREM SchedulesWhole == AvailabilitySpec => []SavedWhole
<1>1. AvailabilityInv => SavedWhole
  <2> SUFFICES ASSUME AvailabilityInv, NEW s \in defaults
               PROVE  Cardinality(days[s]) = 1 /\ (defaults = {s} => days[s] = {latest})
    BY DEF SavedWhole
  <2>1. PICK week \in Weeks : days[s] = {week}
    BY DEF AvailabilityInv, LatestStored, Whole
  <2>2. Cardinality(days[s]) = 1
    BY <2>1, FS_Singleton
  <2> QED
    BY <2>2 DEF AvailabilityInv, LatestStored
<1> QED
  BY <1>1, AvailabilityHolds, PTL

\* The hours a host took out of no form stay in every default schedule, though
\* forms may be edited that nothing was loaded into (isDirty).
THEOREM HoursKept == AvailabilitySpec => []NoHoursLost
<1>1. AvailabilityInv => NoHoursLost
  <2> SUFFICES ASSUME AvailabilityInv, NEW s \in defaults
               PROVE  DefaultWeek \ removed \subseteq UNION days[s]
    BY DEF NoHoursLost
  <2>1. PICK week \in Weeks : days[s] = {week} /\ DefaultWeek \ removed \subseteq week
    BY DEF AvailabilityInv, LatestStored, Whole
  <2> QED
    BY <2>1
<1> QED
  BY <1>1, AvailabilityHolds, PTL

\* The tables, the tabs and their requests have their types.
THEOREM AvailabilityTypes == AvailabilitySpec => []AvailabilityTypeOK
<1>1. AvailabilityInv => AvailabilityTypeOK
  BY DEF AvailabilityInv
<1> QED
  BY <1>1, AvailabilityHolds, PTL

-----------------------------------------------------------------------------
(* The event types *)

\* A deleted event type that is kept has released its slug; one with bookings
\* is there.
TypesKept ==
  /\ \A id \in deletedTypes : Exists(id)
  /\ BookedTypesKept /\ DeletedReleasesSlug

\* Of a host who waits, the form shows the event type of the drawer, or its GET
\* is on its way, or has failed; nothing else is asked for meanwhile.
OwnForm ==
  drawer.target # NoType /\ ~hasty =>
    /\ \A l \in Loads : loads[l] \in {NoType, drawer.target}
    /\ drawer.of = drawer.target \/ Outstanding # {} \/ drawer.error = "load"
    /\ saving.state # "none" => drawer.of = drawer.target /\ Outstanding = {}

FormKept == OwnForm /\ ~saving.alien /\ OwnFormSaved

\* The modal is about an event type.
DeletesOne == deleting \in Deleting /\ (deleting.state # "closed" => deleting.id \in TypeIds)

DrawerInv == DrawerTypeOK /\ TypesKept /\ FormKept /\ DeletesOne

LEMMA DrawerRecords ==
  /\ Absent \in EventType /\ NotSaving \in Saving /\ Closed \in Deleting
  /\ \A id \in TypeIds : id # NoType /\ id # NewType
BY TypeIdsAssumption DEF Absent, EventType, NotSaving, Saving, Closed, Deleting, Targets, Slug

LEMMA DrawerStarts == TypesInit => DrawerInv
<1> SUFFICES ASSUME TypesInit PROVE DrawerInv
  OBVIOUS
<1>1. DrawerTypeOK
  <2>1. drawer \in Drawer
    BY DEF TypesInit, Drawer, Targets, Slug
  <2>2. 0 \in 0..MaxElsewhere
    BY DrawerBoundsAssumption
  <2> QED
    BY <2>1, <2>2, DrawerRecords DEF TypesInit, DrawerTypeOK
<1>2. TypesKept
  BY DEF TypesInit, TypesKept, BookedTypesKept, DeletedReleasesSlug
<1>3. FormKept
  BY DEF TypesInit, FormKept, OwnForm, OwnFormSaved, NotSaving
<1>4. DeletesOne
  BY DrawerRecords DEF TypesInit, DeletesOne, Closed
<1> QED
  BY <1>1, <1>2, <1>3, <1>4 DEF DrawerInv

\* The tables do not change.
LEMMA TypesStay ==
  ASSUME TypesKept, UNCHANGED server
  PROVE  TypesKept'
BY DEF TypesKept, BookedTypesKept, DeletedReleasesSlug, Exists, server

\* Neither do the drawer and its requests.
LEMMA FormStays ==
  ASSUME FormKept, UNCHANGED <<drawer, loads, hasty, saving, mixed>>
  PROVE  FormKept'
BY DEF FormKept, OwnForm, OwnFormSaved, Outstanding

\* The typing of what an action of the page leaves alone.
LEMMA ServerTyped ==
  ASSUME DrawerTypeOK, UNCHANGED server
  PROVE  /\ types' \in [TypeIds -> EventType]
         /\ bookedTypes' \subseteq TypeIds /\ deletedTypes' \subseteq TypeIds
         /\ revived' \subseteq TypeIds /\ elsewhere' \in 0..MaxElsewhere
BY DEF DrawerTypeOK, server

-----------------------------------------------------------------------------
(* The list and the modal *)

LEMMA ListStep ==
  ASSUME DrawerInv, ListAnswered
  PROVE  DrawerInv'
<1>1. items' \subseteq TypeIds /\ UNCHANGED <<server, drawer, loads, saving, deleting, hasty, mixed>>
      /\ listing' = FALSE
  BY DEF ListAnswered, Active, DrawerInv, DrawerTypeOK
<1>2. DrawerTypeOK' /\ DeletesOne'
  BY <1>1, ServerTyped DEF DrawerInv, DrawerTypeOK, DeletesOne
<1> QED
  BY <1>1, <1>2, TypesStay, FormStays DEF DrawerInv

\* Only the modal and its request change.
LEMMA ModalStep ==
  ASSUME DrawerInv,
         \/ \E id \in TypeIds : OpenDeleteModal(id)
         \/ CloseDeleteModal \/ ConfirmDelete \/ BookingsCounted
  PROVE  DrawerInv'
<1>1. UNCHANGED <<server, items, listing, drawer, loads, saving, hasty, mixed>>
  BY DEF OpenDeleteModal, CloseDeleteModal, ConfirmDelete, BookingsCounted
<1>2. deleting \in Deleting /\ (deleting.state # "closed" => deleting.id \in TypeIds)
  BY DEF DrawerInv, DeletesOne
<1>3. deleting' \in Deleting /\ (deleting'.state # "closed" => deleting'.id \in TypeIds)
  <2>1. CASE \E id \in TypeIds : OpenDeleteModal(id)
    BY <2>1 DEF OpenDeleteModal, Closed, Deleting
  <2>2. CASE CloseDeleteModal
    BY <2>2, DrawerRecords DEF CloseDeleteModal, Closed
  <2>3. CASE ConfirmDelete
    <3>1. deleting' = [deleting EXCEPT !.state = "sent", !.opened = (drawer.target = deleting.id)]
      BY <2>3 DEF ConfirmDelete
    <3>2. (drawer.target = deleting.id) \in BOOLEAN
      OBVIOUS
    <3>3. deleting.state # "closed"
      BY <2>3 DEF ConfirmDelete
    <3> QED
      BY <1>2, <3>1, <3>2, <3>3 DEF Deleting
  <2>4. CASE BookingsCounted
    BY <1>2, <2>4 DEF BookingsCounted, Deleting
  <2> QED
    BY <2>1, <2>2, <2>3, <2>4
<1>4. DrawerTypeOK'
  BY <1>1, <1>3, ServerTyped DEF DrawerInv, DrawerTypeOK
<1> QED
  BY <1>1, <1>3, <1>4, TypesStay, FormStays DEF DrawerInv, DeletesOne

-----------------------------------------------------------------------------
(* The drawer *)

LEMMA DrawerTyped ==
  ASSUME DrawerInv
  PROVE  /\ drawer \in Drawer /\ saving \in Saving
         /\ DeletesOne /\ (UNCHANGED deleting => DeletesOne')
         /\ loads \in [Loads -> TypeIds \cup {NoType}] /\ hasty \in BOOLEAN
         /\ types \in [TypeIds -> EventType] /\ ~saving.alien
BY DEF DrawerInv, DrawerTypeOK, FormKept, DeletesOne

\* Only the drawer and its requests change: they have their types, and what
\* the form shows is its own.
LEMMA DrawerChanges ==
  ASSUME DrawerInv, UNCHANGED <<server, items, mixed>>,
         drawer' \in Drawer, loads' \in [Loads -> TypeIds \cup {NoType}],
         saving' \in Saving, DeletesOne',
         listing' \in BOOLEAN, hasty' \in BOOLEAN,
         OwnForm', ~saving'.alien
  PROVE  DrawerInv'
<1>1. DrawerTypeOK'
  BY ServerTyped DEF DrawerInv, DrawerTypeOK, DeletesOne
<1>2. FormKept'
  BY DEF DrawerInv, FormKept, OwnFormSaved
<1> QED
  BY <1>1, <1>2, TypesStay DEF DrawerInv

LEMMA AnsweredAll ==
  ASSUME DrawerInv
  PROVE  Answered \in BOOLEAN /\ (Answered => saving.state = "none" /\ \A l \in Loads : loads[l] = NoType)
BY DEF Answered, Outstanding

LEMMA CreateOpens ==
  ASSUME DrawerInv, OpenCreateDrawer
  PROVE  DrawerInv'
<1>1. drawer' = FormReset /\ hasty' = ~Answered
      /\ UNCHANGED <<server, items, listing, loads, saving, deleting, mixed>>
  BY DEF OpenCreateDrawer
<1>2. FormReset \in Drawer /\ FormReset.target = NewType /\ FormReset.of = NewType
  BY DEF FormReset, Drawer, Targets, Slug
<1>3. OwnForm'
  BY <1>1, <1>2, AnsweredAll DEF OwnForm, Outstanding
<1> QED
  BY <1>1, <1>2, <1>3, DrawerTyped, DrawerChanges, AnsweredAll DEF DrawerInv, DrawerTypeOK

LEMMA EditOpens ==
  ASSUME DrawerInv, NEW id \in TypeIds, OpenEditDrawer(id)
  PROVE  DrawerInv'
<1>1. drawer' = FormLoading(id) /\ hasty' = ~Answered
      /\ UNCHANGED <<server, items, listing, saving, deleting, mixed>>
  BY DEF OpenEditDrawer
<1>2. FormLoading(id) \in Drawer /\ FormLoading(id).target = id /\ FormLoading(id).isLoading
  BY DrawerTyped DEF FormLoading, Drawer, Targets
<1>3. PICK l \in Loads \ Outstanding : loads' = [loads EXCEPT ![l] = id]
  BY <1>1, <1>2 DEF OpenEditDrawer
<1>4. loads' \in [Loads -> TypeIds \cup {NoType}] /\ loads'[l] = id
      /\ \A other \in Loads : other # l => loads'[other] = loads[other]
  BY <1>3, DrawerTyped
<1>5. OwnForm'
  <2> SUFFICES ASSUME ~hasty' PROVE OwnForm'
    BY DEF OwnForm
  <2>1. saving'.state = "none" /\ \A other \in Loads : loads'[other] \in {NoType, id}
    BY <1>1, <1>4, AnsweredAll
  <2>2. Outstanding' # {}
    BY <1>3, <1>4, DrawerRecords DEF Outstanding
  <2> QED
    BY <1>1, <1>2, <2>1, <2>2 DEF OwnForm
<1> QED
  BY <1>1, <1>2, <1>4, <1>5, DrawerTyped, DrawerChanges, AnsweredAll DEF DrawerInv, DrawerTypeOK

LEMMA ShutTyped ==
  ASSUME DrawerInv
  PROVE  Shut \in Drawer /\ Shut.target = NoType
BY DrawerTyped DEF Shut, Drawer

\* A drawer that is shut shows nothing.
LEMMA DrawerShuts ==
  ASSUME DrawerInv, drawer' = Shut
  PROVE  OwnForm'
BY ShutTyped DEF OwnForm

LEMMA CloseStep ==
  ASSUME DrawerInv, CloseDrawer
  PROVE  DrawerInv'
<1>1. drawer' = Shut /\ hasty' = FALSE
      /\ UNCHANGED <<server, items, listing, loads, saving, deleting, mixed>>
  BY DEF CloseDrawer
<1> QED
  BY <1>1, ShutTyped, DrawerShuts, DrawerTyped, DrawerChanges DEF DrawerInv, DrawerTypeOK

LEMMA FailedTyped ==
  ASSUME DrawerInv, NEW error \in {"load", "save"}
  PROVE  /\ Failed(error) \in Drawer /\ Failed(error).target = drawer.target
         /\ Failed(error).of = drawer.of
         /\ drawer.target # NoType => Failed(error).error = error
BY DrawerTyped DEF Failed, Drawer

LEMMA LoadedStep ==
  ASSUME DrawerInv, NEW l \in Loads, EventTypeLoaded(l)
  PROVE  DrawerInv'
<1>1. loads[l] \in TypeIds /\ loads' = [loads EXCEPT ![l] = NoType]
      /\ UNCHANGED <<server, items, listing, saving, deleting, hasty, mixed>>
  BY DrawerTyped DEF EventTypeLoaded
<1>2. loads' \in [Loads -> TypeIds \cup {NoType}]
      /\ \A other \in Loads : loads'[other] \in {NoType, loads[other]}
  BY <1>1, DrawerTyped
<1>3. drawer.target # NoType /\ ~hasty =>
        loads[l] = drawer.target /\ saving.state = "none"
        /\ \A other \in Loads : loads[other] \in {NoType, drawer.target}
  <2>1. Outstanding # {}
    BY <1>1, DrawerRecords DEF Outstanding
  <2> QED
    BY <1>1, <2>1, DrawerRecords DEF DrawerInv, FormKept, OwnForm
<1>4. CASE drawer' = [drawer EXCEPT !.of = loads[l], !.slug = types[loads[l]].slug, !.isLoading = FALSE]
  <2>1. types[loads[l]].slug \in Slug
    BY <1>1, DrawerTyped DEF EventType
  <2>2. drawer' \in Drawer /\ drawer'.target = drawer.target /\ drawer'.of = loads[l]
    BY <1>1, <1>4, <2>1, DrawerTyped DEF Drawer, Targets
  <2>3. OwnForm'
    BY <1>1, <1>2, <1>3, <2>2 DEF OwnForm
  <2> QED
    BY <1>1, <1>2, <2>2, <2>3, DrawerTyped, DrawerChanges DEF DrawerInv, DrawerTypeOK
<1>5. CASE drawer' = [Failed("load") EXCEPT !.isLoading = FALSE]
  <2>1. drawer' \in Drawer /\ drawer'.target = drawer.target
        /\ (drawer.target # NoType => drawer'.error = "load")
    BY <1>5, FailedTyped DEF Drawer
  <2>2. OwnForm'
    BY <1>1, <1>2, <1>3, <2>1 DEF OwnForm
  <2> QED
    BY <1>1, <1>2, <2>1, <2>2, DrawerTyped, DrawerChanges DEF DrawerInv, DrawerTypeOK
<1> QED
  BY <1>4, <1>5 DEF EventTypeLoaded

\* Whoever waited saves what was loaded of the event type in the drawer.
LEMMA TypeSaveStep ==
  ASSUME DrawerInv, HandleSave
  PROVE  DrawerInv'
<1>1. drawer.target # NoType /\ drawer.of # NoType
      /\ hasty' = (hasty \/ ~Answered \/ drawer.error = "load")
      /\ drawer' = [drawer EXCEPT !.error = "none"]
      /\ UNCHANGED <<server, items, listing, loads, deleting, mixed>>
  BY DEF HandleSave
<1>2. saving' = [state |-> "sent", target |-> drawer.target, slug |-> drawer.slug,
                 alien |-> drawer.of # drawer.target /\ ~hasty']
  BY DEF HandleSave
<1>3. hasty' \in BOOLEAN /\ (~hasty' => ~hasty /\ Answered /\ drawer.error # "load")
  BY <1>1, DrawerTyped
<1>4. ~hasty' => drawer.of = drawer.target /\ \A l \in Loads : loads[l] = NoType
  BY <1>1, <1>3, AnsweredAll DEF DrawerInv, FormKept, OwnForm, Outstanding
<1>5. drawer' \in Drawer /\ drawer'.target = drawer.target /\ drawer'.of = drawer.of
      /\ drawer.target \in Targets /\ drawer.slug \in Slug
  BY <1>1, DrawerTyped DEF Drawer
<1>6. saving' \in Saving /\ ~saving'.alien
  BY <1>2, <1>3, <1>4, <1>5 DEF Saving
<1>7. OwnForm'
  BY <1>1, <1>4, <1>5 DEF OwnForm, Outstanding
<1> QED
  BY <1>1, <1>3, <1>5, <1>6, <1>7, DrawerTyped, DrawerChanges DEF DrawerInv, DrawerTypeOK

LEMMA SaveAnsweredStep ==
  ASSUME DrawerInv, SaveAnswered
  PROVE  DrawerInv'
<1>1. saving.state # "none" /\ saving' = NotSaving
      /\ UNCHANGED <<server, items, loads, deleting, mixed>>
  BY DEF SaveAnswered
<1>2. NotSaving \in Saving /\ ~NotSaving.alien /\ NotSaving.state = "none"
  BY DrawerRecords DEF NotSaving
<1>3. CASE listing' = TRUE /\ drawer' = Shut /\ hasty' = FALSE
  BY <1>1, <1>2, <1>3, ShutTyped, DrawerShuts, DrawerTyped, DrawerChanges
<1>4. CASE drawer' = Failed("save") /\ UNCHANGED <<listing, hasty>>
  <2>1. OwnForm'
    BY <1>1, <1>2, <1>4, FailedTyped DEF DrawerInv, FormKept, OwnForm
  <2> QED
    BY <1>1, <1>2, <1>4, <2>1, FailedTyped, DrawerTyped, DrawerChanges DEF DrawerInv, DrawerTypeOK
<1> QED
  BY <1>3, <1>4 DEF SaveAnswered

\* The answer to a deletion shuts the drawer at most.
LEMMA DeleteAnsweredStep ==
  ASSUME DrawerInv, DeleteAnswered
  PROVE  DrawerInv'
<1>1. UNCHANGED <<server, items, loads, saving, hasty, mixed>>
  BY DEF DeleteAnswered
<1>2. DeletesOne' /\ listing' \in BOOLEAN
  <2>1. CASE deleting' = Closed /\ listing' = TRUE
    BY <2>1, DrawerRecords DEF Closed, DeletesOne
  <2>2. CASE /\ deleting.state # "closed" /\ UNCHANGED listing
             /\ deleting' = [deleting EXCEPT !.state = "open", !.opened = FALSE]
    BY <2>2, DrawerTyped DEF DeletesOne, Deleting, DrawerInv, DrawerTypeOK
  <2> QED
    BY <2>1, <2>2 DEF DeleteAnswered
<1>3. drawer' \in {Shut, drawer}
  BY DEF DeleteAnswered
<1>4. OwnForm'
  <2>1. CASE drawer' = drawer
    BY <1>1, <2>1 DEF DrawerInv, FormKept, OwnForm, Outstanding
  <2> QED
    BY <1>3, <2>1, DrawerShuts
<1> QED
  BY <1>1, <1>2, <1>3, <1>4, ShutTyped, DrawerTyped, DrawerChanges

-----------------------------------------------------------------------------
(* create, update, delete, and what others do *)

LEMMA BecomeTyped ==
  ASSUME NEW state \in {"stored", "failed"}, Become(state)
  PROVE  saving' \in Saving /\ ~saving'.alien /\ saving'.state # "none"
<1>1. saving' = [NotSaving EXCEPT !.state = state]
  BY DEF Become
<1> QED
  BY <1>1, DrawerRecords DEF NotSaving, Saving

\* A save goes on: the form is what it was.
LEMMA SaveGoesOn ==
  ASSUME DrawerInv, saving.state # "none", saving'.state # "none", ~saving'.alien,
         UNCHANGED <<drawer, loads, hasty>>, ~mixed'
  PROVE  FormKept'
BY DEF DrawerInv, FormKept, OwnForm, OwnFormSaved, Outstanding

LEMMA TypeCreateStep ==
  ASSUME DrawerInv, CreateType
  PROVE  DrawerInv'
<1>1. saving.state = "sent"
      /\ UNCHANGED <<bookedTypes, deletedTypes, elsewhere, revived, items, listing, drawer, loads,
                     deleting, hasty, mixed>>
  BY DEF CreateType
<1>2. saving' \in Saving /\ ~saving'.alien /\ saving'.state # "none"
  BY BecomeTyped DEF CreateType
<1>3. FormKept'
  BY <1>1, <1>2, SaveGoesOn DEF DrawerInv, FormKept, OwnFormSaved
<1>4. ASSUME NEW id \in TypeIds, ~Exists(id),
             types' = [types EXCEPT ![id] = [state |-> "active", slug |-> saving.slug]]
      PROVE  types' \in [TypeIds -> EventType] /\ TypesKept'
  <2>1. [state |-> "active", slug |-> saving.slug] \in EventType
    BY DrawerTyped DEF EventType, Saving
  <2>2. types' \in [TypeIds -> EventType] /\ types'[id].state = "active"
        /\ \A other \in TypeIds : other # id => types'[other] = types[other]
    BY <1>4, <2>1, DrawerTyped
  <2>3. id \notin deletedTypes /\ deletedTypes \subseteq TypeIds /\ bookedTypes \subseteq TypeIds
    BY <1>4 DEF DrawerInv, DrawerTypeOK, TypesKept
  <2>4. \A other \in TypeIds : Exists(other) => Exists(other)'
    BY <2>2 DEF Exists
  <2>5. DeletedReleasesSlug'
    BY <1>1, <2>2, <2>3 DEF DrawerInv, TypesKept, DeletedReleasesSlug
  <2> QED
    BY <1>1, <2>2, <2>3, <2>4, <2>5 DEF DrawerInv, TypesKept, BookedTypesKept
<1>5. types' \in [TypeIds -> EventType] /\ TypesKept'
  <2>1. CASE UNCHANGED types
    BY <1>1, <2>1, TypesStay, DrawerTyped DEF DrawerInv, server
  <2> QED
    BY <1>4, <2>1 DEF CreateType
<1> QED
  BY <1>1, <1>2, <1>3, <1>5 DEF DrawerInv, DrawerTypeOK, DeletesOne

LEMMA CheckStep ==
  ASSUME DrawerInv, UpdateChecked
  PROVE  DrawerInv'
<1>1. saving.state = "sent"
      /\ UNCHANGED <<server, items, listing, drawer, loads, deleting, hasty, mixed>>
  BY DEF UpdateChecked
<1>2. saving' \in Saving /\ ~saving'.alien /\ saving'.state # "none"
  <2>1. CASE saving' = [saving EXCEPT !.state = "checked"]
    BY <2>1, DrawerTyped DEF Saving
  <2> QED
    BY <2>1, BecomeTyped DEF UpdateChecked
<1>3. OwnForm'
  BY <1>1, <1>2, SaveGoesOn DEF DrawerInv, FormKept, OwnFormSaved
<1> QED
  BY <1>1, <1>2, <1>3, DrawerTyped, DrawerChanges DEF DrawerInv, DrawerTypeOK

\* A PATCH that comes after a deletion is what "revived" remembers.
LEMMA UpdateStep ==
  ASSUME DrawerInv, UpdateType
  PROVE  DrawerInv'
<1> DEFINE id == saving.target
<1>1. saving.state = "checked"
      /\ UNCHANGED <<bookedTypes, deletedTypes, elsewhere, items, listing, drawer, loads, deleting,
                     hasty>>
  BY DEF UpdateType
<1>2. saving' \in Saving /\ ~saving'.alien /\ saving'.state # "none"
  BY BecomeTyped DEF UpdateType
<1>3. mixed' = FALSE /\ mixed = FALSE
  BY DrawerTyped DEF UpdateType, DrawerInv, DrawerTypeOK, FormKept, OwnFormSaved
<1>4. FormKept'
  BY <1>1, <1>2, <1>3, SaveGoesOn
<1>5. ASSUME types' = [types EXCEPT ![id].slug = saving.slug],
             revived' = IF id \in deletedTypes THEN revived \cup {id} ELSE revived
      PROVE  types' \in [TypeIds -> EventType] /\ revived' \subseteq TypeIds /\ TypesKept'
  <2>1. deletedTypes \subseteq TypeIds /\ bookedTypes \subseteq TypeIds /\ revived \subseteq TypeIds
        /\ saving.slug \in Slug
    BY DrawerTyped DEF DrawerInv, DrawerTypeOK, Saving
  <2>2. types' \in [TypeIds -> EventType]
        /\ \A other \in TypeIds : types'[other].state = types[other].state
                                  /\ (other # id => types'[other] = types[other])
    BY <1>5, <2>1, DrawerTyped DEF EventType
  <2>3. \A other \in TypeIds : Exists(other)' = Exists(other)
    BY <2>2 DEF Exists
  <2>4. revived' \subseteq TypeIds /\ revived \subseteq revived'
        /\ (id \in deletedTypes => id \in revived')
    BY <1>5, <2>1
  <2>5. DeletedReleasesSlug'
    BY <1>1, <2>1, <2>2, <2>4 DEF DrawerInv, TypesKept, DeletedReleasesSlug
  <2> QED
    BY <1>1, <2>1, <2>2, <2>3, <2>4, <2>5 DEF DrawerInv, TypesKept, BookedTypesKept
<1>6. types' \in [TypeIds -> EventType] /\ revived' \subseteq TypeIds /\ TypesKept'
  <2>1. CASE UNCHANGED <<types, revived>>
    BY <1>1, <2>1, TypesStay, DrawerTyped DEF DrawerInv, DrawerTypeOK, server
  <2> QED
    BY <1>5, <2>1 DEF UpdateType
<1> QED
  BY <1>1, <1>2, <1>3, <1>4, <1>6 DEF DrawerInv, DrawerTypeOK, DeletesOne

\* One row of the table changes or is deleted.
LEMMA DeleteStep ==
  ASSUME DrawerInv, DeleteType
  PROVE  DrawerInv'
<1> DEFINE id == deleting.id
<1>1. UNCHANGED <<bookedTypes, elsewhere, items, listing, drawer, loads, saving, hasty, mixed>>
  BY DEF DeleteType
<1>2. id \in TypeIds /\ deleting \in Deleting
  BY DrawerTyped DEF DeleteType, DeletesOne
<1>9. DeletesOne'
  <2>1. \E state \in {"done", "failed"} : deleting' = [deleting EXCEPT !.state = state]
    BY DEF DeleteType
  <2> QED
    BY <1>2, <2>1 DEF DeletesOne, Deleting
<1>3. deletedTypes \subseteq TypeIds /\ bookedTypes \subseteq TypeIds /\ revived \subseteq TypeIds
      /\ types \in [TypeIds -> EventType]
  BY DEF DrawerInv, DrawerTypeOK
<1>7. types' \in [TypeIds -> EventType] /\ deletedTypes' \subseteq TypeIds
      /\ revived' \subseteq TypeIds /\ TypesKept'
  <2>1. CASE /\ types' = [types EXCEPT ![id] = SoftDeleted(id)]
             /\ deletedTypes' = deletedTypes \cup {id} /\ revived' = revived \ {id}
    <3>1. SoftDeleted(id) \in EventType /\ SoftDeleted(id).slug = "suffixed"
          /\ SoftDeleted(id).state = "archived"
      BY DEF SoftDeleted, EventType, Slug
    <3>2. types' \in [TypeIds -> EventType] /\ types'[id] = SoftDeleted(id)
          /\ \A other \in TypeIds : other # id => types'[other] = types[other]
      BY <1>2, <1>3, <2>1, <3>1
    <3>3. \A other \in TypeIds : Exists(other) \/ other = id => Exists(other)'
      BY <3>1, <3>2 DEF Exists
    <3>4. DeletedReleasesSlug'
      <4> SUFFICES ASSUME NEW other \in deletedTypes', other \notin revived'
                   PROVE  types'[other].slug = "suffixed"
        BY DEF DeletedReleasesSlug
      <4>1. CASE other = id
        BY <3>1, <3>2, <4>1
      <4>2. CASE other # id
        BY <1>3, <2>1, <3>2, <4>2 DEF DrawerInv, TypesKept, DeletedReleasesSlug
      <4> QED
        BY <4>1, <4>2
    <3>5. TypesKept'
      BY <1>1, <1>2, <1>3, <2>1, <3>3, <3>4 DEF DrawerInv, TypesKept, BookedTypesKept
    <3> QED
      BY <1>2, <1>3, <2>1, <3>2, <3>5
  <2>2. CASE /\ types' = [types EXCEPT ![id] = Absent] /\ id \notin bookedTypes
             /\ deletedTypes' = deletedTypes \ {id} /\ revived' = revived \ {id}
    <3>1. types' \in [TypeIds -> EventType]
          /\ \A other \in TypeIds : other # id => types'[other] = types[other]
      BY <1>2, <1>3, <2>2, DrawerRecords
    <3>2. \A other \in TypeIds : Exists(other) /\ other # id => Exists(other)'
      BY <3>1 DEF Exists
    <3>3. DeletedReleasesSlug'
      BY <1>3, <2>2, <3>1 DEF DrawerInv, TypesKept, DeletedReleasesSlug
    <3>4. TypesKept'
      BY <1>1, <1>3, <2>2, <3>2, <3>3 DEF DrawerInv, TypesKept, BookedTypesKept
    <3> QED
      BY <1>3, <2>2, <3>1, <3>4
  <2>3. CASE UNCHANGED <<types, deletedTypes, revived>>
    BY <1>1, <1>3, <2>3, TypesStay DEF DrawerInv, server
  <2> QED
    BY <2>1, <2>2, <2>3 DEF DeleteType, Restricted
<1>8. FormKept'
  BY <1>1, FormStays DEF DrawerInv
<1> QED
  BY <1>1, <1>7, <1>8, <1>9 DEF DrawerInv, DrawerTypeOK, DeletesOne

\* What others do with the event types.
LEMMA OthersStep ==
  ASSUME DrawerInv, NEW id \in TypeIds, BookType(id) \/ ArchiveElsewhere(id)
  PROVE  DrawerInv'
<1>1. UNCHANGED <<revived, items, listing, drawer, loads, saving, deleting, hasty, mixed>>
  BY DEF BookType, ArchiveElsewhere
<1>2. types \in [TypeIds -> EventType] /\ deletedTypes \subseteq TypeIds
      /\ bookedTypes \subseteq TypeIds /\ elsewhere \in 0..MaxElsewhere /\ types[id] \in EventType
  BY DEF DrawerInv, DrawerTypeOK
<1>3. FormKept' /\ DeletesOne'
  BY <1>1, FormStays, DrawerTyped DEF DrawerInv
<1>4. CASE BookType(id)
  <2>1. Exists(id) /\ bookedTypes' = bookedTypes \cup {id} /\ UNCHANGED <<types, deletedTypes, elsewhere>>
    BY <1>4 DEF BookType, Exists
  <2>2. TypesKept'
    BY <1>1, <2>1 DEF DrawerInv, TypesKept, BookedTypesKept, DeletedReleasesSlug, Exists
  <2> QED
    BY <1>1, <1>2, <1>3, <2>1, <2>2 DEF DrawerInv, DrawerTypeOK
<1>5. CASE ArchiveElsewhere(id)
  <2>1. elsewhere' \in 0..MaxElsewhere /\ UNCHANGED bookedTypes
    BY <1>2, <1>5, DrawerBoundsAssumption DEF ArchiveElsewhere
  <2>2. PICK state \in {"archived", "active"} :
          /\ types' = [types EXCEPT ![id].state = state]
          /\ deletedTypes' = deletedTypes \/ deletedTypes' = deletedTypes \ {id}
    BY <1>5 DEF ArchiveElsewhere
  <2>3. [types[id] EXCEPT !.state = state] \in EventType
        /\ [types[id] EXCEPT !.state = state].slug = types[id].slug
        /\ [types[id] EXCEPT !.state = state].state = state
    BY <1>2 DEF EventType
  <2>4. types' \in [TypeIds -> EventType]
        /\ types'[id].slug = types[id].slug /\ types'[id].state = state
        /\ \A other \in TypeIds : other # id => types'[other] = types[other]
    BY <1>2, <2>2, <2>3
  <2>5. \A other \in TypeIds : Exists(other) => Exists(other)'
    BY <2>4 DEF Exists
  <2>6. deletedTypes' \subseteq deletedTypes
    BY <2>2
  <2>7. DeletedReleasesSlug'
    BY <1>1, <1>2, <2>4, <2>6 DEF DrawerInv, TypesKept, DeletedReleasesSlug
  <2>8. TypesKept'
    BY <1>2, <2>1, <2>5, <2>6, <2>7 DEF DrawerInv, TypesKept, BookedTypesKept
  <2> QED
    BY <1>1, <1>2, <1>3, <2>1, <2>4, <2>6, <2>8 DEF DrawerInv, DrawerTypeOK
<1> QED
  BY <1>4, <1>5

-----------------------------------------------------------------------------
LEMMA DrawerSteps == DrawerInv /\ [DrawerNext]_typeVars => DrawerInv'
<1> SUFFICES ASSUME DrawerInv, [DrawerNext]_typeVars PROVE DrawerInv'
  OBVIOUS
<1>1. CASE UNCHANGED typeVars
  <2>1. UNCHANGED <<server, items, listing, deleting>>
        /\ UNCHANGED <<drawer, loads, hasty, saving, mixed>>
    BY <1>1 DEF typeVars, server
  <2> QED
    BY <2>1, TypesStay, FormStays, ServerTyped, DrawerTyped DEF DrawerInv, DrawerTypeOK
<1>2. CASE \/ ListAnswered \/ OpenCreateDrawer \/ CloseDrawer \/ HandleSave \/ SaveAnswered
           \/ DeleteAnswered
           \/ \E id \in TypeIds : OpenEditDrawer(id)
           \/ \E l \in Loads : EventTypeLoaded(l)
  BY <1>2, ListStep, CreateOpens, CloseStep, TypeSaveStep, SaveAnsweredStep, DeleteAnsweredStep,
     EditOpens, LoadedStep
<1>3. CASE \/ CreateType \/ UpdateChecked \/ UpdateType \/ DeleteType
           \/ \E id \in TypeIds : BookType(id) \/ ArchiveElsewhere(id)
  BY <1>3, TypeCreateStep, CheckStep, UpdateStep, DeleteStep, OthersStep
<1>4. CASE \/ \E id \in TypeIds : OpenDeleteModal(id)
           \/ CloseDeleteModal \/ ConfirmDelete \/ BookingsCounted
  BY <1>4, ModalStep
<1> QED
  BY <1>1, <1>2, <1>3, <1>4 DEF DrawerNext

LEMMA DrawerHolds == DrawerSpec => []DrawerInv
<1>1. TypesInit => DrawerInv
  BY DrawerStarts
<1>2. DrawerInv /\ [DrawerNext]_typeVars => DrawerInv'
  BY DrawerSteps
<1> QED
  BY <1>1, <1>2, PTL DEF DrawerSpec

\* Whoever waits for every load and save never saves the data of one event type
\* into another (handleSave), for any number of event types and GETs.
THEOREM FormsSavedOwn == DrawerSpec => []OwnFormSaved
<1>1. DrawerInv => OwnFormSaved
  BY DEF DrawerInv, FormKept
<1> QED
  BY <1>1, DrawerHolds, PTL

\* An event type with bookings is never deleted for good (delete), and one that
\* is deleted and kept has released its slug, but for a late PATCH.
THEOREM DeletionsSound == DrawerSpec => []DeletionSound
<1>1. DrawerInv => DeletionSound
  BY DEF DrawerInv, TypesKept, DeletionSound
<1> QED
  BY <1>1, DrawerHolds, PTL

-----------------------------------------------------------------------------
(* The accounts and their settings *)

\* No two people have one username.
UsernamesUnique ==
  \A p, q \in People : p # q /\ users[p].username = users[q].username
                         => users[p].username = Nobody

\* Of the settings a form saves, it says what the row of its owner says.
Current(f, form, user) ==
  IF f = "notifications" THEN form.reminders = user.reminders ELSE form.zone = user.zone

\* A form of a page that was loaded is current, or was edited.
FormsCurrent ==
  owner # NoOwner /\ ~loading /\ ~outdated =>
    \A f \in FormNames : forms[f].chosen \/ Current(f, forms[f], users[owner])

\* Who registers is not registered; who saves has opened the page, and saves what
\* he edited or, if nothing overtook what he loaded, what his row says.
RegisterSound(p, write) ==
  write.state # "none" => ~Registered(p) /\ write.username.name \in Names
SaveSound(p, f, write) ==
  write.state # "none" =>
    /\ p = owner
    /\ f = "profile" => write.username.name \in Names
    /\ ~outdated /\ ~loading /\ write.form.chosen => forms[f].chosen
    /\ ~outdated /\ ~write.form.chosen => Current(f, write.form, users[p])
SavesSound(p) == \A f \in FormNames : SaveSound(p, f, writes[p][f])
WritesSound == \A p \in People : RegisterSound(p, writes[p]["register"]) /\ SavesSound(p)

OwnerRegistered == (owner # NoOwner => Registered(owner)) /\ (loading => owner # NoOwner)

AccountsInv ==
  /\ AccountsTypeOK /\ UsernamesUnique /\ FormsCurrent /\ WritesSound /\ OwnerRegistered
  /\ SettingsChosen

LEMMA AccountRecords ==
  /\ Nobody \in Username /\ InitialForm \in Form
  /\ NoWrite \in Write /\ NoWrite.state = "none"
  /\ "register" \in WriteKinds /\ FormNames \subseteq WriteKinds /\ "register" \notin FormNames
BY InitialZoneAssumption DEF Nobody, Username, InitialForm, Form, NoWrite, Write, WriteKinds, FormNames

LEMMA AccountsStart == AccountsInit => AccountsInv
<1> SUFFICES ASSUME AccountsInit PROVE AccountsInv
  OBVIOUS
<1>1. AccountsTypeOK
  <2>1. [username |-> Nobody, zone |-> InitialZone, reminders |-> TRUE] \in User
    BY AccountRecords, InitialZoneAssumption DEF User
  <2>2. 0 \in 0..MaxSaves
    BY MaxSavesAssumption
  <2>3. users \in [People -> User] /\ forms \in [FormNames -> Form]
    BY <2>1, AccountRecords DEF AccountsInit
  <2>4. writes \in [People -> [WriteKinds -> Write]]
    BY AccountRecords DEF AccountsInit
  <2> QED
    BY <2>2, <2>3, <2>4 DEF AccountsInit, AccountsTypeOK
<1>2. UsernamesUnique /\ FormsCurrent /\ OwnerRegistered /\ SettingsChosen
  BY DEF AccountsInit, UsernamesUnique, FormsCurrent, OwnerRegistered, SettingsChosen
<1>3. WritesSound
  <2>1. \A p \in People : \A kind \in WriteKinds : writes[p][kind].state = "none"
    BY AccountRecords DEF AccountsInit
  <2> QED
    BY <2>1, AccountRecords DEF WritesSound, SavesSound, RegisterSound, SaveSound
<1> QED
  BY <1>1, <1>2, <1>3 DEF AccountsInv

LEMMA AccountTyped ==
  ASSUME AccountsInv, NEW p \in People
  PROVE  /\ users \in [People -> User] /\ users[p] \in User
         /\ users[p].username \in Username /\ users[p].zone \in Zones
         /\ writes \in [People -> [WriteKinds -> Write]] /\ writes[p] \in [WriteKinds -> Write]
         /\ \A kind \in WriteKinds : /\ writes[p][kind] \in Write
                                     /\ writes[p][kind].username \in Username
                                     /\ writes[p][kind].form \in Form
         /\ RegisterSound(p, writes[p]["register"])
         /\ \A f \in FormNames : SaveSound(p, f, writes[p][f])
BY DEF AccountsInv, AccountsTypeOK, WritesSound, SavesSound, User, Write

\* One request changes.
LEMMA WritesChange ==
  ASSUME AccountsInv, NEW p \in People, NEW kind \in WriteKinds, NEW new \in Write,
         writes' = [writes EXCEPT ![p][kind] = new]
  PROVE  /\ writes' \in [People -> [WriteKinds -> Write]] /\ writes'[p][kind] = new
         /\ \A k \in WriteKinds : k # kind => writes'[p][k] = writes[p][k]
         /\ \A q \in People : q # p => writes'[q] = writes[q]
<1> DEFINE row == [writes[p] EXCEPT ![kind] = new]
<1>1. row \in [WriteKinds -> Write] /\ row[kind] = new
      /\ \A k \in WriteKinds : k # kind => row[k] = writes[p][k]
  BY AccountTyped
<1>2. writes' = [writes EXCEPT ![p] = row]
  BY AccountTyped
<1> HIDE DEF row
<1> QED
  BY <1>1, <1>2, AccountTyped

\* A request moves on, to another state or its end.
LEMMA WriteMoves ==
  ASSUME AccountsInv, NEW p \in People, NEW kind \in WriteKinds, NEW new \in Write,
         writes' = [writes EXCEPT ![p][kind] = new],
         kind = "register" => RegisterSound(p, new),
         kind \in FormNames => SaveSound(p, kind, new),
         UNCHANGED <<users, settingsPage, outdated, unchosen>>, saves' \in 0..MaxSaves
  PROVE  AccountsInv'
<1>1. /\ writes' \in [People -> [WriteKinds -> Write]] /\ writes'[p][kind] = new
      /\ \A k \in WriteKinds : k # kind => writes'[p][k] = writes[p][k]
      /\ \A q \in People : q # p => writes'[q] = writes[q]
  BY WritesChange
<1>2. AccountsTypeOK'
  BY <1>1 DEF AccountsInv, AccountsTypeOK, settingsPage
<1>3. UsernamesUnique' /\ FormsCurrent' /\ OwnerRegistered' /\ SettingsChosen'
  BY DEF AccountsInv, UsernamesUnique, FormsCurrent, OwnerRegistered, SettingsChosen, Registered,
         settingsPage
<1>4. ASSUME NEW q \in People PROVE RegisterSound(q, writes[q]["register"])'
  <2>1. RegisterSound(q, writes'[q]["register"])
    BY <1>1, AccountTyped, AccountRecords
  <2> QED
    BY <2>1 DEF RegisterSound, Registered
<1>5. ASSUME NEW q \in People, NEW f \in FormNames PROVE SaveSound(q, f, writes[q][f])'
  <2>1. SaveSound(q, f, writes'[q][f])
    BY <1>1, AccountTyped, AccountRecords
  <2> QED
    BY <2>1 DEF SaveSound, settingsPage
<1> QED
  BY <1>2, <1>3, <1>4, <1>5 DEF AccountsInv, WritesSound, SavesSound

\* A request ends.
LEMMA WriteEnds ==
  ASSUME AccountsInv, NEW p \in People, NEW kind \in WriteKinds, Ends(p, kind),
         UNCHANGED <<users, settingsPage, saves, outdated, unchosen>>
  PROVE  AccountsInv'
<1>1. NoWrite \in Write /\ RegisterSound(p, NoWrite) /\ SaveSound(p, kind, NoWrite)
  BY AccountRecords DEF RegisterSound, SaveSound
<1>2. saves' \in 0..MaxSaves
  BY DEF AccountsInv, AccountsTypeOK
<1> QED
  BY <1>1, <1>2, WriteMoves DEF Ends

LEMMA RegisterStep ==
  ASSUME AccountsInv, NEW p \in People, NEW name \in PublicNames, NEW zone \in Zones,
         Register(p, name, zone)
  PROVE  AccountsInv'
<1> DEFINE username == [name |-> name, capitals |-> FALSE]
           form == [InitialForm EXCEPT !.zone = zone]
           new == [NoWrite EXCEPT !.state = "writing", !.username = username, !.form.zone = zone]
<1>1. username \in Username /\ form \in Form /\ name \in Names
  BY AccountRecords, PublicNamesAssumption DEF Username, Form
<1>2. new.state = "writing" /\ new.username = username /\ new.form = form
  BY DEF NoWrite
<1>3. new \in Write /\ new.username.name = name
  <2>1. NoWrite \in [state : {"none", "checking", "writing", "failed"}, username : Username,
                     form : [zone : Zones, reminders : BOOLEAN, chosen : BOOLEAN]]
    BY AccountRecords DEF Write, Form
  <2>2. new \in [state : {"none", "checking", "writing", "failed"}, username : Username,
                 form : [zone : Zones, reminders : BOOLEAN, chosen : BOOLEAN]]
    BY <1>1, <2>1
  <2> QED
    BY <1>2, <2>2 DEF Write, Form
<1> HIDE DEF new, form
<1>4. writes' = [writes EXCEPT ![p]["register"] = new] /\ ~Registered(p)
      /\ UNCHANGED <<users, settingsPage, saves, outdated, unchosen>>
  BY DEF Register, new
<1>5. RegisterSound(p, new)
  BY <1>1, <1>3, <1>4 DEF RegisterSound
<1>6. saves' \in 0..MaxSaves
  BY <1>4 DEF AccountsInv, AccountsTypeOK
<1> QED
  BY <1>3, <1>4, <1>5, <1>6, WriteMoves, AccountRecords

\* A row is written with a username that is free.
LEMMA UsernameWritten ==
  ASSUME AccountsInv, NEW p \in People, NEW user \in User,
         users' = [users EXCEPT ![p] = user], UsernameFree(p, user.username)
  PROVE  UsernamesUnique' /\ users' \in [People -> User]
<1>1. users' \in [People -> User] /\ users'[p] = user
      /\ \A q \in People : q # p => users'[q] = users[q]
  BY AccountTyped
<1>2. UsernamesUnique'
  BY <1>1 DEF AccountsInv, UsernamesUnique, UsernameFree
<1> QED
  BY <1>1, <1>2

LEMMA CreateUserStep ==
  ASSUME AccountsInv, NEW p \in People, CreateUser(p)
  PROVE  AccountsInv'
<1> DEFINE write == writes[p]["register"]
<1>1. Ends(p, "register") /\ write.state = "writing"
      /\ UNCHANGED <<settingsPage, saves, outdated, unchosen>>
  BY DEF CreateUser
<1>2. write \in Write /\ write.username \in Username /\ write.form \in Form
      /\ RegisterSound(p, write)
  BY AccountTyped, AccountRecords
<1>3. CASE UNCHANGED users
  BY <1>1, <1>3, WriteEnds, AccountRecords
<1>4. CASE ~UNCHANGED users
  <2> DEFINE user == [username |-> write.username, zone |-> write.form.zone, reminders |-> TRUE]
  <2>1. users' = [users EXCEPT ![p] = user] /\ UsernameFree(p, user.username)
    BY <1>4 DEF CreateUser
  <2>2. user \in User
    BY <1>2 DEF User, Form
  <2>3. user.username # Nobody /\ ~Registered(p)
    BY <1>1, <1>2, NoNameAssumption DEF RegisterSound, Nobody
  <2> HIDE DEF user, write
  <2>4. UsernamesUnique' /\ users' \in [People -> User]
    BY <2>1, <2>2, UsernameWritten
  <2>5. \A q \in People : q # p => users'[q] = users[q]
    BY <2>1, AccountTyped
  <2>6. owner # p /\ (owner # NoOwner => users'[owner] = users[owner] /\ owner \in People)
    BY <2>3, <2>5, NoNameAssumption DEF AccountsInv, AccountsTypeOK, OwnerRegistered
  <2>7. /\ writes' \in [People -> [WriteKinds -> Write]] /\ writes'[p]["register"] = NoWrite
        /\ \A k \in WriteKinds : k # "register" => writes'[p][k] = writes[p][k]
        /\ \A q \in People : q # p => writes'[q] = writes[q]
    BY <1>1, AccountRecords, WritesChange DEF Ends
  <2>8. AccountsTypeOK'
    BY <1>1, <2>4, <2>7 DEF AccountsInv, AccountsTypeOK, settingsPage
  <2>9. FormsCurrent' /\ OwnerRegistered' /\ SettingsChosen'
    BY <1>1, <2>6 DEF AccountsInv, FormsCurrent, OwnerRegistered, Registered, SettingsChosen,
                      settingsPage
  <2>10. ASSUME NEW q \in People PROVE RegisterSound(q, writes[q]["register"])'
    <3>1. CASE q = p
      BY <2>7, <3>1, AccountRecords DEF RegisterSound
    <3>2. CASE q # p
      BY <2>5, <2>7, <3>2, AccountTyped DEF RegisterSound, Registered
    <3> QED
      BY <3>1, <3>2
  <2>11. ASSUME NEW q \in People, NEW f \in FormNames PROVE SaveSound(q, f, writes[q][f])'
    <3>1. writes'[q][f] = writes[q][f] /\ SaveSound(q, f, writes[q][f])
      BY <2>7, AccountTyped, AccountRecords
    <3>2. CASE q = p
      BY <1>1, <2>6, <3>1, <3>2 DEF SaveSound, settingsPage
    <3>3. CASE q # p
      BY <1>1, <2>5, <3>1, <3>3 DEF SaveSound, settingsPage
    <3> QED
      BY <3>2, <3>3
  <2> QED
    BY <2>4, <2>8, <2>9, <2>10, <2>11 DEF AccountsInv, WritesSound, SavesSound
<1> QED
  BY <1>3, <1>4

LEMMA CheckUsernameStep ==
  ASSUME AccountsInv, NEW p \in People, CheckUsername(p)
  PROVE  AccountsInv'
<1> DEFINE write == writes[p]["profile"]
<1>1. write.state = "checking" /\ UNCHANGED <<users, settingsPage, saves, outdated, unchosen>>
  BY DEF CheckUsername
<1>2. PICK state \in {"writing", "failed"} : writes' = [writes EXCEPT ![p]["profile"].state = state]
  BY DEF CheckUsername
<1>3. "profile" \in FormNames /\ "profile" \in WriteKinds /\ "profile" # "register"
  BY DEF FormNames, WriteKinds
<1> DEFINE new == [write EXCEPT !.state = state]
<1>4. writes' = [writes EXCEPT ![p]["profile"] = new]
  BY <1>2, <1>3, AccountTyped
<1>5. write \in Write /\ SaveSound(p, "profile", write)
  BY <1>3, AccountTyped
<1>6. new \in Write /\ new.username = write.username /\ new.form = write.form
  BY <1>5 DEF Write
<1> HIDE DEF new, write
<1>7. SaveSound(p, "profile", new)
  BY <1>1, <1>5, <1>6 DEF SaveSound
<1>8. saves' \in 0..MaxSaves
  BY <1>1 DEF AccountsInv, AccountsTypeOK
<1> QED
  BY <1>1, <1>3, <1>4, <1>6, <1>7, <1>8, WriteMoves

-----------------------------------------------------------------------------
(* The settings page *)

\* The page is loaded anew: what was edited is forgotten.
LEMMA LoadStep ==
  ASSUME AccountsInv, NEW p \in People, LoadSettings(p)
  PROVE  AccountsInv'
<1>1. Registered(p) /\ owner \in {p, NoOwner}
      /\ owner' = p /\ loading' = TRUE /\ forms' = [f \in FormNames |-> InitialForm]
      /\ UNCHANGED <<users, writes, saves, outdated, unchosen>>
  BY DEF LoadSettings
<1>2. AccountsTypeOK'
  BY <1>1, AccountRecords DEF AccountsInv, AccountsTypeOK
<1>3. UsernamesUnique' /\ FormsCurrent' /\ OwnerRegistered' /\ SettingsChosen'
  BY <1>1, NoNameAssumption
  DEF AccountsInv, UsernamesUnique, FormsCurrent, OwnerRegistered, SettingsChosen, Registered
<1>4. ASSUME NEW q \in People PROVE RegisterSound(q, writes[q]["register"])'
  BY <1>1, AccountTyped DEF RegisterSound, Registered
<1>5. ASSUME NEW q \in People, NEW f \in FormNames PROVE SaveSound(q, f, writes[q][f])'
  <2>1. SaveSound(q, f, writes[q][f])
    BY AccountTyped
  <2> QED
    BY <1>1, <2>1, NoNameAssumption DEF SaveSound
<1> QED
  BY <1>2, <1>3, <1>4, <1>5 DEF AccountsInv, WritesSound, SavesSound

\* What was loaded beside a save may be outdated.
LEMMA SettingsAnsweredStep ==
  ASSUME AccountsInv, SettingsAnswered
  PROVE  AccountsInv'
<1>1. loading /\ loading' = FALSE /\ UNCHANGED <<users, owner, writes, saves, unchosen>>
  BY DEF SettingsAnswered
<1>2. owner \in People /\ users[owner] \in User
  BY <1>1 DEF AccountsInv, AccountsTypeOK, OwnerRegistered
<1>3. \/ outdated' = TRUE /\ UNCHANGED forms
      \/ outdated' = StillSaving(owner) /\ forms' = FormsLoaded(users[owner])
  BY DEF SettingsAnswered
<1>4. Shows(users[owner]) \in Form /\ \A f \in FormNames : Current(f, Shows(users[owner]), users[owner])
  BY <1>2 DEF Shows, Form, User, Current
<1>5. forms' \in [FormNames -> Form]
  BY <1>3, <1>4 DEF FormsLoaded, AccountsInv, AccountsTypeOK
<1>6. outdated' \in BOOLEAN
  BY <1>3 DEF StillSaving
<1>7. AccountsTypeOK'
  BY <1>1, <1>5, <1>6 DEF AccountsInv, AccountsTypeOK
<1>8. FormsCurrent'
  BY <1>1, <1>3, <1>4 DEF FormsCurrent, FormsLoaded
<1>9. UsernamesUnique' /\ OwnerRegistered' /\ SettingsChosen'
  BY <1>1 DEF AccountsInv, UsernamesUnique, OwnerRegistered, SettingsChosen, Registered
<1>10. ASSUME NEW q \in People PROVE RegisterSound(q, writes[q]["register"])'
  BY <1>1, AccountTyped DEF RegisterSound, Registered
<1>11. ASSUME NEW q \in People, NEW f \in FormNames PROVE SaveSound(q, f, writes[q][f])'
  <2>1. SaveSound(q, f, writes[q][f])
    BY AccountTyped
  <2>2. CASE writes[q][f].state = "none"
    BY <1>1, <2>2 DEF SaveSound
  <2>3. CASE writes[q][f].state # "none"
    <3>1. q = owner /\ outdated' = TRUE
      BY <1>3, <2>1, <2>3 DEF SaveSound, StillSaving
    <3> QED
      BY <1>1, <2>1, <3>1 DEF SaveSound
  <2> QED
    BY <2>2, <2>3
<1> QED
  BY <1>7, <1>8, <1>9, <1>10, <1>11 DEF AccountsInv, WritesSound, SavesSound

LEMMA EditFormStep ==
  ASSUME AccountsInv, NEW f \in FormNames, NEW zone \in Zones, NEW reminders \in BOOLEAN,
         EditForm(f, zone, reminders)
  PROVE  AccountsInv'
<1> DEFINE new == [zone |-> zone, reminders |-> reminders, chosen |-> TRUE]
<1>1. forms' = [forms EXCEPT ![f] = new]
      /\ UNCHANGED <<users, owner, loading, writes, saves, outdated, unchosen>>
  BY DEF EditForm
<1>2. new \in Form /\ new.chosen
  BY DEF Form
<1> HIDE DEF new
<1>3. forms' \in [FormNames -> Form] /\ forms'[f].chosen
      /\ \A g \in FormNames : g # f => forms'[g] = forms[g]
  BY <1>1, <1>2 DEF AccountsInv, AccountsTypeOK
<1>4. AccountsTypeOK'
  BY <1>1, <1>3 DEF AccountsInv, AccountsTypeOK
<1>5. FormsCurrent'
  BY <1>1, <1>3 DEF AccountsInv, FormsCurrent
<1>6. UsernamesUnique' /\ OwnerRegistered' /\ SettingsChosen'
  BY <1>1 DEF AccountsInv, UsernamesUnique, OwnerRegistered, SettingsChosen, Registered
<1>7. ASSUME NEW q \in People PROVE RegisterSound(q, writes[q]["register"])'
  BY <1>1, AccountTyped DEF RegisterSound, Registered
<1>8. ASSUME NEW q \in People, NEW g \in FormNames PROVE SaveSound(q, g, writes[q][g])'
  <2>1. SaveSound(q, g, writes[q][g])
    BY AccountTyped
  <2>2. forms[g].chosen => forms'[g].chosen
    BY <1>3
  <2> QED
    BY <1>1, <2>1, <2>2 DEF SaveSound
<1> QED
  BY <1>4, <1>5, <1>6, <1>7, <1>8 DEF AccountsInv, WritesSound, SavesSound

LEMMA SaveFormStep ==
  ASSUME AccountsInv, NEW f \in FormNames, NEW username \in [name : Names, capitals : BOOLEAN],
         SaveForm(f, username)
  PROVE  AccountsInv'
<1> DEFINE new == [state |-> IF f = "profile" THEN "checking" ELSE "writing",
                   username |-> username, form |-> forms[f]]
<1>1. owner \in People /\ ~loading /\ saves < MaxSaves /\ saves' = saves + 1
      /\ writes' = [writes EXCEPT ![owner][f] = new]
      /\ UNCHANGED <<users, settingsPage, outdated, unchosen>>
  BY DEF SaveForm, AccountsInv, AccountsTypeOK
<1>2. forms[f] \in Form /\ username \in Username /\ username.name \in Names
  BY DEF AccountsInv, AccountsTypeOK, Username
<1>3. new \in Write /\ new.form = forms[f] /\ new.username = username
  BY <1>2 DEF Write
<1> HIDE DEF new
<1>4. ~outdated /\ ~forms[f].chosen => Current(f, forms[f], users[owner])
  BY <1>1, NoNameAssumption DEF AccountsInv, FormsCurrent
<1>5. SaveSound(owner, f, new)
  BY <1>1, <1>2, <1>3, <1>4 DEF SaveSound
<1>6. saves' \in 0..MaxSaves
  BY <1>1, MaxSavesAssumption DEF AccountsInv, AccountsTypeOK
<1> QED
  BY <1>1, <1>3, <1>5, <1>6, WriteMoves, AccountRecords

\* What a save writes: the settings of its form, and no others.
LEMMA SavedSettings ==
  ASSUME AccountsInv, NEW p \in People, NEW f \in FormNames, writes[p][f].state # "none"
  PROVE  LET user == Saved(users[p], f, writes[p][f]) IN
         /\ user \in User
         /\ user.username # Nobody \/ user.username = users[p].username
         /\ f = "notifications" => user.zone = users[p].zone
                                   /\ user.reminders = writes[p][f].form.reminders
         /\ f # "notifications" => user.reminders = users[p].reminders
                                   /\ user.zone = writes[p][f].form.zone
<1> DEFINE write == writes[p][f]
<1>1. users[p] \in User /\ write \in Write /\ write.username \in Username /\ write.form \in Form
      /\ SaveSound(p, f, write) /\ write.state # "none"
  BY AccountTyped, AccountRecords
<1> HIDE DEF write
<1>2. write.form.zone \in Zones /\ write.form.reminders \in BOOLEAN
      /\ f \in {"profile", "notifications", "scheduling"}
  BY <1>1 DEF Form, FormNames
<1>3. CASE f = "profile"
  <2>1. write.username # Nobody
    BY <1>1, <1>3, NoNameAssumption DEF SaveSound, Nobody
  <2>2. Saved(users[p], f, write) =
          [users[p] EXCEPT !.username = write.username, !.zone = write.form.zone]
    BY <1>3 DEF Saved
  <2> QED
    BY <1>1, <1>2, <1>3, <2>1, <2>2 DEF User, write
<1>4. CASE f = "notifications"
  <2>1. Saved(users[p], f, write) = [users[p] EXCEPT !.reminders = write.form.reminders]
    BY <1>4 DEF Saved
  <2> QED
    BY <1>1, <1>2, <1>4, <2>1 DEF User, write
<1>5. CASE f = "scheduling"
  <2>1. Saved(users[p], f, write) = [users[p] EXCEPT !.zone = write.form.zone]
    BY <1>5 DEF Saved
  <2> QED
    BY <1>1, <1>2, <1>5, <2>1 DEF User, write
<1> QED
  BY <1>2, <1>3, <1>4, <1>5

LEMMA WriteSettingsStep ==
  ASSUME AccountsInv, NEW p \in People, NEW f \in FormNames, WriteSettings(p, f)
  PROVE  AccountsInv'
<1> DEFINE write == writes[p][f]
           user == Saved(users[p], f, write)
<1>1. write.state = "writing" /\ UsernameFree(p, user.username)
      /\ users' = [users EXCEPT ![p] = user]
      /\ unchosen' = (unchosen \/ (~write.form.chosen /\ ~outdated
                        /\ <<user.zone, user.reminders>> # <<users[p].zone, users[p].reminders>>))
      /\ outdated' = (outdated \/ user.zone # users[p].zone)
      /\ writes' = [writes EXCEPT ![p][f] = NoWrite] /\ UNCHANGED <<settingsPage, saves>>
  BY DEF WriteSettings, Ends
<1>2. p = owner /\ (~outdated /\ ~loading /\ write.form.chosen => forms[f].chosen)
      /\ (~outdated /\ ~write.form.chosen => Current(f, write.form, users[p]))
  BY <1>1, AccountTyped DEF SaveSound
<1>3. /\ user \in User
      /\ user.username # Nobody \/ user.username = users[p].username
      /\ f = "notifications" => user.zone = users[p].zone /\ user.reminders = write.form.reminders
      /\ f # "notifications" => user.reminders = users[p].reminders /\ user.zone = write.form.zone
  BY <1>1, SavedSettings
<1>4. ~outdated /\ ~write.form.chosen => user.zone = users[p].zone /\ user.reminders = users[p].reminders
  BY <1>2, <1>3 DEF Current
<1> HIDE DEF user, write
<1>5. UsernamesUnique' /\ users' \in [People -> User]
  BY <1>1, <1>3, UsernameWritten
<1>6. users'[p] = user /\ \A q \in People : q # p => users'[q] = users[q]
  BY <1>1, AccountTyped
<1>7. /\ writes' \in [People -> [WriteKinds -> Write]] /\ writes'[p][f] = NoWrite
      /\ \A k \in WriteKinds : k # f => writes'[p][k] = writes[p][k]
      /\ \A q \in People : q # p => writes'[q] = writes[q]
  BY <1>1, AccountRecords, WritesChange
<1>8. outdated' \in BOOLEAN /\ unchosen' = FALSE
  BY <1>1, <1>4 DEF AccountsInv, AccountsTypeOK, SettingsChosen
<1>9. AccountsTypeOK'
  BY <1>1, <1>5, <1>7, <1>8 DEF AccountsInv, AccountsTypeOK, settingsPage
<1>10. OwnerRegistered' /\ SettingsChosen'
  BY <1>1, <1>2, <1>3, <1>6, <1>8 DEF AccountsInv, OwnerRegistered, SettingsChosen, Registered,
                                       settingsPage
<1>11. ASSUME ~outdated', NEW g \in FormNames, ~loading, ~forms[g].chosen
       PROVE  Current(g, forms[g], user)
  <2>1. ~outdated /\ user.zone = users[p].zone
    BY <1>1, <1>11
  <2>2. Current(g, forms[g], users[p])
    BY <1>2, <1>11, <2>1, NoNameAssumption DEF AccountsInv, FormsCurrent
  <2>3. g = "notifications" => user.reminders = users[p].reminders
    BY <1>2, <1>3, <1>4, <1>11, <2>1
  <2> QED
    BY <2>1, <2>2, <2>3 DEF Current
<1>12. FormsCurrent'
  BY <1>1, <1>2, <1>6, <1>11 DEF FormsCurrent, settingsPage
<1>13. ASSUME NEW q \in People PROVE RegisterSound(q, writes[q]["register"])'
  <2>1. writes'[q]["register"] = writes[q]["register"]
    BY <1>7, AccountRecords
  <2>2. Registered(q)' => Registered(q)
    BY <1>2, <1>6, <1>3, NoNameAssumption DEF Registered, AccountsInv, OwnerRegistered
  <2> QED
    BY <2>1, <2>2, AccountTyped DEF RegisterSound
<1>14. ASSUME NEW q \in People, NEW g \in FormNames PROVE SaveSound(q, g, writes[q][g])'
  <2>1. CASE writes'[q][g].state = "none"
    BY <2>1 DEF SaveSound
  <2>2. CASE writes'[q][g].state # "none"
    <3>1. writes'[q][g] = writes[q][g] /\ q = p /\ g # f /\ SaveSound(q, g, writes[q][g])
      BY <1>2, <1>7, <2>2, AccountTyped, AccountRecords DEF SaveSound
    <3>2. ASSUME ~outdated', ~writes[q][g].form.chosen
          PROVE  Current(g, writes[q][g].form, user)
      <4>1. ~outdated /\ user.zone = users[p].zone /\ Current(g, writes[q][g].form, users[p])
        BY <1>1, <2>2, <3>1, <3>2 DEF SaveSound
      <4>2. g = "notifications" => user.reminders = users[p].reminders
        BY <1>3, <3>1
      <4> QED
        BY <4>1, <4>2 DEF Current
    <3> QED
      BY <1>1, <1>6, <3>1, <3>2 DEF SaveSound, settingsPage
  <2> QED
    BY <2>1, <2>2
<1> QED
  BY <1>5, <1>9, <1>10, <1>12, <1>13, <1>14 DEF AccountsInv, WritesSound, SavesSound

-----------------------------------------------------------------------------
LEMMA AccountsSteps == AccountsInv /\ [AccountsNext]_accountVars => AccountsInv'
<1> SUFFICES ASSUME AccountsInv, [AccountsNext]_accountVars PROVE AccountsInv'
  OBVIOUS
<1>1. CASE UNCHANGED accountVars
  BY <1>1 DEF accountVars, AccountsInv, AccountsTypeOK, UsernamesUnique, FormsCurrent, WritesSound,
              SavesSound, RegisterSound, SaveSound, OwnerRegistered, Registered, SettingsChosen
<1>2. CASE AccountsNext
  <2>1. ASSUME NEW p \in People, NEW f \in FormNames, SaveRefused(p, f) PROVE AccountsInv'
    BY <2>1, WriteEnds, AccountRecords DEF SaveRefused
  <2> QED
    BY <1>2, <2>1, SettingsAnsweredStep, LoadStep, CreateUserStep, CheckUsernameStep, WriteSettingsStep,
       RegisterStep, EditFormStep, SaveFormStep DEF AccountsNext
<1> QED
  BY <1>1, <1>2

LEMMA AccountsHold == AccountsSpec => []AccountsInv
<1>1. AccountsInit => AccountsInv
  BY AccountsStart
<1>2. AccountsInv /\ [AccountsNext]_accountVars => AccountsInv'
  BY AccountsSteps
<1> QED
  BY <1>1, <1>2, PTL DEF AccountsSpec

\* A public link leads to its host and to nobody else, for any number of people
\* who register and rename themselves, if his name is one that usernameSchema
\* admits and has no capitals (createUser, updateProfile, getPublicHostProfile).
THEOREM LinksLeadHome == AccountsSpec => []LinkLeadsHome
<1>1. AccountsInv => LinkLeadsHome
  <2> SUFFICES ASSUME AccountsInv, NEW p \in People, Registered(p), ~users[p].username.capitals,
                      users[p].username.name \in PublicNames
               PROVE  Hosts(users[p].username) = {p}
    BY DEF LinkLeadsHome
  <2>1. users[p].username \in Username
    BY AccountTyped
  <2>2. Lower(users[p].username) = users[p].username
    BY <2>1 DEF Lower, Username
  <2> QED
    BY <2>2 DEF Hosts, Registered, AccountsInv, UsernamesUnique
<1> QED
  BY <1>1, AccountsHold, PTL

\* No save changes a setting its host did not choose, while nothing he loaded
\* was overtaken (the three forms of dashboard/settings/page.tsx).
THEOREM ChoicesSaved == AccountsSpec => []SettingsChosen
<1>1. AccountsInv => SettingsChosen
  BY DEF AccountsInv
<1> QED
  BY <1>1, AccountsHold, PTL

-----------------------------------------------------------------------------
(* The meetings *)

\* "seen" was once the row of a meeting whose row is "row" by now.
Earlier(row, seen) == row = Gone \/ seen.sequence < row.sequence \/ seen = row

\* Each change counts the sequence on, and each is an act.
SequencesBounded == \A m \in MeetingIds : rows[m].sequence <= acts

CardsEarlier == \A m \in MeetingIds : cards[m] # Gone => Earlier(rows[m], cards[m])

\* The drawer shows a card.
SelectedShown == selected # NoMeeting => cards[selected] # Gone

ModalEarlier ==
  modal.kind # "none" =>
    modal.id \in MeetingIds /\ modal.row # Gone /\ Earlier(rows[modal.id], modal.row)

SentEarlier ==
  \A kind \in Kinds :
    sent[kind].state \in {"sent", "checked"} =>
      /\ sent[kind].id \in MeetingIds /\ sent[kind].row # Gone
      /\ Earlier(rows[sent[kind].id], sent[kind].row)

\* A rescheduling that was sent has a start.
SentStart ==
  sent["reschedule"].state = "sent" => sent["reschedule"].start \in Starts

\* A reason is that of the dialog, unless one was left with Escape.
ReasonInPlace ==
  reason # NoMeeting /\ ~escaped => modal.kind = "cancel" /\ modal.id = reason

MeetingsInv ==
  /\ MeetingsTypeOK /\ SequencesBounded
  /\ CardsEarlier /\ SelectedShown /\ ModalEarlier /\ SentEarlier /\ SentStart
  /\ ReasonInPlace
  /\ ActsOnShownMeeting /\ ReasonOfItsMeeting

-----------------------------------------------------------------------------
LEMMA GoneTyped == Gone \in Meeting
BY MeetingBoundsAssumption DEF Gone, Meeting

LEMMA NoModalTyped == NoModal \in Modal
BY GoneTyped DEF NoModal, Modal, SomeMeeting

LEMMA NotSentTyped == NotSent \in Sent
BY GoneTyped DEF NotSent, Sent, SomeMeeting

LEMMA MeetingsStart == MeetingsInit => MeetingsInv
<1> SUFFICES ASSUME MeetingsInit PROVE MeetingsInv
  OBVIOUS
<1> USE DEF MeetingsInit
<1>1. rows \in [MeetingIds -> Meeting]
  BY MeetingBoundsAssumption DEF Meeting
<1>2. \A m \in MeetingIds : rows[m].sequence = 0
  OBVIOUS
<1>3. cards \in [MeetingIds -> Meeting] /\ sent \in [Kinds -> Sent]
  BY GoneTyped, NotSentTyped
<1>4. modal \in Modal
  BY NoModalTyped
<1>5. acts \in 0..MaxActs /\ selected \in SomeMeeting /\ reason \in SomeMeeting
  BY MeetingBoundsAssumption DEF SomeMeeting
<1>6. MeetingsTypeOK
  BY <1>1, <1>3, <1>4, <1>5 DEF MeetingsTypeOK
<1>7. SequencesBounded
  BY <1>2 DEF SequencesBounded
<1>8. modal.kind = "none"
  BY DEF NoModal
<1>9. \A kind \in Kinds : sent[kind].state = "none"
  BY DEF NotSent
<1>10. CardsEarlier /\ SelectedShown /\ ModalEarlier /\ ReasonInPlace
  BY <1>8 DEF CardsEarlier, SelectedShown, ModalEarlier, ReasonInPlace
<1>11. SentEarlier /\ SentStart
  BY <1>9 DEF SentEarlier, SentStart, Kinds
<1> QED
  BY <1>6, <1>7, <1>10, <1>11 DEF MeetingsInv, ActsOnShownMeeting, ReasonOfItsMeeting

-----------------------------------------------------------------------------
(* The rows stay *)

\* What the page does: the rows and the acts stay, and what it holds of a
\* meeting it was shown.
LEMMA PageStep ==
  ASSUME MeetingsInv, UNCHANGED <<rows, acts, unseen, strayed>>, MeetingsTypeOK',
         CardsEarlier', SelectedShown', ModalEarlier', SentEarlier', SentStart', ReasonInPlace'
  PROVE  MeetingsInv'
BY DEF MeetingsInv, SequencesBounded, ActsOnShownMeeting, ReasonOfItsMeeting

LEMMA FetchedStep == MeetingsInv /\ BookingsFetched => MeetingsInv'
<1> SUFFICES ASSUME MeetingsInv, BookingsFetched PROVE MeetingsInv'
  OBVIOUS
<1> USE DEF BookingsFetched, hostHistory
<1>1. MeetingsTypeOK'
  BY DEF MeetingsInv, MeetingsTypeOK, SomeMeeting
<1>2. CardsEarlier'
  BY DEF MeetingsInv, CardsEarlier, Earlier
<1>3. SelectedShown'
  BY DEF MeetingsInv, SelectedShown
<1>4. ModalEarlier' /\ SentEarlier' /\ SentStart' /\ ReasonInPlace'
  BY DEF MeetingsInv, ModalEarlier, SentEarlier, SentStart, ReasonInPlace
<1> QED
  BY <1>1, <1>2, <1>3, <1>4, PageStep

LEMMA DrawerStep ==
  ASSUME MeetingsInv, CloseDetails \/ \E m \in MeetingIds : SelectMeeting(m)
  PROVE  MeetingsInv'
<1> USE DEF SelectMeeting, CloseDetails, hostHistory
<1>1. MeetingsTypeOK'
  BY DEF MeetingsInv, MeetingsTypeOK, SomeMeeting
<1>2. CardsEarlier' /\ SelectedShown'
  BY DEF MeetingsInv, CardsEarlier, SelectedShown
<1>3. ModalEarlier' /\ SentEarlier' /\ SentStart' /\ ReasonInPlace'
  BY DEF MeetingsInv, ModalEarlier, SentEarlier, SentStart, ReasonInPlace
<1> QED
  BY <1>1, <1>2, <1>3, PageStep

LEMMA OpenModalStep ==
  ASSUME MeetingsInv, NEW kind \in Kinds, OpenModal(kind)
  PROVE  MeetingsInv'
<1> USE DEF OpenModal, hostHistory, NoDialog
<1>1. selected \in MeetingIds /\ cards[selected] \in Meeting
  BY DEF MeetingsInv, MeetingsTypeOK, SomeMeeting
<1>2. modal' \in Modal
  BY <1>1 DEF Modal, SomeMeeting
<1>3. MeetingsTypeOK'
  BY <1>2 DEF MeetingsInv, MeetingsTypeOK
<1>4. ModalEarlier'
  BY <1>1 DEF MeetingsInv, CardsEarlier, SelectedShown, ModalEarlier
<1>5. CardsEarlier' /\ SelectedShown' /\ SentEarlier' /\ SentStart' /\ ReasonInPlace'
  BY DEF MeetingsInv, CardsEarlier, SelectedShown, SentEarlier, SentStart, ReasonInPlace
<1> QED
  BY <1>3, <1>4, <1>5, PageStep

LEMMA MeetingDialogStep ==
  ASSUME MeetingsInv, TypeReason \/ CloseModal \/ PressEscape
  PROVE  MeetingsInv'
<1> USE DEF TypeReason, CloseModal, PressEscape, Cleared, hostHistory, NoDialog
<1>1. modal' \in Modal /\ reason' \in SomeMeeting /\ escaped' \in BOOLEAN
  BY NoModalTyped DEF MeetingsInv, MeetingsTypeOK, Modal, SomeMeeting
<1>2. MeetingsTypeOK'
  BY <1>1 DEF MeetingsInv, MeetingsTypeOK
<1>3. ModalEarlier'
  BY DEF MeetingsInv, ModalEarlier, NoModal
<1>4. ReasonInPlace'
  <2>1. CASE TypeReason
    BY <2>1 DEF ReasonInPlace
  <2>2. CASE CloseModal
    BY <2>2 DEF MeetingsInv, ReasonInPlace
  <2>3. CASE PressEscape
    BY <2>3 DEF MeetingsInv, ReasonInPlace, MeetingsTypeOK
  <2> QED
    BY <2>1, <2>2, <2>3
<1>5. CardsEarlier' /\ SelectedShown' /\ SentEarlier' /\ SentStart'
  BY DEF MeetingsInv, CardsEarlier, SelectedShown, SentEarlier, SentStart
<1> QED
  BY <1>2, <1>3, <1>4, <1>5, PageStep

\* A request takes over what the dialog was opened with, and its reason, which
\* is the dialog's.
LEMMA ConfirmStep ==
  ASSUME MeetingsInv, NEW kind \in Kinds, NEW start \in Starts \cup {NoStart},
         Confirm(kind, start)
  PROVE  MeetingsInv'
<1> DEFINE request == [state |-> "sent", id |-> modal.id, row |-> modal.row, start |-> start]
<1> USE DEF Confirm, meetingPage
<1>1. request \in Sent
  BY DEF MeetingsInv, MeetingsTypeOK, Modal, Sent
<1>2. sent' = [sent EXCEPT ![kind] = request] /\ sent \in [Kinds -> Sent]
  BY DEF MeetingsInv, MeetingsTypeOK
<1>3. kind # "none" /\ modal.kind = kind
  BY DEF Kinds
<1>4. ~strayed'
  BY DEF MeetingsInv, ReasonInPlace, ReasonOfItsMeeting
<1>5. MeetingsTypeOK'
  BY <1>1, <1>2, <1>4 DEF MeetingsInv, MeetingsTypeOK
<1>6. SentEarlier'
  BY <1>2, <1>3 DEF MeetingsInv, SentEarlier, ModalEarlier
<1>7. SentStart'
  BY <1>2 DEF MeetingsInv, SentStart, Kinds
<1>8. CardsEarlier' /\ SelectedShown' /\ ModalEarlier' /\ ReasonInPlace' /\ SequencesBounded'
      /\ ActsOnShownMeeting'
  BY DEF MeetingsInv, CardsEarlier, SelectedShown, ModalEarlier, ReasonInPlace, SequencesBounded,
         ActsOnShownMeeting
<1> QED
  BY <1>4, <1>5, <1>6, <1>7, <1>8 DEF MeetingsInv, ReasonOfItsMeeting

\* Replies and answers take a request away.
LEMMA ReplyTyped ==
  ASSUME MeetingsInv, NEW kind \in Kinds, NEW state \in {"none", "done", "refused"},
         sent' = [sent EXCEPT ![kind] = [NotSent EXCEPT !.state = state]]
  PROVE  /\ sent' \in [Kinds -> Sent]
         /\ \A k \in Kinds : sent'[k].state \in {"sent", "checked"} => sent'[k] = sent[k]
<1>1. [NotSent EXCEPT !.state = state] \in Sent
  BY NotSentTyped DEF Sent
<1>2. [NotSent EXCEPT !.state = state].state = state
  BY DEF NotSent
<1> QED
  BY <1>1, <1>2 DEF MeetingsInv, MeetingsTypeOK

LEMMA MeetingAnsweredStep ==
  ASSUME MeetingsInv, NEW kind \in Kinds, HostAnswered(kind)
  PROVE  MeetingsInv'
<1> USE DEF HostAnswered, hostHistory
<1>1. sent' = [sent EXCEPT ![kind] = [NotSent EXCEPT !.state = "none"]]
  BY DEF NotSent
<1>2. /\ sent' \in [Kinds -> Sent]
      /\ \A k \in Kinds : sent'[k].state \in {"sent", "checked"} => sent'[k] = sent[k]
  BY <1>1, ReplyTyped
<1>3. modal' \in Modal /\ reason' \in SomeMeeting
  BY NoModalTyped DEF MeetingsInv, MeetingsTypeOK, SomeMeeting
<1>4. MeetingsTypeOK'
  BY <1>2, <1>3 DEF MeetingsInv, MeetingsTypeOK
<1>5. SentEarlier' /\ SentStart'
  BY <1>2 DEF MeetingsInv, SentEarlier, SentStart, Kinds
<1>6. ModalEarlier' /\ ReasonInPlace'
  BY DEF MeetingsInv, ModalEarlier, ReasonInPlace, NoModal
<1>7. CardsEarlier' /\ SelectedShown'
  BY DEF MeetingsInv, CardsEarlier, SelectedShown
<1> QED
  BY <1>4, <1>5, <1>6, <1>7, PageStep

LEMMA RefuseStep ==
  ASSUME MeetingsInv, NEW kind \in Kinds, Refuse(kind) \/ (CancelledAlready /\ kind = "cancel")
  PROVE  MeetingsInv'
<1> USE DEF Refuse, CancelledAlready, Replies, hostHistory, meetingPage
<1>1. /\ sent' \in [Kinds -> Sent]
      /\ \A k \in Kinds : sent'[k].state \in {"sent", "checked"} => sent'[k] = sent[k]
  BY ReplyTyped
<1>2. MeetingsTypeOK'
  BY <1>1 DEF MeetingsInv, MeetingsTypeOK
<1>3. SentEarlier' /\ SentStart'
  BY <1>1 DEF MeetingsInv, SentEarlier, SentStart, Kinds
<1>4. CardsEarlier' /\ SelectedShown' /\ ModalEarlier' /\ ReasonInPlace'
  BY DEF MeetingsInv, CardsEarlier, SelectedShown, ModalEarlier, ReasonInPlace
<1> QED
  BY <1>2, <1>3, <1>4, PageStep

LEMMA CheckDeletionStep == MeetingsInv /\ CheckDeletion => MeetingsInv'
<1> SUFFICES ASSUME MeetingsInv, CheckDeletion PROVE MeetingsInv'
  OBVIOUS
<1> USE DEF CheckDeletion, hostHistory, meetingPage
<1>1. sent["delete"] \in Sent /\ sent \in [Kinds -> Sent]
  BY DEF MeetingsInv, MeetingsTypeOK, Kinds
<1>2. [sent["delete"] EXCEPT !.state = "checked"] \in Sent
  BY <1>1 DEF Sent
<1>3. sent' \in [Kinds -> Sent]
  BY <1>1, <1>2
<1>4. MeetingsTypeOK'
  BY <1>3 DEF MeetingsInv, MeetingsTypeOK
<1>5. SentEarlier'
  BY <1>1 DEF MeetingsInv, SentEarlier, Sent
<1>6. SentStart'
  BY <1>1 DEF MeetingsInv, SentStart
<1>7. CardsEarlier' /\ SelectedShown' /\ ModalEarlier' /\ ReasonInPlace'
  BY DEF MeetingsInv, CardsEarlier, SelectedShown, ModalEarlier, ReasonInPlace
<1> QED
  BY <1>4, <1>5, <1>6, <1>7, PageStep

-----------------------------------------------------------------------------
(* The rows change *)

\* A row that is changed is gone, or has a higher sequence.
Newer(row, old) == row = Gone \/ row.sequence = old.sequence + 1

LEMMA StillEarlier ==
  ASSUME NEW seen \in Meeting, NEW old \in Meeting, NEW row \in Meeting,
         Earlier(old, seen), Newer(row, old), old # Gone
  PROVE  Earlier(row, seen)
<1>1. seen.sequence \in Nat /\ old.sequence \in Nat
  BY MeetingBoundsAssumption DEF Meeting
<1>2. seen.sequence <= old.sequence
  BY <1>1 DEF Earlier
<1> QED
  BY <1>1, <1>2 DEF Earlier, Newer

\* What is held of the meetings survives a change of one row.
LEMMA RowStep ==
  ASSUME MeetingsInv, NEW m \in MeetingIds, NEW row \in Meeting,
         rows[m] # Gone, Newer(row, rows[m]),
         rows' = [rows EXCEPT ![m] = row],
         UNCHANGED meetingPage, UNCHANGED escaped,
         sent' \in [Kinds -> Sent],
         \A k \in Kinds : sent'[k].state \in {"sent", "checked"} => sent'[k] = sent[k]
  PROVE  /\ rows' \in [MeetingIds -> Meeting]
         /\ CardsEarlier' /\ SelectedShown' /\ ModalEarlier' /\ SentEarlier' /\ SentStart'
         /\ ReasonInPlace'
<1> USE DEF meetingPage
<1>1. rows \in [MeetingIds -> Meeting] /\ cards \in [MeetingIds -> Meeting]
      /\ modal \in Modal /\ sent \in [Kinds -> Sent]
  BY DEF MeetingsInv, MeetingsTypeOK
<1>2. rows' \in [MeetingIds -> Meeting]
  BY <1>1
<1>3. ASSUME NEW n \in MeetingIds, NEW seen \in Meeting, Earlier(rows[n], seen)
      PROVE  Earlier(rows'[n], seen)
  <2>1. CASE n = m
    BY <1>1, <1>3, <2>1, StillEarlier
  <2>2. CASE n # m
    BY <1>1, <1>3, <2>2
  <2> QED
    BY <2>1, <2>2
<1>4. CardsEarlier'
  BY <1>1, <1>3 DEF MeetingsInv, CardsEarlier
<1>5. ModalEarlier'
  BY <1>1, <1>3 DEF MeetingsInv, ModalEarlier, Modal
<1>6. SentEarlier'
  <2> SUFFICES ASSUME NEW k \in Kinds, sent'[k].state \in {"sent", "checked"}
               PROVE  /\ sent'[k].id \in MeetingIds /\ sent'[k].row # Gone
                      /\ Earlier(rows'[sent'[k].id], sent'[k].row)
    BY DEF SentEarlier
  <2>1. sent'[k] = sent[k] /\ sent[k].row \in Meeting
    BY <1>1 DEF Sent
  <2> QED
    BY <1>3, <2>1 DEF MeetingsInv, SentEarlier
<1>7. SentStart' /\ SelectedShown' /\ ReasonInPlace'
  BY DEF MeetingsInv, SentStart, SelectedShown, ReasonInPlace, Kinds
<1> QED
  BY <1>2, <1>4, <1>5, <1>6, <1>7

\* Cancelling and rescheduling count the sequence, as long as the acts last.
LEMMA RescheduledRow ==
  ASSUME MeetingsInv, NEW m \in MeetingIds, acts < MaxActs, NEW start \in Starts
  PROVE  Rescheduled(rows[m], start) \in Meeting /\ Newer(Rescheduled(rows[m], start), rows[m])
<1>1. rows[m] \in Meeting /\ acts \in 0..MaxActs /\ rows[m].sequence <= acts
  BY DEF MeetingsInv, MeetingsTypeOK, SequencesBounded
<1>2. rows[m].sequence \in 0..MaxActs
  BY <1>1 DEF Meeting
<1>3. rows[m].sequence + 1 \in 0..MaxActs
  BY <1>1, <1>2, MeetingBoundsAssumption
<1> QED
  BY <1>1, <1>3 DEF Rescheduled, Meeting, Newer

LEMMA CancelledRow ==
  ASSUME MeetingsInv, NEW m \in MeetingIds, acts < MaxActs
  PROVE  Cancelled(rows[m]) \in Meeting /\ Newer(Cancelled(rows[m]), rows[m])
<1>1. rows[m] \in Meeting /\ acts \in 0..MaxActs /\ rows[m].sequence <= acts
  BY DEF MeetingsInv, MeetingsTypeOK, SequencesBounded
<1>2. rows[m].sequence \in 0..MaxActs
  BY <1>1 DEF Meeting
<1>3. rows[m].sequence + 1 \in 0..MaxActs
  BY <1>1, <1>2, MeetingBoundsAssumption
<1> QED
  BY <1>1, <1>3 DEF Cancelled, Meeting, Newer

\* The acts are counted with the sequences.
LEMMA ActCounted ==
  ASSUME MeetingsInv, acts < MaxActs, acts' = acts + 1,
         NEW m \in MeetingIds, NEW row \in Meeting,
         row.sequence = rows[m].sequence + 1, rows' = [rows EXCEPT ![m] = row]
  PROVE  acts' \in 0..MaxActs /\ SequencesBounded'
<1>1. rows \in [MeetingIds -> Meeting] /\ acts \in 0..MaxActs
  BY DEF MeetingsInv, MeetingsTypeOK
<1>2. \A n \in MeetingIds : rows[n].sequence \in 0..MaxActs /\ rows[n].sequence <= acts
  BY <1>1 DEF MeetingsInv, SequencesBounded, Meeting
<1>3. \A n \in MeetingIds : rows'[n] = IF n = m THEN row ELSE rows[n]
  BY <1>1
<1>4. \A n \in MeetingIds : rows'[n].sequence <= acts + 1
  BY <1>1, <1>2, <1>3, MeetingBoundsAssumption
<1>5. SequencesBounded'
  BY <1>4 DEF SequencesBounded
<1>6. acts' \in 0..MaxActs
  BY <1>1, MeetingBoundsAssumption
<1> QED
  BY <1>5, <1>6

\* The attendees' changes and the host's, but for what the request was sent with.
LEMMA ActStep ==
  ASSUME MeetingsInv, acts < MaxActs, acts' = acts + 1,
         NEW m \in MeetingIds, rows[m] # Gone,
         NEW row \in Meeting, row.sequence = rows[m].sequence + 1,
         rows' = [rows EXCEPT ![m] = row],
         UNCHANGED meetingPage, UNCHANGED <<escaped, unseen, strayed>>,
         sent' \in [Kinds -> Sent],
         \A k \in Kinds : sent'[k].state \in {"sent", "checked"} => sent'[k] = sent[k]
  PROVE  MeetingsInv'
<1>1. Newer(row, rows[m])
  BY DEF Newer
<1>2. /\ rows' \in [MeetingIds -> Meeting]
      /\ CardsEarlier' /\ SelectedShown' /\ ModalEarlier' /\ SentEarlier' /\ SentStart'
      /\ ReasonInPlace'
  BY <1>1, RowStep
<1>3. acts' \in 0..MaxActs /\ SequencesBounded'
  BY ActCounted
<1>4. MeetingsTypeOK'
  BY <1>2, <1>3 DEF MeetingsInv, MeetingsTypeOK, meetingPage
<1> QED
  BY <1>2, <1>3, <1>4 DEF MeetingsInv, ActsOnShownMeeting, ReasonOfItsMeeting

\* The sequence of the request is that of the row: it is the row the host saw.
LEMMA MeetingCommitStep ==
  ASSUME MeetingsInv, NEW kind \in Kinds, Commit(kind)
  PROVE  MeetingsInv'
<1> DEFINE id == sent[kind].id
           row == IF kind = "cancel" THEN Cancelled(rows[id])
                                     ELSE Rescheduled(rows[id], sent[kind].start)
<1>1. /\ sent[kind].state = "sent" /\ rows[id] # Gone /\ acts < MaxActs
      /\ kind \in {"cancel", "reschedule"}
      /\ rows[id].sequence = sent[kind].row.sequence
      /\ rows' = [rows EXCEPT ![id] = row] /\ acts' = acts + 1
      /\ unseen' = (unseen \/ ~SameAs(rows[id], sent[kind].row))
      /\ sent' = [sent EXCEPT ![kind] = [NotSent EXCEPT !.state = "done"]]
      /\ UNCHANGED meetingPage /\ UNCHANGED <<escaped, strayed>>
  BY DEF Commit, Replies
<1>2. /\ id \in MeetingIds /\ Earlier(rows[id], sent[kind].row)
      /\ rows[id] \in Meeting /\ sent[kind].row \in Meeting
  BY <1>1 DEF MeetingsInv, MeetingsTypeOK, SentEarlier, Sent
<1>3. sent[kind].row = rows[id]
  <2>1. rows[id].sequence \in 0..MaxActs
    BY <1>2 DEF Meeting
  <2>2. ~(sent[kind].row.sequence < rows[id].sequence)
    BY <1>1, <2>1, MeetingBoundsAssumption
  <2> QED
    BY <1>1, <1>2, <2>2 DEF Earlier
<1>4. unseen' = FALSE /\ unseen = FALSE
  BY <1>1, <1>3 DEF MeetingsInv, MeetingsTypeOK, ActsOnShownMeeting, SameAs
<1>5. row \in Meeting /\ row.sequence = rows[id].sequence + 1
  <2>1. CASE kind = "cancel"
    <3>1. Cancelled(rows[id]) \in Meeting
      BY <1>1, <1>2, CancelledRow
    <3>2. Cancelled(rows[id]).sequence = rows[id].sequence + 1
      BY <1>2 DEF Cancelled, Meeting
    <3> QED
      BY <2>1, <3>1, <3>2
  <2>2. CASE kind = "reschedule"
    <3>1. sent[kind].start \in Starts
      BY <1>1, <2>2 DEF MeetingsInv, SentStart
    <3>2. Rescheduled(rows[id], sent[kind].start) \in Meeting
      BY <1>1, <1>2, <3>1, RescheduledRow
    <3> QED
      BY <2>2, <3>2 DEF Rescheduled
  <2> QED
    BY <1>1, <2>1, <2>2
<1>6. /\ sent' \in [Kinds -> Sent]
      /\ \A k \in Kinds : sent'[k].state \in {"sent", "checked"} => sent'[k] = sent[k]
  BY <1>1, ReplyTyped
<1> HIDE DEF id, row
<1> QED
  BY <1>1, <1>2, <1>4, <1>5, <1>6, ActStep

LEMMA AttendeeStep ==
  ASSUME MeetingsInv, NEW m \in MeetingIds,
         AttendeeCancels(m) \/ \E start \in Starts : AttendeeReschedules(m, start)
  PROVE  MeetingsInv'
<1> USE DEF hostHistory
<1>1. rows[m] \in Meeting /\ sent \in [Kinds -> Sent]
  BY DEF MeetingsInv, MeetingsTypeOK
<1>2. CASE AttendeeCancels(m)
  <2> DEFINE row == Cancelled(rows[m])
  <2>1. row \in Meeting /\ row.sequence = rows[m].sequence + 1
    <3>1. row \in Meeting
      BY <1>2, CancelledRow DEF AttendeeCancels
    <3>2. row.sequence = rows[m].sequence + 1
      BY <1>1 DEF Cancelled, Meeting
    <3> QED
      BY <3>1, <3>2
  <2>2. rows' = [rows EXCEPT ![m] = row] /\ acts < MaxActs /\ acts' = acts + 1
        /\ UNCHANGED meetingPage /\ UNCHANGED sent /\ UNCHANGED <<escaped, unseen, strayed>>
    BY <1>2 DEF AttendeeCancels
  <2>3. rows[m] # Gone
    BY <1>2 DEF AttendeeCancels, Gone
  <2> HIDE DEF row
  <2> QED
    BY <1>1, <2>1, <2>2, <2>3, ActStep
<1>3. CASE \E start \in Starts : AttendeeReschedules(m, start)
  <2>1. PICK start \in Starts : AttendeeReschedules(m, start)
    BY <1>3
  <2> DEFINE row == Rescheduled(rows[m], start)
  <2>2. row \in Meeting
    BY <2>1, RescheduledRow DEF AttendeeReschedules
  <2>3. row.sequence = rows[m].sequence + 1
    BY DEF Rescheduled
  <2>4. rows' = [rows EXCEPT ![m] = row] /\ acts < MaxActs /\ acts' = acts + 1
        /\ UNCHANGED meetingPage /\ UNCHANGED sent /\ UNCHANGED <<escaped, unseen, strayed>>
        /\ rows[m] # Gone
    BY <2>1 DEF AttendeeReschedules
  <2> HIDE DEF row
  <2> QED
    BY <1>1, <2>2, <2>3, <2>4, ActStep
<1> QED
  BY <1>2, <1>3

\* A deletion changes a row without an act.
LEMMA DeletionStep == MeetingsInv /\ CommitDeletion => MeetingsInv'
<1> SUFFICES ASSUME MeetingsInv, CommitDeletion PROVE MeetingsInv'
  OBVIOUS
<1> DEFINE id == sent["delete"].id
<1>1. /\ sent["delete"].state = "checked" /\ rows[id] # Gone
      /\ rows' = [rows EXCEPT ![id] = Gone]
      /\ sent' = [sent EXCEPT !["delete"] = [NotSent EXCEPT !.state = "done"]]
      /\ UNCHANGED meetingPage /\ UNCHANGED <<acts, escaped, unseen, strayed>>
  BY DEF CommitDeletion, Replies, hostHistory
<1>2. id \in MeetingIds /\ "delete" \in Kinds
  BY <1>1 DEF MeetingsInv, SentEarlier, Kinds
<1>3. Newer(Gone, rows[id])
  BY DEF Newer
<1>4. /\ sent' \in [Kinds -> Sent]
      /\ \A k \in Kinds : sent'[k].state \in {"sent", "checked"} => sent'[k] = sent[k]
  BY <1>1, <1>2, ReplyTyped
<1>5. SequencesBounded'
  <2>1. rows \in [MeetingIds -> Meeting] /\ acts \in 0..MaxActs /\ Gone.sequence = 0
    BY DEF MeetingsInv, MeetingsTypeOK, Gone
  <2>2. \A n \in MeetingIds : rows'[n] = IF n = id THEN Gone ELSE rows[n]
    BY <1>1, <2>1
  <2>3. 0 <= acts
    BY <2>1
  <2> QED
    BY <1>1, <2>1, <2>2, <2>3 DEF MeetingsInv, SequencesBounded
<1> HIDE DEF id
<1>6. /\ rows' \in [MeetingIds -> Meeting]
      /\ CardsEarlier' /\ SelectedShown' /\ ModalEarlier' /\ SentEarlier' /\ SentStart'
      /\ ReasonInPlace'
  BY <1>1, <1>2, <1>3, <1>4, GoneTyped, RowStep
<1>7. MeetingsTypeOK'
  BY <1>1, <1>4, <1>6 DEF MeetingsInv, MeetingsTypeOK, meetingPage
<1> QED
  BY <1>1, <1>5, <1>6, <1>7 DEF MeetingsInv, ActsOnShownMeeting, ReasonOfItsMeeting

-----------------------------------------------------------------------------
LEMMA MeetingsStutter == MeetingsInv /\ UNCHANGED meetingVars => MeetingsInv'
<1> SUFFICES ASSUME MeetingsInv, UNCHANGED meetingVars PROVE MeetingsInv'
  OBVIOUS
<1> USE DEF meetingVars
<1>1. MeetingsTypeOK' /\ SequencesBounded'
  BY DEF MeetingsInv, MeetingsTypeOK, SequencesBounded
<1>2. CardsEarlier' /\ SelectedShown' /\ ModalEarlier' /\ SentEarlier' /\ SentStart'
  BY DEF MeetingsInv, CardsEarlier, SelectedShown, ModalEarlier, SentEarlier, SentStart
<1> QED
  BY <1>1, <1>2 DEF MeetingsInv, ReasonInPlace, ActsOnShownMeeting, ReasonOfItsMeeting

LEMMA MeetingsSteps == MeetingsInv /\ [MeetingsNext]_meetingVars => MeetingsInv'
<1> SUFFICES ASSUME MeetingsInv, [MeetingsNext]_meetingVars PROVE MeetingsInv'
  OBVIOUS
<1>1. CASE UNCHANGED meetingVars
  BY <1>1, MeetingsStutter
<1>2. CASE BookingsFetched \/ CloseDetails \/ TypeReason \/ CloseModal \/ PressEscape
  BY <1>2, FetchedStep, DrawerStep, MeetingDialogStep
<1>3. CASE CancelledAlready \/ CheckDeletion \/ CommitDeletion
  BY <1>3, RefuseStep, CheckDeletionStep, DeletionStep DEF Kinds
<1>4. CASE \E kind \in Kinds :
             \/ OpenModal(kind) \/ HostAnswered(kind) \/ Commit(kind) \/ Refuse(kind)
             \/ \E start \in Starts \cup {NoStart} : Confirm(kind, start)
  BY <1>4, OpenModalStep, MeetingAnsweredStep, MeetingCommitStep, RefuseStep, ConfirmStep
<1>5. CASE \E m \in MeetingIds :
             \/ SelectMeeting(m) \/ AttendeeCancels(m)
             \/ \E start \in Starts : AttendeeReschedules(m, start)
  BY <1>5, DrawerStep, AttendeeStep
<1> QED
  BY <1>1, <1>2, <1>3, <1>4, <1>5 DEF MeetingsNext

LEMMA MeetingsHold == MeetingsSpec => []MeetingsInv
<1>1. MeetingsInit => MeetingsInv
  BY MeetingsStart
<1>2. MeetingsInv /\ [MeetingsNext]_meetingVars => MeetingsInv'
  BY MeetingsSteps
<1> QED
  BY <1>1, <1>2, PTL DEF MeetingsSpec

\* The page of meetings and the table keep their shapes: in particular a
\* sequence is never counted on further than the changes that were made.
THEOREM MeetingsTyped == MeetingsSpec => []MeetingsTypeOK
<1>1. MeetingsInv => MeetingsTypeOK
  BY DEF MeetingsInv
<1> QED
  BY <1>1, MeetingsHold, PTL

\* However old the list, the drawer or the dialog is, a request of the host
\* changes a meeting only as he was shown it (the sequence the PATCH carries).
THEOREM ShownMeetingsChanged == MeetingsSpec => []ActsOnShownMeeting
<1>1. MeetingsInv => ActsOnShownMeeting
  BY DEF MeetingsInv
<1> QED
  BY <1>1, MeetingsHold, PTL

\* A reason for cancelling goes with the meeting it was typed for, unless the
\* host left a dialog with Escape (cancelReason of the page).
THEOREM ReasonsKept == MeetingsSpec => []ReasonOfItsMeeting
<1>1. MeetingsInv => ReasonOfItsMeeting
  BY DEF MeetingsInv
<1> QED
  BY <1>1, MeetingsHold, PTL

-----------------------------------------------------------------------------
(* The dashboard *)

\* Every page, whichever of them is in focus.
DashboardInv ==
  /\ AccountsInv /\ AvailabilityInv /\ DrawerInv
  /\ GoogleInv /\ IntegrationsInv /\ MeetingsInv

LEMMA DashboardStarts == DashboardInit => DashboardInv
BY AccountsStart, AvailabilityStarts, DrawerStarts, InvInit, IntegrationsStart, MeetingsStart
DEF DashboardInit, DashboardInv

LEMMA DashboardSteps == DashboardInv /\ [DashboardNext]_dashboardVars => DashboardInv'
<1> SUFFICES ASSUME DashboardInv,
                    [AccountsNext]_accountVars, [AvailabilityNext]_scheduleVars,
                    [DrawerNext]_typeVars, [GoogleNext]_googleVars,
                    [IntegrationsNext]_integrationVars, [MeetingsNext]_meetingVars
             PROVE  DashboardInv'
  BY DEF DashboardNext, dashboardVars
<1> QED
  BY AccountsSteps, AvailabilitySteps, DrawerSteps, InvNext, IntegrationsSteps, MeetingsSteps
  DEF DashboardInv

\* Every variable of the dashboard keeps its type, whichever page is in focus.
THEOREM DashboardTyped == DashboardSpec => []DashboardTypeOK
<1>1. DashboardInit => DashboardInv
  BY DashboardStarts
<1>2. DashboardInv /\ [DashboardNext]_dashboardVars => DashboardInv'
  BY DashboardSteps
<1>3. DashboardInv => DashboardTypeOK
  BY GoogleInvTyped
  DEF DashboardInv, DashboardTypeOK, AccountsInv, AvailabilityInv, DrawerInv, IntegrationsInv, MeetingsInv
<1> QED
  BY <1>1, <1>2, <1>3, PTL DEF DashboardSpec
=============================================================================
