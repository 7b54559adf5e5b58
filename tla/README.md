# Sched, specified and verified in TLA+

Sched is a scheduling service: hosts publish event types and working hours, and
attendees book, move and cancel meetings with them. A NestJS API keeps
everything in PostgreSQL through Prisma; two background workers deliver the
emails and the Google Calendar changes that the bookings cause; a Next.js
application is the booking page of the attendees and the dashboard of the
hosts. This directory holds TLA+ specifications of that service, small
instances of them for TLC, and proofs checked by TLAPS. Paths of the code are
relative to the repository; `bookings.service.ts` stands for
`apps/api/src/bookings/bookings.service.ts`, and so on.

## 1. Inventory

| Part | State it keeps | Operations | What makes it correct | Here |
|---|---|---|---|---|
| **Booking service** (`bookings/`) | `bookings`, `booking_reschedule_history`; writes both outboxes | create, reschedule, cancel, delete, update the attendee's email | no two confirmed bookings of a host overlap; no update is lost; the history is the chain of moves; nothing is left of a deleted booking; a request always ends | `Bookings`, `BookingLedger` |
| **Notification outbox, writers** (`notifications.service.ts`) | `notification_jobs` | enqueue confirmation, reschedule, cancellation and reminder jobs; withdraw pending reminders | one notice per change and party; the reminders that wait are those of the present, as far as no worker has hold of them | `NotificationJobs` |
| **Notification outbox, worker** (`notifications.processor.ts`) | job status, attempts, lock time | recover stale jobs, claim, deliver, record success or failure | every due job is sent or dead-lettered; no reminder for a booking that is off; nothing sent twice if nobody crashed | `NotificationOutbox` |
| **Calendar sync worker** (`calendar-sync.processor.ts`, `google-calendar.provider.ts`) | `calendar_sync_jobs`, `external_calendar_events`, Google's calendars | recover, claim, make Google agree with the booking's present state, retry | what the mapping says of Google is so; no job is completed without its call | `CalendarSync` |
| **Google integration** (`google-calendar.service.ts`) | `calendar_integrations`, nonces in memory | connect, callback, refresh tokens, choose a calendar, disconnect, revoke | erased secrets stay erased; a connection can be refreshed | `GoogleConnection`; the row as the page sees it in `IntegrationsPage` |
| **Slots** (`slots.service.ts`) | none | compute the starts an event type offers | offered starts are in the working hours, clear of bookings and buffers | `Slots` (the arithmetic on the UTC line), `SlotDates` (dates and zones) |
| **Event types** (`event-types.service.ts`) | `event_types` | create, edit, archive, unarchive, delete (soft if it has bookings) | no booking loses its event type; a deleted one releases its slug | `EventTypeDrawer`; in `Bookings`, the edits a booking can meet |
| **Custom questions** (`custom-questions-parser.ts`) | a JSON column of the event type, one of the booking | write, read, validate answers | what is saved is asked; an answer stays with its question | `Questions` |
| **Schedules** (`schedules.service.ts`) | `schedules`, `intervals`, `overrides` | read (creating a default on first use), replace | a replacement is whole | `Availability` |
| **Accounts and settings** (`auth/`, `identity/`, `settings/`) | `users`, `sessions` | register, login, logout, profile, notification and scheduling settings, password | unique handles; a link leads to its host and to nobody else; a save writes what was chosen | `Accounts` (without sessions) |
| **Public booking page** (`app/public/[username]/[eventSlug]/page.tsx`) | date, zone, slots, form, calls on their way | load slots, pick, submit, show a conflict or a duplicate | the slots are those of the date; one form is one booking; it never waits for nothing | `BookingPage`, `Questions` |
| **Dashboard** (`event-type-list.tsx`, `event-type-drawer.tsx`, `availability-editor.tsx`, `dashboard/bookings/page.tsx`, `dashboard/settings/page.tsx`, `dashboard/integrations/page.tsx`) | lists, forms and dialogs, calls on their way | edit and delete event types, edit hours, move, cancel and delete meetings, save settings, choose calendars | what is stored is what the host saw and meant | `EventTypeDrawer`, `Availability`, `Meetings`, `Accounts`, `IntegrationsPage` |
| Audit, analytics, email templates, other pages, shared infrastructure, CI | audit rows; else none | append, read, format | | not modelled (section 8) |

**How the parts interact.** A booking request reads the event type, the
schedule, other bookings and the integration, may ask Google whether the host
is busy, and then opens one transaction. In it the booking row, the history
row, the notification jobs and the calendar sync job are written together
(transactional outbox). The workers share only the database with the requests:
they claim jobs with `FOR UPDATE SKIP LOCKED`, act on the outside world, and
write the result by job id. The event type, the schedule and the integration
can change at any moment, also between the reads and the transaction of a
request. The sync worker and the free/busy look-up take Google's tokens from
the integration's row, refresh them when they are near their end, and write
what they got, or the revocation they learnt of, back into it. The pages of the
web application hold copies of what the API answered some time ago, show the
answers in the order in which they arrive, and send what the user decides over
those copies; no page is told of a change made elsewhere.

**What is hard.** All transactions run at READ COMMITTED: a check by SELECT does
not see a concurrent insert, so the in-transaction collision check promises
nothing by itself, and what a request has read before its transaction may be
out of date inside it. Requests wait for each other's row locks, in more than
one order. A cancelled booking can come back to life. Reminders have to be
withdrawn and rewritten. The workers crash between an external effect and its
record, and a call to Google may have its effect although its answer is lost. A
connection is refreshed, erased and made anew by calls that know nothing of
each other. The pages take late answers for present ones, keep one field for
several dialogs, and enable a button before what it acts on is there. The full
list, each entry at its line of code, is under `hazards` in `PROJECT.json`,
with the properties that cover it.

## 2. Modules

    Slots   NotificationJobs     BookingLedger (abstract)
       \        /                     :
        Bookings .....................:  implements
        /      \
    MCBookings  Bookings_proofs --- BookingsLedger_proofs
                               \--- BookingsRecords_proofs

        NotificationOutbox                      CalendarSync
        /      \                                /      \
    MCNotificationOutbox                  MCCalendarSync
             NotificationOutbox_proofs             CalendarSync_proofs

    SlotDates
        |
    BookingPage   Questions
           \       /
          MCBookingPage --- BookingPage_proofs

    Accounts   Availability   EventTypeDrawer   Meetings   GoogleConnection   IntegrationsPage
           \________\_________________|____________/______________/______________/  |
                                 MCDashboard                                   Google_proofs
                                      \______________ Dashboard_proofs ____________/

The detailed model of bookings is shown to implement an atomic ledger, and where
another module needs bookings it takes that ledger's operations: the two
workers in full, `BookingPage`, `Meetings` and `EventTypeDrawer` the part of
them their properties can tell apart.

**`Slots`**: `computeAvailableSlots` as a predicate. A window of working hours
is an interval of ticks, already in UTC; the module keeps the buffers inside
the window, the step (the duration capped at 30 minutes), the strict `>` of the
notice and the blocking by existing bookings. **`SlotDates`**: `zonedTimeToUtc`,
which moves a local time by the offset its zone has at the same time read as
UTC, and `formatDateInTimezone`; offsets change over the instants, so that the
one guess of the code can be wrong.

**`NotificationJobs`**: the writers of the outbox as operators from the set of
rows before a call to the set after it. A row is its idempotency key, its
recipient, its due time, its status and the part of the snapshot that matters
(the times). An upsert with `update: {}` leaves a row with the same key alone. What
a worker makes of a row is stated there too: `ClaimedJob`, `RecoveredJob`, and
the `WorkerResults` it may write by id, late and more than once; a row counts
the workers that hold it (`workers`) and remembers whether one of them handed
it back or gave it up (`failed`). `NotificationOutbox` has these workers in
full.

**`Bookings`**: the tables, and the requests in flight (`reqs`) as small state
machines. A request takes one step for each point at which another one can get
in between:

| Code | Actions |
|---|---|
| `createBooking` (49-296) | before the transaction `CreateAsk` (the event type, the notice), `CreateOffer` (the slot list), `CreateValidate` (the integration, free/busy); in it `CreateCollisionCheck` (the SELECT), `CreateCommit` (the inserts, under the exclusion constraint) |
| `listHostBookings`, `getPublicBooking` (298-349) | `LoadPage`: the client takes the sequence it will send as `expectedSequence` |
| `rescheduleBooking` (351-604) | `RescheduleRead` (before the transaction), `RescheduleLock` (`FOR UPDATE` and the checks made under it), `RescheduleCommit` (all the writes) |
| `cancelBooking` (606-710) | `CancelLock` (`FOR UPDATE` and the checks made under it), `CancelCommit` (the writes, for which the reminder rows may have to be waited for); `LeavePage` for the answers that change nothing |
| `deleteByHost` (795-820) | `DeleteRead` (the status check, outside the transaction), `DeleteChildren` (the `deleteMany`s), `DeleteRow` |
| `updateAttendeeEmail` (822-845) | `UpdateAttendeeEmail` |
| an error answer, a timeout, a crash | `Fail`, `Abort` |
| PostgreSQL breaking a deadlock | `DeadlockVictim` |
| the outbox worker (`notifications.processor.ts` 59-135, 263-387), as far as it moves reminders | `ClaimReminder`, `RecoverReminder`, `FinishReminder` |
| `EventTypesService.update`, `archive`, `unarchive` | `UpdateEventType`, `ArchiveEventType` |
| `GoogleCalendarService.disconnect`, callback, preferences | `ChangeIntegration` |

PostgreSQL is modelled by what the code relies on. `RowLocked` is the row lock
of `FOR UPDATE`. `ExclusionHolds` is the constraint
`no_overlapping_confirmed_bookings` of the migration: a conflicting writer
waits for the other's commit, so the check and the commit are one step.
`NoOtherChildren` is `ON DELETE RESTRICT`. `BeingDeleted` are the rows an open
deletion has removed, on which the worker waits, and a reschedule or a
cancellation that has locked its booking (`updateMany` of pending reminders,
`RemindersLocked`), while the deletion may wait for that lock: the deadlock is a
state of the model, and `DeadlockVictim` its resolution. What a transaction has written and not committed is kept in its
request and is in no table, as others see it.

**`BookingLedger`**: what the service promises to its users: appointments that
are booked, moved, cancelled and removed at once, in a ledger where no two
confirmed ones of a host overlap. `Bookings!ImplementsLedger` is the refinement:
every step of the detailed model is one ledger operation or changes nothing in
the ledger.

**`NotificationOutbox`**: the workers over the table. Each API process has one
sweep (`workers[w]`), in which another process, a request or the clock can get
in between at every `await`:

| Code (`notifications.processor.ts`) | Actions |
|---|---|
| `recoverStaleJobs` (59-79) | `Recover`, the first step of a sweep: every `PROCESSING` row with a stale lock becomes `PENDING` |
| `claimPendingJobs` (84-135) | `Claim`: one statement; `SKIP LOCKED` makes the claims of two workers disjoint. At most `Limit` rows; the rows come back with the `attempts` they had (`read`) |
| the loop of `processPendingJobs` (140-174) | `Continue`: the next job or the end of the sweep, after each result |
| `deliverJob` up to the send (176-315) | `Begin`: for a reminder, the pre-check of the booking's status |
| `emailProvider.send` (318-325) | `Mail`, or `DeliverFails`: the mail may have gone out although the worker sees an error |
| `SENT` (327-336), `CANCELLED` (269-280) | `MarkSent`, `Skip`: written by id, whatever the row says by now (`Record`); a row that is gone makes the worker abandon its batch |
| `handleJobFailure` (341-387) | `MarkFailed`: attempts counted from what was read at the claim |
| a crash or restart | `Stop`: the claimed rows stay `PROCESSING` |
| time | `BecomeDue` (`next_run_at` passes), `LockExpires` (five minutes over a lock nobody holds), `WorkerStalls` (the same over a lock whose worker is still busy, with this job or with those before it in its batch) |
| the booking service | `Book`, `Reschedule`, `Cancel`, `DeleteBooking`, as the ledger operations they were shown to be: the booking, its withdrawn reminders (`Withdrawn`, only `PENDING` rows) and its new rows in one step |

A job is a row that may come to be written, with its kind (a reminder or a
notice) and booking fixed. Mails, failures and recoveries are counted beside
the rows, because the rows do not remember them.

**`CalendarSync`**: the sweeps of the sync worker, like those of the outbox, and
Google's calendars. An event's id is computed from its booking, so that
`events[calendar][booking]` is never there, present or deleted; Google refuses to
insert an id it knows, also a deleted one, and a patch changes the times but not
the status.

| Code (`calendar-sync.processor.ts`, `google-calendar.provider.ts`) | Actions |
|---|---|
| `recoverStaleJobs`, `claimPendingJobs` (50-126) | `Recover`, `Claim` |
| `syncJob` up to the integration (167-201) | `Begin`: the booking as it is by now, and the sequence check; `ReadIntegration`: a host who is not connected completes the job |
| `getValidCredentials` | `Authorise`, or `GrantRefused`, which revokes the integration; what it does to the stored tokens is `GoogleConnection` |
| `syncEvent` (provider 252-341) | `InsertEvent`, and after a 409 `PatchEvent` |
| `deleteEvent` (provider 346-367) | `DeleteEvent`: an event that is not there counts as deleted |
| an error, a time-out | `SyncFails`: at any step, and at a call with or without its effect |
| the mapping (212-287) | `RecordMapping`: an upsert with the job's calendar for a confirmed booking; an update that leaves the calendar alone for a cancelled one |
| `markJobCompleted` (296-306) | `Complete`: by id; a row that is gone makes the worker abandon its batch |
| `handleJobFailure` (308-368) | `MarkFailed` or, for a refused grant, `RevokeAgain`; then `FlagMapping` |
| a crash, time | `Stop`; `BecomeDue`, `LockExpires`, `WorkerStalls` |
| the host | `ChangeIntegration`: disconnects, connects, selects another calendar |
| the booking service | `Book`, `Reschedule`, `Cancel`, `DeleteBooking`, each with the row it writes if the host is connected, for the calendar selected by then |

**`BookingPage`**: the page of one attendee and the two handlers it calls. The
calls of `loadSlots` and `handleBookSubmit` are kept in `fetches` and `posts`,
as many at a time as their sets allow, answered in any order or never.

| Code (`public/[username]/[eventSlug]/page.tsx`, `bookings.service.ts`) | Actions |
|---|---|
| `loadEvent`, the effect on date and zone (105-165) | `LoadEvent`, `SelectDate`, `SelectTimezone`: the selected slot is dropped and `loadSlots` is called |
| `loadSlots` (144-159), `getSlots` of the API | `SlotsArrive`, `SlotsFail`: whichever answer comes is shown, and ends the wait |
| the slot list and the form (580-728) | `PickSlot`, `ChangeSlot`, `DismissDuplicate`, `DismissConflict` |
| `handleBookSubmit` (179-243) | `Submit`, `AnswerArrives` (booked, duplicate, conflict with a new `loadSlots` of the render that submitted, error), `PostLost`; `Leave` ends the navigation |
| the date on the card (291-296) | `FormattedSelectedDate`: noon UTC of the selected date, in the attendee's zone |
| `createBooking` | `CheckDuplicate` (101-131), `AskGoogle` (the slot check and free/busy, 136-185), `CommitBooking` (187-296), `RefuseBooking` |
| other attendees | `OtherBooks` |

**`Questions`**: the questions of one event type, from the drawer through the
stored column and the page to the booking. `Parsed` is the reader, which drops
a whole list over one entry the schema refuses; `Reconciled` is the writer's
check.

| Code | Actions |
|---|---|
| `event-type-drawer.tsx` (156-336) | `OpenDraft`, `HandleAddQuestion`, `HandleRemoveQuestion`, `HandleUpdateQuestion`, `SetLocationType`, `HandleSave`, `CloseDraft` |
| `page.tsx` (127-142, 179-203) | `EventLoaded` once, `ReloadPage`, `HandleSubmit` with what the browser allows of `required` inputs |
| `validateAndBuildCustomResponses` (`custom-questions-parser.ts` 122-293), `createBooking` (54-85) | `RefuseForm`, `AcceptForm`: the answers against the questions as they are by then, stored with their labels |

**`EventTypeDrawer`**: the table of event types, the list and the drawer.

| Code | Actions |
|---|---|
| `event-type-list.tsx` | `ListAnswered`, `OpenCreateDrawer`, `OpenEditDrawer`, `CloseDrawer`; `OpenDeleteModal`, `CloseDeleteModal`, `ConfirmDelete`, `DeleteAnswered` |
| `event-type-drawer.tsx` | `EventTypeLoaded` (156-201): whichever GET is answered fills the form; `HandleSave`, `SaveAnswered` (261-336) |
| `event-types.service.ts` | `CreateType`; `UpdateChecked`, `UpdateType`; `BookingsCounted`, `DeleteType` (soft under a suffixed slug, or hard under the foreign key); `ArchiveElsewhere` |
| `createBooking` | `BookType`: the insertion needs the row and nothing else, since the archived flag was read before |

**`Availability`**: the default schedule of a host and the editors of his tabs. A
week is a set of hours, so that hours can be lost.

| Code | Actions |
|---|---|
| `getDefaultSchedule`, `createInitialDefaultSchedule` (10-33, 95-125) | `FindDefault`, `CreateDefault`: nothing keeps two requests from creating one each |
| `updateDefaultSchedule` (26-93) | `LockSchedule` (the update of the schedule's row, which locks it: line 38 makes it only for a body with a name or a zone, and the editor always sends both), `DeleteDays` (the rows committed by then), `CommitDays`, `ReadSchedule`; `RequestFails` |
| `availability-editor.tsx` | `OpenEditor`, `AddHours`, `RemoveHours`, `DiscardWeek`, `SaveWeek`, `ShowAnswer`; `CloseEditor` at any time, after which the request goes on and `DropAnswer` ends it |

**`GoogleConnection`**: the integration's row with the calls that read it, ask
Google, and write it. A refresh token is a number, so that it can be asked
which one is stored, erased or still honoured.

| Code (`google-calendar.service.ts`) | Actions |
|---|---|
| `getConnectUrl` (132-178) | `GetConnectUrl`: consent is asked for if no refresh token is stored |
| `handleCallback` (183-272), `exchangeCode` | `CallbackBegins` (the state, the row), `CodeExchanged`, `Connect` (the upsert); `ConsentFails` |
| `getValidCredentials` (277-329), `refreshAccessToken` (provider 112-156) | `ReadCredentials`, `RefreshAnswered` (every 400 and 401 is taken for a revocation, of a token that Google honours too), `StoreRefreshed` |
| `updateCalendarPreferences` (434-480) | `ChooseCalendar` |
| `disconnect`, `markRevokedAndClearSecrets` (485-533) | `Disconnect`, `MarkRevoked`; `MarkRevokedAgain`, the second erasure by the sync worker (`calendar-sync.processor.ts` 308-316) |
| Google | `AccessExpires`, `AccessWithdrawn` |

**`IntegrationsPage`**: the page of one tab over that row, of which it has the
status and the preferences (a destination and the calendars ticked, as one
value). Loads, a save and a disconnection can be on their way together, and
other tabs, the consent page and refusals of Google's write the row meanwhile.

| Code (`dashboard/integrations/page.tsx`, `google-calendar.service.ts`) | Actions |
|---|---|
| `loadIntegration` (88-155), `getIntegration`, `listHostCalendars` | `OpenPage`, and `ReplaceUrl` when Google's query is taken off the URL, which loads once more; `ReadIntegration`, `ShowIntegration`, `LoadFails`; `ListCalendars`, `ShowCalendars`, `CalendarsFail` |
| the form, `handleSavePreferences` (164-195, 230-240, 424-499) | `EditPreferences`, `SavePreferences`, `ShowSaved`, `SaveFails` |
| `updateCalendarPreferences` (434-480) | `CheckPreferences`, `StorePreferences` |
| the dialog, `handleConfirmDisconnect` (198-222, 532-580), `disconnect` | `AskDisconnect`, `CancelDisconnect`, `ConfirmDisconnect`, `DisconnectRow`, `ShowDisconnected`, `DisconnectFails` |
| `handleConnect` (157-161) | `LeavePage` |
| the callback, other tabs, a revocation | `ConnectElsewhere`, `SaveElsewhere`, `EndElsewhere` |

**`Meetings`**: the host's page of bookings, whose list, drawer, dialogs and
requests each hold a row as it was at some time.

| Code | Actions |
|---|---|
| `loadAllBookings`, the drawer (`dashboard/bookings/page.tsx` 76-134, 465-531) | `BookingsFetched`, `SelectMeeting`, `CloseDetails`, `OpenModal` |
| the dialogs (122-134, 545-760) | `TypeReason`, `CloseModal`, `PressEscape` |
| `handleCancelMeeting`, `handleRescheduleMeeting`, `handleDeleteBooking` (162-258) | `Confirm`, `HostAnswered` |
| `bookings.service.ts` | `Commit`, `CancelledAlready`, `Refuse`; `CheckDeletion`, `CommitDeletion`; `AttendeeCancels`, `AttendeeReschedules` |

**`Accounts`**: the users and the settings page.

| Code | Actions |
|---|---|
| `register`, `createUser` | `Register`, `CreateUser` |
| `dashboard/settings/page.tsx` | `LoadSettings`, `SettingsAnswered`, `EditForm`, `SaveForm`: each of the three forms waits for its own save (37, 52, 58) |
| `settings.service.ts` (54-179) | `CheckUsername` (the look-up, with the capitals as typed), `WriteSettings` (under the unique index), `SaveRefused` |
| `getPublicHostProfile`, `getPublicRaw` | `Hosts`, a look-up behind `usernameSchema` (`schemas.ts` 115-126), which admits `PublicNames` alone |

**The `MC` modules** are the instances for TLC. Two of them put several parts
side by side: `MCBookingPage` the slots and the questions of the booking page,
and `MCDashboard` the pages of the dashboard and the connection of one of them. Parts that stand side by side
have no variable in common, and a variable that no step changes (`part`,
`focus`) says which of them goes while the others keep their initial state. A
behaviour of the whole is therefore a behaviour of one part alone, and every
behaviour of a part is one of the whole: what holds of the part there holds of
it anywhere. It saves runs and no state.

**The `_proofs` modules**: section 6. `BookingPage_proofs` and `Dashboard_proofs`
prove about each part alone, and then put the parts together.

## 3. Runs

| Run | Asks | Bounds |
|---|---|---|
| `bookings_race` | do racing requests keep the promises of the service? `TypeOK`, `NoDoubleBooking`, `SeenIsCurrent`, `ImplementsLedger` | two requests, two ids, two event types of one host with lengths 1 or 2, starts 1 and 2, two changes per booking |
| `bookings_life` | is what is recorded about a booking consistent over its life, and does every request end? `HistoryChain`, `NoticePerChange`, `ChildrenHaveParent`, `EveryRequestEnds` | two requests, one id, three changes (enough for reschedule, cancel, reactivate) |
| `bookings_world` | are the reminders that wait those of the present, while the clock runs, a worker takes and hands them back, and the host edits things? `RemindersCurrent` | one request, one id, one worker for each row, one configuration (archived or not), calendar connected or not, two addresses, clock 0..1, starts 2 and 4, leads of 2 and 1 ticks, so that both, one or none of the reminders is still ahead when a request decides; 1.3 million states |
| `outbox` | is every job settled, and only sent or given up with a reason? `TypeOK`, `SentWasMailed`, `GivenUpAfterFailures`, `NoNeedlessMail`, `EveryJobSettles` | one booking with a notice and a reminder, two workers, two attempts, one change of the booking, one crash or stall |
| `calendar_sync` | is what the tables say of Google so? `TypeOK`, `GoogleAgrees`, `CompletedMeansSynced`, `GivenUpWithReason` | one booking, two calendars, two workers, two attempts, one change of the booking, one crash or stall, one change of the integration; 2.0 million states |
| `booking_page` | does the page show and send what the API means? `PageTypeOK`, `SlotsOfSelectedDate`, `OffersInWorkingTimes`, `BookedOnce`, `TakenByOthers`, `BusyMeansWaiting`, `QuestionsSurvive`, `AnswersAsAsked`, `RefusedOnlyIfEdited` | two dates of one slot each, the first where the host's clock changes, an attendee in the host's zone or in Tokyo, two slot lists and two POSTs on their way, one booking of others; two questions, two wordings, two edits; 1.6 million states |
| `dashboard` | is what is stored what a host saw and meant? `DashboardTypeOK` and one to three properties of each part | two tabs, two schedules, two hours in a week, two edits; two event types, two GETs, one change elsewhere, two requests at a time; two calls and one consent flow, two refresh tokens, two calendars; two loads of the integrations page, two preferences, one save in another tab; two meetings, two changes, one request at a time; two people, two names of which one is public, two zones, two saves; 1.6 million states |
| `delete_race` | "Only cancelled bookings can be deleted" | violated, section 4 |
| `buffer_race` | collision prevention "including custom buffer minutes" | violated, section 4 |
| `window_shortened` | a slot is granted "according to host schedule" | violated, section 4 |
| `outbox_reschedule` | "Old sequence 0 reminders should be CANCELLED" | violated, section 4: one worker, a notice and a reminder before and one after the move, no fault |
| `shown_date` | the card in the form shows "the selected date and time" | violated, section 4: `booking_page` with one POST and without edits |

In `Bookings` one tick is a quarter of an hour, so `StepCap = 2` is the 30-minute
cap of the code; the working window has four ticks and `Day` (96) is longer than
all of it. `Lead24h` is scaled down to 2 or 3 ticks so that a clock of a few ticks
can stand before, at and after both reminder times. In `booking_page` and
`shown_date` the unit is the hour and the zones are real: the host is in New
York, whose clock goes from UTC-5 to UTC-4 at 07:00 UTC of the first date, and
the attendee there or in Tokyo (UTC+9). In `booking_page` the slot of a date is
at 03:00, so that the guess for the first one lies before that change and its
result after it; in `shown_date` it is at 17:00.

*Bounds.* `MaxSequence` bounds how often a booking is changed, `MaxNow` the
clock; `IdLeft` makes a create wait until an id is unused, where the code draws
a fresh UUID. Two requests are the least that can race and two bookings the
least that can collide; the proofs of section 6 hold for any number of both. In
`bookings_race` two lengths make bookings meet in part and in full, and two
event types of one host show that the collision is by host. The instance is
symmetric in its ids and requests (no liveness is checked there).

In `outbox` and `calendar_sync` two workers are the least that can hold the same
job; the claim of both jobs in one batch (`Limit = 2`), a crash or stall between
any two steps, two attempts (a retry and a dead letter) and one move,
cancellation or deletion are enough for every action and every order of a late
result and a new claim. `MaxFaults` counts crashes and stalls together,
`MaxChanges` the changes of a booking, `MaxSwitches` those of the integration.
The safety proofs need none of them. In `bookings_world` one worker at a row
already claims, hands back, recovers and writes late, because a recovered row
can be claimed again when its worker is through with it; the proof holds for any
number of them.

In `booking_page` two slot lists on their way are the least that can arrive in
the wrong order, two POSTs the least that can be the same booking twice, and two
edits the least that can remove a question and add another. In `dashboard` each
page has what its properties need two of: two tabs that save, two event types
whose answers can be mixed up, two calls that hold the same refresh token, two
loads of which one overtakes the other, two meetings of which one can be taken
for the other, two people who want one name. Some pages were also explored alone
in a larger instance: `Availability` with a third edit, in `dashboard`,
`Meetings` with two requests at a time (0.8 million states) and with any number
(2.0 million), `Questions` without symmetry (1.2 million), `IntegrationsPage`
without symmetry (0.3 million).

*Symmetry* permutes model values that the module treats alike. In `booking_page`
and `dashboard` several sets share their values, because only one part goes in a
behaviour; a permutation then renames in all of them at once.

*Deadlock* is checked where the system always has something to do: in
`bookings_life`, `bookings_world`, `outbox`, `outbox_reschedule` and
`calendar_sync`. It is not in the runs of `Bookings` without the environment,
whose instance stops when its last id has been used and deleted; in
`booking_page` and `shown_date`, where a page that found no event or was left
stops; and in `dashboard`, whose pages stop when their bounded changes have been
made.

*Fairness.* In `NotificationOutbox`, `FairSpec` asks weak fairness of each
worker's sweep (the timer fires every three seconds and the loop goes on) and of
time (a row becomes due, a lock that nobody works on gets old). Nothing makes a
mail succeed: a provider that always fails leads to the dead letters. That the
faults are finitely many is necessary: recovery counts no attempt, so a job that
crashes its worker each time is taken up again forever, and `EveryJobSettles`
says that nothing short of that keeps a job waiting. `CalendarSync` has the same
sweep, recovery and retry; no liveness is stated a second time there.

In `Bookings`, `FairSpec` asks strong fairness of `Serve(r)`, the steps of a
request the server has started. Weak fairness says that a running process
goes on; strong fairness is needed because a request that waits for a row lock
is enabled only between the holders, and it is justified because PostgreSQL
serves the waiters of a row in the order of its queue. Nothing is asked of
clients, of the environment or of `Abort`: they may or may not act.
`EveryRequestEnds` therefore says that no request is stuck behind locks, in a
deadlock or in a retry, not that it succeeds.

On the pages nothing is fair: people stop when they like and answers may never
come. That a page does not wait in vain is the safety property
`BusyMeansWaiting`.

## 4. What the violations show

* **`delete_race`**: `deleteByHost` reads the status before its transaction and
  not again inside. A reschedule that commits in between reactivates the
  booking, and the deletion removes a confirmed one with all its notices. (If
  the reschedule commits *after* the `deleteMany`s, the foreign keys stop the
  deletion: `ChildrenHaveParent` holds.)
* **`buffer_race`**: buffers are part of the SELECT and not of the exclusion
  constraint. Two creates both pass the SELECT before either commits, and both
  commit, because the bookings themselves do not overlap.
* **`window_shortened`**: a reschedule keeps the booking's own length but asks
  for the slots of the event type as it is now. After the host shortened the
  event type, a two-tick booking can be moved to the last one-tick slot and
  ends after the working hours.
* **`outbox_reschedule`**: a move withdraws the reminders that are `PENDING`; one
  that a worker has claimed stays `PROCESSING`, and the pre-check of the worker
  compares the booking's status and not the sequence of the snapshot. The
  booking is confirmed, so the reminder with the old time goes out. If the mail
  fails, the old reminder even becomes `PENDING` again, beside the new ones, which
  is what `RemindersCurrent` excepts. The
  property is about the moment of the pre-check: a booking that is moved
  between the check and the mail cannot be helped.
* **`shown_date`**: the slots of a date are those of the host's date, labelled in
  the attendee's zone. The card in the form shows beside such a label the
  selected date, formatted as its noon UTC in the attendee's zone
  (`page.tsx:291-296`); `docs/design.md:236` describes it as "the selected date
  and time". In TLC's trace the host's slot at 17:00 in New York is 06:00 of the
  next day in Tokyo, while noon UTC of the selected date is 21:00 of that date
  there: the card names the day before. (In zones twelve hours and more ahead of
  UTC that noon is on the next date too, and it is the early slots that are given
  the wrong day.) The booking itself is right: it is made of the instant.

## 5. Properties

Of `Bookings`:

* `NoDoubleBooking`: no two confirmed bookings of one host overlap.
* `SeenIsCurrent`: whoever changes a booking's status, times or sequence was
  looking at its present state; no lost update.
* `ImplementsLedger`: the service is atomic to its users: whatever interleaves inside, what they
  see of the bookings are operations of the ledger.
* `HistoryChain`: one history row for each reschedule counted in the booking,
  consecutive ones joined end to end, the last one ending at the present times
  and starting at `previousStartTime`, whatever cancellations lie in between.
* `NoticePerChange`: each change of a live booking has its notices, of one kind
  and for the right parties, with the times the booking had after it.
* `RemindersCurrent`: a waiting reminder that no worker has handed back belongs
  to a confirmed booking, tells its present times and is due by its lead, and
  none that is still to come is missing or in a worker's hands. A worker that
  claimed a reminder before the move puts it back to `PENDING` after it, by
  failing or by being recovered: these rows, for the former times, are excepted
  (`failed`), and what becomes of them is the business of `NoOutdatedReminder`.
  The present time at which the requests decided is their own `now`, which may
  be older than the clock: the property holds because an older `now` only writes
  more reminders.
* `ChildrenHaveParent`: a deleted booking leaves no row in a referring table.
* `EveryRequestEnds`: see fairness, above.

Of `NotificationOutbox`:

* `SentWasMailed`: what is marked `SENT` was accepted for delivery, although
  results are written by id and a late worker overwrites what others wrote.
* `GivenUpAfterFailures`: a dead letter has had as many failed deliveries as it
  may have attempts; recoveries, lost claims and late results count for none.
* `NoNeedlessMail`: a job is mailed at most once more than it failed or was
  recovered. With no failure and no stale lock that is at most once, whatever
  the workers do at the same time: the exact form of "at least once".
* `EveryJobSettles`: a waiting job is sent, withdrawn, given up or deleted in
  the end, also if its worker crashes or abandons its batch.
* `NoOutdatedReminder`: violated, section 4.

Of `CalendarSync`:

* `GoogleAgrees`: a mapping that is `SYNCED` at the present sequence tells the
  truth about Google. Its conditions are what the code does not promise: two
  workers at one booking can overwrite each other's event and record in opposite
  orders; a job writes to the calendar selected when it was queued, so that a
  cancellation may look for its event in another calendar; and a patch does not
  revive an event that was deleted.
* `CompletedMeansSynced`: as long as the integration stays as it is, the job of
  the present sequence is not completed without having done its work, although
  jobs of other sequences complete without a call.
* `GivenUpWithReason`: a dead letter has had as many failures as it may have
  attempts, or Google refused the grant.

Of `BookingPage` and `SlotDates`:

* `SlotsOfSelectedDate`: the slots shown, and the one in the form, are those of
  the selected date. The exception is the code's: an answer that is overtaken, or
  that the conflict handler of an older render asked for, is shown all the same.
* `OffersInWorkingTimes`: an offered instant is a working time of the host,
  unless his clock changes between the guess of `zonedTimeToUtc` and its result.
* `BookedOnce`: one form is one booking, unless an answer was lost or the form
  was sent again while the page was navigating to the confirmation.
* `TakenByOthers`: nobody is told that somebody else took his own slot, unless
  two of his POSTs were served at the same time: the duplicate check comes before
  the slot check and before Google, which know the slot as taken.
* `BusyMeansWaiting`: skeletons and spinners are up only while a call is on its
  way that will take them down, whatever overtakes what.
* `ShownDateIsSlotDate`: violated, section 4.

Of `Questions`:

* `QuestionsSurvive`: the API asks what the host last saved: the writer refuses
  every question over which the reader would drop the list.
* `AnswersAsAsked`: an answer stands under the words that were read, although the
  label is taken from the event type as it is by then, unless that very question
  was reworded on the way.
* `RefusedOnlyIfEdited`: the browser's `required` and the service's validation
  agree as long as the event type is the one that was loaded, about answers that
  are neither blank nor too long and phone numbers that are such, of which the
  browser knows nothing.

Of the dashboard:

* `SavedWhole` (`Availability`): two tabs never leave a schedule made of both
  weeks; the only default schedule holds the week saved last. It rests on the
  update of the schedule's row that comes before the deletion of its rows, which
  the service makes because the editor always sends a name and a zone.
* `NoHoursLost`: an hour leaves the stored schedule only if the host took it out
  of a form. A load that failed leaves an editor without hours, which can be
  filled in, but not saved over the stored week.
* `OwnFormSaved` (`EventTypeDrawer`): an event type is saved with its own data, if
  the host lets every load and save end before going on and does not save after
  a load that failed. Without these conditions it is not so: the form keeps the
  former data while the next is loaded, a late answer fills it, and the button
  is not disabled.
* `DeletionSound`: a booking made between the count and the deletion keeps its
  event type, since the foreign key decides and not the count
  (`BookedTypesKept`); and a deleted event type has released its slug, unless an
  edit that had passed the archive check wrote it back by id
  (`DeletedReleasesSlug`).
* `SecretsStayErased` (`GoogleConnection`): tokens in a row that is not connected
  were written by a refresh that had read them before they were erased.
* `ConnectedCanRefresh`: a connection has a refresh token, unless the stored one
  was erased while the host was at Google, who was not asked for consent.
* `UnchangedIsStored` (`IntegrationsPage`): when the form has nothing to save, it
  shows what the row holds, whatever was edited while a save or a load was on
  its way; the save keeps a copy of what it sent, not of the form by then.
  Excepted is a row that was written elsewhere since it was read.
* `ActsOnShownMeeting` (`Meetings`): a host moves or cancels a meeting as the
  dialog shows it, however old list, drawer and dialog are: the sequence is sent
  along and compared under the row's lock.
* `ReasonOfItsMeeting`: one field holds the reason of every dialog; it goes out
  with another meeting only after a dialog was left with Escape.
* `LinkLeadsHome` (`Accounts`): a host's public link leads to him alone, whatever
  registrations and renamings race, if his username is one that the look-up
  admits and has no capitals; the settings page gives out others too (section 8).
* `SettingsChosen`: a save replaces no setting its host did not choose, if the
  page was loaded and no zone was saved since: one column is a field of two
  forms.

## 6. What is proved

The theorems hold for every set of bookings, hosts, event types, configurations,
requests, start times, jobs, meetings, calls, calendars, questions and wordings,
and for every bound, under the assumptions named in the modules: sets are not
empty where one element is chosen, workers are finitely many, model values such
as `NoMeeting` are not members of the sets they stand beside, `HostOf` is a
function to hosts, configurations have a positive duration, times and bounds are
natural numbers. Of the time zones they assume that the offsets `zonedTimeToUtc`
looks up are integers, and nothing about how they change.

Every safety property that a passing run checks is stated by a theorem.

Of `Bookings`:

| Theorem | Says | Argument |
|---|---|---|
| `TypeCorrect` | `Spec => []TypeOK` | inductive as it stands, one lemma per action; the outbox operators have lemmas of their own (`...Type`) |
| `NeverDoubleBooked` | `Spec => []NoDoubleBooking` | inductive with `TypeOK`: only `CreateCommit` and `RescheduleCommit` place a booking and both do so under the exclusion constraint; the collision SELECT is not used, which says that the guarantee is the constraint's |
| `NoLostUpdate` | `Spec => SeenIsCurrent` | through `SeenInv`: `ViewsArePast` (a view with the present sequence of a live booking is the present), `LockHoldersSeePresent` (whoever holds the row lock has seen the present) and `OneLockHolder`. The property is about a step, and none of the three facts alone is inductive: the version check makes a past view of the right sequence a present one, and only the lock keeps it so until the commit |
| `NoOrphans` | `Spec => []ChildrenHaveParent` | inductive with `TypeOK`: the children of an id that is not live are none, kept by the foreign keys in `DeleteRow` |
| `ServiceIsLedger` (`BookingsLedger_proofs`) | `Spec => ImplementsLedger` | initial states map to initial states; every step maps to one ledger step or a stutter. Needs `DurationKept` (a move request carries the length of its booking, although it read it before the lock) beside `TypeOK`; the exclusion constraint is what makes the ledger's `Available` hold |
| `HistoryIsChain` (`BookingsRecords_proofs`) | `Spec => []HistoryChain` | `HistoryInv`: the history of a live booking is a `Chain` (finite, one row for each number, joined, ending at the row's times) and holds no move numbered above its booking, so that the next number is a new one. Needs `SeenInv` (who commits holds the lock of a live booking) and `ChildrenHaveParent` (a new id begins with no rows) |
| `RemindersOfPresent` (`BookingsRecords_proofs`) | `Spec => []RemindersCurrent` | `RemindersInv`: the pending reminders of each booking that no worker handed back are the `Current` ones, and no row is numbered above its booking, so that the keys of a change are new and the upsert with its empty update adds the rows; the `now` by which a request decides is not after the clock, so that no reminder still to come is left out; and no worker is at a row that waits and was not handed back, so that what a worker writes makes a row of the former kind or one that does not wait. A claim takes a row only when it is due |
| `NoticesComplete` (`BookingsRecords_proofs`) | `Spec => []NoticePerChange` | `NoticesInv`: the `Words` of the outbox about a booking (its rows without their status) are `Told` by its history and its row. A change adds the words of its own number and no others (`ToldExtended`), the keys being new; withdrawing a reminder changes no word (`WithdrawnWords`); and the times told of earlier changes stay, because a move starts from the present times (`TimesOfMove`, with `HistoryInv`) |

Of the outbox, with `TypeInv` (types, and an attempt left in every waiting row and
every claim: without it the count of attempts could run over):

| Theorem of `NotificationOutbox_proofs` | Says | Argument |
|---|---|---|
| `TypeCorrect` | `Spec => []TypeOK` | `TypeInv` is inductive, one lemma per action |
| `SentMeansMailed` | `Spec => []SentWasMailed` | `SentHoldersMailed`: a worker about to write `SENT` has mailed; nothing about the row is needed |
| `GivenUpOnlyAfterFailures` | `Spec => []GivenUpAfterFailures` | `ReadsCounted`: what a worker has read of a job's attempts is covered by failures too, so a late result never counts more than there were |
| `MailedOnlyWithReason` | `Spec => []NoNeedlessMail` | `MailsCounted`: the mails of a job, the workers that may still mail it and its unclaimed row are together at most one plus failures and recoveries. A claim moves one from the row to a worker, a mail from a worker to the mails; only a failure or a recovery adds one. `LeftBatch` (the job at hand is no longer in the batch) makes a mail use its worker up |

The `After...` lemmas say where each action leaves the workers and the rows; the
invariants follow from them without the records.

Of the calendar:

| Theorem of `CalendarSync_proofs` | Says | Argument |
|---|---|---|
| `TypeCorrect` | `Spec => []TypeOK` | part of `SyncInv`, with `AttemptsLeft`: a waiting row and a claim have an attempt left |
| `GivenUpOnlyWithReason` | `Spec => []GivenUpWithReason` | `AttemptsFailed` (the attempts of a row, and those read at a claim, are covered by failures) and `RefusedCounted` (a worker that was refused has been counted as such) |
| `MappingTrue` | `Spec => []GoogleAgrees` | `AgreeInv`, about the bookings at which no two workers met (`Alone`: whoever is at one with another has crossed): what a worker has read is the booking as the change left it that wrote his job (`Written`, `ViewsOfJobs`), the mapping is ahead neither of the booking nor of a worker alone at it (`MappingBehind`), and after a call that was answered Google's event is as the worker was told (`EventsAsTold`). The agreement (`AgreedAll`) survives a change of the booking because the mapping's sequence is then no longer the present one, and `RecordMapping` restores it |
| `CompletedMarked` | `Spec => []CompletedMeansSynced` | `LeavesMark` (a worker about to complete the job of the present sequence has marked the mapping, since without a change of the integration none is refused: `Undisturbed`) and `MarkLeft` (the mark stays until the next change) |

Most steps of the sweep are quiet for `AgreeInv` (one lemma for them all): they
change neither the booking, the mapping, Google nor the worker's view. The other
ones have their own lemmas: `Begin`, `ReadIntegration`, the three calls to
Google, `RecordMapping`, `Complete`, and the changes and the deletion of a
booking.

Of the booking page (`BookingPage_proofs`):

| Theorem | Says | Argument |
|---|---|---|
| `SlotsOfDate` | `Spec => []SlotsOfSelectedDate` | `FetchesOfDate`: unless `loadSlots` was overtaken, every list on its way is for the selected date. A call that leaves beside another sets `crossed` and one that leaves alone clears it, so that the fact comes back |
| `OffersAtWork` | `Spec => []OffersInWorkingTimes` | `SlotOfSomeDate` (what is shown was placed from a working time of some date, also if it is the wrong one) and the lemma `PlacedAtLocalTime` about `zonedTimeToUtc`: with equal offsets at the guess and at the result, the local time of the result is the time asked for |
| `NobodyBookedTwice` | `Spec => []BookedOnce` | `OneAwaited` (the page waits for one POST at a time, and for none when the button is enabled) and `OneBooking`: as long as none was given up and none sent again, every POST is awaited, and if a start is the attendee's, the answer that says so is on its way or the page is gone with it |
| `TakenBySelf` | `Spec => []TakenByOthers` | `Alone`: from the duplicate check to its answer, a POST that overlapped no other finds its start not the attendee's and no other POST of his for it; the check itself counts those it overlaps |
| `WaitsForSomething` | `Spec => []BusyMeansWaiting` | the flag of the slots is up only with a call on its way, because each call that leaves raises it and each that comes lowers it; that of the form with `OneAwaited` |
| `SavedQuestionsSurvive` | `QuestionsSpec => []QuestionsSurvive` | `Worded`: what is stored has only questions that say something; the writer's check and nothing else keeps it |
| `AnswersKeepTheirQuestion` | `QuestionsSpec => []AnswersAsAsked` | `NoReturn` (every id in the drawer's form, in the table and on the page was drawn, and one of the page that the drawer still holds is still stored, so that a removed question does not return in other words), `SameWords` (a question asked now and shown says the same, if it was not reworded) and `BookedPageLeft` |
| `OnlyStalePagesRefused` | `QuestionsSpec => []RefusedOnlyIfEdited` | `ShownIsAsked` (what the page shows is what is stored, if nothing was saved since) and `PostedAllowed` (what is on its way was let through by the browser) |
| `PageTyped` | `PageSpec => []PageTypeOK` | both invariants side by side: a step of one part leaves the variables of the other alone |

Of the connection (`Google_proofs`) and the dashboard (`Dashboard_proofs`):

| Theorem | Says | Argument |
|---|---|---|
| `ErasedForGood` | `GoogleSpec => []SecretsStayErased` | `GoogleInv`: a call that was not overtaken relies on the token of the row and on a row that is connected (`CallersOK`) |
| `ConnectedRefreshes` | `GoogleSpec => []ConnectedCanRefresh` | `TabsOK`: a flow that does not ask for consent has a refresh token in the row, and later in its hands, unless it was erased |
| `UnchangedStored` | `IntegrationsSpec => []UnchangedIsStored` | `IntegrationsInv`: what a load has read, what a save has stored and what the page keeps as saved each stand for the row's preferences, or have been overtaken (`LoadsCurrent`, `SaveCurrent`, `ViewCurrent`). No row stands for the primary calendar (`RowFound`), so that a page told of none shows what a new row would hold |
| `SchedulesWhole` | `AvailabilitySpec => []SavedWhole` | `RequestExclusive`: who replaces the rows of a schedule holds its lock, and has deleted all that is there until his own rows are; `LatestStored`: the only default schedule has the week committed last, whoever is about to replace it |
| `HoursKept` | `AvailabilitySpec => []NoHoursLost` | what is stored, on its way, or in a form that was loaded is `Whole`: one week, with all the hours no host took out (`RequestSound`, `LatestStored`, `FormWhole`). An edit keeps them or names them in `removed` (`HoursStep`, `WholeStays`), and a form that was never loaded is not saved |
| `FormsSavedOwn` | `DrawerSpec => []OwnFormSaved` | `OwnForm`: of a host who waits, the form shows the event type of the drawer, or its GET is on its way, or has failed, and a save is only on its way with its own form |
| `DeletionsSound` | `DrawerSpec => []DeletionSound` | `TypesKept` (a soft-deleted event type is there) and `DeletesOne`. The hard deletion of an event type whose bookings were counted as none still meets the foreign key, so that nothing about the count is needed; an update that writes a slug back names its event type in `revived` |
| `LinksLeadHome` | `AccountsSpec => []LinkLeadsHome` | `UsernamesUnique`, kept by the unique index and not by the look-ups before it; names without capitals are their own lower case, and those `usernameSchema` admits are looked up |
| `ChoicesSaved` | `AccountsSpec => []SettingsChosen` | `FormsCurrent` (a form of a page that was loaded says what the row says, or was edited) and `WritesSound` (so does what it sent, until a zone is saved elsewhere) |
| `ShownMeetingsChanged` | `MeetingsSpec => []ActsOnShownMeeting` | a chain from the table to the request: `CardsEarlier`, `SelectedShown`, `ModalEarlier`, `SentEarlier`. Each holds the same row as the table or one of a lower sequence, so that equal sequences are equal rows |
| `ReasonsKept` | `MeetingsSpec => []ReasonOfItsMeeting` | `ReasonInPlace`: a reason belongs to the dialog that is open, or none is open and Escape was pressed |
| `DashboardTyped` | `DashboardSpec => []DashboardTypeOK` | `DashboardInv`, the invariants of the six parts side by side: each step is one of a part and leaves the others' variables alone |

`SeenInv`, `DurationKept`, `AgreeInv` and the invariants of the outbox, of the
booking page and of the dashboard were checked with TLC on the instances of the
runs before they were proved. The invariants of the pages contain their types,
which no other theorem needs by itself (`MeetingsTyped`, `ConnectionTyped`,
`QuestionsTyped`, `AvailabilityTypes`).

**Only model-checked:** `EveryRequestEnds` and `EveryJobSettles`, because liveness
under fairness is out of the prover's reach. Beside the theorems, what TLC shows
and no proof does is that the instances reach what the properties are about:
every action is taken there, and each property is violated by a variant of the
code that has a plausible fault (the definitions marked `Mutant of`). No module
that is proved about uses recursion.

## 7. What is left

In this order:

1. An abstract outbox (jobs waiting, done or given up) which `NotificationOutbox`
   and `CalendarSync` implement: today their common part is stated twice.
2. `Slots` against a reference definition at a finer unit, with weekdays and
   overrides.
3. Sessions: a change of the password ends none of them.
4. The dialogs of `booking-detail-drawer.tsx` in full, and the profile page.

## 8. What is not modelled, and why

* Authorisation, management tokens, sanitisation, rate limits, cookies and
  hashing: not part of the correctness of bookings; times, statuses and
  sequences do not depend on them. Sessions are a row that is written once, read
  by its key and compared with the clock.
* Names, notes, locations and `.ics` files: form data that is stored and shown.
  Of the attendee the address is kept where the outbox copies it, the phone
  number where it is required, the reason of a cancellation where it may go
  astray.
* `Bookings` leaves out the attendee's own overlapping booking
  (`bookings.service.ts` 101-131), because the slot check refuses the same
  requests with another error; `BookingPage`, where the error matters, has it.
* Google's FreeBusy answer: any answer is possible. In `Bookings` a busy host or a
  failure is `Abort`, a free one is the request going on.
* `computeAvailableSlots` accepts a start within one second of a slot; on a grid
  of ticks that is equality.
* The choice of a date's interval by weekday and override: `Windows` and
  `WorkingTimes` are constants.
* The expiry of the nonces of the consent flow (in memory, ten minutes), PKCE, the
  time-outs of the calls and the parsing of Google's answers.
* On the integrations page the destination and the calendars looked at for
  conflicts are one value; an empty list, or a calendar without the permission to
  write, is refused by the service (`SaveFails`); what the page displays beside
  the form is left out.
* The automatic choice of a free slug, and the preset durations and buffers of the
  settings, which no code reads when it makes an event type.
* The audit log (its failures are swallowed and nobody reads it back), analytics
  (reads only), email templates (formatting), error filters, validation pipes and
  encryption, build and deployment. `event-type-form.tsx` is imported nowhere.

**Observations** met on the way, which no run states because no document or test
says otherwise, or because only a remark is due:

* The event type and the integration are read before the transaction of a create
  (`bookings.service.ts:54`, `:179`): an event type archived in between is still
  booked, and a booking made while its host connects gets no sync job.
* A corrected address (`:835`) does not reach the jobs already in the outbox.
* A reschedule asks Google for free/busy over a time that may contain the event of
  the booking it moves (`:382`).
* A username is put into lower case at registration and in the public look-up, and
  is kept as typed by `updateProfile`; and `settings.ts:6-11` admits underscores,
  reserved names and up to 50 characters, which `usernameSchema`
  (`schemas.ts:115-126`) refuses at the look-up. A host with such a name has a link
  that leads nowhere: `LinkLeadsHome` is about the others.
* `google-calendar.provider.ts:139` takes every 400 and 401 of the token endpoint for
  a revocation and erases tokens that Google may still honour; and `handleJobFailure`
  (`calendar-sync.processor.ts:314-316`) erases a second time, after an `await`,
  what the host may have connected anew.
* A `PUT` of the schedule's days alone, which the contract allows and no page sends,
  takes no lock (`schedules.service.ts:38`): two of them can leave both weeks.
* The `Delete record` button is offered for meetings that are over, which the
  service refuses to delete unless they are cancelled.
* A soft-deleted event type can be unarchived, under its suffixed slug.
* An event in Google outlives a booking that is deleted before its cancellation was
  synchronised; an event that was deleted is not revived by a reschedule.
* A conflict with an event in the host's own calendar is told to the attendee as a
  slot that was "just booked by someone else".
* An event type whose form was filled by a late answer is saved with another's
  data (`OwnFormSaved` names the conditions under which it is not).
