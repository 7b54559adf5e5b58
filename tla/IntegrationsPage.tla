--------------------------- MODULE IntegrationsPage ---------------------------
(***************************************************************************)
(* The integrations page of a host in one tab (app/dashboard/integrations/ *)
(* page.tsx): it loads the calendar integration and its calendars, lets    *)
(* the host choose where bookings go and which calendars are looked at for *)
(* conflicts, saves the choice and disconnects; a load, a save and a       *)
(* disconnection may be on their way together.  Of the row of              *)
(* GoogleConnection this is the status and the preferences, which other    *)
(* tabs, the consent page and refusals of Google's write as well.          *)
(*                                                                         *)
(* The preferences, a destination and the calendars ticked, are one value. *)
(* Whatever was read of the row or shown of it is overtaken as soon as the *)
(* preferences are written anew.                                           *)
(***************************************************************************)
EXTENDS Naturals

CONSTANTS
  Preferences,        \* what a host may choose
  Primary,            \* the primary calendar, for both purposes
  PrimaryAlias,       \* the same in the word "primary"
  PageLoads,          \* bound: how many loads of the page are on their way at a time
  MaxOtherTabs        \* bound: how often another tab saves preferences

ASSUME PreferencesAssumption == Primary \in Preferences /\ PrimaryAlias \notin Preferences
ASSUME OtherTabsAssumption == MaxOtherTabs \in Nat

VARIABLES
  integration,     \* the row of calendar_integrations
  view,            \* what the tab shows
  reads,           \* the calls of loadIntegration that are on their way
  save,            \* the PATCH that is on its way
  disconnection,   \* the POST that is on its way
  otherTabs

integrationVars == <<integration, view, reads, save, disconnection, otherTabs>>

Named == Preferences \cup {PrimaryAlias}

\* NONE: no row, which the page is told as null.  A revoked connection offers
\* what a disconnected one does.
Statuses == {"NONE", "CONNECTED", "DISCONNECTED"}
IntegrationRow == [status : Statuses, preferences : Named]

\* replacing: the query of Google's redirect is about to be taken off the URL;
\* listed: the calendars were loaded; asking: the dialog before disconnecting.
IntegrationsView ==
  [open : BOOLEAN, replacing : BOOLEAN, status : Statuses, listed : BOOLEAN,
   form : Named, saved : Named, loading : BOOLEAN, asking : BOOLEAN,
   overtaken : BOOLEAN]

PageLoad == [state : {"idle", "sent", "read", "listing", "listed"}, row : IntegrationRow,
             overtaken : BOOLEAN]

\* One save and one disconnection at a time; awaited: the page that sent it is
\* there and has not been told that it failed.
Save == [state : {"idle", "sent", "checking", "stored"}, choice : Named,
         status : Statuses, awaited : BOOLEAN, overtaken : BOOLEAN]
Disconnection == [state : {"idle", "sent", "done"}, awaited : BOOLEAN]

NoRow == [status |-> "NONE", preferences |-> PrimaryAlias]
ClosedPage ==
  [open |-> FALSE, replacing |-> FALSE, status |-> "NONE", listed |-> FALSE,
   form |-> PrimaryAlias, saved |-> PrimaryAlias, loading |-> TRUE,
   asking |-> FALSE, overtaken |-> FALSE]
NoLoad == [state |-> "idle", row |-> NoRow, overtaken |-> FALSE]
NoSave == [state |-> "idle", choice |-> PrimaryAlias, status |-> "NONE",
           awaited |-> FALSE, overtaken |-> FALSE]
NoDisconnection == [state |-> "idle", awaited |-> FALSE]

IntegrationsInit ==
  /\ integration = NoRow
  /\ view = ClosedPage
  /\ reads = [l \in PageLoads |-> NoLoad]
  /\ save = NoSave
  /\ disconnection = NoDisconnection
  /\ otherTabs = 0

\* The alias stands for the primary calendar, once the calendars are known.
Resolved(preferences) == IF preferences = PrimaryAlias THEN Primary ELSE preferences

-----------------------------------------------------------------------------
(* loadIntegration *)

SendLoad(l) ==
  /\ reads[l].state = "idle"
  /\ reads' = [reads EXCEPT ![l].state = "sent"]

\* The effect on the query runs once, and again when the query is replaced:
\* the first load may still be on its way.
OpenPage(l, returning) ==
  /\ ~view.open
  /\ view' = [ClosedPage EXCEPT !.open = TRUE, !.replacing = returning]
  /\ SendLoad(l)
  /\ UNCHANGED <<integration, save, disconnection, otherTabs>>

ReplaceUrl(l) ==
  /\ view.replacing
  /\ view' = [view EXCEPT !.replacing = FALSE, !.loading = TRUE]
  /\ SendLoad(l)
  /\ UNCHANGED <<integration, save, disconnection, otherTabs>>

\* getIntegration.
ReadIntegration(l) ==
  /\ reads[l].state = "sent"
  /\ reads' = [reads EXCEPT ![l].state = "read", ![l].row = integration]
  /\ UNCHANGED <<integration, view, save, disconnection, otherTabs>>

\* The calendars are asked for only if the host is connected.
ShowIntegration(l) ==
  LET status == reads[l].row.status IN
  /\ reads[l].state = "read"
  /\ view' = [view EXCEPT !.status = status,
                          !.loading = status = "CONNECTED" /\ view.loading]
  /\ reads' = [reads EXCEPT ![l] = IF status = "CONNECTED" THEN [@ EXCEPT !.state = "listing"]
                                                           ELSE NoLoad]
  /\ UNCHANGED <<integration, save, disconnection, otherTabs>>

LoadFails(l) ==
  /\ reads[l].state \in {"sent", "read"}
  /\ reads' = [reads EXCEPT ![l] = NoLoad]
  /\ view' = [view EXCEPT !.loading = FALSE]
  /\ UNCHANGED <<integration, save, disconnection, otherTabs>>

\* listHostCalendars.
ListCalendars(l) ==
  /\ reads[l].state = "listing"
  /\ integration.status = "CONNECTED"
  /\ reads' = [reads EXCEPT ![l].state = "listed"]
  /\ UNCHANGED <<integration, view, save, disconnection, otherTabs>>

\* Form and saved copy take what was read, whatever was edited meanwhile.
ShowPreferences(l, preferences, listed) ==
  /\ view' = [view EXCEPT !.form = preferences, !.saved = preferences, !.listed = listed,
                          !.loading = FALSE, !.overtaken = reads[l].overtaken]
  /\ reads' = [reads EXCEPT ![l] = NoLoad]
  /\ UNCHANGED <<integration, save, disconnection, otherTabs>>

ShowCalendars(l) ==
  /\ reads[l].state = "listed"
  /\ ShowPreferences(l, Resolved(reads[l].row.preferences), TRUE)

\* Without a list the alias stays, and the calendars that were there.
CalendarsFail(l) ==
  /\ reads[l].state \in {"listing", "listed"}
  /\ ShowPreferences(l, reads[l].row.preferences, view.listed)

-----------------------------------------------------------------------------
(* The form *)

FormShown == view.open /\ ~view.loading /\ view.status = "CONNECTED"

\* Another destination, or a box ticked or cleared: without the calendars there
\* is one destination and no box.
EditPreferences(preferences) ==
  /\ FormShown /\ view.listed
  /\ view' = [view EXCEPT !.form = preferences]
  /\ UNCHANGED <<integration, reads, save, disconnection, otherTabs>>

HasChanges == view.form # view.saved

SavePreferences ==
  /\ FormShown /\ HasChanges
  /\ save.state = "idle"
  /\ save' = [NoSave EXCEPT !.state = "sent", !.choice = view.form, !.awaited = TRUE]
  /\ UNCHANGED <<integration, view, reads, disconnection, otherTabs>>

\* updateCalendarPreferences reads the row, asks Google for the calendars, and
\* writes by the row's id.
CheckPreferences ==
  /\ save.state = "sent"
  /\ integration.status = "CONNECTED"
  /\ save' = [save EXCEPT !.state = "checking"]
  /\ UNCHANGED <<integration, view, reads, disconnection, otherTabs>>

\* What was read and shown of the row so far is no longer what it says.
Overtake ==
  /\ view' = [view EXCEPT !.overtaken = TRUE]
  /\ reads' = [l \in PageLoads |->
       [reads[l] EXCEPT !.overtaken = reads[l].state \in {"read", "listing", "listed"}]]

StorePreferences ==
  /\ save.state = "checking"
  /\ integration' = [integration EXCEPT !.preferences = Resolved(save.choice)]
  /\ Overtake
  /\ save' = IF save.awaited
             THEN [save EXCEPT !.state = "stored", !.status = integration.status] ELSE NoSave
  /\ UNCHANGED <<disconnection, otherTabs>>

\* Mutant of SavedCopy: what the form says by now.
FormOfNow == view.form

\* What was sent; the fields are not disabled meanwhile.
SavedCopy == save.choice

ShowSaved ==
  /\ save.state = "stored" /\ save.awaited
  /\ view' = [view EXCEPT !.status = save.status, !.saved = SavedCopy,
                          !.overtaken = save.overtaken]
  /\ save' = NoSave
  /\ UNCHANGED <<integration, reads, disconnection, otherTabs>>

\* Invalid, refused or lost; what the page gave up may still be stored.
SaveFails ==
  /\ save.state # "idle"
  /\ \/ save' = NoSave
     \/ save.state # "stored" /\ save' = [save EXCEPT !.awaited = FALSE]
  /\ UNCHANGED <<integration, view, reads, disconnection, otherTabs>>

-----------------------------------------------------------------------------
(* Disconnecting *)

AskDisconnect ==
  /\ FormShown
  /\ view' = [view EXCEPT !.asking = TRUE]
  /\ UNCHANGED <<integration, reads, save, disconnection, otherTabs>>

CancelDisconnect ==
  /\ view.asking /\ ~disconnection.awaited
  /\ view' = [view EXCEPT !.asking = FALSE]
  /\ UNCHANGED <<integration, reads, save, disconnection, otherTabs>>

ConfirmDisconnect ==
  /\ view.asking /\ disconnection.state = "idle"
  /\ disconnection' = [state |-> "sent", awaited |-> TRUE]
  /\ UNCHANGED <<integration, view, reads, save, otherTabs>>

DisconnectRow ==
  /\ disconnection.state = "sent" /\ integration.status # "NONE"
  /\ integration' = [integration EXCEPT !.status = "DISCONNECTED"]
  /\ disconnection' = IF disconnection.awaited THEN [disconnection EXCEPT !.state = "done"]
                                               ELSE NoDisconnection
  /\ UNCHANGED <<view, reads, save, otherTabs>>

ShowDisconnected ==
  /\ disconnection.state = "done" /\ disconnection.awaited
  /\ view' = [view EXCEPT !.status = "DISCONNECTED", !.listed = FALSE, !.asking = FALSE]
  /\ disconnection' = NoDisconnection
  /\ UNCHANGED <<integration, reads, save, otherTabs>>

DisconnectFails ==
  /\ disconnection.state # "idle"
  /\ disconnection' = NoDisconnection
  /\ UNCHANGED <<integration, view, reads, save, otherTabs>>

\* The host goes elsewhere, to Google's consent page for one: the answers are
\* for nobody, what was sent goes on.
LeavePage ==
  /\ view.open
  /\ view' = ClosedPage
  /\ reads' = [l \in PageLoads |-> NoLoad]
  /\ save' = IF save.state \in {"sent", "checking"} THEN [save EXCEPT !.awaited = FALSE]
                                                    ELSE NoSave
  /\ disconnection' = IF disconnection.state = "sent"
                      THEN [disconnection EXCEPT !.awaited = FALSE] ELSE NoDisconnection
  /\ UNCHANGED <<integration, otherTabs>>

-----------------------------------------------------------------------------
(* The row, written by others *)

\* handleCallback: the preferences of an earlier connection are kept.
ConnectElsewhere ==
  /\ integration.status # "CONNECTED"
  /\ \/ integration' = [integration EXCEPT !.status = "CONNECTED"]
     \/ /\ integration.status = "NONE"
        /\ integration' = [status |-> "CONNECTED", preferences |-> Primary]
  /\ UNCHANGED <<view, reads, save, disconnection, otherTabs>>

EndElsewhere ==
  /\ integration.status = "CONNECTED"
  /\ integration' = [integration EXCEPT !.status = "DISCONNECTED"]
  /\ UNCHANGED <<view, reads, save, disconnection, otherTabs>>

SaveElsewhere ==
  /\ integration.status = "CONNECTED" /\ otherTabs < MaxOtherTabs
  /\ \E preferences \in Preferences :
       integration' = [integration EXCEPT !.preferences = preferences]
  /\ otherTabs' = otherTabs + 1
  /\ Overtake
  /\ save' = [save EXCEPT !.overtaken = save.state = "stored"]
  /\ UNCHANGED disconnection

IntegrationsNext ==
  \/ \E l \in PageLoads :
       \/ \E returning \in BOOLEAN : OpenPage(l, returning)
       \/ ReplaceUrl(l) \/ ReadIntegration(l) \/ ShowIntegration(l) \/ LoadFails(l)
       \/ ListCalendars(l) \/ ShowCalendars(l) \/ CalendarsFail(l)
  \/ \E preferences \in Preferences : EditPreferences(preferences)
  \/ SavePreferences \/ CheckPreferences \/ StorePreferences \/ ShowSaved
  \/ SaveFails
  \/ AskDisconnect \/ CancelDisconnect \/ ConfirmDisconnect \/ DisconnectRow
  \/ ShowDisconnected \/ DisconnectFails \/ LeavePage
  \/ ConnectElsewhere \/ EndElsewhere \/ SaveElsewhere

IntegrationsSpec == IntegrationsInit /\ [][IntegrationsNext]_integrationVars

-----------------------------------------------------------------------------
IntegrationsTypeOK ==
  /\ integration \in IntegrationRow
  /\ view \in IntegrationsView
  /\ reads \in [PageLoads -> PageLoad]
  /\ save \in Save
  /\ disconnection \in Disconnection
  /\ otherTabs \in 0..MaxOtherTabs

\* "No unsaved changes" is true: with the calendars before him, the host sees in
\* the form what the row holds, whatever he changed while a save or a load was on
\* its way, unless the row was written since the answer that is shown was read.
UnchangedIsStored ==
  FormShown /\ view.listed /\ ~HasChanges /\ ~view.overtaken
    => Resolved(view.form) = Resolved(integration.preferences)
=============================================================================
