---------------------------- MODULE MCDashboard ----------------------------
(***************************************************************************)
(* The pages of the dashboard, with what of the API answers them.  They    *)
(* have no variable in common, so that what holds of one beside the others *)
(* is what holds of it alone: "focus" says which of them goes.             *)
(***************************************************************************)
EXTENDS Accounts, Availability, EventTypeDrawer, GoogleConnection, IntegrationsPage,
        Meetings, TLC

CONSTANT someStart   \* the start of the meetings out of focus

VARIABLE focus

dashboardVars == <<focus, accountVars, scheduleVars, typeVars, googleVars,
                   integrationVars, meetingVars>>

Pages == {"availability", "event types", "Google", "integrations", "meetings", "settings"}

\* Out of focus every page has one initial state.
DashboardInit ==
  /\ focus \in Pages
  /\ AccountsInit /\ AvailabilityInit /\ TypesInit /\ GoogleInit /\ IntegrationsInit
  /\ MeetingsInit
  /\ focus # "meetings" => \A m \in MeetingIds : rows[m].start = someStart

DashboardNext ==
  /\ UNCHANGED focus
  /\ \/ /\ focus = "availability" /\ AvailabilityNext
        /\ UNCHANGED <<accountVars, typeVars, googleVars, integrationVars, meetingVars>>
     \/ /\ focus = "event types" /\ DrawerNext
        /\ UNCHANGED <<accountVars, scheduleVars, googleVars, integrationVars, meetingVars>>
     \/ /\ focus = "Google" /\ GoogleNext
        /\ UNCHANGED <<accountVars, scheduleVars, typeVars, integrationVars, meetingVars>>
     \/ /\ focus = "integrations" /\ IntegrationsNext
        /\ UNCHANGED <<accountVars, scheduleVars, typeVars, googleVars, meetingVars>>
     \/ /\ focus = "meetings" /\ MeetingsNext
        /\ UNCHANGED <<accountVars, scheduleVars, typeVars, googleVars, integrationVars>>
     \/ /\ focus = "settings" /\ AccountsNext
        /\ UNCHANGED <<scheduleVars, typeVars, googleVars, integrationVars, meetingVars>>

DashboardSpec == DashboardInit /\ [][DashboardNext]_dashboardVars

\* The pages share their model values: one symmetry serves them all.
Alike == Permutations(MeetingIds) \cup Permutations(Loads)

\* The page in focus has its types.
DashboardTypeOK ==
  /\ focus = "availability" => AvailabilityTypeOK
  /\ focus = "event types" => DrawerTypeOK
  /\ focus = "Google" => GoogleTypeOK
  /\ focus = "integrations" => IntegrationsTypeOK
  /\ focus = "meetings" => MeetingsTypeOK
  /\ focus = "settings" => AccountsTypeOK
=============================================================================
