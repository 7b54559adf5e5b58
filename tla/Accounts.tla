------------------------------ MODULE Accounts ------------------------------
(***************************************************************************)
(* The table of users: registration (auth and identity services), the      *)
(* profile, notification and scheduling settings (settings.service.ts),    *)
(* the look-up behind a public link, and the settings page of one host     *)
(* with its three forms (dashboard/settings/page.tsx).                     *)
(*                                                                         *)
(* A username is a name and whether it has capitals.  Registration and the *)
(* public look-up put it into lower case and take only what usernameSchema *)
(* admits; the settings keep the capitals and take underscores, reserved   *)
(* names and up to 50 characters besides.                                  *)
(***************************************************************************)
EXTENDS Naturals

CONSTANTS
  People,          \* those who may register
  Names,           \* usernames, whatever their case
  PublicNames,     \* those that usernameSchema admits
  Zones,           \* time zones; users.timezone is a setting of two forms
  InitialZone,     \* the zone a form shows before anything is loaded
  NoName, NoOwner,
  MaxSaves         \* bound: how many forms are saved

ASSUME InitialZoneAssumption == InitialZone \in Zones
ASSUME PublicNamesAssumption == PublicNames \subseteq Names
ASSUME NoNameAssumption == NoName \notin Names /\ NoOwner \notin People
ASSUME MaxSavesAssumption == MaxSaves \in Nat

VARIABLES
  users,           \* the table of users
  owner,           \* who has opened the settings page
  forms,           \* its profile, notification and scheduling forms
  loading,         \* loadSettings waits for an answer
  writes,          \* the registration and the saves of a person, on their way
  saves,           \* how many settings were saved
  outdated,        \* the load failed or overtook a save, or a zone was saved since
  unchosen         \* a save replaced a setting by one its host did not choose

accountVars == <<users, owner, forms, loading, writes, saves, outdated, unchosen>>

Username == [name : Names \cup {NoName}, capitals : BOOLEAN]
User == [username : Username, zone : Zones, reminders : BOOLEAN]

\* The zone of the profile and of the scheduling form, and a switch of the
\* notification form; chosen: the host set the field since it was loaded.
Form == [zone : Zones, reminders : BOOLEAN, chosen : BOOLEAN]
FormNames == {"profile", "notifications", "scheduling"}

\* What a request was sent with, and how far it got; each form waits for its own.
Write == [state : {"none", "checking", "writing", "failed"}, username : Username, form : Form]
WriteKinds == FormNames \cup {"register"}

Nobody == [name |-> NoName, capitals |-> FALSE]
InitialForm == [zone |-> InitialZone, reminders |-> TRUE, chosen |-> FALSE]
NoWrite == [state |-> "none", username |-> Nobody, form |-> InitialForm]

Registered(p) == users[p].username # Nobody
Lower(username) == [username EXCEPT !.capitals = FALSE]

AccountsInit ==
  /\ users = [p \in People |-> [username |-> Nobody, zone |-> InitialZone, reminders |-> TRUE]]
  /\ owner = NoOwner
  /\ forms = [f \in FormNames |-> InitialForm]
  /\ loading = FALSE
  /\ writes = [p \in People |-> [kind \in WriteKinds |-> NoWrite]]
  /\ saves = 0 /\ outdated = TRUE /\ unchosen = FALSE

settingsPage == <<owner, forms, loading>>

Ends(p, kind) == writes' = [writes EXCEPT ![p][kind] = NoWrite]

-----------------------------------------------------------------------------
(* register, updateProfile *)

\* Mutant of UsernameFree: the table has no unique index.
NoIndex(p, username) == TRUE

\* The unique index, which knows capitals.
UsernameFree(p, username) == \A other \in People \ {p} : users[other].username # username

\* createUser checks nothing first.
Register(p, name, zone) ==
  /\ ~Registered(p) /\ writes[p]["register"].state = "none"
  /\ writes' = [writes EXCEPT ![p]["register"] =
       [NoWrite EXCEPT !.state = "writing", !.username = [name |-> name, capitals |-> FALSE],
                       !.form.zone = zone]]
  /\ UNCHANGED <<users, settingsPage, saves, outdated, unchosen>>

CreateUser(p) ==
  LET write == writes[p]["register"] IN
  /\ write.state = "writing"
  /\ \/ /\ UsernameFree(p, write.username)
        /\ users' = [users EXCEPT ![p] = [username |-> write.username, zone |-> write.form.zone,
                                          reminders |-> TRUE]]
     \/ UNCHANGED users
  /\ Ends(p, "register")
  /\ UNCHANGED <<settingsPage, saves, outdated, unchosen>>

\* A name that only changes its capitals is not looked up, another one is, with
\* the capitals it was typed with.
CheckUsername(p) ==
  LET write == writes[p]["profile"] IN
  /\ write.state = "checking"
  /\ \/ /\ \/ write.username.name = users[p].username.name
           \/ UsernameFree(p, write.username)
        /\ writes' = [writes EXCEPT ![p]["profile"].state = "writing"]
     \/ writes' = [writes EXCEPT ![p]["profile"].state = "failed"]
  /\ UNCHANGED <<users, settingsPage, saves, outdated, unchosen>>

-----------------------------------------------------------------------------
(* The settings page.  Each form has its button, which waits for its save. *)

\* The page is opened, again perhaps and while a save is on its way.
LoadSettings(p) ==
  /\ Registered(p) /\ owner \in {p, NoOwner} /\ ~loading
  /\ owner' = p /\ loading' = TRUE
  /\ forms' = [f \in FormNames |-> InitialForm]
  /\ UNCHANGED <<users, writes, saves, outdated, unchosen>>

Shows(user) ==
  [zone |-> user.zone, reminders |-> user.reminders, chosen |-> FALSE]

\* Mutant of FormsLoaded: the switches are forgotten.
ZonesLoaded(user) ==
  [f \in FormNames |-> [Shows(user) EXCEPT !.reminders = InitialForm.reminders]]

FormsLoaded(user) == [f \in FormNames |-> Shows(user)]

StillSaving(p) == \E f \in FormNames : writes[p][f].state # "none"

\* An error leaves the forms as they are, with their buttons enabled.
SettingsAnswered ==
  /\ loading
  /\ loading' = FALSE
  /\ \/ forms' = FormsLoaded(users[owner]) /\ outdated' = StillSaving(owner)
     \/ UNCHANGED forms /\ outdated' = TRUE
  /\ UNCHANGED <<users, owner, writes, saves, unchosen>>

\* An edit that no save of the bound would send is left out.
EditForm(f, zone, reminders) ==
  /\ owner # NoOwner /\ ~loading /\ saves < MaxSaves
  /\ f = "notifications" => zone = forms[f].zone
  /\ f # "notifications" => reminders = forms[f].reminders
  /\ forms' = [forms EXCEPT ![f] = [zone |-> zone, reminders |-> reminders, chosen |-> TRUE]]
  /\ UNCHANGED <<users, owner, loading, writes, saves, outdated, unchosen>>

\* handleSaveProfile, handleSaveNotifications, handleSaveScheduling.
SaveForm(f, username) ==
  /\ owner # NoOwner /\ ~loading
  /\ writes[owner][f].state = "none" /\ saves < MaxSaves
  /\ f # "profile" => username = users[owner].username
  /\ saves' = saves + 1
  /\ writes' = [writes EXCEPT ![owner][f] =
       [state |-> IF f = "profile" THEN "checking" ELSE "writing", username |-> username,
        form |-> forms[f]]]
  /\ UNCHANGED <<users, settingsPage, outdated, unchosen>>

\* The settings a form's PATCH writes.
Saved(user, f, write) ==
  CASE f = "profile" -> [user EXCEPT !.username = write.username, !.zone = write.form.zone]
    [] f = "notifications" -> [user EXCEPT !.reminders = write.form.reminders]
    [] f = "scheduling" -> [user EXCEPT !.zone = write.form.zone]

\* The write fails on the index, if at all; the answer changes no field.
WriteSettings(p, f) ==
  LET write == writes[p][f]
      user == Saved(users[p], f, write) IN
  /\ write.state = "writing"
  /\ UsernameFree(p, user.username)
  /\ users' = [users EXCEPT ![p] = user]
  /\ unchosen' = (unchosen \/ (~write.form.chosen /\ ~outdated
                    /\ <<user.zone, user.reminders>> # <<users[p].zone, users[p].reminders>>))
  /\ outdated' = (outdated \/ user.zone # users[p].zone)
  /\ Ends(p, f)
  /\ UNCHANGED <<settingsPage, saves>>

SaveRefused(p, f) ==
  /\ writes[p][f].state \in {"writing", "failed"}
  /\ Ends(p, f)
  /\ UNCHANGED <<users, settingsPage, saves, outdated, unchosen>>

AccountsNext ==
  \/ SettingsAnswered
  \/ \E p \in People :
       \/ LoadSettings(p) \/ CreateUser(p) \/ CheckUsername(p)
       \/ \E f \in FormNames : WriteSettings(p, f) \/ SaveRefused(p, f)
       \/ \E name \in PublicNames, zone \in Zones : Register(p, name, zone)
  \/ \E f \in FormNames :
       \/ \E zone \in Zones, reminders \in BOOLEAN : EditForm(f, zone, reminders)
       \/ \E username \in [name : Names, capitals : BOOLEAN] : SaveForm(f, username)

AccountsSpec == AccountsInit /\ [][AccountsNext]_accountVars

-----------------------------------------------------------------------------
AccountsTypeOK ==
  /\ users \in [People -> User]
  /\ owner \in People \cup {NoOwner} /\ forms \in [FormNames -> Form] /\ loading \in BOOLEAN
  /\ writes \in [People -> [WriteKinds -> Write]]
  /\ saves \in 0..MaxSaves /\ outdated \in BOOLEAN /\ unchosen \in BOOLEAN

\* getPublicHostProfile, getPublicRaw, behind usernameSchema: what it does not
\* admit is refused, the rest is put into lower case.
Hosts(username) ==
  {p \in People : username.name \in PublicNames /\ Registered(p)
                     /\ users[p].username = Lower(username)}

\* The public link of a host leads to him and to nobody else, however
\* registrations and renamings race, unless the settings gave him a username
\* with capitals, or one that usernameSchema does not admit: then his link leads
\* to nobody, or to the host who has the same name without capitals.
LinkLeadsHome ==
  \A p \in People :
    Registered(p) /\ ~users[p].username.capitals /\ users[p].username.name \in PublicNames
      => Hosts(users[p].username) = {p}

\* Saving one form changes no setting the host has not chosen in it, as long as
\* the page was loaded after what was saved before and no zone was saved since:
\* the zone of the profile and that of the scheduling form are one column.
SettingsChosen == ~unchosen
=============================================================================
