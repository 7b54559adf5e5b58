--------------------------- MODULE GoogleConnection ---------------------------
(***************************************************************************)
(* The row of calendar_integrations of one host (google-calendar.service): *)
(* connecting through Google's consent page, the calls that refresh the    *)
(* stored tokens on their way, disconnecting, and Google's refusals.       *)
(* Every read and every write of the row is a step of its own.             *)
(*                                                                         *)
(* A refresh token is a number, 0 is none; Google answers an exchange with *)
(* one when it asked the host for consent or knows no other.               *)
(***************************************************************************)
EXTENDS Naturals, FiniteSets

CONSTANTS
  HostCalendars,   \* the calendars of the host's Google account
  NoCalendar,
  Callers,         \* bound: how many calls of getValidCredentials run at a time
  ConsentTabs,     \* bound: how many consent pages are open at a time
  MaxTokens        \* bound: how many refresh tokens Google issues

ASSUME HostCalendarsAssumption == HostCalendars # {} /\ NoCalendar \notin HostCalendars
ASSUME MaxTokensAssumption == MaxTokens \in Nat

VARIABLES
  connection,      \* the row; status NONE: there is none
  honoured,        \* the refresh tokens Google accepts
  issued,          \* how many refresh tokens Google has issued
  callers,         \* the calls of getValidCredentials on their way
  tabs,            \* the consent flows on their way
  written          \* how the row came to be what it is: see Written

googleVars == <<connection, honoured, issued, callers, tabs, written>>

Tokens == 0..MaxTokens

Connection == [status : {"NONE", "CONNECTED", "DISCONNECTED", "REVOKED"},
               access : {"none", "fresh", "stale"}, refresh : Tokens,
               selected : HostCalendars \cup {NoCalendar}]

\* Who asks for credentials: the free/busy look-up and the list of calendars,
\* updateCalendarPreferences, the sync worker.
Purposes == {"use", "choose", "sync"}

\* What a call has read of the row, what Google answered, and whether the
\* secrets it read were erased or replaced since; failing: the sync worker's
\* call has thrown, and handleJobFailure is to come.
Caller == [state : {"idle", "refreshing", "granted", "refused", "choosing", "failing"},
           purpose : Purposes, token : Tokens, overtaken : BOOLEAN]

\* A consent flow: at Google, back with a code, or about to write the row.
Tab == [state : {"idle", "consenting", "exchanging", "connecting"}, consent : BOOLEAN,
        existing : Tokens, obtained : Tokens, selected : HostCalendars \cup {NoCalendar},
        erased : BOOLEAN]

\* The last write of the secrets was by a call that had been overtaken; the
\* last connection was made by a flow whose stored token was erased meanwhile.
Written == [late : BOOLEAN, withoutConsent : BOOLEAN]

NoCaller == [state |-> "idle", purpose |-> "use", token |-> 0, overtaken |-> FALSE]
FailingCaller == [state |-> "failing", purpose |-> "sync", token |-> 0, overtaken |-> FALSE]
NoTab == [state |-> "idle", consent |-> FALSE, existing |-> 0, obtained |-> 0,
          selected |-> NoCalendar, erased |-> FALSE]

GoogleInit ==
  /\ connection = [status |-> "NONE", access |-> "none", refresh |-> 0,
                   selected |-> NoCalendar]
  /\ honoured = {} /\ issued = 0
  /\ callers = [c \in Callers |-> NoCaller]
  /\ tabs = [t \in ConsentTabs |-> NoTab]
  /\ written = [late |-> FALSE, withoutConsent |-> FALSE]

InUse(c) == callers[c].state # "idle"

\* The calls on their way hold secrets the row no longer holds.
CallersOvertaken ==
  [c \in Callers |-> [callers[c] EXCEPT !.overtaken = InUse(c)]]

\* Nor do the consent pages ask for the refresh token the row no longer holds.
TabsErased == [t \in ConsentTabs |->
  IF tabs[t].state = "consenting" /\ ~tabs[t].consent
  THEN [tabs[t] EXCEPT !.erased = TRUE] ELSE tabs[t]]

-----------------------------------------------------------------------------
(* getConnectUrl, handleCallback *)

\* Mutant of NeedsConsent: a host who was connected once is not asked again.
AskedOnce == connection.status = "NONE"

NeedsConsent == connection.status = "NONE" \/ connection.refresh = 0

GetConnectUrl(t) ==
  /\ tabs[t].state = "idle"
  /\ tabs' = [tabs EXCEPT ![t] = [NoTab EXCEPT !.state = "consenting",
                                               !.consent = NeedsConsent]]
  /\ UNCHANGED <<connection, honoured, issued, callers, written>>

\* The signed state is consumed and the row is read.
CallbackBegins(t) ==
  /\ tabs[t].state = "consenting"
  /\ tabs' = [tabs EXCEPT ![t] = [@ EXCEPT !.state = "exchanging",
                                           !.existing = connection.refresh,
                                           !.selected = connection.selected]]
  /\ UNCHANGED <<connection, honoured, issued, callers, written>>

\* Google answers exchangeCode.
CodeExchanged(t) ==
  /\ tabs[t].state = "exchanging"
  /\ \/ /\ tabs[t].consent \/ honoured = {}
        /\ issued < MaxTokens
        /\ issued' = issued + 1
        /\ honoured' = honoured \cup {issued + 1}
        /\ tabs' = [tabs EXCEPT ![t] = [@ EXCEPT !.state = "connecting",
                                                 !.obtained = issued + 1]]
     \/ /\ ~tabs[t].consent /\ honoured # {}
        /\ tabs' = [tabs EXCEPT ![t].state = "connecting"]
        /\ UNCHANGED <<issued, honoured>>
  /\ UNCHANGED <<connection, callers, written>>

\* The host closes the page, the state has expired, or the exchange fails.
ConsentFails(t) ==
  /\ tabs[t].state \in {"consenting", "exchanging"}
  /\ tabs' = [tabs EXCEPT ![t] = NoTab]
  /\ UNCHANGED <<connection, honoured, issued, callers, written>>

\* The upsert.  The primary calendar is the first choice, and a refresh token
\* that Google did not send anew is the one that was read.
Connect(t, primary) ==
  LET tab == tabs[t]
      refresh == IF tab.obtained # 0 THEN tab.obtained ELSE tab.existing IN
  /\ tab.state = "connecting"
  /\ connection' =
       [status |-> "CONNECTED", access |-> "fresh", refresh |-> refresh,
        selected |-> IF tab.selected # NoCalendar THEN tab.selected ELSE primary]
  /\ written' = [written EXCEPT !.late = FALSE, !.withoutConsent = tab.erased]
  /\ callers' = CallersOvertaken
  /\ tabs' = [(IF refresh = 0 THEN TabsErased ELSE tabs) EXCEPT ![t] = NoTab]
  /\ UNCHANGED <<honoured, issued>>

-----------------------------------------------------------------------------
(* getValidCredentials, and its caller updateCalendarPreferences.  What the   *)
(* other callers write of the row they write below, in MarkRevokedAgain.      *)

\* The row is read: nothing is refreshed while the access token is fresh, or
\* without a refresh token.
ReadCredentials(c, purpose) ==
  LET near == connection.access = "stale" /\ connection.refresh # 0 IN
  /\ callers[c].state = "idle"
  /\ connection.status = "CONNECTED" /\ connection.access # "none"
  /\ near \/ purpose = "choose"
  /\ callers' = [callers EXCEPT ![c] =
       [state |-> IF near THEN "refreshing" ELSE "choosing", purpose |-> purpose,
        token |-> connection.refresh, overtaken |-> FALSE]]
  /\ UNCHANGED <<connection, honoured, issued, tabs, written>>

\* What the caller does with the credentials.
Proceed(c) == IF callers[c].purpose = "choose" THEN [callers[c] EXCEPT !.state = "choosing"]
                                               ELSE NoCaller

\* Google answers refreshAccessToken, perhaps with a new refresh token.  Every
\* 400 and 401 is taken for a revocation, of a token that Google still honours
\* too; an error of another kind leaves the caller with the token it has.
RefreshAnswered(c) ==
  /\ callers[c].state = "refreshing"
  /\ \/ /\ callers[c].token \in honoured
        /\ \/ /\ callers' = [callers EXCEPT ![c].state = "granted"]
              /\ UNCHANGED <<honoured, issued>>
           \/ /\ issued < MaxTokens
              /\ issued' = issued + 1
              /\ honoured' = honoured \cup {issued + 1}
              /\ callers' = [callers EXCEPT ![c] = [@ EXCEPT !.state = "granted",
                                                             !.token = issued + 1]]
     \/ /\ callers' = [callers EXCEPT ![c].state = "refused"]
        /\ UNCHANGED <<honoured, issued>>
     \/ /\ callers' = [callers EXCEPT ![c] = Proceed(c)]
        /\ UNCHANGED <<honoured, issued>>
  /\ UNCHANGED <<connection, tabs, written>>

\* The new tokens are written by the row's id, whatever its status is by now.
StoreRefreshed(c) ==
  /\ callers[c].state = "granted"
  /\ connection' = [connection EXCEPT !.access = "fresh", !.refresh = callers[c].token]
  /\ written' = [written EXCEPT !.late = callers[c].overtaken]
  /\ callers' = [(IF callers[c].token = connection.refresh THEN callers ELSE CallersOvertaken)
                   EXCEPT ![c] = Proceed(c)]
  /\ UNCHANGED <<honoured, issued, tabs>>

\* updateCalendarPreferences: the calendar list came with the chosen one, or
\* without it, or not at all.
ChooseCalendar(c) ==
  /\ callers[c].state = "choosing"
  /\ \/ \E calendar \in HostCalendars :
          connection' = [connection EXCEPT !.selected = calendar]
     \/ UNCHANGED connection
  /\ callers' = [callers EXCEPT ![c] = NoCaller]
  /\ UNCHANGED <<honoured, issued, tabs, written>>

-----------------------------------------------------------------------------
(* disconnect, markRevokedAndClearSecrets *)

\* Mutant of Erased: the refresh token is kept for the next connection.
RefreshKept(status) == [connection EXCEPT !.status = status, !.access = "none"]

Erased(status) ==
  [connection EXCEPT !.status = status, !.access = "none", !.refresh = 0]

Disconnect ==
  /\ connection.status # "NONE"
  /\ connection' = Erased("DISCONNECTED")
  /\ written' = [written EXCEPT !.late = FALSE]
  /\ callers' = CallersOvertaken
  /\ tabs' = TabsErased
  /\ UNCHANGED <<honoured, issued>>

\* The row is erased by its id, whatever it holds by now; the calls beside this
\* one hold what is erased.
Revoke(c, caller) ==
  /\ connection' = Erased("REVOKED")
  /\ written' = [written EXCEPT !.late = FALSE]
  /\ callers' = [CallersOvertaken EXCEPT ![c] = caller]
  /\ tabs' = TabsErased
  /\ UNCHANGED <<honoured, issued>>

\* The caller gives up, unless it is the sync worker.
MarkRevoked(c) ==
  /\ callers[c].state = "refused"
  /\ Revoke(c, IF callers[c].purpose = "sync" THEN FailingCaller ELSE NoCaller)

\* handleJobFailure erases once more what getValidCredentials has erased, and
\* with it what was connected in between.
MarkRevokedAgain(c) ==
  /\ callers[c].state = "failing"
  /\ Revoke(c, NoCaller)

-----------------------------------------------------------------------------
(* Outside the program: the clock, and the host at Google's own pages *)

AccessExpires ==
  /\ connection.access = "fresh"
  /\ connection' = [connection EXCEPT !.access = "stale"]
  /\ UNCHANGED <<honoured, issued, callers, tabs, written>>

AccessWithdrawn ==
  /\ honoured # {}
  /\ honoured' = {}
  /\ UNCHANGED <<connection, issued, callers, tabs, written>>

GoogleNext ==
  \/ \E t \in ConsentTabs :
       \/ GetConnectUrl(t) \/ CallbackBegins(t) \/ CodeExchanged(t) \/ ConsentFails(t)
       \/ \E primary \in HostCalendars : Connect(t, primary)
  \/ \E c \in Callers :
       \/ \E purpose \in Purposes : ReadCredentials(c, purpose)
       \/ RefreshAnswered(c) \/ StoreRefreshed(c) \/ ChooseCalendar(c)
       \/ MarkRevoked(c) \/ MarkRevokedAgain(c)
  \/ Disconnect \/ AccessExpires \/ AccessWithdrawn

GoogleSpec == GoogleInit /\ [][GoogleNext]_googleVars

-----------------------------------------------------------------------------
GoogleTypeOK ==
  /\ connection \in Connection
  /\ honoured \subseteq 1..MaxTokens /\ issued \in Tokens
  /\ callers \in [Callers -> Caller]
  /\ tabs \in [ConsentTabs -> Tab]
  /\ written \in Written

\* Disconnecting, like a revocation, erases the stored tokens; a row that is
\* not connected and holds tokens was written to by a refresh that had read
\* them before they were erased, and by nothing else.
SecretsStayErased ==
  connection.status # "CONNECTED" /\ (connection.access # "none" \/ connection.refresh # 0)
    => written.late

\* A connected host has a refresh token, without which the connection dies with
\* its first access token: getConnectUrl asks for consent whenever none is
\* stored, and only a token erased while the host is at Google is missed.
ConnectedCanRefresh ==
  connection.status = "CONNECTED" /\ connection.refresh = 0 => written.withoutConsent
=============================================================================
