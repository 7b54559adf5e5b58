--------------------------- MODULE Google_proofs ----------------------------
(***************************************************************************)
(* What holds of the secrets of a Google connection, for every number of   *)
(* calls, consent pages, calendars and tokens, and of the page that shows  *)
(* and saves its preferences, for any loads, calendars and preferences.    *)
(***************************************************************************)
EXTENDS GoogleConnection, IntegrationsPage, TLAPS

-----------------------------------------------------------------------------
(* The secrets of the connection *)

\* The stages in which a call relies on the token it has read.
Relying == {"refreshing", "granted"}

\* A call nobody has overtaken relies on what the row holds.
CallerOK(caller, row, last) ==
  /\ caller \in Caller
  /\ caller.token <= last
  /\ caller.state = "granted" => caller.token # 0
  /\ caller.state \in Relying => caller.overtaken \/ row.status = "CONNECTED"

\* A flow that does not ask for consent has a refresh token to fall back on,
\* in the row at first and in its hands later, unless that one was erased.
TabOK(tab, row, last) ==
  /\ tab \in Tab
  /\ tab.existing <= last /\ tab.obtained <= last
  /\ tab.state = "consenting" => tab.consent \/ tab.erased \/ row.refresh # 0
  /\ tab.state = "exchanging" => tab.consent \/ tab.erased \/ tab.existing # 0
  /\ tab.state = "connecting" => tab.obtained # 0 \/ tab.erased \/ tab.existing # 0

CallersOK == callers = [c \in Callers |-> callers[c]]
               /\ \A c \in Callers : CallerOK(callers[c], connection, issued)
TabsOK == tabs = [t \in ConsentTabs |-> tabs[t]]
            /\ \A t \in ConsentTabs : TabOK(tabs[t], connection, issued)
RowOK == /\ connection \in Connection /\ connection.refresh <= issued
         /\ written \in Written
         /\ issued \in Tokens /\ honoured \subseteq 1..issued

GoogleInv == RowOK /\ CallersOK /\ TabsOK /\ SecretsStayErased /\ ConnectedCanRefresh

LEMMA GoogleInvTyped ==
  ASSUME GoogleInv
  PROVE  GoogleTypeOK
<1>1. honoured \subseteq 1..MaxTokens
  BY MaxTokensAssumption DEF GoogleInv, RowOK, Tokens
<1>2. callers \in [Callers -> Caller] /\ tabs \in [ConsentTabs -> Tab]
  BY DEF GoogleInv, CallersOK, TabsOK, CallerOK, TabOK
<1> QED BY <1>1, <1>2 DEF GoogleInv, RowOK, GoogleTypeOK

-----------------------------------------------------------------------------
(* Calls and consent flows beside a step *)

LEMMA TokensAreNumbers ==
  /\ \A n \in Tokens : n \in Nat
  /\ \A caller \in Caller : caller.token \in Nat
  /\ \A tab \in Tab : tab.existing \in Nat /\ tab.obtained \in Nat
  /\ \A row \in Connection : row.refresh \in Nat
BY MaxTokensAssumption DEF Tokens, Caller, Tab, Connection

\* Google issues new tokens and withdraws old ones; the row is as it was.
LEMMA CallerStays ==
  ASSUME NEW caller, NEW row, NEW new, NEW last \in Nat, NEW next \in Nat,
         CallerOK(caller, row, last), last <= next,
         new.status = row.status
  PROVE  CallerOK(caller, new, next)
<1>1. caller.token \in Nat
  BY TokensAreNumbers DEF CallerOK
<1> QED BY <1>1 DEF CallerOK

LEMMA TabStays ==
  ASSUME NEW tab, NEW row, NEW new, NEW last \in Nat, NEW next \in Nat,
         TabOK(tab, row, last), last <= next, row.refresh # 0 => new.refresh # 0
  PROVE  TabOK(tab, new, next)
<1>1. tab.existing \in Nat /\ tab.obtained \in Nat
  BY TokensAreNumbers DEF TabOK
<1> QED BY <1>1 DEF TabOK

\* A call that is overtaken relies on nothing any more.
LEMMA CallerOvertaken ==
  ASSUME NEW c \in Callers, NEW row, CallersOK
  PROVE  CallerOK(CallersOvertaken[c], row, issued)
<1> DEFINE caller == callers[c]
           new == [caller EXCEPT !.overtaken = InUse(c)]
<1>1. CallersOvertaken[c] = new
  BY DEF CallersOvertaken
<1>2. CallerOK(caller, connection, issued)
  BY DEF CallersOK
<1>3. caller \in Caller
  BY <1>2 DEF CallerOK
<1>4. InUse(c) \in BOOLEAN
  BY DEF InUse
<1>5. new \in Caller
  BY <1>3, <1>4 DEF Caller
<1>6. new.token = caller.token /\ new.state = caller.state /\ new.overtaken = InUse(c)
  BY <1>3 DEF Caller
<1>7. new.state # "idle" => new.overtaken
  BY <1>6 DEF InUse
<1> HIDE DEF new
<1> QED BY <1>1, <1>2, <1>5, <1>6, <1>7 DEF CallerOK, Relying

\* A flow whose token is erased is marked as such, if it counted on it.
LEMMA TabErased ==
  ASSUME NEW t \in ConsentTabs, NEW row, TabsOK
  PROVE  TabOK(TabsErased[t], row, issued)
<1> DEFINE tab == tabs[t]
           new == [tab EXCEPT !.erased = TRUE]
<1>1. TabOK(tab, connection, issued) /\ tab \in Tab
  BY DEF TabsOK, TabOK
<1>2. CASE tab.state = "consenting" /\ ~tab.consent
  <2>1. TabsErased[t] = new
    BY <1>2 DEF TabsErased
  <2>2. new \in Tab
    BY <1>1 DEF Tab
  <2>3. /\ new.state = "consenting" /\ new.erased = TRUE
        /\ new.existing = tab.existing /\ new.obtained = tab.obtained
    BY <1>1, <1>2 DEF Tab
  <2> HIDE DEF new
  <2> QED BY <1>1, <2>1, <2>2, <2>3 DEF TabOK
<1>3. CASE ~(tab.state = "consenting" /\ ~tab.consent)
  <2>1. TabsErased[t] = tab
    BY <1>3 DEF TabsErased
  <2> QED BY <1>1, <1>3, <2>1 DEF TabOK
<1> QED BY <1>2, <1>3

LEMMA NoneOK ==
  ASSUME NEW row, NEW last \in Nat
  PROVE  /\ CallerOK(NoCaller, row, last) /\ CallerOK(FailingCaller, row, last)
         /\ TabOK(NoTab, row, last)
<1>1. NoCaller \in Caller /\ FailingCaller \in Caller /\ NoTab \in Tab
  BY MaxTokensAssumption DEF NoCaller, FailingCaller, NoTab, Caller, Purposes, Tab, Tokens
<1>2. /\ NoCaller.state = "idle" /\ NoCaller.token = 0
      /\ FailingCaller.state = "failing" /\ FailingCaller.token = 0
      /\ NoTab.state = "idle" /\ NoTab.existing = 0 /\ NoTab.obtained = 0
  BY DEF NoCaller, FailingCaller, NoTab
<1> QED BY <1>1, <1>2 DEF CallerOK, TabOK, Relying

\* One call changes.
LEMMA CallerReplaced ==
  ASSUME CallersOK, NEW c \in Callers, NEW caller, callers' = [callers EXCEPT ![c] = caller],
         UNCHANGED <<connection, honoured, issued>>,
         CallerOK(caller, connection, issued)
  PROVE  CallersOK'
BY DEF CallersOK

LEMMA TabReplaced ==
  ASSUME TabsOK, NEW t \in ConsentTabs, NEW tab, tabs' = [tabs EXCEPT ![t] = tab],
         UNCHANGED <<connection, issued>>, TabOK(tab, connection, issued)
  PROVE  TabsOK'
BY DEF TabsOK

-----------------------------------------------------------------------------
(* Steps that leave the row as it is *)

\* What GoogleInv says of the row stays so while the row and its record stay,
\* and Google's tokens do, or the accepted ones are fewer or newer.
LEMMA RowStays ==
  ASSUME GoogleInv, UNCHANGED <<connection, written>>, issued' \in Tokens, issued <= issued',
         honoured' \subseteq 1..issued', \A n \in honoured' : n \in honoured \/ n > issued
  PROVE  RowOK' /\ SecretsStayErased' /\ ConnectedCanRefresh'
<1>1. connection.refresh \in Nat /\ issued \in Nat /\ issued' \in Nat
  BY TokensAreNumbers DEF GoogleInv, RowOK
<1>2. RowOK'
  BY <1>1 DEF GoogleInv, RowOK
<1>3. SecretsStayErased' /\ ConnectedCanRefresh'
  BY DEF GoogleInv, SecretsStayErased, ConnectedCanRefresh
<1> QED BY <1>2, <1>3

\* Google issues the next token, and accepts it with the others.
Issues == issued < MaxTokens /\ issued' = issued + 1 /\ honoured' = honoured \cup {issued + 1}

LEMMA TokenIssued ==
  ASSUME GoogleInv, Issues
  PROVE  /\ issued \in Nat /\ issued' \in Tokens /\ issued' # 0 /\ issued <= issued'
         /\ honoured' \subseteq 1..issued' /\ issued' \in honoured'
         /\ \A n \in honoured' : n \in honoured \/ n > issued
<1>1. issued \in Nat /\ issued' \in Tokens
  BY MaxTokensAssumption DEF GoogleInv, RowOK, Tokens, Issues
<1> QED BY <1>1 DEF GoogleInv, RowOK, Issues

LEMMA NothingIssued ==
  ASSUME GoogleInv, UNCHANGED <<honoured, issued>>
  PROVE  /\ issued \in Nat /\ issued' \in Tokens /\ issued <= issued'
         /\ honoured' \subseteq 1..issued'
         /\ \A n \in honoured' : n \in honoured \/ n > issued
BY TokensAreNumbers DEF GoogleInv, RowOK

\* A step of a consent flow before it writes the row.
LEMMA FlowStep ==
  ASSUME GoogleInv, NEW t \in ConsentTabs, NEW tab, tabs' = [tabs EXCEPT ![t] = tab],
         UNCHANGED <<connection, callers, written>>,
         Issues \/ UNCHANGED <<honoured, issued>>, TabOK(tab, connection, issued')
  PROVE  GoogleInv'
<1>1. /\ issued \in Nat /\ issued' \in Tokens /\ issued <= issued'
      /\ honoured' \subseteq 1..issued'
      /\ \A n \in honoured' : n \in honoured \/ n > issued
  BY TokenIssued, NothingIssued
<1>2. issued' \in Nat
  BY <1>1, TokensAreNumbers
<1>3. CallersOK'
  BY <1>1, <1>2, CallerStays DEF GoogleInv, CallersOK
<1>4. TabsOK'
  BY <1>1, <1>2, TabStays DEF GoogleInv, TabsOK
<1> QED BY <1>1, <1>3, <1>4, RowStays DEF GoogleInv

\* A step of a call that does not write the row.
LEMMA CallStep ==
  ASSUME GoogleInv, NEW c \in Callers, NEW caller, callers' = [callers EXCEPT ![c] = caller],
         UNCHANGED <<connection, tabs, written>>,
         Issues \/ UNCHANGED <<honoured, issued>>, CallerOK(caller, connection, issued')
  PROVE  GoogleInv'
<1>1. /\ issued \in Nat /\ issued' \in Tokens /\ issued <= issued'
      /\ honoured' \subseteq 1..issued'
      /\ \A n \in honoured' : n \in honoured \/ n > issued
  BY TokenIssued, NothingIssued
<1>2. issued' \in Nat
  BY <1>1, TokensAreNumbers
<1>3. CallersOK'
  BY <1>1, <1>2, CallerStays DEF GoogleInv, CallersOK
<1>4. TabsOK'
  BY <1>1, <1>2, TabStays DEF GoogleInv, TabsOK
<1> QED BY <1>1, <1>3, <1>4, RowStays DEF GoogleInv

LEMMA InvGetConnectUrl ==
  ASSUME GoogleInv, NEW t \in ConsentTabs, GetConnectUrl(t)
  PROVE  GoogleInv'
<1> DEFINE tab == [NoTab EXCEPT !.state = "consenting", !.consent = NeedsConsent]
<1>1. NeedsConsent \in BOOLEAN /\ (~NeedsConsent => connection.refresh # 0)
  BY DEF NeedsConsent
<1>2. NoTab \in Tab
  BY NoneOK, MaxTokensAssumption DEF TabOK
<1>3. tab \in Tab
  BY <1>1, <1>2 DEF Tab
<1>4. /\ tab.state = "consenting" /\ tab.consent = NeedsConsent
      /\ tab.existing = 0 /\ tab.obtained = 0
  BY DEF NoTab
<1>5. issued \in Nat
  BY TokensAreNumbers DEF GoogleInv, RowOK
<1>6. tabs' = [tabs EXCEPT ![t] = tab] /\ UNCHANGED <<connection, honoured, issued, callers, written>>
  BY DEF GetConnectUrl
<1> HIDE DEF tab
<1>7. TabOK(tab, connection, issued')
  BY <1>1, <1>3, <1>4, <1>5, <1>6 DEF TabOK
<1> QED BY <1>6, <1>7, FlowStep

LEMMA InvCallbackBegins ==
  ASSUME GoogleInv, NEW t \in ConsentTabs, CallbackBegins(t)
  PROVE  GoogleInv'
<1> DEFINE old == tabs[t]
           tab == [old EXCEPT !.state = "exchanging", !.existing = connection.refresh,
                              !.selected = connection.selected]
<1>1. TabOK(old, connection, issued) /\ old \in Tab
  BY DEF GoogleInv, TabsOK, TabOK
<1>2. connection.refresh \in Tokens /\ connection.refresh <= issued
      /\ connection.selected \in HostCalendars \cup {NoCalendar}
  BY DEF GoogleInv, RowOK, Connection
<1>3. tab \in Tab
  BY <1>1, <1>2 DEF Tab
<1>4. /\ tab.state = "exchanging" /\ tab.existing = connection.refresh
      /\ tab.obtained = old.obtained /\ tab.consent = old.consent /\ tab.erased = old.erased
  BY <1>1 DEF Tab
<1>5. old.state = "consenting"
      /\ tabs' = [tabs EXCEPT ![t] = tab] /\ UNCHANGED <<connection, honoured, issued, callers, written>>
  BY DEF CallbackBegins
<1> HIDE DEF tab, old
<1>6. TabOK(tab, connection, issued')
  BY <1>1, <1>2, <1>3, <1>4, <1>5 DEF TabOK
<1> QED BY <1>5, <1>6, FlowStep

LEMMA InvCodeExchanged ==
  ASSUME GoogleInv, NEW t \in ConsentTabs, CodeExchanged(t)
  PROVE  GoogleInv'
<1> DEFINE old == tabs[t]
<1>1. /\ TabOK(old, connection, issued) /\ old \in Tab /\ old.state = "exchanging"
      /\ old.existing \in Nat /\ old.obtained \in Nat
  BY TokensAreNumbers DEF GoogleInv, TabsOK, TabOK, CodeExchanged
<1>2. CASE /\ Issues
           /\ tabs' = [tabs EXCEPT ![t] = [old EXCEPT !.state = "connecting", !.obtained = issued + 1]]
  <2> DEFINE tab == [old EXCEPT !.state = "connecting", !.obtained = issued + 1]
  <2>1. issued' = issued + 1 /\ issued' \in Tokens /\ issued' # 0 /\ issued \in Nat
    BY <1>2, TokenIssued DEF Issues
  <2>2. tab \in Tab
    BY <1>1, <2>1 DEF Tab
  <2>3. tab.state = "connecting" /\ tab.obtained = issued' /\ tab.existing = old.existing
    BY <1>1, <2>1 DEF Tab
  <2>4. tabs' = [tabs EXCEPT ![t] = tab]
    BY <1>2
  <2> HIDE DEF tab, old
  <2>5. TabOK(tab, connection, issued')
    BY <1>1, <2>1, <2>2, <2>3 DEF TabOK
  <2> QED BY <1>2, <2>4, <2>5, FlowStep DEF CodeExchanged
<1>3. CASE /\ ~old.consent /\ UNCHANGED <<issued, honoured>>
           /\ tabs' = [tabs EXCEPT ![t].state = "connecting"]
  <2> DEFINE tab == [old EXCEPT !.state = "connecting"]
  <2>1. tab \in Tab
    BY <1>1 DEF Tab
  <2>2. /\ tab.state = "connecting" /\ tab.obtained = old.obtained
        /\ tab.existing = old.existing /\ tab.erased = old.erased
    BY <1>1 DEF Tab
  <2>3. tabs' = [tabs EXCEPT ![t] = tab]
    BY <1>3
  <2> HIDE DEF tab
  <2>4. TabOK(tab, connection, issued')
    BY <1>1, <1>3, <2>1, <2>2 DEF TabOK
  <2> QED BY <1>3, <2>3, <2>4, FlowStep DEF CodeExchanged
<1> QED BY <1>2, <1>3 DEF CodeExchanged, Issues

LEMMA InvConsentFails ==
  ASSUME GoogleInv, NEW t \in ConsentTabs, ConsentFails(t)
  PROVE  GoogleInv'
<1>1. issued' \in Nat /\ UNCHANGED <<honoured, issued>>
  BY TokensAreNumbers DEF GoogleInv, RowOK, ConsentFails
<1>2. TabOK(NoTab, connection, issued')
  BY <1>1, NoneOK
<1> QED BY <1>1, <1>2, FlowStep DEF ConsentFails

LEMMA InvReadCredentials ==
  ASSUME GoogleInv, NEW c \in Callers, NEW purpose \in Purposes,
         ReadCredentials(c, purpose)
  PROVE  GoogleInv'
<1> DEFINE near == connection.access = "stale" /\ connection.refresh # 0
           caller == [state |-> IF near THEN "refreshing" ELSE "choosing", purpose |-> purpose,
                      token |-> connection.refresh, overtaken |-> FALSE]
<1>1. connection.refresh \in Tokens /\ connection.refresh <= issued
  BY DEF GoogleInv, RowOK, Connection
<1>2. caller \in Caller
  BY <1>1 DEF Caller
<1>3. caller.state \in {"refreshing", "choosing"} /\ caller.token = connection.refresh
  OBVIOUS
<1>4. /\ connection.status = "CONNECTED" /\ callers' = [callers EXCEPT ![c] = caller]
      /\ UNCHANGED <<connection, honoured, issued, tabs, written>>
  BY DEF ReadCredentials
<1> HIDE DEF caller
<1>5. CallerOK(caller, connection, issued')
  BY <1>1, <1>2, <1>3, <1>4 DEF CallerOK, Relying
<1> QED BY <1>4, <1>5, CallStep

\* What the caller does next asks nothing of the row.
LEMMA ProceedOK ==
  ASSUME GoogleInv, NEW c \in Callers, NEW row
  PROVE  CallerOK(Proceed(c), row, issued)
<1> DEFINE old == callers[c]
           caller == [old EXCEPT !.state = "choosing"]
<1>1. CallerOK(old, connection, issued) /\ old \in Caller
  BY DEF GoogleInv, CallersOK, CallerOK
<1>2. caller \in Caller /\ caller.state = "choosing" /\ caller.token = old.token
  BY <1>1 DEF Caller
<1>3. issued \in Nat
  BY TokensAreNumbers DEF GoogleInv, RowOK
<1>4. Proceed(c) = caller \/ Proceed(c) = NoCaller
  BY DEF Proceed
<1> HIDE DEF caller
<1> QED BY <1>1, <1>2, <1>3, <1>4, NoneOK DEF CallerOK, Relying

LEMMA InvRefreshAnswered ==
  ASSUME GoogleInv, NEW c \in Callers, RefreshAnswered(c)
  PROVE  GoogleInv'
<1> DEFINE old == callers[c]
<1>1. /\ CallerOK(old, connection, issued) /\ old \in Caller
      /\ old.state = "refreshing"
  BY DEF GoogleInv, CallersOK, CallerOK, RefreshAnswered
<1>2. /\ honoured \subseteq 1..issued /\ issued \in Nat
      /\ UNCHANGED <<connection, tabs, written>>
  BY TokensAreNumbers DEF GoogleInv, RowOK, RefreshAnswered
<1>3. CASE /\ old.token \in honoured /\ UNCHANGED <<honoured, issued>>
           /\ callers' = [callers EXCEPT ![c].state = "granted"]
  <2> DEFINE caller == [old EXCEPT !.state = "granted"]
  <2>1. /\ caller \in Caller /\ caller.state = "granted"
        /\ caller.token = old.token /\ caller.overtaken = old.overtaken
    BY <1>1 DEF Caller
  <2>2. callers' = [callers EXCEPT ![c] = caller]
    BY <1>3
  <2>3. old.token # 0
    BY <1>2, <1>3
  <2> HIDE DEF caller
  <2>4. CallerOK(caller, connection, issued')
    BY <1>1, <1>3, <2>1, <2>3 DEF CallerOK, Relying
  <2> QED BY <1>2, <1>3, <2>2, <2>4, CallStep
<1>4. CASE /\ Issues
           /\ callers' = [callers EXCEPT ![c] = [old EXCEPT !.state = "granted",
                                                            !.token = issued + 1]]
  <2> DEFINE caller == [old EXCEPT !.state = "granted", !.token = issued + 1]
  <2>1. issued' = issued + 1 /\ issued' \in Tokens /\ issued' # 0 /\ issued' \in Nat
    BY <1>4, TokenIssued, TokensAreNumbers DEF Issues
  <2>2. caller \in Caller
    BY <1>1, <2>1 DEF Caller
  <2>3. /\ caller.state = "granted" /\ caller.token = issued'
        /\ caller.overtaken = old.overtaken
    BY <1>1, <2>1 DEF Caller
  <2>4. callers' = [callers EXCEPT ![c] = caller]
    BY <1>4
  <2> HIDE DEF caller
  <2>5. CallerOK(caller, connection, issued')
    BY <1>1, <2>1, <2>2, <2>3 DEF CallerOK, Relying
  <2> QED BY <1>2, <1>4, <2>4, <2>5, CallStep
<1>5. CASE /\ UNCHANGED <<honoured, issued>>
           /\ callers' = [callers EXCEPT ![c].state = "refused"]
  <2> DEFINE caller == [old EXCEPT !.state = "refused"]
  <2>1. /\ caller \in Caller /\ caller.state = "refused"
        /\ caller.token = old.token /\ caller.overtaken = old.overtaken
    BY <1>1 DEF Caller
  <2>2. callers' = [callers EXCEPT ![c] = caller]
    BY <1>5
  <2> HIDE DEF caller
  <2>3. CallerOK(caller, connection, issued')
    BY <1>1, <1>5, <2>1 DEF CallerOK, Relying
  <2> QED BY <1>2, <1>5, <2>2, <2>3, CallStep
<1>6. CASE UNCHANGED <<honoured, issued>> /\ callers' = [callers EXCEPT ![c] = Proceed(c)]
  <2>1. CallerOK(Proceed(c), connection, issued')
    BY <1>6, ProceedOK
  <2> QED BY <1>2, <1>6, <2>1, CallStep
<1> QED BY <1>3, <1>4, <1>5, <1>6 DEF RefreshAnswered, Issues

-----------------------------------------------------------------------------
(* Steps that write the row *)

\* The new tokens are written over a row that may not be connected any more:
\* then the call was overtaken.
LEMMA InvStoreRefreshed ==
  ASSUME GoogleInv, NEW c \in Callers, StoreRefreshed(c)
  PROVE  GoogleInv'
<1> DEFINE old == callers[c]
           row == [connection EXCEPT !.access = "fresh", !.refresh = old.token]
           record == [written EXCEPT !.late = old.overtaken]
<1>1. /\ CallerOK(old, connection, issued) /\ old \in Caller
      /\ old.state = "granted" /\ old.token \in Tokens
  BY DEF GoogleInv, CallersOK, CallerOK, StoreRefreshed, Caller
<1>2. old.token # 0 /\ old.token <= issued /\ (old.overtaken \/ connection.status = "CONNECTED")
  BY <1>1 DEF CallerOK, Relying
<1>3. connection \in Connection /\ written \in Written /\ issued \in Nat
  BY TokensAreNumbers DEF GoogleInv, RowOK
<1>4. row \in Connection
  BY <1>1, <1>3 DEF Connection
<1>5. row.status = connection.status /\ row.refresh = old.token /\ row.access = "fresh"
  BY <1>3 DEF Connection
<1>6. record \in Written
  BY <1>1, <1>3 DEF Written, Caller
<1>7. record.late = old.overtaken /\ record.withoutConsent = written.withoutConsent
  BY <1>3 DEF Written
<1>8. /\ connection' = row /\ written' = record /\ UNCHANGED <<honoured, issued, tabs>>
      /\ callers' = [(IF old.token = connection.refresh THEN callers ELSE CallersOvertaken)
                       EXCEPT ![c] = Proceed(c)]
  BY DEF StoreRefreshed
<1> HIDE DEF row, record
<1>9. RowOK'
  BY <1>2, <1>4, <1>5, <1>6, <1>7, <1>8 DEF GoogleInv, RowOK
<1>10. SecretsStayErased' /\ ConnectedCanRefresh'
  BY <1>2, <1>5, <1>7, <1>8
     DEF GoogleInv, SecretsStayErased, ConnectedCanRefresh
<1>11. TabsOK'
  BY <1>2, <1>3, <1>5, <1>8, TabStays DEF GoogleInv, TabsOK
<1>12. ASSUME NEW d \in Callers
       PROVE  CallerOK(callers'[d], connection', issued')
  <2>1. CASE d = c
    <3>1. callers'[d] = Proceed(c)
      BY <1>8, <2>1 DEF GoogleInv, CallersOK, CallersOvertaken
    <3> QED BY <1>8, <3>1, ProceedOK
  <2>2. CASE d # c /\ old.token = connection.refresh
    <3>1. callers'[d] = callers[d]
      BY <1>8, <2>2
    <3>2. CallerOK(callers[d], connection, issued)
      BY DEF GoogleInv, CallersOK
    <3> QED BY <1>5, <1>8, <2>2, <3>1, <3>2 DEF CallerOK
  <2>3. CASE d # c /\ old.token # connection.refresh
    <3>1. callers'[d] = CallersOvertaken[d]
      BY <1>8, <2>3 DEF CallersOvertaken
    <3> QED BY <1>8, <3>1, CallerOvertaken DEF GoogleInv
  <2> QED BY <2>1, <2>2, <2>3
<1>13. callers' = [d \in Callers |-> callers'[d]]
  BY <1>8 DEF GoogleInv, CallersOK, CallersOvertaken
<1> QED BY <1>9, <1>10, <1>11, <1>12, <1>13 DEF GoogleInv, CallersOK

\* A step that overtakes every call but those that are over.
LEMMA CallersAfterErasure ==
  ASSUME GoogleInv, UNCHANGED <<honoured, issued>>, callers' \in [Callers -> Caller],
         \A d \in Callers : callers'[d] \in {CallersOvertaken[d], NoCaller, FailingCaller}
  PROVE  CallersOK'
<1>1. issued \in Nat
  BY TokensAreNumbers DEF GoogleInv, RowOK
<1>2. \A d \in Callers : CallerOK(callers'[d], connection', issued')
  BY <1>1, CallerOvertaken, NoneOK DEF GoogleInv
<1> QED BY <1>2 DEF CallersOK

LEMMA OvertakenTyped ==
  ASSUME GoogleInv
  PROVE  CallersOvertaken \in [Callers -> Caller]
<1>1. \A c \in Callers : CallersOvertaken[c] \in Caller
  BY CallerOvertaken DEF GoogleInv, CallerOK
<1> QED BY <1>1 DEF CallersOvertaken

\* What is left of the row after an erasure.
LEMMA ErasedRow ==
  ASSUME connection \in Connection, NEW status \in {"DISCONNECTED", "REVOKED"}
  PROVE  /\ Erased(status) \in Connection /\ Erased(status).status = status
         /\ Erased(status).access = "none" /\ Erased(status).refresh = 0
<1>1. 0 \in Tokens
  BY MaxTokensAssumption DEF Tokens
<1>2. Erased(status) = [connection EXCEPT !.status = status, !.access = "none", !.refresh = 0]
  BY DEF Erased
<1>3. Erased(status) \in Connection
  BY <1>1, <1>2 DEF Connection
<1> QED BY <1>2, <1>3 DEF Connection

LEMMA InvDisconnect ==
  ASSUME GoogleInv, Disconnect
  PROVE  GoogleInv'
<1> DEFINE row == Erased("DISCONNECTED")
           record == [written EXCEPT !.late = FALSE]
<1>1. connection \in Connection /\ written \in Written
  BY DEF GoogleInv, RowOK
<1>2. row \in Connection
  BY <1>1, ErasedRow
<1>3. row.status = "DISCONNECTED" /\ row.access = "none" /\ row.refresh = 0
  BY <1>1, ErasedRow
<1>4. record \in Written
  BY <1>1 DEF Written
<1>5. /\ connection' = row /\ written' = record /\ UNCHANGED <<honoured, issued>>
      /\ callers' = CallersOvertaken /\ tabs' = TabsErased
  BY DEF Disconnect
<1> HIDE DEF row, record
<1>6. issued \in Nat
  BY TokensAreNumbers DEF GoogleInv, RowOK
<1>7. RowOK'
  BY <1>2, <1>3, <1>4, <1>5, <1>6 DEF GoogleInv, RowOK
<1>8. SecretsStayErased' /\ ConnectedCanRefresh'
  BY <1>3, <1>5 DEF SecretsStayErased, ConnectedCanRefresh
<1>9. CallersOK'
  BY <1>5, OvertakenTyped, CallersAfterErasure
<1>10. TabsOK'
  <2>1. \A t \in ConsentTabs : TabOK(TabsErased[t], connection', issued')
    BY <1>5, TabErased DEF GoogleInv
  <2> QED BY <1>5, <2>1 DEF TabsOK, TabsErased
<1> QED BY <1>7, <1>8, <1>9, <1>10 DEF GoogleInv

\* The sync worker comes back to the row after it, the others are done.
LEMMA InvRevoke ==
  ASSUME GoogleInv, NEW c \in Callers, NEW caller \in {NoCaller, FailingCaller},
         Revoke(c, caller)
  PROVE  GoogleInv'
<1> DEFINE row == Erased("REVOKED")
           record == [written EXCEPT !.late = FALSE]
<1>1. connection \in Connection /\ written \in Written /\ issued \in Nat
  BY TokensAreNumbers DEF GoogleInv, RowOK
<1>2. row \in Connection
  BY <1>1, ErasedRow
<1>3. row.status = "REVOKED" /\ row.access = "none" /\ row.refresh = 0
  BY <1>1, ErasedRow
<1>4. record \in Written
  BY <1>1 DEF Written
<1>5. /\ connection' = row /\ written' = record /\ UNCHANGED <<honoured, issued>>
      /\ callers' = [CallersOvertaken EXCEPT ![c] = caller] /\ tabs' = TabsErased
  BY DEF Revoke
<1> HIDE DEF row, record
<1>6. RowOK'
  BY <1>1, <1>2, <1>3, <1>4, <1>5 DEF GoogleInv, RowOK
<1>7. SecretsStayErased' /\ ConnectedCanRefresh'
  BY <1>3, <1>5 DEF SecretsStayErased, ConnectedCanRefresh
<1>8. CallersOK'
  <2>1. caller \in Caller
    BY <1>1, NoneOK DEF CallerOK
  <2>2. callers' \in [Callers -> Caller]
    BY <1>5, <2>1, OvertakenTyped
  <2>3. \A d \in Callers : callers'[d] \in {CallersOvertaken[d], NoCaller, FailingCaller}
    BY <1>5, OvertakenTyped
  <2> QED BY <1>5, <2>2, <2>3, CallersAfterErasure
<1>9. TabsOK'
  <2>1. \A t \in ConsentTabs : TabOK(TabsErased[t], connection', issued')
    BY <1>5, TabErased DEF GoogleInv
  <2> QED BY <1>5, <2>1 DEF TabsOK, TabsErased
<1> QED BY <1>6, <1>7, <1>8, <1>9 DEF GoogleInv

LEMMA InvMarkRevoked ==
  ASSUME GoogleInv, NEW c \in Callers, MarkRevoked(c) \/ MarkRevokedAgain(c)
  PROVE  GoogleInv'
BY InvRevoke DEF MarkRevoked, MarkRevokedAgain

LEMMA InvChooseCalendar ==
  ASSUME GoogleInv, NEW c \in Callers, ChooseCalendar(c)
  PROVE  GoogleInv'
<1>1. connection \in Connection /\ issued \in Nat
  BY TokensAreNumbers DEF GoogleInv, RowOK
<1>2. /\ connection' \in Connection /\ connection'.status = connection.status
      /\ connection'.access = connection.access /\ connection'.refresh = connection.refresh
  BY <1>1 DEF ChooseCalendar, Connection
<1>3. callers' = [callers EXCEPT ![c] = NoCaller] /\ UNCHANGED <<honoured, issued, tabs, written>>
  BY DEF ChooseCalendar
<1>4. RowOK' /\ SecretsStayErased' /\ ConnectedCanRefresh'
  BY <1>2, <1>3 DEF GoogleInv, RowOK, SecretsStayErased, ConnectedCanRefresh
<1>5. TabsOK'
  BY <1>1, <1>2, <1>3, TabStays DEF GoogleInv, TabsOK
<1>6. \A d \in Callers : CallerOK(callers[d], connection', issued')
  BY <1>1, <1>2, <1>3, CallerStays DEF GoogleInv, CallersOK
<1>7. \A d \in Callers : callers'[d] = callers[d] \/ callers'[d] = NoCaller
  BY <1>3 DEF GoogleInv, CallersOK
<1>8. CallersOK'
  BY <1>1, <1>3, <1>6, <1>7, NoneOK DEF GoogleInv, CallersOK
<1> QED BY <1>4, <1>5, <1>8 DEF GoogleInv

LEMMA InvAccessExpires ==
  ASSUME GoogleInv, AccessExpires
  PROVE  GoogleInv'
<1>1. connection \in Connection /\ issued \in Nat
  BY TokensAreNumbers DEF GoogleInv, RowOK
<1>2. /\ connection' \in Connection /\ connection'.status = connection.status
      /\ connection'.refresh = connection.refresh /\ connection.access = "fresh"
  BY <1>1 DEF AccessExpires, Connection
<1>3. UNCHANGED <<honoured, issued, callers, tabs, written>>
  BY DEF AccessExpires
<1>4. RowOK' /\ SecretsStayErased' /\ ConnectedCanRefresh'
  BY <1>2, <1>3 DEF GoogleInv, RowOK, SecretsStayErased, ConnectedCanRefresh
<1>5. TabsOK'
  BY <1>1, <1>2, <1>3, TabStays DEF GoogleInv, TabsOK
<1>6. CallersOK'
  BY <1>1, <1>2, <1>3, CallerStays DEF GoogleInv, CallersOK
<1> QED BY <1>4, <1>5, <1>6 DEF GoogleInv

LEMMA InvAccessWithdrawn ==
  ASSUME GoogleInv, AccessWithdrawn
  PROVE  GoogleInv'
<1>1. issued \in Nat /\ UNCHANGED <<connection, issued, callers, tabs, written>> /\ honoured' = {}
  BY TokensAreNumbers DEF GoogleInv, RowOK, AccessWithdrawn
<1>2. RowOK' /\ SecretsStayErased' /\ ConnectedCanRefresh'
  BY <1>1, RowStays DEF GoogleInv, RowOK
<1>3. TabsOK' /\ CallersOK'
  BY <1>1, CallerStays DEF GoogleInv, TabsOK, CallersOK
<1> QED BY <1>2, <1>3 DEF GoogleInv

\* The tabs are erased only when the row has no refresh token afterwards.
LEMMA InvConnect ==
  ASSUME GoogleInv, NEW t \in ConsentTabs, NEW primary \in HostCalendars, Connect(t, primary)
  PROVE  GoogleInv'
<1> DEFINE tab == tabs[t]
           refresh == IF tab.obtained # 0 THEN tab.obtained ELSE tab.existing
           selected == IF tab.selected # NoCalendar THEN tab.selected ELSE primary
           row == [status |-> "CONNECTED", access |-> "fresh", refresh |-> refresh,
                   selected |-> selected]
           record == [written EXCEPT !.late = FALSE, !.withoutConsent = tab.erased]
<1>1. TabOK(tab, connection, issued) /\ tab \in Tab /\ tab.state = "connecting"
  BY DEF GoogleInv, TabsOK, TabOK, Connect
<1>2. written \in Written /\ issued \in Nat
  BY TokensAreNumbers DEF GoogleInv, RowOK
<1>3. /\ refresh \in Tokens /\ refresh <= issued
      /\ refresh = 0 => tab.erased
      /\ selected \in HostCalendars
      /\ tab.erased \in BOOLEAN
  BY <1>1 DEF TabOK, Tab
<1>4. /\ connection' = row /\ written' = record /\ callers' = CallersOvertaken
      /\ tabs' = [(IF refresh = 0 THEN TabsErased ELSE tabs) EXCEPT ![t] = NoTab]
      /\ UNCHANGED <<honoured, issued>>
  BY DEF Connect
<1>5. record \in Written /\ record.withoutConsent = tab.erased
  BY <1>2, <1>3 DEF Written
<1> HIDE DEF refresh, selected, record, tab
<1>6. row \in Connection /\ row.status = "CONNECTED" /\ row.refresh = refresh
  BY <1>3 DEF Connection
<1> HIDE DEF row
<1>7. RowOK'
  BY <1>3, <1>4, <1>5, <1>6 DEF GoogleInv, RowOK
<1>8. SecretsStayErased' /\ ConnectedCanRefresh'
  BY <1>3, <1>4, <1>5, <1>6 DEF SecretsStayErased, ConnectedCanRefresh
<1>9. CallersOK'
  BY <1>4, OvertakenTyped, CallersAfterErasure
<1>10. ASSUME NEW u \in ConsentTabs
       PROVE  TabOK(tabs'[u], connection', issued')
  <2>1. CASE u = t
    <3>1. tabs'[u] = NoTab
      BY <1>4, <2>1 DEF GoogleInv, TabsOK, TabsErased
    <3> QED BY <1>2, <1>4, <3>1, NoneOK
  <2>2. CASE u # t /\ refresh = 0
    <3>1. tabs'[u] = TabsErased[u]
      BY <1>4, <2>2 DEF TabsErased
    <3> QED BY <1>4, <3>1, TabErased DEF GoogleInv
  <2>3. CASE u # t /\ refresh # 0
    <3>1. tabs'[u] = tabs[u] /\ TabOK(tabs[u], connection, issued)
      BY <1>4, <2>3 DEF GoogleInv, TabsOK
    <3>2. issued <= issued' /\ connection'.refresh # 0
      BY <1>2, <1>4, <1>6, <2>3
    <3> QED BY <1>2, <1>4, <3>1, <3>2, TabStays
  <2> QED BY <2>1, <2>2, <2>3
<1>11. tabs' = [u \in ConsentTabs |-> tabs'[u]]
  BY <1>4 DEF GoogleInv, TabsOK, TabsErased
<1> QED BY <1>7, <1>8, <1>9, <1>10, <1>11 DEF GoogleInv, TabsOK

-----------------------------------------------------------------------------

LEMMA InvNext ==
  ASSUME GoogleInv, [GoogleNext]_googleVars
  PROVE  GoogleInv'
<1>1. ASSUME NEW t \in ConsentTabs,
             \/ GetConnectUrl(t) \/ CallbackBegins(t) \/ CodeExchanged(t) \/ ConsentFails(t)
             \/ \E primary \in HostCalendars : Connect(t, primary)
      PROVE  GoogleInv'
  BY <1>1, InvGetConnectUrl, InvCallbackBegins, InvCodeExchanged, InvConsentFails, InvConnect
<1>2. ASSUME NEW c \in Callers,
             \/ \E purpose \in Purposes : ReadCredentials(c, purpose)
             \/ RefreshAnswered(c) \/ StoreRefreshed(c) \/ ChooseCalendar(c)
             \/ MarkRevoked(c) \/ MarkRevokedAgain(c)
      PROVE  GoogleInv'
  BY <1>2, InvReadCredentials, InvRefreshAnswered, InvStoreRefreshed, InvChooseCalendar,
     InvMarkRevoked
<1>3. CASE Disconnect \/ AccessExpires \/ AccessWithdrawn
  BY <1>3, InvDisconnect, InvAccessExpires, InvAccessWithdrawn
<1>4. CASE UNCHANGED googleVars
  BY <1>4 DEF googleVars, GoogleInv, RowOK, CallersOK, TabsOK, SecretsStayErased,
              ConnectedCanRefresh
<1> QED BY <1>1, <1>2, <1>3, <1>4 DEF GoogleNext

LEMMA InvInit ==
  ASSUME GoogleInit
  PROVE  GoogleInv
<1>1. 0 \in Tokens
  BY MaxTokensAssumption DEF Tokens
<1>2. RowOK
  BY <1>1 DEF GoogleInit, RowOK, Connection, Written
<1>3. CallersOK /\ TabsOK
  BY NoneOK DEF GoogleInit, CallersOK, TabsOK
<1>4. SecretsStayErased /\ ConnectedCanRefresh
  BY DEF GoogleInit, SecretsStayErased, ConnectedCanRefresh
<1> QED BY <1>2, <1>3, <1>4 DEF GoogleInv

LEMMA InvAlways == GoogleSpec => []GoogleInv
<1>1. GoogleInit => GoogleInv
  BY InvInit
<1>2. GoogleInv /\ [GoogleNext]_googleVars => GoogleInv'
  BY InvNext
<1> QED BY <1>1, <1>2, PTL DEF GoogleSpec

\* Every variable of the connection has its type.
THEOREM ConnectionTyped == GoogleSpec => []GoogleTypeOK
<1>1. GoogleInv => GoogleTypeOK
  BY GoogleInvTyped
<1> QED BY InvAlways, <1>1, PTL

\* The tokens a disconnection or a revocation has erased stay erased, but for
\* a refresh that had read them before.
THEOREM ErasedForGood == GoogleSpec => []SecretsStayErased
<1>1. GoogleInv => SecretsStayErased
  BY DEF GoogleInv
<1> QED BY InvAlways, <1>1, PTL

\* Who connects leaves with a refresh token in the row, unless the one the flow
\* counted on was erased on its way.
THEOREM ConnectedRefreshes == GoogleSpec => []ConnectedCanRefresh
<1>1. GoogleInv => ConnectedCanRefresh
  BY DEF GoogleInv
<1> QED BY InvAlways, <1>1, PTL

-----------------------------------------------------------------------------
(* The page of integrations *)

\* What stands for the stored preferences.
Stands(preferences) == Resolved(preferences) = Resolved(integration.preferences)

\* No row stands for the primary calendar, and a save has found a row.
RowFound ==
  /\ integration.status = "NONE" => integration.preferences = PrimaryAlias
  /\ save.state = "checking" => integration.status # "NONE"

\* What was read, saved and shown is what is stored, or has been overtaken.
LoadCurrent(load) ==
  load.state \in {"read", "listing", "listed"} /\ ~load.overtaken => Stands(load.row.preferences)
LoadsCurrent == \A l \in PageLoads : LoadCurrent(reads[l])
SaveCurrent == save.state = "stored" /\ ~save.overtaken => Stands(save.choice)
ViewCurrent == view.listed /\ ~view.overtaken => Stands(view.saved)

IntegrationsInv == IntegrationsTypeOK /\ RowFound /\ LoadsCurrent /\ SaveCurrent /\ ViewCurrent

LEMMA IntegrationRecords ==
  /\ NoRow \in IntegrationRow /\ ClosedPage \in IntegrationsView /\ NoLoad \in PageLoad
  /\ NoSave \in Save /\ NoDisconnection \in Disconnection
  /\ ~ClosedPage.listed /\ NoLoad.state = "idle" /\ NoSave.state = "idle"
BY DEF NoRow, IntegrationRow, ClosedPage, IntegrationsView, NoLoad, PageLoad, NoSave, Save,
       NoDisconnection, Disconnection, Named, Statuses

LEMMA ResolvedTyped ==
  ASSUME NEW preferences \in Named
  PROVE  Resolved(preferences) \in Preferences /\ Resolved(Resolved(preferences)) = Resolved(preferences)
BY PreferencesAssumption DEF Resolved, Named

LEMMA IntegrationsStart == IntegrationsInit => IntegrationsInv
<1> SUFFICES ASSUME IntegrationsInit PROVE IntegrationsInv
  OBVIOUS
<1>1. 0 \in 0..MaxOtherTabs
  BY OtherTabsAssumption
<1>2. IntegrationsTypeOK
  BY <1>1, IntegrationRecords DEF IntegrationsInit, IntegrationsTypeOK
<1>3. LoadsCurrent /\ SaveCurrent /\ ViewCurrent
  BY IntegrationRecords DEF IntegrationsInit, LoadsCurrent, LoadCurrent, SaveCurrent, ViewCurrent
<1>4. RowFound
  BY IntegrationRecords DEF IntegrationsInit, RowFound, NoRow
<1> QED
  BY <1>2, <1>3, <1>4 DEF IntegrationsInv

LEMMA IntegrationTyped ==
  ASSUME IntegrationsInv
  PROVE  /\ integration \in IntegrationRow /\ integration.preferences \in Named
         /\ view \in IntegrationsView /\ save \in Save /\ disconnection \in Disconnection
         /\ reads \in [PageLoads -> PageLoad] /\ otherTabs \in 0..MaxOtherTabs
         /\ \A l \in PageLoads : reads[l] \in PageLoad
BY DEF IntegrationsInv, IntegrationsTypeOK, IntegrationRow

\* The stored preferences stay, and so does what is current.
LEMMA StoredStays ==
  ASSUME IntegrationsInv,
         integration' \in IntegrationRow, view' \in IntegrationsView, save' \in Save,
         reads' \in [PageLoads -> PageLoad], disconnection' \in Disconnection,
         UNCHANGED otherTabs,
         Resolved(integration.preferences)' = Resolved(integration.preferences),
         RowFound',
         \A l \in PageLoads : LoadCurrent(reads'[l]),
         save'.state = "stored" /\ ~save'.overtaken => Stands(save'.choice),
         view'.listed /\ ~view'.overtaken => Stands(view'.saved)
  PROVE  IntegrationsInv'
<1>1. IntegrationsTypeOK'
  BY DEF IntegrationsInv, IntegrationsTypeOK
<1>2. \A preferences : Stands(preferences)' = Stands(preferences)
  BY DEF Stands
<1>3. LoadsCurrent' /\ SaveCurrent' /\ ViewCurrent'
  BY <1>2 DEF LoadsCurrent, LoadCurrent, SaveCurrent, ViewCurrent, Stands
<1> QED
  BY <1>1, <1>3 DEF IntegrationsInv

LEMMA StillCurrent ==
  ASSUME IntegrationsInv
  PROVE  /\ \A l \in PageLoads : LoadCurrent(reads[l])
         /\ save.state = "stored" /\ ~save.overtaken => Stands(save.choice)
         /\ view.listed /\ ~view.overtaken => Stands(view.saved)
         /\ RowFound
BY DEF IntegrationsInv, LoadsCurrent, SaveCurrent, ViewCurrent

\* A load goes on, and the page may show what it brought.
LEMMA LoadGoesOn ==
  ASSUME IntegrationsInv, NEW l \in PageLoads, NEW new \in PageLoad,
         reads' = [reads EXCEPT ![l] = new], LoadCurrent(new), view' \in IntegrationsView,
         view'.listed /\ ~view'.overtaken => Stands(view'.saved),
         UNCHANGED <<integration, save, disconnection, otherTabs>>
  PROVE  IntegrationsInv'
<1>1. reads' \in [PageLoads -> PageLoad] /\ \A other \in PageLoads : LoadCurrent(reads'[other])
  <2>1. reads' \in [PageLoads -> PageLoad]
        /\ \A other \in PageLoads : reads'[other] \in {reads[other], new}
    BY IntegrationTyped
  <2> QED
    BY <2>1, StillCurrent
<1>2. RowFound' /\ Resolved(integration.preferences)' = Resolved(integration.preferences)
  BY StillCurrent DEF RowFound
<1> QED
  BY <1>1, <1>2, IntegrationTyped, StillCurrent, StoredStays

\* The page, the save or the disconnection goes on.
LEMMA PageGoesOn ==
  ASSUME IntegrationsInv, view' \in IntegrationsView, save' \in Save,
         disconnection' \in Disconnection, UNCHANGED <<integration, reads, otherTabs>>,
         save'.state = "checking" => integration.status # "NONE",
         save'.state = "stored" /\ ~save'.overtaken => Stands(save'.choice),
         view'.listed /\ ~view'.overtaken => Stands(view'.saved)
  PROVE  IntegrationsInv'
<1>1. RowFound' /\ Resolved(integration.preferences)' = Resolved(integration.preferences)
  BY StillCurrent DEF RowFound
<1> QED
  BY <1>1, IntegrationTyped, StillCurrent, StoredStays

-----------------------------------------------------------------------------
(* loadIntegration *)

LEMMA SendsLoad ==
  ASSUME IntegrationsInv, NEW l \in PageLoads, SendLoad(l)
  PROVE  \E new \in PageLoad : reads' = [reads EXCEPT ![l] = new] /\ LoadCurrent(new)
<1> DEFINE new == [reads[l] EXCEPT !.state = "sent"]
<1>1. reads' = [reads EXCEPT ![l] = new]
  BY IntegrationTyped DEF SendLoad
<1>2. new \in PageLoad /\ new.state = "sent"
  BY IntegrationTyped DEF PageLoad
<1> HIDE DEF new
<1> QED
  BY <1>1, <1>2 DEF LoadCurrent

LEMMA SentStep ==
  ASSUME IntegrationsInv, NEW l \in PageLoads, NEW returning \in BOOLEAN,
         OpenPage(l, returning) \/ ReplaceUrl(l)
  PROVE  IntegrationsInv'
<1>1. SendLoad(l) /\ UNCHANGED <<integration, save, disconnection, otherTabs>>
  BY DEF OpenPage, ReplaceUrl
<1>2. PICK new \in PageLoad : reads' = [reads EXCEPT ![l] = new] /\ LoadCurrent(new)
  BY <1>1, SendsLoad
<1>3. CASE view' = [ClosedPage EXCEPT !.open = TRUE, !.replacing = returning]
  <2>1. view' \in IntegrationsView /\ ~view'.listed
    BY <1>3, IntegrationRecords DEF IntegrationsView
  <2> QED
    BY <1>1, <1>2, <2>1, LoadGoesOn
<1>4. CASE view' = [view EXCEPT !.replacing = FALSE, !.loading = TRUE]
  <2>1. view' \in IntegrationsView /\ view'.listed = view.listed /\ view'.saved = view.saved
        /\ view'.overtaken = view.overtaken
    BY <1>4, IntegrationTyped DEF IntegrationsView
  <2> QED
    BY <1>1, <1>2, <2>1, StillCurrent, LoadGoesOn
<1> QED
  BY <1>3, <1>4 DEF OpenPage, ReplaceUrl

\* A load that ends is current.
LEMMA NoLoadCurrent == LoadCurrent(NoLoad) /\ NoLoad \in PageLoad
BY IntegrationRecords DEF LoadCurrent

LEMMA IntegrationReadStep ==
  ASSUME IntegrationsInv, NEW l \in PageLoads, ReadIntegration(l)
  PROVE  IntegrationsInv'
<1> DEFINE new == [reads[l] EXCEPT !.state = "read", !.row = integration]
<1>1. reads' = [reads EXCEPT ![l] = new] /\ UNCHANGED <<integration, view, save, disconnection, otherTabs>>
  BY IntegrationTyped DEF ReadIntegration
<1>2. new \in PageLoad /\ new.row = integration
  BY IntegrationTyped DEF PageLoad
<1> HIDE DEF new
<1>3. LoadCurrent(new)
  BY <1>2 DEF LoadCurrent, Stands
<1> QED
  BY <1>1, <1>2, <1>3, IntegrationTyped, StillCurrent, LoadGoesOn

LEMMA IntegrationShowStep ==
  ASSUME IntegrationsInv, NEW l \in PageLoads, ShowIntegration(l)
  PROVE  IntegrationsInv'
<1> DEFINE status == reads[l].row.status
           listing == [reads[l] EXCEPT !.state = "listing"]
<1>1. reads[l].state = "read" /\ UNCHANGED <<integration, save, disconnection, otherTabs>>
      /\ view' = [view EXCEPT !.status = status, !.loading = status = "CONNECTED" /\ view.loading]
      /\ (reads' = [reads EXCEPT ![l] = listing] \/ reads' = [reads EXCEPT ![l] = NoLoad])
  BY IntegrationTyped DEF ShowIntegration
<1>2. status \in Statuses /\ (status = "CONNECTED" /\ view.loading) \in BOOLEAN
  BY IntegrationTyped DEF PageLoad, IntegrationRow, IntegrationsView
<1>3. view' \in IntegrationsView /\ view'.listed = view.listed /\ view'.saved = view.saved
      /\ view'.overtaken = view.overtaken
  BY <1>1, <1>2, IntegrationTyped DEF IntegrationsView
<1>4. listing \in PageLoad /\ listing.row = reads[l].row /\ listing.overtaken = reads[l].overtaken
  BY IntegrationTyped DEF PageLoad
<1> HIDE DEF listing
<1>5. LoadCurrent(listing)
  BY <1>1, <1>4, StillCurrent DEF LoadCurrent
<1> QED
  BY <1>1, <1>3, <1>4, <1>5, NoLoadCurrent, StillCurrent, LoadGoesOn

LEMMA FailStep ==
  ASSUME IntegrationsInv, NEW l \in PageLoads, LoadFails(l)
  PROVE  IntegrationsInv'
<1>1. reads' = [reads EXCEPT ![l] = NoLoad] /\ view' = [view EXCEPT !.loading = FALSE]
      /\ UNCHANGED <<integration, save, disconnection, otherTabs>>
  BY DEF LoadFails
<1>2. view' \in IntegrationsView /\ view'.listed = view.listed /\ view'.saved = view.saved
      /\ view'.overtaken = view.overtaken
  BY <1>1, IntegrationTyped DEF IntegrationsView
<1> QED
  BY <1>1, <1>2, NoLoadCurrent, StillCurrent, LoadGoesOn

LEMMA ListedStep ==
  ASSUME IntegrationsInv, NEW l \in PageLoads, ListCalendars(l)
  PROVE  IntegrationsInv'
<1> DEFINE new == [reads[l] EXCEPT !.state = "listed"]
<1>1. reads' = [reads EXCEPT ![l] = new] /\ reads[l].state = "listing"
      /\ UNCHANGED <<integration, view, save, disconnection, otherTabs>>
  BY IntegrationTyped DEF ListCalendars
<1>2. new \in PageLoad /\ new.row = reads[l].row /\ new.overtaken = reads[l].overtaken
  BY IntegrationTyped DEF PageLoad
<1> HIDE DEF new
<1>3. LoadCurrent(new)
  BY <1>1, <1>2, StillCurrent DEF LoadCurrent
<1> QED
  BY <1>1, <1>2, <1>3, IntegrationTyped, StillCurrent, LoadGoesOn

\* The form takes what was read, the alias for the primary calendar or not.
LEMMA PreferencesShown ==
  ASSUME IntegrationsInv, NEW l \in PageLoads, ShowCalendars(l) \/ CalendarsFail(l)
  PROVE  IntegrationsInv'
<1> DEFINE row == reads[l].row
<1>1. PICK preferences \in {row.preferences, Resolved(row.preferences)}, listed \in BOOLEAN :
        ShowPreferences(l, preferences, listed)
  BY IntegrationTyped DEF ShowCalendars, CalendarsFail, IntegrationsView
<1>2. row.preferences \in Named /\ reads[l].overtaken \in BOOLEAN
  BY IntegrationTyped DEF PageLoad, IntegrationRow
<1>3. preferences \in Named /\ Resolved(preferences) = Resolved(row.preferences)
  BY <1>2, ResolvedTyped DEF Named
<1>4. view' = [view EXCEPT !.form = preferences, !.saved = preferences, !.listed = listed,
                           !.loading = FALSE, !.overtaken = reads[l].overtaken]
      /\ reads' = [reads EXCEPT ![l] = NoLoad]
      /\ UNCHANGED <<integration, save, disconnection, otherTabs>>
  BY <1>1 DEF ShowPreferences
<1>5. view' \in IntegrationsView /\ view'.saved = preferences
      /\ view'.overtaken = reads[l].overtaken
  BY <1>2, <1>3, <1>4, IntegrationTyped DEF IntegrationsView
<1>6. reads[l].state \in {"listing", "listed"}
  BY DEF ShowCalendars, CalendarsFail
<1>7. ~view'.overtaken => Stands(view'.saved)
  BY <1>3, <1>5, <1>6, StillCurrent DEF LoadCurrent, Stands
<1> QED
  BY <1>4, <1>5, <1>7, NoLoadCurrent, LoadGoesOn

-----------------------------------------------------------------------------
(* The form and the dialog *)

\* Of the view only what is edited or asked changes.
LEMMA ViewStep ==
  ASSUME IntegrationsInv,
         \/ \E preferences \in Preferences : EditPreferences(preferences)
         \/ AskDisconnect \/ CancelDisconnect
  PROVE  IntegrationsInv'
<1>1. UNCHANGED <<integration, reads, save, disconnection, otherTabs>>
  BY DEF EditPreferences, AskDisconnect, CancelDisconnect
<1>2. view' \in IntegrationsView /\ view'.listed = view.listed /\ view'.saved = view.saved
      /\ view'.overtaken = view.overtaken
  BY IntegrationTyped DEF EditPreferences, AskDisconnect, CancelDisconnect, IntegrationsView, Named
<1> QED
  BY <1>1, <1>2, IntegrationTyped, StillCurrent, PageGoesOn DEF RowFound

LEMMA PreferencesSaveStep ==
  ASSUME IntegrationsInv, SavePreferences \/ CheckPreferences \/ SaveFails
  PROVE  IntegrationsInv'
<1>1. UNCHANGED <<integration, view, reads, disconnection, otherTabs>>
  BY DEF SavePreferences, CheckPreferences, SaveFails
<1>2. save' \in Save /\ save'.state # "stored"
      /\ (save'.state = "checking" => integration.status # "NONE")
  <2>1. CASE SavePreferences
    BY <2>1, IntegrationTyped, IntegrationRecords DEF SavePreferences, Save, IntegrationsView
  <2>2. CASE CheckPreferences
    BY <2>2, IntegrationTyped DEF CheckPreferences, Save
  <2>3. CASE SaveFails
    BY <2>3, IntegrationTyped, IntegrationRecords, StillCurrent DEF SaveFails, Save, RowFound
  <2> QED
    BY <2>1, <2>2, <2>3
<1> QED
  BY <1>1, <1>2, IntegrationTyped, StillCurrent, PageGoesOn

LEMMA ShowSavedStep ==
  ASSUME IntegrationsInv, ShowSaved
  PROVE  IntegrationsInv'
<1>1. save.state = "stored" /\ save' = NoSave
      /\ view' = [view EXCEPT !.status = save.status, !.saved = save.choice,
                              !.overtaken = save.overtaken]
      /\ UNCHANGED <<integration, reads, disconnection, otherTabs>>
  BY DEF ShowSaved, SavedCopy
<1>2. save.status \in Statuses /\ save.choice \in Named /\ save.overtaken \in BOOLEAN
  BY IntegrationTyped DEF Save
<1>3. view' \in IntegrationsView /\ view'.saved = save.choice /\ view'.overtaken = save.overtaken
  BY <1>1, <1>2, IntegrationTyped DEF IntegrationsView
<1> QED
  BY <1>1, <1>3, IntegrationTyped, IntegrationRecords, StillCurrent, PageGoesOn

LEMMA DisconnectDialogStep ==
  ASSUME IntegrationsInv, ConfirmDisconnect \/ ShowDisconnected \/ DisconnectFails
  PROVE  IntegrationsInv'
<1>1. UNCHANGED <<integration, reads, save, otherTabs>>
  BY DEF ConfirmDisconnect, ShowDisconnected, DisconnectFails
<1>2. disconnection' \in Disconnection
  <2>1. disconnection' \in {NoDisconnection, [state |-> "sent", awaited |-> TRUE]}
    BY DEF ConfirmDisconnect, ShowDisconnected, DisconnectFails
  <2>2. [state |-> "sent", awaited |-> TRUE] \in Disconnection
    BY DEF Disconnection
  <2> QED
    BY <2>1, <2>2, IntegrationRecords
<1>3. view' \in IntegrationsView
      /\ (view'.listed => view' = view)
  BY IntegrationTyped DEF ConfirmDisconnect, ShowDisconnected, DisconnectFails, IntegrationsView, Statuses
<1> QED
  BY <1>1, <1>2, <1>3, IntegrationTyped, StillCurrent, PageGoesOn DEF RowFound

\* What was sent goes on without the page.
LEMMA LeaveStep ==
  ASSUME IntegrationsInv, LeavePage
  PROVE  IntegrationsInv'
<1>1. view' = ClosedPage /\ reads' = [l \in PageLoads |-> NoLoad]
      /\ UNCHANGED <<integration, otherTabs>>
  BY DEF LeavePage
<1>2. save' \in Save /\ save'.state # "stored"
      /\ (save'.state = "checking" => save.state = "checking")
  <2>1. CASE save' = NoSave
    BY <2>1, IntegrationRecords
  <2>2. CASE save' = [save EXCEPT !.awaited = FALSE] /\ save.state \in {"sent", "checking"}
    BY <2>2, IntegrationTyped DEF Save
  <2> QED
    BY <2>1, <2>2 DEF LeavePage
<1>3. disconnection' \in Disconnection
  BY IntegrationTyped, IntegrationRecords DEF LeavePage, Disconnection
<1>4. RowFound' /\ Resolved(integration.preferences)' = Resolved(integration.preferences)
  BY <1>1, <1>2, StillCurrent DEF RowFound
<1>5. reads' \in [PageLoads -> PageLoad] /\ \A l \in PageLoads : LoadCurrent(reads'[l])
  BY <1>1, NoLoadCurrent
<1>6. view' \in IntegrationsView /\ ~view'.listed
  BY <1>1, IntegrationRecords
<1> QED
  BY <1>1, <1>2, <1>3, <1>4, <1>5, <1>6, IntegrationTyped, StoredStays

-----------------------------------------------------------------------------
(* The row *)

\* The status changes, which no row has lost, and the preferences do not, but
\* for those of a row that is new.
LEMMA StatusStep ==
  ASSUME IntegrationsInv, DisconnectRow \/ ConnectElsewhere \/ EndElsewhere
  PROVE  IntegrationsInv'
<1>1. UNCHANGED <<view, reads, save, otherTabs>>
  BY DEF DisconnectRow, ConnectElsewhere, EndElsewhere
<1>2. disconnection' \in Disconnection
  <2>1. disconnection' \in {disconnection, NoDisconnection, [disconnection EXCEPT !.state = "done"]}
    BY DEF DisconnectRow, ConnectElsewhere, EndElsewhere
  <2>2. [disconnection EXCEPT !.state = "done"] \in Disconnection
    BY IntegrationTyped DEF Disconnection
  <2> QED
    BY <2>1, <2>2, IntegrationTyped, IntegrationRecords
<1>3. CASE \E status \in {"CONNECTED", "DISCONNECTED"} : integration' = [integration EXCEPT !.status = status]
  <2>1. integration' \in IntegrationRow /\ integration'.status # "NONE"
        /\ integration'.preferences = integration.preferences
    BY <1>3, IntegrationTyped DEF IntegrationRow, Statuses
  <2>2. RowFound' /\ Resolved(integration.preferences)' = Resolved(integration.preferences)
    BY <2>1 DEF RowFound, Resolved
  <2> QED
    BY <1>1, <1>2, <2>1, <2>2, IntegrationTyped, StillCurrent, StoredStays
<1>4. CASE integration.status = "NONE" /\ integration' = [status |-> "CONNECTED", preferences |-> Primary]
  <2>1. integration' \in IntegrationRow /\ integration'.status = "CONNECTED"
        /\ integration'.preferences = Primary
    BY <1>4, PreferencesAssumption DEF IntegrationRow, Statuses, Named
  <2>2. Resolved(integration.preferences)' = Resolved(integration.preferences)
    BY <1>4, <2>1, StillCurrent DEF RowFound, Resolved
  <2>3. RowFound'
    BY <2>1 DEF RowFound
  <2> QED
    BY <1>1, <1>2, <2>1, <2>2, <2>3, IntegrationTyped, StillCurrent, StoredStays
<1> QED
  BY <1>3, <1>4 DEF DisconnectRow, ConnectElsewhere, EndElsewhere

\* The preferences are written anew: all that was read before is overtaken.
LEMMA Overtaken ==
  ASSUME IntegrationsInv, Overtake, NEW preferences \in Named, integration.status # "NONE",
         integration' = [integration EXCEPT !.preferences = preferences],
         save' \in Save, UNCHANGED disconnection, otherTabs' \in 0..MaxOtherTabs,
         save'.state = "stored" /\ ~save'.overtaken => Resolved(save'.choice) = Resolved(preferences)
  PROVE  IntegrationsInv'
<1>1. integration' \in IntegrationRow /\ integration'.preferences = preferences
      /\ integration'.status = integration.status
  BY IntegrationTyped DEF IntegrationRow
<1>2. view' \in IntegrationsView /\ view'.overtaken
  BY IntegrationTyped DEF Overtake, IntegrationsView
<1>3. ASSUME NEW l \in PageLoads
      PROVE  LET load == [reads[l] EXCEPT !.overtaken = reads[l].state \in {"read", "listing", "listed"}]
             IN  load \in PageLoad /\ load.state = reads[l].state
                 /\ load.overtaken = (reads[l].state \in {"read", "listing", "listed"})
  <2>1. (reads[l].state \in {"read", "listing", "listed"}) \in BOOLEAN
    OBVIOUS
  <2> QED
    BY <2>1, IntegrationTyped DEF PageLoad
<1>4. reads' \in [PageLoads -> PageLoad]
      /\ \A l \in PageLoads : reads'[l].state = reads[l].state
           /\ reads'[l].overtaken = (reads[l].state \in {"read", "listing", "listed"})
  BY <1>3 DEF Overtake
<1>5. IntegrationsTypeOK'
  BY <1>1, <1>2, <1>4, IntegrationTyped DEF IntegrationsTypeOK
<1>6. LoadsCurrent' /\ ViewCurrent'
  BY <1>2, <1>4 DEF LoadsCurrent, LoadCurrent, ViewCurrent
<1>7. SaveCurrent' /\ RowFound'
  BY <1>1 DEF SaveCurrent, Stands, RowFound, Resolved
<1> QED
  BY <1>5, <1>6, <1>7 DEF IntegrationsInv

LEMMA StoreStep ==
  ASSUME IntegrationsInv, StorePreferences
  PROVE  IntegrationsInv'
<1>1. save.state = "checking" /\ Overtake /\ UNCHANGED <<disconnection, otherTabs>>
      /\ integration' = [integration EXCEPT !.preferences = Resolved(save.choice)]
  BY DEF StorePreferences
<1>2. save.choice \in Named /\ integration.status \in Statuses
  BY IntegrationTyped DEF Save, IntegrationRow
<1>3. Resolved(save.choice) \in Named
      /\ Resolved(Resolved(save.choice)) = Resolved(save.choice)
  BY <1>2, ResolvedTyped DEF Named
<1>4. save' \in Save /\ (save'.state = "stored" => save'.choice = save.choice)
  <2>1. CASE save' = NoSave
    BY <2>1, IntegrationRecords
  <2>2. CASE save' = [save EXCEPT !.state = "stored", !.status = integration.status]
    BY <1>2, <2>2, IntegrationTyped DEF Save
  <2> QED
    BY <2>1, <2>2 DEF StorePreferences
<1> QED
  BY <1>1, <1>3, <1>4, IntegrationTyped, StillCurrent, Overtaken DEF RowFound

LEMMA ElsewhereStep ==
  ASSUME IntegrationsInv, SaveElsewhere
  PROVE  IntegrationsInv'
<1>1. integration.status = "CONNECTED" /\ Overtake /\ UNCHANGED disconnection
      /\ save' = [save EXCEPT !.overtaken = save.state = "stored"]
      /\ otherTabs < MaxOtherTabs /\ otherTabs' = otherTabs + 1
  BY DEF SaveElsewhere
<1>2. PICK preferences \in Preferences : integration' = [integration EXCEPT !.preferences = preferences]
  BY DEF SaveElsewhere
<1>3. otherTabs' \in 0..MaxOtherTabs
  BY <1>1, IntegrationTyped, OtherTabsAssumption
<1>4. save' \in Save /\ (save'.state = "stored" => save'.overtaken)
  <2>1. (save.state = "stored") \in BOOLEAN
    OBVIOUS
  <2> QED
    BY <1>1, <2>1, IntegrationTyped DEF Save
<1> QED
  BY <1>1, <1>2, <1>3, <1>4, Overtaken DEF Named

-----------------------------------------------------------------------------
LEMMA IntegrationsSteps == IntegrationsInv /\ [IntegrationsNext]_integrationVars => IntegrationsInv'
<1> SUFFICES ASSUME IntegrationsInv, [IntegrationsNext]_integrationVars PROVE IntegrationsInv'
  OBVIOUS
<1>1. CASE UNCHANGED integrationVars
  <2>1. UNCHANGED <<integration, view, reads, save, disconnection, otherTabs>>
    BY <1>1 DEF integrationVars
  <2> QED
    BY <2>1, IntegrationTyped, StillCurrent, PageGoesOn DEF RowFound
<1>2. CASE IntegrationsNext
  BY <1>2, SentStep, IntegrationReadStep, IntegrationShowStep, FailStep, ListedStep, PreferencesShown, ViewStep,
     PreferencesSaveStep, StoreStep, ShowSavedStep, DisconnectDialogStep, LeaveStep, StatusStep, ElsewhereStep
  DEF IntegrationsNext
<1> QED
  BY <1>1, <1>2

LEMMA IntegrationsHold == IntegrationsSpec => []IntegrationsInv
<1>1. IntegrationsInit => IntegrationsInv
  BY IntegrationsStart
<1>2. IntegrationsInv /\ [IntegrationsNext]_integrationVars => IntegrationsInv'
  BY IntegrationsSteps
<1> QED
  BY <1>1, <1>2, PTL DEF IntegrationsSpec

\* A page that offers nothing to save shows the preferences that are stored, as
\* long as nobody stored others since the answer that it shows (loadIntegration,
\* handleSavePreferences), for any number of loads and of other tabs.
THEOREM UnchangedStored == IntegrationsSpec => []UnchangedIsStored
<1>1. IntegrationsInv => UnchangedIsStored
  BY StillCurrent DEF UnchangedIsStored, HasChanges, Stands
<1> QED
  BY <1>1, IntegrationsHold, PTL
=============================================================================
