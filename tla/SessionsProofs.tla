--------------------------- MODULE SessionsProofs ---------------------------
(***************************************************************************)
(* Sessions is type correct, and its four safety invariants hold for every *)
(* number of tabs, devices, requests and refreshes.                        *)
(***************************************************************************)
EXTENDS Sessions, TLAPS

USE DEF vars, serverVars, browserVars, Happens, Fault, Closing

(***************************************************************************)
(* Steps.                                                                  *)
(***************************************************************************)

\* A step that changes nothing the invariants speak of, except that it may
\* remove the tokens from the browser.
Quietly ==
    /\ UNCHANGED <<account, issued, flight, login, changes, refreshing, crossed, delivered,
                   fresh, raced, spent, twice, shared, staleBackfill>>
    /\ local' \in {local, 0}

LEMMA Cases ==
    ASSUME [Next]_vars
    PROVE  \/ Quietly
           \/ \E f \in Flights : \/ RefreshMatch(f) \/ RefreshStore(f) \/ RefreshDone(f)
                                 \/ RefreshRefused(f) \/ RefreshLost(f)
           \/ \E t \in Tabs, s \in Slots : \/ Served(t, s)
                                           \/ \E f \in Flights : StartRefresh(t, s, f)
           \/ \E c \in Clients : \/ LoginFind(c) \/ LoginBackfill(c) \/ LoginStore(c)
                                 \/ LoginDone(c) \/ LoginFails(c)
                                 \/ \E p \in Passwords : Submit(c, p)
           \/ \E p \in Passwords : ChangeSave(p) \/ Reset(p)
           \/ Delete
           \/ \E b \in BOOLEAN : SetActive(b)
<1> USE DEF Quietly
<1>1. CASE UNCHANGED vars  BY <1>1
<1>2. ASSUME NEW t \in Tabs, NEW s \in Slots, Send(t, s) PROVE Quietly
  BY <1>2 DEF Send
<1>3. ASSUME NEW t \in Tabs, NEW s \in Slots, Logout(t, s) PROVE Quietly
  BY <1>3 DEF Logout
<1>4. ASSUME NEW t \in Tabs, NEW s \in Slots, RequestFails(t, s) PROVE Quietly
  BY <1>4 DEF RequestFails
<1>5. ASSUME NEW t \in Tabs, NEW s \in Slots, RefusedAgain(t, s) PROVE Quietly
  BY <1>5 DEF RefusedAgain
<1>6. ASSUME NEW t \in Tabs, NEW s \in Slots, JoinRefresh(t, s) PROVE Quietly
  BY <1>6 DEF JoinRefresh
<1>7. ASSUME NEW t \in Tabs, NEW s \in Slots, NothingToRefresh(t, s) PROVE Quietly
  BY <1>7 DEF NothingToRefresh, SignOut
<1>8. ASSUME NEW n \in 1..issued, Expire(n) PROVE Quietly
  BY <1>8 DEF Expire
<1>9. ASSUME ChangeFind PROVE Quietly
  BY <1>9 DEF ChangeFind
<1> HIDE DEF Quietly
<1> QED
  BY <1>1, <1>2, <1>3, <1>4, <1>5, <1>6, <1>7, <1>8, <1>9
  DEF Next, Progress, Answer, Server, RefreshEnds, Login, Administer

\* The two steps that sign a pair and store its refresh token.
Stores == \/ \E f \in Flights : RefreshStore(f)
          \/ \E c \in Clients : LoginStore(c)

LEMMA OnlyStoresIssue == [Next]_vars => Stores \/ UNCHANGED issued
<1> SUFFICES ASSUME [Next]_vars PROVE Stores \/ UNCHANGED issued  OBVIOUS
<1>1. Quietly => UNCHANGED issued  BY DEF Quietly
<1>2. ASSUME NEW f \in Flights,
             RefreshMatch(f) \/ RefreshDone(f) \/ RefreshRefused(f) \/ RefreshLost(f)
      PROVE  UNCHANGED issued
  BY <1>2 DEF RefreshMatch, RefreshDone, RefreshRefused, RefreshLost, RefreshFails
<1>3. ASSUME NEW t \in Tabs, NEW s \in Slots, NEW f \in Flights,
             Served(t, s) \/ StartRefresh(t, s, f)
      PROVE  UNCHANGED issued
  BY <1>3 DEF Served, StartRefresh
<1>4. ASSUME NEW t \in Tabs, NEW s \in Slots, Served(t, s)
      PROVE  UNCHANGED issued
  BY <1>4 DEF Served
<1>5. ASSUME NEW c \in Clients, NEW p \in Passwords,
             \/ LoginFind(c) \/ LoginBackfill(c) \/ LoginDone(c) \/ LoginFails(c)
             \/ Submit(c, p)
      PROVE  UNCHANGED issued
  BY <1>5 DEF LoginFind, LoginBackfill, LoginDone, LoginFails, Submit
<1>6. ASSUME NEW p \in Passwords, NEW b \in BOOLEAN,
             ChangeSave(p) \/ Reset(p) \/ Delete \/ SetActive(b)
      PROVE  UNCHANGED issued
  BY <1>6 DEF ChangeSave, Reset, Delete, SetActive
<1> Passwords # {}  BY PasswordsAssumption
<1> QED  BY <1>1, <1>2, <1>3, <1>4, <1>5, <1>6, Cases DEF Stores

(***************************************************************************)
(* Types.                                                                  *)
(***************************************************************************)

LEMMA Numbers == AccountType => issued \in Nat /\ 0 \in Tokens /\ Tokens \subseteq Nat
BY DEF AccountType, Tokens

LEMMA NoFlightType == 0 \in Tokens => NoFlight \in FlightStates
BY TabsAssumption DEF NoFlight, FlightStates

LEMMA NoRequestType == 0 \in Tokens => NoRequest \in RequestStates
BY DEF NoRequest, RequestStates, Kinds

LEMMA NoLoginType == 0 \in Tokens => NoLogin \in LoginStates
BY DEF NoLogin, LoginStates

LEMMA InitTypes == Init => TypeOK
<1> SUFFICES ASSUME Init PROVE TypeOK  OBVIOUS
<1>1. issued = 1 /\ 0 \in Tokens /\ 1 \in Tokens  BY DEF Init, Tokens
<1>2. AccountType  BY <1>1, PasswordsAssumption DEF Init, AccountType
<1>3. BrowserType  BY <1>1 DEF Init, BrowserType
<1>4. RequestsType  BY <1>1, NoRequestType DEF Init, RequestsType
<1>5. CallsType  BY <1>1, NoFlightType, NoLoginType DEF Init, CallsType
<1>6. CountersType  BY DEF Init, CountersType
<1>7. HistoryType  BY <1>1 DEF Init, HistoryType
<1> QED  BY <1>2, <1>3, <1>4, <1>5, <1>6, <1>7 DEF TypeOK

\* A step that issues no tokens changes no set of states.
LEMMA SameTokens ==
    issued' = issued => /\ Tokens' = Tokens /\ RequestStates' = RequestStates
                        /\ FlightStates' = FlightStates /\ LoginStates' = LoginStates
BY DEF Tokens, RequestStates, FlightStates, LoginStates

\* A step that issues the next pair only adds to them.
LEMMA MoreTokens ==
    ASSUME AccountType, issued' = issued + 1
    PROVE  /\ Tokens \subseteq Tokens' /\ issued + 1 \in Tokens'
           /\ RequestStates \subseteq RequestStates' /\ FlightStates \subseteq FlightStates'
           /\ LoginStates \subseteq LoginStates'
<1> Tokens \subseteq Tokens' /\ issued + 1 \in Tokens'
  BY DEF AccountType, Tokens
<1>1. RequestStates \subseteq RequestStates'  BY DEF RequestStates
<1>2. FlightStates \subseteq FlightStates'  BY DEF FlightStates
<1>3. LoginStates \subseteq LoginStates'  BY DEF LoginStates
<1> QED  BY <1>1, <1>2, <1>3

LEMMA StoreTypes == TypeOK /\ Stores => TypeOK'
<1> SUFFICES ASSUME TypeOK, Stores PROVE TypeOK'  OBVIOUS
<1> USE DEF TypeOK
<1> DEFINE n == issued + 1
<1>0. issued' = n /\ n \in Nat /\ account' = [account EXCEPT !.refresh = n]
  <2>1. ASSUME NEW f \in Flights, RefreshStore(f)
        PROVE  issued' = n /\ account' = [account EXCEPT !.refresh = n]
    BY <2>1 DEF RefreshStore, Grant
  <2>2. ASSUME NEW c \in Clients, LoginStore(c)
        PROVE  issued' = n /\ account' = [account EXCEPT !.refresh = n]
    BY <2>2 DEF LoginStore
  <2>3. n \in Nat  BY DEF AccountType
  <2> QED  BY <2>1, <2>2, <2>3 DEF Stores
<1>1. /\ Tokens \subseteq Tokens' /\ n \in Tokens'
      /\ RequestStates \subseteq RequestStates' /\ FlightStates \subseteq FlightStates'
      /\ LoginStates \subseteq LoginStates'
  BY <1>0, MoreTokens
<1>2. AccountType'  BY <1>0, <1>1 DEF AccountType
<1>3. flight' \in [Flights -> FlightStates']
  <2>1. CASE UNCHANGED flight  BY <2>1, <1>1 DEF CallsType
  <2>2. ASSUME NEW f \in Flights, RefreshStore(f) PROVE flight' \in [Flights -> FlightStates']
    <3>1. flight' = [flight EXCEPT ![f] = [flight[f] EXCEPT !.pc = "answered", !.new = n]]
      BY <2>2 DEF RefreshStore, CallsType
    <3>2. [flight[f] EXCEPT !.pc = "answered", !.new = n] \in FlightStates'
      BY <1>1 DEF CallsType, FlightStates
    <3> QED  BY <3>1, <3>2, <1>1 DEF CallsType
  <2> QED  BY <2>1, <2>2 DEF LoginStore, Stores
<1>4. login' \in [Clients -> LoginStates']
  <2>1. CASE UNCHANGED login  BY <2>1, <1>1 DEF CallsType
  <2>2. ASSUME NEW c \in Clients, LoginStore(c) PROVE login' \in [Clients -> LoginStates']
    <3>1. login' = [login EXCEPT ![c] = [login[c] EXCEPT !.pc = "answered", !.new = n]]
      BY <2>2 DEF LoginStore, CallsType
    <3>2. [login[c] EXCEPT !.pc = "answered", !.new = n] \in LoginStates'
      BY <1>1 DEF CallsType, LoginStates
    <3> QED  BY <3>1, <3>2, <1>1 DEF CallsType
  <2> QED  BY <2>1, <2>2 DEF RefreshStore, Stores
<1>5. CallsType'  BY <1>3, <1>4 DEF Stores, RefreshStore, LoginStore, CallsType
<1>6. RequestsType'
  <2>1. UNCHANGED req
    BY DEF Stores, RefreshStore, LoginStore, browserVars
  <2> QED  BY <2>1, <1>1 DEF RequestsType
<1>7. HistoryType'
  <2>1. ASSUME NEW f \in Flights, RefreshStore(f) PROVE HistoryType'
    <3>1. flight[f].token \in Tokens  BY DEF CallsType, FlightStates
    <3> QED  BY <2>1, <3>1, <1>1 DEF RefreshStore, HistoryType
  <2>2. ASSUME NEW c \in Clients, LoginStore(c) PROVE HistoryType'
    BY <2>2, <1>1 DEF LoginStore, HistoryType
  <2> QED  BY <2>1, <2>2 DEF Stores
<1>8. CountersType' /\ BrowserType'
  BY <1>1 DEF Stores, RefreshStore, LoginStore, BrowserType, CountersType
<1> QED  BY <1>2, <1>5, <1>6, <1>7, <1>8


\* What a step leaves alone keeps its type, when no tokens are issued.
LEMMA SameParts ==
    ASSUME TypeOK, issued' = issued
    PROVE  /\ UNCHANGED account => AccountType'
           /\ UNCHANGED <<local, page, refreshing>> => BrowserType'
           /\ UNCHANGED req => RequestsType'
           /\ UNCHANGED <<flight, login, change>> => CallsType'
           /\ UNCHANGED <<expired, delivered, fresh, raced, spent, twice, shared, crossed,
                          staleBackfill>> => HistoryType'
<1> USE SameTokens DEF TypeOK
<1>1. UNCHANGED account => AccountType'  BY DEF AccountType
<1>2. UNCHANGED <<local, page, refreshing>> => BrowserType'  BY DEF BrowserType
<1>3. UNCHANGED req => RequestsType'  BY DEF RequestsType
<1>4. UNCHANGED <<flight, login, change>> => CallsType'  BY DEF CallsType
<1>5. UNCHANGED <<expired, delivered, fresh, raced, spent, twice, shared, crossed,
                  staleBackfill>> => HistoryType'
  BY DEF HistoryType
<1> QED  BY <1>1, <1>2, <1>3, <1>4, <1>5

LEMMA Counting ==
    ASSUME CountersType, requests' \in {requests, requests + 1}, events' \in {events, events + 1},
           changes' \in {changes, changes + 1}, faults' \in {faults, faults + 1}
    PROVE  CountersType'
BY DEF CountersType

\* The steps that issue no tokens.
LEMMA StepTypes ==
    ASSUME TypeOK, Next, issued' = issued PROVE TypeOK'
<1> TypeOK  OBVIOUS
<1>0. /\ Tokens' = Tokens /\ RequestStates' = RequestStates
      /\ FlightStates' = FlightStates /\ LoginStates' = LoginStates
      /\ 0 \in Tokens /\ NoRequest \in RequestStates /\ NoFlight \in FlightStates
      /\ NoLogin \in LoginStates
  BY SameTokens, Numbers, NoRequestType, NoFlightType, NoLoginType DEF TypeOK
<1> USE <1>0 DEF TypeOK
<1>1. ASSUME NEW n \in 1..issued, Expire(n) PROVE TypeOK'
  <2>1. HistoryType'
    <3>1. n \in Tokens  BY DEF Tokens, AccountType
    <3> QED  BY <1>1, <3>1 DEF Expire, HistoryType
  <2> QED  BY <1>1, <2>1, SameParts, Counting DEF Expire
<1>2. ASSUME NEW f \in Flights, RefreshMatch(f) PROVE TypeOK'
  <2>1. CallsType'
    <3>1. flight[f] \in FlightStates  BY DEF CallsType
    <3>2. \E x \in FlightStates : flight' = [flight EXCEPT ![f] = x]
      <4>1. CASE account.refresh = flight[f].token
        <5> DEFINE x == [flight[f] EXCEPT !.pc = "matched", !.epoch = changes]
        <5>1. x \in FlightStates  BY <3>1 DEF FlightStates, CountersType
        <5>2. flight' = [flight EXCEPT ![f] = x]  BY <1>2, <4>1 DEF RefreshMatch, CallsType
        <5> QED  BY <5>1, <5>2
      <4>2. CASE account.refresh # flight[f].token
        <5> DEFINE x == [flight[f] EXCEPT !.pc = "answered"]
        <5>1. x \in FlightStates  BY <3>1 DEF FlightStates
        <5>2. flight' = [flight EXCEPT ![f] = x]  BY <1>2, <4>2 DEF RefreshMatch, CallsType
        <5> QED  BY <5>1, <5>2
      <4> QED  BY <4>1, <4>2
    <3> QED  BY <1>2, <3>2 DEF RefreshMatch, CallsType
  <2>2. HistoryType'
    <3>1. flight[f].token \in Tokens  BY DEF CallsType, FlightStates
    <3> QED  BY <1>2, <3>1 DEF RefreshMatch, HistoryType
  <2> QED  BY <1>2, <2>1, <2>2, SameParts, Counting DEF RefreshMatch
<1>3. ASSUME NEW t \in Tabs, NEW s \in Slots, Send(t, s) PROVE TypeOK'
  <2>1. RequestsType'
    <3>1. [NoRequest EXCEPT !.pc = "sent", !.token = local] \in RequestStates
      BY DEF RequestStates, BrowserType
    <3> QED  BY <1>3, <3>1 DEF Send, RequestsType
  <2> QED  BY <1>3, <2>1, SameParts, Counting DEF Send
<1>4. ASSUME NEW t \in Tabs, NEW s \in Slots, Logout(t, s) PROVE TypeOK'
  <2>1. BrowserType'
    BY <1>4 DEF Logout, BrowserType
  <2>2. RequestsType'
    <3>1. [NoRequest EXCEPT !.pc = "sent", !.kind = "logout"] \in RequestStates
      BY DEF RequestStates, Kinds
    <3> QED  BY <1>4, <3>1 DEF Logout, RequestsType
  <2> QED  BY <1>4, <2>1, <2>2, SameParts, Counting DEF Logout
<1>5. ASSUME NEW t \in Tabs, NEW s \in Slots, Served(t, s) PROVE TypeOK'
  <2>1. AccountType'
    BY <1>5 DEF Served, Grant, AccountType
  <2>2. RequestsType'
    BY <1>5 DEF Served, Grant, RequestsType
  <2> QED  BY <1>5, <2>1, <2>2, SameParts, Counting DEF Served, Grant
<1>6. ASSUME NEW t \in Tabs, NEW s \in Slots, RefusedAgain(t, s) PROVE TypeOK'
  <2>1. RequestsType'
    BY <1>6 DEF RefusedAgain, RequestsType
  <2> QED  BY <1>6, <2>1, SameParts, Counting DEF RefusedAgain
<1>7. ASSUME NEW t \in Tabs, NEW s \in Slots, NEW f \in Flights, StartRefresh(t, s, f)
      PROVE  TypeOK'
  <2>1. BrowserType'
    BY <1>7 DEF StartRefresh, BrowserType
  <2>2. HistoryType'
    BY <1>7 DEF StartRefresh, HistoryType
  <2>3. RequestsType'
    <3> DEFINE y == [req[t][s] EXCEPT !.pc = "waiting", !.retried = TRUE, !.on = f]
    <3>1. req[t][s] \in RequestStates  BY DEF RequestsType
    <3>2. y \in RequestStates  BY <3>1 DEF RequestStates
    <3>3. req' = [req EXCEPT ![t][s] = y]  BY <1>7 DEF StartRefresh, RequestsType
    <3> QED  BY <3>2, <3>3 DEF RequestsType
  <2>4. CallsType'
    <3> DEFINE x == [NoFlight EXCEPT !.pc = "sent", !.tab = t, !.token = local]
    <3>1. x \in FlightStates  BY DEF FlightStates, BrowserType
    <3>2. flight' = [flight EXCEPT ![f] = x]  BY <1>7 DEF StartRefresh
    <3> QED  BY <1>7, <3>1, <3>2 DEF StartRefresh, CallsType
  <2> QED  BY <1>7, <2>1, <2>2, <2>3, <2>4, SameParts, Counting DEF StartRefresh
<1>8. ASSUME NEW t \in Tabs, NEW s \in Slots, JoinRefresh(t, s) PROVE TypeOK'
  <2>1. RequestsType'
    <3> DEFINE y == [req[t][s] EXCEPT !.pc = "waiting", !.retried = TRUE, !.on = refreshing[t]]
    <3>1. req[t][s] \in RequestStates  BY DEF RequestsType
    <3>2. y \in RequestStates  BY <3>1 DEF RequestStates, BrowserType
    <3>3. req' = [req EXCEPT ![t][s] = y]  BY <1>8 DEF JoinRefresh, RequestsType
    <3> QED  BY <3>2, <3>3 DEF RequestsType
  <2> QED  BY <1>8, <2>1, SameParts, Counting DEF JoinRefresh
<1>9. ASSUME NEW t \in Tabs, NEW s \in Slots, NothingToRefresh(t, s) PROVE TypeOK'
  <2>1. BrowserType'
    BY <1>9 DEF NothingToRefresh, SignOut, BrowserType
  <2>2. RequestsType'
    BY <1>9 DEF NothingToRefresh, SignOut, RequestsType
  <2> QED  BY <1>9, <2>1, <2>2, SameParts, Counting DEF NothingToRefresh, SignOut
<1>10. ASSUME NEW f \in Flights, RefreshDone(f) PROVE TypeOK'
  <2>0. flight[f].tab \in Tabs /\ flight[f].new \in Tokens
    BY DEF CallsType, FlightStates
  <2>1. BrowserType'
    BY <1>10, <2>0 DEF RefreshDone, Resume, BrowserType
  <2>2. CallsType'
    BY <1>10, <2>0 DEF RefreshDone, Resume, CallsType
  <2>3. HistoryType'
    BY <1>10, <2>0 DEF RefreshDone, Resume, HistoryType
  <2>4. RequestsType'
    <3>1. \A s \in Slots : req[flight[f].tab][s] \in RequestStates
      BY <2>0 DEF RequestsType
    <3>2. Resume(flight[f].tab, f, flight[f].new) \in [Slots -> RequestStates]
      BY <2>0, <3>1 DEF Resume, RequestStates
    <3> QED  BY <1>10, <2>0, <3>2 DEF RefreshDone, RequestsType
  <2> QED  BY <1>10, <2>1, <2>2, <2>3, <2>4, SameParts, Counting DEF RefreshDone, Resume
<1>11. ASSUME NEW f \in Flights, RefreshRefused(f) PROVE TypeOK'
  <2>0. flight[f].tab \in Tabs /\ flight[f].new \in Tokens
    BY DEF CallsType, FlightStates
  <2>1. BrowserType'
    BY <1>11, <2>0 DEF RefreshRefused, RefreshFails, SignOut, BrowserType
  <2>2. RequestsType'
    BY <1>11, <2>0 DEF RefreshRefused, RefreshFails, SignOut, RequestsType
  <2>3. CallsType'
    BY <1>11, <2>0 DEF RefreshRefused, RefreshFails, SignOut, CallsType
  <2> QED  BY <1>11, <2>1, <2>2, <2>3, SameParts, Counting DEF RefreshRefused, RefreshFails, SignOut
<1>12. ASSUME NEW f \in Flights, RefreshLost(f) PROVE TypeOK'
  <2>0. flight[f].tab \in Tabs /\ flight[f].new \in Tokens
    BY DEF CallsType, FlightStates
  <2>1. BrowserType'
    BY <1>12, <2>0 DEF RefreshLost, RefreshFails, SignOut, BrowserType
  <2>2. RequestsType'
    BY <1>12, <2>0 DEF RefreshLost, RefreshFails, SignOut, RequestsType
  <2>3. CallsType'
    BY <1>12, <2>0 DEF RefreshLost, RefreshFails, SignOut, CallsType
  <2> QED  BY <1>12, <2>1, <2>2, <2>3, SameParts, Counting DEF RefreshLost, RefreshFails, SignOut
<1>13. ASSUME NEW t \in Tabs, NEW s \in Slots, RequestFails(t, s) PROVE TypeOK'
  <2>1. RequestsType'
    BY <1>13 DEF RequestFails, RequestsType
  <2> QED  BY <1>13, <2>1, SameParts, Counting DEF RequestFails
<1>14. ASSUME NEW c \in Clients, NEW p \in Passwords, Submit(c, p) PROVE TypeOK'
  <2>1. HistoryType'
    BY <1>14 DEF Submit, HistoryType
  <2>2. CallsType'
    <3> DEFINE x == [NoLogin EXCEPT !.pc = "sent", !.pwd = p]
    <3>1. x \in LoginStates  BY DEF LoginStates
    <3>2. login' = [login EXCEPT ![c] = x]  BY <1>14 DEF Submit
    <3> QED  BY <1>14, <3>1, <3>2 DEF Submit, CallsType
  <2> QED  BY <1>14, <2>1, <2>2, SameParts, Counting DEF Submit
<1>15. ASSUME NEW c \in Clients, LoginFind(c) PROVE TypeOK'
  <2>1. CallsType'
    <3>1. login[c] \in LoginStates  BY DEF CallsType
    <3>2. \E x \in LoginStates : login' = [login EXCEPT ![c] = x]
      <4>1. CASE account.active /\ account.hash = login[c].pwd
        <5> DEFINE x == [login[c] EXCEPT !.pc = "found", !.backfill = (account.enc = NoPwd),
                                         !.epoch = changes]
        <5>1. x \in LoginStates  BY <3>1 DEF LoginStates, CountersType
        <5>2. login' = [login EXCEPT ![c] = x]  BY <1>15, <4>1 DEF LoginFind, CallsType
        <5> QED  BY <5>1, <5>2
      <4>2. CASE ~(account.active /\ account.hash = login[c].pwd)
        <5> DEFINE x == [login[c] EXCEPT !.pc = "answered"]
        <5>1. x \in LoginStates  BY <3>1 DEF LoginStates
        <5>2. login' = [login EXCEPT ![c] = x]  BY <1>15, <4>2 DEF LoginFind, CallsType
        <5> QED  BY <5>1, <5>2
      <4> QED  BY <4>1, <4>2
    <3>3. UNCHANGED <<flight, change, issued>>  BY <1>15 DEF LoginFind, serverVars
    <3>4. login' \in [Clients -> LoginStates]  BY <3>2 DEF CallsType
    <3>5. FlightStates' = FlightStates /\ LoginStates' = LoginStates
      BY <3>3 DEF FlightStates, LoginStates, Tokens
    <3> QED  BY <3>3, <3>4, <3>5 DEF CallsType
  <2> QED  BY <1>15, <2>1, SameParts, Counting DEF LoginFind
<1>16. ASSUME NEW c \in Clients, LoginBackfill(c) PROVE TypeOK'
  <2>1. HistoryType'
    BY <1>16 DEF LoginBackfill, HistoryType
  <2>2. AccountType'
    <3>1. login[c].pwd \in Passwords \cup {NoPwd}  BY DEF CallsType, LoginStates
    <3> QED  BY <1>16, <3>1 DEF LoginBackfill, AccountType
  <2>3. CallsType'
    <3> DEFINE x == [login[c] EXCEPT !.backfill = FALSE]
    <3>1. x \in LoginStates  BY DEF LoginStates, CallsType
    <3>2. login' = [login EXCEPT ![c] = x]  BY <1>16 DEF LoginBackfill, CallsType
    <3> QED  BY <1>16, <3>1, <3>2 DEF LoginBackfill, CallsType
  <2> QED  BY <1>16, <2>1, <2>2, <2>3, SameParts, Counting DEF LoginBackfill
<1>17. ASSUME NEW c \in Clients, LoginDone(c) PROVE TypeOK'
  <2>0. login[c].new \in Tokens
    BY DEF CallsType, LoginStates
  <2>1. BrowserType'
    BY <1>17, <2>0 DEF LoginDone, BrowserType
  <2>2. HistoryType'
    BY <1>17, <2>0 DEF LoginDone, HistoryType
  <2>3. CallsType'
    BY <1>17, <2>0 DEF LoginDone, CallsType
  <2> QED  BY <1>17, <2>1, <2>2, <2>3, SameParts, Counting DEF LoginDone
<1>18. ASSUME NEW c \in Clients, LoginFails(c) PROVE TypeOK'
  <2>1. CallsType'
    BY <1>18 DEF LoginFails, CallsType
  <2> QED  BY <1>18, <2>1, SameParts, Counting DEF LoginFails
<1>19. ASSUME ChangeFind PROVE TypeOK'
  <2>1. CallsType'
    BY <1>19 DEF ChangeFind, CallsType
  <2> QED  BY <1>19, <2>1, SameParts, Counting DEF ChangeFind
<1>20. ASSUME NEW p \in Passwords, ChangeSave(p) PROVE TypeOK'
  <2>1. AccountType'
    BY <1>20 DEF ChangeSave, NewPassword, AccountType
  <2>2. CallsType'
    BY <1>20 DEF ChangeSave, NewPassword, CallsType
  <2>3. HistoryType'
    <3>1. account.refresh \in Tokens  BY DEF AccountType
    <3> QED  BY <1>20, <3>1 DEF ChangeSave, HistoryType
  <2> QED  BY <1>20, <2>1, <2>2, <2>3, SameParts, Counting DEF ChangeSave, NewPassword
<1>21. ASSUME NEW p \in Passwords, Reset(p) PROVE TypeOK'
  <2>1. AccountType'
    BY <1>21 DEF Reset, NewPassword, AccountType
  <2>2. HistoryType'
    BY <1>21 DEF Reset, NewPassword, HistoryType
  <2> QED  BY <1>21, <2>1, <2>2, SameParts, Counting DEF Reset, NewPassword
<1>22. ASSUME Delete PROVE TypeOK'
  <2>1. AccountType'
    BY <1>22 DEF Delete, AccountType
  <2>2. HistoryType'
    BY <1>22 DEF Delete, HistoryType
  <2> QED  BY <1>22, <2>1, <2>2, SameParts, Counting DEF Delete
<1>23. ASSUME NEW x \in BOOLEAN, SetActive(x) PROVE TypeOK'
  <2>1. AccountType'
    BY <1>23 DEF SetActive, AccountType
  <2> QED  BY <1>23, <2>1, SameParts, Counting DEF SetActive
<1> HIDE DEF TypeOK
<1>24. ~Stores
  <2>1. issued + 1 # issued  BY DEF TypeOK, AccountType
  <2> QED  BY <2>1 DEF Stores, RefreshStore, LoginStore
<1> QED
  BY <1>1, <1>2, <1>3, <1>4, <1>5, <1>6, <1>7, <1>8, <1>9, <1>10, <1>11, <1>12,
     <1>13, <1>14, <1>15, <1>16, <1>17, <1>18, <1>19, <1>20, <1>21, <1>22, <1>23, <1>24
  DEF Stores, Next, Progress, Answer, Server, RefreshEnds, Login, Administer

LEMMA TypesKept == TypeOK /\ [Next]_vars => TypeOK'
<1>1. ASSUME TypeOK, UNCHANGED vars PROVE TypeOK'
  BY <1>1, SameParts, Counting DEF TypeOK
<1> QED  BY <1>1, OnlyStoresIssue, StepTypes, StoreTypes

\* TypeOK: every variable keeps the shape its part of the program has.
THEOREM TypeCorrect == Spec => []TypeOK
<1> QED  BY InitTypes, TypesKept, PTL DEF Spec

(***************************************************************************)
(* What each kind of step does, field by field.                            *)
(***************************************************************************)

\* Steps on one refresh or one login leave the others alone.
OthersSame(f) == \A g \in Flights \ {f} : flight'[g] = flight[g]
OtherLogins(c) == \A d \in Clients \ {c} : login'[d] = login[d]
Elsewhere == UNCHANGED <<account, issued, fresh, raced, spent, twice, changes, staleBackfill>>
GrantsSame == UNCHANGED <<local, delivered, refreshing, crossed>>

LEMMA Shapes ==
    ASSUME TypeOK
    PROVE  /\ flight \in [Flights -> FlightStates] /\ login \in [Clients -> LoginStates]
           /\ account \in [hash : Passwords, enc : Passwords \cup {NoPwd}, active : BOOLEAN,
                           refresh : Tokens]
           /\ refreshing \in [Tabs -> Flights \cup {0}]
           /\ issued \in Nat /\ changes \in Nat /\ local \in Tokens
           /\ delivered \subseteq Tokens /\ spent \subseteq Tokens /\ Tokens = 0..issued
           /\ crossed \in BOOLEAN /\ staleBackfill \in BOOLEAN
BY DEF TypeOK, CallsType, AccountType, CountersType, BrowserType, HistoryType, Tokens

LEMMA FlightFields ==
    ASSUME TypeOK, NEW f \in Flights
    PROVE  /\ flight[f].tab \in Tabs /\ flight[f].token \in 0..issued
           /\ flight[f].new \in 0..issued /\ flight[f].epoch \in Nat
BY Shapes DEF FlightStates

LEMMA LoginFields ==
    ASSUME TypeOK, NEW c \in Clients
    PROVE  login[c].new \in 0..issued /\ login[c].epoch \in Nat
BY Shapes DEF LoginStates

LEMMA MatchEffect ==
    ASSUME TypeOK, NEW f \in Flights, RefreshMatch(f)
    PROVE  /\ Elsewhere /\ GrantsSame /\ UNCHANGED login /\ OthersSame(f)
           /\ flight[f].pc = "sent"
           /\ flight'[f].tab = flight[f].tab /\ flight'[f].token = flight[f].token
           /\ flight'[f].new = flight[f].new
           /\ \/ /\ account.refresh = flight[f].token
                 /\ flight'[f].pc = "matched" /\ flight'[f].epoch = changes
                 /\ (\E g \in Flights : flight[g].pc = "matched" /\ flight[g].token = flight[f].token)
                       => flight[f].token \in shared'
                 /\ shared \subseteq shared'
              \/ /\ flight'[f].pc = "answered" /\ flight'[f].epoch = flight[f].epoch
                 /\ UNCHANGED shared
<1>1. flight \in [Flights -> FlightStates]  BY Shapes
<1>2. Elsewhere /\ GrantsSame /\ UNCHANGED login /\ flight[f].pc = "sent"
  BY DEF RefreshMatch, Elsewhere, GrantsSame
<1>3. CASE account.refresh = flight[f].token
  <2>1. /\ flight' = [flight EXCEPT ![f].pc = "matched", ![f].epoch = changes]
        /\ shared' = IF \E g \in Flights : /\ flight[g].pc = "matched"
                                           /\ flight[g].token = flight[f].token
                     THEN shared \cup {flight[f].token} ELSE shared
    BY <1>3 DEF RefreshMatch
  <2>2. /\ OthersSame(f)
        /\ flight'[f].tab = flight[f].tab /\ flight'[f].token = flight[f].token
        /\ flight'[f].new = flight[f].new
        /\ flight'[f].pc = "matched" /\ flight'[f].epoch = changes
    BY <1>1, <2>1 DEF OthersSame, FlightStates
  <2> QED  BY <1>2, <1>3, <2>1, <2>2
<1>4. CASE account.refresh # flight[f].token
  <2>1. flight' = [flight EXCEPT ![f].pc = "answered"] /\ UNCHANGED shared
    BY <1>4 DEF RefreshMatch
  <2> QED  BY <1>1, <1>2, <2>1 DEF OthersSame, FlightStates
<1> QED  BY <1>3, <1>4

LEMMA StoreEffect ==
    ASSUME TypeOK, NEW f \in Flights, RefreshStore(f)
    PROVE  /\ GrantsSame /\ UNCHANGED <<login, changes, shared, staleBackfill>> /\ OthersSame(f)
           /\ flight[f].pc = "matched" /\ flight'[f].pc = "answered"
           /\ flight'[f].tab = flight[f].tab /\ flight'[f].token = flight[f].token
           /\ flight'[f].new = issued + 1 /\ flight'[f].epoch = flight[f].epoch
           /\ issued' = issued + 1 /\ account'.refresh = issued + 1
           /\ account'.hash = account.hash /\ account'.enc = account.enc
           /\ spent' = spent \cup {flight[f].token}
           /\ twice' = IF flight[f].token \in spent THEN twice \cup {flight[f].token} ELSE twice
           /\ fresh \subseteq fresh' /\ raced \subseteq raced'
           /\ flight[f].epoch = changes /\ flight[f].token \in fresh \cup raced
                 => issued + 1 \in fresh' \cup raced'
           /\ flight[f].epoch # changes => issued + 1 \in raced'
<1>1. flight \in [Flights -> FlightStates]  BY Shapes
<1>2. account \in [hash : Passwords, enc : Passwords \cup {NoPwd}, active : BOOLEAN,
                   refresh : Tokens]
  BY Shapes
<1>3. /\ flight' = [flight EXCEPT ![f].pc = "answered", ![f].new = issued + 1]
      /\ account' = [account EXCEPT !.refresh = issued + 1] /\ issued' = issued + 1
      /\ GrantsSame /\ UNCHANGED <<login, changes, shared, staleBackfill>>
      /\ flight[f].pc = "matched"
      /\ spent' = spent \cup {flight[f].token}
      /\ twice' = IF flight[f].token \in spent THEN twice \cup {flight[f].token} ELSE twice
  BY DEF RefreshStore, Grant, GrantsSame
<1>4. /\ fresh \subseteq fresh' /\ raced \subseteq raced'
      /\ flight[f].epoch = changes /\ flight[f].token \in fresh \cup raced
            => issued + 1 \in fresh' \cup raced'
      /\ flight[f].epoch # changes => issued + 1 \in raced'
  BY DEF RefreshStore
<1>5. /\ OthersSame(f) /\ flight'[f].pc = "answered"
      /\ flight'[f].tab = flight[f].tab /\ flight'[f].token = flight[f].token
      /\ flight'[f].new = issued + 1 /\ flight'[f].epoch = flight[f].epoch
  BY <1>1, <1>3 DEF OthersSame, FlightStates
<1>6. /\ account'.refresh = issued + 1
      /\ account'.hash = account.hash /\ account'.enc = account.enc
  BY <1>2, <1>3
<1> QED  BY <1>3, <1>4, <1>5, <1>6

LEMMA StartEffect ==
    ASSUME TypeOK, NEW t \in Tabs, NEW s \in Slots, NEW f \in Flights, StartRefresh(t, s, f)
    PROVE  /\ Elsewhere /\ UNCHANGED <<login, local, delivered, shared>> /\ OthersSame(f)
           /\ flight[f].pc = "free" /\ local # 0
           /\ flight'[f].pc = "sent" /\ flight'[f].tab = t /\ flight'[f].token = local
           /\ flight'[f].new = 0 /\ flight'[f].epoch = 0
           /\ refreshing[t] = 0 /\ refreshing'[t] = f
           /\ \A u \in Tabs \ {t} : refreshing'[u] = refreshing[u]
           /\ ~crossed' => ~crossed /\ ~OtherGrants(t)
<1>1. flight \in [Flights -> FlightStates] /\ refreshing \in [Tabs -> Flights \cup {0}]
  BY Shapes
<1>2. /\ Elsewhere /\ UNCHANGED <<login, local, delivered, shared>>
      /\ flight[f].pc = "free" /\ local # 0 /\ refreshing[t] = 0
      /\ refreshing' = [refreshing EXCEPT ![t] = f]
      /\ flight' = [flight EXCEPT ![f] = [NoFlight EXCEPT !.pc = "sent", !.tab = t, !.token = local]]
      /\ crossed' = (crossed \/ OtherGrants(t))
  BY DEF StartRefresh, MustRefresh, Elsewhere
<1> QED  BY <1>1, <1>2 DEF OthersSame, NoFlight

\* The end of a refresh, with tokens or without.
LEMMA EndEffect ==
    ASSUME TypeOK, NEW f \in Flights, RefreshDone(f) \/ RefreshRefused(f) \/ RefreshLost(f)
    PROVE  /\ Elsewhere /\ UNCHANGED <<login, crossed, shared>> /\ OthersSame(f)
           /\ flight[f].pc # "free" /\ flight'[f].pc = "free"
           /\ flight'[f].token = 0 /\ flight'[f].new = 0 /\ flight'[f].epoch = 0
           /\ refreshing'[flight[f].tab] = 0
           /\ \A u \in Tabs \ {flight[f].tab} : refreshing'[u] = refreshing[u]
           /\ \/ flight[f].new # 0 /\ local' = flight[f].new /\ delivered' = delivered \cup {local'}
              \/ local' = 0 /\ UNCHANGED delivered
<1>1. /\ flight \in [Flights -> FlightStates] /\ refreshing \in [Tabs -> Flights \cup {0}]
      /\ flight[f].tab \in Tabs
  BY Shapes, FlightFields
<1>2. /\ Elsewhere /\ UNCHANGED <<login, crossed, shared>>
      /\ flight[f].pc # "free"
      /\ flight' = [flight EXCEPT ![f] = NoFlight]
      /\ refreshing' = [refreshing EXCEPT ![flight[f].tab] = 0]
      /\ \/ flight[f].new # 0 /\ local' = flight[f].new /\ delivered' = delivered \cup {local'}
         \/ local' = 0 /\ UNCHANGED delivered
  <2>1. CASE RefreshDone(f)  BY <2>1 DEF RefreshDone, Elsewhere
  <2>2. CASE RefreshRefused(f)  BY <2>2 DEF RefreshRefused, RefreshFails, SignOut, Elsewhere
  <2>3. CASE RefreshLost(f)  BY <2>3 DEF RefreshLost, RefreshFails, SignOut, Elsewhere
  <2> QED  BY <2>1, <2>2, <2>3
<1> QED  BY <1>1, <1>2 DEF OthersSame, NoFlight

LEMMA SubmitEffect ==
    ASSUME TypeOK, NEW c \in Clients, NEW p \in Passwords, Submit(c, p)
    PROVE  /\ Elsewhere /\ UNCHANGED <<flight, local, delivered, refreshing, shared>>
           /\ OtherLogins(c)
           /\ login[c].pc = "idle" /\ login'[c].pc = "sent"
           /\ login'[c].new = 0 /\ login'[c].epoch = 0
           /\ ~crossed' => ~crossed
           /\ ~crossed' /\ c \in Tabs =>
                 /\ ~OtherGrants(c)
                 /\ \A f \in Flights : flight[f].pc = "free"
<1>1. login \in [Clients -> LoginStates]  BY Shapes
<1>2. /\ Elsewhere /\ UNCHANGED <<flight, local, delivered, refreshing, shared>>
      /\ login[c].pc = "idle"
      /\ login' = [login EXCEPT ![c] = [NoLogin EXCEPT !.pc = "sent", !.pwd = p]]
      /\ crossed' = (\/ crossed
                     \/ /\ c \in Tabs
                        /\ \/ OtherGrants(c)
                           \/ \E f \in Flights : flight[f].pc # "free")
  BY DEF Submit, Elsewhere
<1> QED  BY <1>1, <1>2 DEF OtherLogins, NoLogin

LEMMA FindEffect ==
    ASSUME TypeOK, NEW c \in Clients, LoginFind(c)
    PROVE  /\ Elsewhere /\ GrantsSame /\ UNCHANGED <<flight, shared>> /\ OtherLogins(c)
           /\ login[c].pc = "sent" /\ login'[c].new = login[c].new
           /\ login'[c].pwd = login[c].pwd
           /\ \/ /\ login'[c].pc = "found" /\ login'[c].epoch = changes
                 /\ account.hash = login[c].pwd
              \/ login'[c].pc = "answered" /\ login'[c].epoch = login[c].epoch
<1>1. login \in [Clients -> LoginStates]  BY Shapes
<1>2. Elsewhere /\ GrantsSame /\ UNCHANGED <<flight, shared>> /\ login[c].pc = "sent"
  BY DEF LoginFind, Elsewhere, GrantsSame
<1>3. CASE account.active /\ account.hash = login[c].pwd
  <2>1. login' = [login EXCEPT ![c].pc = "found", ![c].backfill = (account.enc = NoPwd),
                               ![c].epoch = changes]
    BY <1>3 DEF LoginFind
  <2> QED  BY <1>1, <1>2, <1>3, <2>1 DEF OtherLogins, LoginStates
<1>4. CASE ~(account.active /\ account.hash = login[c].pwd)
  <2>1. login' = [login EXCEPT ![c].pc = "answered"]  BY <1>4 DEF LoginFind
  <2> QED  BY <1>1, <1>2, <2>1 DEF OtherLogins, LoginStates
<1> QED  BY <1>3, <1>4

LEMMA BackfillEffect ==
    ASSUME TypeOK, NEW c \in Clients, LoginBackfill(c)
    PROVE  /\ GrantsSame /\ OtherLogins(c)
           /\ UNCHANGED <<flight, issued, changes, fresh, raced, spent, twice, shared>>
           /\ login[c].pc = "found" /\ login'[c].pc = "found" /\ login'[c].new = login[c].new
           /\ login'[c].pwd = login[c].pwd /\ login'[c].epoch = login[c].epoch
           /\ account'.hash = account.hash /\ account'.enc = login[c].pwd
           /\ account'.refresh = account.refresh
           /\ ~staleBackfill' => ~staleBackfill /\ login[c].epoch = changes
<1>1. login \in [Clients -> LoginStates]  BY Shapes
<1>2. account \in [hash : Passwords, enc : Passwords \cup {NoPwd}, active : BOOLEAN,
                   refresh : Tokens]
  BY Shapes
<1>3. /\ GrantsSame /\ UNCHANGED <<flight, issued, changes, fresh, raced, spent, twice, shared>>
      /\ login[c].pc = "found"
      /\ account' = [account EXCEPT !.enc = login[c].pwd]
      /\ login' = [login EXCEPT ![c].backfill = FALSE]
      /\ staleBackfill' = (staleBackfill \/ login[c].epoch # changes)
  BY DEF LoginBackfill, GrantsSame
<1>4. /\ account'.hash = account.hash /\ account'.enc = login[c].pwd
      /\ account'.refresh = account.refresh
  BY <1>2, <1>3
<1>5. /\ OtherLogins(c) /\ login'[c].pc = login[c].pc /\ login'[c].new = login[c].new
      /\ login'[c].pwd = login[c].pwd /\ login'[c].epoch = login[c].epoch
  BY <1>1, <1>3 DEF OtherLogins, LoginStates
<1>6. ~staleBackfill' => ~staleBackfill /\ login[c].epoch = changes  BY <1>3
<1> QED  BY <1>3, <1>4, <1>5, <1>6

LEMMA LoginStoreEffect ==
    ASSUME TypeOK, NEW c \in Clients, LoginStore(c)
    PROVE  /\ GrantsSame /\ OtherLogins(c)
           /\ UNCHANGED <<flight, changes, spent, twice, shared, staleBackfill>>
           /\ login[c].pc = "found" /\ login'[c].pc = "answered"
           /\ login'[c].new = issued + 1 /\ login'[c].epoch = login[c].epoch
           /\ issued' = issued + 1 /\ account'.refresh = issued + 1
           /\ account'.hash = account.hash /\ account'.enc = account.enc
           /\ fresh \subseteq fresh' /\ raced \subseteq raced'
           /\ issued + 1 \in fresh' \cup raced'
<1>1. login \in [Clients -> LoginStates]  BY Shapes
<1>2. account \in [hash : Passwords, enc : Passwords \cup {NoPwd}, active : BOOLEAN,
                   refresh : Tokens]
  BY Shapes
<1>3. /\ GrantsSame /\ UNCHANGED <<flight, changes, spent, twice, shared, staleBackfill>>
      /\ login[c].pc = "found" /\ issued' = issued + 1
      /\ account' = [account EXCEPT !.refresh = issued + 1]
      /\ login' = [login EXCEPT ![c].pc = "answered", ![c].new = issued + 1]
  BY DEF LoginStore, GrantsSame
<1>4. fresh \subseteq fresh' /\ raced \subseteq raced' /\ issued + 1 \in fresh' \cup raced'
  BY DEF LoginStore
<1>5. /\ account'.refresh = issued + 1
      /\ account'.hash = account.hash /\ account'.enc = account.enc
  BY <1>2, <1>3
<1>6. /\ OtherLogins(c) /\ login'[c].pc = "answered"
      /\ login'[c].new = issued + 1 /\ login'[c].epoch = login[c].epoch
  BY <1>1, <1>3 DEF OtherLogins, LoginStates
<1> QED  BY <1>3, <1>4, <1>5, <1>6

\* The end of a login, with tokens or without.
LEMMA LoginEndEffect ==
    ASSUME TypeOK, NEW c \in Clients, LoginDone(c) \/ LoginFails(c)
    PROVE  /\ Elsewhere /\ UNCHANGED <<flight, refreshing, crossed, shared>> /\ OtherLogins(c)
           /\ login[c].pc # "idle" /\ login'[c].pc = "idle"
           /\ login'[c].new = 0 /\ login'[c].epoch = 0
           /\ \/ /\ c \in Tabs /\ login[c].new # 0
                 /\ local' = login[c].new /\ delivered' = delivered \cup {local'}
              \/ UNCHANGED <<local, delivered>>
<1>1. login \in [Clients -> LoginStates]  BY Shapes
<1>2. /\ Elsewhere /\ UNCHANGED <<flight, refreshing, crossed, shared>>
      /\ login[c].pc # "idle" /\ login' = [login EXCEPT ![c] = NoLogin]
      /\ \/ /\ c \in Tabs /\ login[c].new # 0
            /\ local' = login[c].new /\ delivered' = delivered \cup {local'}
         \/ UNCHANGED <<local, delivered>>
  <2>1. CASE LoginDone(c)  BY <2>1 DEF LoginDone, Elsewhere
  <2>2. CASE LoginFails(c)  BY <2>2 DEF LoginFails, Elsewhere
  <2> QED  BY <2>1, <2>2
<1> QED  BY <1>1, <1>2 DEF OtherLogins, NoLogin

\* A request that is let through is answered, or clears the stored hash.
LEMMA ServedEffect ==
    ASSUME TypeOK, NEW t \in Tabs, NEW s \in Slots, Served(t, s)
    PROVE  /\ GrantsSame
           /\ UNCHANGED <<issued, flight, login, fresh, raced, spent, twice, shared, changes,
                          staleBackfill>>
           /\ account'.refresh \in {0, account.refresh}
           /\ account'.hash = account.hash /\ account'.enc = account.enc
<1>1. account \in [hash : Passwords, enc : Passwords \cup {NoPwd}, active : BOOLEAN,
                   refresh : Tokens]
  BY Shapes
<1>2. /\ GrantsSame
      /\ UNCHANGED <<issued, flight, login, fresh, raced, spent, twice, shared, changes,
                     staleBackfill>>
      /\ UNCHANGED account \/ account' = [account EXCEPT !.refresh = 0]
  BY DEF Served, Grant, GrantsSame
<1> QED  BY <1>1, <1>2

\* A change of the account by its owner or an administrator.
Changed == \/ \E p \in Passwords : ChangeSave(p) \/ Reset(p)
           \/ Delete
           \/ \E x \in BOOLEAN : SetActive(x)

LEMMA ChangeEffect ==
    ASSUME TypeOK, Changed
    PROVE  /\ GrantsSame /\ changes' = changes + 1
           /\ UNCHANGED <<issued, flight, login, spent, twice, shared, staleBackfill>>
           /\ account'.refresh \in {0, account.refresh}
           /\ \/ account'.hash = account.hash /\ account'.enc = account.enc
              \/ account'.enc = account'.hash
           /\ account'.refresh \in {0} \cup fresh \cup raced
                 => account'.refresh \in {0} \cup fresh' \cup raced'
<1>1. account \in [hash : Passwords, enc : Passwords \cup {NoPwd}, active : BOOLEAN,
                   refresh : Tokens]
  BY Shapes
<1> DEFINE Keeps ==
             account'.refresh \in {0} \cup fresh \cup raced
                 => account'.refresh \in {0} \cup fresh' \cup raced'
           Same == /\ GrantsSame /\ changes' = changes + 1
                   /\ UNCHANGED <<issued, flight, login, spent, twice, shared, staleBackfill>>
<1>2. ASSUME NEW p \in Passwords, ChangeSave(p)
      PROVE  /\ Same /\ Keeps /\ account'.refresh \in {0, account.refresh}
             /\ account'.enc = account'.hash
  <2>1. Same  BY <1>2 DEF ChangeSave, GrantsSame
  <2>2. CASE change = "to clear"
    <3>1. account' = [account EXCEPT !.hash = p, !.enc = p, !.refresh = 0]
      BY <1>1, <1>2, <2>2 DEF ChangeSave, NewPassword
    <3> QED  BY <1>1, <2>1, <3>1
  <2>3. CASE change # "to clear"
    <3>1. /\ account' = [account EXCEPT !.hash = p, !.enc = p]
          /\ raced' = raced \cup ({account.refresh} \ {0})
      BY <1>2, <2>3 DEF ChangeSave, NewPassword
    <3> QED  BY <1>1, <2>1, <3>1
  <2> QED  BY <2>2, <2>3
<1>3. ASSUME NEW p \in Passwords, Reset(p)
      PROVE  /\ Same /\ Keeps /\ account'.refresh = 0 /\ account'.enc = account'.hash
  BY <1>1, <1>3 DEF Reset, NewPassword, GrantsSame
<1>4. ASSUME Delete
      PROVE  /\ Same /\ Keeps /\ account'.refresh = 0
             /\ account'.hash = account.hash /\ account'.enc = account.enc
  BY <1>1, <1>4 DEF Delete, GrantsSame
<1>5. ASSUME NEW x \in BOOLEAN, SetActive(x)
      PROVE  /\ Same /\ Keeps /\ account'.refresh = account.refresh
             /\ account'.hash = account.hash /\ account'.enc = account.enc
  BY <1>1, <1>5 DEF SetActive, GrantsSame
<1> QED  BY <1>2, <1>3, <1>4, <1>5 DEF Changed


(***************************************************************************)
(* The invariant is inductive: one lemma per conjunct.                     *)
(***************************************************************************)

\* What the arithmetic and the function applications below rest on.
LEMMA FieldTypes ==
    ASSUME TypeOK
    PROVE  /\ issued \in Nat /\ changes \in Nat /\ local \in 0..issued /\ Tabs \subseteq Clients
           /\ \A d \in delivered : d \in 0..issued
           /\ \A d \in spent : d \in 0..issued
           /\ \A f \in Flights : /\ flight[f].tab \in Tabs /\ flight[f].token \in 0..issued
                                 /\ flight[f].new \in 0..issued /\ flight[f].epoch \in Nat
           /\ \A c \in Clients : login[c].new \in 0..issued /\ login[c].epoch \in Nat
<1>1. \A f \in Flights : /\ flight[f].tab \in Tabs /\ flight[f].token \in 0..issued
                         /\ flight[f].new \in 0..issued /\ flight[f].epoch \in Nat
  BY FlightFields
<1>2. \A c \in Clients : login[c].new \in 0..issued /\ login[c].epoch \in Nat
  BY LoginFields
<1>3. /\ issued \in Nat /\ changes \in Nat /\ local \in 0..issued /\ Tabs \subseteq Clients
      /\ delivered \subseteq 0..issued /\ spent \subseteq 0..issued
  BY Shapes DEF Clients
<1> QED  BY <1>1, <1>2, <1>3

LEMMA FlightsCarryTokensKept == ASSUME IInv, [Next]_vars PROVE FlightsCarryTokens'
<1>0. TypeOK /\ FlightsCarryTokens
  BY DEF IInv
<1> USE <1>0, FieldTypes
    DEF FlightsCarryTokens, Elsewhere, GrantsSame, OthersSame, OtherLogins
<1>1. ASSUME Quietly PROVE FlightsCarryTokens'
  BY <1>1 DEF Quietly
<1>2. ASSUME NEW f \in Flights, RefreshMatch(f) PROVE FlightsCarryTokens'
  BY <1>2, MatchEffect
<1>3. ASSUME NEW f \in Flights, RefreshStore(f) PROVE FlightsCarryTokens'
  BY <1>3, StoreEffect
<1>4. ASSUME NEW t \in Tabs, NEW s \in Slots, NEW f \in Flights, StartRefresh(t, s, f)
      PROVE  FlightsCarryTokens'
  BY <1>4, StartEffect
<1>5. ASSUME NEW f \in Flights, RefreshDone(f) \/ RefreshRefused(f) \/ RefreshLost(f)
      PROVE  FlightsCarryTokens'
  BY <1>5, EndEffect
<1>6. ASSUME NEW c \in Clients, NEW p \in Passwords, Submit(c, p) PROVE FlightsCarryTokens'
  BY <1>6, SubmitEffect
<1>7. ASSUME NEW c \in Clients, LoginFind(c) PROVE FlightsCarryTokens'
  BY <1>7, FindEffect
<1>8. ASSUME NEW c \in Clients, LoginBackfill(c) PROVE FlightsCarryTokens'
  BY <1>8, BackfillEffect
<1>9. ASSUME NEW c \in Clients, LoginStore(c) PROVE FlightsCarryTokens'
  BY <1>9, LoginStoreEffect
<1>10. ASSUME NEW c \in Clients, LoginDone(c) \/ LoginFails(c) PROVE FlightsCarryTokens'
  BY <1>10, LoginEndEffect
<1>11. ASSUME NEW t \in Tabs, NEW s \in Slots, Served(t, s) PROVE FlightsCarryTokens'
  BY <1>11, ServedEffect
<1>12. ASSUME Changed PROVE FlightsCarryTokens'
  BY <1>12, ChangeEffect
<1> QED
  BY Cases, <1>1, <1>2, <1>3, <1>4, <1>5, <1>6, <1>7, <1>8, <1>9, <1>10, <1>11, <1>12 DEF Changed

LEMMA EpochsArePastKept == ASSUME IInv, [Next]_vars PROVE EpochsArePast'
<1>0. TypeOK /\ EpochsArePast
  BY DEF IInv
<1> USE <1>0, FieldTypes
    DEF EpochsArePast, Elsewhere, GrantsSame, OthersSame, OtherLogins
<1>1. ASSUME Quietly PROVE EpochsArePast'
  BY <1>1 DEF Quietly
<1>2. ASSUME NEW f \in Flights, RefreshMatch(f) PROVE EpochsArePast'
  BY <1>2, MatchEffect
<1>3. ASSUME NEW f \in Flights, RefreshStore(f) PROVE EpochsArePast'
  BY <1>3, StoreEffect
<1>4. ASSUME NEW t \in Tabs, NEW s \in Slots, NEW f \in Flights, StartRefresh(t, s, f)
      PROVE  EpochsArePast'
  BY <1>4, StartEffect
<1>5. ASSUME NEW f \in Flights, RefreshDone(f) \/ RefreshRefused(f) \/ RefreshLost(f)
      PROVE  EpochsArePast'
  BY <1>5, EndEffect
<1>6. ASSUME NEW c \in Clients, NEW p \in Passwords, Submit(c, p) PROVE EpochsArePast'
  BY <1>6, SubmitEffect
<1>7. ASSUME NEW c \in Clients, LoginFind(c) PROVE EpochsArePast'
  BY <1>7, FindEffect
<1>8. ASSUME NEW c \in Clients, LoginBackfill(c) PROVE EpochsArePast'
  BY <1>8, BackfillEffect
<1>9. ASSUME NEW c \in Clients, LoginStore(c) PROVE EpochsArePast'
  BY <1>9, LoginStoreEffect
<1>10. ASSUME NEW c \in Clients, LoginDone(c) \/ LoginFails(c) PROVE EpochsArePast'
  BY <1>10, LoginEndEffect
<1>11. ASSUME NEW t \in Tabs, NEW s \in Slots, Served(t, s) PROVE EpochsArePast'
  BY <1>11, ServedEffect
<1>12. ASSUME Changed PROVE EpochsArePast'
  BY <1>12, ChangeEffect
<1> QED
  BY Cases, <1>1, <1>2, <1>3, <1>4, <1>5, <1>6, <1>7, <1>8, <1>9, <1>10, <1>11, <1>12 DEF Changed

LEMMA LastIsStoredKept == ASSUME IInv, [Next]_vars PROVE LastIsStored'
<1>0. TypeOK /\ LastIsStored
  BY DEF IInv
<1> USE <1>0, FieldTypes
    DEF LastIsStored, Elsewhere, GrantsSame, OthersSame, OtherLogins
<1>1. ASSUME Quietly PROVE LastIsStored'
  BY <1>1 DEF Quietly
<1>2. ASSUME NEW f \in Flights, RefreshMatch(f) PROVE LastIsStored'
  BY <1>2, MatchEffect
<1>3. ASSUME NEW f \in Flights, RefreshStore(f) PROVE LastIsStored'
  BY <1>3, StoreEffect
<1>4. ASSUME NEW t \in Tabs, NEW s \in Slots, NEW f \in Flights, StartRefresh(t, s, f)
      PROVE  LastIsStored'
  BY <1>4, StartEffect
<1>5. ASSUME NEW f \in Flights, RefreshDone(f) \/ RefreshRefused(f) \/ RefreshLost(f)
      PROVE  LastIsStored'
  BY <1>5, EndEffect
<1>6. ASSUME NEW c \in Clients, NEW p \in Passwords, Submit(c, p) PROVE LastIsStored'
  BY <1>6, SubmitEffect
<1>7. ASSUME NEW c \in Clients, LoginFind(c) PROVE LastIsStored'
  BY <1>7, FindEffect
<1>8. ASSUME NEW c \in Clients, LoginBackfill(c) PROVE LastIsStored'
  BY <1>8, BackfillEffect
<1>9. ASSUME NEW c \in Clients, LoginStore(c) PROVE LastIsStored'
  BY <1>9, LoginStoreEffect
<1>10. ASSUME NEW c \in Clients, LoginDone(c) \/ LoginFails(c) PROVE LastIsStored'
  BY <1>10, LoginEndEffect
<1>11. ASSUME NEW t \in Tabs, NEW s \in Slots, Served(t, s) PROVE LastIsStored'
  BY <1>11, ServedEffect
<1>12. ASSUME Changed PROVE LastIsStored'
  BY <1>12, ChangeEffect
<1> QED
  BY Cases, <1>1, <1>2, <1>3, <1>4, <1>5, <1>6, <1>7, <1>8, <1>9, <1>10, <1>11, <1>12 DEF Changed

LEMMA OneRefreshPerTabKept == ASSUME IInv, [Next]_vars PROVE OneRefreshPerTab'
<1>0. TypeOK /\ OneRefreshPerTab
  BY DEF IInv
<1> USE <1>0, FieldTypes, FlightsAssumption
    DEF OneRefreshPerTab, Elsewhere, GrantsSame, OthersSame, OtherLogins
<1>1. ASSUME Quietly PROVE OneRefreshPerTab'
  BY <1>1 DEF Quietly
<1>2. ASSUME NEW f \in Flights, RefreshMatch(f) PROVE OneRefreshPerTab'
  BY <1>2, MatchEffect
<1>3. ASSUME NEW f \in Flights, RefreshStore(f) PROVE OneRefreshPerTab'
  BY <1>3, StoreEffect
<1>4. ASSUME NEW t \in Tabs, NEW s \in Slots, NEW f \in Flights, StartRefresh(t, s, f)
      PROVE  OneRefreshPerTab'
  BY <1>4, StartEffect
<1>5. ASSUME NEW f \in Flights, RefreshDone(f) \/ RefreshRefused(f) \/ RefreshLost(f)
      PROVE  OneRefreshPerTab'
  BY <1>5, EndEffect
<1>6. ASSUME NEW c \in Clients, NEW p \in Passwords, Submit(c, p) PROVE OneRefreshPerTab'
  BY <1>6, SubmitEffect
<1>7. ASSUME NEW c \in Clients, LoginFind(c) PROVE OneRefreshPerTab'
  BY <1>7, FindEffect
<1>8. ASSUME NEW c \in Clients, LoginBackfill(c) PROVE OneRefreshPerTab'
  BY <1>8, BackfillEffect
<1>9. ASSUME NEW c \in Clients, LoginStore(c) PROVE OneRefreshPerTab'
  BY <1>9, LoginStoreEffect
<1>10. ASSUME NEW c \in Clients, LoginDone(c) \/ LoginFails(c) PROVE OneRefreshPerTab'
  BY <1>10, LoginEndEffect
<1>11. ASSUME NEW t \in Tabs, NEW s \in Slots, Served(t, s) PROVE OneRefreshPerTab'
  BY <1>11, ServedEffect
<1>12. ASSUME Changed PROVE OneRefreshPerTab'
  BY <1>12, ChangeEffect
<1> QED
  BY Cases, <1>1, <1>2, <1>3, <1>4, <1>5, <1>6, <1>7, <1>8, <1>9, <1>10, <1>11, <1>12 DEF Changed

LEMMA GrantsCrossKept == ASSUME IInv, [Next]_vars PROVE GrantsCross'
<1>0. TypeOK /\ GrantsCross /\ OneRefreshPerTab
  BY DEF IInv
<1> USE <1>0, FieldTypes
    DEF GrantsCross, OneRefreshPerTab, Elsewhere, GrantsSame, OthersSame, OtherLogins
<1>1. ASSUME Quietly PROVE GrantsCross'
  BY <1>1 DEF Quietly
<1>2. ASSUME NEW f \in Flights, RefreshMatch(f) PROVE GrantsCross'
  BY <1>2, MatchEffect
<1>3. ASSUME NEW f \in Flights, RefreshStore(f) PROVE GrantsCross'
  BY <1>3, StoreEffect
<1>4. ASSUME NEW t \in Tabs, NEW s \in Slots, NEW f \in Flights, StartRefresh(t, s, f)
      PROVE  GrantsCross'
  <2>1. ASSUME ~crossed'
        PROVE  /\ ~crossed
               /\ \A g \in Flights : flight[g].pc = "free"
               /\ \A u \in Tabs : login[u].pc = "idle"
    <3>1. ~OtherGrants(t) /\ ~crossed /\ refreshing[t] = 0  BY <1>4, <2>1, StartEffect
    <3>2. ASSUME NEW g \in Flights, flight[g].pc # "free" PROVE FALSE
      <4>1. flight[g].tab = t  BY <3>1, <3>2 DEF OtherGrants
      <4> QED  BY <3>1, <3>2, <4>1, FlightsAssumption
    <3> QED  BY <3>1, <3>2 DEF OtherGrants
  <2> QED  BY <1>4, <2>1, StartEffect
<1>5. ASSUME NEW f \in Flights, RefreshDone(f) \/ RefreshRefused(f) \/ RefreshLost(f)
      PROVE  GrantsCross'
  BY <1>5, EndEffect
<1>6. ASSUME NEW c \in Clients, NEW p \in Passwords, Submit(c, p) PROVE GrantsCross'
  <2>1. CASE c \in Tabs
    <3>1. ASSUME ~crossed'
          PROVE  /\ \A f \in Flights : flight[f].pc = "free"
                 /\ \A u \in Tabs : login[u].pc = "idle"
      BY <1>6, <2>1, <3>1, SubmitEffect DEF OtherGrants
    <3> QED  BY <1>6, <3>1, SubmitEffect
  <2>2. CASE c \notin Tabs
    <3>1. \A u \in Tabs : login'[u] = login[u]  BY <1>6, <2>2, SubmitEffect
    <3> QED  BY <1>6, <3>1, SubmitEffect
  <2> QED  BY <2>1, <2>2
<1>7. ASSUME NEW c \in Clients, LoginFind(c) PROVE GrantsCross'
  BY <1>7, FindEffect
<1>8. ASSUME NEW c \in Clients, LoginBackfill(c) PROVE GrantsCross'
  BY <1>8, BackfillEffect
<1>9. ASSUME NEW c \in Clients, LoginStore(c) PROVE GrantsCross'
  BY <1>9, LoginStoreEffect
<1>10. ASSUME NEW c \in Clients, LoginDone(c) \/ LoginFails(c) PROVE GrantsCross'
  BY <1>10, LoginEndEffect
<1>11. ASSUME NEW t \in Tabs, NEW s \in Slots, Served(t, s) PROVE GrantsCross'
  BY <1>11, ServedEffect
<1>12. ASSUME Changed PROVE GrantsCross'
  BY <1>12, ChangeEffect
<1> QED
  BY Cases, <1>1, <1>2, <1>3, <1>4, <1>5, <1>6, <1>7, <1>8, <1>9, <1>10, <1>11, <1>12 DEF Changed

LEMMA GrantsAreLaterKept == ASSUME IInv, [Next]_vars PROVE GrantsAreLater'
<1>0. TypeOK /\ GrantsAreLater /\ GrantsCross /\ FlightsCarryTokens
  BY DEF IInv
<1> USE <1>0, FieldTypes
    DEF GrantsAreLater, GrantsCross, FlightsCarryTokens,
        Elsewhere, GrantsSame, OthersSame, OtherLogins
<1>1. ASSUME Quietly PROVE GrantsAreLater'
  BY <1>1 DEF Quietly
<1>2. ASSUME NEW f \in Flights, RefreshMatch(f) PROVE GrantsAreLater'
  BY <1>2, MatchEffect
<1>3. ASSUME NEW f \in Flights, RefreshStore(f) PROVE GrantsAreLater'
  BY <1>3, StoreEffect
<1>4. ASSUME NEW t \in Tabs, NEW s \in Slots, NEW f \in Flights, StartRefresh(t, s, f)
      PROVE  GrantsAreLater'
  BY <1>4, StartEffect
<1>5. ASSUME NEW f \in Flights, RefreshDone(f) \/ RefreshRefused(f) \/ RefreshLost(f)
      PROVE  GrantsAreLater'
  BY <1>5, EndEffect
<1>6. ASSUME NEW c \in Clients, NEW p \in Passwords, Submit(c, p) PROVE GrantsAreLater'
  BY <1>6, SubmitEffect
<1>7. ASSUME NEW c \in Clients, LoginFind(c) PROVE GrantsAreLater'
  BY <1>7, FindEffect
<1>8. ASSUME NEW c \in Clients, LoginBackfill(c) PROVE GrantsAreLater'
  BY <1>8, BackfillEffect
<1>9. ASSUME NEW c \in Clients, LoginStore(c) PROVE GrantsAreLater'
  BY <1>9, LoginStoreEffect
<1>10. ASSUME NEW c \in Clients, LoginDone(c) \/ LoginFails(c) PROVE GrantsAreLater'
  BY <1>10, LoginEndEffect
<1>11. ASSUME NEW t \in Tabs, NEW s \in Slots, Served(t, s) PROVE GrantsAreLater'
  BY <1>11, ServedEffect
<1>12. ASSUME Changed PROVE GrantsAreLater'
  BY <1>12, ChangeEffect
<1> QED
  BY Cases, <1>1, <1>2, <1>3, <1>4, <1>5, <1>6, <1>7, <1>8, <1>9, <1>10, <1>11, <1>12 DEF Changed

LEMMA MatchedIsOpenKept == ASSUME IInv, [Next]_vars PROVE MatchedIsOpen'
<1>0. TypeOK /\ MatchedIsOpen /\ ClosedStaysClosed /\ FlightsCarryTokens /\ EpochsArePast
  BY DEF IInv
<1> USE <1>0, FieldTypes
    DEF MatchedIsOpen, ClosedStaysClosed, FlightsCarryTokens, EpochsArePast,
        Elsewhere, GrantsSame, OthersSame, OtherLogins
<1>1. ASSUME Quietly PROVE MatchedIsOpen'
  BY <1>1 DEF Quietly
<1>2. ASSUME NEW f \in Flights, RefreshMatch(f) PROVE MatchedIsOpen'
  BY <1>2, MatchEffect
<1>3. ASSUME NEW f \in Flights, RefreshStore(f) PROVE MatchedIsOpen'
  BY <1>3, StoreEffect
<1>4. ASSUME NEW t \in Tabs, NEW s \in Slots, NEW f \in Flights, StartRefresh(t, s, f)
      PROVE  MatchedIsOpen'
  BY <1>4, StartEffect
<1>5. ASSUME NEW f \in Flights, RefreshDone(f) \/ RefreshRefused(f) \/ RefreshLost(f)
      PROVE  MatchedIsOpen'
  BY <1>5, EndEffect
<1>6. ASSUME NEW c \in Clients, NEW p \in Passwords, Submit(c, p) PROVE MatchedIsOpen'
  BY <1>6, SubmitEffect
<1>7. ASSUME NEW c \in Clients, LoginFind(c) PROVE MatchedIsOpen'
  BY <1>7, FindEffect
<1>8. ASSUME NEW c \in Clients, LoginBackfill(c) PROVE MatchedIsOpen'
  BY <1>8, BackfillEffect
<1>9. ASSUME NEW c \in Clients, LoginStore(c) PROVE MatchedIsOpen'
  BY <1>9, LoginStoreEffect
<1>10. ASSUME NEW c \in Clients, LoginDone(c) \/ LoginFails(c) PROVE MatchedIsOpen'
  BY <1>10, LoginEndEffect
<1>11. ASSUME NEW t \in Tabs, NEW s \in Slots, Served(t, s) PROVE MatchedIsOpen'
  BY <1>11, ServedEffect
<1>12. ASSUME Changed PROVE MatchedIsOpen'
  <2>1. \A f \in Flights : flight'[f].epoch # changes'  BY <1>12, ChangeEffect
  <2> QED  BY <2>1
<1> QED
  BY Cases, <1>1, <1>2, <1>3, <1>4, <1>5, <1>6, <1>7, <1>8, <1>9, <1>10, <1>11, <1>12 DEF Changed

LEMMA SpentIsSharedKept == ASSUME IInv, [Next]_vars PROVE SpentIsShared'
<1>0. TypeOK /\ SpentIsShared /\ FlightsCarryTokens /\ LastIsStored
  BY DEF IInv
<1> USE <1>0, FieldTypes
    DEF SpentIsShared, FlightsCarryTokens, LastIsStored,
        Elsewhere, GrantsSame, OthersSame, OtherLogins
<1>1. ASSUME Quietly PROVE SpentIsShared'
  BY <1>1 DEF Quietly
<1>2. ASSUME NEW f \in Flights, RefreshMatch(f) PROVE SpentIsShared'
  BY <1>2, MatchEffect
<1>3. ASSUME NEW f \in Flights, RefreshStore(f) PROVE SpentIsShared'
  BY <1>3, StoreEffect
<1>4. ASSUME NEW t \in Tabs, NEW s \in Slots, NEW f \in Flights, StartRefresh(t, s, f)
      PROVE  SpentIsShared'
  BY <1>4, StartEffect
<1>5. ASSUME NEW f \in Flights, RefreshDone(f) \/ RefreshRefused(f) \/ RefreshLost(f)
      PROVE  SpentIsShared'
  BY <1>5, EndEffect
<1>6. ASSUME NEW c \in Clients, NEW p \in Passwords, Submit(c, p) PROVE SpentIsShared'
  BY <1>6, SubmitEffect
<1>7. ASSUME NEW c \in Clients, LoginFind(c) PROVE SpentIsShared'
  BY <1>7, FindEffect
<1>8. ASSUME NEW c \in Clients, LoginBackfill(c) PROVE SpentIsShared'
  BY <1>8, BackfillEffect
<1>9. ASSUME NEW c \in Clients, LoginStore(c) PROVE SpentIsShared'
  BY <1>9, LoginStoreEffect
<1>10. ASSUME NEW c \in Clients, LoginDone(c) \/ LoginFails(c) PROVE SpentIsShared'
  BY <1>10, LoginEndEffect
<1>11. ASSUME NEW t \in Tabs, NEW s \in Slots, Served(t, s) PROVE SpentIsShared'
  BY <1>11, ServedEffect
<1>12. ASSUME Changed PROVE SpentIsShared'
  BY <1>12, ChangeEffect
<1> QED
  BY Cases, <1>1, <1>2, <1>3, <1>4, <1>5, <1>6, <1>7, <1>8, <1>9, <1>10, <1>11, <1>12 DEF Changed

LEMMA FoundIsCurrentKept == ASSUME IInv, [Next]_vars PROVE FoundIsCurrent'
<1>0. TypeOK /\ FoundIsCurrent /\ EpochsArePast
  BY DEF IInv
<1> USE <1>0, FieldTypes
    DEF FoundIsCurrent, EpochsArePast, Elsewhere, GrantsSame, OthersSame, OtherLogins
<1>1. ASSUME Quietly PROVE FoundIsCurrent'
  BY <1>1 DEF Quietly
<1>2. ASSUME NEW f \in Flights, RefreshMatch(f) PROVE FoundIsCurrent'
  BY <1>2, MatchEffect
<1>3. ASSUME NEW f \in Flights, RefreshStore(f) PROVE FoundIsCurrent'
  BY <1>3, StoreEffect
<1>4. ASSUME NEW t \in Tabs, NEW s \in Slots, NEW f \in Flights, StartRefresh(t, s, f)
      PROVE  FoundIsCurrent'
  BY <1>4, StartEffect
<1>5. ASSUME NEW f \in Flights, RefreshDone(f) \/ RefreshRefused(f) \/ RefreshLost(f)
      PROVE  FoundIsCurrent'
  BY <1>5, EndEffect
<1>6. ASSUME NEW c \in Clients, NEW p \in Passwords, Submit(c, p) PROVE FoundIsCurrent'
  BY <1>6, SubmitEffect
<1>7. ASSUME NEW c \in Clients, LoginFind(c) PROVE FoundIsCurrent'
  BY <1>7, FindEffect
<1>8. ASSUME NEW c \in Clients, LoginBackfill(c) PROVE FoundIsCurrent'
  BY <1>8, BackfillEffect
<1>9. ASSUME NEW c \in Clients, LoginStore(c) PROVE FoundIsCurrent'
  BY <1>9, LoginStoreEffect
<1>10. ASSUME NEW c \in Clients, LoginDone(c) \/ LoginFails(c) PROVE FoundIsCurrent'
  BY <1>10, LoginEndEffect
<1>11. ASSUME NEW t \in Tabs, NEW s \in Slots, Served(t, s) PROVE FoundIsCurrent'
  BY <1>11, ServedEffect
<1>12. ASSUME Changed PROVE FoundIsCurrent'
  <2>1. \A c \in Clients : login'[c].epoch # changes'  BY <1>12, ChangeEffect
  <2> QED  BY <2>1
<1> QED
  BY Cases, <1>1, <1>2, <1>3, <1>4, <1>5, <1>6, <1>7, <1>8, <1>9, <1>10, <1>11, <1>12 DEF Changed

LEMMA OneShotKept == ASSUME IInv, [Next]_vars PROVE OneShot'
<1>0. TypeOK /\ OneShot /\ SpentIsShared
  BY DEF IInv
<1> USE <1>0, FieldTypes
    DEF OneShot, SpentIsShared, Elsewhere, GrantsSame, OthersSame, OtherLogins
<1>1. ASSUME Quietly PROVE OneShot'
  BY <1>1 DEF Quietly
<1>2. ASSUME NEW f \in Flights, RefreshMatch(f) PROVE OneShot'
  BY <1>2, MatchEffect
<1>3. ASSUME NEW f \in Flights, RefreshStore(f) PROVE OneShot'
  BY <1>3, StoreEffect
<1>4. ASSUME NEW t \in Tabs, NEW s \in Slots, NEW f \in Flights, StartRefresh(t, s, f)
      PROVE  OneShot'
  BY <1>4, StartEffect
<1>5. ASSUME NEW f \in Flights, RefreshDone(f) \/ RefreshRefused(f) \/ RefreshLost(f)
      PROVE  OneShot'
  BY <1>5, EndEffect
<1>6. ASSUME NEW c \in Clients, NEW p \in Passwords, Submit(c, p) PROVE OneShot'
  BY <1>6, SubmitEffect
<1>7. ASSUME NEW c \in Clients, LoginFind(c) PROVE OneShot'
  BY <1>7, FindEffect
<1>8. ASSUME NEW c \in Clients, LoginBackfill(c) PROVE OneShot'
  BY <1>8, BackfillEffect
<1>9. ASSUME NEW c \in Clients, LoginStore(c) PROVE OneShot'
  BY <1>9, LoginStoreEffect
<1>10. ASSUME NEW c \in Clients, LoginDone(c) \/ LoginFails(c) PROVE OneShot'
  BY <1>10, LoginEndEffect
<1>11. ASSUME NEW t \in Tabs, NEW s \in Slots, Served(t, s) PROVE OneShot'
  BY <1>11, ServedEffect
<1>12. ASSUME Changed PROVE OneShot'
  BY <1>12, ChangeEffect
<1> QED
  BY Cases, <1>1, <1>2, <1>3, <1>4, <1>5, <1>6, <1>7, <1>8, <1>9, <1>10, <1>11, <1>12 DEF Changed

LEMMA ClosedStaysClosedKept == ASSUME IInv, [Next]_vars PROVE ClosedStaysClosed'
<1>0. TypeOK /\ ClosedStaysClosed /\ MatchedIsOpen
  BY DEF IInv
<1> USE <1>0, FieldTypes
    DEF ClosedStaysClosed, MatchedIsOpen, Elsewhere, GrantsSame, OthersSame, OtherLogins
<1>1. ASSUME Quietly PROVE ClosedStaysClosed'
  BY <1>1 DEF Quietly
<1>2. ASSUME NEW f \in Flights, RefreshMatch(f) PROVE ClosedStaysClosed'
  BY <1>2, MatchEffect
<1>3. ASSUME NEW f \in Flights, RefreshStore(f) PROVE ClosedStaysClosed'
  BY <1>3, StoreEffect
<1>4. ASSUME NEW t \in Tabs, NEW s \in Slots, NEW f \in Flights, StartRefresh(t, s, f)
      PROVE  ClosedStaysClosed'
  BY <1>4, StartEffect
<1>5. ASSUME NEW f \in Flights, RefreshDone(f) \/ RefreshRefused(f) \/ RefreshLost(f)
      PROVE  ClosedStaysClosed'
  BY <1>5, EndEffect
<1>6. ASSUME NEW c \in Clients, NEW p \in Passwords, Submit(c, p) PROVE ClosedStaysClosed'
  BY <1>6, SubmitEffect
<1>7. ASSUME NEW c \in Clients, LoginFind(c) PROVE ClosedStaysClosed'
  BY <1>7, FindEffect
<1>8. ASSUME NEW c \in Clients, LoginBackfill(c) PROVE ClosedStaysClosed'
  BY <1>8, BackfillEffect
<1>9. ASSUME NEW c \in Clients, LoginStore(c) PROVE ClosedStaysClosed'
  BY <1>9, LoginStoreEffect
<1>10. ASSUME NEW c \in Clients, LoginDone(c) \/ LoginFails(c) PROVE ClosedStaysClosed'
  BY <1>10, LoginEndEffect
<1>11. ASSUME NEW t \in Tabs, NEW s \in Slots, Served(t, s) PROVE ClosedStaysClosed'
  BY <1>11, ServedEffect
<1>12. ASSUME Changed PROVE ClosedStaysClosed'
  BY <1>12, ChangeEffect
<1> QED
  BY Cases, <1>1, <1>2, <1>3, <1>4, <1>5, <1>6, <1>7, <1>8, <1>9, <1>10, <1>11, <1>12 DEF Changed

LEMMA PairAgreesKept == ASSUME IInv, [Next]_vars PROVE PairAgrees'
<1>0. TypeOK /\ PairAgrees /\ FoundIsCurrent
  BY DEF IInv
<1> USE <1>0
    DEF PairAgrees, FoundIsCurrent, Elsewhere, GrantsSame, OthersSame, OtherLogins
<1>1. ASSUME Quietly PROVE PairAgrees'
  BY <1>1 DEF Quietly
<1>2. ASSUME NEW f \in Flights, RefreshMatch(f) PROVE PairAgrees'
  BY <1>2, MatchEffect
<1>3. ASSUME NEW f \in Flights, RefreshStore(f) PROVE PairAgrees'
  BY <1>3, StoreEffect
<1>4. ASSUME NEW t \in Tabs, NEW s \in Slots, NEW f \in Flights, StartRefresh(t, s, f)
      PROVE  PairAgrees'
  BY <1>4, StartEffect
<1>5. ASSUME NEW f \in Flights, RefreshDone(f) \/ RefreshRefused(f) \/ RefreshLost(f)
      PROVE  PairAgrees'
  BY <1>5, EndEffect
<1>6. ASSUME NEW c \in Clients, NEW p \in Passwords, Submit(c, p) PROVE PairAgrees'
  BY <1>6, SubmitEffect
<1>7. ASSUME NEW c \in Clients, LoginFind(c) PROVE PairAgrees'
  BY <1>7, FindEffect
<1>8. ASSUME NEW c \in Clients, LoginBackfill(c) PROVE PairAgrees'
  BY <1>8, BackfillEffect
<1>9. ASSUME NEW c \in Clients, LoginStore(c) PROVE PairAgrees'
  BY <1>9, LoginStoreEffect
<1>10. ASSUME NEW c \in Clients, LoginDone(c) \/ LoginFails(c) PROVE PairAgrees'
  BY <1>10, LoginEndEffect
<1>11. ASSUME NEW t \in Tabs, NEW s \in Slots, Served(t, s) PROVE PairAgrees'
  BY <1>11, ServedEffect
<1>12. ASSUME Changed PROVE PairAgrees'
  BY <1>12, ChangeEffect
<1> QED
  BY Cases, <1>1, <1>2, <1>3, <1>4, <1>5, <1>6, <1>7, <1>8, <1>9, <1>10, <1>11, <1>12 DEF Changed

LEMMA InitInv == Init => IInv
<1> SUFFICES ASSUME Init PROVE IInv  OBVIOUS
<1>1. TypeOK  BY InitTypes
<1>2. /\ \A f \in Flights : /\ flight[f].pc = "free" /\ flight[f].epoch = 0
                            /\ flight[f].new = 0
      /\ \A c \in Clients : /\ login[c].pc = "idle" /\ login[c].epoch = 0
                            /\ login[c].new = 0
  BY DEF Init, NoFlight, NoLogin
<1>3. /\ account.refresh = 1 /\ account.hash = FirstPwd /\ account.enc \in {FirstPwd, NoPwd}
      /\ issued = 1 /\ changes = 0 /\ local = 1 /\ delivered = {1} /\ fresh = {1}
      /\ spent = {} /\ twice = {}
  BY DEF Init
<1>4. Tabs \subseteq Clients  BY DEF Clients
<1>5. FlightsCarryTokens /\ EpochsArePast /\ LastIsStored /\ OneRefreshPerTab
  BY <1>2, <1>3 DEF FlightsCarryTokens, EpochsArePast, LastIsStored, OneRefreshPerTab
<1>6. GrantsCross /\ GrantsAreLater
  BY <1>2, <1>3, <1>4 DEF GrantsCross, GrantsAreLater
<1>7. MatchedIsOpen /\ SpentIsShared /\ FoundIsCurrent
  BY <1>2, <1>3 DEF MatchedIsOpen, SpentIsShared, FoundIsCurrent
<1>8. OneShot /\ ClosedStaysClosed /\ PairAgrees
  BY <1>3 DEF OneShot, ClosedStaysClosed, PairAgrees
<1> QED  BY <1>1, <1>5, <1>6, <1>7, <1>8 DEF IInv

LEMMA Inductive == Spec => []IInv
<1>1. IInv /\ [Next]_vars => IInv'
  <2> SUFFICES ASSUME IInv, [Next]_vars PROVE IInv'  OBVIOUS
  <2>1. TypeOK'  BY TypesKept DEF IInv
  <2> QED
    BY <2>1, FlightsCarryTokensKept, EpochsArePastKept, LastIsStoredKept, OneRefreshPerTabKept,
       GrantsCrossKept, GrantsAreLaterKept, MatchedIsOpenKept, SpentIsSharedKept,
       FoundIsCurrentKept, OneShotKept, ClosedStaysClosedKept, PairAgreesKept
    DEF IInv
<1> QED  BY <1>1, InitInv, PTL DEF Spec

(***************************************************************************)
(* What follows, for any number of tabs, devices, requests and refreshes.  *)
(***************************************************************************)

\* InSync: as long as no two grants of the browser crossed, the pair in
\* localStorage is the one whose hash the account holds, or the account holds
\* none of the browser's (lib/api.ts, POST /auth/refresh and /auth/login).
THEOREM InSyncHolds == Spec => []InSync
<1>1. IInv => InSync
  <2> SUFFICES ASSUME IInv, local # 0, account.refresh \in delivered, ~crossed
      PROVE  account.refresh = local
    BY DEF InSync
  <2>1. /\ issued \in Nat /\ local \in 0..issued /\ account.refresh \in {0, issued}
        /\ account.refresh <= local /\ 1 <= local
    BY FieldTypes DEF IInv, LastIsStored, GrantsAreLater
  <2>2. account.refresh # 0  BY DEF IInv, GrantsAreLater
  <2> QED  BY <2>1, <2>2
<1> QED  BY <1>1, Inductive, PTL

\* OneShot: a refresh token is exchanged once, unless two refreshes compared it
\* before either of them stored its successor (auth.routes.ts).
THEOREM OneShotHolds == Spec => []OneShot
<1>1. IInv => OneShot  BY DEF IInv
<1> QED  BY <1>1, Inductive, PTL

\* ClosedStaysClosed: after a change of password, a reset or a deletion no
\* earlier session lives on, unless a login or a refresh had read the account
\* before it (auth.routes.ts and users.routes.ts).
THEOREM ClosedStaysClosedHolds == Spec => []ClosedStaysClosed
<1>1. IInv => ClosedStaysClosed  BY DEF IInv
<1> QED  BY <1>1, Inductive, PTL

\* PairAgrees: passwordHash and passwordEnc are of one password, unless a login
\* filled in passwordEnc after a change it did not see (user.service.ts).
THEOREM PairAgreesHolds == Spec => []PairAgrees
<1>1. IInv => PairAgrees  BY DEF IInv
<1> QED  BY <1>1, Inductive, PTL
=============================================================================
