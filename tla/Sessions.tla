------------------------------ MODULE Sessions ------------------------------
(***************************************************************************)
(* The sign-in state of one user: the account document with its one       *)
(* refresh token, the handlers of routes/auth.routes.ts and of            *)
(* routes/users.routes.ts that change it, and a browser (lib/api.ts)      *)
(* whose tabs share the tokens in localStorage but not the variable       *)
(* `refreshing` that makes a tab's requests wait for one refresh.         *)
(*                                                                        *)
(* Tokens are numbered in the order they are issued; number n stands for  *)
(* the access and the refresh token issued together, 0 for none.          *)
(***************************************************************************)
EXTENDS Naturals, FiniteSets

CONSTANTS
    Tabs,         \* the tabs of the browser
    Devices,      \* other places the user signs in from
    Slots,        \* requests a tab may have at a time
    Flights,      \* calls of POST /auth/refresh at a time, numbered
    Passwords,
    FirstPwd,     \* the password the user starts with
    NoPwd,        \* passwordEnc of an account older than that field
    MaxRequests,  \* requests the tabs make
    MaxEvents,    \* sign-ins, expiries, changes of the account and faults
    MaxFaults

ASSUME TabsAssumption == Tabs # {}
ASSUME FlightsAssumption == 0 \notin Flights
ASSUME PasswordsAssumption == FirstPwd \in Passwords /\ NoPwd \notin Passwords

VARIABLES
    account,      \* the user's document
    issued,       \* number of token pairs issued
    expired,      \* access tokens whose time is over
    local,        \* the pair in localStorage
    page,         \* what each tab shows: the login page or the application
    req,          \* the requests of the tabs
    refreshing,   \* of each tab: the refresh its requests wait for
    flight,       \* the calls of POST /auth/refresh
    login,        \* the calls of POST /auth/login
    change,       \* POST /auth/me/password: read the document, not yet saved
    requests, events, changes, faults,
    \* History, for the properties:
    fresh,        \* tokens granted under the present password and not closed
    raced,        \* tokens stored by a call that a change overtook
    delivered,    \* tokens that this browser has stored
    crossed,      \* two grants of this browser were under way at once
    spent,        \* tokens exchanged for a new pair
    twice,        \* tokens exchanged more than once
    shared,       \* tokens that two refreshes had compared before either stored
    staleBackfill \* passwordEnc was written by a login that a change overtook

vars == <<account, issued, expired, local, page, req, refreshing, flight, login,
          change, requests, events, changes, faults, fresh, raced, delivered,
          crossed, spent, twice, shared, staleBackfill>>
serverVars == <<account, issued, fresh, raced, spent, twice, shared>>
browserVars == <<local, page, req, refreshing, delivered>>
historyVars == <<fresh, raced, delivered, crossed, spent, twice, shared, staleBackfill>>

Clients == Tabs \cup Devices
Kinds == {"data", "logout"}

NoRequest == [pc |-> "idle", kind |-> "data", token |-> 0, retried |-> FALSE, on |-> 0]
NoFlight == [pc |-> "free", tab |-> CHOOSE t \in Tabs : TRUE, token |-> 0, new |-> 0, epoch |-> 0]
NoLogin == [pc |-> "idle", pwd |-> NoPwd, backfill |-> FALSE, new |-> 0, epoch |-> 0]

\* The user has signed in once, from this browser; the account may be older
\* than the field passwordEnc.
Init ==
    /\ \E e \in {FirstPwd, NoPwd} :
           account = [hash |-> FirstPwd, enc |-> e, active |-> TRUE, refresh |-> 1]
    /\ issued = 1 /\ expired = {} /\ local = 1
    /\ page = [t \in Tabs |-> "app"]
    /\ req = [t \in Tabs |-> [s \in Slots |-> NoRequest]]
    /\ refreshing = [t \in Tabs |-> 0]
    /\ flight = [f \in Flights |-> NoFlight]
    /\ login = [c \in Clients |-> NoLogin]
    /\ change = "none"
    /\ requests = 0 /\ events = 0 /\ changes = 0 /\ faults = 0
    /\ fresh = {1} /\ raced = {} /\ delivered = {1} /\ crossed = FALSE
    /\ spent = {} /\ twice = {} /\ shared = {} /\ staleBackfill = FALSE

\* One of the bounded events of the user's and the system's surroundings.
Happens == events < MaxEvents /\ events' = events + 1

Fault == Happens /\ faults < MaxFaults /\ faults' = faults + 1

\* An access token runs out.
Expire(n) ==
    /\ Happens /\ n \in 1..issued /\ n \notin expired
    /\ expired' = expired \cup {n}
    /\ UNCHANGED <<serverVars, browserVars, flight, login, change, requests,
                   changes, faults, crossed, staleBackfill>>

----
(* POST /auth/refresh *)

\* Variant for InSync and OneShot: the new token's hash is not stored.
GrantUnstored(n) == UNCHANGED account

\* setRefreshToken: the hash of token n replaces whatever is there.
Grant(n) == account' = [account EXCEPT !.refresh = n]

\* Grants of this browser that are under way, other than a refresh of tab t.
OtherGrants(t) ==
    \/ \E f \in Flights : flight[f].pc # "free" /\ flight[f].tab # t
    \/ \E u \in Tabs : login[u].pc # "idle"

\* refreshTokenMatches: the token is compared with the stored hash. isActive
\* is not looked at.
RefreshMatch(f) ==
    /\ flight[f].pc = "sent"
    /\ IF account.refresh = flight[f].token
       THEN /\ flight' = [flight EXCEPT ![f].pc = "matched", ![f].epoch = changes]
            /\ shared' = IF \E g \in Flights : /\ flight[g].pc = "matched"
                                               /\ flight[g].token = flight[f].token
                         THEN shared \cup {flight[f].token} ELSE shared
       ELSE flight' = [flight EXCEPT ![f].pc = "answered"] /\ UNCHANGED shared
    /\ UNCHANGED <<account, issued, expired, browserVars, login, change, requests, events,
                   changes, faults, fresh, raced, crossed, spent, twice, staleBackfill>>

\* The new pair is signed and its refresh token stored, whatever the document
\* says by now.
RefreshStore(f) ==
    LET n == issued + 1
        old == flight[f].token
        overtaken == flight[f].epoch # changes
    IN  /\ flight[f].pc = "matched"
        /\ issued' = n /\ Grant(n)
        /\ flight' = [flight EXCEPT ![f].pc = "answered", ![f].new = n]
        /\ fresh' = IF ~overtaken /\ old \in fresh THEN fresh \cup {n} ELSE fresh
        /\ raced' = IF overtaken \/ old \in raced THEN raced \cup {n} ELSE raced
        /\ spent' = spent \cup {old}
        /\ twice' = IF old \in spent THEN twice \cup {old} ELSE twice
        /\ UNCHANGED <<expired, browserVars, login, change, requests, events, changes,
                       faults, crossed, shared, staleBackfill>>

----
(* The browser's requests *)

\* Variant for RequestsEnd: only one of the waiting requests goes on.
ResumeOne(t, f, n) ==
    LET w == CHOOSE s \in Slots : req[t][s].on = f
    IN [req[t] EXCEPT ![w].pc = "sent", ![w].token = n, ![w].on = 0]

\* The requests of tab t that waited for flight f are sent again with the
\* tokens that localStorage holds now.
Resume(t, f, n) ==
    [s \in Slots |-> IF req[t][s].on = f
                     THEN [req[t][s] EXCEPT !.pc = "sent", !.token = n, !.on = 0]
                     ELSE req[t][s]]

\* clearTokens, and the way to the login page. Outside the login page that is
\* a new document: all the tab's requests are gone. On it, those in ended
\* are rejected.
SignOut(t, ended) ==
    /\ local' = 0
    /\ page' = [page EXCEPT ![t] = "login"]
    /\ req' = [req EXCEPT ![t] = [s \in Slots |->
                  IF page[t] = "app" \/ s \in ended THEN NoRequest ELSE @[s]]]

\* A request starts; the interceptor attaches the token of localStorage.
Send(t, s) ==
    /\ requests < MaxRequests /\ requests' = requests + 1
    /\ page[t] = "app" /\ req[t][s].pc = "idle"
    /\ req' = [req EXCEPT ![t][s] = [NoRequest EXCEPT !.pc = "sent", !.token = local]]
    /\ UNCHANGED <<serverVars, expired, local, page, refreshing, delivered, flight, login,
                   change, events, changes, faults, crossed, staleBackfill>>

\* auth.logout: the request is queued, the tokens are removed, and only then
\* runs the interceptor: the request carries no token. The router changes the
\* page without unloading the document.
Logout(t, s) ==
    /\ requests < MaxRequests /\ requests' = requests + 1
    /\ page[t] = "app" /\ req[t][s].pc = "idle"
    /\ local' = 0 /\ page' = [page EXCEPT ![t] = "login"]
    /\ req' = [req EXCEPT ![t][s] = [NoRequest EXCEPT !.pc = "sent", !.kind = "logout"]]
    /\ UNCHANGED <<serverVars, expired, refreshing, delivered, flight, login,
                   change, events, changes, faults, crossed, staleBackfill>>

\* jwtVerify: a token that was signed here and has not run out.
Accepted(n) == n # 0 /\ n \notin expired

\* The server lets the request through; a logout clears the stored hash.
Served(t, s) ==
    /\ req[t][s].pc = "sent" /\ Accepted(req[t][s].token)
    /\ IF req[t][s].kind = "logout" THEN Grant(0) ELSE UNCHANGED account
    /\ req' = [req EXCEPT ![t][s] = NoRequest]
    /\ UNCHANGED <<issued, expired, local, page, refreshing, delivered, flight, login, change,
                   requests, events, changes, faults, fresh, raced, crossed, spent, twice,
                   shared, staleBackfill>>

\* 401 for the second time: the request is rejected.
RefusedAgain(t, s) ==
    /\ req[t][s].pc = "sent" /\ ~Accepted(req[t][s].token) /\ req[t][s].retried
    /\ req' = [req EXCEPT ![t][s] = NoRequest]
    /\ UNCHANGED <<serverVars, expired, local, page, refreshing, delivered, flight, login,
                   change, requests, events, changes, faults, crossed, staleBackfill>>

\* Variant for InSync: every request that is refused refreshes by itself.
MustRefreshAlways(t) == local # 0

\* The tab has no refresh under way and a token to refresh with.
MustRefresh(t) == refreshing[t] = 0 /\ local # 0

\* 401 for the first time, and the tab refreshes: the request that is refused
\* first starts it.
StartRefresh(t, s, f) ==
    /\ req[t][s].pc = "sent" /\ ~Accepted(req[t][s].token) /\ ~req[t][s].retried
    /\ MustRefresh(t) /\ flight[f].pc = "free"
    /\ flight' = [flight EXCEPT ![f] = [NoFlight EXCEPT !.pc = "sent", !.tab = t, !.token = local]]
    /\ refreshing' = [refreshing EXCEPT ![t] = f]
    /\ req' = [req EXCEPT ![t][s].pc = "waiting", ![t][s].retried = TRUE, ![t][s].on = f]
    /\ crossed' = (crossed \/ OtherGrants(t))
    /\ UNCHANGED <<serverVars, expired, local, page, delivered, login, change, requests,
                   events, changes, faults, staleBackfill>>

\* Requests refused meanwhile wait for the same refresh.
JoinRefresh(t, s) ==
    /\ req[t][s].pc = "sent" /\ ~Accepted(req[t][s].token) /\ ~req[t][s].retried
    /\ refreshing[t] # 0 /\ ~MustRefresh(t)
    /\ req' = [req EXCEPT ![t][s].pc = "waiting", ![t][s].retried = TRUE,
                          ![t][s].on = refreshing[t]]
    /\ UNCHANGED <<serverVars, expired, local, page, refreshing, delivered, flight, login,
                   change, requests, events, changes, faults, crossed, staleBackfill>>

\* There is no refresh token: the tab signs out at once.
NothingToRefresh(t, s) ==
    /\ req[t][s].pc = "sent" /\ ~Accepted(req[t][s].token) /\ ~req[t][s].retried
    /\ refreshing[t] = 0 /\ local = 0
    /\ SignOut(t, {s})
    /\ UNCHANGED <<serverVars, expired, refreshing, delivered, flight, login, change,
                   requests, events, changes, faults, crossed, staleBackfill>>

\* The tokens arrive and are stored, and the waiting requests go on.
RefreshDone(f) ==
    LET t == flight[f].tab
        n == flight[f].new
    IN  /\ flight[f].pc = "answered" /\ n # 0
        /\ local' = n /\ delivered' = delivered \cup {n}
        /\ req' = [req EXCEPT ![t] = Resume(t, f, n)]
        /\ refreshing' = [refreshing EXCEPT ![t] = 0]
        /\ flight' = [flight EXCEPT ![f] = NoFlight]
        /\ UNCHANGED <<serverVars, expired, page, login, change, requests, events, changes,
                       faults, crossed, staleBackfill>>

\* What a refresh that got no tokens does to its tab.
RefreshFails(f) ==
    LET t == flight[f].tab
    IN  /\ SignOut(t, {s \in Slots : req[t][s].on = f})
        /\ refreshing' = [refreshing EXCEPT ![t] = 0]
        /\ flight' = [flight EXCEPT ![f] = NoFlight]
        /\ UNCHANGED <<serverVars, expired, delivered, login, change, requests,
                       changes, crossed, staleBackfill>>

RefreshRefused(f) ==
    /\ flight[f].pc = "answered" /\ flight[f].new = 0
    /\ RefreshFails(f) /\ UNCHANGED <<events, faults>>

\* The call does not reach the server, or its answer does not come back.
RefreshLost(f) ==
    /\ Fault
    /\ \/ flight[f].pc = "sent"
       \/ flight[f].pc = "answered" /\ flight[f].new # 0
    /\ RefreshFails(f)

\* A request is lost, or answered by an error other than 401.
RequestFails(t, s) ==
    /\ Fault
    /\ req[t][s].pc = "sent"
    /\ req' = [req EXCEPT ![t][s] = NoRequest]
    /\ UNCHANGED <<serverVars, expired, local, page, refreshing, delivered, flight, login,
                   change, requests, changes, crossed, staleBackfill>>

----
(* POST /auth/login *)

\* The login form is submitted in a tab, or the user signs in elsewhere.
Submit(c, p) ==
    /\ Happens
    /\ c \in Tabs => page[c] = "login"
    /\ login[c].pc = "idle"
    /\ login' = [login EXCEPT ![c] = [NoLogin EXCEPT !.pc = "sent", !.pwd = p]]
    /\ crossed' = (\/ crossed
                   \/ /\ c \in Tabs
                      /\ \/ OtherGrants(c)
                         \/ \E f \in Flights : flight[f].pc # "free")
    /\ UNCHANGED <<serverVars, expired, browserVars, flight, change, requests, changes,
                   faults, staleBackfill>>

\* verifyLogin reads an active account and compares the password.
LoginFind(c) ==
    /\ login[c].pc = "sent"
    /\ login' = IF account.active /\ account.hash = login[c].pwd
                THEN [login EXCEPT ![c].pc = "found", ![c].backfill = (account.enc = NoPwd),
                                   ![c].epoch = changes]
                ELSE [login EXCEPT ![c].pc = "answered"]
    /\ UNCHANGED <<serverVars, expired, browserVars, flight, change, requests, events,
                   changes, faults, crossed, staleBackfill>>

\* An account without passwordEnc gets it: save() writes that field alone.
LoginBackfill(c) ==
    /\ login[c].pc = "found" /\ login[c].backfill
    /\ account' = [account EXCEPT !.enc = login[c].pwd]
    /\ login' = [login EXCEPT ![c].backfill = FALSE]
    /\ staleBackfill' = (staleBackfill \/ login[c].epoch # changes)
    /\ UNCHANGED <<issued, expired, browserVars, flight, change, requests, events,
                   changes, faults, fresh, raced, crossed, spent, twice, shared>>

\* The tokens are signed and the refresh token is stored.
LoginStore(c) ==
    LET n == issued + 1
        overtaken == login[c].epoch # changes
    IN  /\ login[c].pc = "found" /\ ~login[c].backfill
        /\ issued' = n /\ account' = [account EXCEPT !.refresh = n]
        /\ login' = [login EXCEPT ![c].pc = "answered", ![c].new = n]
        /\ fresh' = IF overtaken THEN fresh ELSE fresh \cup {n}
        /\ raced' = IF overtaken THEN raced \cup {n} ELSE raced
        /\ UNCHANGED <<expired, browserVars, flight, change, requests, events, changes,
                       faults, crossed, spent, twice, shared, staleBackfill>>

\* The audit record is written and the answer arrives: the tab stores the
\* tokens and goes to the dashboard, or shows the error.
LoginDone(c) ==
    /\ login[c].pc = "answered"
    /\ login' = [login EXCEPT ![c] = NoLogin]
    /\ IF c \in Tabs /\ login[c].new # 0
       THEN /\ local' = login[c].new /\ delivered' = delivered \cup {login[c].new}
            /\ page' = [page EXCEPT ![c] = "app"]
       ELSE UNCHANGED <<local, delivered, page>>
    /\ UNCHANGED <<serverVars, expired, req, refreshing, flight, change, requests, events,
                   changes, faults, crossed, staleBackfill>>

\* A database call fails, the audit record's insert included, or the answer
\* is lost: the client sees an error.
LoginFails(c) ==
    /\ Fault
    /\ login[c].pc # "idle"
    /\ login' = [login EXCEPT ![c] = NoLogin]
    /\ UNCHANGED <<serverVars, expired, browserVars, flight, change, requests,
                   changes, crossed, staleBackfill>>

----
(* Changes of the account, from other devices *)

Closing == Happens /\ changes' = changes + 1 /\ fresh' = {}

\* changeOwnPassword reads the document and verifies the current password.
ChangeFind ==
    /\ change = "none" /\ account.active /\ events < MaxEvents
    /\ change' = IF account.refresh = 0 THEN "nothing to clear" ELSE "to clear"
    /\ UNCHANGED <<serverVars, expired, browserVars, flight, login, requests, events,
                   changes, faults, crossed, staleBackfill>>

\* Variant for PairAgrees: the recoverable copy is forgotten.
NewPasswordHashOnly(p) == [account EXCEPT !.hash = p]

\* Hash and recoverable copy of the new password.
NewPassword(p) == [account EXCEPT !.hash = p, !.enc = p]

\* It saves what it set on the document it had read: refreshTokenHash only
\* when that was not null already.
ChangeSave(p) ==
    /\ change # "none" /\ change' = "none" /\ Closing
    /\ account' = IF change = "to clear"
                  THEN [NewPassword(p) EXCEPT !.refresh = 0] ELSE NewPassword(p)
    /\ raced' = IF change = "to clear" THEN raced ELSE raced \cup ({account.refresh} \ {0})
    /\ UNCHANGED <<issued, expired, browserVars, flight, login, requests, faults,
                   crossed, spent, twice, shared, staleBackfill>>

\* Variant for ClosedStaysClosed: a reset leaves the refresh token.
ResetKeepsToken(p) ==
    /\ Closing /\ account' = NewPassword(p)
    /\ UNCHANGED <<issued, expired, browserVars, flight, login, change, requests,
                   faults, raced, crossed, spent, twice, shared, staleBackfill>>

\* An administrator resets the password: one update, of any account.
Reset(p) ==
    /\ Closing
    /\ account' = [NewPassword(p) EXCEPT !.refresh = 0]
    /\ UNCHANGED <<issued, expired, browserVars, flight, login, change, requests,
                   faults, raced, crossed, spent, twice, shared, staleBackfill>>

\* An administrator deletes the account, which is kept but inactive.
Delete ==
    /\ Closing
    /\ account' = [account EXCEPT !.active = FALSE, !.refresh = 0]
    /\ UNCHANGED <<issued, expired, browserVars, flight, login, change, requests,
                   faults, raced, crossed, spent, twice, shared, staleBackfill>>

\* An administrator sets isActive; the refresh token stays.
SetActive(b) ==
    /\ Happens /\ changes' = changes + 1 /\ account.active # b
    /\ account' = [account EXCEPT !.active = b]
    /\ UNCHANGED <<issued, expired, browserVars, flight, login, change, requests,
                   faults, fresh, raced, crossed, spent, twice, shared, staleBackfill>>

----
Server(f) == RefreshMatch(f) \/ RefreshStore(f)
Answer(t, s) ==
    \/ Served(t, s) \/ RefusedAgain(t, s) \/ JoinRefresh(t, s) \/ NothingToRefresh(t, s)
    \/ \E f \in Flights : StartRefresh(t, s, f)
RefreshEnds(f) == RefreshDone(f) \/ RefreshRefused(f)
Login(c) == LoginFind(c) \/ LoginBackfill(c) \/ LoginStore(c) \/ LoginDone(c)
Administer ==
    \/ ChangeFind \/ Delete \/ \E b \in BOOLEAN : SetActive(b)
    \/ \E p \in Passwords : ChangeSave(p) \/ Reset(p)

\* What happens by itself once a request, a refresh or a login is under way.
Progress ==
    \/ \E t \in Tabs, s \in Slots : Answer(t, s)
    \/ \E f \in Flights : Server(f) \/ RefreshEnds(f)
    \/ \E c \in Clients : Login(c)

Next ==
    \/ Progress
    \/ \E t \in Tabs, s \in Slots : Send(t, s) \/ Logout(t, s) \/ RequestFails(t, s)
    \/ \E f \in Flights : RefreshLost(f)
    \/ \E c \in Clients : LoginFails(c) \/ \E p \in Passwords : Submit(c, p)
    \/ \E n \in 1..issued : Expire(n)
    \/ Administer

Spec == Init /\ [][Next]_vars

\* The network answers or fails, and the handlers and callbacks that can run
\* do: event loops leave none of them out for ever.
FairSpec == Spec /\ WF_vars(Progress)

----
Tokens == 0..issued

RequestStates == [pc : {"idle", "sent", "waiting"}, kind : Kinds, token : Tokens,
                  retried : BOOLEAN, on : Flights \cup {0}]
FlightStates == [pc : {"free", "sent", "matched", "answered"}, tab : Tabs, token : Tokens,
                 new : Tokens, epoch : Nat]
LoginStates == [pc : {"idle", "sent", "found", "answered"}, pwd : Passwords \cup {NoPwd},
                backfill : BOOLEAN, new : Tokens, epoch : Nat]

AccountType ==
    /\ account \in [hash : Passwords, enc : Passwords \cup {NoPwd}, active : BOOLEAN,
                    refresh : Tokens]
    /\ issued \in Nat
BrowserType ==
    /\ local \in Tokens
    /\ page \in [Tabs -> {"app", "login"}]
    /\ refreshing \in [Tabs -> Flights \cup {0}]
RequestsType == req \in [Tabs -> [Slots -> RequestStates]]
CallsType ==
    /\ flight \in [Flights -> FlightStates]
    /\ login \in [Clients -> LoginStates]
    /\ change \in {"none", "to clear", "nothing to clear"}
CountersType == requests \in Nat /\ events \in Nat /\ changes \in Nat /\ faults \in Nat
HistoryType ==
    /\ expired \subseteq Tokens /\ delivered \subseteq Tokens
    /\ fresh \subseteq Tokens /\ raced \subseteq Tokens
    /\ spent \subseteq Tokens /\ twice \subseteq Tokens /\ shared \subseteq Tokens
    /\ crossed \in BOOLEAN /\ staleBackfill \in BOOLEAN

TypeOK == AccountType /\ BrowserType /\ RequestsType /\ CallsType /\ CountersType /\ HistoryType

\* No grant of this browser is under way.
Quiet == /\ \A f \in Flights : flight[f].pc = "free"
         /\ \A t \in Tabs : login[t].pc = "idle"

\* Between grants the browser holds the tokens of the account, as long as
\* those are its own: only two grants of different tabs (or of a login and a
\* refresh) that crossed can leave it with an older pair than the one it had
\* been given last. It rests on the rotation in POST /auth/refresh and on the
\* shared promise in lib/api.ts.
InSync ==
    Quiet /\ local # 0 /\ account.refresh \in delivered /\ ~crossed
        => account.refresh = local

\* A refresh token is exchanged once, unless two refreshes compared it before
\* either of them stored its successor.
OneShot == twice \subseteq shared

\* After a change of password, a reset or a deletion no earlier session lives
\* on, unless a login or refresh had read the account before it.
ClosedStaysClosed == account.refresh \in {0} \cup fresh \cup raced

\* passwordHash and passwordEnc are of one password, unless a login filled in
\* passwordEnc after a change it did not see.
PairAgrees == staleBackfill \/ account.enc \in {NoPwd, account.hash}

\* Every request ends: it waits for one refresh at most and is sent again at
\* most once. Tabs make finitely many requests here, so that all end means
\* that there are times, again and again, at which none is under way.
RequestsEnd == []<>(\A t \in Tabs, s \in Slots : req[t][s].pc = "idle")

\* README.md:142 of POST /auth/logout: it revokes the active refresh token.
\* Once the user has signed out everywhere, nothing failed and nothing is
\* under way, the account has no token left that the browser was given.
LogoutRevokes ==
    (/\ local = 0 /\ Quiet /\ faults = 0
     /\ \A t \in Tabs, s \in Slots : req[t][s].pc = "idle")
        => account.refresh \notin delivered

----
(***************************************************************************)
(* The inductive invariant behind InSync, OneShot, ClosedStaysClosed and   *)
(* PairAgrees.                                                             *)
(***************************************************************************)

\* A refresh that is under way sends a token; nothing is granted to a refresh
\* or a login that is not under way.
FlightsCarryTokens ==
    /\ \A f \in Flights : IF flight[f].pc = "free" THEN flight[f].new = 0
                                                 ELSE flight[f].token # 0
    /\ \A c \in Clients : login[c].pc = "idle" => login[c].new = 0

EpochsArePast == /\ \A f \in Flights : flight[f].epoch <= changes
                 /\ \A c \in Clients : login[c].epoch <= changes

\* Every pair that is issued is stored: the account has the last one or none.
LastIsStored == account.refresh \in {0, issued}

\* A tab has one refresh under way, the one its requests wait for.
OneRefreshPerTab ==
    \A f \in Flights : flight[f].pc # "free" => refreshing[flight[f].tab] = f

\* Two grants of this browser that are under way at once have crossed.
GrantsCross ==
    ~crossed =>
        /\ \A f, g \in Flights : flight[f].pc # "free" /\ flight[g].pc # "free" => f = g
        /\ \A f \in Flights, t \in Tabs : flight[f].pc # "free" => login[t].pc = "idle"
        /\ \A t, u \in Tabs : login[t].pc # "idle" /\ login[u].pc # "idle" => t = u

\* Otherwise what is granted is later than all the browser has been given.
GrantsAreLater ==
    /\ 0 \notin delivered
    /\ ~crossed =>
        \A d \in delivered :
            /\ local # 0 => d <= local
            /\ \A f \in Flights : flight[f].new # 0 => d <= flight[f].new
            /\ \A t \in Tabs : login[t].new # 0 => d <= login[t].new

\* A refresh that no change has overtaken exchanges a token that is open.
MatchedIsOpen ==
    \A f \in Flights :
        flight[f].pc = "matched" /\ flight[f].epoch = changes => flight[f].token \in fresh \cup raced

\* The token stored has not been exchanged; one that has, and that a refresh
\* still holds, is shared.
SpentIsShared ==
    /\ 0 \notin spent /\ account.refresh \notin spent
    /\ \A f \in Flights :
          flight[f].pc = "matched" /\ flight[f].token \in spent => flight[f].token \in shared
    /\ \A f, g \in Flights :
          /\ f # g /\ flight[f].pc = "matched" /\ flight[g].pc = "matched"
          /\ flight[f].token = flight[g].token
          => flight[f].token \in shared

\* The password a login has verified is the account's until a change.
FoundIsCurrent ==
    \A c \in Clients :
        login[c].pc = "found" /\ login[c].epoch = changes => account.hash = login[c].pwd

IInv ==
    /\ TypeOK /\ FlightsCarryTokens /\ EpochsArePast
    /\ LastIsStored /\ OneRefreshPerTab /\ GrantsCross /\ GrantsAreLater
    /\ MatchedIsOpen /\ SpentIsShared /\ FoundIsCurrent
    /\ OneShot /\ ClosedStaysClosed /\ PairAgrees
=============================================================================
