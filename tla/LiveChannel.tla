---------------------------- MODULE LiveChannel ----------------------------
(***************************************************************************)
(* The live events of one user, from the hub of each API replica          *)
(* (services/ws.service.ts, the gateway in index.ts) to the components of *)
(* one browser tab that share a socket (lib/socket.ts), while an          *)
(* administrator changes what the user may see (PATCH and DELETE          *)
(* /users/:id), connections break and access tokens run out.              *)
(***************************************************************************)
EXTENDS Naturals, FiniteSets

CONSTANTS
    Replicas,     \* API processes, each with a hub in its memory
    Bins,
    Hooks,        \* components that call useLiveSocket with the same topics
    Sockets,      \* connections at a time, numbered from 1
    Edits,        \* requests of administrators at a time, numbered
    MaxMounts,
    MaxEvents     \* edits, messages, token changes and dropped connections

ASSUME SocketsAssumption ==
    /\ Sockets \subseteq Nat \ {0} /\ IsFiniteSet(Sockets)
    /\ Replicas # {} /\ MaxMounts \in Nat /\ MaxEvents \in Nat

All == "*"

VARIABLES
    user,         \* role in the token, and the document: isActive, assignedDustbins
    token,        \* the access token in localStorage: "none", "valid" or "expired"
    mounted,      \* the hooks that listen: listeners of the pool's entry
    ws,           \* the entry's current socket, 0 for none or one that has closed
    timers,       \* reconnect timers of the entry that are pending
    known,        \* reconnectTimer, the last one set, is among them
    oldTimers,    \* pending timers of entries that were dropped
    sock,         \* the connections, see Closed
    dead,         \* subscribers left in a hub after their connection was over
    edit,         \* the administrators' requests
    mounts, events,
    \* History:
    lateAdds,     \* subscribers added when nothing would tell of their end
    behind,       \* connections whose scope an edit did not reach in time
    doubled,      \* a component connected while a reconnect timer was pending
    tokenless     \* connect() found no token, and nothing has connected since

vars == <<user, token, mounted, ws, timers, known, oldTimers, sock, dead, edit, mounts, events,
          lateAdds, behind, doubled, tokenless>>
serverVars == <<user, dead, edit, lateAdds>>
entryVars == <<mounted, ws, timers, known, oldTimers>>
boundVars == <<mounts, events>>
historyVars == <<behind, doubled, tokenless>>

\* A connection: what the browser sees (c), whether it is of the pool's present
\* entry (own), whether it is up, how far the gateway is (g), whether the
\* server has seen its end (seen), the replica, the token it was opened with;
\* and of its subscriber whether it is in the hub, its topics and scope
\* (allowedDustbins), and whether it was added without a listener for the end.
Closed == [c |-> "closed", own |-> FALSE, up |-> FALSE, g |-> "none", seen |-> TRUE,
           replica |-> CHOOSE r \in Replicas : TRUE, valid |-> FALSE,
           hub |-> FALSE, topics |-> {All}, scope |-> {}]

NoEdit == [pc |-> "none", replica |-> CHOOSE r \in Replicas : TRUE, scope |-> {}, close |-> FALSE]

Init ==
    /\ \E role \in {"user", "admin"}, a \in SUBSET Bins :
           user = [role |-> role, active |-> TRUE, assigned |-> a]
    /\ token = "valid"
    /\ mounted = {} /\ ws = 0 /\ timers = 0 /\ known = FALSE /\ oldTimers = 0
    /\ sock = [s \in Sockets |-> Closed]
    /\ dead = 0 /\ lateAdds = 0
    /\ edit = [e \in Edits |-> NoEdit]
    /\ mounts = 0 /\ events = 0
    /\ behind = {} /\ doubled = FALSE /\ tokenless = FALSE

----
Event == events < MaxEvents /\ events' = events + 1

(* lib/socket.ts *)

Free(s) == sock[s] = Closed

\* A connection that is over for both sides is forgotten; a subscriber that
\* stays in the hub is counted.
Over(k) == k.c = "closed" /\ k.seen /\ k.g = "none"
Becomes(s, k) ==
    /\ sock' = [sock EXCEPT ![s] = IF Over(k) THEN Closed ELSE k]
    /\ dead' = IF Over(k) /\ k.hub THEN dead + 1 ELSE dead

\* connect(): reads the token again, and does nothing without one. The new
\* socket becomes the entry's, if the entry is the pool's.
Connect(own) ==
    IF token = "none"
    THEN UNCHANGED <<sock, ws, behind>> /\ tokenless' = (tokenless \/ own)
    ELSE \E s \in Sockets :
            /\ Free(s) /\ \A u \in Sockets : Free(u) => s <= u
            /\ sock' = [sock EXCEPT ![s] = [Closed EXCEPT !.c = "connecting", !.own = own,
                                               !.up = TRUE, !.seen = FALSE,
                                               !.valid = (token = "valid")]]
            /\ ws' = IF own THEN s ELSE ws
            /\ behind' = behind \ {s}
            /\ tokenless' = IF own THEN FALSE ELSE tokenless

\* Variant for Undoubled: a mount connects whatever the entry's socket is.
MustConnectAlways == TRUE

\* The entry has no socket, or one that is closed.
MustConnect == ws = 0

\* A component mounts: it listens, and connects when nobody has.
Mount(h) ==
    /\ mounts < MaxMounts /\ mounts' = mounts + 1
    /\ h \notin mounted /\ mounted' = mounted \cup {h}
    /\ IF MustConnect
       THEN Connect(TRUE) /\ doubled' = (doubled \/ timers > 0)
       ELSE UNCHANGED <<sock, ws, doubled, behind, tokenless>>
    /\ UNCHANGED <<serverVars, token, timers, known, oldTimers, events>>

\* The last one to unmount drops the entry: the timer it knows of is cleared
\* and its current socket closed. Other sockets of the entry stay.
Unmount(h) ==
    /\ h \in mounted /\ mounted' = mounted \ {h}
    /\ IF mounted' = {}
       THEN /\ oldTimers' = oldTimers + timers - (IF known THEN 1 ELSE 0)
            /\ timers' = 0 /\ known' = FALSE /\ ws' = 0
            /\ sock' = [s \in Sockets |->
                           [sock[s] EXCEPT !.own = FALSE, !.up = @ /\ s # ws]]
            /\ doubled' = FALSE /\ tokenless' = FALSE
       ELSE UNCHANGED <<oldTimers, timers, known, ws, sock, doubled, tokenless>>
    /\ UNCHANGED <<serverVars, token, boundVars, behind>>

\* A reconnect timer fires, of the entry or of one that was dropped.
Reconnect ==
    /\ timers > 0 /\ timers' = timers - 1
    /\ known' \in {k \in BOOLEAN : k => known /\ timers > 1}
    /\ Connect(TRUE)
    /\ UNCHANGED <<serverVars, token, mounted, oldTimers, boundVars, doubled>>

ReconnectOld ==
    /\ oldTimers > 0 /\ oldTimers' = oldTimers - 1
    /\ Connect(FALSE)
    /\ UNCHANGED <<serverVars, token, mounted, timers, known, boundVars, doubled>>

\* onopen.
Opened(s) ==
    /\ sock[s].c = "connecting" /\ sock[s].up /\ sock[s].g # "none"
    /\ sock' = [sock EXCEPT ![s].c = "open"]
    /\ UNCHANGED <<serverVars, token, entryVars, boundVars, historyVars>>

\* Variant for StaysInTouch: no timer once a second listener has come.
RetriesOneListener(s) == sock[s].own /\ Cardinality(mounted) = 1

\* The entry is in use.
Retries(s) == sock[s].own /\ mounted # {}

\* onclose: the browser learns that the connection is gone, and sets the timer
\* to connect again while anyone listens.
OnClose(s) ==
    /\ sock[s].c # "closed" /\ ~sock[s].up
    /\ Becomes(s, [sock[s] EXCEPT !.c = "closed", !.own = FALSE])
    /\ ws' = IF ws = s THEN 0 ELSE ws
    /\ timers' = IF Retries(s) THEN timers + 1 ELSE timers
    /\ known' = (known \/ Retries(s))
    /\ UNCHANGED <<user, token, mounted, oldTimers, edit, lateAdds, boundVars, historyVars>>

----
(* The gateway and the hub of a replica *)

\* Answers of the gateway that end the connection at once.
Refuse(s) == Becomes(s, [sock[s] EXCEPT !.up = FALSE, !.g = "none"]) /\ UNCHANGED lateAdds

\* wsHub.add. A token that ran out meanwhile closes the socket, and returns
\* before anything listens for its end; after the end nothing listens either.
AddTo(s, r, scope) ==
    LET k == sock[s]
        late == ~k.valid \/ k.seen
    IN  /\ Becomes(s, [k EXCEPT !.g = IF late THEN "none" ELSE "live", !.up = @ /\ k.valid,
                                !.replica = r, !.hub = TRUE, !.scope = scope])
        /\ lateAdds' = IF late THEN lateAdds + 1 ELSE lateAdds

\* The connection reaches replica r: the token is verified, and for an
\* administrator the subscriber is added in the same step.
Accept(s, r) ==
    /\ sock[s].c = "connecting" /\ sock[s].g = "none" /\ sock[s].up
    /\ IF ~sock[s].valid THEN Refuse(s)
       ELSE IF user.role = "admin" THEN AddTo(s, r, {})
       ELSE /\ sock' = [sock EXCEPT ![s].g = "lookup", ![s].replica = r]
            /\ UNCHANGED <<dead, lateAdds>>
    /\ UNCHANGED <<user, token, entryVars, edit, boundVars, historyVars>>

\* The user's document is read: a deactivated user is refused.
Lookup(s) ==
    /\ sock[s].g = "lookup"
    /\ IF ~user.active THEN Refuse(s)
       ELSE /\ sock' = [sock EXCEPT ![s].g = "found", ![s].scope = user.assigned]
            /\ UNCHANGED <<dead, lateAdds>>
    /\ UNCHANGED <<user, token, entryVars, edit, boundVars, historyVars>>

\* What was read arrives in the handler.
Add(s) ==
    /\ sock[s].g = "found"
    /\ AddTo(s, sock[s].replica, sock[s].scope)
    /\ UNCHANGED <<user, token, entryVars, edit, boundVars, historyVars>>

\* Variant for HubForgets: the second handler of 'close' replaces the first.
RemoveNothing(k) == [k EXCEPT !.seen = TRUE, !.g = IF @ = "live" THEN "none" ELSE @]

\* What the handler of 'close' does, once it is there.
Remove(k) ==
    [k EXCEPT !.seen = TRUE, !.hub = @ /\ k.g # "live", !.g = IF @ = "live" THEN "none" ELSE @]

\* The server learns that the connection is gone.
ServerSees(s) ==
    /\ ~sock[s].up /\ ~sock[s].seen
    /\ Becomes(s, Remove(sock[s]))
    /\ UNCHANGED <<user, token, entryVars, edit, lateAdds, boundVars, historyVars>>

\* The timer of the token's expiry closes the socket.
ExpiryCloses(s) ==
    /\ sock[s].g = "live" /\ ~sock[s].valid /\ sock[s].up
    /\ sock' = [sock EXCEPT ![s].up = FALSE]
    /\ UNCHANGED <<serverVars, token, entryVars, boundVars, historyVars>>

\* A message of the client: it subscribes to a bin or leaves all topics, or
\* breaks the limit of size or rate and is closed.
Message(s) ==
    /\ Event
    /\ sock[s].c = "open" /\ sock[s].up /\ sock[s].g = "live"
    /\ \/ \E b \in Bins : sock' = [sock EXCEPT ![s].topics = @ \cup {b}]
       \/ sock' = [sock EXCEPT ![s].topics = @ \ {All}]
       \/ sock' = [sock EXCEPT ![s].up = FALSE]
    /\ UNCHANGED <<serverVars, token, entryVars, mounts, historyVars>>

\* broadcast(): who is sent an event of bin b. Topic patterns first, then the
\* scope for all but administrators.
MatchesTopic(s, b) == All \in sock[s].topics \/ b \in sock[s].topics
IsAuthorized(s, b) == user.role = "admin" \/ b \in sock[s].scope
Receives(s, b) == sock[s].hub /\ sock[s].up /\ MatchesTopic(s, b) /\ IsAuthorized(s, b)

----
(* PATCH and DELETE /users/:id *)

OnReplica(r) == {s \in Sockets : sock[s].hub /\ sock[s].replica = r}

\* The document is updated; a gateway that has read it, or a subscriber of
\* another replica, will not be reached.
Apply(e, r, u, scope, close) ==
    /\ Event
    /\ edit[e].pc = "none" /\ \A d \in Edits : edit[d].pc = "none" => e <= d
    /\ user' = u
    /\ edit' = [edit EXCEPT ![e] = [pc |-> "refresh", replica |-> r, scope |-> scope,
                                    close |-> close]]
    /\ behind' = behind \cup {s \in Sockets : \/ sock[s].g = "found"
                                              \/ sock[s].hub /\ sock[s].replica # r}
    /\ UNCHANGED <<token, entryVars, sock, dead, lateAdds, mounts, doubled, tokenless>>

Assign(e, r) ==
    \E a \in SUBSET Bins : Apply(e, r, [user EXCEPT !.assigned = a], a, FALSE)

\* isActive is set to FALSE, by PATCH or DELETE.
Deactivate(e, r) == Apply(e, r, [user EXCEPT !.active = FALSE], {}, TRUE)

\* isActive is set to TRUE: nothing is refreshed.
Activate ==
    /\ Event
    /\ ~user.active /\ user' = [user EXCEPT !.active = TRUE]
    /\ behind' = behind \cup {s \in Sockets : sock[s].hub}
    /\ UNCHANGED <<token, entryVars, sock, dead, lateAdds, edit, mounts, doubled, tokenless>>

\* What the user may see by the document.
Expected == IF user.active THEN user.assigned ELSE {}

\* Variant for ScopeIsCurrent: closes, but leaves the scope as it is.
NewScopeKept(k, e) == k.scope

\* refreshAssignment.
NewScope(k, e) == edit[e].scope

\* Once the update has answered: the subscribers of this replica get the new
\* scope, and closeUserSessions closes them after a deactivation.
Refresh(e) ==
    LET r == edit[e].replica
    IN  /\ edit[e].pc = "refresh"
        /\ sock' = [s \in Sockets |->
                      IF s \in OnReplica(r)
                      THEN [sock[s] EXCEPT !.scope = NewScope(sock[s], e), !.up = @ /\ ~edit[e].close]
                      ELSE sock[s]]
        /\ edit' = [edit EXCEPT ![e] = NoEdit]
        /\ behind' = IF edit[e].scope = Expected THEN behind \ OnReplica(r)
                     ELSE behind \cup OnReplica(r)
        /\ UNCHANGED <<user, token, dead, lateAdds, entryVars, boundVars, doubled, tokenless>>

----
\* The access token runs out; every open connection has it or an older one.
TokenExpires ==
    /\ Event /\ token = "valid" /\ token' = "expired"
    /\ sock' = [s \in Sockets |-> [sock[s] EXCEPT !.valid = FALSE]]
    /\ UNCHANGED <<serverVars, entryVars, mounts, historyVars>>

\* A request of the tab refreshes the tokens, or another tab signs out.
TokenChanges(t) ==
    /\ Event /\ t # token /\ t # "expired" /\ token' = t
    /\ UNCHANGED <<serverVars, entryVars, sock, mounts, historyVars>>

\* The network or a proxy drops a connection.
Drop(s) ==
    /\ Event /\ sock[s].up
    /\ sock' = [sock EXCEPT ![s].up = FALSE]
    /\ UNCHANGED <<serverVars, token, entryVars, mounts, historyVars>>

Next ==
    \/ Reconnect \/ ReconnectOld
    \/ \E s \in Sockets :
          \/ Opened(s) \/ OnClose(s) \/ Lookup(s) \/ Add(s) \/ ServerSees(s) \/ ExpiryCloses(s)
          \/ \E r \in Replicas : Accept(s, r)
    \/ \E e \in Edits : Refresh(e)
    \/ \E h \in Hooks : Mount(h) \/ Unmount(h)
    \/ \E s \in Sockets : Message(s) \/ Drop(s)
    \/ \E e \in Edits, r \in Replicas : Assign(e, r) \/ Deactivate(e, r)
    \/ Activate \/ TokenExpires \/ \E t \in {"none", "valid"} : TokenChanges(t)

Spec == Init /\ [][Next]_vars

----
Connections ==
    [c : {"connecting", "open", "closed"}, own : BOOLEAN, up : BOOLEAN,
     g : {"none", "lookup", "found", "live"}, seen : BOOLEAN, replica : Replicas,
     valid : BOOLEAN, hub : BOOLEAN, topics : SUBSET (Bins \cup {All}), scope : SUBSET Bins]
Requests == [pc : {"none", "refresh"}, replica : Replicas, scope : SUBSET Bins, close : BOOLEAN]

TypeOK ==
    /\ user \in [role : {"user", "admin"}, active : BOOLEAN, assigned : SUBSET Bins]
    /\ token \in {"none", "valid", "expired"}
    /\ mounted \subseteq Hooks /\ ws \in Sockets \cup {0}
    /\ timers \in Nat /\ oldTimers \in Nat /\ known \in BOOLEAN
    /\ sock \in [Sockets -> Connections] /\ edit \in [Edits -> Requests]
    /\ dead \in Nat /\ lateAdds \in Nat
    /\ mounts \in 0..MaxMounts /\ events \in 0..MaxEvents
    /\ behind \subseteq Sockets /\ doubled \in BOOLEAN /\ tokenless \in BOOLEAN
    /\ mounted = {} => ws = 0 /\ timers = 0
    /\ known => timers > 0

\* An open connection is sent the events of exactly those bins that the
\* document gives the user, as far as its topics go: other than while an edit
\* is between its update and its refresh, or when an edit did not reach the
\* connection (another replica; a gateway that had already read the document;
\* a later edit whose refresh came first).
ScopeIsCurrent ==
    \A s \in Sockets, b \in Bins :
        (/\ sock[s].hub /\ sock[s].up /\ MatchesTopic(s, b) /\ s \notin behind
         /\ \A e \in Edits : edit[e].pc # "none" => edit[e].replica # sock[s].replica)
            => (Receives(s, b) <=> user.role = "admin" \/ b \in Expected)

\* A subscriber stays in the hub after its connection only if it was added
\* when nothing listened for the end: its token ran out, or the connection
\* ended, during the look-up.
HubForgets == dead <= lateAdds

\* The components of a tab share one connection, and get each event once,
\* unless one of them mounted while the entry was waiting to reconnect.
Undoubled ==
    Cardinality({s \in Sockets : sock[s].own /\ sock[s].up}) <= 1 \/ doubled

\* While components listen, the tab has a connection or is about to try one,
\* whatever drops and in whatever order components come and go: unless it once
\* tried without a token, after which only a mount connects.
StaysInTouch == mounted # {} => ws # 0 \/ timers > 0 \/ tokenless

----
(***************************************************************************)
(* The inductive invariant behind the four properties.                     *)
(***************************************************************************)

\* A gateway that is still looking has no subscriber in the hub; one that has
\* returned leaves one only if the connection is over.
Consistent(k) ==
    /\ k.hub => k.g \in {"live", "none"}
    /\ k.hub /\ k.g = "none" => ~k.up
    /\ k.seen => ~k.up
GatewaySteps == \A s \in Sockets : Consistent(sock[s])

\* Subscribers that nothing will remove, of connections that are remembered.
Stuck == {s \in Sockets : sock[s].hub /\ sock[s].g # "live"}
StuckWereLate == dead + Cardinality(Stuck) <= lateAdds

\* The entry's socket is one of its own, and is not closed.
EntryHoldsSocket == ws # 0 => sock[ws].own /\ sock[ws].c # "closed"

\* Unless connections doubled, the entry has a socket or waits for one timer.
OneAtATime ==
    ~doubled => /\ \A s \in Sockets : sock[s].own => s = ws
                /\ ws # 0 => timers = 0
                /\ timers <= 1

\* What a gateway has read, and the scope of a subscriber that no edit is about
\* to change, are those of the document.
Follows(k) ==
    /\ k.g = "found" => user.active /\ k.scope = user.assigned
    /\ k.hub /\ (\A e \in Edits : edit[e].pc # "none" => edit[e].replica # k.replica)
           => k.scope = Expected
ScopesFollow == user.role # "admin" => \A s \in Sockets \ behind : Follows(sock[s])

IInv ==
    /\ TypeOK /\ GatewaySteps /\ StuckWereLate
    /\ EntryHoldsSocket /\ OneAtATime /\ StaysInTouch /\ ScopesFollow
=============================================================================
