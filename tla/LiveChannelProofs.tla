------------------------- MODULE LiveChannelProofs -------------------------
(***************************************************************************)
(* Proofs of the four properties of the live channel, for any number of    *)
(* replicas, bins, components, connections and requests.                   *)
(***************************************************************************)
EXTENDS LiveChannel, FiniteSetTheorems, TLAPS

LEMMA ClosedType == Closed \in Connections /\ NoEdit \in Requests
  <1>1. (CHOOSE r \in Replicas : TRUE) \in Replicas
    BY SocketsAssumption
  <1>2. QED
    BY <1>1 DEF Closed, NoEdit, Connections, Requests

\* The fields of a connection that is forgotten or not there yet.
LEMMA ClosedFields ==
    /\ Closed.c = "closed" /\ Closed.own = FALSE /\ Closed.up = FALSE /\ Closed.g = "none"
    /\ Closed.seen = TRUE /\ Closed.hub = FALSE /\ Consistent(Closed)
  BY DEF Closed, Consistent

\* A step that touches one connection.
LEMMA OneSocket ==
    ASSUME TypeOK, NEW s \in Sockets, NEW k \in Connections, sock' = [sock EXCEPT ![s] = k]
    PROVE  /\ sock' \in [Sockets -> Connections] /\ sock'[s] = k
           /\ \A u \in Sockets \ {s} : sock'[u] = sock[u]
  BY DEF TypeOK

\* What becomes of a connection, and of the count of subscribers left behind.
LEMMA BecomesEffect ==
    ASSUME TypeOK, NEW s \in Sockets, NEW k \in Connections, Becomes(s, k)
    PROVE  /\ sock' \in [Sockets -> Connections] /\ dead' \in Nat
           /\ \A u \in Sockets \ {s} : sock'[u] = sock[u]
           /\ Over(k) => /\ sock'[s] = Closed /\ k.c = "closed" /\ k.g = "none"
                         /\ dead' = IF k.hub THEN dead + 1 ELSE dead
           /\ ~Over(k) => sock'[s] = k /\ dead' = dead
  <1>1. CASE Over(k)
    <2>1. sock' = [sock EXCEPT ![s] = Closed]
      BY <1>1 DEF Becomes
    <2>2. dead' \in Nat /\ dead' = IF k.hub THEN dead + 1 ELSE dead
      BY <1>1 DEF Becomes, TypeOK
    <2>3. k.c = "closed" /\ k.g = "none"
      BY <1>1 DEF Over
    <2>4. QED
      BY <1>1, <2>1, <2>2, <2>3, OneSocket, ClosedType
  <1>2. CASE ~Over(k)
    <2>1. sock' = [sock EXCEPT ![s] = k] /\ dead' = dead
      BY <1>2 DEF Becomes
    <2>2. QED
      BY <1>2, <2>1, OneSocket DEF TypeOK
  <1>3. QED
    BY <1>1, <1>2

----
(* What a step leaves as it is *)

\* Of a connection k that a step turns into l: the pool keeps what it knows.
PoolKeeps(k, l) ==
    /\ l.own => k.own
    /\ k.c # "closed" => l.own = k.own /\ l.c # "closed"

\* A step in which the pool takes no part.
LEMMA EntryKept ==
    ASSUME TypeOK, EntryHoldsSocket, OneAtATime, StaysInTouch,
           UNCHANGED <<entryVars, doubled, tokenless>>,
           \A u \in Sockets : PoolKeeps(sock[u], sock'[u])
    PROVE  EntryHoldsSocket' /\ OneAtATime' /\ StaysInTouch'
  <1>1. EntryHoldsSocket'
    <2>1. ws' = ws /\ ws \in Sockets \cup {0}
      BY DEF TypeOK, entryVars
    <2>2. QED
      BY <2>1 DEF EntryHoldsSocket, PoolKeeps
  <1>2. OneAtATime'
    BY DEF OneAtATime, PoolKeeps, entryVars
  <1>3. StaysInTouch'
    BY DEF StaysInTouch, entryVars
  <1>4. QED
    BY <1>1, <1>2, <1>3

\* Nothing is read or added, and no scope changes.
ScopeKeeps(k, l) ==
    /\ l.g = "found" => k.g = "found" /\ l.scope = k.scope
    /\ l.hub => k.hub /\ l.scope = k.scope /\ l.replica = k.replica

\* A step in which no administrator takes part and no gateway reads.
LEMMA ScopesKept ==
    ASSUME ScopesFollow, UNCHANGED <<user, edit>>,
           \A u \in Sockets \ behind' :
              \/ u \notin behind /\ ScopeKeeps(sock[u], sock'[u])
              \/ sock'[u].g # "found" /\ ~sock'[u].hub
    PROVE  ScopesFollow'
  BY DEF ScopesFollow, Follows, ScopeKeeps, Expected

LEMMA StuckFinite == IsFiniteSet(Stuck) /\ Cardinality(Stuck) \in Nat
  <1>1. Stuck \subseteq Sockets
    BY DEF Stuck
  <1>2. QED
    BY <1>1, SocketsAssumption, FS_Subset, FS_CardinalityType

\* A step that takes no gateway further and changes no hub.
LEMMA StuckKept ==
    ASSUME TypeOK, GatewaySteps, StuckWereLate, dead' = dead, lateAdds' = lateAdds,
           \A u \in Sockets : sock'[u].hub = sock[u].hub /\ sock'[u].g = sock[u].g
                              /\ Consistent(sock'[u])
    PROVE  GatewaySteps' /\ StuckWereLate'
  <1>1. Stuck' = Stuck
    BY DEF Stuck
  <1>2. QED
    BY <1>1 DEF StuckWereLate, GatewaySteps

\* Whether connection s is stuck, as a number.
Count(k) == IF k.hub /\ k.g # "live" THEN 1 ELSE 0

\* A set and the same without one element.
LEMMA CountWithout ==
    ASSUME NEW S, IsFiniteSet(S), NEW x
    PROVE  /\ IsFiniteSet(S \ {x}) /\ Cardinality(S \ {x}) \in Nat
           /\ Cardinality(S) = Cardinality(S \ {x}) + IF x \in S THEN 1 ELSE 0
  <1>1. IsFiniteSet(S \ {x}) /\ Cardinality(S \ {x}) = IF x \in S THEN Cardinality(S) - 1
                                                         ELSE Cardinality(S)
    BY FS_RemoveElement
  <1>2. Cardinality(S) \in Nat /\ Cardinality(S \ {x}) \in Nat
    BY <1>1, FS_CardinalityType
  <1>3. QED
    BY <1>1, <1>2

\* A step that changes one connection: its balance decides.
LEMMA StuckAt ==
    ASSUME TypeOK, GatewaySteps, StuckWereLate, NEW s \in Sockets,
           \A u \in Sockets \ {s} : sock'[u] = sock[u],
           dead' \in Nat, lateAdds' \in Nat, Consistent(sock'[s]),
           dead' + Count(sock'[s]) + lateAdds <= dead + Count(sock[s]) + lateAdds'
    PROVE  GatewaySteps' /\ StuckWereLate'
  <1>1. GatewaySteps'
    BY DEF GatewaySteps
  <1>2. Stuck' \ {s} = Stuck \ {s}
    BY DEF Stuck
  <1>3. IsFiniteSet(Stuck) /\ IsFiniteSet(Stuck')
    <2>1. Stuck' \subseteq Sockets
      BY DEF Stuck
    <2>2. QED
      BY <2>1, StuckFinite, SocketsAssumption, FS_Subset
  <1>4. s \in Stuck <=> Count(sock[s]) = 1
    BY DEF Stuck, Count
  <1>5. s \in Stuck' <=> Count(sock'[s]) = 1
    BY DEF Stuck, Count
  <1>6. Count(sock[s]) \in {0, 1} /\ Count(sock'[s]) \in {0, 1}
    BY DEF Count
  <1> DEFINE n == Cardinality(Stuck \ {s})
  <1>7. n \in Nat /\ Cardinality(Stuck) = n + Count(sock[s])
    BY <1>3, <1>4, <1>6, CountWithout
  <1>8. Cardinality(Stuck') = n + Count(sock'[s])
    BY <1>2, <1>3, <1>5, <1>6, CountWithout
  <1>9. dead + n + Count(sock[s]) <= lateAdds
    <2>1. dead + Cardinality(Stuck) <= lateAdds
      BY DEF StuckWereLate
    <2>2. QED
      BY <2>1, <1>6, <1>7 DEF TypeOK
  <1>10. dead' + (n + Count(sock'[s])) <= lateAdds'
    <2> HIDE DEF n
    <2>1. dead \in Nat /\ lateAdds \in Nat
      BY DEF TypeOK
    <2>2. QED
      BY <2>1, <1>6, <1>7, <1>9
  <1>11. QED
    BY <1>1, <1>8, <1>10 DEF StuckWereLate

----
(* Steps that change one connection *)

LEMMA EventCounts == ASSUME TypeOK, Event PROVE events' \in 0 .. MaxEvents
  BY SocketsAssumption DEF TypeOK, Event

LEMMA OneConnection ==
    ASSUME IInv, NEW s \in Sockets,
           sock' \in [Sockets -> Connections], \A u \in Sockets \ {s} : sock'[u] = sock[u],
           dead' \in Nat, lateAdds' \in Nat,
           dead' + Count(sock'[s]) + lateAdds <= dead + Count(sock[s]) + lateAdds',
           Consistent(sock'[s]), PoolKeeps(sock[s], sock'[s]),
           user.role # "admin" /\ s \notin behind => Follows(sock'[s]),
           UNCHANGED <<user, edit, token, entryVars, mounts, historyVars>>,
           events' \in 0 .. MaxEvents
    PROVE  IInv'
  <1>1. TypeOK'
    BY DEF IInv, TypeOK, entryVars, historyVars
  <1>2. GatewaySteps' /\ StuckWereLate'
    BY StuckAt DEF IInv
  <1>3. \A u \in Sockets : PoolKeeps(sock[u], sock'[u])
    BY DEF PoolKeeps
  <1>4. EntryHoldsSocket' /\ OneAtATime' /\ StaysInTouch'
    BY <1>3, EntryKept DEF IInv, historyVars
  <1>5. ScopesFollow'
    BY DEF IInv, ScopesFollow, Follows, Expected, historyVars
  <1>6. QED
    BY <1>1, <1>2, <1>4, <1>5 DEF IInv

\* The same of a step that leaves the subscriber, and how far the gateway is.
LEMMA OnlyTheLink ==
    ASSUME IInv, NEW s \in Sockets, NEW k \in Connections, sock' = [sock EXCEPT ![s] = k],
           k.g = sock[s].g, k.hub = sock[s].hub, k.seen = sock[s].seen,
           k.scope = sock[s].scope, k.replica = sock[s].replica, k.own = sock[s].own,
           k.up => sock[s].up, sock[s].c # "closed" => k.c # "closed",
           UNCHANGED <<serverVars, token, entryVars, mounts, historyVars>>,
           events' \in 0 .. MaxEvents
    PROVE  IInv'
  <1>1. /\ sock' \in [Sockets -> Connections] /\ sock'[s] = k
        /\ \A u \in Sockets \ {s} : sock'[u] = sock[u]
    BY OneSocket DEF IInv
  <1>2. dead \in Nat /\ lateAdds \in Nat /\ Count(k) = Count(sock[s]) /\ Count(k) \in {0, 1}
    BY DEF IInv, TypeOK, Count
  <1>3. dead' + Count(sock'[s]) + lateAdds <= dead + Count(sock[s]) + lateAdds'
    BY <1>1, <1>2 DEF serverVars
  <1>4. Consistent(sock'[s])
    BY <1>1 DEF Consistent, IInv, GatewaySteps
  <1>5. PoolKeeps(sock[s], sock'[s])
    BY <1>1 DEF PoolKeeps
  <1>6. user.role # "admin" /\ s \notin behind => Follows(sock'[s])
    BY <1>1 DEF IInv, ScopesFollow, Follows
  <1>7. dead' \in Nat /\ lateAdds' \in Nat /\ UNCHANGED <<user, edit>>
    BY <1>2 DEF serverVars
  <1>8. QED
    BY <1>1, <1>3, <1>4, <1>5, <1>6, <1>7, OneConnection

LEMMA OpenedStep == ASSUME IInv, NEW s \in Sockets, Opened(s) PROVE IInv'
  <1> DEFINE k == [sock[s] EXCEPT !.c = "open"]
  <1>1. sock[s] \in Connections /\ events' \in 0 .. MaxEvents
    BY DEF IInv, TypeOK, Opened, boundVars
  <1>2. k \in Connections
    BY <1>1 DEF Connections
  <1>3. /\ k.g = sock[s].g /\ k.hub = sock[s].hub /\ k.seen = sock[s].seen
        /\ k.scope = sock[s].scope /\ k.replica = sock[s].replica /\ k.own = sock[s].own
        /\ k.up = sock[s].up /\ k.c = "open"
    BY <1>1 DEF Connections
  <1>4. sock' = [sock EXCEPT ![s] = k]
    BY <1>1 DEF Opened
  <1>5. UNCHANGED <<serverVars, token, entryVars, mounts, historyVars>>
    BY DEF Opened, boundVars
  <1> HIDE DEF k
  <1>6. QED
    BY <1>1, <1>2, <1>3, <1>4, <1>5, OnlyTheLink

\* The connection goes down: the expiry, a limit that is broken, the network.
LEMMA DownStep ==
    ASSUME IInv, NEW s \in Sockets, sock' = [sock EXCEPT ![s].up = FALSE],
           UNCHANGED <<serverVars, token, entryVars, mounts, historyVars>>,
           events' \in 0 .. MaxEvents
    PROVE  IInv'
  <1> DEFINE k == [sock[s] EXCEPT !.up = FALSE]
  <1>1. sock[s] \in Connections
    BY DEF IInv, TypeOK
  <1>2. k \in Connections
    BY <1>1 DEF Connections
  <1>3. /\ k.g = sock[s].g /\ k.hub = sock[s].hub /\ k.seen = sock[s].seen
        /\ k.scope = sock[s].scope /\ k.replica = sock[s].replica /\ k.own = sock[s].own
        /\ k.up = FALSE /\ k.c = sock[s].c
    BY <1>1 DEF Connections
  <1>4. sock' = [sock EXCEPT ![s] = k]
    OBVIOUS
  <1> HIDE DEF k
  <1>5. QED
    BY <1>2, <1>3, <1>4, OnlyTheLink

\* A client's message changes its topics, or takes the connection down.
LEMMA MessageStep == ASSUME IInv, NEW s \in Sockets, Message(s) PROVE IInv'
  <1>1. UNCHANGED <<serverVars, token, entryVars, mounts, historyVars>> /\ events' \in 0 .. MaxEvents
    <2>1. UNCHANGED <<serverVars, token, entryVars, mounts, historyVars>> /\ Event
      BY DEF Message
    <2>2. QED
      BY <2>1, EventCounts DEF IInv
  <1>2. ASSUME NEW T \in SUBSET (Bins \cup {All}), sock' = [sock EXCEPT ![s].topics = T]
        PROVE  IInv'
    <2> DEFINE k == [sock[s] EXCEPT !.topics = T]
    <2>1. sock[s] \in Connections
      BY DEF IInv, TypeOK
    <2>2. k \in Connections
      BY <2>1 DEF Connections
    <2>3. /\ k.g = sock[s].g /\ k.hub = sock[s].hub /\ k.seen = sock[s].seen
          /\ k.scope = sock[s].scope /\ k.replica = sock[s].replica /\ k.own = sock[s].own
          /\ k.up = sock[s].up /\ k.c = sock[s].c
      BY <2>1 DEF Connections
    <2>4. sock' = [sock EXCEPT ![s] = k]
      BY <1>2
    <2> HIDE DEF k
    <2>5. QED
      BY <1>1, <2>2, <2>3, <2>4, OnlyTheLink
  <1>3. sock[s].topics \in SUBSET (Bins \cup {All})
    BY DEF IInv, TypeOK, Connections
  <1>4. CASE \E b \in Bins : sock' = [sock EXCEPT ![s].topics = @ \cup {b}]
    <2>1. PICK b \in Bins : sock' = [sock EXCEPT ![s].topics = @ \cup {b}]
      BY <1>4
    <2>2. sock[s].topics \cup {b} \in SUBSET (Bins \cup {All})
      BY <1>3
    <2>3. sock' = [sock EXCEPT ![s].topics = sock[s].topics \cup {b}]
      BY <2>1
    <2>4. QED
      BY <1>2, <2>2, <2>3
  <1>5. CASE sock' = [sock EXCEPT ![s].topics = @ \ {All}]
    <2>1. sock[s].topics \ {All} \in SUBSET (Bins \cup {All})
      BY <1>3
    <2>2. sock' = [sock EXCEPT ![s].topics = sock[s].topics \ {All}]
      BY <1>5
    <2>3. QED
      BY <1>2, <2>1, <2>2
  <1>6. CASE sock' = [sock EXCEPT ![s].up = FALSE]
    BY <1>1, <1>6, DownStep
  <1>7. QED
    BY <1>4, <1>5, <1>6 DEF Message

LEMMA DropStep == ASSUME IInv, NEW s \in Sockets, Drop(s) PROVE IInv'
  <1>1. events' \in 0 .. MaxEvents
    BY EventCounts DEF Drop, IInv
  <1>2. QED
    BY <1>1, DownStep DEF Drop

LEMMA ExpiryStep == ASSUME IInv, NEW s \in Sockets, ExpiryCloses(s) PROVE IInv'
  <1>1. events' \in 0 .. MaxEvents /\ mounts' = mounts
    BY DEF ExpiryCloses, IInv, TypeOK, boundVars
  <1>2. QED
    BY <1>1, DownStep DEF ExpiryCloses

\* A gateway that ends a connection it has not added.
LEMMA RefuseStep ==
    ASSUME IInv, NEW s \in Sockets, sock[s].g \in {"none", "lookup"}, sock[s].up \/ sock[s].g = "lookup",
           Refuse(s), UNCHANGED <<user, token, entryVars, edit, boundVars, historyVars>>
    PROVE  IInv'
  <1> DEFINE k == [sock[s] EXCEPT !.up = FALSE, !.g = "none"]
  <1>1. sock[s] \in Connections /\ events' \in 0 .. MaxEvents /\ mounts' = mounts
    BY DEF IInv, TypeOK, boundVars
  <1>2. ~sock[s].hub
    BY DEF IInv, GatewaySteps, Consistent
  <1>3. k \in Connections /\ k.c = sock[s].c /\ k.own = sock[s].own /\ k.up = FALSE
        /\ k.g = "none" /\ ~k.hub
    BY <1>1, <1>2 DEF Connections
  <1>4. Becomes(s, k) /\ lateAdds' = lateAdds
    BY DEF Refuse
  <1> HIDE DEF k
  <1>5. /\ sock' \in [Sockets -> Connections] /\ dead' = dead
        /\ \A u \in Sockets \ {s} : sock'[u] = sock[u]
        /\ sock'[s] = k \/ (sock'[s] = Closed /\ k.c = "closed")
    BY <1>3, <1>4, BecomesEffect DEF IInv
  <1>6. /\ Count(sock'[s]) = 0 /\ Count(sock[s]) = 0 /\ Consistent(sock'[s])
        /\ sock'[s].g = "none" /\ ~sock'[s].hub
    BY <1>2, <1>3, <1>5, ClosedFields DEF Count, Consistent
  <1>7. PoolKeeps(sock[s], sock'[s])
    BY <1>3, <1>5, ClosedFields DEF PoolKeeps
  <1>8. dead \in Nat /\ lateAdds \in Nat
    BY DEF IInv, TypeOK
  <1>9. Follows(sock'[s])
    BY <1>6 DEF Follows
  <1>10. QED
    BY <1>1, <1>4, <1>5, <1>6, <1>7, <1>8, <1>9, OneConnection

\* The gateway adds a subscriber with a scope that is the document's.
LEMMA AddStep ==
    ASSUME IInv, NEW s \in Sockets, NEW r \in Replicas, NEW scope \in SUBSET Bins,
           ~sock[s].hub, user.role # "admin" /\ s \notin behind => scope = Expected,
           AddTo(s, r, scope),
           UNCHANGED <<user, token, entryVars, edit, boundVars, historyVars>>
    PROVE  IInv'
  <1> DEFINE late == ~sock[s].valid \/ sock[s].seen
             k == [sock[s] EXCEPT !.g = IF late THEN "none" ELSE "live", !.up = @ /\ sock[s].valid,
                                  !.replica = r, !.hub = TRUE, !.scope = scope]
  <1>1. sock[s] \in Connections /\ events' \in 0 .. MaxEvents /\ mounts' = mounts
    BY DEF IInv, TypeOK, boundVars
  <1>2. k \in Connections /\ k.c = sock[s].c /\ k.own = sock[s].own /\ k.hub = TRUE
        /\ k.up = (sock[s].up /\ sock[s].valid) /\ k.seen = sock[s].seen
        /\ k.g = (IF late THEN "none" ELSE "live") /\ k.scope = scope
    BY <1>1 DEF Connections
  <1>3. Becomes(s, k) /\ lateAdds' = IF late THEN lateAdds + 1 ELSE lateAdds
    BY DEF AddTo
  <1>4. sock[s].seen => ~sock[s].up
    BY DEF IInv, GatewaySteps, Consistent
  <1> HIDE DEF k
  <1>5. Consistent(k)
    BY <1>2, <1>4 DEF Consistent
  <1>6. /\ sock' \in [Sockets -> Connections] /\ dead' \in Nat
        /\ \A u \in Sockets \ {s} : sock'[u] = sock[u]
        /\ \/ sock'[s] = k /\ dead' = dead
           \/ sock'[s] = Closed /\ k.c = "closed" /\ dead' = dead + 1 /\ late
    BY <1>2, <1>3, BecomesEffect DEF IInv
  <1>7. Consistent(sock'[s]) /\ PoolKeeps(sock[s], sock'[s])
    BY <1>2, <1>5, <1>6, ClosedFields DEF PoolKeeps
  <1>8. dead \in Nat /\ lateAdds \in Nat /\ lateAdds' \in Nat
    BY <1>3 DEF IInv, TypeOK
  <1>9. Count(sock[s]) = 0 /\ Count(Closed) = 0 /\ Count(k) = IF late THEN 1 ELSE 0
    BY <1>2, ClosedFields DEF Count
  <1>10. dead' + Count(sock'[s]) + lateAdds <= dead + Count(sock[s]) + lateAdds'
    BY <1>3, <1>6, <1>8, <1>9
  <1>11. user.role # "admin" /\ s \notin behind => Follows(sock'[s])
    BY <1>2, <1>6, ClosedFields DEF Follows
  <1>12. QED
    BY <1>1, <1>6, <1>7, <1>8, <1>10, <1>11, OneConnection

\* The connection reaches a replica.
LEMMA AcceptStep ==
    ASSUME IInv, NEW s \in Sockets, NEW r \in Replicas, Accept(s, r)
    PROVE  IInv'
  <1>1. /\ sock[s].g = "none" /\ sock[s].up /\ ~sock[s].hub
        /\ UNCHANGED <<user, token, entryVars, edit, boundVars, historyVars>>
    BY DEF Accept, IInv, GatewaySteps, Consistent
  <1>2. CASE ~sock[s].valid
    <2>1. Refuse(s)
      BY <1>2 DEF Accept
    <2>2. QED
      BY <1>1, <2>1, RefuseStep
  <1>3. CASE sock[s].valid /\ user.role = "admin"
    <2>1. AddTo(s, r, {})
      BY <1>3 DEF Accept
    <2>2. QED
      BY <1>1, <1>3, <2>1, AddStep
  <1>4. CASE sock[s].valid /\ user.role # "admin"
    <2> DEFINE k == [sock[s] EXCEPT !.g = "lookup", !.replica = r]
    <2>1. sock[s] \in Connections /\ events' \in 0 .. MaxEvents /\ mounts' = mounts
      BY <1>1 DEF IInv, TypeOK, boundVars
    <2>2. sock' = [sock EXCEPT ![s].g = "lookup", ![s].replica = r]
          /\ dead' = dead /\ lateAdds' = lateAdds
      BY <1>4 DEF Accept
    <2>3. sock' = [sock EXCEPT ![s] = k]
      BY <2>1, <2>2 DEF IInv, TypeOK
    <2>4. k \in Connections /\ k.c = sock[s].c /\ k.own = sock[s].own /\ k.g = "lookup"
          /\ ~k.hub /\ k.up = sock[s].up /\ k.seen = sock[s].seen
      BY <1>1, <2>1 DEF Connections
    <2> HIDE DEF k
    <2>5. /\ sock' \in [Sockets -> Connections] /\ sock'[s] = k
          /\ \A u \in Sockets \ {s} : sock'[u] = sock[u]
      BY <2>3, <2>4, OneSocket DEF IInv
    <2>6. Count(k) = 0 /\ Count(sock[s]) = 0 /\ Follows(k) /\ PoolKeeps(sock[s], k)
      BY <1>1, <2>4 DEF Count, Follows, PoolKeeps
    <2>7. Consistent(k) /\ dead \in Nat /\ lateAdds \in Nat
      BY <1>1, <2>4 DEF Consistent, IInv, TypeOK, GatewaySteps
    <2>8. dead' + Count(sock'[s]) + lateAdds <= dead + Count(sock[s]) + lateAdds'
      BY <2>2, <2>5, <2>6, <2>7
    <2>9. QED
      BY <1>1, <2>1, <2>2, <2>5, <2>6, <2>7, <2>8, OneConnection
  <1>5. QED
    BY <1>2, <1>3, <1>4

LEMMA LookupStep == ASSUME IInv, NEW s \in Sockets, Lookup(s) PROVE IInv'
  <1>1. /\ sock[s].g = "lookup" /\ ~sock[s].hub
        /\ UNCHANGED <<user, token, entryVars, edit, boundVars, historyVars>>
    BY DEF Lookup, IInv, GatewaySteps, Consistent
  <1>2. CASE ~user.active
    <2>1. Refuse(s)
      BY <1>2 DEF Lookup
    <2>2. QED
      BY <1>1, <2>1, RefuseStep
  <1>3. CASE user.active
    <2> DEFINE k == [sock[s] EXCEPT !.g = "found", !.scope = user.assigned]
    <2>1. sock[s] \in Connections /\ events' \in 0 .. MaxEvents /\ mounts' = mounts
          /\ user.assigned \in SUBSET Bins
      BY <1>1 DEF IInv, TypeOK, boundVars
    <2>2. sock' = [sock EXCEPT ![s].g = "found", ![s].scope = user.assigned]
          /\ dead' = dead /\ lateAdds' = lateAdds
      BY <1>3 DEF Lookup
    <2>3. sock' = [sock EXCEPT ![s] = k]
      BY <2>1, <2>2 DEF IInv, TypeOK
    <2>4. k \in Connections /\ k.c = sock[s].c /\ k.own = sock[s].own /\ k.g = "found"
          /\ ~k.hub /\ k.up = sock[s].up /\ k.seen = sock[s].seen /\ k.scope = user.assigned
      BY <1>1, <2>1 DEF Connections
    <2> HIDE DEF k
    <2>5. /\ sock' \in [Sockets -> Connections] /\ sock'[s] = k
          /\ \A u \in Sockets \ {s} : sock'[u] = sock[u]
      BY <2>3, <2>4, OneSocket DEF IInv
    <2>6. Count(k) = 0 /\ Count(sock[s]) = 0 /\ Follows(k) /\ PoolKeeps(sock[s], k)
      BY <1>1, <1>3, <2>4 DEF Count, Follows, PoolKeeps
    <2>7. Consistent(k) /\ dead \in Nat /\ lateAdds \in Nat
      BY <1>1, <2>4 DEF Consistent, IInv, TypeOK, GatewaySteps
    <2>8. dead' + Count(sock'[s]) + lateAdds <= dead + Count(sock[s]) + lateAdds'
      BY <2>2, <2>5, <2>6, <2>7
    <2>9. QED
      BY <1>1, <2>1, <2>2, <2>5, <2>6, <2>7, <2>8, OneConnection
  <1>4. QED
    BY <1>2, <1>3

LEMMA AddedStep == ASSUME IInv, NEW s \in Sockets, Add(s) PROVE IInv'
  <1>1. sock[s].replica \in Replicas /\ sock[s].scope \in SUBSET Bins
    BY DEF IInv, TypeOK, Connections
  <1>2. sock[s].g = "found" /\ ~sock[s].hub
    BY DEF Add, IInv, GatewaySteps, Consistent
  <1>3. user.role # "admin" /\ s \notin behind => sock[s].scope = Expected
    BY <1>2 DEF IInv, ScopesFollow, Follows, Expected
  <1>4. QED
    BY <1>1, <1>2, <1>3, AddStep DEF Add

LEMMA SeesStep == ASSUME IInv, NEW s \in Sockets, ServerSees(s) PROVE IInv'
  <1> DEFINE k == Remove(sock[s])
  <1>1. sock[s] \in Connections /\ events' \in 0 .. MaxEvents /\ mounts' = mounts
        /\ UNCHANGED <<user, token, entryVars, edit, historyVars>>
    BY DEF IInv, TypeOK, boundVars, ServerSees
  <1>2. k \in Connections /\ k.c = sock[s].c /\ k.own = sock[s].own /\ k.up = sock[s].up
        /\ k.hub = (sock[s].hub /\ sock[s].g # "live") /\ k.scope = sock[s].scope
        /\ k.g = (IF sock[s].g = "live" THEN "none" ELSE sock[s].g) /\ k.replica = sock[s].replica
    BY <1>1 DEF Connections, Remove
  <1>3. Becomes(s, k) /\ lateAdds' = lateAdds /\ ~sock[s].up
    BY DEF ServerSees
  <1> HIDE DEF k
  <1>4. Consistent(sock[s]) /\ dead \in Nat /\ lateAdds \in Nat
    BY DEF IInv, GatewaySteps, TypeOK
  <1>5. Consistent(k) /\ (k.hub => k.g = "none" /\ sock[s].g = "none" /\ sock[s].hub)
    BY <1>2, <1>3, <1>4 DEF Consistent
  <1>6. /\ sock' \in [Sockets -> Connections] /\ dead' \in Nat
        /\ \A u \in Sockets \ {s} : sock'[u] = sock[u]
        /\ \/ sock'[s] = k /\ dead' = dead
           \/ sock'[s] = Closed /\ k.c = "closed" /\ dead' = IF k.hub THEN dead + 1 ELSE dead
    BY <1>2, <1>3, BecomesEffect DEF IInv
  <1>7. Consistent(sock'[s]) /\ PoolKeeps(sock[s], sock'[s])
    BY <1>2, <1>5, <1>6, ClosedFields DEF PoolKeeps
  <1>8. Count(Closed) = 0 /\ Count(k) = (IF k.hub THEN 1 ELSE 0)
        /\ (k.hub => Count(sock[s]) = 1) /\ Count(sock[s]) \in {0, 1}
    BY <1>5, ClosedFields DEF Count
  <1>9. dead' + Count(sock'[s]) + lateAdds <= dead + Count(sock[s]) + lateAdds'
    BY <1>3, <1>4, <1>6, <1>8
  <1>10. user.role # "admin" /\ s \notin behind => Follows(sock'[s])
    <2>1. user.role # "admin" /\ s \notin behind => Follows(sock[s])
      BY DEF IInv, ScopesFollow
    <2>2. Follows(sock[s]) => Follows(k)
      BY <1>2 DEF Follows
    <2>3. Follows(Closed)
      BY ClosedFields DEF Follows
    <2>4. QED
      BY <1>6, <2>1, <2>2, <2>3
  <1>11. QED
    BY <1>1, <1>3, <1>4, <1>6, <1>7, <1>9, <1>10, OneConnection

----
(* Steps of the pool *)

\* The browser learns that a connection is gone.
LEMMA OnCloseStep == ASSUME IInv, NEW s \in Sockets, OnClose(s) PROVE IInv'
  <1> DEFINE k == [sock[s] EXCEPT !.c = "closed", !.own = FALSE]
  <1>1. sock[s] \in Connections /\ ~sock[s].up /\ sock[s].c # "closed" /\ Becomes(s, k)
        /\ UNCHANGED <<user, token, mounted, oldTimers, edit, lateAdds, boundVars, historyVars>>
    BY DEF IInv, TypeOK, OnClose
  <1>2. k \in Connections /\ k.c = "closed" /\ k.own = FALSE /\ k.up = sock[s].up
        /\ k.hub = sock[s].hub /\ k.g = sock[s].g /\ k.seen = sock[s].seen
        /\ k.scope = sock[s].scope /\ k.replica = sock[s].replica
    BY <1>1 DEF Connections
  <1> HIDE DEF k
  <1>3. /\ sock' \in [Sockets -> Connections] /\ dead' \in Nat
        /\ \A u \in Sockets \ {s} : sock'[u] = sock[u]
        /\ \/ sock'[s] = k /\ dead' = dead
           \/ sock'[s] = Closed /\ k.g = "none" /\ dead' = IF k.hub THEN dead + 1 ELSE dead
    BY <1>1, <1>2, BecomesEffect DEF IInv
  <1>4. GatewaySteps' /\ StuckWereLate'
    <2>1. Consistent(sock[s]) /\ dead \in Nat /\ lateAdds \in Nat /\ lateAdds' = lateAdds
      BY <1>1 DEF IInv, GatewaySteps, TypeOK
    <2>2. Consistent(sock'[s])
      BY <1>2, <1>3, <2>1, ClosedFields DEF Consistent
    <2>3. Count(Closed) = 0 /\ Count(k) = Count(sock[s]) /\ Count(k) \in {0, 1}
          /\ (k.g = "none" => Count(k) = IF k.hub THEN 1 ELSE 0)
      BY <1>2, ClosedFields DEF Count
    <2>4. dead' + Count(sock'[s]) + lateAdds <= dead + Count(sock[s]) + lateAdds'
      BY <1>3, <2>1, <2>3
    <2>5. QED
      BY <1>3, <2>1, <2>2, <2>4, StuckAt DEF IInv
  <1>5. sock'[s].own = FALSE
    BY <1>2, <1>3, ClosedFields
  <1>6. ws' = (IF ws = s THEN 0 ELSE ws) /\ timers' = (IF Retries(s) THEN timers + 1 ELSE timers)
        /\ known' = (known \/ Retries(s))
    BY DEF OnClose
  <1>7. Retries(s) <=> sock[s].own /\ mounted # {}
    BY DEF Retries
  <1>8. ws = s => sock[s].own
    BY SocketsAssumption DEF IInv, EntryHoldsSocket
  <1>9. TypeOK'
    <2>1. timers' \in Nat /\ ws' \in Sockets \cup {0} /\ known' \in BOOLEAN
      BY <1>6 DEF IInv, TypeOK, Retries
    <2>2. (mounted' = {} => ws' = 0 /\ timers' = 0) /\ (known' => timers' > 0)
      BY <1>1, <1>6, <1>7 DEF IInv, TypeOK
    <2>3. QED
      BY <1>1, <1>3, <2>1, <2>2 DEF IInv, TypeOK, boundVars, historyVars
  <1>10. EntryHoldsSocket'
    <2>1. ws' # 0 => ws' = ws /\ ws' # s /\ ws' \in Sockets
      BY <1>6 DEF IInv, TypeOK
    <2>2. QED
      BY <1>3, <2>1 DEF IInv, EntryHoldsSocket
  <1>11. OneAtATime'
    <2> SUFFICES ASSUME ~doubled
                 PROVE  /\ \A u \in Sockets : sock'[u].own => u = ws'
                        /\ ws' # 0 => timers' = 0
                        /\ timers' <= 1
      BY <1>1 DEF OneAtATime, historyVars
    <2>1. /\ \A u \in Sockets : sock[u].own => u = ws
          /\ ws # 0 => timers = 0
          /\ timers <= 1
      BY DEF IInv, OneAtATime
    <2>2. \A u \in Sockets : sock'[u].own => u = ws'
      BY <1>3, <1>5, <1>6, <2>1
    <2>3. s # 0
      BY SocketsAssumption
    <2>4. CASE ws = s
      BY <1>6, <2>1, <2>2, <2>3, <2>4
    <2>5. CASE ws # s
      <3>1. ~Retries(s)
        BY <1>7, <2>1, <2>5
      <3>2. QED
        BY <1>6, <2>1, <2>2, <2>5, <3>1
    <2>6. QED
      BY <2>4, <2>5
  <1>12. StaysInTouch'
    <2>1. mounted' = mounted /\ tokenless' = tokenless /\ timers \in Nat
      BY <1>1 DEF IInv, TypeOK, historyVars
    <2>2. QED
      BY <1>6, <1>7, <1>8, <2>1 DEF IInv, StaysInTouch
  <1>13. ScopesFollow'
    <2>1. \A u \in Sockets : \/ ScopeKeeps(sock[u], sock'[u])
                             \/ sock'[u].g # "found" /\ ~sock'[u].hub
      BY <1>2, <1>3, ClosedFields DEF ScopeKeeps
    <2>2. behind' = behind /\ user' = user /\ edit' = edit
      BY <1>1 DEF historyVars
    <2>3. QED
      BY <2>1, <2>2, ScopesKept DEF IInv
  <1>14. QED
    BY <1>4, <1>9, <1>10, <1>11, <1>12, <1>13 DEF IInv

\* What a new connection changes: nothing without a token, else one that was
\* free.
LEMMA ConnectEffect ==
    ASSUME IInv, NEW own \in BOOLEAN, Connect(own)
    PROVE  /\ sock' \in [Sockets -> Connections] /\ behind' \subseteq Sockets
           /\ ws' \in Sockets \cup {0} /\ tokenless' \in BOOLEAN
           /\ \/ /\ sock' = sock /\ ws' = ws /\ behind' = behind
                 /\ tokenless' = (tokenless \/ own)
              \/ \E s \in Sockets :
                    /\ sock[s] = Closed /\ \A u \in Sockets \ {s} : sock'[u] = sock[u]
                    /\ sock'[s].own = own /\ sock'[s].c = "connecting"
                    /\ sock'[s].g = "none" /\ ~sock'[s].hub /\ ~sock'[s].seen
                    /\ ws' = IF own THEN s ELSE ws
                    /\ behind' = behind \ {s}
  <1>1. CASE token = "none"
    BY <1>1 DEF Connect, IInv, TypeOK
  <1>2. CASE token # "none"
    <2>1. PICK s \in Sockets :
              /\ Free(s)
              /\ sock' = [sock EXCEPT ![s] = [Closed EXCEPT !.c = "connecting", !.own = own,
                                                 !.up = TRUE, !.seen = FALSE,
                                                 !.valid = (token = "valid")]]
              /\ ws' = (IF own THEN s ELSE ws)
              /\ behind' = behind \ {s}
              /\ tokenless' = (IF own THEN FALSE ELSE tokenless)
      BY <1>2 DEF Connect
    <2> DEFINE k == [Closed EXCEPT !.c = "connecting", !.own = own, !.up = TRUE, !.seen = FALSE,
                                   !.valid = (token = "valid")]
    <2>2. k \in Connections /\ k.own = own /\ k.c = "connecting" /\ k.g = "none" /\ ~k.hub /\ ~k.seen
      BY ClosedType, ClosedFields DEF Connections
    <2>3. sock' = [sock EXCEPT ![s] = k]
      BY <2>1
    <2> HIDE DEF k
    <2>4. /\ sock' \in [Sockets -> Connections] /\ sock'[s] = k
          /\ \A u \in Sockets \ {s} : sock'[u] = sock[u]
      BY <2>2, <2>3, OneSocket DEF IInv
    <2>5. sock[s] = Closed
      BY <2>1 DEF Free
    <2>6. ws' \in Sockets \cup {0} /\ behind' \subseteq Sockets /\ tokenless' \in BOOLEAN
      BY <2>1 DEF IInv, TypeOK
    <2>7. QED
      BY <2>1, <2>2, <2>4, <2>5, <2>6
  <1>3. QED
    BY <1>1, <1>2

\* A new connection has no subscriber, and nothing of the server changes.
LEMMA ConnectServer ==
    ASSUME IInv, NEW own \in BOOLEAN, Connect(own), UNCHANGED serverVars
    PROVE  GatewaySteps' /\ StuckWereLate' /\ ScopesFollow'
  <1>0. dead' = dead /\ lateAdds' = lateAdds /\ user' = user /\ edit' = edit
    BY DEF serverVars
  <1>1. CASE sock' = sock /\ behind' = behind
    <2>1. GatewaySteps' /\ StuckWereLate'
      BY <1>0, <1>1 DEF IInv, GatewaySteps, StuckWereLate, Stuck
    <2>2. ScopesFollow'
      BY <1>0, <1>1 DEF IInv, ScopesFollow, Follows, Expected
    <2>3. QED
      BY <2>1, <2>2
  <1>2. CASE \E s \in Sockets :
                /\ sock[s] = Closed /\ \A u \in Sockets \ {s} : sock'[u] = sock[u]
                /\ sock'[s].g = "none" /\ ~sock'[s].hub /\ ~sock'[s].seen
                /\ behind' = behind \ {s}
    <2>1. PICK s \in Sockets :
                /\ sock[s] = Closed /\ \A u \in Sockets \ {s} : sock'[u] = sock[u]
                /\ sock'[s].g = "none" /\ ~sock'[s].hub /\ ~sock'[s].seen
                /\ behind' = behind \ {s}
      BY <1>2
    <2>2. Consistent(sock'[s]) /\ Count(sock[s]) = 0 /\ Count(sock'[s]) = 0
      BY <2>1, ClosedFields DEF Consistent, Count
    <2>3. dead \in Nat /\ lateAdds \in Nat
      BY DEF IInv, TypeOK
    <2>4. GatewaySteps' /\ StuckWereLate'
      BY <1>0, <2>1, <2>2, <2>3, StuckAt DEF IInv
    <2>5. \A u \in Sockets \ behind' : \/ u \notin behind /\ ScopeKeeps(sock[u], sock'[u])
                                       \/ sock'[u].g # "found" /\ ~sock'[u].hub
      BY <2>1 DEF ScopeKeeps
    <2>6. ScopesFollow'
      BY <1>0, <2>5, ScopesKept DEF IInv
    <2>7. QED
      BY <2>4, <2>6
  <1>3. QED
    BY <1>1, <1>2, ConnectEffect

\* The entry holds the new socket, if it is its own.
LEMMA ConnectHolds ==
    ASSUME IInv, NEW own \in BOOLEAN, Connect(own)
    PROVE  EntryHoldsSocket'
  <1>1. CASE sock' = sock /\ ws' = ws
    BY <1>1 DEF IInv, EntryHoldsSocket
  <1>2. CASE \E s \in Sockets :
                /\ sock[s] = Closed /\ \A u \in Sockets \ {s} : sock'[u] = sock[u]
                /\ sock'[s].own = own /\ sock'[s].c = "connecting"
                /\ ws' = IF own THEN s ELSE ws
    <2>1. PICK s \in Sockets :
                /\ sock[s] = Closed /\ \A u \in Sockets \ {s} : sock'[u] = sock[u]
                /\ sock'[s].own = own /\ sock'[s].c = "connecting"
                /\ ws' = IF own THEN s ELSE ws
      BY <1>2
    <2>2. ws # 0 => ws # s /\ ws \in Sockets
      BY <2>1, ClosedFields DEF IInv, TypeOK, EntryHoldsSocket
    <2>3. QED
      BY <2>1, <2>2 DEF IInv, EntryHoldsSocket
  <1>3. QED
    BY <1>1, <1>2, ConnectEffect

\* The types that a new connection has.
LEMMA ConnectType ==
    ASSUME IInv, NEW own \in BOOLEAN, Connect(own)
    PROVE  /\ sock' \in [Sockets -> Connections] /\ behind' \subseteq Sockets
           /\ ws' \in Sockets \cup {0} /\ tokenless' \in BOOLEAN
  BY ConnectEffect

\* If the entry had no connection of its own, the new one is the only one.
LEMMA ConnectOnly ==
    ASSUME IInv, Connect(TRUE), ws = 0, \A u \in Sockets : ~sock[u].own
    PROVE  \A u \in Sockets : sock'[u].own => u = ws'
  <1>1. CASE sock' = sock
    BY <1>1
  <1>2. CASE \E s \in Sockets : /\ \A u \in Sockets \ {s} : sock'[u] = sock[u]
                                /\ ws' = s
    BY <1>2
  <1>3. QED
    BY <1>1, <1>2, ConnectEffect

LEMMA ConnectTries ==
    ASSUME IInv, Connect(TRUE)
    PROVE  ws' # 0 \/ tokenless'
  BY ConnectEffect, SocketsAssumption

LEMMA MountStep == ASSUME IInv, NEW h \in Hooks, Mount(h) PROVE IInv'
  <1>1. /\ mounts' \in 0 .. MaxMounts /\ mounted' = mounted \cup {h} /\ mounted' \subseteq Hooks
        /\ UNCHANGED <<serverVars, token, timers, known, oldTimers, events>>
    BY SocketsAssumption DEF Mount, IInv, TypeOK
  <1>2. CASE MustConnect
    <2>1. Connect(TRUE) /\ doubled' = (doubled \/ timers > 0) /\ ws = 0
      BY <1>2 DEF Mount, MustConnect
    <2>2. GatewaySteps' /\ StuckWereLate' /\ ScopesFollow' /\ EntryHoldsSocket'
      BY <1>1, <2>1, ConnectServer, ConnectHolds
    <2>3. TypeOK'
      BY <1>1, <2>1, ConnectType DEF IInv, TypeOK, serverVars
    <2>4. (ws' # 0 \/ tokenless')
          /\ (~doubled' => timers' = 0 /\ \A u \in Sockets : sock'[u].own => u = ws')
      <3>1. timers \in Nat /\ timers' = timers
        BY <1>1 DEF IInv, TypeOK
      <3>2. ~doubled => \A u \in Sockets : ~sock[u].own
        BY <2>1, SocketsAssumption DEF IInv, OneAtATime
      <3>3. ~doubled' => ~doubled /\ timers' = 0
        <4>1. ~doubled' => ~doubled /\ ~(timers > 0)
          BY <2>1, Zenon
        <4>2. ~(timers > 0) => timers' = 0
          BY <3>1
        <4>3. QED
          BY <4>1, <4>2
      <3>4. ws' # 0 \/ tokenless'
        BY <2>1, ConnectTries
      <3>5. (\A u \in Sockets : ~sock[u].own) => \A u \in Sockets : sock'[u].own => u = ws'
        BY <2>1, ConnectOnly
      <3>6. QED
        BY <3>2, <3>3, <3>4, <3>5
    <2>5. QED
      BY <2>2, <2>3, <2>4 DEF IInv, OneAtATime, StaysInTouch
  <1>3. CASE ~MustConnect
    <2>1. UNCHANGED <<sock, ws, doubled, behind, tokenless>> /\ ws # 0
      BY <1>3 DEF Mount, MustConnect
    <2>2. UNCHANGED <<user, dead, edit, lateAdds, token, timers, known, oldTimers, events>>
      BY <1>1 DEF serverVars
    <2>3. TypeOK'
      BY <1>1, <2>1, <2>2 DEF IInv, TypeOK
    <2>4. GatewaySteps' /\ StuckWereLate' /\ EntryHoldsSocket' /\ OneAtATime' /\ StaysInTouch'
      BY <2>1, <2>2 DEF IInv, GatewaySteps, StuckWereLate, Stuck, EntryHoldsSocket, OneAtATime,
                        StaysInTouch
    <2>5. ScopesFollow'
      BY <2>1, <2>2 DEF IInv, ScopesFollow, Follows, Expected
    <2>6. QED
      BY <2>3, <2>4, <2>5 DEF IInv
  <1>4. QED
    BY <1>2, <1>3

LEMMA ReconnectStep == ASSUME IInv, Reconnect PROVE IInv'
  <1>1. /\ timers > 0 /\ timers' = timers - 1 /\ Connect(TRUE) /\ known' \in BOOLEAN
        /\ known' => timers > 1
        /\ UNCHANGED <<serverVars, token, mounted, oldTimers, boundVars, doubled>>
    BY DEF Reconnect
  <1>2. timers \in Nat /\ timers' \in Nat /\ mounted # {}
    BY <1>1 DEF IInv, TypeOK
  <1>3. GatewaySteps' /\ StuckWereLate' /\ ScopesFollow' /\ EntryHoldsSocket'
    BY <1>1, ConnectServer, ConnectHolds
  <1>4. TypeOK'
    <2>1. (known' => timers' > 0) /\ mounted' # {}
      BY <1>1, <1>2
    <2>2. QED
      BY <1>1, <1>2, <2>1, ConnectType DEF IInv, TypeOK, serverVars, boundVars
  <1>5. ws' # 0 \/ tokenless'
    BY <1>1, ConnectTries
  <1>6. ~doubled' => timers' = 0 /\ \A u \in Sockets : sock'[u].own => u = ws'
    <2>1. ~doubled => timers = 1 /\ ws = 0 /\ \A u \in Sockets : ~sock[u].own
      BY <1>1, <1>2, SocketsAssumption DEF IInv, OneAtATime
    <2>2. QED
      BY <1>1, <2>1, ConnectOnly
  <1>7. QED
    BY <1>3, <1>4, <1>5, <1>6 DEF IInv, OneAtATime, StaysInTouch

LEMMA ReconnectOldStep == ASSUME IInv, ReconnectOld PROVE IInv'
  <1>1. /\ oldTimers > 0 /\ oldTimers' = oldTimers - 1 /\ Connect(FALSE)
        /\ UNCHANGED <<serverVars, token, mounted, timers, known, boundVars, doubled>>
    BY DEF ReconnectOld
  <1>2. oldTimers' \in Nat
    BY <1>1 DEF IInv, TypeOK
  <1>3. GatewaySteps' /\ StuckWereLate' /\ ScopesFollow' /\ EntryHoldsSocket'
    BY <1>1, ConnectServer, ConnectHolds
  <1>4. ws' = ws /\ (tokenless => tokenless') /\ \A u \in Sockets : sock'[u].own => sock[u].own
    <2>1. ws' = ws /\ \A u \in Sockets : sock'[u].own => sock[u].own
      BY <1>1, ConnectEffect
    <2>2. tokenless => tokenless'
      BY <1>1 DEF Connect
    <2>3. QED
      BY <2>1, <2>2
  <1>5. TypeOK'
    BY <1>1, <1>2, <1>4, ConnectType DEF IInv, TypeOK, serverVars, boundVars
  <1>6. OneAtATime' /\ StaysInTouch'
    BY <1>1, <1>4 DEF IInv, OneAtATime, StaysInTouch
  <1>7. QED
    BY <1>3, <1>5, <1>6 DEF IInv

LEMMA UnmountStep == ASSUME IInv, NEW h \in Hooks, Unmount(h) PROVE IInv'
  <1>1. /\ mounted' = mounted \ {h} /\ mounted' \subseteq Hooks
        /\ UNCHANGED <<serverVars, token, boundVars, behind>>
    BY DEF Unmount, IInv, TypeOK
  <1>2. CASE mounted' # {}
    <2>1. UNCHANGED <<oldTimers, timers, known, ws, sock, doubled, tokenless>>
      BY <1>2 DEF Unmount
    <2>2. UNCHANGED <<user, dead, edit, lateAdds, mounts, events>> /\ mounted # {}
      BY <1>1, <1>2 DEF serverVars, boundVars
    <2>3. TypeOK'
      BY <1>1, <1>2, <2>1, <2>2 DEF IInv, TypeOK
    <2>4. GatewaySteps' /\ StuckWereLate' /\ EntryHoldsSocket' /\ OneAtATime' /\ StaysInTouch'
      BY <2>1, <2>2 DEF IInv, GatewaySteps, StuckWereLate, Stuck, EntryHoldsSocket, OneAtATime,
                        StaysInTouch
    <2>5. ScopesFollow'
      BY <1>1, <2>1, <2>2 DEF IInv, ScopesFollow, Follows, Expected
    <2>6. QED
      BY <2>3, <2>4, <2>5 DEF IInv
  <1>3. CASE mounted' = {}
    <2>1. /\ oldTimers' = oldTimers + timers - (IF known THEN 1 ELSE 0)
          /\ timers' = 0 /\ known' = FALSE /\ ws' = 0 /\ doubled' = FALSE /\ tokenless' = FALSE
          /\ sock' = [s \in Sockets |-> [sock[s] EXCEPT !.own = FALSE, !.up = @ /\ s # ws]]
      BY <1>3 DEF Unmount
    <2>2. ASSUME NEW s \in Sockets
          PROVE  /\ sock'[s] \in Connections /\ sock'[s].own = FALSE
                 /\ sock'[s].hub = sock[s].hub /\ sock'[s].g = sock[s].g
                 /\ sock'[s].seen = sock[s].seen /\ sock'[s].scope = sock[s].scope
                 /\ sock'[s].replica = sock[s].replica /\ (sock'[s].up => sock[s].up)
      <3>1. sock[s] \in Connections
        BY DEF IInv, TypeOK
      <3>2. sock'[s] = [sock[s] EXCEPT !.own = FALSE, !.up = @ /\ s # ws]
        BY <2>1
      <3>3. QED
        BY <3>1, <3>2 DEF Connections
    <2>3. sock' \in [Sockets -> Connections]
      BY <2>1, <2>2
    <2>4. oldTimers' \in Nat
      <3>1. timers \in Nat /\ oldTimers \in Nat /\ (known => timers > 0)
        BY DEF IInv, TypeOK
      <3>2. CASE known
        <4>1. oldTimers' = oldTimers + timers - 1 /\ timers > 0
          BY <2>1, <3>1, <3>2, Zenon
        <4>2. QED
          BY <3>1, <4>1
      <3>3. CASE ~known
        <4>1. oldTimers' = oldTimers + timers - 0
          BY <2>1, <3>3, Zenon
        <4>2. QED
          BY <3>1, <4>1
      <3>4. QED
        BY <3>2, <3>3
    <2>5. TypeOK'
      BY <1>1, <1>3, <2>1, <2>3, <2>4 DEF IInv, TypeOK, serverVars, boundVars
    <2>6. GatewaySteps' /\ StuckWereLate'
      <3>1. \A s \in Sockets : Consistent(sock'[s])
        BY <2>2 DEF IInv, GatewaySteps, Consistent
      <3>2. dead' = dead /\ lateAdds' = lateAdds
        BY <1>1 DEF serverVars
      <3>3. QED
        BY <2>2, <3>1, <3>2, StuckKept DEF IInv
    <2>7. EntryHoldsSocket' /\ OneAtATime' /\ StaysInTouch'
      <3>1. EntryHoldsSocket' /\ StaysInTouch'
        BY <1>3, <2>1 DEF EntryHoldsSocket, StaysInTouch
      <3>2. timers' = 0 /\ ws' = 0 /\ \A s \in Sockets : ~sock'[s].own
        BY <2>1, <2>2, Zenon
      <3>3. OneAtATime'
        BY <3>2 DEF OneAtATime
      <3>4. QED
        BY <3>1, <3>3
    <2>8. ScopesFollow'
      <3>1. \A u \in Sockets : ScopeKeeps(sock[u], sock'[u])
        BY <2>2 DEF ScopeKeeps
      <3>2. user' = user /\ edit' = edit /\ behind' = behind
        BY <1>1 DEF serverVars
      <3>3. QED
        BY <3>1, <3>2, ScopesKept DEF IInv
    <2>9. QED
      BY <2>5, <2>6, <2>7, <2>8 DEF IInv
  <1>4. QED
    BY <1>2, <1>3

----
(* Steps of the administrators and of the tokens *)

\* A step that leaves every connection as it is.
LEMMA NoConnection ==
    ASSUME IInv, TypeOK', sock' = sock, dead' = dead, lateAdds' = lateAdds,
           UNCHANGED <<entryVars, doubled, tokenless>>
    PROVE  GatewaySteps' /\ StuckWereLate' /\ EntryHoldsSocket' /\ OneAtATime' /\ StaysInTouch'
  <1>1. UNCHANGED <<mounted, ws, timers, doubled, tokenless>>
    BY DEF entryVars
  <1>2. QED
    BY <1>1 DEF IInv, GatewaySteps, StuckWereLate, Stuck, EntryHoldsSocket, OneAtATime, StaysInTouch

\* An update of the document: those it does not reach are behind.
LEMMA ApplyStep ==
    ASSUME IInv, NEW e \in Edits, NEW r \in Replicas, NEW u, NEW scope \in SUBSET Bins,
           NEW close \in BOOLEAN, u \in [role : {"user", "admin"}, active : BOOLEAN, assigned : SUBSET Bins],
           u.role = user.role, Apply(e, r, u, scope, close)
    PROVE  IInv'
  <1> DEFINE q == [pc |-> "refresh", replica |-> r, scope |-> scope, close |-> close]
             cut == {s \in Sockets : sock[s].g = "found" \/ (sock[s].hub /\ sock[s].replica # r)}
  <1>1. /\ user' = u /\ edit' = [edit EXCEPT ![e] = q] /\ edit[e].pc = "none"
        /\ behind' = behind \cup cut /\ sock' = sock /\ dead' = dead /\ lateAdds' = lateAdds
        /\ UNCHANGED <<token, entryVars, mounts, doubled, tokenless>>
    BY DEF Apply
  <1>2. events' \in 0 .. MaxEvents
    BY EventCounts DEF Apply, IInv
  <1>3. q \in Requests /\ q.pc = "refresh" /\ q.replica = r
    BY DEF Requests
  <1> HIDE DEF q
  <1>4. edit' \in [Edits -> Requests] /\ edit'[e] = q
    BY <1>1, <1>3 DEF IInv, TypeOK
  <1>5. TypeOK'
    BY <1>1, <1>2, <1>4 DEF IInv, TypeOK, entryVars
  <1>6. ScopesFollow'
    <2> SUFFICES ASSUME NEW s \in Sockets \ behind'
                 PROVE  Follows(sock[s])'
      BY DEF ScopesFollow
    <2>1. sock'[s].g # "found" /\ (sock'[s].hub => sock'[s].replica = r)
      BY <1>1
    <2>2. edit'[e].pc # "none" /\ edit'[e].replica = r
      BY <1>3, <1>4
    <2>3. QED
      BY <2>1, <2>2 DEF Follows
  <1>7. QED
    BY <1>1, <1>5, <1>6, NoConnection DEF IInv

LEMMA AssignStep == ASSUME IInv, NEW e \in Edits, NEW r \in Replicas, Assign(e, r) PROVE IInv'
  <1>1. PICK a \in SUBSET Bins : Apply(e, r, [user EXCEPT !.assigned = a], a, FALSE)
    BY DEF Assign
  <1> DEFINE u == [user EXCEPT !.assigned = a]
  <1>2. u \in [role : {"user", "admin"}, active : BOOLEAN, assigned : SUBSET Bins]
        /\ u.role = user.role
    BY DEF IInv, TypeOK
  <1> HIDE DEF u
  <1>3. Apply(e, r, u, a, FALSE)
    BY <1>1 DEF u
  <1>4. QED
    BY <1>2, <1>3, ApplyStep

LEMMA DeactivateStep ==
    ASSUME IInv, NEW e \in Edits, NEW r \in Replicas, Deactivate(e, r)
    PROVE  IInv'
  <1> DEFINE u == [user EXCEPT !.active = FALSE]
  <1>1. u \in [role : {"user", "admin"}, active : BOOLEAN, assigned : SUBSET Bins]
        /\ u.role = user.role
    BY DEF IInv, TypeOK
  <1>2. Apply(e, r, u, {}, TRUE)
    BY DEF Deactivate
  <1> HIDE DEF u
  <1>3. QED
    BY <1>1, <1>2, ApplyStep

LEMMA ActivateStep == ASSUME IInv, Activate PROVE IInv'
  <1> DEFINE u == [user EXCEPT !.active = TRUE]
  <1>1. /\ ~user.active /\ user' = u /\ sock' = sock /\ dead' = dead /\ lateAdds' = lateAdds
        /\ behind' = behind \cup {s \in Sockets : sock[s].hub}
        /\ UNCHANGED <<token, entryVars, edit, mounts, doubled, tokenless>>
    BY DEF Activate
  <1>2. u \in [role : {"user", "admin"}, active : BOOLEAN, assigned : SUBSET Bins]
        /\ u.role = user.role
    BY DEF IInv, TypeOK
  <1> HIDE DEF u
  <1>3. events' \in 0 .. MaxEvents
    BY EventCounts DEF Activate, IInv
  <1>4. TypeOK'
    BY <1>1, <1>2, <1>3 DEF IInv, TypeOK, entryVars
  <1>5. ScopesFollow'
    BY <1>1, <1>2 DEF IInv, ScopesFollow, Follows
  <1>6. QED
    BY <1>1, <1>4, <1>5, NoConnection DEF IInv

\* The refresh gives the subscribers of its replica the scope of its request.
LEMMA RefreshStep == ASSUME IInv, NEW e \in Edits, Refresh(e) PROVE IInv'
  <1> DEFINE r == edit[e].replica
             here == OnReplica(r)
  <1>1. /\ edit' = [edit EXCEPT ![e] = NoEdit]
        /\ behind' = (IF edit[e].scope = Expected THEN behind \ here ELSE behind \cup here)
        /\ UNCHANGED <<user, token, dead, lateAdds, entryVars, boundVars, doubled, tokenless>>
    BY DEF Refresh
  <1>2. sock' = [s \in Sockets |->
                   IF s \in here
                   THEN [sock[s] EXCEPT !.scope = edit[e].scope, !.up = @ /\ ~edit[e].close]
                   ELSE sock[s]]
    BY DEF Refresh, NewScope
  <1>3. ASSUME NEW s \in Sockets
        PROVE  /\ sock'[s] \in Connections /\ sock'[s].own = sock[s].own /\ sock'[s].c = sock[s].c
               /\ sock'[s].hub = sock[s].hub /\ sock'[s].g = sock[s].g
               /\ sock'[s].seen = sock[s].seen /\ sock'[s].replica = sock[s].replica
               /\ (sock'[s].up => sock[s].up)
               /\ s \in here => sock[s].hub /\ sock[s].replica = r /\ sock'[s].scope = edit[e].scope
               /\ s \notin here => sock'[s].scope = sock[s].scope /\ ~(sock[s].hub /\ sock[s].replica = r)
    <2>1. sock[s] \in Connections /\ edit[e].scope \in SUBSET Bins
      BY DEF IInv, TypeOK, Requests
    <2>2. CASE s \in here
      <3>1. sock'[s] = [sock[s] EXCEPT !.scope = edit[e].scope, !.up = @ /\ ~edit[e].close]
        BY <1>2, <2>2
      <3>2. sock[s].hub /\ sock[s].replica = r
        BY <2>2 DEF OnReplica
      <3> HIDE DEF r, here
      <3> DEFINE up == sock[s].up /\ ~edit[e].close
      <3>3. up \in BOOLEAN /\ (up => sock[s].up)
        OBVIOUS
      <3>4. sock'[s] = [sock[s] EXCEPT !.scope = edit[e].scope, !.up = up]
        BY <3>1
      <3> HIDE DEF up
      <3>5. /\ sock'[s] \in Connections /\ sock'[s].own = sock[s].own /\ sock'[s].c = sock[s].c
            /\ sock'[s].hub = sock[s].hub /\ sock'[s].g = sock[s].g
            /\ sock'[s].seen = sock[s].seen /\ sock'[s].replica = sock[s].replica
            /\ sock'[s].up = up /\ sock'[s].scope = edit[e].scope
        BY <2>1, <3>3, <3>4 DEF Connections
      <3>6. QED
        BY <2>2, <3>2, <3>3, <3>5
    <2>3. CASE s \notin here
      <3>1. sock'[s] = sock[s] /\ ~(sock[s].hub /\ sock[s].replica = r)
        BY <1>2, <2>3 DEF OnReplica
      <3> HIDE DEF r, here
      <3>2. QED
        BY <2>1, <2>3, <3>1
    <2>4. QED
      BY <2>2, <2>3
  <1>4. sock' \in [Sockets -> Connections] /\ behind' \subseteq Sockets
    <2>1. here \subseteq Sockets
      BY DEF OnReplica
    <2> HIDE DEF here
    <2>2. behind' \subseteq Sockets
      BY <1>1, <2>1 DEF IInv, TypeOK
    <2>3. sock' \in [Sockets -> Connections]
      BY <1>2, <1>3
    <2>4. QED
      BY <2>2, <2>3
  <1> HIDE DEF here, r
  <1>5. TypeOK'
    <2>1. edit' \in [Edits -> Requests]
      BY <1>1, ClosedType DEF IInv, TypeOK
    <2>2. QED
      BY <1>1, <1>4, <2>1 DEF IInv, TypeOK, entryVars, boundVars
  <1>6. GatewaySteps' /\ StuckWereLate'
    <2>1. \A s \in Sockets : Consistent(sock'[s])
      BY <1>3 DEF IInv, GatewaySteps, Consistent
    <2>2. QED
      BY <1>1, <1>3, <2>1, StuckKept DEF IInv
  <1>7. EntryHoldsSocket' /\ OneAtATime' /\ StaysInTouch'
    <2>1. \A s \in Sockets : PoolKeeps(sock[s], sock'[s])
      BY <1>3 DEF PoolKeeps
    <2>2. QED
      BY <1>1, <2>1, EntryKept DEF IInv
  <1>8. ScopesFollow'
    <2> SUFFICES ASSUME user.role # "admin", NEW s \in Sockets \ behind'
                 PROVE  Follows(sock[s])'
      BY <1>1 DEF ScopesFollow
    <2>1. \A d \in Edits : d # e => edit'[d] = edit[d]
      BY <1>1 DEF IInv, TypeOK
    <2>2. CASE s \in here
      <3>1. edit[e].scope = Expected /\ sock'[s].scope = edit[e].scope
        BY <1>1, <1>3, <2>2
      <3>2. sock'[s].g # "found"
        BY <1>3, <2>2 DEF IInv, GatewaySteps, Consistent
      <3>3. Expected' = Expected
        BY <1>1 DEF Expected
      <3>4. QED
        BY <3>1, <3>2, <3>3 DEF Follows
    <2>3. CASE s \notin here
      <3>1. s \notin behind
        BY <1>1, <2>3
      <3>2. Follows(sock[s])
        BY <3>1 DEF IInv, ScopesFollow
      <3>3. sock'[s].g = "found" => user'.active /\ sock'[s].scope = user'.assigned
        BY <1>1, <1>3, <2>3, <3>2 DEF Follows
      <3>4. ASSUME sock'[s].hub,
                   \A d \in Edits : edit'[d].pc # "none" => edit'[d].replica # sock'[s].replica
            PROVE  sock'[s].scope = Expected'
        <4>1. sock[s].hub /\ sock[s].replica # r /\ sock'[s].replica = sock[s].replica
              /\ sock'[s].scope = sock[s].scope
          BY <1>3, <2>3, <3>4
        <4>2. \A d \in Edits : edit[d].pc # "none" => edit[d].replica # sock[s].replica
          BY <2>1, <3>4, <4>1 DEF r
        <4>3. sock[s].scope = Expected
          BY <3>2, <4>1, <4>2 DEF Follows
        <4>4. QED
          BY <1>1, <4>1, <4>3 DEF Expected
      <3>5. QED
        BY <3>3, <3>4 DEF Follows
    <2>4. QED
      BY <2>2, <2>3
  <1>9. QED
    BY <1>5, <1>6, <1>7, <1>8 DEF IInv

LEMMA ExpiresStep == ASSUME IInv, TokenExpires PROVE IInv'
  <1>1. /\ sock' = [s \in Sockets |-> [sock[s] EXCEPT !.valid = FALSE]] /\ token' = "expired"
        /\ UNCHANGED <<serverVars, entryVars, mounts, historyVars>>
    BY DEF TokenExpires
  <1>2. events' \in 0 .. MaxEvents
    BY EventCounts DEF TokenExpires, IInv
  <1>3. ASSUME NEW s \in Sockets
        PROVE  /\ sock'[s] \in Connections /\ sock'[s].own = sock[s].own /\ sock'[s].c = sock[s].c
               /\ sock'[s].hub = sock[s].hub /\ sock'[s].g = sock[s].g /\ sock'[s].up = sock[s].up
               /\ sock'[s].seen = sock[s].seen /\ sock'[s].replica = sock[s].replica
               /\ sock'[s].scope = sock[s].scope
    <2>1. sock[s] \in Connections
      BY DEF IInv, TypeOK
    <2>2. sock'[s] = [sock[s] EXCEPT !.valid = FALSE]
      BY <1>1
    <2>3. QED
      BY <2>1, <2>2 DEF Connections
  <1>4. sock' \in [Sockets -> Connections]
    BY <1>1, <1>3
  <1>5. TypeOK'
    BY <1>1, <1>2, <1>4 DEF IInv, TypeOK, serverVars, entryVars, historyVars
  <1>6. GatewaySteps' /\ StuckWereLate'
    <2>1. \A s \in Sockets : Consistent(sock'[s])
      BY <1>3 DEF IInv, GatewaySteps, Consistent
    <2>2. dead' = dead /\ lateAdds' = lateAdds
      BY <1>1 DEF serverVars
    <2>3. QED
      BY <1>3, <2>1, <2>2, StuckKept DEF IInv
  <1>7. EntryHoldsSocket' /\ OneAtATime' /\ StaysInTouch'
    <2>1. \A s \in Sockets : PoolKeeps(sock[s], sock'[s])
      BY <1>3 DEF PoolKeeps
    <2>2. UNCHANGED <<entryVars, doubled, tokenless>>
      BY <1>1 DEF historyVars
    <2>3. QED
      BY <2>1, <2>2, EntryKept DEF IInv
  <1>8. ScopesFollow'
    <2>1. \A s \in Sockets : ScopeKeeps(sock[s], sock'[s])
      BY <1>3 DEF ScopeKeeps
    <2>2. user' = user /\ edit' = edit /\ behind' = behind
      BY <1>1 DEF serverVars, historyVars
    <2>3. QED
      BY <2>1, <2>2, ScopesKept DEF IInv
  <1>9. QED
    BY <1>5, <1>6, <1>7, <1>8 DEF IInv

LEMMA ChangesStep ==
    ASSUME IInv, NEW t \in {"none", "valid"}, TokenChanges(t)
    PROVE  IInv'
  <1>1. /\ token' = t /\ sock' = sock /\ UNCHANGED <<serverVars, entryVars, mounts, historyVars>>
    BY DEF TokenChanges
  <1>2. events' \in 0 .. MaxEvents
    BY EventCounts DEF TokenChanges, IInv
  <1>3. TypeOK'
    BY <1>1, <1>2 DEF IInv, TypeOK, serverVars, entryVars, historyVars
  <1>4. ScopesFollow'
    BY <1>1 DEF IInv, ScopesFollow, Follows, Expected, serverVars, historyVars
  <1>5. dead' = dead /\ lateAdds' = lateAdds /\ UNCHANGED <<entryVars, doubled, tokenless>>
    BY <1>1 DEF serverVars, historyVars
  <1>6. QED
    BY <1>1, <1>3, <1>4, <1>5, NoConnection DEF IInv

----
(* The invariant and the properties *)

LEMMA InvInit == Init => IInv
  <1> SUFFICES ASSUME Init PROVE IInv
    OBVIOUS
  <1>1. PICK role \in {"user", "admin"}, a \in SUBSET Bins :
            user = [role |-> role, active |-> TRUE, assigned |-> a]
    BY DEF Init
  <1>2. /\ \A s \in Sockets : sock[s] = Closed
        /\ sock \in [Sockets -> Connections] /\ edit \in [Edits -> Requests]
    BY ClosedType DEF Init
  <1>3. 0 \in 0 .. MaxMounts /\ 0 \in 0 .. MaxEvents
    BY SocketsAssumption
  <1>4. TypeOK
    BY <1>1, <1>2, <1>3 DEF Init, TypeOK
  <1>5. GatewaySteps /\ Stuck = {}
    BY <1>2, ClosedFields DEF GatewaySteps, Stuck
  <1>6. StuckWereLate
    BY <1>5, FS_EmptySet DEF StuckWereLate, Init
  <1>7. EntryHoldsSocket /\ OneAtATime /\ StaysInTouch
    BY <1>2, ClosedFields DEF Init, EntryHoldsSocket, OneAtATime, StaysInTouch
  <1>8. ScopesFollow
    BY <1>2, ClosedFields DEF ScopesFollow, Follows
  <1>9. QED
    BY <1>4, <1>5, <1>6, <1>7, <1>8 DEF IInv

LEMMA InvStep == IInv /\ [Next]_vars => IInv'
  <1> SUFFICES ASSUME IInv, [Next]_vars PROVE IInv'
    OBVIOUS
  <1>1. CASE Reconnect \/ ReconnectOld
    BY <1>1, ReconnectStep, ReconnectOldStep
  <1>2. ASSUME NEW s \in Sockets, Opened(s) \/ OnClose(s) \/ Lookup(s) \/ Add(s) \/ ServerSees(s)
                                  \/ ExpiryCloses(s) \/ Message(s) \/ Drop(s)
        PROVE  IInv'
    BY <1>2, OpenedStep, OnCloseStep, LookupStep, AddedStep, SeesStep, ExpiryStep, MessageStep,
       DropStep
  <1>3. ASSUME NEW s \in Sockets, NEW r \in Replicas, Accept(s, r)
        PROVE  IInv'
    BY <1>3, AcceptStep
  <1>4. ASSUME NEW e \in Edits, Refresh(e)
        PROVE  IInv'
    BY <1>4, RefreshStep
  <1>5. ASSUME NEW h \in Hooks, Mount(h) \/ Unmount(h)
        PROVE  IInv'
    BY <1>5, MountStep, UnmountStep
  <1>6. ASSUME NEW e \in Edits, NEW r \in Replicas, Assign(e, r) \/ Deactivate(e, r)
        PROVE  IInv'
    BY <1>6, AssignStep, DeactivateStep
  <1>7. CASE Activate \/ TokenExpires
    BY <1>7, ActivateStep, ExpiresStep
  <1>8. ASSUME NEW t \in {"none", "valid"}, TokenChanges(t)
        PROVE  IInv'
    BY <1>8, ChangesStep
  <1>9. CASE UNCHANGED vars
    <2>1. TypeOK'
      BY <1>9 DEF IInv, TypeOK, vars
    <2>2. ScopesFollow'
      BY <1>9 DEF IInv, ScopesFollow, Follows, Expected, vars
    <2>3. sock' = sock /\ dead' = dead /\ lateAdds' = lateAdds
          /\ UNCHANGED <<entryVars, doubled, tokenless>>
      BY <1>9 DEF vars, entryVars
    <2>4. QED
      BY <2>1, <2>2, <2>3, NoConnection DEF IInv
  <1>10. QED
    BY <1>1, <1>2, <1>3, <1>4, <1>5, <1>6, <1>7, <1>8, <1>9 DEF Next

LEMMA InvHolds == Spec => []IInv
  <1>1. QED
    BY InvInit, InvStep, PTL DEF Spec

\* The state of the channel stays well typed, with any number of replicas,
\* bins, components, connections and requests.
THEOREM TypeCorrect == Spec => []TypeOK
  <1>1. IInv => TypeOK
    BY DEF IInv
  <1>2. QED
    BY <1>1, InvHolds, PTL

\* A connection that no edit has missed and that none is about to change is
\* sent the events of exactly the bins that the document gives its user.
THEOREM ScopeHolds == Spec => []ScopeIsCurrent
  <1>1. IInv => ScopeIsCurrent
    <2> SUFFICES ASSUME IInv, NEW s \in Sockets, NEW b \in Bins,
                        sock[s].hub, sock[s].up, MatchesTopic(s, b), s \notin behind,
                        \A e \in Edits : edit[e].pc # "none" => edit[e].replica # sock[s].replica
                 PROVE  Receives(s, b) <=> user.role = "admin" \/ b \in Expected
      BY DEF ScopeIsCurrent
    <2>1. Receives(s, b) <=> user.role = "admin" \/ b \in sock[s].scope
      BY DEF Receives, IsAuthorized
    <2>2. user.role # "admin" => sock[s].scope = Expected
      BY DEF IInv, ScopesFollow, Follows
    <2>3. QED
      BY <2>1, <2>2
  <1>2. QED
    BY <1>1, InvHolds, PTL

\* The hubs forget every connection that is over, but for those that were added
\* when nothing listened for their end.
THEOREM HubHolds == Spec => []HubForgets
  <1>1. IInv => HubForgets
    <2> SUFFICES ASSUME IInv PROVE HubForgets
      OBVIOUS
    <2>1. dead \in Nat /\ lateAdds \in Nat /\ Cardinality(Stuck) \in Nat
      BY StuckFinite DEF IInv, TypeOK
    <2>2. dead + Cardinality(Stuck) <= lateAdds
      BY DEF IInv, StuckWereLate
    <2>3. QED
      BY <2>1, <2>2 DEF HubForgets
  <1>2. QED
    BY <1>1, InvHolds, PTL

\* The components of a tab have at most one connection up, unless one mounted
\* while the entry was waiting to reconnect.
THEOREM UndoubledHolds == Spec => []Undoubled
  <1>1. IInv => Undoubled
    <2> SUFFICES ASSUME IInv, ~doubled
                 PROVE  Cardinality({s \in Sockets : sock[s].own /\ sock[s].up}) <= 1
      BY DEF Undoubled
    <2> DEFINE up == {s \in Sockets : sock[s].own /\ sock[s].up}
    <2>1. up \subseteq {ws}
      BY DEF IInv, OneAtATime
    <2> HIDE DEF up
    <2>2. IsFiniteSet({ws}) /\ Cardinality({ws}) = 1
      BY FS_Singleton
    <2>3. Cardinality(up) <= 1
      BY <2>1, <2>2, FS_Subset
    <2>4. QED
      BY <2>3 DEF up
  <1>2. QED
    BY <1>1, InvHolds, PTL

\* While components listen, the tab has a connection or is about to try one,
\* unless it once tried without a token.
THEOREM InTouchHolds == Spec => []StaysInTouch
  <1>1. IInv => StaysInTouch
    BY DEF IInv
  <1>2. QED
    BY <1>1, InvHolds, PTL
=============================================================================
