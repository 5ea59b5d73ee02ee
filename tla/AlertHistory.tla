---------------------------- MODULE AlertHistory ----------------------------
(***************************************************************************)
(* The alert history of one bin: AlertService.raise, with the trimming of  *)
(* the history it starts and does not wait for, and acknowledge            *)
(* (services/alert.service.ts), called by the evaluations, heartbeats and  *)
(* requests of all API replicas at once.                                   *)
(*                                                                         *)
(* A raise takes its creation time when the document is built and is       *)
(* stored a round trip later; the trim is a query and then a deleteMany,   *)
(* which removes documents one by one.  The replicas' clocks need not      *)
(* agree.                                                                  *)
(***************************************************************************)
EXTENDS Integers, FiniteSets

CONSTANTS
    Nodes,      \* API replicas
    Raisers,    \* calls of raise, with their trims, that can be in flight
    Users,      \* who can acknowledge an alert
    MaxAlerts,  \* MAX_ALERTS_PER_DUSTBIN
    MaxRaises,  \* bound: alerts raised
    MaxClock,   \* bound: last clock value of a replica
    MaxAcks,    \* bound: acknowledgements
    MaxFaults   \* bound: replica crashes and failed database calls

ASSUME BoundsAssumption ==
    /\ MaxAlerts \in Nat \ {0} /\ MaxRaises \in Nat /\ MaxClock \in Nat \ {0}
    /\ MaxAcks \in Nat /\ MaxFaults \in Nat
    /\ IsFiniteSet(Raisers) /\ Nodes # {}

VARIABLES
    clock,     \* clock[n]: Date.now() on replica n
    stored,    \* the bin's alerts in the collection
    ackedBy,   \* ackedBy[i]: who acknowledged alert i last, {} if nobody has
    pc,        \* pc[c]: the await raise c, or its trim, is stopped at
    node,      \* node[c]: the replica raise c runs on
    mine,      \* mine[c]: the alert raise c stores
    keep,      \* keep[c]: the newest alerts the trim of c found
    doomed,    \* doomed[c]: what the deleteMany of c has matched
    seen,      \* history: seen[c]: the alerts ever stored when the trim of c queried
    ever,      \* history: every alert that was stored
    owed,      \* history: alerts stored since the query of every trim that got through
    disturbed, \* history: a store or a query came between another trim's query and end
    raised, acks, faults  \* counters of the bounds

trimVars == <<keep, doomed, seen>>
historyVars == <<ever, owed, disturbed>>
vars == <<clock, stored, ackedBy, pc, node, mine, trimVars, historyVars,
          raised, acks, faults>>

Alert == [id : 1 .. MaxRaises, at : 1 .. MaxClock]
Unset == [id |-> 0, at |-> 0]
AnyNode == CHOOSE n \in Nodes : TRUE   \* what an idle call's slot holds
PCs == {"idle", "create", "find", "delete", "deleting"}

Init ==
    /\ clock = [n \in Nodes |-> 1]
    /\ stored = {} /\ ackedBy = [i \in 1 .. MaxRaises |-> {}]
    /\ pc = [c \in Raisers |-> "idle"] /\ node = [c \in Raisers |-> AnyNode]
    /\ mine = [c \in Raisers |-> Unset]
    /\ keep = [c \in Raisers |-> {}] /\ doomed = [c \in Raisers |-> {}]
    /\ seen = [c \in Raisers |-> {}]
    /\ ever = {} /\ owed = {} /\ disturbed = FALSE
    /\ raised = 0 /\ acks = 0 /\ faults = 0

----
(***************************************************************************)
(* Raising, and the trim that follows.                                     *)
(***************************************************************************)

\* raise() builds the document, createdAt included, and sends it.
Begin(c, n) ==
    /\ pc[c] = "idle" /\ raised < MaxRaises
    /\ raised' = raised + 1
    /\ pc' = [pc EXCEPT ![c] = "create"]
    /\ node' = [node EXCEPT ![c] = n]
    /\ mine' = [mine EXCEPT ![c] = [id |-> raised', at |-> clock[n]]]
    /\ UNCHANGED <<clock, stored, ackedBy, trimVars, historyVars, acks, faults>>

\* Some other trim has run its query and not ended yet.
TrimUnderWay(c) == \E d \in Raisers \ {c} : pc[d] \in {"delete", "deleting"}

\* The alert is stored; raise() returns it and leaves its trim running.
Stored(c) ==
    /\ pc[c] = "create"
    /\ stored' = stored \cup {mine[c]} /\ ever' = ever \cup {mine[c]}
    /\ owed' = owed \cup {mine[c]}
    /\ disturbed' = (disturbed \/ TrimUnderWay(c))
    /\ pc' = [pc EXCEPT ![c] = "find"]
    /\ UNCHANGED <<clock, ackedBy, node, mine, trimVars, raised, acks, faults>>

\* Variant for OnlyOldTrimmedAlone: sorted the other way round.
OldestFirst(kept) ==
    /\ kept \subseteq stored
    /\ Cardinality(kept) = IF Cardinality(stored) < MaxAlerts
                           THEN Cardinality(stored) ELSE MaxAlerts
    /\ \A x \in kept, y \in stored \ kept : x.at <= y.at

\* What find().sort({ createdAt: -1 }).limit(MAX) can return: alerts created
\* at the same time come in any order.
Newest(kept) ==
    /\ kept \subseteq stored
    /\ Cardinality(kept) = IF Cardinality(stored) < MaxAlerts
                           THEN Cardinality(stored) ELSE MaxAlerts
    /\ \A x \in kept, y \in stored \ kept : x.at >= y.at

\* The calls in ends are over: nothing of them is kept.
Release(ends) ==
    /\ pc' = [c \in Raisers |-> IF c \in ends THEN "idle" ELSE pc[c]]
    /\ mine' = [c \in Raisers |-> IF c \in ends THEN Unset ELSE mine[c]]
    /\ keep' = [c \in Raisers |-> IF c \in ends THEN {} ELSE keep[c]]
    /\ doomed' = [c \in Raisers |-> IF c \in ends THEN {} ELSE doomed[c]]
    /\ seen' = [c \in Raisers |-> IF c \in ends THEN {} ELSE seen[c]]
    /\ node' = [c \in Raisers |-> IF c \in ends THEN AnyNode ELSE node[c]]
    /\ UNCHANGED <<clock, stored, raised, acks, ever>>

\* Variant for LeanOnceTrimmed and CutBack: the early return also taken for MAX alerts
\* and one more.
FewFoundOffByOne(c) ==
    /\ pc[c] = "find" /\ Cardinality(stored) <= MaxAlerts + 1
    /\ owed' = {}
    /\ disturbed' = (disturbed \/ TrimUnderWay(c))
    /\ Release({c})
    /\ UNCHANGED <<ackedBy, faults>>

\* The trim finds fewer than MAX alerts and returns.
FewFound(c) ==
    /\ pc[c] = "find" /\ Cardinality(stored) < MaxAlerts
    /\ owed' = {}
    /\ disturbed' = (disturbed \/ TrimUnderWay(c))
    /\ Release({c})
    /\ UNCHANGED <<ackedBy, faults>>

\* The trim finds MAX alerts and asks for the others to be deleted.
Found(c) ==
    /\ pc[c] = "find" /\ Cardinality(stored) >= MaxAlerts
    /\ \E kept \in SUBSET stored :
           Newest(kept) /\ keep' = [keep EXCEPT ![c] = kept]
    /\ pc' = [pc EXCEPT ![c] = "delete"]
    /\ seen' = [seen EXCEPT ![c] = ever]
    /\ disturbed' = (disturbed \/ TrimUnderWay(c))
    /\ UNCHANGED <<clock, stored, ackedBy, node, mine, doomed, raised,
                   ever, owed, acks, faults>>

\* The deleteMany reaches the database.
DeleteBegins(c) ==
    /\ pc[c] = "delete"
    /\ pc' = [pc EXCEPT ![c] = "deleting"]
    /\ doomed' = [doomed EXCEPT ![c] = stored \ keep[c]]
    /\ UNCHANGED <<clock, stored, ackedBy, node, mine, keep, seen, raised,
                   historyVars, acks, faults>>

\* It removes one document that is not among the kept ones, possibly one
\* stored since it began.
DeleteOne(c) ==
    /\ pc[c] = "deleting"
    /\ \E x \in stored \ keep[c] :
           /\ stored' = stored \ {x}
           /\ ackedBy' = [ackedBy EXCEPT ![x.id] = {}]
    /\ UNCHANGED <<clock, pc, node, mine, trimVars, historyVars, raised, acks, faults>>

\* It has been over everything it matched when it began.
DeleteEnds(c) ==
    /\ pc[c] = "deleting" /\ doomed[c] \cap stored = {}
    /\ owed' = owed \ seen[c]
    /\ Release({c})
    /\ UNCHANGED <<ackedBy, disturbed, faults>>

----
(***************************************************************************)
(* Acknowledging, failures, time.                                          *)
(***************************************************************************)

\* POST /alerts/:id/ack, for any alert a list has ever shown: an update by
\* _id alone, which overwrites an earlier acknowledgement and finds nothing
\* when the alert has been trimmed.
Ack(x, u) ==
    /\ x \in ever /\ acks < MaxAcks
    /\ acks' = acks + 1
    /\ ackedBy' = IF x \in stored THEN [ackedBy EXCEPT ![x.id] = {u}] ELSE ackedBy
    /\ UNCHANGED <<clock, stored, pc, node, mine, trimVars, historyVars, raised, faults>>

\* A database call rejects.  A raise whose create rejects fails; a trim only
\* logs, and what it should have removed is left to a later one.
CallFails(c) ==
    /\ pc[c] # "idle" /\ faults < MaxFaults
    /\ faults' = faults + 1
    /\ Release({c})
    /\ UNCHANGED <<ackedBy, owed, disturbed>>

\* A replica dies with every raise and trim it was running.
Crash(n) ==
    /\ faults < MaxFaults /\ faults' = faults + 1
    /\ Release({c \in Raisers : pc[c] # "idle" /\ node[c] = n})
    /\ UNCHANGED <<ackedBy, owed, disturbed>>

Tick(n) ==
    /\ clock[n] < MaxClock
    /\ clock' = [clock EXCEPT ![n] = @ + 1]
    /\ UNCHANGED <<stored, ackedBy, pc, node, mine, trimVars, historyVars,
                   raised, acks, faults>>

----
CallStep(c) ==
    Stored(c) \/ FewFound(c) \/ Found(c) \/ DeleteBegins(c) \/ DeleteOne(c) \/ DeleteEnds(c)

Next ==
    \/ \E c \in Raisers, n \in Nodes : Begin(c, n)
    \/ \E c \in Raisers : CallStep(c) \/ CallFails(c)
    \/ \E n \in Nodes : Crash(n) \/ Tick(n)
    \/ \E x \in ever, u \in Users : Ack(x, u)

Spec == Init /\ [][Next]_vars

\* The database answers every call of a replica that lives.
FairSpec == Spec /\ \A c \in Raisers : WF_vars(CallStep(c))

----
TypeOK ==
    /\ clock \in [Nodes -> 1 .. MaxClock]
    /\ stored \subseteq ever /\ ever \subseteq Alert /\ owed \subseteq ever
    /\ ackedBy \in [1 .. MaxRaises -> SUBSET Users]
    /\ pc \in [Raisers -> PCs] /\ node \in [Raisers -> Nodes]
    /\ mine \in [Raisers -> Alert \cup {Unset}]
    /\ keep \in [Raisers -> SUBSET ever] /\ doomed \in [Raisers -> SUBSET ever]
    /\ seen \in [Raisers -> SUBSET ever]
    /\ disturbed \in BOOLEAN
    /\ raised \in 0 .. MaxRaises /\ acks \in 0 .. MaxAcks /\ faults \in 0 .. MaxFaults

\* However many raises and trims of a bin overlap, and whichever of them
\* fail, the bin has at most MAX alerts once a trim that queried after the
\* last of them was stored has got through (lines 26-39).
LeanOnceTrimmed == owed = {} => Cardinality(stored) <= MaxAlerts

\* Alert x is among the MAX newest that were ever stored.
AmongNewest(x) == Cardinality({y \in ever \ {x} : y.at >= x.at}) < MaxAlerts

\* A trim nothing came between does what its name says: only history older
\* than the MAX newest alerts is deleted, although creation times tie and are
\* taken on clocks that disagree.
OnlyOldTrimmedAlone ==
    ~disturbed => \A x \in ever : AmongNewest(x) => x \in stored

\* "Failed to trim old alert history" (line 77): what the trims delete is old,
\* that is, MAX alerts at least as new exist or existed.
OnlyOldTrimmed == \A x \in ever : AmongNewest(x) => x \in stored

\* Nobody is left to trim these alerts, until the bin raises another one.
Abandoned == {x \in owed : \A c \in Raisers : mine[c] # x}

\* A history that is too long is cut back without anything else happening,
\* unless the trim that had to do it failed: the next alert's trim repairs it.
CutBack ==
    Cardinality(stored) > MaxAlerts ~> (Cardinality(stored) <= MaxAlerts \/ Abandoned # {})
----
(***************************************************************************)
(* The inductive invariant behind LeanOnceTrimmed and OnlyOldTrimmedAlone. *)
(***************************************************************************)

Trimming(c) == pc[c] \in {"delete", "deleting"}

\* An alert that is about to be stored is none of those that were, nor that of
\* another raise.
MineIsNew ==
    /\ \A x \in ever : x.id <= raised
    /\ \A c \in Raisers : pc[c] = "create" => /\ mine[c] \in Alert /\ mine[c].id <= raised
                                             /\ mine[c] \notin ever
    /\ \A c, d \in Raisers :
          pc[c] = "create" /\ pc[d] = "create" /\ c # d => mine[c].id # mine[d].id

\* What trims under way have seen is a chain, and each of them has seen all that
\* nobody owes any more, unless what it saw is owed by nobody.
SeenInTurn ==
    /\ \A c, d \in Raisers :
          Trimming(c) /\ Trimming(d) => seen[c] \subseteq seen[d] \/ seen[d] \subseteq seen[c]
    /\ \A c \in Raisers :
          Trimming(c) => seen[c] \cap owed = {} \/ ever \ owed \subseteq seen[c]

\* A trim keeps MAX alerts at most, and of those it has seen it leaves no other
\* once it has removed what it matched.
KeepsFew ==
    \A c \in Raisers :
        /\ Trimming(c) => Cardinality(keep[c]) <= MaxAlerts
        /\ pc[c] = "deleting" => stored \cap seen[c] \subseteq keep[c] \cup doomed[c]

LeanButOwed == Cardinality(stored \ owed) <= MaxAlerts

\* As long as nothing came between, what is gone or may go is old.
GoesOld ==
    ~disturbed =>
        /\ \A x \in ever \ stored : ~AmongNewest(x)
        /\ \A c \in Raisers : Trimming(c) => \A x \in ever \ keep[c] : ~AmongNewest(x)

IInv ==
    /\ TypeOK /\ IsFiniteSet(ever)
    /\ MineIsNew /\ SeenInTurn /\ KeepsFew /\ LeanButOwed /\ GoesOld
=============================================================================
