----------------------------- MODULE Heartbeat -----------------------------
(***************************************************************************)
(* Offline detection: HeartbeatService.tick (services/heartbeat.service.ts)*)
(* on every API replica, against the writes of DustbinService.appendReading*)
(* that put a bin back online (services/dustbin.service.ts).               *)
(*                                                                         *)
(* A tick is a query, an updateMany and one awaited alert for each bin the *)
(* query returned.  Nothing keeps the ticks of two replicas apart, or, when*)
(* a tick outlasts the timer's period, two ticks of one replica.  A write  *)
(* of a reading is stamped with its replica's clock when it is sent and    *)
(* changes the bin a round trip later.                                     *)
(***************************************************************************)
EXTENDS Integers, FiniteSets

CONSTANTS
    Nodes,         \* API replicas
    Bins,          \* dustbins
    Ticks,         \* ticks that can be in flight, over all replicas
    OfflineAfter,  \* OFFLINE_AFTER_MS, in clock ticks
    MaxClock,      \* bound: last clock value of a replica
    MaxStamp,      \* bound: last clock value at which a reading arrives
    MaxReadings,   \* bound: readings that arrive
    MaxFaults      \* bound: replica crashes and failed database calls

ASSUME BoundsAssumption ==
    /\ OfflineAfter \in Nat /\ MaxReadings \in Nat /\ MaxFaults \in Nat
    /\ MaxStamp \in Nat \ {0} /\ MaxClock \in Nat /\ MaxStamp <= MaxClock
    /\ Nodes # {}

VARIABLES
    clock,       \* clock[n]: Date.now() on replica n
    online,      \* online[b]
    lastSeen,    \* lastSeen[b]: lastSeenAt, 0 before the first reading
    writes,      \* appendReading updates on their way to the database
    pc,          \* pc[t]: the await tick t is stopped at
    node,        \* node[t]: the replica tick t runs on
    cutoff,      \* cutoff[t]: the time tick t compares lastSeenAt with
    unmarked,    \* unmarked[t]: stale bins its updateMany has not reached
    unraised,    \* unraised[t]: stale bins it has not raised an alert for
    alarms,      \* history: alarms[b]: OFFLINE alerts since b's last reading (2: several)
    abandoned,   \* history: bins whose tick died on them since their last reading
    raced,       \* history: bins whose last reading came while a tick held them
    overlapped,  \* history: two ticks have been in flight together
    readings, faults  \* counters of the bounds

binVars == <<online, lastSeen, writes, readings>>
tickVars == <<pc, node, cutoff, unmarked, unraised>>
historyVars == <<alarms, abandoned, raced, overlapped>>
vars == <<clock, binVars, tickVars, historyVars, faults>>

PCs == {"idle", "find", "mark", "raise"}
\* Two of a bin may have one stamp: nth tells them apart.
Writes == [bin : Bins, at : 1 .. MaxStamp, nth : 1 .. MaxReadings]
AnyNode == CHOOSE n \in Nodes : TRUE   \* what an idle tick's slot holds

Init ==
    /\ clock = [n \in Nodes |-> 1]
    /\ online = [b \in Bins |-> FALSE] /\ lastSeen = [b \in Bins |-> 0]
    /\ writes = {}
    /\ pc = [t \in Ticks |-> "idle"] /\ node = [t \in Ticks |-> AnyNode]
    /\ cutoff = [t \in Ticks |-> 0]
    /\ unmarked = [t \in Ticks |-> {}] /\ unraised = [t \in Ticks |-> {}]
    /\ alarms = [b \in Bins |-> 0] /\ abandoned = {}
    /\ raced = {} /\ overlapped = FALSE
    /\ readings = 0 /\ faults = 0

----
\* appendReading has archived a reading and sends the update of the bin,
\* lastSeenAt and online included.
Send(b, n) ==
    /\ readings < MaxReadings /\ clock[n] <= MaxStamp
    /\ readings' = readings + 1
    /\ writes' = writes \cup {[bin |-> b, at |-> clock[n], nth |-> readings']}
    /\ UNCHANGED <<clock, online, lastSeen, tickVars, historyVars, faults>>

\* The update is applied: an unconditional $set.
Apply(w) ==
    LET b == w.bin
        held == \E t \in Ticks : b \in unraised[t]
    IN  /\ writes' = writes \ {w}
        /\ online' = [online EXCEPT ![b] = TRUE]
        /\ lastSeen' = [lastSeen EXCEPT ![b] = w.at]
        /\ alarms' = [alarms EXCEPT ![b] = 0]
        /\ abandoned' = abandoned \ {b}
        /\ raced' = IF held THEN raced \cup {b} ELSE raced \ {b}
        /\ UNCHANGED <<clock, readings, tickVars, overlapped, faults>>

\* The update fails, or its replica dies before it is sent.
Lose(w) ==
    /\ faults < MaxFaults /\ faults' = faults + 1
    /\ writes' = writes \ {w}
    /\ UNCHANGED <<clock, online, lastSeen, readings, tickVars, historyVars>>

----
\* The ticks in ts are over.
Release(ts) ==
    /\ pc' = [t \in Ticks |-> IF t \in ts THEN "idle" ELSE pc[t]]
    /\ node' = [t \in Ticks |-> IF t \in ts THEN AnyNode ELSE node[t]]
    /\ cutoff' = [t \in Ticks |-> IF t \in ts THEN 0 ELSE cutoff[t]]
    /\ unmarked' = [t \in Ticks |-> IF t \in ts THEN {} ELSE unmarked[t]]
    /\ unraised' = [t \in Ticks |-> IF t \in ts THEN {} ELSE unraised[t]]

\* The timer of replica n fires: the cutoff is taken and the query sent.
Begin(t, n) ==
    /\ pc[t] = "idle"
    /\ pc' = [pc EXCEPT ![t] = "find"]
    /\ node' = [node EXCEPT ![t] = n]
    /\ cutoff' = [cutoff EXCEPT ![t] = clock[n] - OfflineAfter]
    /\ overlapped' = (overlapped \/ \E u \in Ticks : pc[u] # "idle")
    /\ UNCHANGED <<clock, binVars, unmarked, unraised, alarms, abandoned, raced, faults>>

\* Variant for OfflineMeansSilent: a bin on the cutoff counts as stale.
StaleBinsInclusive(t) == {b \in Bins : online[b] /\ lastSeen[b] <= cutoff[t]}

\* What the query returns: the bins that are online and were last seen
\* before the cutoff.
StaleBins(t) == {b \in Bins : online[b] /\ lastSeen[b] < cutoff[t]}

Find(t) ==
    /\ pc[t] = "find"
    /\ IF StaleBins(t) = {}
       THEN Release({t})
       ELSE /\ pc' = [pc EXCEPT ![t] = "mark"]
            /\ unmarked' = [unmarked EXCEPT ![t] = StaleBins(t)]
            /\ unraised' = [unraised EXCEPT ![t] = StaleBins(t)]
            /\ UNCHANGED <<node, cutoff>>
    /\ UNCHANGED <<clock, binVars, historyVars, faults>>

\* Variant for SingleAlarm and SilenceReported: the update changes nothing.
MarkNothing(t) ==
    /\ pc[t] = "mark"
    /\ \E b \in unmarked[t] : unmarked' = [unmarked EXCEPT ![t] = @ \ {b}]
    /\ UNCHANGED <<clock, binVars, pc, node, cutoff, unraised, historyVars, faults>>

\* The updateMany, by _id alone, reaches one of the bins.
MarkOffline(t) ==
    /\ pc[t] = "mark"
    /\ \E b \in unmarked[t] :
           /\ unmarked' = [unmarked EXCEPT ![t] = @ \ {b}]
           /\ online' = [online EXCEPT ![b] = FALSE]
    /\ UNCHANGED <<clock, lastSeen, writes, readings, pc, node, cutoff, unraised,
                   historyVars, faults>>

\* It answers.
Marked(t) ==
    /\ pc[t] = "mark" /\ unmarked[t] = {}
    /\ pc' = [pc EXCEPT ![t] = "raise"]
    /\ UNCHANGED <<clock, binVars, node, cutoff, unmarked, unraised, historyVars, faults>>

CountAlarm(b) == alarms' = [alarms EXCEPT ![b] = IF @ = 0 THEN 1 ELSE 2]

\* Variant for OfflineReported: the tick returns after its first alert.
RaiseFirst(t) ==
    /\ pc[t] = "raise"
    /\ \E b \in unraised[t] : CountAlarm(b)
    /\ Release({t})
    /\ UNCHANGED <<clock, binVars, abandoned, raced, overlapped, faults>>

\* One alert of the loop has been raised; the last one ends the tick.
Raise(t) ==
    /\ pc[t] = "raise"
    /\ \E b \in unraised[t] :
           /\ CountAlarm(b)
           /\ IF unraised[t] = {b}
              THEN Release({t})
              ELSE /\ unraised' = [unraised EXCEPT ![t] = @ \ {b}]
                   /\ UNCHANGED <<pc, node, cutoff, unmarked>>
    /\ UNCHANGED <<clock, binVars, abandoned, raced, overlapped, faults>>

----
\* Bins that the ticks in ts leave without their alert, offline or about to be.
Abort(ts) ==
    /\ faults < MaxFaults /\ faults' = faults + 1
    /\ abandoned' = abandoned \cup UNION {unraised[t] : t \in ts}
    /\ Release(ts)
    /\ UNCHANGED <<clock, binVars, alarms, raced, overlapped>>

\* A database call of the tick rejects: the tick rejects, and is logged.
CallFails(t) == pc[t] # "idle" /\ Abort({t})

\* A replica dies in the middle of its ticks.
Crash(n) == Abort({t \in Ticks : pc[t] # "idle" /\ node[t] = n})

AdvanceClock(n) ==
    /\ clock[n] < MaxClock
    /\ clock' = [clock EXCEPT ![n] = @ + 1]
    /\ UNCHANGED <<binVars, tickVars, historyVars, faults>>

----
TickStep(t) == Find(t) \/ MarkOffline(t) \/ Marked(t) \/ Raise(t)

Next ==
    \/ \E b \in Bins, n \in Nodes : Send(b, n)
    \/ \E w \in writes : Apply(w) \/ Lose(w)
    \/ \E t \in Ticks : (\E n \in Nodes : Begin(t, n)) \/ TickStep(t) \/ CallFails(t)
    \/ \E n \in Nodes : Crash(n) \/ AdvanceClock(n)

Spec == Init /\ [][Next]_vars

\* Every replica's timer goes on firing and its clock goes on running, and
\* the database answers every call.
FairSpec ==
    /\ Spec
    /\ \A t \in Ticks : WF_vars(TickStep(t))
    /\ \A n \in Nodes : WF_vars(\E t \in Ticks : Begin(t, n)) /\ WF_vars(AdvanceClock(n))
    /\ WF_vars(\E w \in writes : Apply(w))

----
TypeOK ==
    /\ clock \in [Nodes -> 1 .. MaxClock]
    /\ online \in [Bins -> BOOLEAN] /\ lastSeen \in [Bins -> 0 .. MaxStamp]
    /\ writes \subseteq Writes
    /\ pc \in [Ticks -> PCs] /\ node \in [Ticks -> Nodes]
    /\ cutoff \in [Ticks -> Int]
    /\ unmarked \in [Ticks -> SUBSET Bins] /\ unraised \in [Ticks -> SUBSET Bins]
    /\ alarms \in [Bins -> 0 .. 2]
    /\ abandoned \subseteq Bins /\ raced \subseteq Bins /\ overlapped \in BOOLEAN
    /\ readings \in 0 .. MaxReadings /\ faults \in 0 .. MaxFaults

Silent(b) == \E n \in Nodes : lastSeen[b] + OfflineAfter < clock[n]

\* A bin that is shown offline has been silent for longer than OFFLINE_AFTER
\* on some replica's clock, unless its last reading came while a tick that
\* had read an older lastSeenAt still held it (lines 20-29).
OfflineMeansSilent ==
    \A b \in Bins \ raced : ~online[b] /\ lastSeen[b] # 0 => Silent(b)

\* The text of every OFFLINE alert says there has been no data for longer
\* than OFFLINE_AFTER (line 36).
OfflineAlwaysSilent == \A b \in Bins : ~online[b] /\ lastSeen[b] # 0 => Silent(b)

\* However ticks, readings and replicas interleave, a bin that a tick took
\* offline has its alert, or is about to, unless that tick died (lines 26-38:
\* a bin is out of every later query once it is marked).
OfflineReported ==
    \A b \in Bins \ abandoned : ~online[b] /\ lastSeen[b] # 0 =>
        alarms[b] >= 1 \/ \E t \in Ticks : b \in unraised[t]

\* As long as no two ticks overlap, a silence is reported once.
SingleAlarm == ~overlapped => \A b \in Bins \ raced : alarms[b] <= 1

\* A bin that goes silent is taken offline and reported in the end, unless
\* the tick that had to do it died.
SilenceReported ==
    \A b \in Bins : online[b] ~> (~online[b] /\ alarms[b] >= 1) \/ b \in abandoned
----
(***************************************************************************)
(* The inductive invariant behind OfflineReported and OfflineMeansSilent.  *)
(***************************************************************************)

\* A tick marks only bins it will raise an alert for, holds none before its
\* query has answered, and has marked all when it raises the first.
HoldsStale ==
    \A t \in Ticks : /\ unmarked[t] \subseteq unraised[t]
                     /\ pc[t] \in {"idle", "find"} => unraised[t] = {}
                     /\ pc[t] = "raise" => unmarked[t] = {}

\* The cutoff of a tick was in the past of some replica when it was taken.
CutoffPast ==
    \A t \in Ticks : pc[t] = "find" =>
        \E n \in Nodes : cutoff[t] + OfflineAfter <= clock[n]

\* A bin that has sent nothing since a tick found it stale is silent.
HeldSilent == \A t \in Ticks : \A b \in unraised[t] \ raced : Silent(b)

IInv ==
    /\ TypeOK
    /\ HoldsStale
    /\ CutoffPast
    /\ HeldSilent
    /\ OfflineReported
    /\ OfflineMeansSilent

(***************************************************************************)
(* What SingleAlarm needs besides.                                         *)
(***************************************************************************)

OneTick ==
    ~overlapped => \A t, u \in Ticks : pc[t] # "idle" /\ pc[u] # "idle" => t = u

\* A bin a tick has marked stays offline until its next reading is applied.
MarkedAreOffline ==
    \A t \in Ticks : \A b \in (unraised[t] \ unmarked[t]) \ raced : ~online[b]

\* A bin that is online, or that the only tick still has to report, has no
\* alert since its last reading.
NotYetReported ==
    ~overlapped =>
        \A b \in Bins \ raced :
            online[b] \/ (\E t \in Ticks : b \in unraised[t]) => alarms[b] = 0

SingleInv == OneTick /\ MarkedAreOffline /\ NotYetReported /\ SingleAlarm
=============================================================================
