----------------------------- MODULE RuleEngine -----------------------------
(***************************************************************************)
(* Alert rule evaluation: RulesService.evaluate and evaluateBuiltins       *)
(* (services/rules.service.ts) running concurrently on the API replicas,   *)
(* with the administrator's rule editing (routes/rules.routes.ts) and the  *)
(* failures of a replica or of a database call.                            *)
(*                                                                         *)
(* An evaluation is one call of evaluate(); it stops at every await, so    *)
(* each database round trip is an action of its own, and what it read      *)
(* stays in its own variables until it ends.  A statement on one document  *)
(* is atomic.  lastFired = 0 stands for a missing key of the lastFiredAt   *)
(* map; the replicas' clocks start at 1 and need not agree.                *)
(***************************************************************************)
EXTENDS Integers, Sequences, FiniteSets

CONSTANTS
    Nodes,            \* API replicas, each with its own clock and builtin map
    Bins,             \* dustbin ids
    Rules,            \* ids of rule documents, never reused
    Evals,            \* evaluations that can be in flight at a time
    Readings,         \* [metric, value] pairs the devices send
    RuleConfigs,      \* what an administrator can store in a rule
    BuiltinCooldown,  \* BUILTIN_COOLDOWN_MS, in clock ticks
    MaxClock,         \* bound: last clock value of a replica
    MaxReadings,      \* bound: evaluations started
    MaxEdits,         \* bound: rule creations, updates and deletions
    MaxFaults         \* bound: replica crashes and failed database calls

Metrics == {"depth", "gas", "humidity", "temperature"}
Operators == {"gt", "gte", "lt", "lte", "eq"}
BuiltinMetrics == {"depth", "gas"}

Reading == [metric : Metrics, value : Int]
RuleConfig == [enabled : BOOLEAN, metric : Metrics, operator : Operators,
               threshold : Int, cooldownSec : Nat,
               appliesToDustbinIds : SUBSET Bins]
Calls == [node : Nodes, bin : Bins, reading : Readings]

ASSUME InputAssumption ==
    /\ Readings \subseteq Reading /\ RuleConfigs \subseteq RuleConfig
    /\ Calls # {} /\ RuleConfigs # {}
    /\ IsFiniteSet(Evals)
    /\ BuiltinCooldown \in Nat

VARIABLES
    clock,         \* clock[n]: Date.now() on replica n
    epoch,         \* epoch[n]: how often n has been restarted
    builtinLast,   \* builtinLast[n][b][m]: the builtinLastFire map of n
    fresh,         \* rule ids not created yet
    stored,        \* rule ids in the collection
    cfg,           \* cfg[r]: the stored fields of rule r
    lastFired,     \* lastFired[r][b]: lastFiredAt.<b> of rule r
    pc,            \* pc[e]: the await evaluation e is stopped at
    call,          \* call[e]: where evaluation e runs, and its input
    now,           \* now[e]: the Date taken after the rules were read
    snap,          \* snap[e]: the rules as evaluation e read them
    todo,          \* todo[e]: rules of snap[e] that passed the checks, unclaimed
    cur,           \* cur[e]: the rule claimed whose alert is being raised
    fires,         \* history: fires[r][b], the successful claims in order
    builtinFires,  \* history: builtinFires[b][m], the built-in alarms in order
    alerts,        \* history: alerts[r][b], alerts raised for rule r
    lost,          \* history: lost[r][b], claims whose alert was never raised
    arrived, edits, faults  \* counters of the bounds

ruleVars == <<fresh, stored, cfg, edits>>
evalVars == <<pc, call, now, snap, todo, cur, arrived>>
fireVars == <<lastFired, fires>>
builtinVars == <<builtinLast, builtinFires>>
alertVars == <<alerts, lost>>
timeVars == <<clock, epoch, faults>>
vars == <<ruleVars, evalVars, fireVars, builtinVars, alertVars, timeVars>>

PCs == {"idle", "builtin", "find", "loop", "raise"}
Snapshots == [id : Rules, cfg : RuleConfigs, last : Nat]
Fire == [at : Nat, cooldown : Nat]
BuiltinFire == [node : Nodes, epoch : Nat, at : Nat]

\* What an idle evaluation's slot and an uncreated rule hold.
NoCall == CHOOSE c \in Calls : TRUE
DefaultConfig == CHOOSE c \in RuleConfigs : TRUE
PerRuleAndBin(x) == [r \in Rules |-> [b \in Bins |-> x]]

Init ==
    /\ clock = [n \in Nodes |-> 1] /\ epoch = [n \in Nodes |-> 0]
    /\ builtinLast = [n \in Nodes |-> [b \in Bins |-> [m \in BuiltinMetrics |-> 0]]]
    /\ fresh = Rules /\ stored = {}
    /\ cfg = [r \in Rules |-> DefaultConfig]
    /\ lastFired = PerRuleAndBin(0)
    /\ pc = [e \in Evals |-> "idle"] /\ call = [e \in Evals |-> NoCall]
    /\ now = [e \in Evals |-> 0]
    /\ snap = [e \in Evals |-> {}] /\ todo = [e \in Evals |-> {}]
    /\ cur = [e \in Evals |-> {}]
    /\ fires = PerRuleAndBin(<<>>)
    /\ builtinFires = [b \in Bins |-> [m \in BuiltinMetrics |-> <<>>]]
    /\ alerts = PerRuleAndBin(0) /\ lost = PerRuleAndBin(0)
    /\ arrived = 0 /\ edits = 0 /\ faults = 0

----
(***************************************************************************)
(* The pure tests of an evaluation.                                        *)
(***************************************************************************)
Op(operator, a, b) ==
    \/ operator = "gt" /\ a > b
    \/ operator = "gte" /\ a >= b
    \/ operator = "lt" /\ a < b
    \/ operator = "lte" /\ a <= b
    \/ operator = "eq" /\ a = b

InScope(c, b) == c.appliesToDustbinIds = {} \/ b \in c.appliesToDustbinIds

\* Rule c watches bin b and the reading trips its threshold.
Trips(c, b, rd) == InScope(c, b) /\ Op(c.operator, rd.value, c.threshold)

\* Variant for EveryTripCovered: the boundary of the window excluded.
CoolingDownInclusive(s, t) == s.last # 0 /\ t - s.last <= s.cfg.cooldownSec

\* The check against the snapshot: the last firing it shows is too recent.
CoolingDown(s, t) == s.last # 0 /\ t - s.last < s.cfg.cooldownSec

BuiltinTrips(rd) ==
    \/ rd.metric = "depth" /\ rd.value >= 80
    \/ rd.metric = "gas" /\ rd.value >= 300

\* Variant for BuiltinSpacing: one tick early.
ShouldFireBuiltinEarly(n, b, m) ==
    \/ builtinLast[n][b][m] = 0
    \/ clock[n] - builtinLast[n][b][m] >= BuiltinCooldown - 1

\* shouldFireBuiltin: the replica's own map has no recent entry.
ShouldFireBuiltin(n, b, m) ==
    \/ builtinLast[n][b][m] = 0
    \/ clock[n] - builtinLast[n][b][m] >= BuiltinCooldown

\* Variant for TypeOK: a bin the rule never fired for read as before the epoch.
FindResultUnset(b, metric) ==
    {[id |-> r, cfg |-> cfg[r], last |-> lastFired[r][b] - 1] :
        r \in {x \in stored : cfg[x].enabled /\ cfg[x].metric = metric}}

\* What RuleModel.find({ enabled, metric }) returns to an evaluation on bin b.
FindResult(b, metric) ==
    {[id |-> r, cfg |-> cfg[r], last |-> lastFired[r][b]] :
        r \in {x \in stored : cfg[x].enabled /\ cfg[x].metric = metric}}

\* Variant for CooldownSpacing: an update by _id alone.
ClaimFilterById(s, b, t) == s.id \in stored

\* The filter of the conditional update, evaluated by the database.
ClaimFilter(s, b, t) ==
    /\ s.id \in stored
    /\ \/ lastFired[s.id][b] = 0
       \/ lastFired[s.id][b] <= t - s.cfg.cooldownSec

----
(***************************************************************************)
(* One evaluation.                                                         *)
(***************************************************************************)

\* evaluate() is called for a reading; it runs to its first await, which is
\* the built-in alert if one is due and the query for the rules if not.
Arrive(e, n, b, rd) ==
    /\ pc[e] = "idle" /\ arrived < MaxReadings
    /\ arrived' = arrived + 1
    /\ call' = [call EXCEPT ![e] = [node |-> n, bin |-> b, reading |-> rd]]
    /\ IF BuiltinTrips(rd) /\ ShouldFireBuiltin(n, b, rd.metric)
       THEN /\ pc' = [pc EXCEPT ![e] = "builtin"]
            /\ builtinLast' = [builtinLast EXCEPT ![n][b][rd.metric] = clock[n]]
            /\ builtinFires' = [builtinFires EXCEPT ![b][rd.metric] =
                   Append(@, [node |-> n, epoch |-> epoch[n], at |-> clock[n]])]
       ELSE /\ pc' = [pc EXCEPT ![e] = "find"]
            /\ UNCHANGED builtinVars
    /\ UNCHANGED <<ruleVars, fireVars, alertVars, timeVars, now, snap, todo, cur>>

\* The built-in alert is stored.
RaiseBuiltin(e) ==
    /\ pc[e] = "builtin"
    /\ pc' = [pc EXCEPT ![e] = "find"]
    /\ UNCHANGED <<ruleVars, fireVars, builtinVars, alertVars, timeVars,
                   call, now, snap, todo, cur, arrived>>

\* The rules arrive: now is taken once, and the loop's synchronous checks
\* leave the rules that a claim is attempted for.
Find(e) ==
    LET b == call[e].bin
        t == clock[call[e].node]
        found == FindResult(b, call[e].reading.metric)
    IN  /\ pc[e] = "find"
        /\ pc' = [pc EXCEPT ![e] = "loop"]
        /\ now' = [now EXCEPT ![e] = t]
        /\ snap' = [snap EXCEPT ![e] = found]
        /\ todo' = [todo EXCEPT ![e] = {s \in found :
               Trips(s.cfg, b, call[e].reading) /\ ~CoolingDown(s, t)}]
        /\ UNCHANGED <<ruleVars, fireVars, builtinVars, alertVars, timeVars,
                       call, cur, arrived>>

\* The conditional update matches and modifies the rule: evaluation e owns
\* this cooldown window and goes on to raise the alert.
ClaimWins(e, s) ==
    LET b == call[e].bin
        f == [at |-> now[e], cooldown |-> s.cfg.cooldownSec]
    IN  /\ pc[e] = "loop" /\ s \in todo[e]
        /\ ClaimFilter(s, b, now[e])
        /\ lastFired' = [lastFired EXCEPT ![s.id][b] = now[e]]
        /\ fires' = [fires EXCEPT ![s.id][b] = Append(@, f)]
        /\ pc' = [pc EXCEPT ![e] = "raise"]
        /\ cur' = [cur EXCEPT ![e] = {s}]
        /\ todo' = [todo EXCEPT ![e] = @ \ {s}]
        /\ UNCHANGED <<ruleVars, builtinVars, alertVars, timeVars,
                       call, now, snap, arrived>>

\* Variant for AlertPerClaim: modifiedCount is not looked at.
ClaimLosesButRaises(e, s) ==
    LET b == call[e].bin
    IN  /\ pc[e] = "loop" /\ s \in todo[e]
        /\ ~ClaimFilter(s, b, now[e])
        /\ todo' = [todo EXCEPT ![e] = @ \ {s}]
        /\ pc' = [pc EXCEPT ![e] = "raise"]
        /\ cur' = [cur EXCEPT ![e] = {s}]
        /\ UNCHANGED <<ruleVars, fireVars, builtinVars, alertVars, timeVars,
                       call, now, snap, arrived>>

\* modifiedCount = 0: nothing matched, or the document matched and already
\* held this value (when updatedAt has not advanced either).
ClaimLoses(e, s) ==
    LET b == call[e].bin
    IN  /\ pc[e] = "loop" /\ s \in todo[e]
        /\ ~ClaimFilter(s, b, now[e]) \/ lastFired[s.id][b] = now[e]
        /\ todo' = [todo EXCEPT ![e] = @ \ {s}]
        /\ UNCHANGED <<ruleVars, fireVars, builtinVars, alertVars, timeVars,
                       pc, call, now, snap, cur, arrived>>

\* AlertService.raise returns for the claimed rule.
Raise(e, s) ==
    /\ pc[e] = "raise" /\ s \in cur[e]
    /\ alerts' = [alerts EXCEPT ![s.id][call[e].bin] = @ + 1]
    /\ pc' = [pc EXCEPT ![e] = "loop"]
    /\ cur' = [cur EXCEPT ![e] = {}]
    /\ UNCHANGED <<ruleVars, fireVars, builtinVars, timeVars, lost,
                   call, now, snap, todo, arrived>>

\* The evaluations in ends are over: nothing of them is kept.
Release(ends) ==
    /\ pc' = [e \in Evals |-> IF e \in ends THEN "idle" ELSE pc[e]]
    /\ call' = [e \in Evals |-> IF e \in ends THEN NoCall ELSE call[e]]
    /\ now' = [e \in Evals |-> IF e \in ends THEN 0 ELSE now[e]]
    /\ snap' = [e \in Evals |-> IF e \in ends THEN {} ELSE snap[e]]
    /\ todo' = [e \in Evals |-> IF e \in ends THEN {} ELSE todo[e]]
    /\ cur' = [e \in Evals |-> IF e \in ends THEN {} ELSE cur[e]]
    /\ UNCHANGED arrived

\* The loop is through.
Finish(e) ==
    /\ pc[e] = "loop" /\ todo[e] = {}
    /\ Release({e})
    /\ UNCHANGED <<ruleVars, fireVars, builtinVars, alertVars, timeVars>>

----
(***************************************************************************)
(* Failures, time and the administrator.                                   *)
(***************************************************************************)

\* How many evaluations in ends hold a claim on rule r for bin b that has not
\* become an alert.
Unraised(ends, r, b) ==
    Cardinality({e \in ends : call[e].bin = b /\ \E s \in cur[e] : s.id = r})

Abort(ends) ==
    /\ Release(ends)
    /\ lost' = [r \in Rules |-> [b \in Bins |-> lost[r][b] + Unraised(ends, r, b)]]
    /\ faults' = faults + 1
    /\ UNCHANGED <<ruleVars, fireVars, alerts, clock>>

\* A database call rejects: evaluate() rejects at that await, and the rules
\* it had not reached are not evaluated for this reading.
CallFails(e) ==
    /\ pc[e] # "idle" /\ faults < MaxFaults
    /\ Abort({e})
    /\ UNCHANGED <<builtinVars, epoch>>

\* A replica dies and is restarted: its evaluations are gone and its
\* builtin map is empty.
Crash(n) ==
    /\ faults < MaxFaults
    /\ Abort({e \in Evals : pc[e] # "idle" /\ call[e].node = n})
    /\ epoch' = [epoch EXCEPT ![n] = @ + 1]
    /\ builtinLast' = [builtinLast EXCEPT ![n] =
           [b \in Bins |-> [m \in BuiltinMetrics |-> 0]]]
    /\ UNCHANGED builtinFires

Tick(n) ==
    /\ clock[n] < MaxClock
    /\ clock' = [clock EXCEPT ![n] = @ + 1]
    /\ UNCHANGED <<ruleVars, evalVars, fireVars, builtinVars, alertVars, epoch, faults>>

Edit ==
    /\ edits < MaxEdits /\ edits' = edits + 1
    /\ UNCHANGED <<evalVars, fireVars, builtinVars, alertVars, timeVars>>

\* POST /rules
CreateRule(r, c) ==
    /\ r \in fresh /\ Edit
    /\ fresh' = fresh \ {r} /\ stored' = stored \cup {r}
    /\ cfg' = [cfg EXCEPT ![r] = c]

\* PUT /rules/:id: any subset of the fields is set; lastFiredAt never is.
UpdateRule(r, c) ==
    /\ r \in stored /\ Edit
    /\ cfg' = [cfg EXCEPT ![r] = c]
    /\ UNCHANGED <<fresh, stored>>

\* DELETE /rules/:id
DeleteRule(r) ==
    /\ r \in stored /\ Edit
    /\ stored' = stored \ {r}
    /\ UNCHANGED <<fresh, cfg>>

----
EvalStep(e) ==
    \/ RaiseBuiltin(e)
    \/ Find(e)
    \/ \E s \in todo[e] : ClaimWins(e, s) \/ ClaimLoses(e, s)
    \/ \E s \in cur[e] : Raise(e, s)
    \/ Finish(e)

Next ==
    \/ \E e \in Evals, n \in Nodes, b \in Bins, rd \in Readings : Arrive(e, n, b, rd)
    \/ \E e \in Evals : EvalStep(e)
    \/ \E e \in Evals : CallFails(e)
    \/ \E n \in Nodes : Crash(n) \/ Tick(n)
    \/ \E r \in Rules, c \in RuleConfigs : CreateRule(r, c) \/ UpdateRule(r, c)
    \/ \E r \in Rules : DeleteRule(r)

Spec == Init /\ [][Next]_vars

----
(***************************************************************************)
(* Properties.                                                             *)
(***************************************************************************)

TypeOK ==
    /\ clock \in [Nodes -> Nat] /\ epoch \in [Nodes -> Nat]
    /\ builtinLast \in [Nodes -> [Bins -> [BuiltinMetrics -> Nat]]]
    /\ fresh \subseteq Rules /\ stored \subseteq Rules
    /\ cfg \in [Rules -> RuleConfigs]
    /\ lastFired \in [Rules -> [Bins -> Nat]]
    /\ pc \in [Evals -> PCs] /\ call \in [Evals -> Calls]
    /\ now \in [Evals -> Nat]
    /\ snap \in [Evals -> SUBSET Snapshots]
    /\ todo \in [Evals -> SUBSET Snapshots]
    /\ cur \in [Evals -> SUBSET Snapshots]
    /\ fires \in [Rules -> [Bins -> Seq(Fire)]]
    /\ builtinFires \in [Bins -> [BuiltinMetrics -> Seq(BuiltinFire)]]
    /\ alerts \in [Rules -> [Bins -> Nat]] /\ lost \in [Rules -> [Bins -> Nat]]
    /\ arrived \in Nat /\ edits \in Nat /\ faults \in Nat

\* Two firings of one rule for one bin are at least the later one's cooldown
\* apart, whichever replicas made them, however their clocks disagree and
\* whatever an administrator changed in between (lines 63-82: the snapshot
\* check alone would let two concurrent evaluations fire together).
CooldownSpacing ==
    \A r \in Rules, b \in Bins : \A j \in DOMAIN fires[r][b] : \A i \in 1 .. (j - 1) :
        fires[r][b][i].at + fires[r][b][j].cooldown <= fires[r][b][j].at

\* Some firing of rule r for bin b explains why nothing more was raised at t.
Covered(r, b, t, cooldown) ==
    \E i \in DOMAIN fires[r][b] :
        fires[r][b][i].at + cooldown > t \/ fires[r][b][i].at = t

\* An evaluation that ran to its end has left no alarm out: every enabled
\* rule its reading trips has fired for this bin within the rule's cooldown
\* (by this evaluation or by the one that took the window), unless the rule
\* was deleted meanwhile.
EveryTripCovered ==
    \A e \in Evals : pc[e] = "loop" /\ todo[e] = {} =>
        \A s \in snap[e] :
            Trips(s.cfg, call[e].bin, call[e].reading) =>
                \/ s.id \notin stored
                \/ Covered(s.id, call[e].bin, now[e], s.cfg.cooldownSec)

\* Every window claimed becomes exactly one alert, except the one an
\* evaluation is about to raise and those whose evaluation was cut off
\* between its claim and its alert (lines 82-84).
AlertPerClaim ==
    \A r \in Rules, b \in Bins :
        Len(fires[r][b]) = alerts[r][b] + lost[r][b] + Unraised(Evals, r, b)

\* One life of one replica keeps the built-in cooldown for each bin and type.
BuiltinSpacing ==
    \A b \in Bins, m \in BuiltinMetrics :
        LET fs == builtinFires[b][m]
        IN  \A j \in DOMAIN fs : \A i \in 1 .. (j - 1) :
                fs[i].node = fs[j].node /\ fs[i].epoch = fs[j].epoch =>
                    fs[i].at + BuiltinCooldown <= fs[j].at

\* rules.service.ts:44 and 12-13 say the built-in alarms have a cooldown per
\* bin.  It is kept per replica and per process life.
PerBinBuiltinCooldown ==
    \A b \in Bins, m \in BuiltinMetrics :
        LET fs == builtinFires[b][m]
        IN  \A j \in DOMAIN fs : \A i \in 1 .. (j - 1) :
                fs[i].at + BuiltinCooldown <= fs[j].at

\* The stored time of the last firing never goes back, although an
\* evaluation writes a time it read before its claim, on a clock of its own.
LastFiredMonotone ==
    [][\A r \in Rules, b \in Bins : lastFired'[r][b] >= lastFired[r][b]]_vars
----
(***************************************************************************)
(* The inductive invariant behind CooldownSpacing and EveryTripCovered.    *)
(***************************************************************************)

\* Clocks never show 0, so neither does a Date taken from one.
DatesPositive ==
    /\ \A n \in Nodes : clock[n] >= 1
    /\ \A e \in Evals : pc[e] \in {"loop", "raise"} => now[e] >= 1

\* The stored time is that of the latest claim.
LastIsLatest ==
    \A r \in Rules, b \in Bins :
        /\ fires[r][b] = <<>> => lastFired[r][b] = 0
        /\ fires[r][b] # <<>> => /\ lastFired[r][b] = fires[r][b][Len(fires[r][b])].at
                                 /\ lastFired[r][b] >= 1

\* Whatever an evaluation has passed over is accounted for, at any time.
PassedOverCovered ==
    \A e \in Evals : pc[e] \in {"loop", "raise"} =>
        \A s \in snap[e] :
            /\ s.id \notin fresh
            /\ Trips(s.cfg, call[e].bin, call[e].reading) =>
                   \/ s \in todo[e]
                   \/ s.id \notin stored
                   \/ Covered(s.id, call[e].bin, now[e], s.cfg.cooldownSec)

IInv ==
    /\ TypeOK
    /\ DatesPositive
    /\ LastIsLatest
    /\ CooldownSpacing
    /\ stored \cap fresh = {}
    /\ PassedOverCovered

\* Behind AlertPerClaim: an evaluation owes the alert of the one claim it has
\* won and not raised yet.
OneAlertDue ==
    \A e \in Evals : IF pc[e] = "raise" THEN \E s \in Snapshots : cur[e] = {s}
                                        ELSE cur[e] = {}

\* Behind BuiltinSpacing: a replica's map holds the time of its last firing in
\* this life.
MapHoldsLatest ==
    \A b \in Bins, m \in BuiltinMetrics : \A i \in DOMAIN builtinFires[b][m] :
        LET f == builtinFires[b][m][i]
        IN  /\ f.at >= 1 /\ f.epoch <= epoch[f.node]
            /\ f.epoch = epoch[f.node] => f.at <= builtinLast[f.node][b][m]

ClaimInv == OneAlertDue /\ AlertPerClaim
BuiltinInv == MapHoldsLatest /\ BuiltinSpacing
=============================================================================
