-------------------------- MODULE RuleEngineProofs --------------------------
(***************************************************************************)
(* TLAPS proofs about RuleEngine, for any sets of replicas, bins, rules,   *)
(* readings and rule contents, and any number of concurrent evaluations.   *)
(***************************************************************************)
EXTENDS RuleEngine, TLAPS, SequenceTheorems, FiniteSetTheorems

LEMMA NoCallType == NoCall \in Calls
  BY InputAssumption DEF NoCall

LEMMA DefaultConfigType == DefaultConfig \in RuleConfigs
  BY InputAssumption DEF DefaultConfig

LEMMA UnraisedType ==
  ASSUME NEW ends \in SUBSET Evals, NEW r, NEW b
  PROVE  Unraised(ends, r, b) \in Nat
  BY InputAssumption, FS_Subset, FS_CardinalityType DEF Unraised

\* What find() returns has the type of a snapshot.
LEMMA FindResultType ==
  ASSUME TypeOK, NEW b \in Bins, NEW m
  PROVE  FindResult(b, m) \subseteq Snapshots
  BY DEF TypeOK, FindResult, Snapshots

LEMMA InitTypeOK == Init => TypeOK
  <1> SUFFICES ASSUME Init PROVE TypeOK
    OBVIOUS
  <1> USE NoCallType, DefaultConfigType DEF Init, PerRuleAndBin, PCs
  <1>1. fires \in [Rules -> [Bins -> Seq(Fire)]]
    OBVIOUS
  <1>2. builtinFires \in [Bins -> [BuiltinMetrics -> Seq(BuiltinFire)]]
    OBVIOUS
  <1>3. QED
    BY <1>1, <1>2 DEF TypeOK

\* The variables of the evaluations keep their types when some of them end.
LEMMA ReleaseType ==
  ASSUME TypeOK, NEW ends, Release(ends)
  PROVE  /\ pc' \in [Evals -> PCs] /\ call' \in [Evals -> Calls]
         /\ now' \in [Evals -> Nat]
         /\ snap' \in [Evals -> SUBSET Snapshots]
         /\ todo' \in [Evals -> SUBSET Snapshots]
         /\ cur' \in [Evals -> SUBSET Snapshots]
         /\ arrived' \in Nat
  BY NoCallType DEF TypeOK, Release, PCs

LEMMA AbortType ==
  ASSUME TypeOK, NEW ends \in SUBSET Evals, Abort(ends)
  PROVE  /\ lost' \in [Rules -> [Bins -> Nat]]
         /\ faults' \in Nat
  <1>1. \A r \in Rules, b \in Bins : Unraised(ends, r, b) \in Nat
    BY UnraisedType
  <1>2. QED
    BY <1>1 DEF TypeOK, Abort

LEMMA NextTypeOK == TypeOK /\ [Next]_vars => TypeOK'
  <1> SUFFICES ASSUME TypeOK, [Next]_vars PROVE TypeOK'
    OBVIOUS
  <1> USE DEF PCs
  <1>1. ASSUME NEW e \in Evals, NEW n \in Nodes, NEW b \in Bins, NEW rd \in Readings,
               Arrive(e, n, b, rd)
        PROVE  TypeOK'
    <2>1. [node |-> n, bin |-> b, reading |-> rd] \in Calls
      BY DEF Calls
    <2>2. /\ call' \in [Evals -> Calls] /\ arrived' \in Nat
          /\ UNCHANGED <<ruleVars, fireVars, alertVars, timeVars, now, snap, todo, cur>>
          /\ UNCHANGED <<fresh, stored, cfg, edits, lastFired, fires, alerts, lost,
                         clock, epoch, faults>>
      BY <1>1, <2>1 DEF TypeOK, Arrive, ruleVars, fireVars, alertVars, timeVars
    <2>3. CASE BuiltinTrips(rd) /\ ShouldFireBuiltin(n, b, rd.metric)
      <3>1. rd.metric \in BuiltinMetrics
        BY <2>3 DEF BuiltinTrips, BuiltinMetrics
      <3> DEFINE f == [node |-> n, epoch |-> epoch[n], at |-> clock[n]]
      <3>2. f \in BuiltinFire
        BY DEF TypeOK, BuiltinFire
      <3> HIDE DEF f
      <3>3. builtinFires' \in [Bins -> [BuiltinMetrics -> Seq(BuiltinFire)]]
        <4>1. Append(builtinFires[b][rd.metric], f) \in Seq(BuiltinFire)
          BY <3>1, <3>2 DEF TypeOK
        <4>2. builtinFires' = [builtinFires EXCEPT ![b][rd.metric] =
                                 Append(builtinFires[b][rd.metric], f)]
          BY <1>1, <2>3 DEF Arrive, f
        <4>3. QED
          BY <3>1, <4>1, <4>2 DEF TypeOK
      <3>4. builtinLast' \in [Nodes -> [Bins -> [BuiltinMetrics -> Nat]]]
        <4>1. builtinLast' = [builtinLast EXCEPT ![n][b][rd.metric] = clock[n]]
          BY <1>1, <2>3 DEF Arrive
        <4>2. QED
          BY <3>1, <4>1 DEF TypeOK
      <3>5. pc' = [pc EXCEPT ![e] = "builtin"]
        BY <1>1, <2>3 DEF Arrive
      <3>6. QED
        BY <2>2, <3>3, <3>4, <3>5 DEF TypeOK
    <2>4. CASE ~(BuiltinTrips(rd) /\ ShouldFireBuiltin(n, b, rd.metric))
      <3>1. pc' = [pc EXCEPT ![e] = "find"] /\ UNCHANGED builtinVars
        BY <1>1, <2>4 DEF Arrive
      <3>2. QED
        BY <2>2, <3>1 DEF TypeOK, builtinVars
    <2>5. QED
      BY <2>3, <2>4
  <1>2. ASSUME NEW e \in Evals, RaiseBuiltin(e)
        PROVE  TypeOK'
    BY <1>2 DEF TypeOK, RaiseBuiltin, ruleVars, fireVars, builtinVars, alertVars, timeVars
  <1>3. ASSUME NEW e \in Evals, Find(e)
        PROVE  TypeOK'
    <2> DEFINE found == FindResult(call[e].bin, call[e].reading.metric)
    <2>1. call[e].bin \in Bins /\ call[e].node \in Nodes
      BY DEF TypeOK, Calls
    <2>2. found \in SUBSET Snapshots
      BY <2>1, FindResultType
    <2>3. clock[call[e].node] \in Nat
      BY <2>1 DEF TypeOK
    <2>4. \A t : {s \in found : Trips(s.cfg, call[e].bin, call[e].reading)
                                 /\ ~CoolingDown(s, t)} \in SUBSET Snapshots
      BY <2>2
    <2> HIDE DEF found
    <2>5. QED
      BY <1>3, <2>2, <2>3, <2>4
      DEF TypeOK, Find, found, ruleVars, fireVars, builtinVars, alertVars, timeVars
  <1>4. ASSUME NEW e \in Evals, NEW s \in todo[e], ClaimWins(e, s)
        PROVE  TypeOK'
    <2>1. s \in Snapshots /\ call[e].bin \in Bins
      BY DEF TypeOK, Calls
    <2>2. s.id \in Rules /\ s.cfg.cooldownSec \in Nat
      BY <2>1, InputAssumption DEF Snapshots, RuleConfig
    <2> DEFINE f == [at |-> now[e], cooldown |-> s.cfg.cooldownSec]
    <2>3. f \in Fire
      BY <2>2 DEF TypeOK, Fire
    <2> HIDE DEF f
    <2>4. fires' \in [Rules -> [Bins -> Seq(Fire)]]
      <3>1. Append(fires[s.id][call[e].bin], f) \in Seq(Fire)
        BY <2>1, <2>2, <2>3 DEF TypeOK
      <3>2. fires' = [fires EXCEPT ![s.id][call[e].bin] =
                        Append(fires[s.id][call[e].bin], f)]
        BY <1>4 DEF ClaimWins, f
      <3>3. QED
        BY <2>1, <2>2, <3>1, <3>2 DEF TypeOK
    <2>5. QED
      BY <1>4, <2>1, <2>2, <2>4
      DEF TypeOK, ClaimWins, ruleVars, builtinVars, alertVars, timeVars
  <1>5. ASSUME NEW e \in Evals, NEW s \in todo[e], ClaimLoses(e, s)
        PROVE  TypeOK'
    BY <1>5 DEF TypeOK, ClaimLoses, ruleVars, fireVars, builtinVars, alertVars, timeVars
  <1>6. ASSUME NEW e \in Evals, NEW s \in cur[e], Raise(e, s)
        PROVE  TypeOK'
    <2>1. s.id \in Rules /\ call[e].bin \in Bins
      BY DEF TypeOK, Snapshots, Calls
    <2>2. alerts' \in [Rules -> [Bins -> Nat]]
      <3>1. alerts' = [alerts EXCEPT ![s.id][call[e].bin] = alerts[s.id][call[e].bin] + 1]
        BY <1>6 DEF Raise
      <3>2. alerts[s.id][call[e].bin] + 1 \in Nat
        BY <2>1 DEF TypeOK
      <3>3. QED
        BY <2>1, <3>1, <3>2 DEF TypeOK
    <2>3. QED
      BY <1>6, <2>2 DEF TypeOK, Raise, ruleVars, fireVars, builtinVars, timeVars
  <1>7. ASSUME NEW e \in Evals, Finish(e)
        PROVE  TypeOK'
    BY <1>7, ReleaseType
    DEF TypeOK, Finish, ruleVars, fireVars, builtinVars, alertVars, timeVars
  <1>8. ASSUME NEW e \in Evals, CallFails(e)
        PROVE  TypeOK'
    <2>1. Abort({e}) /\ Release({e})
      BY <1>8 DEF CallFails, Abort
    <2>2. QED
      BY <1>8, <2>1, ReleaseType, AbortType
      DEF TypeOK, CallFails, Abort, ruleVars, fireVars, builtinVars
  <1>9. ASSUME NEW n \in Nodes, Crash(n)
        PROVE  TypeOK'
    <2> DEFINE ends == {e \in Evals : pc[e] # "idle" /\ call[e].node = n}
    <2>1. Abort(ends) /\ Release(ends)
      BY <1>9 DEF Crash, Abort
    <2>2. /\ epoch' \in [Nodes -> Nat]
          /\ builtinLast' \in [Nodes -> [Bins -> [BuiltinMetrics -> Nat]]]
      BY <1>9 DEF TypeOK, Crash
    <2>3. ends \in SUBSET Evals
      OBVIOUS
    <2> HIDE DEF ends
    <2>4. QED
      BY <1>9, <2>1, <2>2, <2>3, ReleaseType, AbortType
      DEF TypeOK, Crash, Abort, ruleVars, fireVars
  <1>10. ASSUME NEW n \in Nodes, Tick(n)
         PROVE  TypeOK'
    BY <1>10 DEF TypeOK, Tick, ruleVars, evalVars, fireVars, builtinVars, alertVars
  <1>11. ASSUME NEW r \in Rules, NEW c \in RuleConfigs, CreateRule(r, c)
         PROVE  TypeOK'
    BY <1>11
    DEF TypeOK, CreateRule, Edit, evalVars, fireVars, builtinVars, alertVars, timeVars
  <1>12. ASSUME NEW r \in Rules, NEW c \in RuleConfigs, UpdateRule(r, c)
         PROVE  TypeOK'
    BY <1>12
    DEF TypeOK, UpdateRule, Edit, evalVars, fireVars, builtinVars, alertVars, timeVars
  <1>13. ASSUME NEW r \in Rules, DeleteRule(r)
         PROVE  TypeOK'
    BY <1>13
    DEF TypeOK, DeleteRule, Edit, evalVars, fireVars, builtinVars, alertVars, timeVars
  <1>14. CASE UNCHANGED vars
    BY <1>14 DEF TypeOK, vars, ruleVars, evalVars, fireVars, builtinVars, alertVars, timeVars
  <1>15. QED
    BY <1>1, <1>2, <1>3, <1>4, <1>5, <1>6, <1>7, <1>8, <1>9, <1>10, <1>11, <1>13, <1>14, <1>12
    DEF Next, EvalStep

\* Every variable keeps its type, for every value of the constants.
THEOREM TypeCorrect == Spec => []TypeOK
  <1>1. QED
    BY InitTypeOK, NextTypeOK, PTL DEF Spec

----
(***************************************************************************)
(* The spacing of the firings and the completeness of an evaluation.       *)
(***************************************************************************)

\* While nothing is claimed, what is known of the claims stays.
LEMMA ClaimsFrame ==
  ASSUME LastIsLatest, CooldownSpacing, UNCHANGED fireVars
  PROVE  LastIsLatest' /\ CooldownSpacing'
  BY DEF LastIsLatest, CooldownSpacing, fireVars

\* Any firing is followed by firings no earlier, so none is later than lastFired.
LEMMA NoneAfterLast ==
  ASSUME TypeOK, LastIsLatest, CooldownSpacing,
         NEW r \in Rules, NEW b \in Bins, NEW i \in DOMAIN fires[r][b]
  PROVE  fires[r][b][i].at <= lastFired[r][b]
  <1> DEFINE fs == fires[r][b]
  <1>1. fs \in Seq(Fire)
    BY DEF TypeOK
  <1>2. Len(fs) \in Nat /\ i \in 1 .. Len(fs) /\ fs # <<>>
    BY <1>1
  <1>3. lastFired[r][b] = fs[Len(fs)].at
    BY <1>2 DEF LastIsLatest
  <1>4. CASE i = Len(fs)
    <2>1. fs[i] \in Fire
      BY <1>1, <1>2
    <2>2. QED
      BY <1>3, <1>4, <2>1 DEF Fire
  <1>5. CASE i # Len(fs)
    <2>1. i \in 1 .. (Len(fs) - 1) /\ Len(fs) \in DOMAIN fs
      BY <1>1, <1>2, <1>5
    <2>2. fs[i].at + fs[Len(fs)].cooldown <= fs[Len(fs)].at
      BY <2>1 DEF CooldownSpacing
    <2>3. fs[i] \in Fire /\ fs[Len(fs)] \in Fire
      BY <1>1, <2>1
    <2>4. QED
      BY <1>3, <2>2, <2>3 DEF Fire
  <1>6. QED
    BY <1>4, <1>5

\* What ClaimWins knows and does, in the terms the proofs below need.
LEMMA ClaimWinsFacts ==
  ASSUME TypeOK, DatesPositive, NEW e \in Evals, NEW s \in todo[e], ClaimWins(e, s)
  PROVE  LET b == call[e].bin
             f == [at |-> now[e], cooldown |-> s.cfg.cooldownSec]
         IN  /\ s.id \in Rules /\ b \in Bins /\ f \in Fire /\ now[e] >= 1 /\ now[e] \in Nat
             /\ \/ lastFired[s.id][b] = 0
                \/ lastFired[s.id][b] + f.cooldown <= now[e]
             /\ lastFired' = [lastFired EXCEPT ![s.id][b] = now[e]]
             /\ fires' = [fires EXCEPT ![s.id][b] = Append(fires[s.id][b], f)]
  <1>1. s \in Snapshots /\ call[e].bin \in Bins
    BY DEF TypeOK, Calls
  <1>2. s.id \in Rules /\ s.cfg.cooldownSec \in Nat /\ now[e] \in Nat
    BY <1>1, InputAssumption DEF TypeOK, Snapshots, RuleConfig
  <1>3. now[e] >= 1
    BY DEF ClaimWins, DatesPositive
  <1>4. \/ lastFired[s.id][call[e].bin] = 0
        \/ lastFired[s.id][call[e].bin] <= now[e] - s.cfg.cooldownSec
    BY DEF ClaimWins, ClaimFilter
  <1>5. lastFired[s.id][call[e].bin] \in Nat
    BY <1>1, <1>2 DEF TypeOK
  <1>6. [at |-> now[e], cooldown |-> s.cfg.cooldownSec] \in Fire
    BY <1>2 DEF Fire
  <1>7. \/ lastFired[s.id][call[e].bin] = 0
        \/ lastFired[s.id][call[e].bin] + s.cfg.cooldownSec <= now[e]
    BY <1>2, <1>4, <1>5
  <1>8. QED
    BY <1>1, <1>2, <1>3, <1>6, <1>7 DEF ClaimWins

\* A claim keeps the spacing: the filter compares with the latest firing.
LEMMA ClaimKeepsSpacing ==
  ASSUME TypeOK, DatesPositive, LastIsLatest, CooldownSpacing,
         NEW e \in Evals, NEW s \in todo[e], ClaimWins(e, s)
  PROVE  LastIsLatest' /\ CooldownSpacing'
  <1> DEFINE bb == call[e].bin
             f == [at |-> now[e], cooldown |-> s.cfg.cooldownSec]
             fs == fires[s.id][bb]
  <1>1. /\ s.id \in Rules /\ bb \in Bins /\ f \in Fire /\ now[e] >= 1 /\ now[e] \in Nat
        /\ lastFired[s.id][bb] = 0 \/ lastFired[s.id][bb] + f.cooldown <= now[e]
        /\ lastFired' = [lastFired EXCEPT ![s.id][bb] = now[e]]
        /\ fires' = [fires EXCEPT ![s.id][bb] = Append(fs, f)]
    BY ClaimWinsFacts
  <1>2. f.at = now[e] /\ f.cooldown \in Nat
    BY <1>1 DEF Fire
  <1>3. fs \in Seq(Fire)
    BY <1>1 DEF TypeOK
  <1> HIDE DEF f, fs, bb
  <1>4. /\ Append(fs, f) # <<>> /\ Len(Append(fs, f)) = Len(fs) + 1 /\ Len(fs) \in Nat
        /\ Append(fs, f)[Len(fs) + 1] = f
        /\ \A i \in 1 .. Len(fs) : Append(fs, f)[i] = fs[i]
        /\ DOMAIN Append(fs, f) = 1 .. (Len(fs) + 1)
    BY <1>1, <1>3
  <1>5. fires'[s.id][bb] = Append(fs, f) /\ lastFired'[s.id][bb] = now[e]
    BY <1>1 DEF TypeOK
  <1>6. \A r \in Rules, b \in Bins : <<r, b>> # <<s.id, bb>> =>
            fires'[r][b] = fires[r][b] /\ lastFired'[r][b] = lastFired[r][b]
    BY <1>1 DEF TypeOK
  <1>7. LastIsLatest'
    <2> SUFFICES ASSUME NEW r \in Rules, NEW b \in Bins
                 PROVE  /\ fires'[r][b] = <<>> => lastFired'[r][b] = 0
                        /\ fires'[r][b] # <<>> =>
                              /\ lastFired'[r][b] = fires'[r][b][Len(fires'[r][b])].at
                              /\ lastFired'[r][b] >= 1
      BY DEF LastIsLatest
    <2>1. CASE <<r, b>> = <<s.id, bb>>
      BY <1>1, <1>2, <1>4, <1>5, <2>1
    <2>2. CASE <<r, b>> # <<s.id, bb>>
      BY <1>6, <2>2 DEF LastIsLatest
    <2>3. QED
      BY <2>1, <2>2
  <1>8. CooldownSpacing'
    <2> SUFFICES ASSUME NEW r \in Rules, NEW b \in Bins,
                        NEW j \in DOMAIN fires'[r][b], NEW i \in 1 .. (j - 1)
                 PROVE  fires'[r][b][i].at + fires'[r][b][j].cooldown <= fires'[r][b][j].at
      BY DEF CooldownSpacing
    <2>1. CASE <<r, b>> = <<s.id, bb>> /\ j = Len(fs) + 1
      <3>1. i \in 1 .. Len(fs) /\ i \in DOMAIN fs
        BY <1>3, <1>4, <2>1
      <3>2. fs[i].at <= lastFired[s.id][bb] /\ fs[i] \in Fire
        BY <1>1, <1>3, <3>1, NoneAfterLast DEF fs
      <3>3. lastFired[s.id][bb] # 0
        <4>1. fs # <<>>
          BY <1>3, <3>1
        <4>2. QED
          BY <1>1, <4>1 DEF LastIsLatest, fs
      <3>4. lastFired[s.id][bb] \in Nat /\ fs[i].at \in Nat
        <4>1. lastFired \in [Rules -> [Bins -> Nat]]
          BY DEF TypeOK
        <4>2. QED
          BY <1>1, <3>2, <4>1 DEF Fire
      <3>5. fires'[r][b][i] = fs[i] /\ fires'[r][b][j] = f
        BY <1>4, <1>5, <2>1, <3>1
      <3>6. lastFired[s.id][bb] + f.cooldown <= now[e]
        BY <1>1, <3>3
      <3>7. fs[i].at + f.cooldown <= now[e]
        BY <1>1, <1>2, <3>2, <3>4, <3>6
      <3>8. QED
        BY <1>2, <3>5, <3>7
    <2>2. CASE <<r, b>> = <<s.id, bb>> /\ j # Len(fs) + 1
      <3>1. j \in DOMAIN fs /\ j \in 1 .. Len(fs) /\ i \in 1 .. Len(fs)
        BY <1>3, <1>4, <1>5, <2>2
      <3>2. fs[i].at + fs[j].cooldown <= fs[j].at
        BY <1>1, <3>1 DEF CooldownSpacing, fs
      <3>3. QED
        BY <1>4, <1>5, <2>2, <3>1, <3>2
    <2>3. CASE <<r, b>> # <<s.id, bb>>
      BY <1>6, <2>3 DEF CooldownSpacing
    <2>4. QED
      BY <2>1, <2>2, <2>3
  <1>9. QED
    BY <1>7, <1>8

\* A firing once recorded still covers what it covered after more firings.
LEMMA CoveredGrows ==
  ASSUME NEW e \in Evals, NEW s \in todo[e], TypeOK, DatesPositive, ClaimWins(e, s),
         NEW r \in Rules, NEW b \in Bins, NEW t, NEW cd, Covered(r, b, t, cd)
  PROVE  Covered(r, b, t, cd)'
  <1> DEFINE bb == call[e].bin
             f == [at |-> now[e], cooldown |-> s.cfg.cooldownSec]
  <1>1. /\ s.id \in Rules /\ bb \in Bins /\ f \in Fire
        /\ fires' = [fires EXCEPT ![s.id][bb] = Append(fires[s.id][bb], f)]
    BY ClaimWinsFacts
  <1> HIDE DEF f, bb
  <1>2. PICK i \in DOMAIN fires[r][b] :
          fires[r][b][i].at + cd > t \/ fires[r][b][i].at = t
    BY DEF Covered
  <1>3. fires[r][b] \in Seq(Fire)
    BY DEF TypeOK
  <1>4. CASE <<r, b>> = <<s.id, bb>>
    <2>1. fires'[r][b] = Append(fires[r][b], f)
      BY <1>1, <1>4 DEF TypeOK
    <2>2. i \in DOMAIN fires'[r][b] /\ fires'[r][b][i] = fires[r][b][i]
      BY <1>1, <1>2, <1>3, <2>1
    <2>3. QED
      BY <1>2, <2>2 DEF Covered
  <1>5. CASE <<r, b>> # <<s.id, bb>>
    <2>1. fires'[r][b] = fires[r][b]
      BY <1>1, <1>5 DEF TypeOK
    <2>2. QED
      BY <1>2, <2>1 DEF Covered
  <1>6. QED
    BY <1>4, <1>5

\* A recent last firing covers.
LEMMA LastCovers ==
  ASSUME TypeOK, LastIsLatest, NEW r \in Rules, NEW b \in Bins, NEW t \in Nat,
         NEW cd \in Nat, lastFired[r][b] # 0,
         lastFired[r][b] + cd > t \/ lastFired[r][b] = t
  PROVE  Covered(r, b, t, cd)
  <1>1. fires[r][b] \in Seq(Fire) /\ fires[r][b] # <<>>
    BY DEF TypeOK, LastIsLatest
  <1>2. Len(fires[r][b]) \in DOMAIN fires[r][b]
    BY <1>1
  <1>3. fires[r][b][Len(fires[r][b])].at = lastFired[r][b]
    BY <1>1 DEF LastIsLatest
  <1>4. QED
    BY <1>2, <1>3 DEF Covered

\* Evaluations that end, and those that do not move, keep PassedOverCovered.
LEMMA PassedOverFrame ==
  ASSUME PassedOverCovered, NEW ends,
         \A e \in Evals : \/ pc'[e] \notin {"loop", "raise"}
                          \/ /\ pc'[e] \in {"loop", "raise"} => pc[e] \in {"loop", "raise"}
                             /\ snap'[e] = snap[e] /\ todo'[e] = todo[e]
                             /\ call'[e] = call[e] /\ now'[e] = now[e],
         UNCHANGED fires, fresh' \subseteq fresh, stored' \subseteq stored
  PROVE  PassedOverCovered'
  BY DEF PassedOverCovered, Covered

LEMMA InitIInv == Init => IInv
  <1> SUFFICES ASSUME Init PROVE IInv
    OBVIOUS
  <1>1. TypeOK
    BY InitTypeOK
  <1>2. QED
    BY <1>1
    DEF Init, IInv, DatesPositive, LastIsLatest, CooldownSpacing, PassedOverCovered,
        PerRuleAndBin

LEMMA NextIInv == IInv /\ [Next]_vars => IInv'
  <1> SUFFICES ASSUME IInv, [Next]_vars PROVE IInv'
    OBVIOUS
  <1>0. TypeOK /\ TypeOK' /\ DatesPositive /\ LastIsLatest /\ CooldownSpacing
        /\ stored \cap fresh = {} /\ PassedOverCovered
    BY NextTypeOK DEF IInv
  <1>1. ASSUME NEW e \in Evals, NEW n \in Nodes, NEW b \in Bins, NEW rd \in Readings,
               Arrive(e, n, b, rd)
        PROVE  IInv'
    <2>1. /\ UNCHANGED <<fireVars, ruleVars, timeVars, now, snap, todo>>
          /\ \A x \in Evals \ {e} : pc'[x] = pc[x] /\ call'[x] = call[x]
          /\ pc'[e] \notin {"loop", "raise"}
      BY <1>0, <1>1 DEF TypeOK, Arrive
    <2>2. LastIsLatest' /\ CooldownSpacing'
      BY <1>0, <2>1, ClaimsFrame
    <2>3. PassedOverCovered'
      BY <1>0, <2>1, PassedOverFrame DEF fireVars, ruleVars
    <2>4. DatesPositive' /\ (stored \cap fresh = {})'
      BY <1>0, <2>1 DEF DatesPositive, ruleVars, timeVars
    <2>5. QED
      BY <1>0, <2>2, <2>3, <2>4 DEF IInv
  <1>2. ASSUME NEW e \in Evals, RaiseBuiltin(e)
        PROVE  IInv'
    <2>1. /\ UNCHANGED <<fireVars, ruleVars, timeVars, call, now, snap, todo>>
          /\ \A x \in Evals \ {e} : pc'[x] = pc[x]
          /\ pc'[e] \notin {"loop", "raise"}
      BY <1>0, <1>2 DEF TypeOK, RaiseBuiltin
    <2>2. LastIsLatest' /\ CooldownSpacing'
      BY <1>0, <2>1, ClaimsFrame
    <2>3. PassedOverCovered'
      BY <1>0, <2>1, PassedOverFrame DEF fireVars, ruleVars
    <2>4. DatesPositive' /\ (stored \cap fresh = {})'
      BY <1>0, <2>1 DEF DatesPositive, ruleVars, timeVars
    <2>5. QED
      BY <1>0, <2>2, <2>3, <2>4 DEF IInv
  <1>3. ASSUME NEW e \in Evals, Find(e)
        PROVE  IInv'
    <2> DEFINE b == call[e].bin
               t == clock[call[e].node]
               rd == call[e].reading
               found == FindResult(b, rd.metric)
    <2>1. b \in Bins /\ t \in Nat /\ t >= 1
      BY <1>0 DEF TypeOK, Calls, DatesPositive
    <2>2. /\ UNCHANGED <<fireVars, ruleVars, timeVars, call>>
          /\ \A x \in Evals \ {e} : /\ pc'[x] = pc[x] /\ now'[x] = now[x]
                                    /\ snap'[x] = snap[x] /\ todo'[x] = todo[x]
          /\ now'[e] = t /\ snap'[e] = found
          /\ todo'[e] = {s \in found : Trips(s.cfg, b, rd) /\ ~CoolingDown(s, t)}
      BY <1>0, <1>3 DEF TypeOK, Find
    <2>3. LastIsLatest' /\ CooldownSpacing'
      BY <1>0, <2>2, ClaimsFrame
    <2>4. ASSUME NEW s \in found
          PROVE  /\ s.id \in stored /\ s.id \in Rules /\ s.last = lastFired[s.id][b]
                 /\ s.cfg.cooldownSec \in Nat
      <3>1. s \in Snapshots
        BY <1>0, <2>1, FindResultType
      <3>2. s.id \in stored /\ s.last = lastFired[s.id][b]
        BY DEF FindResult
      <3>3. QED
        BY <3>1, <3>2, InputAssumption DEF Snapshots, RuleConfig
    <2>5. ASSUME NEW s \in found, Trips(s.cfg, b, rd), s \notin todo'[e]
          PROVE  Covered(s.id, b, t, s.cfg.cooldownSec)
      <3>1. CoolingDown(s, t)
        BY <2>2, <2>5
      <3>2. lastFired[s.id][b] # 0 /\ t - lastFired[s.id][b] < s.cfg.cooldownSec
        BY <2>4, <3>1 DEF CoolingDown
      <3>3. lastFired[s.id][b] \in Nat /\ s.id \in Rules /\ s.cfg.cooldownSec \in Nat
        BY <1>0, <2>1, <2>4 DEF TypeOK
      <3>4. lastFired[s.id][b] + s.cfg.cooldownSec > t
        BY <2>1, <3>2, <3>3
      <3>5. QED
        BY <1>0, <2>1, <3>2, <3>3, <3>4, LastCovers
    <2>6. \A s \in found : s.id \notin fresh
      BY <1>0, <2>4
    <2> HIDE DEF found, b, t, rd
    <2>7. PassedOverCovered'
      <3> SUFFICES ASSUME NEW x \in Evals, pc'[x] \in {"loop", "raise"},
                          NEW s \in snap'[x]
                   PROVE  /\ s.id \notin fresh'
                          /\ Trips(s.cfg, call'[x].bin, call'[x].reading) =>
                                 \/ s \in todo'[x]
                                 \/ s.id \notin stored'
                                 \/ Covered(s.id, call[x].bin, now[x], s.cfg.cooldownSec)'
        BY DEF PassedOverCovered
      <3>1. fires' = fires /\ fresh' = fresh /\ stored' = stored /\ call' = call
        BY <2>2 DEF fireVars, ruleVars
      <3>0. \A r, c, d, cd : Covered(r, c, d, cd)' <=> Covered(r, c, d, cd)
        BY <3>1 DEF Covered
      <3>2. CASE x = e
        BY <2>2, <2>5, <2>6, <3>0, <3>1, <3>2 DEF b, rd
      <3>3. CASE x # e
        BY <1>0, <2>2, <3>0, <3>1, <3>3 DEF PassedOverCovered
      <3>4. QED
        BY <3>2, <3>3
    <2>8. DatesPositive' /\ (stored \cap fresh = {})'
      BY <1>0, <2>1, <2>2 DEF DatesPositive, ruleVars, timeVars
    <2>9. QED
      BY <1>0, <2>3, <2>7, <2>8 DEF IInv
  <1>4. ASSUME NEW e \in Evals, NEW s \in todo[e], ClaimWins(e, s)
        PROVE  IInv'
    <2>1. LastIsLatest' /\ CooldownSpacing'
      BY <1>0, <1>4, ClaimKeepsSpacing
    <2>2. /\ UNCHANGED <<ruleVars, timeVars, call, now, snap>>
          /\ pc[e] = "loop" /\ pc'[e] = "raise" /\ todo'[e] = todo[e] \ {s}
          /\ \A x \in Evals \ {e} : pc'[x] = pc[x] /\ todo'[x] = todo[x]
      BY <1>0, <1>4 DEF TypeOK, ClaimWins
    <2>3. /\ s.id \in Rules /\ call[e].bin \in Bins
          /\ fires' = [fires EXCEPT ![s.id][call[e].bin] =
                 Append(fires[s.id][call[e].bin],
                        [at |-> now[e], cooldown |-> s.cfg.cooldownSec])]
      BY <1>0, <1>4, ClaimWinsFacts
    <2>4. Covered(s.id, call[e].bin, now[e], s.cfg.cooldownSec)'
      <3> DEFINE fs == fires[s.id][call[e].bin]
                 f == [at |-> now[e], cooldown |-> s.cfg.cooldownSec]
      <3>0. fires \in [Rules -> [Bins -> Seq(Fire)]]
        BY <1>0 DEF TypeOK
      <3>1. fs \in Seq(Fire) /\ f.at = now[e] /\ fires'[s.id][call[e].bin] = Append(fs, f)
        BY <2>3, <3>0
      <3> HIDE DEF fs, f
      <3>2. /\ Len(fs) + 1 \in DOMAIN Append(fs, f)
            /\ Append(fs, f)[Len(fs) + 1] = f
        BY <3>1
      <3>3. QED
        BY <2>2, <3>1, <3>2 DEF Covered
    <2>5. PassedOverCovered'
      <3> SUFFICES ASSUME NEW x \in Evals, pc'[x] \in {"loop", "raise"},
                          NEW u \in snap'[x],
                          Trips(u.cfg, call'[x].bin, call'[x].reading),
                          u \notin todo'[x], u.id \in stored'
                   PROVE  Covered(u.id, call[x].bin, now[x], u.cfg.cooldownSec)'
        <4>1. fresh' = fresh
          BY <2>2 DEF ruleVars
        <4>2. \A x \in Evals : pc'[x] \in {"loop", "raise"} =>
                 \A u \in snap'[x] : u.id \notin fresh'
          BY <1>0, <2>2, <4>1 DEF PassedOverCovered
        <4>3. QED
          BY <4>2 DEF PassedOverCovered
      <3>1. u.id \in Rules /\ call[x].bin \in Bins
        BY <1>0, <2>2 DEF TypeOK, Snapshots, Calls
      <3>2. CASE u \in todo[x]
        BY <2>2, <2>4, <3>2
      <3>3. CASE u \notin todo[x]
        <4>1. Covered(u.id, call[x].bin, now[x], u.cfg.cooldownSec)
          BY <1>0, <2>2, <3>3 DEF PassedOverCovered, ruleVars
        <4>2. \A t, cd : Covered(u.id, call[x].bin, t, cd) =>
                 \E i \in DOMAIN fires'[u.id][call[x].bin] :
                     \/ fires'[u.id][call[x].bin][i].at + cd > t
                     \/ fires'[u.id][call[x].bin][i].at = t
          <5>1. ASSUME NEW b \in Bins, NEW t, NEW cd, Covered(u.id, b, t, cd)
                PROVE  \E i \in DOMAIN fires'[u.id][b] :
                           fires'[u.id][b][i].at + cd > t \/ fires'[u.id][b][i].at = t
            BY <1>0, <1>4, <3>1, <5>1, CoveredGrows DEF Covered
          <5>2. QED
            BY <3>1, <5>1
        <4>3. QED
          BY <2>2, <4>1, <4>2 DEF Covered
      <3>4. QED
        BY <3>2, <3>3
    <2>6. DatesPositive' /\ (stored \cap fresh = {})'
      BY <1>0, <2>2 DEF DatesPositive, ruleVars, timeVars
    <2>7. QED
      BY <1>0, <2>1, <2>5, <2>6 DEF IInv
  <1>5. ASSUME NEW e \in Evals, NEW s \in todo[e], ClaimLoses(e, s)
        PROVE  IInv'
    <2>1. /\ UNCHANGED <<fireVars, ruleVars, timeVars, pc, call, now, snap>>
          /\ pc[e] = "loop" /\ todo'[e] = todo[e] \ {s}
          /\ \A x \in Evals \ {e} : todo'[x] = todo[x]
      BY <1>0, <1>5 DEF TypeOK, ClaimLoses
    <2>2. s.id \in stored => Covered(s.id, call[e].bin, now[e], s.cfg.cooldownSec)
      <3> SUFFICES ASSUME s.id \in stored
                   PROVE  Covered(s.id, call[e].bin, now[e], s.cfg.cooldownSec)
        OBVIOUS
      <3>1. s \in Snapshots /\ call[e].bin \in Bins
        BY <1>0 DEF TypeOK, Calls
      <3>2. s.id \in Rules /\ s.cfg.cooldownSec \in Nat /\ now[e] \in Nat /\ now[e] >= 1
        BY <1>0, <2>1, <3>1, InputAssumption DEF TypeOK, Snapshots, RuleConfig, DatesPositive
      <3>3. lastFired[s.id][call[e].bin] \in Nat
        BY <1>0, <3>1, <3>2 DEF TypeOK
      <3>4. \/ /\ lastFired[s.id][call[e].bin] # 0
               /\ ~(lastFired[s.id][call[e].bin] <= now[e] - s.cfg.cooldownSec)
            \/ lastFired[s.id][call[e].bin] = now[e]
        BY <1>5 DEF ClaimLoses, ClaimFilter
      <3>5. /\ lastFired[s.id][call[e].bin] # 0
            /\ \/ lastFired[s.id][call[e].bin] + s.cfg.cooldownSec > now[e]
               \/ lastFired[s.id][call[e].bin] = now[e]
        BY <3>2, <3>3, <3>4
      <3>6. QED
        BY <1>0, <3>1, <3>2, <3>5, LastCovers
    <2>3. LastIsLatest' /\ CooldownSpacing'
      BY <1>0, <2>1, ClaimsFrame
    <2>4. PassedOverCovered'
      <3>1. \A r, b, t, cd : Covered(r, b, t, cd)' <=> Covered(r, b, t, cd)
        BY <2>1 DEF Covered, fireVars
      <3>2. UNCHANGED <<pc, call, now, snap, stored, fresh>>
        BY <2>1 DEF ruleVars
      <3>3. ASSUME NEW x \in Evals, pc[x] \in {"loop", "raise"}, NEW u \in snap[x],
                   Trips(u.cfg, call[x].bin, call[x].reading), u.id \in stored, u \notin todo'[x]
            PROVE  Covered(u.id, call[x].bin, now[x], u.cfg.cooldownSec)
        <4>1. CASE u \in todo[x]
          BY <2>1, <2>2, <3>3, <4>1
        <4>2. CASE u \notin todo[x]
          BY <1>0, <3>3, <4>2 DEF PassedOverCovered
        <4>3. QED
          BY <4>1, <4>2
      <3>4. QED
        BY <1>0, <3>1, <3>2, <3>3 DEF PassedOverCovered
    <2>5. DatesPositive' /\ (stored \cap fresh = {})'
      BY <1>0, <2>1 DEF DatesPositive, ruleVars, timeVars
    <2>6. QED
      BY <1>0, <2>3, <2>4, <2>5 DEF IInv
  <1>6. ASSUME NEW e \in Evals, NEW s \in cur[e], Raise(e, s)
        PROVE  IInv'
    <2>1. /\ UNCHANGED <<fireVars, ruleVars, timeVars, call, now, snap, todo>>
          /\ pc[e] = "raise" /\ pc'[e] = "loop"
          /\ \A x \in Evals \ {e} : pc'[x] = pc[x]
      BY <1>0, <1>6 DEF TypeOK, Raise
    <2>2. LastIsLatest' /\ CooldownSpacing'
      BY <1>0, <2>1, ClaimsFrame
    <2>3. PassedOverCovered'
      BY <1>0, <2>1, PassedOverFrame DEF fireVars, ruleVars
    <2>4. DatesPositive' /\ (stored \cap fresh = {})'
      BY <1>0, <2>1 DEF DatesPositive, ruleVars, timeVars
    <2>5. QED
      BY <1>0, <2>2, <2>3, <2>4 DEF IInv
  <1>7. ASSUME NEW ends \in SUBSET Evals, Release(ends), UNCHANGED <<fireVars, ruleVars, clock>>
        PROVE  IInv'
    <2>1. \A x \in Evals : \/ pc'[x] = "idle"
                           \/ /\ pc'[x] = pc[x] /\ call'[x] = call[x] /\ now'[x] = now[x]
                              /\ snap'[x] = snap[x] /\ todo'[x] = todo[x]
      BY <1>7 DEF Release
    <2>2. LastIsLatest' /\ CooldownSpacing'
      BY <1>0, <1>7, ClaimsFrame
    <2>3. PassedOverCovered'
      BY <1>0, <1>7, <2>1, PassedOverFrame DEF fireVars, ruleVars
    <2>4. DatesPositive' /\ (stored \cap fresh = {})'
      BY <1>0, <1>7, <2>1 DEF DatesPositive, ruleVars
    <2>5. QED
      BY <1>0, <2>2, <2>3, <2>4 DEF IInv
  <1>8. ASSUME NEW e \in Evals, Finish(e) \/ CallFails(e)
        PROVE  IInv'
    BY <1>7, <1>8 DEF Finish, CallFails, Abort, timeVars
  <1>9. ASSUME NEW n \in Nodes, Crash(n)
        PROVE  IInv'
    BY <1>7, <1>9 DEF Crash, Abort
  <1>10. ASSUME NEW n \in Nodes, Tick(n)
         PROVE  IInv'
    <2>1. UNCHANGED <<fireVars, ruleVars, evalVars>>
      BY <1>10 DEF Tick
    <2>2. DatesPositive' /\ (stored \cap fresh = {})'
      BY <1>0, <1>10 DEF DatesPositive, Tick, TypeOK, evalVars, ruleVars
    <2>3. QED
      BY <1>0, <2>1, <2>2, ClaimsFrame, PassedOverFrame DEF IInv, fireVars, ruleVars, evalVars
  <1>11. ASSUME NEW r \in Rules, NEW c \in RuleConfigs, CreateRule(r, c)
         PROVE  IInv'
    <2>1. /\ UNCHANGED <<fireVars, evalVars, timeVars>>
          /\ r \in fresh /\ fresh' = fresh \ {r} /\ stored' = stored \cup {r}
      BY <1>11 DEF CreateRule, Edit
    <2>2. LastIsLatest' /\ CooldownSpacing'
      BY <1>0, <2>1, ClaimsFrame
    <2>3. PassedOverCovered'
      BY <1>0, <2>1 DEF PassedOverCovered, Covered, fireVars, evalVars
    <2>4. DatesPositive' /\ (stored \cap fresh = {})'
      BY <1>0, <2>1 DEF DatesPositive, evalVars, timeVars
    <2>5. QED
      BY <1>0, <2>2, <2>3, <2>4 DEF IInv
  <1>12. ASSUME NEW r \in Rules, (\E c \in RuleConfigs : UpdateRule(r, c)) \/ DeleteRule(r)
         PROVE  IInv'
    <2>1. /\ UNCHANGED <<fireVars, evalVars, timeVars>>
          /\ fresh' = fresh /\ stored' \subseteq stored
      BY <1>12 DEF UpdateRule, DeleteRule, Edit
    <2>2. LastIsLatest' /\ CooldownSpacing'
      BY <1>0, <2>1, ClaimsFrame
    <2>3. PassedOverCovered'
      BY <1>0, <2>1, PassedOverFrame DEF fireVars, evalVars
    <2>4. DatesPositive' /\ (stored \cap fresh = {})'
      BY <1>0, <2>1 DEF DatesPositive, evalVars, timeVars
    <2>5. QED
      BY <1>0, <2>2, <2>3, <2>4 DEF IInv
  <1>13. CASE UNCHANGED vars
    <2>1. UNCHANGED <<fireVars, ruleVars, evalVars, clock>>
      BY <1>13 DEF vars, timeVars
    <2>2. QED
      BY <1>0, <2>1, ClaimsFrame, PassedOverFrame
      DEF IInv, DatesPositive, fireVars, ruleVars, evalVars
  <1>14. QED
    BY <1>1, <1>2, <1>3, <1>4, <1>5, <1>6, <1>8, <1>9, <1>10, <1>11, <1>12, <1>13
    DEF Next, EvalStep

LEMMA Inductive == Spec => []IInv
  <1>1. QED
    BY InitIInv, NextIInv, PTL DEF Spec

\* No two firings of a rule for a bin fall into one cooldown window, with any
\* number of replicas, evaluations and edits, and clocks that disagree.
THEOREM SpacingHolds == Spec => []CooldownSpacing
  <1>1. IInv => CooldownSpacing
    BY DEF IInv
  <1>2. QED
    BY <1>1, Inductive, PTL

\* An evaluation that ends has covered every enabled rule its reading trips.
THEOREM CoverageHolds == Spec => []EveryTripCovered
  <1>1. IInv => EveryTripCovered
    BY DEF IInv, PassedOverCovered, EveryTripCovered
  <1>2. QED
    BY <1>1, Inductive, PTL

\* The time a rule last fired never goes back.
THEOREM MonotoneHolds == Spec => LastFiredMonotone
  <1> DEFINE Mono == \A r \in Rules, b \in Bins : lastFired'[r][b] >= lastFired[r][b]
  <1>1. IInv /\ [Next]_vars => [Mono]_vars
    <2> SUFFICES ASSUME IInv, Next PROVE Mono
      OBVIOUS
    <2>0. TypeOK /\ DatesPositive
      BY DEF IInv
    <2>1. ASSUME UNCHANGED lastFired PROVE Mono
      BY <2>0, <2>1 DEF TypeOK
    <2>2. ASSUME NEW e \in Evals, NEW s \in todo[e], ClaimWins(e, s)
          PROVE  Mono
      <3>1. /\ s.id \in Rules /\ call[e].bin \in Bins /\ now[e] \in Nat
            /\ s.cfg.cooldownSec \in Nat
            /\ \/ lastFired[s.id][call[e].bin] = 0
               \/ lastFired[s.id][call[e].bin] + s.cfg.cooldownSec <= now[e]
            /\ lastFired' = [lastFired EXCEPT ![s.id][call[e].bin] = now[e]]
        BY <2>0, <2>2, ClaimWinsFacts DEF Fire
      <3>2. lastFired \in [Rules -> [Bins -> Nat]]
        BY <2>0 DEF TypeOK
      <3>3. ASSUME NEW r \in Rules, NEW b \in Bins
            PROVE  lastFired'[r][b] >= lastFired[r][b]
        <4>1. CASE r = s.id /\ b = call[e].bin
          BY <3>1, <3>2, <4>1
        <4>2. CASE ~(r = s.id /\ b = call[e].bin)
          BY <3>1, <3>2, <4>2
        <4> QED  BY <4>1, <4>2
      <3> QED  BY <3>3
    <2>3. (\A e \in Evals : \A s \in todo[e] : ~ClaimWins(e, s)) => UNCHANGED lastFired
      <3>1. ASSUME NEW e \in Evals, EvalStep(e), \A s \in todo[e] : ~ClaimWins(e, s)
            PROVE  UNCHANGED lastFired
        BY <3>1 DEF EvalStep, RaiseBuiltin, Find, ClaimLoses, Raise, Finish, fireVars
      <3>2. ASSUME NEW e \in Evals, NEW n \in Nodes, NEW b \in Bins, NEW rd \in Readings,
                   Arrive(e, n, b, rd)
            PROVE  UNCHANGED lastFired
        BY <3>2 DEF Arrive, fireVars
      <3>3. ASSUME (\E e \in Evals : CallFails(e)) \/ \E n \in Nodes : Crash(n) \/ Tick(n)
            PROVE  UNCHANGED lastFired
        BY <3>3 DEF CallFails, Crash, Abort, Tick, fireVars
      <3>4. ASSUME \/ \E r \in Rules, c \in RuleConfigs : CreateRule(r, c) \/ UpdateRule(r, c)
                   \/ \E r \in Rules : DeleteRule(r)
            PROVE  UNCHANGED lastFired
        BY <3>4 DEF CreateRule, UpdateRule, DeleteRule, Edit, fireVars
      <3>5. QED
        BY <3>1, <3>2, <3>3, <3>4 DEF Next
    <2>4. QED
      BY <2>1, <2>2, <2>3
  <1>2. QED
    BY <1>1, Inductive, PTL DEF Spec, LastFiredMonotone

----
(***************************************************************************)
(* One alert for each claim.                                               *)
(***************************************************************************)

\* The evaluations in ends that owe an alert of rule r for bin b.
Owing(ends, r, b) == {e \in ends : call[e].bin = b /\ \E s \in cur[e] : s.id = r}

LEMMA OwingFinite ==
  ASSUME NEW ends \in SUBSET Evals, NEW r, NEW b
  PROVE  /\ IsFiniteSet(Owing(ends, r, b)) /\ Cardinality(Owing(ends, r, b)) \in Nat
         /\ Unraised(ends, r, b) = Cardinality(Owing(ends, r, b))
  <1>1. Owing(ends, r, b) \subseteq Evals
    BY DEF Owing
  <1>2. IsFiniteSet(Owing(ends, r, b))
    BY <1>1, InputAssumption, FS_Subset
  <1>3. QED
    BY <1>2, FS_CardinalityType DEF Owing, Unraised

LEMMA CountTypes ==
  ASSUME TypeOK, NEW r \in Rules, NEW b \in Bins
  PROVE  Len(fires[r][b]) \in Nat /\ alerts[r][b] \in Nat /\ lost[r][b] \in Nat
  <1>1. /\ fires \in [Rules -> [Bins -> Seq(Fire)]]
        /\ alerts \in [Rules -> [Bins -> Nat]] /\ lost \in [Rules -> [Bins -> Nat]]
    BY DEF TypeOK
  <1>2. fires[r][b] \in Seq(Fire)
    BY <1>1
  <1>3. Len(fires[r][b]) \in Nat
    BY <1>2, LenProperties
  <1>4. QED
    BY <1>1, <1>3

LEMMA ClaimFacts ==
  ASSUME TypeOK, ClaimInv, NEW r \in Rules, NEW b \in Bins
  PROVE  /\ Len(fires[r][b]) \in Nat /\ alerts[r][b] \in Nat /\ lost[r][b] \in Nat
         /\ IsFiniteSet(Owing(Evals, r, b)) /\ Cardinality(Owing(Evals, r, b)) \in Nat
         /\ Unraised(Evals, r, b)' = Cardinality(Owing(Evals, r, b)')
         /\ Len(fires[r][b]) = alerts[r][b] + lost[r][b] + Cardinality(Owing(Evals, r, b))
  <1>1. Unraised(Evals, r, b)' = Cardinality(Owing(Evals, r, b)')
    BY DEF Unraised, Owing
  <1>2. Len(fires[r][b]) = alerts[r][b] + lost[r][b] + Unraised(Evals, r, b)
    BY DEF ClaimInv, AlertPerClaim
  <1>3. QED
    BY <1>1, <1>2, CountTypes, OwingFinite

\* Steps that neither win a claim nor raise an alert nor lose one.
LEMMA ClaimFrame ==
  ASSUME ClaimInv, UNCHANGED <<fires, alerts, lost>>,
         \A e \in Evals : /\ cur'[e] = cur[e] /\ (pc'[e] = "raise" <=> pc[e] = "raise")
                          /\ cur[e] # {} => call'[e] = call[e]
  PROVE  ClaimInv'
  <1>1. OneAlertDue'
    BY DEF ClaimInv, OneAlertDue
  <1>2. ASSUME NEW r \in Rules, NEW b \in Bins
        PROVE  Unraised(Evals, r, b)' = Unraised(Evals, r, b)
    <2>1. \A e \in Evals : (call[e].bin = b /\ \E s \in cur[e] : s.id = r)
                           <=> (call'[e].bin = b /\ \E s \in cur'[e] : s.id = r)
      OBVIOUS
    <2>2. {e \in Evals : call[e].bin = b /\ \E s \in cur[e] : s.id = r}
          = {e \in Evals : call'[e].bin = b /\ \E s \in cur'[e] : s.id = r}
      BY <2>1
    <2>3. QED
      BY <2>2 DEF Unraised
  <1>3. AlertPerClaim'
    BY <1>2 DEF ClaimInv, AlertPerClaim
  <1>4. QED
    BY <1>1, <1>3 DEF ClaimInv

LEMMA ClaimWinsOwes ==
  ASSUME TypeOK, ClaimInv, NEW e \in Evals, NEW s \in todo[e], ClaimWins(e, s)
  PROVE  ClaimInv'
  <1> DEFINE b == call[e].bin
             f == [at |-> now[e], cooldown |-> s.cfg.cooldownSec]
  <1>1. s \in Snapshots /\ b \in Bins /\ s.id \in Rules /\ f \in Fire
    <2>1. todo \in [Evals -> SUBSET Snapshots] /\ call \in [Evals -> Calls]
          /\ now \in [Evals -> Nat]
      BY DEF TypeOK
    <2>2. s \in Snapshots
      BY <2>1
    <2>3. s.cfg.cooldownSec \in Nat
      BY <2>2, InputAssumption DEF Snapshots, RuleConfig
    <2>4. QED
      BY <2>1, <2>2, <2>3 DEF Snapshots, Calls, Fire
  <1>2. /\ UNCHANGED <<alerts, lost, call>> /\ pc[e] = "loop"
        /\ pc' = [pc EXCEPT ![e] = "raise"] /\ cur' = [cur EXCEPT ![e] = {s}]
        /\ fires' = [fires EXCEPT ![s.id][b] = Append(fires[s.id][b], f)]
    BY DEF ClaimWins, alertVars
  <1> HIDE DEF b, f
  <1>3. pc \in [Evals -> PCs] /\ cur \in [Evals -> SUBSET Snapshots]
        /\ fires \in [Rules -> [Bins -> Seq(Fire)]]
    BY DEF TypeOK
  <1>4. /\ pc'[e] = "raise" /\ cur'[e] = {s} /\ cur[e] = {}
        /\ \A x \in Evals \ {e} : pc'[x] = pc[x] /\ cur'[x] = cur[x]
    BY <1>2, <1>3 DEF ClaimInv, OneAlertDue
  <1>5. OneAlertDue'
    BY <1>1, <1>4 DEF ClaimInv, OneAlertDue
  <1>6. ASSUME NEW r \in Rules, NEW c \in Bins
        PROVE  Len(fires'[r][c]) = alerts'[r][c] + lost'[r][c] + Unraised(Evals, r, c)'
    <2>0. /\ Len(fires[r][c]) \in Nat /\ alerts[r][c] \in Nat /\ lost[r][c] \in Nat
          /\ IsFiniteSet(Owing(Evals, r, c)) /\ Cardinality(Owing(Evals, r, c)) \in Nat
          /\ Unraised(Evals, r, c)' = Cardinality(Owing(Evals, r, c)')
          /\ Len(fires[r][c]) = alerts[r][c] + lost[r][c] + Cardinality(Owing(Evals, r, c))
      BY ClaimFacts
    <2>9. UNCHANGED <<alerts, lost>>
      BY <1>2
    <2>1. CASE r = s.id /\ c = b
      <3>1. Owing(Evals, r, c)' = Owing(Evals, r, c) \cup {e} /\ e \notin Owing(Evals, r, c)
        BY <1>2, <1>4, <2>1 DEF Owing, b
      <3>2. Cardinality(Owing(Evals, r, c)') = Cardinality(Owing(Evals, r, c)) + 1
        BY <2>0, <3>1, FS_AddElement
      <3>3. fires[r][c] \in Seq(Fire) /\ fires'[r][c] = Append(fires[r][c], f)
        BY <1>1, <1>2, <1>3, <2>1
      <3>4. Len(fires'[r][c]) = Len(fires[r][c]) + 1
        BY <1>1, <3>3, AppendProperties
      <3>5. QED
        BY <2>9, <2>0, <3>2, <3>4
    <2>2. CASE ~(r = s.id /\ c = b)
      <3>1. Owing(Evals, r, c)' = Owing(Evals, r, c)
        BY <1>2, <1>4, <2>2 DEF Owing, b
      <3>2. fires'[r][c] = fires[r][c]
        BY <1>1, <1>2, <1>3, <2>2
      <3>3. QED
        BY <2>9, <2>0, <3>1, <3>2
    <2>3. QED
      BY <2>1, <2>2
  <1>7. QED
    BY <1>5, <1>6 DEF ClaimInv, AlertPerClaim

LEMMA OneMore ==
  ASSUME NEW A, NEW B, NEW a \in A, NEW b \in B, NEW f \in [A -> [B -> Nat]]
  PROVE  [f EXCEPT ![a][b] = f[a][b] + 1][a][b] = f[a][b] + 1
  OBVIOUS

LEMMA OneElementLess ==
  ASSUME NEW U, NEW S \in SUBSET U, NEW T \in SUBSET U, NEW e \in S, e \notin T,
         \A x \in U \ {e} : x \in T <=> x \in S
  PROVE  T = S \ {e}
  OBVIOUS

LEMMA RaisePays ==
  ASSUME TypeOK, ClaimInv, NEW e \in Evals, NEW s \in cur[e], Raise(e, s)
  PROVE  ClaimInv'
  <1> DEFINE b == call[e].bin
  <1>0. pc \in [Evals -> PCs] /\ cur \in [Evals -> SUBSET Snapshots]
        /\ call \in [Evals -> Calls] /\ alerts \in [Rules -> [Bins -> Nat]]
    BY DEF TypeOK
  <1>1. s \in Snapshots /\ b \in Bins /\ s.id \in Rules
    BY <1>0 DEF Snapshots, Calls
  <1>2. /\ UNCHANGED <<fires, lost, call>> /\ pc[e] = "raise"
        /\ pc' = [pc EXCEPT ![e] = "loop"] /\ cur' = [cur EXCEPT ![e] = {}]
        /\ alerts' = [alerts EXCEPT ![s.id][b] = alerts[s.id][b] + 1]
    BY DEF Raise, fireVars
  <1> HIDE DEF b
  <1>4. /\ pc'[e] = "loop" /\ cur'[e] = {} /\ cur[e] = {s}
        /\ \A x \in Evals \ {e} : pc'[x] = pc[x] /\ cur'[x] = cur[x]
    BY <1>0, <1>2 DEF ClaimInv, OneAlertDue
  <1>5. OneAlertDue'
    BY <1>4 DEF ClaimInv, OneAlertDue
  <1>6. ASSUME NEW r \in Rules, NEW c \in Bins
        PROVE  Len(fires'[r][c]) = alerts'[r][c] + lost'[r][c] + Unraised(Evals, r, c)'
    <2>0. /\ Len(fires[r][c]) \in Nat /\ alerts[r][c] \in Nat /\ lost[r][c] \in Nat
          /\ IsFiniteSet(Owing(Evals, r, c)) /\ Cardinality(Owing(Evals, r, c)) \in Nat
          /\ Unraised(Evals, r, c)' = Cardinality(Owing(Evals, r, c)')
          /\ Len(fires[r][c]) = alerts[r][c] + lost[r][c] + Cardinality(Owing(Evals, r, c))
      BY ClaimFacts
    <2>9. UNCHANGED <<fires, lost>>
      BY <1>2
    <2>1. CASE r = s.id /\ c = b
      <3>2. Cardinality(Owing(Evals, r, c)') = Cardinality(Owing(Evals, r, c)) - 1
        <4>1. call[e].bin = c /\ s.id = r /\ call' = call
          BY <1>2, <2>1 DEF b
        <4>2. e \in Owing(Evals, r, c) /\ e \notin Owing(Evals, r, c)'
          BY <1>4, <4>1 DEF Owing
        <4>3. \A x \in Evals \ {e} : x \in Owing(Evals, r, c)' <=> x \in Owing(Evals, r, c)
          BY <1>4, <4>1 DEF Owing
        <4>4. Owing(Evals, r, c) \subseteq Evals /\ Owing(Evals, r, c)' \subseteq Evals
          BY DEF Owing
        <4> DEFINE before == Owing(Evals, r, c)
                   after == Owing(Evals, r, c)'
        <4>5. /\ before \in SUBSET Evals /\ after \in SUBSET Evals /\ e \in before /\ e \notin after
              /\ \A x \in Evals \ {e} : x \in after <=> x \in before
          BY <4>2, <4>3, <4>4
        <4>6. IsFiniteSet(before)
          BY <2>0
        <4> HIDE DEF before, after
        <4>7. after = before \ {e}
          BY <4>5, OneElementLess
        <4>8. Cardinality(after) = Cardinality(before) - 1
          BY <4>5, <4>6, <4>7, FS_RemoveElement
        <4>9. QED
          BY <4>8 DEF before, after
      <3>3. alerts'[r][c] = alerts[r][c] + 1
        <4>1. alerts' = [alerts EXCEPT ![r][c] = alerts[r][c] + 1]
          BY <1>2, <2>1
        <4>2. QED
          BY <1>0, <4>1, OneMore
      <3>4. QED
        BY <2>9, <2>0, <3>2, <3>3
    <2>2. CASE ~(r = s.id /\ c = b)
      <3>1. Owing(Evals, r, c)' = Owing(Evals, r, c)
        BY <1>2, <1>4, <2>2 DEF Owing, b
      <3>2. alerts'[r][c] = alerts[r][c]
        BY <1>0, <1>1, <1>2, <2>2
      <3>3. QED
        BY <2>9, <2>0, <3>1, <3>2
    <2>3. QED
      BY <2>1, <2>2
  <1>7. QED
    BY <1>5, <1>6 DEF ClaimInv, AlertPerClaim

LEMMA AbortLoses ==
  ASSUME TypeOK, ClaimInv, NEW ends \in SUBSET Evals, Abort(ends)
  PROVE  ClaimInv'
  <1>1. /\ UNCHANGED <<fires, alerts>>
        /\ lost' = [r \in Rules |-> [b \in Bins |-> lost[r][b] + Unraised(ends, r, b)]]
        /\ \A x \in Evals :
              IF x \in ends THEN pc'[x] = "idle" /\ cur'[x] = {}
              ELSE pc'[x] = pc[x] /\ cur'[x] = cur[x] /\ call'[x] = call[x]
    BY DEF Abort, Release, fireVars
  <1>2. OneAlertDue'
    BY <1>1 DEF ClaimInv, OneAlertDue
  <1>3. ASSUME NEW r \in Rules, NEW c \in Bins
        PROVE  Len(fires'[r][c]) = alerts'[r][c] + lost'[r][c] + Unraised(Evals, r, c)'
    <2> DEFINE all == Owing(Evals, r, c)
               gone == Owing(ends, r, c)
               left == Owing(Evals, r, c)'
    <2>0. /\ Len(fires[r][c]) \in Nat /\ alerts[r][c] \in Nat /\ lost[r][c] \in Nat
          /\ IsFiniteSet(all) /\ Cardinality(all) \in Nat
          /\ IsFiniteSet(gone) /\ Cardinality(gone) \in Nat
          /\ Unraised(ends, r, c) = Cardinality(gone)
          /\ Unraised(Evals, r, c)' = Cardinality(left)
          /\ Len(fires[r][c]) = alerts[r][c] + lost[r][c] + Cardinality(all)
      BY ClaimFacts, OwingFinite
    <2>1. left = all \ gone /\ gone \subseteq all
      BY <1>1 DEF Owing
    <2> HIDE DEF all, gone, left
    <2>2. IsFiniteSet(left) /\ left \cup gone = all /\ left \cap gone = {}
      BY <2>0, <2>1, FS_Subset
    <2>3. Cardinality(left) \in Nat
      BY <2>2, FS_CardinalityType
    <2>4. Cardinality(all) = Cardinality(left) + Cardinality(gone) - Cardinality({})
      BY <2>0, <2>2, FS_Union
    <2>5. Cardinality({}) = 0
      BY FS_EmptySet
    <2>6. lost'[r][c] = lost[r][c] + Cardinality(gone)
      BY <1>1, <2>0
    <2>7. QED
      BY <1>1, <2>0, <2>3, <2>4, <2>5, <2>6
  <1>4. QED
    BY <1>2, <1>3 DEF ClaimInv, AlertPerClaim

LEMMA InitClaim == Init => ClaimInv
  <1> SUFFICES ASSUME Init PROVE ClaimInv
    OBVIOUS
  <1>1. OneAlertDue
    BY DEF Init, OneAlertDue
  <1>2. ASSUME NEW r \in Rules, NEW b \in Bins
        PROVE  Len(fires[r][b]) = alerts[r][b] + lost[r][b] + Unraised(Evals, r, b)
    <2>1. {e \in Evals : call[e].bin = b /\ \E s \in cur[e] : s.id = r} = {}
      BY DEF Init
    <2>2. Unraised(Evals, r, b) = 0
      BY <2>1, FS_EmptySet DEF Unraised
    <2>3. fires[r][b] = <<>> /\ alerts[r][b] = 0 /\ lost[r][b] = 0
      BY DEF Init, PerRuleAndBin
    <2>4. QED
      BY <2>2, <2>3
  <1>3. QED
    BY <1>1, <1>2 DEF ClaimInv, AlertPerClaim

LEMMA NextClaim == TypeOK /\ ClaimInv /\ [Next]_vars => ClaimInv'
  <1> SUFFICES ASSUME TypeOK, ClaimInv, [Next]_vars PROVE ClaimInv'
    OBVIOUS
  <1>0. /\ pc \in [Evals -> PCs] /\ cur \in [Evals -> SUBSET Snapshots]
        /\ call \in [Evals -> Calls]
        /\ \A e \in Evals : pc[e] # "raise" => cur[e] = {}
    BY DEF TypeOK, ClaimInv, OneAlertDue
  <1> USE DEF fireVars, alertVars, evalVars
  <1>1. ASSUME NEW e \in Evals, NEW n \in Nodes, NEW b \in Bins, NEW rd \in Readings,
               Arrive(e, n, b, rd)
        PROVE  ClaimInv'
    <2>1. /\ UNCHANGED <<fires, alerts, lost, cur>> /\ pc[e] = "idle"
          /\ pc'[e] # "raise"
          /\ \A x \in Evals \ {e} : pc'[x] = pc[x] /\ call'[x] = call[x]
      BY <1>0, <1>1 DEF Arrive
    <2>2. QED
      BY <1>0, <2>1, ClaimFrame
  <1>2. ASSUME NEW e \in Evals, RaiseBuiltin(e) \/ Find(e)
        PROVE  ClaimInv'
    <2>1. /\ UNCHANGED <<fires, alerts, lost, cur, call>>
          /\ pc[e] # "raise" /\ pc'[e] # "raise" /\ \A x \in Evals \ {e} : pc'[x] = pc[x]
      BY <1>0, <1>2 DEF RaiseBuiltin, Find
    <2>2. QED
      BY <2>1, ClaimFrame
  <1>3. ASSUME NEW e \in Evals, NEW s \in todo[e], ClaimWins(e, s)
        PROVE  ClaimInv'
    BY <1>3, ClaimWinsOwes
  <1>4. ASSUME NEW e \in Evals, NEW s \in todo[e], ClaimLoses(e, s)
        PROVE  ClaimInv'
    BY <1>4, ClaimFrame DEF ClaimLoses
  <1>5. ASSUME NEW e \in Evals, NEW s \in cur[e], Raise(e, s)
        PROVE  ClaimInv'
    BY <1>5, RaisePays
  <1>6. ASSUME NEW e \in Evals, Finish(e)
        PROVE  ClaimInv'
    <2>1. /\ UNCHANGED <<fires, alerts, lost>> /\ pc[e] = "loop" /\ pc'[e] = "idle"
          /\ cur'[e] = {}
          /\ \A x \in Evals \ {e} : pc'[x] = pc[x] /\ cur'[x] = cur[x] /\ call'[x] = call[x]
      BY <1>6 DEF Finish, Release
    <2>2. QED
      BY <1>0, <2>1, ClaimFrame
  <1>7. ASSUME NEW e \in Evals, CallFails(e)
        PROVE  ClaimInv'
    BY <1>7, AbortLoses DEF CallFails
  <1>8. ASSUME NEW n \in Nodes, Crash(n)
        PROVE  ClaimInv'
    BY <1>8, AbortLoses DEF Crash
  <1>9. ASSUME UNCHANGED <<evalVars, fireVars, alertVars>>
        PROVE  ClaimInv'
    BY <1>9, ClaimFrame
  <1>10. ASSUME NEW n \in Nodes, Tick(n)
         PROVE  ClaimInv'
    BY <1>9, <1>10 DEF Tick
  <1>11. ASSUME NEW r \in Rules, NEW c \in RuleConfigs,
                CreateRule(r, c) \/ UpdateRule(r, c) \/ DeleteRule(r)
         PROVE  ClaimInv'
    BY <1>9, <1>11 DEF CreateRule, UpdateRule, DeleteRule, Edit
  <1>12. CASE UNCHANGED vars
    BY <1>9, <1>12 DEF vars
  <1>13. QED
    BY <1>1, <1>2, <1>3, <1>4, <1>5, <1>6, <1>7, <1>8, <1>10, <1>11, <1>12, InputAssumption
    DEF Next, EvalStep

\* Every cooldown window claimed becomes one alert, is about to, or was lost
\* with the evaluation that held it (rules.service.ts: claim, then raise).
THEOREM AlertPerClaimHolds == Spec => []AlertPerClaim
  <1>1. ClaimInv => AlertPerClaim
    BY DEF ClaimInv
  <1>2. QED
    BY <1>1, TypeCorrect, InitClaim, NextClaim, PTL DEF Spec

----
(***************************************************************************)
(* The built-in cooldown.                                                  *)
(***************************************************************************)

LEMMA InitBuiltin == Init => BuiltinInv
  BY DEF Init, BuiltinInv, MapHoldsLatest, BuiltinSpacing

LEMMA ArriveKeepsBuiltin ==
  ASSUME TypeOK, DatesPositive, BuiltinInv,
         NEW e \in Evals, NEW n \in Nodes, NEW b \in Bins, NEW rd \in Readings,
         Arrive(e, n, b, rd), BuiltinTrips(rd), ShouldFireBuiltin(n, b, rd.metric)
  PROVE  BuiltinInv'
  <1> DEFINE m == rd.metric
             f == [node |-> n, epoch |-> epoch[n], at |-> clock[n]]
             fs == builtinFires[b][m]
  <1>1. /\ builtinFires \in [Bins -> [BuiltinMetrics -> Seq(BuiltinFire)]]
        /\ builtinLast \in [Nodes -> [Bins -> [BuiltinMetrics -> Nat]]]
        /\ epoch \in [Nodes -> Nat] /\ clock[n] \in Nat /\ clock[n] >= 1
        /\ BuiltinCooldown \in Nat
    BY InputAssumption DEF TypeOK, DatesPositive
  <1>2. /\ UNCHANGED epoch
        /\ builtinLast' = [builtinLast EXCEPT ![n][b][m] = clock[n]]
        /\ builtinFires' = [builtinFires EXCEPT ![b][m] = Append(fs, f)]
    BY DEF Arrive, timeVars
  <1>3. m \in BuiltinMetrics
    BY DEF BuiltinTrips, BuiltinMetrics
  <1>4. f \in BuiltinFire /\ fs \in Seq(BuiltinFire) /\ Len(fs) \in Nat
    <2>1. f \in BuiltinFire
      BY <1>1 DEF BuiltinFire
    <2>2. fs \in Seq(BuiltinFire)
      BY <1>1, <1>3
    <2>3. Len(fs) \in Nat
      BY <2>2, LenProperties
    <2> QED  BY <2>1, <2>2, <2>3
  <1>5. \/ builtinLast[n][b][m] = 0
        \/ clock[n] - builtinLast[n][b][m] >= BuiltinCooldown
    BY DEF ShouldFireBuiltin
  <1>6. f.node = n /\ f.epoch = epoch[n] /\ f.at = clock[n]
    OBVIOUS
  <1> HIDE DEF m, f, fs
  <1>7. /\ builtinFires'[b][m] = Append(fs, f) /\ builtinLast'[n][b][m] = clock[n]
        /\ DOMAIN Append(fs, f) = 1 .. (Len(fs) + 1)
        /\ \A i \in 1 .. Len(fs) : Append(fs, f)[i] = fs[i] /\ fs[i] \in BuiltinFire
        /\ Append(fs, f)[Len(fs) + 1] = f
        /\ DOMAIN fs = 1 .. Len(fs)
    BY <1>1, <1>2, <1>3, <1>4
  <1>8. \A c \in Bins, k \in BuiltinMetrics :
           ~(c = b /\ k = m) => /\ builtinFires'[c][k] = builtinFires[c][k]
                                /\ \A x \in Nodes : builtinLast'[x][c][k] = builtinLast[x][c][k]
    BY <1>1, <1>2, <1>3
  <1>9. \A x \in Nodes \ {n} : builtinLast'[x][b][m] = builtinLast[x][b][m]
    BY <1>1, <1>2, <1>3
  <1>10. ASSUME NEW i \in 1 .. Len(fs)
         PROVE  /\ fs[i].node \in Nodes /\ fs[i].at \in Nat /\ fs[i].epoch \in Nat
                /\ builtinLast[fs[i].node][b][m] \in Nat
                /\ fs[i].at >= 1 /\ fs[i].epoch <= epoch[fs[i].node]
                /\ fs[i].epoch = epoch[fs[i].node] => fs[i].at <= builtinLast[fs[i].node][b][m]
    <2>1. fs[i].node \in Nodes /\ fs[i].at \in Nat /\ fs[i].epoch \in Nat
      BY <1>7 DEF BuiltinFire
    <2>2. /\ fs[i].at >= 1 /\ fs[i].epoch <= epoch[fs[i].node]
          /\ fs[i].epoch = epoch[fs[i].node] => fs[i].at <= builtinLast[fs[i].node][b][m]
      BY <1>3, <1>7 DEF BuiltinInv, MapHoldsLatest, fs
    <2>3. QED
      BY <1>1, <1>3, <2>1, <2>2
  \* The firings of this life before the new one are a cooldown behind it.
  <1>11. ASSUME NEW i \in 1 .. Len(fs), fs[i].node = n, fs[i].epoch = epoch[n]
         PROVE  fs[i].at + BuiltinCooldown <= clock[n]
    <2>1. /\ fs[i].at \in Nat /\ builtinLast[n][b][m] \in Nat
          /\ fs[i].at >= 1 /\ fs[i].at <= builtinLast[n][b][m]
      BY <1>10, <1>11
    <2>2. builtinLast[n][b][m] # 0
      BY <2>1
    <2>3. clock[n] - builtinLast[n][b][m] >= BuiltinCooldown
      BY <1>5, <2>2
    <2>4. QED
      BY <1>1, <2>1, <2>3
  <1>12. MapHoldsLatest'
    <2> SUFFICES ASSUME NEW c \in Bins, NEW k \in BuiltinMetrics,
                        NEW i \in DOMAIN builtinFires'[c][k]
                 PROVE  LET g == builtinFires'[c][k][i]
                        IN  /\ g.at >= 1 /\ g.epoch <= epoch'[g.node]
                            /\ g.epoch = epoch'[g.node] => g.at <= builtinLast'[g.node][c][k]
      BY DEF MapHoldsLatest
    <2>1. CASE ~(c = b /\ k = m)
      <3>1. builtinFires[c][k] \in Seq(BuiltinFire) /\ i \in DOMAIN builtinFires[c][k]
            /\ builtinFires'[c][k] = builtinFires[c][k]
        BY <1>1, <1>8, <2>1
      <3>2. builtinFires[c][k][i].node \in Nodes
        <4>1. builtinFires[c][k][i] \in BuiltinFire
          BY <3>1, ElementOfSeq, LenProperties
        <4>2. QED
          BY <4>1 DEF BuiltinFire
      <3>3. LET g == builtinFires[c][k][i]
            IN  /\ g.at >= 1 /\ g.epoch <= epoch[g.node]
                /\ g.epoch = epoch[g.node] => g.at <= builtinLast[g.node][c][k]
        BY <3>1 DEF BuiltinInv, MapHoldsLatest
      <3>4. \A x \in Nodes : builtinLast'[x][c][k] = builtinLast[x][c][k]
        BY <1>8, <2>1
      <3>5. epoch' = epoch
        BY <1>2
      <3>6. QED
        BY <3>1, <3>2, <3>3, <3>4, <3>5
    <2>2. CASE c = b /\ k = m
      <3>1. CASE i = Len(fs) + 1
        <4>1. builtinFires'[c][k][i] = f /\ epoch' = epoch /\ builtinLast'[n][c][k] = clock[n]
          BY <1>2, <1>7, <2>2, <3>1
        <4>2. QED
          BY <1>1, <1>6, <4>1
      <3>2. CASE i \in 1 .. Len(fs)
        <4>1. builtinFires'[c][k][i] = fs[i]
          BY <1>7, <2>2, <3>2
        <4>2. CASE fs[i].node = n
          <5>1. fs[i].epoch = epoch[n] => fs[i].at <= clock[n]
            BY <1>1, <1>10, <1>11, <3>2, <4>2
          <5>2. fs[i].at >= 1 /\ fs[i].epoch <= epoch[n]
            BY <1>10, <3>2, <4>2
          <5>3. epoch' = epoch /\ builtinLast'[n][c][k] = clock[n]
            BY <1>2, <1>7, <2>2
          <5>4. QED
            BY <4>1, <4>2, <5>1, <5>2, <5>3
        <4>3. CASE fs[i].node # n
          <5>1. /\ fs[i].at >= 1 /\ fs[i].epoch <= epoch[fs[i].node] /\ fs[i].node \in Nodes
                /\ fs[i].epoch = epoch[fs[i].node] => fs[i].at <= builtinLast[fs[i].node][b][m]
            BY <1>10, <3>2
          <5>2. epoch' = epoch
            BY <1>2
          <5>3. builtinLast'[fs[i].node][c][k] = builtinLast[fs[i].node][b][m]
            BY <1>9, <2>2, <4>3, <5>1
          <5>4. QED
            BY <4>1, <5>1, <5>2, <5>3
        <4>4. QED
          BY <4>2, <4>3
      <3>3. i \in 1 .. (Len(fs) + 1)
        BY <1>7, <2>2
      <3>4. i = Len(fs) + 1 \/ i \in 1 .. Len(fs)
        BY <1>4, <3>3
      <3>5. QED
        BY <3>1, <3>2, <3>4
    <2>3. QED
      BY <2>1, <2>2
  <1>13. BuiltinSpacing'
    <2> SUFFICES ASSUME NEW c \in Bins, NEW k \in BuiltinMetrics,
                        NEW j \in DOMAIN builtinFires'[c][k], NEW i \in 1 .. (j - 1),
                        builtinFires'[c][k][i].node = builtinFires'[c][k][j].node,
                        builtinFires'[c][k][i].epoch = builtinFires'[c][k][j].epoch
                 PROVE  builtinFires'[c][k][i].at + BuiltinCooldown <= builtinFires'[c][k][j].at
      BY DEF BuiltinSpacing
    <2>1. CASE ~(c = b /\ k = m)
      BY <1>8, <2>1 DEF BuiltinInv, BuiltinSpacing
    <2>2. CASE c = b /\ k = m /\ j = Len(fs) + 1
      <3>1. i \in 1 .. Len(fs) /\ builtinFires'[c][k][i] = fs[i] /\ builtinFires'[c][k][j] = f
        BY <1>4, <1>7, <2>2
      <3>2. QED
        BY <1>6, <1>11, <3>1
    <2>3. CASE c = b /\ k = m /\ j # Len(fs) + 1
      <3>1. /\ j \in 1 .. Len(fs) /\ i \in 1 .. Len(fs)
            /\ builtinFires'[c][k][i] = fs[i] /\ builtinFires'[c][k][j] = fs[j]
        BY <1>4, <1>7, <2>3
      <3>2. \A y \in DOMAIN fs : \A x \in 1 .. (y - 1) :
                fs[x].node = fs[y].node /\ fs[x].epoch = fs[y].epoch =>
                    fs[x].at + BuiltinCooldown <= fs[y].at
        BY <1>3 DEF BuiltinInv, BuiltinSpacing, fs
      <3>3. QED
        BY <1>7, <3>1, <3>2
    <2>4. QED
      BY <2>1, <2>2, <2>3
  <1>14. QED
    BY <1>12, <1>13 DEF BuiltinInv

LEMMA NextBuiltin == TypeOK /\ DatesPositive /\ BuiltinInv /\ [Next]_vars => BuiltinInv'
  <1> SUFFICES ASSUME TypeOK, DatesPositive, BuiltinInv, [Next]_vars PROVE BuiltinInv'
    OBVIOUS
  <1>1. ASSUME UNCHANGED <<builtinVars, epoch>>
        PROVE  BuiltinInv'
    <2>1. UNCHANGED <<builtinLast, builtinFires, epoch>>
      BY <1>1 DEF builtinVars
    <2>2. MapHoldsLatest'
      BY <2>1 DEF BuiltinInv, MapHoldsLatest
    <2>3. BuiltinSpacing'
      BY <2>1 DEF BuiltinInv, BuiltinSpacing
    <2>4. QED
      BY <2>2, <2>3 DEF BuiltinInv
  <1>2. ASSUME NEW e \in Evals, NEW n \in Nodes, NEW b \in Bins, NEW rd \in Readings,
               Arrive(e, n, b, rd)
        PROVE  BuiltinInv'
    <2>1. CASE BuiltinTrips(rd) /\ ShouldFireBuiltin(n, b, rd.metric)
      BY <1>2, <2>1, ArriveKeepsBuiltin
    <2>2. CASE ~(BuiltinTrips(rd) /\ ShouldFireBuiltin(n, b, rd.metric))
      BY <1>1, <1>2, <2>2 DEF Arrive, timeVars
    <2>3. QED
      BY <2>1, <2>2
  <1>3. ASSUME NEW n \in Nodes, Crash(n)
        PROVE  BuiltinInv'
    <2>1. /\ UNCHANGED builtinFires /\ epoch' = [epoch EXCEPT ![n] = epoch[n] + 1]
          /\ builtinLast' = [builtinLast EXCEPT ![n] =
                 [b \in Bins |-> [m \in BuiltinMetrics |-> 0]]]
      BY <1>3 DEF Crash
    <2>2. /\ builtinFires \in [Bins -> [BuiltinMetrics -> Seq(BuiltinFire)]]
          /\ builtinLast \in [Nodes -> [Bins -> [BuiltinMetrics -> Nat]]]
          /\ epoch \in [Nodes -> Nat]
      BY DEF TypeOK
    <2>3. epoch'[n] = epoch[n] + 1
          /\ \A x \in Nodes \ {n} : epoch'[x] = epoch[x] /\ builtinLast'[x] = builtinLast[x]
      BY <2>1, <2>2
    <2>4. MapHoldsLatest'
      <3> SUFFICES ASSUME NEW c \in Bins, NEW k \in BuiltinMetrics,
                          NEW i \in DOMAIN builtinFires[c][k]
                   PROVE  LET g == builtinFires[c][k][i]
                          IN  /\ g.at >= 1 /\ g.epoch <= epoch'[g.node]
                              /\ g.epoch = epoch'[g.node] => g.at <= builtinLast'[g.node][c][k]
        <4>1. builtinFires' = builtinFires
          BY <2>1
        <4>2. QED
          BY <4>1 DEF MapHoldsLatest
      <3> DEFINE g == builtinFires[c][k][i]
      <3>1. builtinFires[c][k] \in Seq(BuiltinFire)
        BY <2>2
      <3>2. g.node \in Nodes /\ g.epoch \in Nat
        <4>1. g \in BuiltinFire
          BY <3>1, ElementOfSeq, LenProperties
        <4>2. QED
          BY <4>1 DEF BuiltinFire
      <3>3. /\ g.at >= 1 /\ g.epoch <= epoch[g.node]
            /\ g.epoch = epoch[g.node] => g.at <= builtinLast[g.node][c][k]
        BY DEF BuiltinInv, MapHoldsLatest
      <3> HIDE DEF g
      <3>4. CASE g.node = n
        <4>1. g.epoch <= epoch'[n] /\ g.epoch # epoch'[n]
          BY <2>2, <2>3, <3>2, <3>3, <3>4
        <4>2. QED
          BY <3>3, <3>4, <4>1 DEF g
      <3>5. CASE g.node # n
        BY <2>3, <3>2, <3>3, <3>5 DEF g
      <3>6. QED
        BY <3>4, <3>5
    <2>5. BuiltinSpacing'
      BY <2>1 DEF BuiltinInv, BuiltinSpacing
    <2>6. QED
      BY <2>4, <2>5 DEF BuiltinInv
  <1>4. ASSUME NEW e \in Evals, RaiseBuiltin(e) \/ Find(e) \/ Finish(e) \/ CallFails(e)
        PROVE  BuiltinInv'
    BY <1>1, <1>4 DEF RaiseBuiltin, Find, Finish, CallFails, timeVars
  <1>5. ASSUME NEW e \in Evals, NEW s, ClaimWins(e, s) \/ ClaimLoses(e, s) \/ Raise(e, s)
        PROVE  BuiltinInv'
    BY <1>1, <1>5 DEF ClaimWins, ClaimLoses, Raise, timeVars
  <1>6. ASSUME NEW n \in Nodes, Tick(n)
        PROVE  BuiltinInv'
    BY <1>1, <1>6 DEF Tick
  <1>7. ASSUME NEW r \in Rules, NEW c \in RuleConfigs,
               CreateRule(r, c) \/ UpdateRule(r, c) \/ DeleteRule(r)
        PROVE  BuiltinInv'
    BY <1>1, <1>7 DEF CreateRule, UpdateRule, DeleteRule, Edit, timeVars
  <1>8. CASE UNCHANGED vars
    BY <1>1, <1>8 DEF vars, timeVars
  <1>9. QED
    BY <1>2, <1>3, <1>4, <1>5, <1>6, <1>7, <1>8, InputAssumption DEF Next, EvalStep

\* One life of one replica keeps the built-in cooldown for each bin and type
\* (rules.service.ts: shouldFireBuiltin), for any cooldown and any clocks.
THEOREM BuiltinSpacingHolds == Spec => []BuiltinSpacing
  <1>1. IInv => TypeOK /\ DatesPositive
    BY DEF IInv
  <1>2. BuiltinInv => BuiltinSpacing
    BY DEF BuiltinInv
  <1>3. QED
    BY <1>1, <1>2, Inductive, InitBuiltin, NextBuiltin, PTL DEF Spec
=============================================================================
