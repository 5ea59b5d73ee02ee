-------------------------- MODULE HeartbeatProofs --------------------------
(***************************************************************************)
(* TLAPS proofs about Heartbeat, for any sets of replicas and bins, any    *)
(* number of concurrent ticks and any timeout.                             *)
(***************************************************************************)
EXTENDS Heartbeat, TLAPS

LEMMA AnyNodeType == AnyNode \in Nodes
  BY BoundsAssumption DEF AnyNode

LEMMA InitTypeOK == Init => TypeOK
  <1> SUFFICES ASSUME Init PROVE TypeOK
    OBVIOUS
  <1>1. 1 \in 1 .. MaxClock /\ 0 \in 0 .. MaxStamp /\ 0 \in 0 .. MaxReadings
        /\ 0 \in 0 .. MaxFaults /\ 0 \in 0 .. 2
    BY BoundsAssumption
  <1>2. clock \in [Nodes -> 1 .. MaxClock] /\ lastSeen \in [Bins -> 0 .. MaxStamp]
        /\ alarms \in [Bins -> 0 .. 2]
    BY <1>1 DEF Init
  <1>3. online \in [Bins -> BOOLEAN] /\ overlapped \in BOOLEAN
    BY DEF Init
  <1>4. /\ pc \in [Ticks -> PCs] /\ node \in [Ticks -> Nodes] /\ cutoff \in [Ticks -> Int]
        /\ unmarked \in [Ticks -> SUBSET Bins] /\ unraised \in [Ticks -> SUBSET Bins]
    BY AnyNodeType DEF Init, PCs
  <1>5. writes \subseteq Writes /\ abandoned \subseteq Bins /\ raced \subseteq Bins
        /\ readings \in 0 .. MaxReadings /\ faults \in 0 .. MaxFaults
    BY <1>1 DEF Init
  <1>6. QED
    BY <1>2, <1>3, <1>4, <1>5 DEF TypeOK

LEMMA ReleaseType ==
  ASSUME TypeOK, NEW ts, Release(ts)
  PROVE  /\ pc' \in [Ticks -> PCs] /\ node' \in [Ticks -> Nodes]
         /\ cutoff' \in [Ticks -> Int]
         /\ unmarked' \in [Ticks -> SUBSET Bins] /\ unraised' \in [Ticks -> SUBSET Bins]
  BY AnyNodeType DEF TypeOK, Release, PCs

LEMMA NextTypeOK == TypeOK /\ [Next]_vars => TypeOK'
  <1> SUFFICES ASSUME TypeOK, [Next]_vars PROVE TypeOK'
    OBVIOUS
  <1>1. ASSUME NEW b \in Bins, NEW n \in Nodes, Send(b, n)
        PROVE  TypeOK'
    <2>1. clock[n] \in 1 .. MaxStamp /\ readings + 1 \in 0 .. MaxReadings
      BY <1>1, BoundsAssumption DEF Send, TypeOK
    <2>2. QED
      BY <1>1, <2>1 DEF Send, TypeOK, Writes, tickVars, historyVars
  <1>2. ASSUME NEW w \in writes, Apply(w)
        PROVE  TypeOK'
    <2>1. w.bin \in Bins /\ w.at \in 0 .. MaxStamp
      BY BoundsAssumption DEF TypeOK, Writes
    <2>2. QED
      BY <1>2, <2>1 DEF Apply, TypeOK, tickVars
  <1>3. ASSUME NEW w \in writes, Lose(w)
        PROVE  TypeOK'
    BY <1>3, BoundsAssumption DEF Lose, TypeOK, tickVars, historyVars
  <1>4. ASSUME NEW t \in Ticks, NEW n \in Nodes, Begin(t, n)
        PROVE  TypeOK'
    BY <1>4, BoundsAssumption DEF Begin, TypeOK, PCs, binVars
  <1>5. ASSUME NEW t \in Ticks, Find(t)
        PROVE  TypeOK'
    <2>1. StaleBins(t) \subseteq Bins
      BY DEF StaleBins
    <2>2. CASE Release({t})
      BY <1>5, <2>2, ReleaseType DEF Find, TypeOK, binVars, historyVars
    <2>3. CASE ~Release({t})
      BY <1>5, <2>1, <2>3 DEF Find, TypeOK, PCs, binVars, historyVars
    <2>4. QED
      BY <2>2, <2>3
  <1>6. ASSUME NEW t \in Ticks, MarkOffline(t) \/ Marked(t)
        PROVE  TypeOK'
    <2>1. CASE Marked(t)
      BY <2>1 DEF Marked, TypeOK, PCs, binVars, historyVars
    <2>2. CASE MarkOffline(t)
      <3>1. PICK b \in unmarked[t] :
              /\ unmarked' = [unmarked EXCEPT ![t] = unmarked[t] \ {b}]
              /\ online' = [online EXCEPT ![b] = FALSE]
        BY <2>2 DEF MarkOffline
      <3>2. online' \in [Bins -> BOOLEAN] /\ unmarked' \in [Ticks -> SUBSET Bins]
        BY <3>1 DEF TypeOK
      <3>3. QED
        BY <2>2, <3>2 DEF MarkOffline, TypeOK, PCs, historyVars
    <2>3. QED
      BY <1>6, <2>1, <2>2
  <1>7. ASSUME NEW t \in Ticks, Raise(t)
        PROVE  TypeOK'
    <2>1. alarms' \in [Bins -> 0 .. 2]
      BY <1>7 DEF Raise, CountAlarm, TypeOK
    <2>2. CASE Release({t})
      BY <1>7, <2>1, <2>2, ReleaseType DEF Raise, TypeOK, binVars
    <2>3. CASE ~Release({t})
      BY <1>7, <2>1, <2>3 DEF Raise, TypeOK, binVars
    <2>4. QED
      BY <2>2, <2>3
  <1>8. ASSUME NEW ts \in SUBSET Ticks, Abort(ts)
        PROVE  TypeOK'
    <2>1. abandoned' \subseteq Bins /\ faults' \in 0 .. MaxFaults
      BY <1>8, BoundsAssumption DEF Abort, TypeOK
    <2>2. QED
      BY <1>8, <2>1, ReleaseType DEF Abort, TypeOK, binVars
  <1>9. ASSUME NEW t \in Ticks, CallFails(t)
        PROVE  TypeOK'
    BY <1>8, <1>9 DEF CallFails
  <1>10. ASSUME NEW n \in Nodes, Crash(n)
         PROVE  TypeOK'
    BY <1>8, <1>10 DEF Crash
  <1>11. ASSUME NEW n \in Nodes, AdvanceClock(n)
         PROVE  TypeOK'
    BY <1>11, BoundsAssumption DEF AdvanceClock, TypeOK, binVars, tickVars, historyVars
  <1>12. CASE UNCHANGED vars
    BY <1>12 DEF vars, TypeOK, binVars, tickVars, historyVars
  <1>13. QED
    BY <1>1, <1>2, <1>3, <1>4, <1>5, <1>6, <1>7, <1>9, <1>10, <1>11, <1>12
    DEF Next, TickStep

\* Every reachable state is well typed: the history counters stay in bounds
\* and no tick ever holds anything but bins.
THEOREM TypeCorrect == Spec => []TypeOK
  <1>1. QED
    BY InitTypeOK, NextTypeOK, PTL DEF Spec

----
(***************************************************************************)
(* What a tick holds.                                                      *)
(***************************************************************************)

\* Silence lasts while no reading is applied: clocks do not run back.
LEMMA SilenceLasts ==
  ASSUME TypeOK, TypeOK', NEW b \in Bins, Silent(b), lastSeen'[b] = lastSeen[b],
         \A n \in Nodes : clock'[n] >= clock[n]
  PROVE  Silent(b)'
  <1>1. PICK n \in Nodes : lastSeen[b] + OfflineAfter < clock[n]
    BY DEF Silent
  <1>2. clock[n] \in Int /\ clock'[n] \in Int /\ lastSeen[b] \in Int
    BY DEF TypeOK
  <1>3. QED
    BY <1>1, <1>2, BoundsAssumption DEF Silent

\* What the query returns is silent.
LEMMA StaleIsSilent ==
  ASSUME TypeOK, CutoffPast, NEW t \in Ticks, pc[t] = "find", NEW b \in StaleBins(t)
  PROVE  Silent(b) /\ b \in Bins
  <1>1. PICK n \in Nodes : cutoff[t] + OfflineAfter <= clock[n]
    BY DEF CutoffPast
  <1>2. b \in Bins /\ lastSeen[b] < cutoff[t]
    BY DEF StaleBins
  <1>3. clock[n] \in Int /\ cutoff[t] \in Int /\ lastSeen[b] \in Int /\ OfflineAfter \in Int
    BY <1>2, BoundsAssumption DEF TypeOK
  <1>4. lastSeen[b] + OfflineAfter < clock[n]
    BY <1>1, <1>2, <1>3
  <1>5. QED
    BY <1>2, <1>4 DEF Silent

\* Time alone does not disturb what is true of ticks.
LEMMA InvFrame ==
  ASSUME TypeOK, TypeOK', HoldsStale, CutoffPast, HeldSilent,
         \A n \in Nodes : clock'[n] >= clock[n],
         UNCHANGED <<lastSeen, raced, pc, cutoff, unmarked, unraised>>
  PROVE  HoldsStale' /\ CutoffPast' /\ HeldSilent'
  <1>1. HoldsStale'
    BY DEF HoldsStale
  <1>2. CutoffPast'
    <2> SUFFICES ASSUME NEW t \in Ticks, pc'[t] = "find"
                 PROVE  \E n \in Nodes : cutoff'[t] + OfflineAfter <= clock'[n]
      BY DEF CutoffPast
    <2>1. pc[t] = "find" /\ cutoff'[t] = cutoff[t]
      OBVIOUS
    <2>2. PICK n \in Nodes : cutoff[t] + OfflineAfter <= clock[n]
      BY <2>1 DEF CutoffPast
    <2>3. clock[n] \in Int /\ clock'[n] \in Int /\ cutoff[t] \in Int /\ OfflineAfter \in Int
      BY BoundsAssumption DEF TypeOK
    <2>4. QED
      BY <2>1, <2>2, <2>3
  <1>3. HeldSilent'
    <2> SUFFICES ASSUME NEW t \in Ticks, NEW b \in unraised'[t], b \notin raced'
                 PROVE  Silent(b)'
      BY DEF HeldSilent
    <2>1. b \in unraised[t] /\ b \notin raced
      OBVIOUS
    <2>2. b \in Bins /\ Silent(b)
      BY <2>1 DEF HeldSilent, TypeOK
    <2>3. QED
      BY <2>2, SilenceLasts
  <1>4. QED
    BY <1>1, <1>2, <1>3

\* Bins that stay as they are keep what is true of offline bins.
LEMMA OfflineFrame ==
  ASSUME TypeOK, TypeOK', OfflineReported, OfflineMeansSilent,
         \A n \in Nodes : clock'[n] >= clock[n],
         UNCHANGED <<online, lastSeen, raced>>, abandoned \subseteq abandoned',
         \A b \in Bins : alarms[b] >= 1 => alarms'[b] >= 1,
         \A t \in Ticks : \A b \in unraised[t] :
             b \in unraised'[t] \/ alarms'[b] >= 1 \/ b \in abandoned'
  PROVE  OfflineReported' /\ OfflineMeansSilent'
  <1>1. OfflineReported'
    BY DEF OfflineReported
  <1>2. OfflineMeansSilent'
    BY SilenceLasts DEF OfflineMeansSilent
  <1>3. QED
    BY <1>1, <1>2

LEMMA InitIInv == Init => IInv
  BY InitTypeOK
  DEF Init, IInv, HoldsStale, CutoffPast, HeldSilent, OfflineReported, OfflineMeansSilent

LEMMA NextIInv == IInv /\ [Next]_vars => IInv'
  <1> SUFFICES ASSUME IInv, [Next]_vars PROVE IInv'
    OBVIOUS
  <1>0. /\ TypeOK /\ TypeOK' /\ HoldsStale /\ CutoffPast /\ HeldSilent
        /\ OfflineReported /\ OfflineMeansSilent
    BY NextTypeOK DEF IInv
  <1>1. ASSUME NEW w \in writes, Apply(w)
        PROVE  IInv'
    <2> DEFINE b == w.bin
    <2>1. /\ UNCHANGED <<clock, pc, cutoff, unmarked, unraised>>
          /\ online' = [online EXCEPT ![b] = TRUE]
          /\ \A c \in Bins \ {b} : lastSeen'[c] = lastSeen[c] /\ alarms'[c] = alarms[c]
          /\ abandoned' = abandoned \ {b}
          /\ raced' = IF \E t \in Ticks : b \in unraised[t] THEN raced \cup {b} ELSE raced \ {b}
      BY <1>0, <1>1 DEF Apply, tickVars, TypeOK
    <2>2. b \in Bins
      BY <1>0 DEF TypeOK, Writes
    <2> HIDE DEF b
    <2>3. online'[b] = TRUE /\ \A c \in Bins \ {b} : online'[c] = online[c]
      BY <1>0, <2>1, <2>2 DEF TypeOK
    <2>4. \A c \in Bins \ {b} : Silent(c) => Silent(c)'
      BY <2>1 DEF Silent
    <2>5. HoldsStale' /\ CutoffPast'
      BY <1>0, <2>1 DEF HoldsStale, CutoffPast
    <2>6. HeldSilent'
      <3> SUFFICES ASSUME NEW t \in Ticks, NEW c \in unraised'[t], c \notin raced'
                   PROVE  Silent(c)'
        BY DEF HeldSilent
      <3>1. c \in unraised[t] /\ c \in Bins
        BY <1>0, <2>1 DEF TypeOK
      <3>2. c # b /\ c \notin raced
        BY <2>1, <3>1
      <3>3. QED
        BY <1>0, <2>4, <3>1, <3>2 DEF HeldSilent
    <2>7. OfflineReported'
      BY <1>0, <2>1, <2>3 DEF OfflineReported
    <2>8. OfflineMeansSilent'
      BY <1>0, <2>1, <2>3, <2>4 DEF OfflineMeansSilent
    <2>9. QED
      BY <1>0, <2>5, <2>6, <2>7, <2>8 DEF IInv
  <1>2. ASSUME NEW t \in Ticks, NEW n \in Nodes, Begin(t, n)
        PROVE  IInv'
    <2>1. /\ UNCHANGED <<clock, online, lastSeen, unmarked, unraised, alarms, abandoned, raced>>
          /\ pc[t] = "idle" /\ pc'[t] = "find" /\ cutoff'[t] = clock[n] - OfflineAfter
          /\ \A u \in Ticks \ {t} : pc'[u] = pc[u] /\ cutoff'[u] = cutoff[u]
      BY <1>0, <1>2 DEF Begin, TypeOK, binVars
    <2>2. HoldsStale'
      BY <1>0, <2>1 DEF HoldsStale
    <2>3. clock[n] - OfflineAfter + OfflineAfter <= clock[n]
      BY <1>0, BoundsAssumption DEF TypeOK
    <2>4. CutoffPast'
      BY <1>0, <2>1, <2>3 DEF CutoffPast
    <2>5. HeldSilent'
      BY <1>0, <2>1 DEF HeldSilent, Silent
    <2>6. \A m \in Nodes : clock'[m] >= clock[m]
      BY <1>0, <2>1 DEF TypeOK
    <2>7. OfflineReported' /\ OfflineMeansSilent'
      BY <1>0, <2>1, <2>6, OfflineFrame
    <2>8. QED
      BY <1>0, <2>2, <2>4, <2>5, <2>7 DEF IInv
  <1>3. ASSUME NEW t \in Ticks, Find(t)
        PROVE  IInv'
    <2>1. /\ UNCHANGED <<clock, online, lastSeen, alarms, abandoned, raced>>
          /\ \A u \in Ticks \ {t} : /\ pc'[u] = pc[u] /\ cutoff'[u] = cutoff[u]
                                    /\ unmarked'[u] = unmarked[u]
                                    /\ unraised'[u] = unraised[u]
          /\ pc[t] = "find" /\ pc'[t] \in {"idle", "mark"}
          /\ unmarked'[t] = unraised'[t] /\ unraised'[t] \subseteq StaleBins(t)
          /\ pc'[t] = "idle" => unraised'[t] = {}
      <3>1. UNCHANGED <<clock, online, lastSeen, alarms, abandoned, raced>> /\ pc[t] = "find"
        BY <1>3 DEF Find, binVars, historyVars
      <3>2. CASE StaleBins(t) = {}
        <4>1. Release({t})
          BY <1>3, <3>2 DEF Find
        <4>2. /\ pc'[t] = "idle" /\ unmarked'[t] = {} /\ unraised'[t] = {}
              /\ \A u \in Ticks \ {t} : /\ pc'[u] = pc[u] /\ cutoff'[u] = cutoff[u]
                                        /\ unmarked'[u] = unmarked[u]
                                        /\ unraised'[u] = unraised[u]
          BY <4>1 DEF Release
        <4>3. QED
          BY <3>1, <4>2
      <3>3. CASE StaleBins(t) # {}
        BY <1>0, <1>3, <3>1, <3>3 DEF Find, TypeOK
      <3>4. QED
        BY <3>2, <3>3
    <2>2. HoldsStale' /\ CutoffPast'
      BY <1>0, <2>1 DEF HoldsStale, CutoffPast
    <2>3. \A b \in StaleBins(t) : Silent(b)
      BY <1>0, <2>1, StaleIsSilent
    <2>4. HeldSilent'
      BY <1>0, <2>1, <2>3 DEF HeldSilent, Silent
    <2>5. unraised[t] = {}
      BY <1>0, <2>1 DEF HoldsStale
    <2>6. \A m \in Nodes : clock'[m] >= clock[m]
      BY <1>0, <2>1 DEF TypeOK
    <2>7. OfflineReported' /\ OfflineMeansSilent'
      BY <1>0, <2>1, <2>5, <2>6, OfflineFrame
    <2>8. QED
      BY <1>0, <2>2, <2>4, <2>7 DEF IInv
  <1>4. ASSUME NEW t \in Ticks, MarkOffline(t)
        PROVE  IInv'
    <2>1. PICK b \in unmarked[t] :
            /\ unmarked' = [unmarked EXCEPT ![t] = unmarked[t] \ {b}]
            /\ online' = [online EXCEPT ![b] = FALSE]
      BY <1>4 DEF MarkOffline
    <2>2. UNCHANGED <<clock, lastSeen, pc, cutoff, unraised, alarms, abandoned, raced>>
      BY <1>4 DEF MarkOffline, historyVars
    <2>3. b \in unraised[t] /\ b \in Bins
      BY <1>0 DEF HoldsStale, TypeOK
    <2>4. /\ \A c \in Bins \ {b} : online'[c] = online[c]
          /\ \A u \in Ticks : unmarked'[u] \subseteq unmarked[u]
      BY <1>0, <2>1, <2>3 DEF TypeOK
    <2>5. HoldsStale' /\ CutoffPast' /\ HeldSilent'
      BY <1>0, <2>2, <2>4 DEF HoldsStale, CutoffPast, HeldSilent, Silent
    <2>6. OfflineReported'
      BY <1>0, <2>2, <2>3, <2>4 DEF OfflineReported
    <2>7. b \notin raced => Silent(b)
      BY <1>0, <2>3 DEF HeldSilent
    <2>8. OfflineMeansSilent'
      BY <1>0, <2>2, <2>4, <2>7 DEF OfflineMeansSilent, Silent
    <2>9. QED
      BY <1>0, <2>5, <2>6, <2>8 DEF IInv
  <1>5. ASSUME NEW t \in Ticks, Marked(t)
        PROVE  IInv'
    <2>1. /\ UNCHANGED <<clock, online, lastSeen, cutoff, unmarked, unraised, alarms,
                         abandoned, raced>>
          /\ unmarked[t] = {} /\ pc[t] = "mark"
          /\ pc'[t] = "raise" /\ \A u \in Ticks \ {t} : pc'[u] = pc[u]
      BY <1>0, <1>5 DEF Marked, TypeOK, binVars, historyVars
    <2>2. HoldsStale' /\ CutoffPast' /\ HeldSilent'
      BY <1>0, <2>1 DEF HoldsStale, CutoffPast, HeldSilent, Silent
    <2>3. OfflineReported' /\ OfflineMeansSilent'
      BY <1>0, <2>1 DEF OfflineReported, OfflineMeansSilent, Silent
    <2>4. QED
      BY <1>0, <2>2, <2>3 DEF IInv
  <1>6. ASSUME NEW t \in Ticks, Raise(t)
        PROVE  IInv'
    <2>1. PICK b \in unraised[t] :
            /\ alarms' = [alarms EXCEPT ![b] = IF alarms[b] = 0 THEN 1 ELSE 2]
            /\ IF unraised[t] = {b}
               THEN Release({t})
               ELSE /\ unraised' = [unraised EXCEPT ![t] = unraised[t] \ {b}]
                    /\ UNCHANGED <<pc, node, cutoff, unmarked>>
      BY <1>6 DEF Raise, CountAlarm
    <2>2. UNCHANGED <<clock, online, lastSeen, abandoned, raced>> /\ pc[t] = "raise"
      BY <1>6 DEF Raise, binVars
    <2>3. b \in Bins
      BY <1>0 DEF TypeOK
    <2>4. alarms'[b] >= 1 /\ \A c \in Bins \ {b} : alarms'[c] = alarms[c]
      BY <1>0, <2>1, <2>3 DEF TypeOK
    <2>5. /\ \A u \in Ticks \ {t} : /\ pc'[u] = pc[u] /\ cutoff'[u] = cutoff[u]
                                    /\ unmarked'[u] = unmarked[u]
                                    /\ unraised'[u] = unraised[u]
          /\ \/ pc'[t] = "idle" /\ unmarked'[t] = {} /\ unraised'[t] = {} /\ unraised[t] = {b}
             \/ /\ pc'[t] = pc[t] /\ cutoff'[t] = cutoff[t] /\ unmarked'[t] = unmarked[t]
                /\ unraised'[t] = unraised[t] \ {b}
      <3>1. CASE unraised[t] = {b}
        BY <1>0, <2>1, <3>1 DEF Release, TypeOK
      <3>2. CASE unraised[t] # {b}
        BY <1>0, <2>1, <3>2 DEF TypeOK
      <3>3. QED
        BY <3>1, <3>2
    <2>6. unmarked[t] = {}
      BY <1>0, <2>2 DEF HoldsStale
    <2>7. HoldsStale' /\ CutoffPast' /\ HeldSilent'
      BY <1>0, <2>2, <2>5, <2>6 DEF HoldsStale, CutoffPast, HeldSilent, Silent
    <2>8. OfflineReported'
      BY <1>0, <2>2, <2>4, <2>5 DEF OfflineReported
    <2>9. OfflineMeansSilent'
      BY <1>0, <2>2 DEF OfflineMeansSilent, Silent
    <2>10. QED
      BY <1>0, <2>7, <2>8, <2>9 DEF IInv
  <1>7. ASSUME NEW ts \in SUBSET Ticks, Abort(ts)
        PROVE  IInv'
    <2>1. /\ UNCHANGED <<clock, online, lastSeen, alarms, raced>>
          /\ abandoned' = abandoned \cup UNION {unraised[t] : t \in ts}
      BY <1>7 DEF Abort, binVars
    <2>2. \A u \in Ticks :
             \/ u \in ts /\ pc'[u] = "idle" /\ unmarked'[u] = {} /\ unraised'[u] = {}
             \/ /\ pc'[u] = pc[u] /\ cutoff'[u] = cutoff[u]
                /\ unmarked'[u] = unmarked[u] /\ unraised'[u] = unraised[u]
      BY <1>0, <1>7 DEF Abort, Release, TypeOK
    <2>3. HoldsStale' /\ CutoffPast' /\ HeldSilent'
      BY <1>0, <2>1, <2>2 DEF HoldsStale, CutoffPast, HeldSilent, Silent
    <2>4. OfflineReported'
      BY <1>0, <2>1, <2>2 DEF OfflineReported
    <2>5. OfflineMeansSilent'
      BY <1>0, <2>1 DEF OfflineMeansSilent, Silent
    <2>6. QED
      BY <1>0, <2>3, <2>4, <2>5 DEF IInv
  <1>8. ASSUME NEW n \in Nodes, AdvanceClock(n)
        PROVE  IInv'
    <2>1. /\ UNCHANGED <<online, lastSeen, pc, cutoff, unmarked, unraised, alarms,
                         abandoned, raced>>
          /\ \A m \in Nodes : clock'[m] >= clock[m]
      BY <1>0, <1>8 DEF AdvanceClock, TypeOK, binVars, tickVars, historyVars
    <2>2. HoldsStale' /\ CutoffPast' /\ HeldSilent'
      BY <1>0, <2>1, InvFrame
    <2>3. OfflineReported' /\ OfflineMeansSilent'
      BY <1>0, <2>1, OfflineFrame
    <2>4. QED
      BY <1>0, <2>2, <2>3 DEF IInv
  <1>9. ASSUME UNCHANGED <<clock, online, lastSeen, tickVars, historyVars>>
        PROVE  IInv'
    BY <1>0, <1>9
    DEF IInv, HoldsStale, CutoffPast, HeldSilent, Silent, OfflineReported,
        OfflineMeansSilent, tickVars, historyVars
  <1>10. ASSUME NEW b \in Bins, NEW n \in Nodes, Send(b, n)
         PROVE  IInv'
    BY <1>9, <1>10 DEF Send
  <1>11. ASSUME NEW w \in writes, Lose(w)
         PROVE  IInv'
    BY <1>9, <1>11 DEF Lose
  <1>12. CASE UNCHANGED vars
    BY <1>9, <1>12 DEF vars, binVars
  <1>13. QED
    BY <1>1, <1>2, <1>3, <1>4, <1>5, <1>6, <1>7, <1>8, <1>10, <1>11, <1>12
    DEF Next, TickStep, CallFails, Crash

LEMMA Inductive == Spec => []IInv
  <1>1. QED
    BY InitIInv, NextIInv, PTL DEF Spec

\* A bin a tick took offline has its alert or a tick that will raise it,
\* unless that tick died, with any number of ticks at once.
THEOREM ReportedHolds == Spec => []OfflineReported
  <1>1. IInv => OfflineReported
    BY DEF IInv
  <1>2. QED
    BY <1>1, Inductive, PTL

\* A bin shown offline is silent, unless a reading came while a tick held it.
THEOREM SilentHolds == Spec => []OfflineMeansSilent
  <1>1. IInv => OfflineMeansSilent
    BY DEF IInv
  <1>2. QED
    BY <1>1, Inductive, PTL

----
(***************************************************************************)
(* One alarm for a silence.                                                *)
(***************************************************************************)

LEMMA InitSingle == Init => SingleInv
  BY DEF Init, SingleInv, OneTick, MarkedAreOffline, NotYetReported, SingleAlarm

LEMMA NextSingle == IInv /\ SingleInv /\ [Next]_vars => SingleInv'
  <1> SUFFICES ASSUME IInv, SingleInv, [Next]_vars PROVE SingleInv'
    OBVIOUS
  <1>0. /\ TypeOK /\ TypeOK' /\ HoldsStale
        /\ OneTick /\ MarkedAreOffline /\ NotYetReported /\ SingleAlarm
    BY NextTypeOK DEF IInv, SingleInv
  <1>1. ASSUME NEW w \in writes, Apply(w)
        PROVE  SingleInv'
    <2> DEFINE b == w.bin
    <2>1. b \in Bins
      BY <1>0 DEF TypeOK, Writes
    <2>2. /\ UNCHANGED <<pc, unmarked, unraised, overlapped>>
          /\ alarms'[b] = 0
          /\ \A c \in Bins \ {b} : online'[c] = online[c] /\ alarms'[c] = alarms[c]
          /\ raced' = IF \E t \in Ticks : b \in unraised[t] THEN raced \cup {b} ELSE raced \ {b}
      BY <1>0, <1>1, <2>1 DEF Apply, tickVars, TypeOK
    <2>3. \A t \in Ticks : unraised[t] \subseteq Bins
      BY <1>0 DEF TypeOK
    <2> HIDE DEF b
    <2>4. OneTick'
      BY <1>0, <2>2 DEF OneTick
    <2>5. MarkedAreOffline'
      BY <1>0, <2>2, <2>3 DEF MarkedAreOffline
    <2>6. NotYetReported' /\ SingleAlarm'
      BY <1>0, <2>1, <2>2 DEF NotYetReported, SingleAlarm
    <2>7. QED
      BY <2>4, <2>5, <2>6 DEF SingleInv
  <1>2. ASSUME NEW t \in Ticks, NEW n \in Nodes, Begin(t, n)
        PROVE  SingleInv'
    <2>1. /\ UNCHANGED <<online, unmarked, unraised, alarms, raced>>
          /\ pc[t] = "idle" /\ \A u \in Ticks \ {t} : pc'[u] = pc[u]
          /\ ~overlapped' => ~overlapped /\ \A u \in Ticks : pc[u] = "idle"
      BY <1>0, <1>2 DEF Begin, TypeOK, binVars
    <2>2. OneTick'
      BY <2>1 DEF OneTick
    <2>3. MarkedAreOffline' /\ NotYetReported' /\ SingleAlarm'
      BY <1>0, <2>1 DEF MarkedAreOffline, NotYetReported, SingleAlarm
    <2>4. QED
      BY <2>2, <2>3 DEF SingleInv
  <1>3. ASSUME NEW t \in Ticks, Find(t)
        PROVE  SingleInv'
    <2>1. /\ UNCHANGED <<online, alarms, raced, overlapped>> /\ pc[t] = "find"
          /\ \A u \in Ticks \ {t} : /\ pc'[u] = pc[u] /\ unmarked'[u] = unmarked[u]
                                    /\ unraised'[u] = unraised[u]
          /\ unmarked'[t] = unraised'[t] /\ unraised'[t] \subseteq StaleBins(t)
      <3>1. UNCHANGED <<online, alarms, raced, overlapped>> /\ pc[t] = "find"
        BY <1>3 DEF Find, binVars, historyVars
      <3>2. CASE StaleBins(t) = {}
        BY <1>0, <1>3, <3>1, <3>2 DEF Find, Release, TypeOK
      <3>3. CASE StaleBins(t) # {}
        BY <1>0, <1>3, <3>1, <3>3 DEF Find, TypeOK
      <3>4. QED
        BY <3>2, <3>3
    <2>2. OneTick'
      BY <1>0, <2>1 DEF OneTick
    <2>3. MarkedAreOffline'
      BY <1>0, <2>1 DEF MarkedAreOffline
    <2>4. \A b \in unraised'[t] : b \in Bins /\ online[b]
      BY <2>1 DEF StaleBins
    <2>5. NotYetReported' /\ SingleAlarm'
      BY <1>0, <2>1, <2>4 DEF NotYetReported, SingleAlarm
    <2>6. QED
      BY <2>2, <2>3, <2>5 DEF SingleInv
  <1>4. ASSUME NEW t \in Ticks, MarkOffline(t)
        PROVE  SingleInv'
    <2>1. PICK b \in unmarked[t] :
            /\ unmarked' = [unmarked EXCEPT ![t] = unmarked[t] \ {b}]
            /\ online' = [online EXCEPT ![b] = FALSE]
      BY <1>4 DEF MarkOffline
    <2>2. UNCHANGED <<pc, unraised, alarms, raced, overlapped>>
      BY <1>4 DEF MarkOffline, historyVars
    <2>3. /\ b \in Bins /\ ~online'[b]
          /\ \A c \in Bins \ {b} : online'[c] = online[c]
          /\ \A u \in Ticks : /\ unraised[u] \subseteq Bins
                              /\ unmarked[u] \ {b} \subseteq unmarked'[u]
      BY <1>0, <2>1 DEF TypeOK
    <2>4. OneTick'
      BY <1>0, <2>2 DEF OneTick
    <2>5. MarkedAreOffline'
      BY <1>0, <2>2, <2>3 DEF MarkedAreOffline
    <2>6. NotYetReported' /\ SingleAlarm'
      BY <1>0, <2>2, <2>3 DEF NotYetReported, SingleAlarm
    <2>7. QED
      BY <2>4, <2>5, <2>6 DEF SingleInv
  <1>5. ASSUME NEW t \in Ticks, Marked(t)
        PROVE  SingleInv'
    <2>1. /\ UNCHANGED <<online, unmarked, unraised, alarms, raced, overlapped>>
          /\ pc[t] = "mark" /\ \A u \in Ticks \ {t} : pc'[u] = pc[u]
      BY <1>0, <1>5 DEF Marked, TypeOK, binVars, historyVars
    <2>2. QED
      BY <1>0, <2>1 DEF SingleInv, OneTick, MarkedAreOffline, NotYetReported, SingleAlarm
  <1>6. ASSUME NEW t \in Ticks, Raise(t)
        PROVE  SingleInv'
    <2>1. PICK b \in unraised[t] :
            /\ alarms' = [alarms EXCEPT ![b] = IF alarms[b] = 0 THEN 1 ELSE 2]
            /\ IF unraised[t] = {b}
               THEN Release({t})
               ELSE /\ unraised' = [unraised EXCEPT ![t] = unraised[t] \ {b}]
                    /\ UNCHANGED <<pc, node, cutoff, unmarked>>
      BY <1>6 DEF Raise, CountAlarm
    <2>2. UNCHANGED <<online, raced, overlapped>> /\ pc[t] = "raise"
      BY <1>6 DEF Raise, binVars
    <2>3. b \in Bins
      BY <1>0 DEF TypeOK
    <2>4. /\ \A c \in Bins \ {b} : alarms'[c] = alarms[c]
          /\ alarms[b] = 0 => alarms'[b] = 1
      BY <1>0, <2>1, <2>3 DEF TypeOK
    <2>5. /\ \A u \in Ticks \ {t} : /\ pc'[u] = pc[u] /\ unmarked'[u] = unmarked[u]
                                    /\ unraised'[u] = unraised[u]
          /\ pc'[t] \in {"idle", pc[t]} /\ unmarked'[t] \in {{}, unmarked[t]}
          /\ unraised'[t] = unraised[t] \ {b}
      <3>1. CASE unraised[t] = {b}
        BY <1>0, <2>1, <3>1 DEF Release, TypeOK
      <3>2. CASE unraised[t] # {b}
        BY <1>0, <2>1, <3>2 DEF TypeOK
      <3>3. QED
        BY <3>1, <3>2
    <2>6. unmarked[t] = {}
      BY <1>0, <2>2 DEF HoldsStale
    <2>7. OneTick'
      BY <1>0, <2>2, <2>5 DEF OneTick
    <2>8. MarkedAreOffline'
      BY <1>0, <2>2, <2>5, <2>6 DEF MarkedAreOffline
    <2>9. b \notin raced => ~online[b]
      BY <1>0, <2>6 DEF MarkedAreOffline
    <2>10. ASSUME ~overlapped, NEW u \in Ticks
           PROVE  b \notin unraised'[u]
      <3>1. u # t => pc[u] = "idle"
        BY <1>0, <2>2, <2>10 DEF OneTick
      <3>2. u # t => unraised'[u] = {}
        BY <1>0, <2>5, <3>1 DEF HoldsStale
      <3>3. QED
        BY <2>5, <3>2
    <2>11. NotYetReported'
      BY <1>0, <2>2, <2>4, <2>5, <2>9, <2>10 DEF NotYetReported
    <2>12. SingleAlarm'
      BY <1>0, <2>2, <2>3, <2>4 DEF NotYetReported, SingleAlarm
    <2>13. QED
      BY <2>7, <2>8, <2>11, <2>12 DEF SingleInv
  <1>7. ASSUME NEW ts \in SUBSET Ticks, Abort(ts)
        PROVE  SingleInv'
    <2>1. UNCHANGED <<online, alarms, raced, overlapped>>
      BY <1>7 DEF Abort, binVars
    <2>2. \A u \in Ticks :
             \/ pc'[u] = "idle" /\ unmarked'[u] = {} /\ unraised'[u] = {}
             \/ pc'[u] = pc[u] /\ unmarked'[u] = unmarked[u] /\ unraised'[u] = unraised[u]
      BY <1>0, <1>7 DEF Abort, Release, TypeOK
    <2>3. OneTick'
      BY <1>0, <2>1, <2>2 DEF OneTick
    <2>4. MarkedAreOffline'
      BY <1>0, <2>1, <2>2 DEF MarkedAreOffline
    <2>5. NotYetReported' /\ SingleAlarm'
      BY <1>0, <2>1, <2>2 DEF NotYetReported, SingleAlarm
    <2>6. QED
      BY <2>3, <2>4, <2>5 DEF SingleInv
  <1>8. ASSUME UNCHANGED <<online, tickVars, historyVars>>
        PROVE  SingleInv'
    BY <1>0, <1>8
    DEF SingleInv, OneTick, MarkedAreOffline, NotYetReported, SingleAlarm, tickVars, historyVars
  <1>9. ASSUME NEW n \in Nodes, AdvanceClock(n)
        PROVE  SingleInv'
    BY <1>8, <1>9 DEF AdvanceClock, binVars
  <1>10. ASSUME NEW b \in Bins, NEW n \in Nodes, Send(b, n)
         PROVE  SingleInv'
    BY <1>8, <1>10 DEF Send
  <1>11. ASSUME NEW w \in writes, Lose(w)
         PROVE  SingleInv'
    BY <1>8, <1>11 DEF Lose
  <1>12. CASE UNCHANGED vars
    BY <1>8, <1>12 DEF vars, binVars
  <1>13. QED
    BY <1>1, <1>2, <1>3, <1>4, <1>5, <1>6, <1>7, <1>9, <1>10, <1>11, <1>12
    DEF Next, TickStep, CallFails, Crash

\* While no two ticks overlap a silence is reported once, for any timeout and
\* any number of replicas (heartbeat.service.ts: the query asks for bins that
\* are online, and the updateMany takes them offline before the first alert).
THEOREM SingleAlarmHolds == Spec => []SingleAlarm
  <1>1. SingleInv => SingleAlarm
    BY DEF SingleInv
  <1>2. QED
    BY <1>1, InitSingle, NextSingle, Inductive, PTL DEF Spec
=============================================================================
