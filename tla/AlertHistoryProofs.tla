------------------------- MODULE AlertHistoryProofs -------------------------
(***************************************************************************)
(* Proofs that the history of a bin is bounded again once a trim has got  *)
(* through, and that a trim by itself removes only old alerts, for any     *)
(* number of raises, trims and faults and any clocks.                      *)
(***************************************************************************)
EXTENDS AlertHistory, FiniteSetTheorems, TLAPS

\* What Release does to each call.
LEMMA ReleaseEffect ==
    ASSUME NEW ends \in SUBSET Raisers, Release(ends)
    PROVE  /\ \A c \in ends : /\ pc'[c] = "idle" /\ mine'[c] = Unset /\ keep'[c] = {}
                              /\ doomed'[c] = {} /\ seen'[c] = {} /\ node'[c] = AnyNode
           /\ \A c \in Raisers \ ends : /\ pc'[c] = pc[c] /\ mine'[c] = mine[c]
                                        /\ keep'[c] = keep[c] /\ doomed'[c] = doomed[c]
                                        /\ seen'[c] = seen[c] /\ node'[c] = node[c]
           /\ UNCHANGED <<clock, stored, raised, acks, ever>>
  BY DEF Release

\* A call that is over is well typed.
LEMMA ReleaseType ==
    ASSUME TypeOK, NEW ends \in SUBSET Raisers, Release(ends)
    PROVE  /\ pc' \in [Raisers -> PCs] /\ node' \in [Raisers -> Nodes]
           /\ mine' \in [Raisers -> Alert \cup {Unset}]
           /\ keep' \in [Raisers -> SUBSET ever'] /\ doomed' \in [Raisers -> SUBSET ever']
           /\ seen' \in [Raisers -> SUBSET ever']
  <1>1. AnyNode \in Nodes
    BY BoundsAssumption DEF AnyNode
  <1>2. ever' = ever /\ "idle" \in PCs
    BY DEF Release, PCs
  <1>3. pc' \in [Raisers -> PCs] /\ node' \in [Raisers -> Nodes]
    BY <1>1, <1>2 DEF Release, TypeOK
  <1>4. mine' \in [Raisers -> Alert \cup {Unset}]
    BY DEF Release, TypeOK
  <1>5. keep' \in [Raisers -> SUBSET ever'] /\ doomed' \in [Raisers -> SUBSET ever']
    BY <1>2 DEF Release, TypeOK
  <1>6. seen' \in [Raisers -> SUBSET ever']
    BY <1>2 DEF Release, TypeOK
  <1>7. QED
    BY <1>3, <1>4, <1>5, <1>6

LEMMA TypeInit == Init => TypeOK
  <1>1. AnyNode \in Nodes
    BY BoundsAssumption DEF AnyNode
  <1> SUFFICES ASSUME Init PROVE TypeOK
    OBVIOUS
  <1>2. 1 \in 1 .. MaxClock /\ 0 \in 0 .. MaxRaises /\ 0 \in 0 .. MaxAcks /\ 0 \in 0 .. MaxFaults
    BY BoundsAssumption
  <1>3. clock \in [Nodes -> 1 .. MaxClock]
    BY <1>2 DEF Init
  <1>4. pc \in [Raisers -> PCs] /\ node \in [Raisers -> Nodes]
    BY <1>1 DEF Init, PCs
  <1>5. QED
    BY <1>2, <1>3, <1>4 DEF Init, TypeOK

LEMMA TypeStep ==
    ASSUME TypeOK, MineIsNew, [Next]_vars
    PROVE  TypeOK'
  <1>1. ASSUME NEW c \in Raisers, NEW n \in Nodes, Begin(c, n)
        PROVE  TypeOK'
    <2>1. raised' \in 1 .. MaxRaises /\ clock[n] \in 1 .. MaxClock
      BY <1>1, BoundsAssumption DEF Begin, TypeOK
    <2>2. [id |-> raised', at |-> clock[n]] \in Alert
      BY <2>1 DEF Alert
    <2>3. mine' \in [Raisers -> Alert \cup {Unset}] /\ pc' \in [Raisers -> PCs]
          /\ node' \in [Raisers -> Nodes]
      BY <1>1, <2>2 DEF Begin, TypeOK, PCs
    <2>4. QED
      BY <1>1, <2>1, <2>3 DEF Begin, TypeOK, trimVars, historyVars
  <1>2. ASSUME NEW c \in Raisers, Stored(c)
        PROVE  TypeOK'
    <2>1. mine[c] \in Alert
      BY <1>2 DEF Stored, MineIsNew
    <2>2. stored' \subseteq ever' /\ ever' \subseteq Alert /\ owed' \subseteq ever' /\ ever \subseteq ever'
      BY <1>2, <2>1 DEF Stored, TypeOK
    <2>3. keep' \in [Raisers -> SUBSET ever'] /\ doomed' \in [Raisers -> SUBSET ever']
          /\ seen' \in [Raisers -> SUBSET ever']
      BY <1>2, <2>2 DEF Stored, TypeOK, trimVars
    <2>4. pc' \in [Raisers -> PCs] /\ disturbed' \in BOOLEAN
      BY <1>2 DEF Stored, TypeOK, PCs
    <2>5. QED
      BY <1>2, <2>2, <2>3, <2>4 DEF Stored, TypeOK
  <1>3. ASSUME NEW ends \in SUBSET Raisers, Release(ends), owed' \subseteq owed,
               disturbed' \in BOOLEAN, ackedBy' = ackedBy, faults' \in 0 .. MaxFaults
        PROVE  TypeOK'
    BY <1>3, ReleaseType, ReleaseEffect DEF TypeOK
  <1>4. ASSUME NEW c \in Raisers, FewFound(c)
        PROVE  TypeOK'
    <2>1. Release({c}) /\ owed' = {} /\ disturbed' \in BOOLEAN /\ UNCHANGED <<ackedBy, faults>>
      BY <1>4 DEF FewFound, TypeOK
    <2>2. QED
      BY <1>3, <2>1 DEF TypeOK
  <1>5. ASSUME NEW c \in Raisers, Found(c)
        PROVE  TypeOK'
    <2>1. keep' \in [Raisers -> SUBSET ever] /\ seen' \in [Raisers -> SUBSET ever]
      BY <1>5 DEF Found, TypeOK
    <2>2. pc' \in [Raisers -> PCs] /\ disturbed' \in BOOLEAN
      BY <1>5 DEF Found, TypeOK, PCs
    <2>3. QED
      BY <1>5, <2>1, <2>2 DEF Found, TypeOK
  <1>6. ASSUME NEW c \in Raisers, DeleteBegins(c)
        PROVE  TypeOK'
    <2>1. doomed' \in [Raisers -> SUBSET ever] /\ pc' \in [Raisers -> PCs]
      BY <1>6 DEF DeleteBegins, TypeOK, PCs
    <2>2. QED
      BY <1>6, <2>1 DEF DeleteBegins, TypeOK, historyVars
  <1>7. ASSUME NEW c \in Raisers, DeleteOne(c)
        PROVE  TypeOK'
    <2>1. stored' \subseteq stored /\ ackedBy' \in [1 .. MaxRaises -> SUBSET Users]
      BY <1>7 DEF DeleteOne, TypeOK
    <2>2. QED
      BY <1>7, <2>1 DEF DeleteOne, TypeOK, trimVars, historyVars
  <1>8. ASSUME NEW c \in Raisers, DeleteEnds(c)
        PROVE  TypeOK'
    <2>1. Release({c}) /\ owed' \subseteq owed /\ UNCHANGED <<ackedBy, faults, disturbed>>
      BY <1>8 DEF DeleteEnds
    <2>2. QED
      BY <1>3, <2>1 DEF TypeOK
  <1>9. ASSUME NEW x \in ever, NEW u \in Users, Ack(x, u)
        PROVE  TypeOK'
    <2>1. ackedBy' \in [1 .. MaxRaises -> SUBSET Users]
      BY <1>9 DEF Ack, TypeOK
    <2>2. acks' \in 0 .. MaxAcks
      BY <1>9, BoundsAssumption DEF Ack, TypeOK
    <2>3. QED
      BY <1>9, <2>1, <2>2 DEF Ack, TypeOK, trimVars, historyVars
  <1>10. ASSUME NEW ends \in SUBSET Raisers, Release(ends), faults < MaxFaults, faults' = faults + 1,
                UNCHANGED <<ackedBy, owed, disturbed>>
         PROVE  TypeOK'
    <2>1. faults' \in 0 .. MaxFaults
      BY <1>10, BoundsAssumption DEF TypeOK
    <2>2. QED
      BY <1>3, <1>10, <2>1 DEF TypeOK
  <1>11. ASSUME NEW n \in Nodes, Tick(n)
         PROVE  TypeOK'
    <2>1. clock' \in [Nodes -> 1 .. MaxClock]
      BY <1>11, BoundsAssumption DEF Tick, TypeOK
    <2>2. QED
      BY <1>11, <2>1 DEF Tick, TypeOK, trimVars, historyVars
  <1>12. CASE UNCHANGED vars
    BY <1>12 DEF vars, trimVars, historyVars, TypeOK
  <1>13. ASSUME NEW c \in Raisers, CallFails(c)
         PROVE  TypeOK'
    BY <1>10, <1>13 DEF CallFails
  <1>14. ASSUME NEW n \in Nodes, Crash(n)
         PROVE  TypeOK'
    BY <1>10, <1>14 DEF Crash
  <1>15. QED
    BY <1>1, <1>2, <1>4, <1>5, <1>6, <1>7, <1>8, <1>9, <1>11, <1>12, <1>13, <1>14
       DEF Next, CallStep

\* A step ends some calls, or leaves all but one as they were.
LEMMA MineStep ==
    ASSUME TypeOK, MineIsNew, [Next]_vars
    PROVE  MineIsNew'
  <1>1. ASSUME NEW c \in Raisers, NEW n \in Nodes, Begin(c, n)
        PROVE  MineIsNew'
    <2>1. /\ raised' = raised + 1 /\ raised' \in 1 .. MaxRaises /\ ever' = ever
          /\ mine'[c] = [id |-> raised', at |-> clock[n]]
          /\ \A d \in Raisers \ {c} : mine'[d] = mine[d] /\ pc'[d] = pc[d]
          /\ clock[n] \in 1 .. MaxClock
      BY <1>1, BoundsAssumption DEF Begin, TypeOK, historyVars
    <2>2. mine'[c] \in Alert /\ mine'[c].id = raised'
      BY <2>1 DEF Alert
    <2>3. \A x \in ever : x.id \in Nat /\ x.id <= raised
      BY DEF TypeOK, Alert, MineIsNew
    <2>4. mine'[c] \notin ever
      BY <2>1, <2>2, <2>3 DEF TypeOK
    <2>5. \A d \in Raisers \ {c} : pc[d] = "create" =>
             mine[d] \in Alert /\ mine[d].id <= raised /\ mine[d].id # raised' /\ mine[d] \notin ever
      BY <2>1 DEF MineIsNew, TypeOK, Alert
    <2>6. \A d \in Raisers \ {c} : pc[d] = "create" => mine[d].id \in Nat
      BY <2>5 DEF Alert
    <2>7. \A x \in ever' : x.id <= raised'
      BY <2>1, <2>3 DEF TypeOK
    <2>8. \A d \in Raisers : pc'[d] = "create" => /\ mine'[d] \in Alert /\ mine'[d].id <= raised'
                                                   /\ mine'[d] \notin ever'
      BY <2>1, <2>2, <2>4, <2>5, <2>6 DEF TypeOK
    <2>9. \A d, e \in Raisers :
             pc'[d] = "create" /\ pc'[e] = "create" /\ d # e => mine'[d].id # mine'[e].id
      BY <2>1, <2>2, <2>5 DEF MineIsNew
    <2>10. QED
      BY <2>7, <2>8, <2>9 DEF MineIsNew
  <1>2. ASSUME NEW c \in Raisers, Stored(c)
        PROVE  MineIsNew'
    <2>1. /\ raised' = raised /\ ever' = ever \cup {mine[c]} /\ mine' = mine
          /\ pc[c] = "create" /\ pc'[c] = "find"
          /\ \A d \in Raisers \ {c} : pc'[d] = pc[d]
      BY <1>2 DEF Stored, TypeOK
    <2>2. \A d \in Raisers \ {c} : pc[d] = "create" => mine[d] # mine[c]
      BY <2>1 DEF MineIsNew
    <2>3. QED
      BY <2>1, <2>2 DEF MineIsNew
  <1>3. ASSUME NEW ends \in SUBSET Raisers, Release(ends)
        PROVE  MineIsNew'
    <2>1. \A c \in Raisers : pc'[c] = "create" => pc[c] = "create" /\ mine'[c] = mine[c]
      BY <1>3, ReleaseEffect
    <2>2. raised' = raised /\ ever' = ever
      BY <1>3, ReleaseEffect
    <2>3. QED
      BY <2>1, <2>2 DEF MineIsNew
  <1>4. ASSUME UNCHANGED <<ever, raised, mine>>,
               \A c \in Raisers : pc'[c] = "create" => pc[c] = "create"
        PROVE  MineIsNew'
    BY <1>4 DEF MineIsNew
  <1>5. ASSUME NEW c \in Raisers, Found(c) \/ DeleteBegins(c) \/ DeleteOne(c)
        PROVE  MineIsNew'
    BY <1>4, <1>5 DEF Found, DeleteBegins, DeleteOne, TypeOK, historyVars
  <1>6. ASSUME NEW n \in Nodes, Tick(n)
        PROVE  MineIsNew'
    BY <1>4, <1>6 DEF Tick, historyVars
  <1>7. ASSUME NEW x \in ever, NEW u \in Users, Ack(x, u)
        PROVE  MineIsNew'
    BY <1>4, <1>7 DEF Ack, historyVars
  <1>8. CASE UNCHANGED vars
    BY <1>4, <1>8 DEF vars, historyVars
  <1>9. ASSUME NEW c \in Raisers, FewFound(c) \/ DeleteEnds(c) \/ CallFails(c)
        PROVE  MineIsNew'
    <2>1. Release({c})
      BY <1>9 DEF FewFound, DeleteEnds, CallFails
    <2>2. QED
      BY <1>3, <2>1
  <1>10. ASSUME NEW n \in Nodes, Crash(n)
         PROVE  MineIsNew'
    BY <1>3, <1>10 DEF Crash
  <1>11. QED
    BY <1>1, <1>2, <1>5, <1>6, <1>7, <1>8, <1>9, <1>10 DEF Next, CallStep

\* What was ever stored stays finite.
LEMMA EverStep ==
    ASSUME IsFiniteSet(ever), [Next]_vars
    PROVE  IsFiniteSet(ever') /\ ever \subseteq ever'
  <1>1. ever' = ever \/ \E c \in Raisers : ever' = ever \cup {mine[c]}
    BY DEF Next, CallStep, Begin, Stored, FewFound, Found, DeleteBegins, DeleteOne, DeleteEnds,
           Ack, CallFails, Crash, Tick, Release, historyVars, vars
  <1>2. QED
    BY <1>1, FS_AddElement

\* A chain stays one: a query sees all there is, and an end that clears what one
\* trim has seen clears or covers what each other one has.
LEMMA SeenStep ==
    ASSUME TypeOK, MineIsNew, SeenInTurn, [Next]_vars
    PROVE  SeenInTurn'
  <1>1. ASSUME NEW c \in Raisers, Stored(c)
        PROVE  SeenInTurn'
    <2>1. /\ owed' = owed \cup {mine[c]} /\ ever' = ever \cup {mine[c]} /\ seen' = seen
          /\ \A d \in Raisers : pc'[d] = IF d = c THEN "find" ELSE pc[d]
      BY <1>1 DEF Stored, TypeOK, trimVars
    <2>2. \A d \in Raisers : Trimming(d)' => Trimming(d)
      BY <2>1 DEF Trimming
    <2>3. \A d \in Raisers : mine[c] \notin seen[d]
      BY <1>1 DEF Stored, MineIsNew, TypeOK
    <2>4. ever' \ owed' \subseteq ever \ owed
      BY <2>1
    <2>5. \A d \in Raisers : seen[d] \cap owed = {} => seen[d] \cap owed' = {}
      BY <2>1, <2>3
    <2>6. QED
      BY <2>1, <2>2, <2>4, <2>5 DEF SeenInTurn
  <1>2. ASSUME NEW c \in Raisers, Found(c)
        PROVE  SeenInTurn'
    <2>1. /\ owed' = owed /\ ever' = ever /\ seen'[c] = ever
          /\ \A d \in Raisers \ {c} : pc'[d] = pc[d] /\ seen'[d] = seen[d]
      BY <1>2 DEF Found, TypeOK
    <2>2. \A d \in Raisers : seen[d] \subseteq ever
      BY DEF TypeOK
    <2>3. \A d \in Raisers \ {c} : Trimming(d)' => Trimming(d)
      BY <2>1 DEF Trimming
    <2>4. QED
      BY <2>1, <2>2, <2>3 DEF SeenInTurn
  <1>3. ASSUME NEW c \in Raisers, FewFound(c)
        PROVE  SeenInTurn'
    <2>1. Release({c}) /\ owed' = {}
      BY <1>3 DEF FewFound
    <2>2. /\ \A d \in Raisers \ {c} : pc'[d] = pc[d] /\ seen'[d] = seen[d]
          /\ pc'[c] = "idle"
      BY <2>1, ReleaseEffect
    <2>3. \A d \in Raisers : Trimming(d)' => Trimming(d) /\ seen'[d] = seen[d]
      BY <2>2 DEF Trimming
    <2>4. QED
      BY <2>1, <2>3 DEF SeenInTurn
  <1>4. ASSUME NEW c \in Raisers, DeleteEnds(c)
        PROVE  SeenInTurn'
    <2>1. Release({c}) /\ owed' = owed \ seen[c] /\ Trimming(c)
      BY <1>4 DEF DeleteEnds, Trimming
    <2>2. /\ \A d \in Raisers \ {c} : pc'[d] = pc[d] /\ seen'[d] = seen[d]
          /\ pc'[c] = "idle" /\ ever' = ever
      BY <2>1, ReleaseEffect
    <2>3. \A d \in Raisers : Trimming(d)' => Trimming(d) /\ seen'[d] = seen[d]
      BY <2>2 DEF Trimming
    <2>4. ASSUME NEW d \in Raisers, Trimming(d)'
          PROVE  seen'[d] \cap owed' = {} \/ ever' \ owed' \subseteq seen'[d]
      <3>1. seen[d] \subseteq seen[c] \/ seen[c] \subseteq seen[d]
        BY <2>1, <2>3, <2>4 DEF SeenInTurn
      <3>2. seen[d] \cap owed = {} \/ ever \ owed \subseteq seen[d]
        BY <2>3, <2>4 DEF SeenInTurn
      <3>3. seen'[d] = seen[d]
        BY <2>3, <2>4
      <3>4. QED
        BY <2>1, <2>2, <3>1, <3>2, <3>3
    <2>5. QED
      BY <2>3, <2>4 DEF SeenInTurn
  <1>5. ASSUME UNCHANGED <<ever, owed>>,
               \A d \in Raisers : Trimming(d)' => Trimming(d) /\ seen'[d] = seen[d]
        PROVE  SeenInTurn'
    BY <1>5 DEF SeenInTurn
  <1>6. ASSUME NEW ends \in SUBSET Raisers, Release(ends), owed' = owed
        PROVE  SeenInTurn'
    <2>1. \A d \in Raisers : Trimming(d)' => Trimming(d) /\ seen'[d] = seen[d]
      BY <1>6, ReleaseEffect DEF Trimming
    <2>2. ever' = ever
      BY <1>6, ReleaseEffect
    <2>3. QED
      BY <1>5, <1>6, <2>1, <2>2
  <1>7. ASSUME NEW c \in Raisers, CallFails(c)
        PROVE  SeenInTurn'
    BY <1>6, <1>7 DEF CallFails
  <1>8. ASSUME NEW n \in Nodes, Crash(n)
        PROVE  SeenInTurn'
    BY <1>6, <1>8 DEF Crash
  <1>9. ASSUME NEW c \in Raisers, NEW n \in Nodes, Begin(c, n)
        PROVE  SeenInTurn'
    BY <1>5, <1>9 DEF Begin, Trimming, TypeOK, trimVars, historyVars
  <1>10. ASSUME NEW c \in Raisers, DeleteBegins(c) \/ DeleteOne(c)
         PROVE  SeenInTurn'
    BY <1>5, <1>10 DEF DeleteBegins, DeleteOne, Trimming, TypeOK, trimVars, historyVars
  <1>11. ASSUME NEW x \in ever, NEW u \in Users, Ack(x, u)
         PROVE  SeenInTurn'
    BY <1>5, <1>11 DEF Ack, Trimming, trimVars, historyVars
  <1>12. ASSUME NEW n \in Nodes, Tick(n)
         PROVE  SeenInTurn'
    BY <1>5, <1>12 DEF Tick, Trimming, trimVars, historyVars
  <1>13. CASE UNCHANGED vars
    BY <1>5, <1>13 DEF vars, Trimming, trimVars, historyVars
  <1>14. QED
    BY <1>1, <1>2, <1>3, <1>4, <1>7, <1>8, <1>9, <1>10, <1>11, <1>12, <1>13 DEF Next, CallStep

LEMMA KeepsStep ==
    ASSUME TypeOK, IsFiniteSet(ever), MineIsNew, KeepsFew, [Next]_vars
    PROVE  KeepsFew'
  <1>1. ASSUME NEW c \in Raisers, Stored(c)
        PROVE  KeepsFew'
    <2>1. /\ stored' = stored \cup {mine[c]} /\ UNCHANGED <<keep, doomed, seen>>
          /\ \A d \in Raisers : pc'[d] = IF d = c THEN "find" ELSE pc[d]
      BY <1>1 DEF Stored, TypeOK, trimVars
    <2>2. \A d \in Raisers : mine[c] \notin seen[d]
      BY <1>1 DEF Stored, MineIsNew, TypeOK
    <2>3. \A d \in Raisers : stored' \cap seen'[d] = stored \cap seen[d]
      BY <2>1, <2>2
    <2>4. \A d \in Raisers : /\ Trimming(d)' => Trimming(d)
                             /\ pc'[d] = "deleting" => pc[d] = "deleting"
      BY <2>1 DEF Trimming
    <2>5. QED
      BY <2>1, <2>3, <2>4 DEF KeepsFew
  <1>2. ASSUME NEW c \in Raisers, Found(c)
        PROVE  KeepsFew'
    <2>1. PICK kept \in SUBSET stored : Newest(kept) /\ keep' = [keep EXCEPT ![c] = kept]
      BY <1>2 DEF Found
    <2>2. Cardinality(stored) \in Nat /\ Cardinality(stored) >= MaxAlerts
      BY <1>2, FS_Subset, FS_CardinalityType DEF TypeOK, Found
    <2>3. Cardinality(kept) = MaxAlerts
      BY <2>1, <2>2, BoundsAssumption DEF Newest
    <2>4. /\ keep'[c] = kept /\ pc'[c] = "delete" /\ UNCHANGED <<stored, doomed>>
          /\ \A d \in Raisers \ {c} : pc'[d] = pc[d] /\ keep'[d] = keep[d] /\ seen'[d] = seen[d]
      BY <1>2, <2>1 DEF Found, TypeOK
    <2>5. \A d \in Raisers \ {c} : /\ Trimming(d)' => Trimming(d)
                                   /\ pc'[d] = "deleting" => pc[d] = "deleting"
      BY <2>4 DEF Trimming
    <2>6. QED
      BY <2>3, <2>4, <2>5, BoundsAssumption DEF KeepsFew
  <1>3. ASSUME NEW c \in Raisers, DeleteBegins(c)
        PROVE  KeepsFew'
    <2>1. /\ doomed'[c] = stored \ keep[c] /\ Trimming(c) /\ UNCHANGED <<stored, keep, seen>>
          /\ \A d \in Raisers \ {c} : pc'[d] = pc[d] /\ doomed'[d] = doomed[d]
      BY <1>3 DEF DeleteBegins, Trimming, TypeOK
    <2>2. stored' \cap seen'[c] \subseteq keep'[c] \cup doomed'[c]
      BY <2>1
    <2>3. \A d \in Raisers \ {c} : Trimming(d)' => Trimming(d)
      BY <2>1 DEF Trimming
    <2>4. QED
      BY <2>1, <2>2, <2>3 DEF KeepsFew
  <1>4. ASSUME stored' \subseteq stored,
               \A d \in Raisers : /\ Trimming(d)' => Trimming(d) /\ keep'[d] = keep[d]
                                  /\ pc'[d] = "deleting" => /\ pc[d] = "deleting"
                                                            /\ doomed'[d] = doomed[d]
                                                            /\ seen'[d] = seen[d]
        PROVE  KeepsFew'
    <2>1. \A d \in Raisers : pc'[d] = "deleting" => keep'[d] = keep[d]
      BY <1>4 DEF Trimming
    <2>2. QED
      BY <1>4, <2>1 DEF KeepsFew
  <1>5. ASSUME NEW ends \in SUBSET Raisers, Release(ends)
        PROVE  KeepsFew'
    <2>1. /\ stored' \subseteq stored
          /\ \A d \in Raisers : pc'[d] # "idle" => /\ pc'[d] = pc[d] /\ keep'[d] = keep[d]
                                                   /\ doomed'[d] = doomed[d] /\ seen'[d] = seen[d]
      BY <1>5, ReleaseEffect
    <2>2. QED
      BY <1>4, <2>1 DEF Trimming
  <1>6. ASSUME NEW c \in Raisers, FewFound(c) \/ DeleteEnds(c) \/ CallFails(c)
        PROVE  KeepsFew'
    <2>1. Release({c})
      BY <1>6 DEF FewFound, DeleteEnds, CallFails
    <2>2. QED
      BY <1>5, <2>1
  <1>7. ASSUME NEW n \in Nodes, Crash(n)
        PROVE  KeepsFew'
    BY <1>5, <1>7 DEF Crash
  <1>8. ASSUME NEW c \in Raisers, NEW n \in Nodes, Begin(c, n)
        PROVE  KeepsFew'
    BY <1>4, <1>8 DEF Begin, Trimming, TypeOK, trimVars
  <1>9. ASSUME NEW c \in Raisers, DeleteOne(c)
        PROVE  KeepsFew'
    BY <1>4, <1>9 DEF DeleteOne, Trimming, trimVars
  <1>10. ASSUME NEW x \in ever, NEW u \in Users, Ack(x, u)
         PROVE  KeepsFew'
    BY <1>4, <1>10 DEF Ack, Trimming, trimVars
  <1>11. ASSUME NEW n \in Nodes, Tick(n)
         PROVE  KeepsFew'
    BY <1>4, <1>11 DEF Tick, Trimming, trimVars
  <1>12. CASE UNCHANGED vars
    BY <1>4, <1>12 DEF vars, Trimming, trimVars
  <1>13. QED
    BY <1>1, <1>2, <1>3, <1>6, <1>7, <1>8, <1>9, <1>10, <1>11, <1>12 DEF Next, CallStep

\* A trim that ends leaves, of what nobody owes then, what it has kept.
LEMMA LeanStep ==
    ASSUME TypeOK, IsFiniteSet(ever), SeenInTurn, KeepsFew, LeanButOwed, [Next]_vars
    PROVE  LeanButOwed'
  <1>0. /\ IsFiniteSet(stored) /\ IsFiniteSet(stored \ owed)
        /\ \A c \in Raisers : IsFiniteSet(keep[c])
    BY FS_Subset DEF TypeOK
  <1>1. ASSUME stored' \ owed' \subseteq stored \ owed
        PROVE  LeanButOwed'
    <2>1. /\ Cardinality(stored' \ owed') <= Cardinality(stored \ owed)
          /\ Cardinality(stored' \ owed') \in Nat /\ Cardinality(stored \ owed) \in Nat
      BY <1>0, <1>1, FS_Subset, FS_CardinalityType
    <2>2. QED
      BY <2>1, BoundsAssumption DEF LeanButOwed
  <1>2. ASSUME NEW c \in Raisers, FewFound(c)
        PROVE  LeanButOwed'
    <2>1. stored' = stored /\ owed' = {} /\ Cardinality(stored) < MaxAlerts
      BY <1>2, ReleaseEffect DEF FewFound
    <2>2. stored' \ owed' = stored /\ Cardinality(stored) \in Nat
      BY <1>0, <2>1, FS_CardinalityType
    <2>3. QED
      BY <2>1, <2>2, BoundsAssumption DEF LeanButOwed
  <1>3. ASSUME NEW c \in Raisers, DeleteEnds(c)
        PROVE  LeanButOwed'
    <2>1. Release({c}) /\ owed' = owed \ seen[c] /\ doomed[c] \cap stored = {} /\ pc[c] = "deleting"
      BY <1>3 DEF DeleteEnds
    <2>2. stored' = stored
      BY <2>1, ReleaseEffect
    <2>3. CASE seen[c] \cap owed = {}
      BY <1>1, <2>1, <2>2, <2>3
    <2>4. CASE ever \ owed \subseteq seen[c]
      <3>1. stored \cap seen[c] \subseteq keep[c]
        BY <2>1 DEF KeepsFew
      <3>2. stored' \ owed' \subseteq keep[c]
        BY <2>1, <2>2, <2>4, <3>1 DEF TypeOK
      <3>3. Cardinality(keep[c]) <= MaxAlerts
        BY <2>1 DEF KeepsFew, Trimming
      <3>4. /\ Cardinality(stored' \ owed') <= Cardinality(keep[c])
            /\ Cardinality(stored' \ owed') \in Nat /\ Cardinality(keep[c]) \in Nat
        BY <1>0, <3>2, FS_Subset, FS_CardinalityType
      <3>5. QED
        BY <3>3, <3>4, BoundsAssumption DEF LeanButOwed
    <2>5. QED
      BY <2>1, <2>3, <2>4 DEF SeenInTurn, Trimming
  <1>4. ASSUME NEW ends \in SUBSET Raisers, Release(ends), owed' = owed
        PROVE  LeanButOwed'
    BY <1>1, <1>4, ReleaseEffect
  <1>5. ASSUME NEW c \in Raisers, CallFails(c)
        PROVE  LeanButOwed'
    BY <1>4, <1>5 DEF CallFails
  <1>6. ASSUME NEW n \in Nodes, Crash(n)
        PROVE  LeanButOwed'
    BY <1>4, <1>6 DEF Crash
  <1>7. ASSUME NEW c \in Raisers, Stored(c) \/ Found(c) \/ DeleteBegins(c) \/ DeleteOne(c)
        PROVE  LeanButOwed'
    BY <1>1, <1>7 DEF Stored, Found, DeleteBegins, DeleteOne, historyVars
  <1>8. ASSUME \/ \E c \in Raisers, n \in Nodes : Begin(c, n)
               \/ \E n \in Nodes : Tick(n)
               \/ \E x \in ever, u \in Users : Ack(x, u)
               \/ UNCHANGED vars
        PROVE  LeanButOwed'
    BY <1>1, <1>8 DEF Begin, Tick, Ack, vars, historyVars
  <1>9. QED
    BY <1>2, <1>3, <1>5, <1>6, <1>7, <1>8 DEF Next, CallStep

\* More alerts only make an alert older.
LEMMA OldStaysOld ==
    ASSUME IsFiniteSet(ever), IsFiniteSet(ever'), ever \subseteq ever', NEW x, ~AmongNewest(x)
    PROVE  ~AmongNewest(x)'
  <1> DEFINE before == {y \in ever \ {x} : y.at >= x.at}
             after == {y \in ever' \ {x} : y.at >= x.at}
  <1>1. before \subseteq after /\ IsFiniteSet(after)
    BY FS_Subset
  <1>2. /\ Cardinality(before) <= Cardinality(after)
        /\ Cardinality(before) \in Nat /\ Cardinality(after) \in Nat
    BY <1>1, FS_Subset, FS_CardinalityType
  <1>3. ~(Cardinality(before) < MaxAlerts)
    BY DEF AmongNewest
  <1>4. ~(Cardinality(after) < MaxAlerts)
    BY <1>2, <1>3, BoundsAssumption
  <1>5. QED
    BY <1>4 DEF AmongNewest

\* What a query of MAX newest alerts leaves out is old.
LEMMA LeftOutIsOld ==
    ASSUME TypeOK, IsFiniteSet(ever), Cardinality(stored) >= MaxAlerts,
           NEW kept \in SUBSET stored, Newest(kept), NEW x \in stored \ kept
    PROVE  ~AmongNewest(x)
  <1> DEFINE newer == {y \in ever \ {x} : y.at >= x.at}
  <1>1. Cardinality(stored) \in Nat
    BY FS_Subset, FS_CardinalityType DEF TypeOK
  <1>2. Cardinality(kept) = MaxAlerts
    BY <1>1, BoundsAssumption DEF Newest
  <1>3. kept \subseteq newer /\ IsFiniteSet(newer)
    BY FS_Subset DEF Newest, TypeOK
  <1>4. Cardinality(kept) <= Cardinality(newer) /\ Cardinality(newer) \in Nat
    BY <1>3, FS_Subset, FS_CardinalityType
  <1>5. ~(Cardinality(newer) < MaxAlerts)
    BY <1>2, <1>4, BoundsAssumption
  <1>6. QED
    BY <1>5 DEF AmongNewest

LEMMA OldStep ==
    ASSUME TypeOK, IsFiniteSet(ever), IsFiniteSet(ever'), GoesOld, [Next]_vars
    PROVE  GoesOld'
  <1>1. ASSUME NEW c \in Raisers, Stored(c)
        PROVE  GoesOld'
    <2>1. SUFFICES ASSUME ~disturbed'
                   PROVE  GoesOld'
      BY DEF GoesOld
    <2>2. /\ stored' = stored \cup {mine[c]} /\ ever' = ever \cup {mine[c]} /\ keep' = keep
          /\ \A d \in Raisers : pc'[d] = IF d = c THEN "find" ELSE pc[d]
          /\ ~disturbed /\ ~TrimUnderWay(c)
      BY <1>1, <2>1 DEF Stored, TypeOK, trimVars
    <2>3. \A d \in Raisers : ~Trimming(d)'
      BY <2>2 DEF Trimming, TrimUnderWay
    <2>4. \A x \in ever' \ stored' : ~AmongNewest(x)
      BY <2>2 DEF GoesOld
    <2>5. \A x \in ever' \ stored' : ~AmongNewest(x)'
      BY <2>2, <2>4, OldStaysOld
    <2>6. QED
      BY <2>3, <2>5 DEF GoesOld
  <1>2. ASSUME NEW c \in Raisers, Found(c)
        PROVE  GoesOld'
    <2>1. SUFFICES ASSUME ~disturbed'
                   PROVE  GoesOld'
      BY DEF GoesOld
    <2>2. PICK kept \in SUBSET stored : Newest(kept) /\ keep' = [keep EXCEPT ![c] = kept]
      BY <1>2 DEF Found
    <2>3. /\ UNCHANGED <<stored, ever>> /\ keep'[c] = kept /\ Cardinality(stored) >= MaxAlerts
          /\ \A d \in Raisers \ {c} : pc'[d] = pc[d]
          /\ ~disturbed /\ ~TrimUnderWay(c)
      BY <1>2, <2>1, <2>2 DEF Found, TypeOK
    <2>4. \A d \in Raisers \ {c} : ~Trimming(d)'
      BY <2>3 DEF Trimming, TrimUnderWay
    <2>5. \A x : AmongNewest(x)' <=> AmongNewest(x)
      BY <2>3 DEF AmongNewest
    <2>6. \A x \in ever \ kept : ~AmongNewest(x)
      BY <2>2, <2>3, LeftOutIsOld DEF GoesOld
    <2>7. QED
      BY <2>3, <2>4, <2>5, <2>6 DEF GoesOld
  <1>3. ASSUME ever' = ever, stored' \subseteq stored, ~disturbed' => ~disturbed,
               \A x \in stored \ stored' : ~disturbed => ~AmongNewest(x),
               \A d \in Raisers : Trimming(d)' => Trimming(d) /\ keep'[d] = keep[d]
        PROVE  GoesOld'
    <2>1. \A x : AmongNewest(x)' <=> AmongNewest(x)
      BY <1>3 DEF AmongNewest
    <2>2. QED
      BY <1>3, <2>1 DEF GoesOld
  <1>4. ASSUME NEW c \in Raisers, DeleteBegins(c)
        PROVE  GoesOld'
    BY <1>3, <1>4 DEF DeleteBegins, Trimming, TypeOK, historyVars
  <1>5. ASSUME NEW c \in Raisers, DeleteOne(c)
        PROVE  GoesOld'
    <2>1. PICK x \in stored \ keep[c] : stored' = stored \ {x}
      BY <1>5 DEF DeleteOne
    <2>2. ~disturbed => ~AmongNewest(x)
      BY <1>5, <2>1 DEF DeleteOne, GoesOld, Trimming, TypeOK
    <2>3. /\ \A d \in Raisers : Trimming(d)' => Trimming(d) /\ keep'[d] = keep[d]
          /\ ever' = ever /\ disturbed' = disturbed
      BY <1>5 DEF DeleteOne, Trimming, trimVars, historyVars
    <2>4. QED
      BY <1>3, <2>1, <2>2, <2>3
  <1>6. ASSUME NEW ends \in SUBSET Raisers, Release(ends), ~disturbed' => ~disturbed
        PROVE  GoesOld'
    <2>1. \A d \in Raisers : pc'[d] # "idle" => pc'[d] = pc[d] /\ keep'[d] = keep[d]
      BY <1>6, ReleaseEffect
    <2>2. \A d \in Raisers : Trimming(d)' => Trimming(d) /\ keep'[d] = keep[d]
      BY <2>1 DEF Trimming
    <2>3. ever' = ever /\ stored' = stored
      BY <1>6, ReleaseEffect
    <2>4. QED
      BY <1>3, <1>6, <2>2, <2>3
  <1>7. ASSUME NEW c \in Raisers, FewFound(c) \/ DeleteEnds(c) \/ CallFails(c)
        PROVE  GoesOld'
    <2>1. CASE FewFound(c)
      <3>1. Release({c}) /\ disturbed' = (disturbed \/ TrimUnderWay(c))
        BY <2>1 DEF FewFound
      <3>2. QED
        BY <1>6, <3>1
    <2>2. CASE DeleteEnds(c) \/ CallFails(c)
      <3>1. Release({c}) /\ disturbed' = disturbed
        BY <2>2 DEF DeleteEnds, CallFails
      <3>2. QED
        BY <1>6, <3>1
    <2>3. QED
      BY <1>7, <2>1, <2>2
  <1>8. ASSUME NEW n \in Nodes, Crash(n)
        PROVE  GoesOld'
    BY <1>6, <1>8 DEF Crash
  <1>9. ASSUME NEW c \in Raisers, NEW n \in Nodes, Begin(c, n)
        PROVE  GoesOld'
    BY <1>3, <1>9 DEF Begin, Trimming, TypeOK, trimVars, historyVars
  <1>10. ASSUME NEW x \in ever, NEW u \in Users, Ack(x, u)
         PROVE  GoesOld'
    BY <1>3, <1>10 DEF Ack, Trimming, trimVars, historyVars
  <1>11. ASSUME NEW n \in Nodes, Tick(n)
         PROVE  GoesOld'
    BY <1>3, <1>11 DEF Tick, Trimming, trimVars, historyVars
  <1>12. CASE UNCHANGED vars
    BY <1>3, <1>12 DEF vars, Trimming, trimVars, historyVars
  <1>13. QED
    BY <1>1, <1>2, <1>4, <1>5, <1>7, <1>8, <1>9, <1>10, <1>11, <1>12 DEF Next, CallStep

LEMMA InitInv == Init => IInv
  <1> SUFFICES ASSUME Init PROVE IInv
    OBVIOUS
  <1>1. TypeOK /\ IsFiniteSet(ever)
    BY TypeInit, FS_EmptySet DEF Init
  <1>2. \A c \in Raisers : pc[c] = "idle" /\ ~Trimming(c)
    BY DEF Init, Trimming
  <1>3. ever = {} /\ stored = {} /\ stored \ owed = {}
    BY DEF Init
  <1>4. Cardinality(stored \ owed) = 0
    BY <1>3, FS_EmptySet
  <1>5. LeanButOwed
    BY <1>4, BoundsAssumption DEF LeanButOwed
  <1>6. MineIsNew /\ SeenInTurn /\ KeepsFew /\ GoesOld
    BY <1>2, <1>3 DEF MineIsNew, SeenInTurn, KeepsFew, GoesOld
  <1>7. QED
    BY <1>1, <1>5, <1>6 DEF IInv

LEMMA StepInv == IInv /\ [Next]_vars => IInv'
  BY TypeStep, EverStep, MineStep, SeenStep, KeepsStep, LeanStep, OldStep DEF IInv

LEMMA Invariance == Spec => []IInv
  BY InitInv, StepInv, PTL DEF Spec

\* The type of the state: documents are those ever stored, each call holds what
\* belongs to its await (raise and trimHistory in alert.service.ts).
THEOREM TypeCorrect == Spec => []TypeOK
  <1>1. IInv => TypeOK
    BY DEF IInv
  <1>2. QED
    BY <1>1, Invariance, PTL

\* Once a trim that queried after the last alert was stored has got through, the
\* bin has MAX_ALERTS_PER_DUSTBIN alerts at most, whichever raises and trims
\* overlapped, failed or died (alert.service.ts:26-39).
THEOREM LeanHolds == Spec => []LeanOnceTrimmed
  <1>1. IInv => LeanOnceTrimmed
    <2>1. owed = {} => stored \ owed = stored
      OBVIOUS
    <2>2. QED
      BY <2>1 DEF IInv, LeanButOwed, LeanOnceTrimmed
  <1>2. QED
    BY <1>1, Invariance, PTL

\* As long as nothing came between a trim's query and its end, no alert is gone
\* that is among the MAX newest, though creation times tie and clocks disagree
\* (alert.service.ts:27, 35).
THEOREM OnlyOldHolds == Spec => []OnlyOldTrimmedAlone
  <1>1. IInv => OnlyOldTrimmedAlone
    BY DEF IInv, GoesOld, OnlyOldTrimmedAlone
  <1>2. QED
    BY <1>1, Invariance, PTL
============================================================================
