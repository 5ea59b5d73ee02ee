--------------------------- MODULE ReadingsProofs ---------------------------
(***************************************************************************)
(* TLAPS proofs about the readings. First about Ingestion, how they come   *)
(* into the database: for any metrics and messages, any finite set of      *)
(* handlers in flight and any size of the window. Then about KeysetPaging, *)
(* how pages of them are read, for every archive and page size: a walk     *)
(* goes down a total order; what a request shows lies below the cursor of  *)
(* the answer before (PagesDescend), and what the query left out lies      *)
(* below the new one (NothingSkipped).                                     *)
(***************************************************************************)
EXTENDS Ingestion, KeysetPaging, FiniteSetTheorems, TLAPS

(***************************************************************************)
(* Types.                                                                  *)
(***************************************************************************)

LEMMA StampsAreNat == Stamps \subseteq Nat \ {0}
  BY BoundsAssumption DEF Stamps

LEMMA InitTypeOK == IngestInit => IngestTypeOK
  <1> SUFFICES ASSUME IngestInit PROVE IngestTypeOK
    OBVIOUS
  <1>1. /\ exists \in BOOLEAN /\ active \in BOOLEAN /\ shown \subseteq Messages
        /\ disorder \in BOOLEAN
    BY DEF IngestInit
  <1>2. /\ window \in [Metrics -> Seq(Stamps)] /\ archive \in [Metrics -> Seq(Stamps)]
        /\ \A k \in Metrics : Len(window[k]) <= Window
    BY BoundsAssumption DEF IngestInit
  <1>3. /\ latest \in [Metrics -> Stamps \cup {0}] /\ latestTs \in Stamps \cup {0}
        /\ pushed \in [Metrics -> Nat] /\ missed \in [Metrics -> Nat]
    BY DEF IngestInit
  <1>4. /\ phaseOf \in [Handlers -> HandlerPhases]
        /\ msg \in [Handlers -> Messages \cup {NoMessage}]
        /\ op \in [Handlers -> [Metrics -> Stages]]
    BY DEF IngestInit, HandlerPhases, Stages, NoOps
  <1>5. received \in 0 .. MaxReceived /\ faults \in 0 .. MaxFaults
    BY BoundsAssumption DEF IngestInit
  <1>6. QED
    BY <1>1, <1>2, <1>3, <1>4, <1>5 DEF IngestTypeOK

\* $push with $slice returns at most Window of the readings it had and the new one.
LEMMA PushType ==
  ASSUME NEW s \in Seq(Stamps), NEW t \in Stamps, Len(s) <= Window
  PROVE  Push(s, t) \in Seq(Stamps) /\ Len(Push(s, t)) <= Window
  <1> DEFINE all == Append(s, t)
  <1>1. all \in Seq(Stamps) /\ Len(all) = Len(s) + 1 /\ Len(s) \in Nat
    OBVIOUS
  <1>2. CASE Len(all) <= Window
    BY <1>1, <1>2 DEF Push
  <1>3. CASE ~(Len(all) <= Window)
    <2> DEFINE tail == SubSeq(all, Len(all) - Window + 1, Len(all))
    <2>1. Window \in Nat \ {0} /\ Len(all) - Window + 1 \in 1 .. Len(all)
      BY <1>1, <1>3, BoundsAssumption
    <2>2. tail \in Seq(Stamps) /\ Len(tail) = Window
      BY <1>1, <2>1
    <2>3. QED
      BY <1>3, <2>1, <2>2 DEF Push
  <1>4. QED
    BY <1>2, <1>3

LEMMA ReleaseType ==
  ASSUME IngestTypeOK, NEW hs, Release(hs)
  PROVE  /\ phaseOf' \in [Handlers -> HandlerPhases]
         /\ msg' \in [Handlers -> Messages \cup {NoMessage}]
         /\ op' \in [Handlers -> [Metrics -> Stages]]
  BY DEF IngestTypeOK, Release, HandlerPhases, Stages, NoOps

\* What a handler with a call out works on is a message.
LEMMA BusyHasMessage ==
  ASSUME IngestTypeOK, OpsFollowPhase, NEW h \in Handlers, NEW k \in Metrics, op[h][k] # "none"
  PROVE  phaseOf[h] # "idle" /\ msg[h] \in Messages /\ msg[h].ts \in Stamps
  <1>1. phaseOf[h] # "idle"
    BY DEF OpsFollowPhase, NoOps
  <1>2. QED
    BY <1>1 DEF OpsFollowPhase, Stamps

LEMMA NextTypeOK == IngestTypeOK /\ OpsFollowPhase /\ [IngestNext]_ingestVars => IngestTypeOK'
  <1> SUFFICES ASSUME IngestTypeOK, OpsFollowPhase, [IngestNext]_ingestVars PROVE IngestTypeOK'
    OBVIOUS
  <1> USE DEF binVars, historyVars, handlerVars
  <1>1. ASSUME NEW h \in Handlers, NEW m \in Messages, Receive(h, m)
        PROVE  IngestTypeOK'
    <2>1. received' \in 0 .. MaxReceived
      BY <1>1, BoundsAssumption DEF Receive, IngestTypeOK
    <2>2. /\ phaseOf' \in [Handlers -> HandlerPhases]
          /\ msg' \in [Handlers -> Messages \cup {NoMessage}]
          /\ op' \in [Handlers -> [Metrics -> Stages]]
      BY <1>1 DEF Receive, IngestTypeOK, HandlerPhases, Stages
    <2>3. disorder' \in BOOLEAN
      BY <1>1 DEF Receive
    <2>4. QED
      BY <1>1, <2>1, <2>2, <2>3 DEF Receive, IngestTypeOK
  <1>2. ASSUME NEW h \in Handlers, NEW k \in Metrics, Archive(h, k)
        PROVE  IngestTypeOK'
    <2>1. msg[h].ts \in Stamps
      BY <1>2, BusyHasMessage DEF Archive
    <2>2. archive' \in [Metrics -> Seq(Stamps)]
      BY <1>2, <2>1 DEF Archive, IngestTypeOK
    <2>3. op' \in [Handlers -> [Metrics -> Stages]]
      BY <1>2 DEF Archive, IngestTypeOK, Stages
    <2>4. QED
      BY <1>2, <2>2, <2>3 DEF Archive, IngestTypeOK
  <1>3. ASSUME NEW h \in Handlers, NEW k \in Metrics, Update(h, k)
        PROVE  IngestTypeOK'
    <2>1. msg[h].ts \in Stamps
      BY <1>3, BusyHasMessage DEF Update
    <2>2. op' \in [Handlers -> [Metrics -> Stages]]
      BY <1>3 DEF Update, IngestTypeOK, Stages
    <2>3. /\ window' \in [Metrics -> Seq(Stamps)]
          /\ \A j \in Metrics : Len(window'[j]) <= Window
      <3>1. Push(window[k], msg[h].ts) \in Seq(Stamps) /\ Len(Push(window[k], msg[h].ts)) <= Window
        BY <2>1, PushType DEF IngestTypeOK
      <3>2. QED
        BY <1>3, <3>1 DEF Update, IngestTypeOK
    <2>4. /\ latest' \in [Metrics -> Stamps \cup {0}] /\ latestTs' \in Stamps \cup {0}
      BY <1>3, <2>1 DEF Update, IngestTypeOK
    <2>5. pushed' \in [Metrics -> Nat] /\ missed' \in [Metrics -> Nat]
      <3>1. /\ pushed' = pushed \/ pushed' = [pushed EXCEPT ![k] = @ + 1]
            /\ missed' = missed \/ missed' = [missed EXCEPT ![k] = @ + 1]
        BY <1>3 DEF Update
      <3>2. pushed \in [Metrics -> Nat] /\ missed \in [Metrics -> Nat]
        BY DEF IngestTypeOK
      <3>3. QED
        BY <3>1, <3>2
    <2>6. QED
      BY <1>3, <2>2, <2>3, <2>4, <2>5 DEF Update, IngestTypeOK
  <1>4. ASSUME NEW h \in Handlers, NEW k \in Metrics, OpFails(h, k)
        PROVE  IngestTypeOK'
    <2>1. faults' \in 0 .. MaxFaults
      BY <1>4, BoundsAssumption DEF OpFails, IngestTypeOK
    <2>2. op' \in [Handlers -> [Metrics -> Stages]] /\ phaseOf' \in [Handlers -> HandlerPhases]
      BY <1>4 DEF OpFails, IngestTypeOK, Stages, HandlerPhases
    <2>3. missed' \in [Metrics -> Nat]
      BY <1>4 DEF OpFails, IngestTypeOK
    <2>4. QED
      BY <1>4, <2>1, <2>2, <2>3 DEF OpFails, IngestTypeOK
  <1>5. ASSUME NEW h \in Handlers, Show(h)
        PROVE  IngestTypeOK'
    <2>1. msg[h] \in Messages
      BY <1>5 DEF Show, OpsFollowPhase
    <2>2. phaseOf' \in [Handlers -> HandlerPhases]
      BY <1>5 DEF Show, IngestTypeOK, HandlerPhases
    <2>3. QED
      BY <1>5, <2>1, <2>2 DEF Show, IngestTypeOK
  <1>6. ASSUME NEW h \in Handlers, Finish(h)
        PROVE  IngestTypeOK'
    BY <1>6, ReleaseType DEF Finish, IngestTypeOK
  <1>7. ASSUME NEW hs \in SUBSET Handlers, Crash(hs)
        PROVE  IngestTypeOK'
    <2>1. faults' \in 0 .. MaxFaults
      BY <1>7, BoundsAssumption DEF Crash, IngestTypeOK
    <2>2. missed' \in [Metrics -> Nat]
      <3> DEFINE cut(k) == Cardinality({h \in hs : op[h][k] = "update"})
      <3>1. ASSUME NEW k \in Metrics PROVE cut(k) \in Nat
        BY FS_Subset, FS_CardinalityType, BoundsAssumption
      <3>2. missed' = [k \in Metrics |-> missed[k] + cut(k)]
        BY <1>7 DEF Crash
      <3> HIDE DEF cut
      <3>3. QED
        BY <3>1, <3>2 DEF IngestTypeOK
    <2>3. QED
      BY <1>7, <2>1, <2>2, ReleaseType DEF Crash, IngestTypeOK
  <1>8. CASE Upsert
    BY <1>8 DEF Upsert, IngestTypeOK
  <1>9. CASE SoftDelete
    BY <1>9 DEF SoftDelete, IngestTypeOK
  <1>10. CASE UNCHANGED ingestVars
    BY <1>10 DEF ingestVars, IngestTypeOK
  <1>11. QED
    BY <1>1, <1>2, <1>3, <1>4, <1>5, <1>6, <1>7, <1>8, <1>9, <1>10 DEF IngestNext

(***************************************************************************)
(* The phases of a handler and its calls.                                  *)
(***************************************************************************)

LEMMA NextOpsFollowPhase == IngestTypeOK /\ OpsFollowPhase /\ [IngestNext]_ingestVars => OpsFollowPhase'
  <1> SUFFICES ASSUME IngestTypeOK, OpsFollowPhase, [IngestNext]_ingestVars PROVE OpsFollowPhase'
    OBVIOUS
  <1> USE DEF OpsFollowPhase
  <1>1. ASSUME NEW h \in Handlers, NEW m \in Messages, Receive(h, m)
        PROVE  OpsFollowPhase'
    <2>1. m.metrics \subseteq Metrics
      BY BoundsAssumption
    <2>2. QED
      BY <1>1, <2>1 DEF Receive, IngestTypeOK
  <1>2. ASSUME NEW h \in Handlers, NEW k \in Metrics,
               Archive(h, k) \/ Update(h, k) \/ OpFails(h, k)
        PROVE  OpsFollowPhase'
    <2>1. phaseOf[h] # "idle"
      BY <1>2, BusyHasMessage DEF Archive, Update, OpFails
    <2>2. /\ msg' = msg /\ \A g \in Handlers : g # h => op'[g] = op[g] /\ phaseOf'[g] = phaseOf[g]
          /\ phaseOf'[h] \in {phaseOf[h], "rejected"}
      BY <1>2 DEF Archive, Update, OpFails, IngestTypeOK
    <2>3. phaseOf'[h] = "ingest" => \A j \in Metrics : op[h][j] # "none" => op'[h][j] # "none"
      BY <1>2 DEF Archive, Update, OpFails, IngestTypeOK
    <2>4. \A j \in msg[h].metrics : j \in Metrics
      BY <2>1, BoundsAssumption
    <2>5. QED
      BY <2>1, <2>2, <2>3, <2>4
  <1>3. ASSUME NEW h \in Handlers, Show(h)
        PROVE  OpsFollowPhase'
    BY <1>3 DEF Show, IngestTypeOK
  <1>4. ASSUME NEW hs, Release(hs)
        PROVE  OpsFollowPhase'
    BY <1>4 DEF Release
  <1>5. CASE Upsert \/ SoftDelete \/ UNCHANGED ingestVars
    BY <1>5 DEF Upsert, SoftDelete, ingestVars, handlerVars
  <1>6. QED
    BY <1>1, <1>2, <1>3, <1>4, <1>5 DEF IngestNext, Finish, Crash

(***************************************************************************)
(* What is sent to the document, or shown, is in the archive.              *)
(***************************************************************************)

\* The archive only grows.
LEMMA ArchiveGrows ==
  ASSUME IngestTypeOK, OpsFollowPhase, [IngestNext]_ingestVars, NEW k \in Metrics, NEW t, IsArchived(k, t)
  PROVE  IsArchived(k, t)'
  <1>1. PICK i \in DOMAIN archive[k] : archive[k][i] = t
    BY DEF IsArchived
  <1>2. ASSUME NEW h \in Handlers, NEW j \in Metrics, Archive(h, j)
        PROVE  IsArchived(k, t)'
    <2>1. CASE j # k
      BY <1>1, <1>2, <2>1 DEF Archive, IngestTypeOK, IsArchived
    <2>2. CASE j = k
      <3>1. archive[k] \in Seq(Stamps) /\ archive'[k] = Append(archive[k], msg[h].ts)
        BY <1>2, <2>2 DEF Archive, IngestTypeOK
      <3>2. i \in DOMAIN archive'[k] /\ archive'[k][i] = t
        BY <1>1, <3>1
      <3>3. QED
        BY <3>2 DEF IsArchived
    <2>3. QED
      BY <2>1, <2>2
  <1>3. CASE UNCHANGED archive
    BY <1>1, <1>3 DEF IsArchived
  <1>4. QED
    BY <1>2, <1>3 DEF IngestNext, ingestVars, Receive, Update, OpFails, Show, Finish, Crash, Upsert, SoftDelete

LEMMA NextUpdatesAreArchived ==
  IngestTypeOK /\ OpsFollowPhase /\ UpdatesAreArchived /\ [IngestNext]_ingestVars => UpdatesAreArchived'
  <1> SUFFICES ASSUME IngestTypeOK, OpsFollowPhase, UpdatesAreArchived, [IngestNext]_ingestVars,
                      NEW h \in Handlers, NEW k \in Metrics, op'[h][k] \in {"update", "done"}
               PROVE  IsArchived(k, msg[h].ts)'
    BY DEF UpdatesAreArchived
  <1>1. CASE op[h][k] \in {"update", "done"} /\ msg'[h] = msg[h]
    BY <1>1, ArchiveGrows DEF UpdatesAreArchived, IsArchived
  <1>2. ASSUME Archive(h, k)
        PROVE  IsArchived(k, msg[h].ts)'
    <2>1. archive[k] \in Seq(Stamps) /\ archive'[k] = Append(archive[k], msg[h].ts)
      BY <1>2 DEF Archive, IngestTypeOK
    <2>2. msg[h].ts \in Stamps
      BY <1>2, BusyHasMessage DEF Archive
    <2>3. Len(archive[k]) + 1 \in DOMAIN archive'[k]
          /\ archive'[k][Len(archive[k]) + 1] = msg[h].ts /\ msg' = msg
      BY <1>2, <2>1, <2>2 DEF Archive
    <2>4. QED
      BY <2>3 DEF IsArchived
  <1>3. Archive(h, k) \/ (op[h][k] \in {"update", "done"} /\ msg'[h] = msg[h])
    <2>1. ASSUME NEW g \in Handlers, NEW m \in Messages, Receive(g, m)
          PROVE  op[h][k] \in {"update", "done"} /\ msg'[h] = msg[h]
      BY <2>1 DEF Receive, IngestTypeOK
    <2>2. ASSUME NEW g \in Handlers, NEW j \in Metrics,
                 Archive(g, j) \/ Update(g, j) \/ OpFails(g, j)
          PROVE  Archive(h, k) \/ (op[h][k] \in {"update", "done"} /\ msg'[h] = msg[h])
      <3>1. op \in [Handlers -> [Metrics -> Stages]]
        BY DEF IngestTypeOK
      <3>2. CASE Archive(g, j)
        BY <3>1, <3>2 DEF Archive
      <3>3. CASE Update(g, j)
        BY <3>1, <3>3 DEF Update
      <3>4. CASE OpFails(g, j)
        BY <3>1, <3>4 DEF OpFails
      <3>5. QED
        BY <2>2, <3>2, <3>3, <3>4
    <2>3. ASSUME NEW hs, Release(hs)
          PROVE  op[h][k] \in {"update", "done"} /\ msg'[h] = msg[h]
      BY <2>3 DEF Release, NoOps
    <2>4. CASE (\E g \in Handlers : Show(g)) \/ Upsert \/ SoftDelete \/ UNCHANGED ingestVars
      BY <2>4 DEF Show, Upsert, SoftDelete, ingestVars, handlerVars
    <2>5. QED
      BY <2>1, <2>2, <2>3, <2>4 DEF IngestNext, Finish, Crash
  <1>4. QED
    BY <1>1, <1>2, <1>3

LEMMA NextShownIsStored ==
  IngestTypeOK /\ OpsFollowPhase /\ UpdatesAreArchived /\ ShownIsStored /\ [IngestNext]_ingestVars
    => ShownIsStored'
  <1> SUFFICES ASSUME IngestTypeOK, OpsFollowPhase, UpdatesAreArchived, ShownIsStored, [IngestNext]_ingestVars,
                      NEW m \in shown', NEW k \in m.metrics
               PROVE  IsArchived(k, m.ts)'
    BY DEF ShownIsStored, IsArchived
  <1>1. CASE m \in shown
    <2>1. k \in Metrics
      BY <1>1, BoundsAssumption DEF IngestTypeOK
    <2>2. IsArchived(k, m.ts)
      BY <1>1 DEF ShownIsStored, IsArchived
    <2>3. QED
      BY <2>1, <2>2, ArchiveGrows
  <1>2. CASE m \notin shown
    <2>1. PICK h \in Handlers : Show(h)
      BY <1>2 DEF IngestNext, ingestVars, historyVars, Receive, Archive, Update, OpFails, Finish, Crash, Upsert,
                  SoftDelete
    <2>2. m = msg[h] /\ m \in Messages /\ archive' = archive
      BY <1>2, <2>1 DEF Show, OpsFollowPhase, binVars
    <2>3. k \in Metrics /\ op[h][k] = "done"
      BY <2>1, <2>2, BoundsAssumption DEF Show, AllDone, OpsFollowPhase
    <2>4. QED
      BY <2>2, <2>3 DEF UpdatesAreArchived, IsArchived
  <1>3. QED
    BY <1>1, <1>2

(***************************************************************************)
(* Every archived reading is pushed, missed or on its way to the document. *)
(***************************************************************************)

OnItsWay(k) == {h \in Handlers : op[h][k] = "update"}

LEMMA OnItsWayFinite ==
  ASSUME NEW k
  PROVE  IsFiniteSet(OnItsWay(k)) /\ Cardinality(OnItsWay(k)) \in Nat
  BY FS_Subset, FS_CardinalityType, BoundsAssumption DEF OnItsWay

\* A step that leaves the numbers of a metric alone.
LEMMA NumbersKept ==
  ASSUME NothingLost, NEW k \in Metrics, archive'[k] = archive[k], pushed'[k] = pushed[k],
         missed'[k] = missed[k], OnItsWay(k)' = OnItsWay(k)
  PROVE  Len(archive'[k]) = pushed'[k] + missed'[k] + Cardinality(OnItsWay(k)')
  BY DEF NothingLost, OnItsWay

\* The call of one handler for one metric.
LEMMA CallKeepsCount ==
  ASSUME IngestTypeOK, OpsFollowPhase, NothingLost, NEW k \in Metrics,
         NEW h \in Handlers, NEW j \in Metrics, Archive(h, j) \/ Update(h, j) \/ OpFails(h, j)
  PROVE  Len(archive'[k]) = pushed'[k] + missed'[k] + Cardinality(OnItsWay(k)')
  <1> DEFINE w == OnItsWay(k)
  <1>1. IsFiniteSet(w) /\ Cardinality(w) \in Nat
    BY OnItsWayFinite
  <1>2. Len(archive[k]) = pushed[k] + missed[k] + Cardinality(w)
        /\ pushed[k] \in Nat /\ missed[k] \in Nat /\ archive[k] \in Seq(Stamps)
    BY DEF NothingLost, OnItsWay, IngestTypeOK
  <1>3. ASSUME j # k
        PROVE  Len(archive'[k]) = pushed'[k] + missed'[k] + Cardinality(OnItsWay(k)')
    <2>1. archive'[k] = archive[k] /\ pushed'[k] = pushed[k] /\ missed'[k] = missed[k]
      <3>1. CASE Archive(h, j)
        BY <1>3, <3>1 DEF Archive, IngestTypeOK, historyVars
      <3>2. CASE Update(h, j)
        BY <1>3, <3>2 DEF Update, IngestTypeOK
      <3>3. CASE OpFails(h, j)
        BY <1>3, <3>3 DEF OpFails, IngestTypeOK
      <3>4. QED
        BY <3>1, <3>2, <3>3
    <2>2. \A g \in Handlers : op'[g][k] = op[g][k]
      <3>1. \E x : op' = [op EXCEPT ![h][j] = x]
        BY DEF Archive, Update, OpFails
      <3>2. QED
        BY <1>3, <3>1 DEF IngestTypeOK
    <2>3. OnItsWay(k)' = OnItsWay(k)
      BY <2>2 DEF OnItsWay
    <2>4. QED
      BY <2>1, <2>3, NumbersKept
  <1>4. ASSUME Archive(h, k)
        PROVE  Len(archive'[k]) = pushed'[k] + missed'[k] + Cardinality(OnItsWay(k)')
    <2>1. OnItsWay(k)' = w \cup {h} /\ h \notin w
      BY <1>4 DEF Archive, IngestTypeOK, OnItsWay
    <2>2. Cardinality(OnItsWay(k)') = Cardinality(w) + 1
      BY <1>1, <2>1, FS_AddElement
    <2>3. /\ archive'[k] = Append(archive[k], msg[h].ts) /\ pushed' = pushed /\ missed' = missed
          /\ msg[h].ts \in Stamps
      BY <1>4, BusyHasMessage DEF Archive, IngestTypeOK, historyVars
    <2>4. Len(archive'[k]) = Len(archive[k]) + 1 /\ Len(archive[k]) \in Nat
      BY <1>2, <2>3
    <2> HIDE DEF w
    <2>5. QED
      BY <1>1, <1>2, <2>2, <2>3, <2>4
  <1>5. ASSUME Update(h, k) \/ (OpFails(h, k) /\ op[h][k] = "update")
        PROVE  Len(archive'[k]) = pushed'[k] + missed'[k] + Cardinality(OnItsWay(k)')
    <2>1. OnItsWay(k)' = w \ {h} /\ h \in w
      <3>1. op \in [Handlers -> [Metrics -> Stages]]
        BY DEF IngestTypeOK
      <3>2. CASE Update(h, k)
        BY <3>1, <3>2 DEF Update, OnItsWay
      <3>3. CASE OpFails(h, k) /\ op[h][k] = "update"
        BY <3>1, <3>3 DEF OpFails, OnItsWay
      <3>4. QED
        BY <1>5, <3>2, <3>3
    <2>2. Cardinality(OnItsWay(k)') = Cardinality(w) - 1
      BY <1>1, <2>1, FS_RemoveElement
    <2>3. /\ archive' = archive
          /\ \/ pushed' = [pushed EXCEPT ![k] = @ + 1] /\ missed' = missed
             \/ missed' = [missed EXCEPT ![k] = @ + 1] /\ pushed' = pushed
      BY <1>5 DEF Update, OpFails
    <2>4. pushed'[k] + missed'[k] = pushed[k] + missed[k] + 1
      BY <1>2, <2>3 DEF IngestTypeOK
    <2>5. Len(archive'[k]) = Len(archive[k]) /\ Len(archive[k]) \in Nat
      BY <1>2, <2>3
    <2> HIDE DEF w
    <2>6. QED
      BY <1>1, <1>2, <2>2, <2>4, <2>5
  <1>6. ASSUME OpFails(h, k), op[h][k] = "archive"
        PROVE  Len(archive'[k]) = pushed'[k] + missed'[k] + Cardinality(OnItsWay(k)')
    <2>1. archive'[k] = archive[k] /\ pushed'[k] = pushed[k]
      BY <1>6 DEF OpFails
    <2>2. missed'[k] = missed[k]
      BY <1>6 DEF OpFails, IngestTypeOK
    <2>3. OnItsWay(k)' = OnItsWay(k)
      BY <1>6 DEF OpFails, IngestTypeOK, OnItsWay
    <2>4. QED
      BY <2>1, <2>2, <2>3, NumbersKept
  <1>7. QED
    BY <1>3, <1>4, <1>5, <1>6 DEF OpFails

LEMMA NextNothingLost ==
  IngestTypeOK /\ OpsFollowPhase /\ NothingLost /\ [IngestNext]_ingestVars => NothingLost'
  <1> SUFFICES ASSUME IngestTypeOK, OpsFollowPhase, NothingLost, [IngestNext]_ingestVars, NEW k \in Metrics
               PROVE  Len(archive'[k]) = pushed'[k] + missed'[k] + Cardinality(OnItsWay(k)')
    BY DEF NothingLost, OnItsWay
  <1>1. ASSUME NEW h \in Handlers, NEW m \in Messages, Receive(h, m)
        PROVE  Len(archive'[k]) = pushed'[k] + missed'[k] + Cardinality(OnItsWay(k)')
    <2>1. OnItsWay(k)' = OnItsWay(k)
      BY <1>1 DEF Receive, IngestTypeOK, OnItsWay, OpsFollowPhase, NoOps
    <2>2. QED
      BY <1>1, <2>1, NumbersKept DEF Receive
  <1>2. ASSUME NEW h \in Handlers, NEW j \in Metrics, Archive(h, j) \/ Update(h, j) \/ OpFails(h, j)
        PROVE  Len(archive'[k]) = pushed'[k] + missed'[k] + Cardinality(OnItsWay(k)')
    BY <1>2, CallKeepsCount
  <1>3. ASSUME NEW h \in Handlers, Show(h)
        PROVE  Len(archive'[k]) = pushed'[k] + missed'[k] + Cardinality(OnItsWay(k)')
    BY <1>3, NumbersKept DEF Show, OnItsWay
  <1>4. ASSUME NEW h \in Handlers, Finish(h)
        PROVE  Len(archive'[k]) = pushed'[k] + missed'[k] + Cardinality(OnItsWay(k)')
    <2>1. OnItsWay(k)' = OnItsWay(k)
      BY <1>4 DEF Finish, AllDone, Release, NoOps, OnItsWay
    <2>2. QED
      BY <1>4, <2>1, NumbersKept DEF Finish, historyVars
  <1>5. ASSUME NEW hs \in SUBSET Handlers, Crash(hs)
        PROVE  Len(archive'[k]) = pushed'[k] + missed'[k] + Cardinality(OnItsWay(k)')
    <2> DEFINE w == OnItsWay(k)
               cut == {h \in hs : op[h][k] = "update"}
    <2>1. IsFiniteSet(w) /\ Cardinality(w) \in Nat
      BY OnItsWayFinite
    <2>2. OnItsWay(k)' = w \ hs
      BY <1>5 DEF Crash, Release, NoOps, OnItsWay
    <2>3. cut = w \cap hs
      BY DEF OnItsWay
    <2>4. IsFiniteSet(hs)
      BY FS_Subset, BoundsAssumption
    <2>5. Cardinality(w \ hs) = Cardinality(w) - Cardinality(w \cap hs)
      BY <2>1, <2>4, FS_Difference
    <2>6. archive'[k] = archive[k] /\ pushed'[k] = pushed[k]
          /\ missed'[k] = missed[k] + Cardinality(cut)
      BY <1>5 DEF Crash
    <2>7. Cardinality(cut) \in Nat
      BY <2>1, <2>3, FS_Subset, FS_CardinalityType
    <2>8. Len(archive[k]) = pushed[k] + missed[k] + Cardinality(w)
          /\ pushed[k] \in Nat /\ missed[k] \in Nat
      BY DEF NothingLost, OnItsWay, IngestTypeOK
    <2> HIDE DEF w, cut
    <2>9. QED
      BY <2>1, <2>2, <2>3, <2>5, <2>6, <2>7, <2>8
  <1>6. CASE Upsert \/ SoftDelete \/ UNCHANGED ingestVars
    BY <1>6, NumbersKept DEF Upsert, SoftDelete, ingestVars, handlerVars, historyVars, OnItsWay
  <1>7. QED
    BY <1>1, <1>2, <1>3, <1>4, <1>5, <1>6 DEF IngestNext

(***************************************************************************)
(* The document's window is the end of the archive.                        *)
(***************************************************************************)

\* The last readings of a series that has as many.
LEMMA LastOfLong ==
  ASSUME NEW s \in Seq(Stamps), Window <= Len(s)
  PROVE  /\ LastOf(s, Window) \in Seq(Stamps) /\ Len(LastOf(s, Window)) = Window
         /\ \A i \in 1 .. Window : LastOf(s, Window)[i] = s[Len(s) - Window + i]
  <1>1. Window \in Nat \ {0} /\ Len(s) \in Nat
    BY BoundsAssumption
  <1>2. CASE Len(s) = Window
    BY <1>1, <1>2 DEF LastOf
  <1>3. CASE Len(s) # Window
    <2>1. Len(s) - Window + 1 \in 1 .. Len(s) /\ ~(Len(s) <= Window)
      BY <1>1, <1>3
    <2>2. LastOf(s, Window) = SubSeq(s, Len(s) - Window + 1, Len(s))
      BY <2>1 DEF LastOf
    <2>3. QED
      BY <1>1, <2>1, <2>2
  <1>4. QED
    BY <1>2, <1>3

\* $push with $slice on the end of a series gives the end of the longer one.
LEMMA PushFollows ==
  ASSUME NEW s \in Seq(Stamps), NEW t \in Stamps
  PROVE  Push(LastOf(s, Window), t) = LastOf(Append(s, t), Window)
  <1> DEFINE a == Append(s, t)
             l == LastOf(s, Window)
             b == Append(l, t)
  <1>1. Window \in Nat \ {0} /\ Len(s) \in Nat /\ a \in Seq(Stamps) /\ Len(a) = Len(s) + 1
    BY BoundsAssumption
  <1>2. CASE Len(s) < Window
    <2>1. l = s /\ Len(a) <= Window
      BY <1>1, <1>2 DEF LastOf
    <2>2. QED
      BY <2>1 DEF LastOf, Push
  <1>3. CASE ~(Len(s) < Window)
    <2>1. /\ l \in Seq(Stamps) /\ Len(l) = Window
          /\ \A i \in 1 .. Window : l[i] = s[Len(s) - Window + i]
      BY <1>1, <1>3, LastOfLong
    <2>2. /\ LastOf(a, Window) \in Seq(Stamps) /\ Len(LastOf(a, Window)) = Window
          /\ \A i \in 1 .. Window : LastOf(a, Window)[i] = a[Len(a) - Window + i]
      <3>1. a \in Seq(Stamps) /\ Window <= Len(a)
        BY <1>1, <1>3
      <3> HIDE DEF a
      <3>2. QED
        BY <3>1, LastOfLong
    <2> HIDE DEF l
    <2>3. b \in Seq(Stamps) /\ Len(b) = Window + 1
      BY <1>1, <2>1
    <2>4. Push(l, t) = SubSeq(b, 2, Window + 1)
      BY <1>1, <2>3 DEF Push
    <2>5. Push(l, t) \in Seq(Stamps) /\ Len(Push(l, t)) = Window
      BY <1>1, <2>3, <2>4
    <2>6. ASSUME NEW i \in 1 .. Window
          PROVE  Push(l, t)[i] = LastOf(a, Window)[i]
      <3>1. Push(l, t)[i] = b[i + 1]
        BY <1>1, <2>3, <2>4
      <3>2. CASE i = Window
        <4>1. b[i + 1] = t
          BY <2>1, <3>2
        <4>2. a[Len(a) - Window + i] = t
          BY <1>1, <3>2
        <4>3. QED
          BY <2>2, <3>1, <4>1, <4>2
      <3>3. CASE i # Window
        <4>1. i + 1 \in 1 .. Window /\ b[i + 1] = l[i + 1]
          BY <1>1, <2>1, <3>3
        <4>2. l[i + 1] = s[Len(s) - Window + (i + 1)]
          BY <2>1, <4>1
        <4>3. Len(a) - Window + i \in 1 .. Len(s) /\ Len(a) - Window + i = Len(s) - Window + (i + 1)
          BY <1>1, <1>3, <3>3
        <4>4. a[Len(a) - Window + i] = s[Len(a) - Window + i]
          BY <1>1, <4>3
        <4> HIDE DEF a
        <4>5. QED
          BY <2>2, <3>1, <4>1, <4>2, <4>3, <4>4
      <3>4. QED
        BY <3>2, <3>3
    <2> HIDE DEF a
    <2>7. ASSUME NEW u \in Seq(Stamps), NEW v \in Seq(Stamps), Len(u) = Window, Len(v) = Window,
                 \A i \in 1 .. Window : u[i] = v[i]
          PROVE  u = v
      BY <2>7
    <2>8. Push(l, t) = LastOf(a, Window)
      BY <2>2, <2>5, <2>6, <2>7
    <2>9. QED
      BY <2>8 DEF l, a
  <1>4. QED
    BY <1>2, <1>3

\* What a push appends is the end of the window.
LEMMA PushEnds ==
  ASSUME NEW s \in Seq(Stamps), NEW t \in Stamps, Len(s) <= Window
  PROVE  /\ Push(s, t) # <<>> /\ Push(s, t)[Len(Push(s, t))] = t
         /\ \A i \in DOMAIN Push(s, t) : Push(s, t)[i] = t \/ \E j \in DOMAIN s : Push(s, t)[i] = s[j]
  <1> DEFINE all == Append(s, t)
  <1>1. all \in Seq(Stamps) /\ Len(all) = Len(s) + 1 /\ Len(s) \in Nat /\ Window \in Nat \ {0}
    BY BoundsAssumption
  <1>2. \A i \in 1 .. Len(all) : all[i] = t \/ \E j \in DOMAIN s : all[i] = s[j]
    BY <1>1
  <1>3. all[Len(all)] = t
    BY <1>1
  <1>4. CASE Len(all) <= Window
    BY <1>1, <1>2, <1>3, <1>4 DEF Push
  <1>5. CASE ~(Len(all) <= Window)
    <2> DEFINE tail == SubSeq(all, Len(all) - Window + 1, Len(all))
    <2>1. Len(all) - Window + 1 \in 1 .. Len(all)
      BY <1>1, <1>5
    <2>2. /\ tail \in Seq(Stamps) /\ Len(tail) = Window
          /\ \A i \in 1 .. Window : /\ tail[i] = all[Len(all) - Window + i]
                                    /\ Len(all) - Window + i \in 1 .. Len(all)
      BY <1>1, <2>1
    <2>3. Push(s, t) = tail
      BY <1>5 DEF Push
    <2> HIDE DEF tail, all
    <2>4. tail # <<>> /\ tail[Len(tail)] = t
      BY <1>1, <1>3, <2>2
    <2>5. QED
      BY <1>1, <1>2, <2>2, <2>3, <2>4
  <1>6. QED
    BY <1>4, <1>5

LEMMA NextOneAtATime == IngestTypeOK /\ OpsFollowPhase /\ OneAtATime /\ [IngestNext]_ingestVars => OneAtATime'
  <1> SUFFICES ASSUME IngestTypeOK, OpsFollowPhase, OneAtATime, [IngestNext]_ingestVars, ~disorder',
                      NEW h \in Handlers, phaseOf'[h] # "idle"
               PROVE  /\ \A g \in Handlers : phaseOf'[g] # "idle" => g = h
                      /\ \A k \in Metrics : \A i \in DOMAIN archive'[k] : archive'[k][i] <= msg'[h].ts
    BY DEF OneAtATime
  <1> DEFINE Goal == /\ \A g \in Handlers : phaseOf'[g] # "idle" => g = h
                     /\ \A k \in Metrics : \A i \in DOMAIN archive'[k] :
                            archive'[k][i] <= msg'[h].ts
  <1> USE DEF binVars, historyVars, handlerVars
  <1>0. archive \in [Metrics -> Seq(Stamps)]
    BY DEF IngestTypeOK
  <1>1. ASSUME NEW g \in Handlers, NEW m \in Messages, Receive(g, m)
        PROVE  Goal
    <2>1. ~disorder /\ (\A f \in Handlers : phaseOf[f] = "idle")
          /\ \A k \in Metrics : \A i \in DOMAIN archive[k] : ~(archive[k][i] >= m.ts)
      BY <1>1 DEF Receive
    <2>2. /\ phaseOf' = [phaseOf EXCEPT ![g] = "ingest"] /\ msg' = [msg EXCEPT ![g] = m]
          /\ archive' = archive
      BY <1>1 DEF Receive
    <2>3. g = h /\ msg'[h] = m
      BY <2>1, <2>2 DEF IngestTypeOK
    <2>4. \A f \in Handlers : phaseOf'[f] # "idle" => f = h
      BY <2>1, <2>2, <2>3 DEF IngestTypeOK
    <2>5. ASSUME NEW k \in Metrics, NEW i \in DOMAIN archive[k]
          PROVE  archive[k][i] <= m.ts
      <3>1. archive[k] \in Seq(Stamps) /\ m.ts \in Nat
        BY <1>0, BoundsAssumption
      <3>2. archive[k][i] \in Stamps
        BY <3>1
      <3>3. archive[k][i] \in Nat
        BY <3>2, StampsAreNat
      <3>4. QED
        BY <2>1, <3>1, <3>3
    <2>6. QED
      BY <2>2, <2>3, <2>4, <2>5
  <1>2. ASSUME NEW g \in Handlers, NEW j \in Metrics, Archive(g, j)
        PROVE  Goal
    <2>1. ~disorder /\ phaseOf' = phaseOf /\ msg' = msg
          /\ archive' = [archive EXCEPT ![j] = Append(@, msg[g].ts)]
      BY <1>2 DEF Archive
    <2>2. phaseOf[g] # "idle" /\ msg[g].ts \in Stamps
      BY <1>2, BusyHasMessage DEF Archive
    <2>3. g = h /\ \A f \in Handlers : phaseOf[f] # "idle" => f = h
      BY <2>1, <2>2 DEF OneAtATime
    <2>4. ASSUME NEW k \in Metrics, NEW i \in DOMAIN archive'[k]
          PROVE  archive'[k][i] <= msg[h].ts
      <3>1. CASE k # j
        BY <1>0, <2>1, <3>1 DEF OneAtATime
      <3>2. CASE k = j
        <4>1. archive'[k] = Append(archive[k], msg[h].ts) /\ archive[k] \in Seq(Stamps)
          BY <1>0, <2>1, <2>3, <3>2
        <4>2. \A n \in DOMAIN archive[k] : archive[k][n] <= msg[h].ts
          BY <2>1 DEF OneAtATime
        <4>3. msg[h].ts \in Nat
          BY <2>2, <2>3, StampsAreNat
        <4>4. CASE i \in DOMAIN archive[k]
          <5>1. archive'[k][i] = archive[k][i]
            BY <4>1, <4>4
          <5>2. QED
            BY <4>2, <4>4, <5>1
        <4>5. CASE i \notin DOMAIN archive[k]
          <5>1. archive'[k][i] = msg[h].ts
            BY <2>2, <2>3, <4>1, <4>5
          <5>2. QED
            BY <4>3, <5>1
        <4>6. QED
          BY <4>4, <4>5
      <3>3. QED
        BY <3>1, <3>2
    <2>5. QED
      BY <2>1, <2>3, <2>4
  <1>3. ASSUME ~disorder, archive' = archive,
               \A g \in Handlers : phaseOf'[g] # "idle" => phaseOf[g] # "idle" /\ msg'[g] = msg[g]
        PROVE  Goal
    BY <1>3 DEF OneAtATime
  <1>4. ASSUME NEW g \in Handlers, NEW j \in Metrics, Update(g, j) \/ OpFails(g, j)
        PROVE  Goal
    <2>1. phaseOf[g] # "idle"
      BY <1>4, BusyHasMessage DEF Update, OpFails
    <2>2. /\ ~disorder /\ archive' = archive /\ msg' = msg
          /\ phaseOf' = phaseOf \/ phaseOf' = [phaseOf EXCEPT ![g] = "rejected"]
      BY <1>4 DEF Update, OpFails
    <2>3. QED
      BY <1>3, <2>1, <2>2 DEF IngestTypeOK
  <1>5. ASSUME NEW g \in Handlers, Show(g)
        PROVE  Goal
    <2>1. /\ ~disorder /\ archive' = archive /\ msg' = msg
          /\ \A f \in Handlers : phaseOf'[f] # "idle" => phaseOf[f] # "idle"
      BY <1>5 DEF Show, IngestTypeOK
    <2>2. QED
      BY <1>3, <2>1
  <1>6. ASSUME NEW hs, Release(hs), ~disorder, archive' = archive
        PROVE  Goal
    <2>1. \A g \in Handlers : phaseOf'[g] # "idle" => phaseOf[g] # "idle" /\ msg'[g] = msg[g]
      BY <1>6 DEF Release
    <2>2. QED
      BY <1>3, <1>6, <2>1
  <1>7. ASSUME Upsert \/ SoftDelete \/ UNCHANGED ingestVars
        PROVE  Goal
    BY <1>3, <1>7 DEF Upsert, SoftDelete, ingestVars
  <1>8. ASSUME NEW hs \in SUBSET Handlers, Crash(hs)
        PROVE  Goal
    BY <1>6, <1>8 DEF Crash
  <1>9. ASSUME NEW g \in Handlers, Finish(g)
        PROVE  Goal
    BY <1>6, <1>9 DEF Finish
  <1> HIDE DEF Goal
  <1>10. Goal
    BY <1>1, <1>2, <1>4, <1>5, <1>7, <1>8, <1>9 DEF IngestNext
  <1>11. QED
    BY <1>10 DEF Goal

LEMMA NextDocumentIsArchived ==
  IngestTypeOK /\ OpsFollowPhase /\ UpdatesAreArchived /\ DocumentIsArchived /\ [IngestNext]_ingestVars
    => DocumentIsArchived'
  <1> SUFFICES ASSUME IngestTypeOK, OpsFollowPhase, UpdatesAreArchived, DocumentIsArchived, [IngestNext]_ingestVars
               PROVE  DocumentIsArchived'
    OBVIOUS
  <1> USE DEF binVars, historyVars, handlerVars
  <1>1. ASSUME NEW h \in Handlers, NEW k \in Metrics, Update(h, k), exists
        PROVE  DocumentIsArchived'
    <2> DEFINE t == msg[h].ts
    <2>1. IsArchived(k, t)'
      <3>1. IsArchived(k, t) /\ msg' = msg /\ archive' = archive
        BY <1>1 DEF Update, UpdatesAreArchived
      <3>2. QED
        BY <3>1 DEF IsArchived
    <2>2. t \in Stamps
      BY <1>1, BusyHasMessage DEF Update
    <2>3. window[k] \in Seq(Stamps) /\ Len(window[k]) <= Window
      BY DEF IngestTypeOK
    <2>4. /\ window' = [window EXCEPT ![k] = Push(window[k], t)]
          /\ latest' = [latest EXCEPT ![k] = t] /\ latestTs' = t /\ archive' = archive
          /\ msg' = msg
      BY <1>1 DEF Update
    <2> DEFINE p == Push(window[k], t)
    <2>5. /\ p # <<>> /\ p[Len(p)] = t
          /\ \A i \in DOMAIN p : p[i] = t \/ \E j \in DOMAIN window[k] : p[i] = window[k][j]
      BY <2>2, <2>3, PushEnds
    <2> HIDE DEF p
    <2>6. window'[k] = p /\ latest'[k] = t /\ \A j \in Metrics : j # k =>
               window'[j] = window[j] /\ latest'[j] = latest[j]
      BY <2>4 DEF IngestTypeOK, p
    <2>7. \A j \in Metrics : \A x : IsArchived(j, x)' <=> IsArchived(j, x)
      BY <2>4 DEF IsArchived
    <2>8. IsArchived(k, t)
      BY <2>1, <2>4 DEF IsArchived
    <2> HIDE DEF t
    <2>9. ASSUME NEW j \in Metrics
          PROVE  /\ latest'[j] = 0 \/ IsArchived(j, latest[j])'
                 /\ \A i \in DOMAIN window'[j] : IsArchived(j, window[j][i])'
                 /\ window'[j] # <<>> => latest'[j] = window'[j][Len(window'[j])]
      <3>1. CASE j = k
        <4>1. IsArchived(k, latest[k])'
          BY <2>4, <2>6, <2>8 DEF IsArchived
        <4>2. ASSUME NEW i \in DOMAIN p
              PROVE  IsArchived(k, p[i])
          BY <2>5, <2>8 DEF DocumentIsArchived
        <4>3. \A i \in DOMAIN window'[k] : IsArchived(k, window[k][i])'
          BY <2>4, <2>6, <4>2 DEF IsArchived
        <4>4. QED
          BY <2>5, <2>6, <3>1, <4>1, <4>3
      <3>2. CASE j # k
        BY <2>4, <2>6, <3>2 DEF DocumentIsArchived, IsArchived
      <3>3. QED
        BY <3>1, <3>2
    <2>10. \E j \in Metrics : IsArchived(j, latestTs)'
      BY <2>4, <2>8 DEF IsArchived
    <2>11. QED
      BY <2>9, <2>10 DEF DocumentIsArchived
  <1>2. ASSUME UNCHANGED <<window, latest, latestTs>>
        PROVE  DocumentIsArchived'
    <2>1. ASSUME NEW k \in Metrics, NEW t, IsArchived(k, t)
          PROVE  \E i \in DOMAIN archive'[k] : archive'[k][i] = t
      BY <2>1, ArchiveGrows DEF IsArchived
    <2>2. ASSUME NEW k \in Metrics
          PROVE  /\ latest'[k] = 0 \/ \E i \in DOMAIN archive'[k] : archive'[k][i] = latest'[k]
                 /\ \A j \in DOMAIN window'[k] :
                        \E i \in DOMAIN archive'[k] : archive'[k][i] = window'[k][j]
                 /\ window'[k] # <<>> => latest'[k] = window'[k][Len(window'[k])]
      BY <1>2, <2>1 DEF DocumentIsArchived
    <2>3. latestTs' = 0 \/ \E k \in Metrics : \E i \in DOMAIN archive'[k] : archive'[k][i] = latestTs'
      BY <1>2, <2>1 DEF DocumentIsArchived
    <2>4. QED
      BY <2>2, <2>3 DEF DocumentIsArchived, IsArchived
  <1>3. QED
    BY <1>1, <1>2 DEF IngestNext, ingestVars, Receive, Archive, Update, OpFails, Show, Finish, Crash, Upsert,
                      SoftDelete

LEMMA NextWindowFollows == IngestInv /\ WindowInv /\ [IngestNext]_ingestVars => WindowFollows'
  <1> SUFFICES ASSUME IngestInv, WindowInv, [IngestNext]_ingestVars, ~disorder', NEW k \in Metrics
               PROVE  /\ \A i \in DOMAIN window'[k] : window'[k][i] <= latest'[k]
                      /\ latest'[k] <= latestTs'
                      /\ missed'[k] = 0 =>
                            /\ (\A h \in Handlers : op'[h][k] # "update") =>
                                  window'[k] = LastOf(archive'[k], Window)
                            /\ \A h \in Handlers : op'[h][k] = "update" =>
                                  /\ archive'[k] # <<>>
                                  /\ archive'[k][Len(archive'[k])] = msg'[h].ts
                                  /\ window'[k] =
                                        LastOf(SubSeq(archive'[k], 1, Len(archive'[k]) - 1), Window)
    BY DEF WindowFollows
  <1> DEFINE Bounds == /\ \A i \in DOMAIN window[k] : window[k][i] <= latest[k]
                       /\ latest[k] <= latestTs
             Whole == window[k] = LastOf(archive[k], Window)
             ButOne(h) ==
                 /\ archive[k] # <<>> /\ archive[k][Len(archive[k])] = msg[h].ts
                 /\ window[k] = LastOf(SubSeq(archive[k], 1, Len(archive[k]) - 1), Window)
             Follows == missed[k] = 0 =>
                 /\ (\A h \in Handlers : op[h][k] # "update") => Whole
                 /\ \A h \in Handlers : op[h][k] = "update" => ButOne(h)
  <1> USE DEF binVars, historyVars, handlerVars
  <1>0. /\ archive \in [Metrics -> Seq(Stamps)] /\ window \in [Metrics -> Seq(Stamps)]
        /\ latest \in [Metrics -> Stamps \cup {0}] /\ latestTs \in Stamps \cup {0}
        /\ op \in [Handlers -> [Metrics -> Stages]] /\ missed \in [Metrics -> Nat]
        /\ Len(window[k]) <= Window
        /\ IngestTypeOK /\ OpsFollowPhase /\ UpdatesAreArchived
        /\ OneAtATime /\ DocumentIsArchived /\ WindowFollows
    BY DEF IngestInv, IngestTypeOK, WindowInv
  \* What is archived is not newer than the message at work.
  <1>1. ASSUME NEW h \in Handlers, ~disorder, phaseOf[h] # "idle", NEW j \in Metrics, NEW t,
               IsArchived(j, t)
        PROVE  t <= msg[h].ts
    BY <1>0, <1>1 DEF OneAtATime, IsArchived
  <1>2. ~disorder => Bounds /\ Follows
    BY <1>0 DEF WindowFollows
  <1>3. ASSUME NEW h \in Handlers, NEW m \in Messages, Receive(h, m)
        PROVE  Bounds' /\ Follows'
    <2>1. ~disorder /\ \A g \in Handlers : phaseOf[g] = "idle"
      BY <1>3 DEF Receive
    <2>2. \A g \in Handlers : op[g][k] # "update" /\ op'[g][k] # "update"
      BY <1>0, <1>3, <2>1 DEF Receive, OpsFollowPhase, NoOps
    <2>3. UNCHANGED <<window, latest, latestTs, archive, missed>>
      BY <1>3 DEF Receive
    <2>4. QED
      BY <1>2, <2>1, <2>2, <2>3
  <1>4. ASSUME NEW h \in Handlers, NEW j \in Metrics, Archive(h, j)
        PROVE  Bounds' /\ Follows'
    <2>1. /\ UNCHANGED <<window, latest, latestTs, missed, phaseOf, msg>> /\ ~disorder
          /\ archive' = [archive EXCEPT ![j] = Append(@, msg[h].ts)]
          /\ op' = [op EXCEPT ![h][j] = "update"] /\ op[h][j] = "archive"
      BY <1>4 DEF Archive
    <2>2. phaseOf[h] # "idle" /\ msg[h].ts \in Stamps
      BY <1>0, <1>4, BusyHasMessage DEF Archive
    <2>3. CASE j # k
      <3>1. archive'[k] = archive[k] /\ \A g \in Handlers : op'[g][k] = op[g][k]
        BY <1>0, <2>1, <2>3
      <3>2. QED
        BY <1>2, <2>1, <3>1
    <2>4. CASE j = k
      <3>1. ASSUME NEW g \in Handlers, g # h
            PROVE  op[g][k] # "update" /\ op'[g][k] # "update"
        <4>1. phaseOf[g] = "idle"
          BY <1>0, <2>1, <2>2, <3>1 DEF OneAtATime
        <4>2. QED
          BY <1>0, <2>1, <3>1, <4>1 DEF OpsFollowPhase, NoOps
      <3>2. op'[h][k] = "update" /\ op[h][k] # "update"
        BY <1>0, <2>1, <2>4
      <3>3. /\ archive'[k] = Append(archive[k], msg[h].ts) /\ archive[k] \in Seq(Stamps)
        BY <1>0, <2>1, <2>4
      <3>4. /\ archive'[k] # <<>> /\ archive'[k][Len(archive'[k])] = msg[h].ts
            /\ SubSeq(archive'[k], 1, Len(archive'[k]) - 1) = archive[k]
        BY <2>2, <3>3
      <3>5. missed[k] = 0 => Whole
        BY <1>2, <2>1, <3>1, <3>2
      <3>6. missed'[k] = 0 => ButOne(h)'
        BY <2>1, <3>4, <3>5
      <3>7. QED
        BY <1>2, <2>1, <3>1, <3>2, <3>6
    <2>5. QED
      BY <2>3, <2>4
  <1>5. ASSUME NEW h \in Handlers, NEW j \in Metrics, Update(h, j), exists
        PROVE  Bounds' /\ Follows'
    <2> DEFINE t == msg[h].ts
    <2>1. /\ UNCHANGED <<archive, missed, phaseOf, msg>> /\ ~disorder
          /\ window' = [window EXCEPT ![j] = Push(window[j], t)]
          /\ latest' = [latest EXCEPT ![j] = t] /\ latestTs' = t
          /\ op' = [op EXCEPT ![h][j] = "done"] /\ op[h][j] = "update"
      BY <1>5 DEF Update
    <2>2. phaseOf[h] # "idle" /\ t \in Stamps /\ t \in Nat
      BY <1>0, <1>5, BusyHasMessage, StampsAreNat DEF Update
    <2>3. IsArchived(j, t)
      BY <1>0, <2>1 DEF UpdatesAreArchived
    <2>4. (latest[k] = 0 \/ latest[k] <= t) /\ \A i \in DOMAIN window[k] : window[k][i] <= t
      BY <1>0, <1>1, <2>1, <2>2 DEF DocumentIsArchived
    <2> HIDE DEF t
    <2>5. CASE j # k
      <3>1. /\ window'[k] = window[k] /\ latest'[k] = latest[k]
            /\ \A g \in Handlers : op'[g][k] = op[g][k]
        BY <1>0, <2>1, <2>5
      <3>2. latest[k] <= t
        BY <2>2, <2>4
      <3>3. QED
        BY <1>2, <2>1, <3>1, <3>2
    <2>6. CASE j = k
      <3>1. /\ window[k] \in Seq(Stamps)
            /\ window'[k] = Push(window[k], t) /\ latest'[k] = t /\ latestTs' = t
        BY <1>0, <2>1, <2>6
      <3>2. /\ Push(window[k], t) # <<>>
            /\ \A i \in DOMAIN Push(window[k], t) :
                  Push(window[k], t)[i] = t \/ \E n \in DOMAIN window[k] : Push(window[k], t)[i] = window[k][n]
        BY <1>0, <2>2, PushEnds
      <3>3. Bounds'
        BY <2>2, <2>4, <3>1, <3>2
      <3>4. ASSUME NEW g \in Handlers
            PROVE  op'[g][k] # "update"
        <4>1. CASE g = h
          BY <1>0, <2>1, <2>6, <4>1
        <4>2. CASE g # h
          <5>1. phaseOf[g] = "idle"
            BY <1>0, <2>1, <2>2, <4>2 DEF OneAtATime
          <5>2. QED
            BY <1>0, <2>1, <4>2, <5>1 DEF OpsFollowPhase, NoOps
        <4>3. QED
          BY <4>1, <4>2
      <3>5. ASSUME missed[k] = 0
            PROVE  Push(window[k], t) = LastOf(archive[k], Window)
        <4> DEFINE s == SubSeq(archive[k], 1, Len(archive[k]) - 1)
        <4>1. /\ archive[k] # <<>> /\ archive[k][Len(archive[k])] = t
              /\ window[k] = LastOf(s, Window)
          BY <1>2, <2>1, <2>6, <3>5 DEF t
        <4>2. s \in Seq(Stamps) /\ Append(s, t) = archive[k]
          <5>1. archive[k] \in Seq(Stamps)
            BY <1>0
          <5>2. Len(archive[k]) \in Nat \ {0}
            BY <4>1, <5>1
          <5>3. QED
            BY <4>1, <5>1, <5>2
        <4> HIDE DEF s
        <4>3. QED
          BY <2>2, <4>1, <4>2, PushFollows
      <3>6. QED
        BY <2>1, <3>1, <3>3, <3>4, <3>5
    <2>7. QED
      BY <2>5, <2>6
  \* An update that fails, dies or matches nothing is missed from then on.
  <1>6. ASSUME ~disorder, UNCHANGED <<window, latest, latestTs, archive>>,
               \A h \in Handlers : op'[h][k] = "update" => op[h][k] = "update" /\ msg'[h] = msg[h],
               missed'[k] = 0 => missed[k] = 0 /\ \A h \in Handlers : op'[h][k] = op[h][k] \/ op[h][k] # "update"
        PROVE  Bounds' /\ Follows'
    BY <1>2, <1>6
  <1>7. ASSUME NEW h \in Handlers, NEW j \in Metrics, OpFails(h, j) \/ (Update(h, j) /\ ~exists)
        PROVE  Bounds' /\ Follows'
    <2>1. /\ ~disorder /\ UNCHANGED <<window, latest, latestTs, archive, msg>>
          /\ \E x \in {"none", "done"} : op' = [op EXCEPT ![h][j] = x]
          /\ missed' = [missed EXCEPT ![j] = IF op[h][j] = "update" THEN @ + 1 ELSE @]
      BY <1>7 DEF OpFails, Update
    <2>2. \A g \in Handlers : op'[g][k] = "update" => op[g][k] = "update"
      BY <1>0, <2>1
    <2>3. ASSUME missed'[k] = 0
          PROVE  missed[k] = 0 /\ \A g \in Handlers : op'[g][k] = op[g][k] \/ op[g][k] # "update"
      <3>1. CASE j = k /\ op[h][j] = "update"
        <4>1. missed'[k] = missed[k] + 1 /\ missed[k] \in Nat
          BY <1>0, <2>1, <3>1
        <4>2. QED
          BY <2>3, <4>1
      <3>2. CASE j # k \/ op[h][j] # "update"
        <4>1. missed'[k] = missed[k]
          BY <1>0, <2>1, <3>2
        <4>2. \A g \in Handlers : op'[g][k] = op[g][k] \/ op[g][k] # "update"
          BY <1>0, <2>1, <3>2
        <4>3. QED
          BY <2>3, <4>1, <4>2
      <3>3. QED
        BY <3>1, <3>2
    <2>4. QED
      BY <1>6, <2>1, <2>2, <2>3
  <1>8. ASSUME NEW h \in Handlers, Show(h)
        PROVE  Bounds' /\ Follows'
    BY <1>6, <1>8 DEF Show
  <1>9. ASSUME NEW h \in Handlers, Finish(h)
        PROVE  Bounds' /\ Follows'
    <2>1. /\ ~disorder /\ UNCHANGED <<window, latest, latestTs, archive, missed>>
          /\ AllDone(h) /\ Release({h})
      BY <1>9 DEF Finish
    <2>2. \A g \in Handlers : /\ op'[g][k] = "update" => op[g][k] = "update" /\ msg'[g] = msg[g]
                              /\ op'[g][k] = op[g][k] \/ op[g][k] # "update"
      BY <2>1 DEF Release, AllDone, NoOps
    <2>3. QED
      BY <1>6, <2>1, <2>2
  <1>10. ASSUME NEW hs \in SUBSET Handlers, Crash(hs)
        PROVE  Bounds' /\ Follows'
    <2> DEFINE cut == {h \in hs : op[h][k] = "update"}
    <2>1. /\ ~disorder /\ UNCHANGED <<window, latest, latestTs, archive>> /\ Release(hs)
          /\ missed'[k] = missed[k] + Cardinality(cut)
      BY <1>10 DEF Crash
    <2>2. \A g \in Handlers : /\ op'[g][k] = "update" => op[g][k] = "update" /\ msg'[g] = msg[g]
                              /\ g \notin hs => op'[g] = op[g]
      BY <2>1 DEF Release, NoOps
    <2>3. IsFiniteSet(cut)
      BY FS_Subset, BoundsAssumption
    <2>4. Cardinality(cut) \in Nat /\ (Cardinality(cut) = 0 <=> cut = {})
      BY <2>3, FS_CardinalityType, FS_EmptySet
    <2> DEFINE n == Cardinality(cut)
    <2>5. missed'[k] = 0 => missed[k] = 0 /\ cut = {}
      <3>1. n \in Nat /\ missed[k] \in Nat /\ missed'[k] = missed[k] + n /\ (n = 0 <=> cut = {})
        BY <1>0, <2>1, <2>4
      <3> HIDE DEF n, cut
      <3>2. QED
        BY <3>1
    <2>6. QED
      BY <1>6, <2>1, <2>2, <2>5
  <1>11. ASSUME Upsert \/ SoftDelete \/ UNCHANGED ingestVars
         PROVE  Bounds' /\ Follows'
    BY <1>6, <1>11 DEF Upsert, SoftDelete, ingestVars
  <1> DEFINE Goal == Bounds' /\ Follows'
  <1> HIDE DEF Goal, Bounds, Follows
  <1>12. Goal
    BY <1>3, <1>4, <1>5, <1>7, <1>8, <1>9, <1>10, <1>11 DEF IngestNext, Goal
  <1>13. QED
    BY <1>12 DEF Goal, Bounds, Follows

LEMMA InitWindowInv == IngestInit => WindowInv
  <1> SUFFICES ASSUME IngestInit PROVE WindowInv
    OBVIOUS
  <1>1. OneAtATime /\ DocumentIsArchived
    BY DEF IngestInit, OneAtATime, DocumentIsArchived
  <1>2. LastOf(<<>>, Window) = <<>>
    BY BoundsAssumption DEF LastOf
  <1>3. WindowFollows
    BY <1>2 DEF IngestInit, WindowFollows, NoOps
  <1>4. QED
    BY <1>1, <1>3 DEF WindowInv

LEMMA WindowInvImplies == WindowInv => WindowIsRecent
  BY DEF WindowInv, DocumentIsArchived, WindowFollows, WindowIsRecent

(***************************************************************************)
(* The theorems about Ingestion.                                           *)
(***************************************************************************)

LEMMA InitIngestInv == IngestInit => IngestInv
  <1> SUFFICES ASSUME IngestInit PROVE IngestInv
    OBVIOUS
  <1>1. IngestTypeOK
    BY InitTypeOK
  <1>2. OpsFollowPhase /\ UpdatesAreArchived /\ ShownIsStored
    BY DEF IngestInit, OpsFollowPhase, UpdatesAreArchived, ShownIsStored, NoOps
  <1>3. NothingLost
    <2> SUFFICES ASSUME NEW k \in Metrics
                 PROVE  Len(archive[k]) = pushed[k] + missed[k] + Cardinality(OnItsWay(k))
      BY DEF NothingLost, OnItsWay
    <2>1. OnItsWay(k) = {}
      BY DEF IngestInit, NoOps, OnItsWay
    <2>2. Cardinality(OnItsWay(k)) = 0
      BY <2>1, FS_EmptySet
    <2>3. QED
      BY <2>2 DEF IngestInit
  <1>4. QED
    BY <1>1, <1>2, <1>3 DEF IngestInv

LEMMA NextIngestInv == IngestInv /\ [IngestNext]_ingestVars => IngestInv'
  BY NextTypeOK, NextOpsFollowPhase, NextUpdatesAreArchived, NextShownIsStored, NextNothingLost
  DEF IngestInv

LEMMA IngestInductive == IngestSpec => []IngestInv
  BY InitIngestInv, NextIngestInv, PTL DEF IngestSpec

\* The document's windows, the archive and the handlers keep their types: in
\* particular no window is longer than READING_WINDOW (dustbin.service.ts:75).
THEOREM IngestTypeCorrect == IngestSpec => []IngestTypeOK
  <1>1. IngestInv => IngestTypeOK
    BY DEF IngestInv
  <1>2. QED
    BY <1>1, IngestInductive, PTL

\* Every archived reading has been pushed into the bin's document, or its
\* update failed, died or matched nothing, or is on its way
\* (dustbin.service.ts:61-84).
THEOREM NothingIsLost == IngestSpec => []NothingLost
  <1>1. IngestInv => NothingLost
    BY DEF IngestInv
  <1>2. QED
    BY <1>1, IngestInductive, PTL

\* What a live update announces can be queried (mqtt.service.ts:126-134).
THEOREM ShownHolds == IngestSpec => []ShownIsStored
  <1>1. IngestInv => ShownIsStored
    BY DEF IngestInv
  <1>2. QED
    BY <1>1, IngestInductive, PTL

\* The latest values are those at the end of the windows; as long as messages
\* come in order and one at a time, the window is the end of the archive, and
\* latest.timestamp is not older than anything in it (dustbin.service.ts:61-84).
THEOREM WindowHolds == IngestSpec => []WindowIsRecent
  <1>1. IngestInit => IngestInv /\ WindowInv
    BY InitIngestInv, InitWindowInv
  <1>2. IngestInv /\ WindowInv /\ [IngestNext]_ingestVars => (IngestInv /\ WindowInv)'
    <2>1. IngestInv /\ WindowInv /\ [IngestNext]_ingestVars => OneAtATime' /\ DocumentIsArchived'
      BY NextOneAtATime, NextDocumentIsArchived DEF IngestInv, WindowInv
    <2>2. QED
      BY <2>1, NextIngestInv, NextWindowFollows DEF WindowInv
  <1>3. QED
    BY <1>1, <1>2, WindowInvImplies, PTL DEF IngestSpec

(***************************************************************************)
(* KeysetPaging.                                                           *)
(***************************************************************************)

\* Newer is a strict total order on the readings.
LEMMA NewerTotal ==
    ASSUME NEW x \in Readings, NEW y \in Readings
    PROVE  x = y \/ Newer(x, y) \/ Newer(y, x)
BY InputAssumption DEF Newer, Reading

LEMMA NewerAsymmetric ==
    ASSUME NEW x \in Readings, NEW y \in Readings, Newer(x, y)
    PROVE  x # y /\ ~Newer(y, x)
BY InputAssumption DEF Newer, Reading

LEMMA NewerTransitive ==
    ASSUME NEW x \in Readings, NEW y \in Readings, NEW z \in Readings,
           Newer(x, y), Newer(y, z)
    PROVE  Newer(x, z)
BY InputAssumption DEF Newer, Reading

\* A query that returns fewer documents than it asked for returns them all.
LEMMA ShortIsAll ==
    ASSUME NEW s, IsFiniteSet(s), NEW n \in Nat, NEW page,
           FirstOf(page, s, n), Cardinality(page) < n \/ Cardinality(s) <= n
    PROVE  page = s
<1>1. Cardinality(s) \in Nat
  BY FS_CardinalityType
<1>2. page \in SUBSET s
  BY DEF FirstOf
<1>3. Cardinality(page) = Cardinality(s)
  BY <1>1 DEF FirstOf
<1> QED
  BY <1>2, <1>3, FS_Subset

\* The readings a request may show.
Candidates == {x \in Below(cursor) : x.bin \in scope /\ Matches(x, filter)}

\* What an answer shows: readings below the cursor, and nothing above them
\* that may be shown is left out.
LEMMA AnswerFacts ==
    ASSUME IInv, NEW items \in SUBSET stored, NEW page \in SUBSET stored,
           Answer(items, page)
    PROVE  /\ page \subseteq items /\ items \subseteq Candidates
           /\ Candidates \subseteq Readings
           /\ \A x \in Candidates \ page, y \in page : Newer(y, x)
           /\ Cardinality(items) \in Nat
           /\ Cardinality(items) > Limit => Cardinality(page) = Limit
           /\ Cardinality(items) <= Limit => page = Candidates
<1>1. Candidates \subseteq Readings
  BY DEF Candidates, Below, IInv, TypeOK
<1>2. IsFiniteSet(Candidates)
  BY <1>1, FS_Subset, InputAssumption
<1>3. FirstOf(items, Candidates, Limit + 1) /\ FirstOf(page, items, Limit)
  BY DEF Answer, Candidates
<1>4. page \subseteq items /\ items \subseteq Candidates
  BY <1>3 DEF FirstOf
<1>5. IsFiniteSet(items)
  BY <1>2, <1>4, FS_Subset
<1>6. Cardinality(items) \in Nat
  BY <1>5, FS_CardinalityType
<1>7. \A x \in Candidates \ page, y \in page : Newer(y, x)
  BY <1>3, <1>4 DEF FirstOf
<1>8. Cardinality(items) > Limit => Cardinality(page) = Limit
  BY <1>3, <1>6, InputAssumption DEF FirstOf
<1>9. ASSUME Cardinality(items) <= Limit
      PROVE  page = Candidates
  <2>1. Limit \in Nat /\ Limit + 1 \in Nat /\ Cardinality(items) < Limit + 1
    BY <1>6, <1>9, InputAssumption
  <2>2. items = Candidates
    BY <1>2, <1>3, <2>1, ShortIsAll
  <2>3. page = items
    BY <1>3, <1>5, <1>9, <2>1, ShortIsAll
  <2> QED
    BY <2>2, <2>3
<1> QED
  BY <1>1, <1>4, <1>6, <1>7, <1>8, <1>9

\* The pages before an answer, and the one it adds.
LEMMA PagesGrow ==
    ASSUME IInv, NEW items \in SUBSET stored, NEW page \in SUBSET stored,
           Answer(items, page)
    PROVE  /\ pages' \in Seq(SUBSET ever)
           /\ Len(pages) \in Nat /\ Len(pages') = Len(pages) + 1
           /\ DOMAIN pages = 1 .. Len(pages) /\ DOMAIN pages' = 1 .. (Len(pages) + 1)
           /\ \A i \in 1 .. Len(pages) : pages'[i] = pages[i]
           /\ pages'[Len(pages) + 1] = page
           /\ \A i \in 1 .. Len(pages) : pages[i] \subseteq Readings
           /\ Len(pages) > 0 => more
<1>1. pages \in Seq(SUBSET ever) /\ page \in SUBSET ever /\ pages' = Append(pages, page)
  BY DEF IInv, TypeOK, Answer
<1>2. ever \subseteq Readings
  BY DEF IInv, TypeOK
<1>3. Len(pages) > 0 => more
  <2>1. phase = "find"
    BY DEF Answer
  <2>2. Len(pages) > 0 => pages # <<>>
    BY <1>1
  <2> QED
    BY <2>1, <2>2 DEF IInv, RequestHasCursor
<1> QED
  BY <1>1, <1>2, <1>3

\* The next page lies below all earlier ones.
LEMMA NextBelow ==
    ASSUME IInv, NEW items \in SUBSET stored, NEW page \in SUBSET stored,
           Answer(items, page)
    PROVE  \A i \in 1 .. Len(pages) : \A x \in pages[i], y \in page : Newer(x, y)
<1> SUFFICES ASSUME NEW i \in 1 .. Len(pages), NEW x \in pages[i], NEW y \in page
             PROVE  Newer(x, y)
  OBVIOUS
<1>1. more /\ pages[i] \subseteq Readings /\ i \in DOMAIN pages
  BY PagesGrow
<1>2. PICK c \in cursor : TRUE
  BY <1>1 DEF IInv, TypeOK
<1>3. c \in Readings /\ x \in Readings /\ y \in Readings
  BY <1>1, AnswerFacts DEF IInv, TypeOK
<1>4. Newer(c, y)
  BY AnswerFacts DEF Candidates, Below
<1>5. x = c \/ Newer(x, c)
  BY <1>1 DEF IInv, CursorIsLowest
<1> QED
  BY <1>3, <1>4, <1>5, NewerTransitive

\* A steady reading that the new page leaves out is below all it shows, or
\* has been shown before.
LEMMA SteadyAccounted ==
    ASSUME IInv, NEW items \in SUBSET stored, NEW page \in SUBSET stored,
           Answer(items, page), NEW x \in steady
    PROVE  x \in Candidates \/ Shown(x)
<1>1. x \in stored /\ x \in Readings
  BY DEF IInv, TypeOK
<1>2. x.bin \in scope /\ Matches(x, filter)
  BY DEF IInv, SteadyInScope, Answer
<1>3. CASE x \in Below(cursor)
  BY <1>2, <1>3 DEF Candidates
<1>4. CASE x \notin Below(cursor)
  <2>1. PICK c \in cursor : ~Newer(c, x)
    BY <1>1, <1>4 DEF Below
  <2>2. c \in Readings /\ more
    BY DEF IInv, TypeOK
  <2>3. x = c \/ Newer(x, c)
    BY <1>1, <2>1, <2>2, NewerTotal
  <2>4. Passed(x)
    BY <2>2, <2>3 DEF Passed
  <2> QED
    BY <2>4 DEF IInv, NothingSkipped
<1> QED
  BY <1>3, <1>4

LEMMA InitIInv == Init => IInv
<1> SUFFICES ASSUME Init PROVE IInv
  OBVIOUS
<1>1. AnyFilter \in Filters
  BY InputAssumption DEF AnyFilter
<1>2. TypeOK
  <2>1. pages \in Seq(SUBSET ever)
    BY DEF Init
  <2>2. more = (cursor # {})
    BY DEF Init
  <2> QED
    BY <1>1, <2>1, <2>2 DEF Init, TypeOK, Phases
<1> QED
  BY <1>2 DEF Init, IInv, CursorIsLowest, RequestHasCursor, SteadyInScope, PagesDescend,
     NothingSkipped, FullPages

\* A step that leaves the pages and the cursor alone, and adds nothing to
\* steady, keeps what is said about the pages.
LEMMA WalkKept ==
    ASSUME IInv, UNCHANGED <<cursor, more, pages>>, steady' \subseteq steady
    PROVE  CursorIsLowest' /\ PagesDescend' /\ NothingSkipped' /\ FullPages'
<1>1. CursorIsLowest' /\ PagesDescend' /\ FullPages'
  BY DEF IInv, CursorIsLowest, PagesDescend, FullPages
<1>2. ASSUME NEW x \in steady', Passed(x)'
      PROVE  Shown(x)'
  <2>1. x \in steady /\ Passed(x)
    BY <1>2 DEF Passed
  <2>2. Shown(x)
    BY <2>1 DEF IInv, NothingSkipped
  <2> QED
    BY <2>2 DEF Shown
<1> QED
  BY <1>1, <1>2 DEF NothingSkipped

\* An answer keeps what does not depend on the cursor it gives.
LEMMA AnswerKeeps ==
    ASSUME IInv, NEW items \in SUBSET stored, NEW page \in SUBSET stored,
           Answer(items, page)
    PROVE  PagesDescend' /\ RequestHasCursor' /\ SteadyInScope'
<1>1. PagesDescend'
  <2> SUFFICES ASSUME NEW j \in DOMAIN pages', NEW i \in 1 .. (j - 1),
                      NEW x \in pages'[i], NEW y \in pages'[j]
               PROVE  Newer(x, y)
    BY DEF PagesDescend
  <2>1. j \in 1 .. (Len(pages) + 1) /\ Len(pages) \in Nat
    BY PagesGrow
  <2>2. i \in 1 .. Len(pages) /\ pages'[i] = pages[i]
    <3>1. i \in 1 .. Len(pages)
      BY <2>1
    <3> QED
      BY <3>1, PagesGrow
  <2>3. CASE j = Len(pages) + 1
    <3>1. pages'[j] = page
      BY <2>3, PagesGrow
    <3> QED
      BY <2>2, <3>1, NextBelow
  <2>4. CASE j \in 1 .. Len(pages)
    <3>1. pages'[j] = pages[j] /\ j \in DOMAIN pages
      BY <2>4, PagesGrow
    <3> QED
      BY <2>2, <3>1 DEF IInv, PagesDescend
  <2> QED
    BY <2>1, <2>3, <2>4
<1>2. RequestHasCursor'
  BY DEF Answer, RequestHasCursor
<1>3. SteadyInScope'
  BY DEF Answer, IInv, SteadyInScope, ResolveScope, archiveVars, walkVars
<1> QED
  BY <1>1, <1>2, <1>3

\* What has been shown is shown still, and so is the new page.
LEMMA ShownGrows ==
    ASSUME IInv, NEW items \in SUBSET stored, NEW page \in SUBSET stored,
           Answer(items, page), NEW x, Shown(x) \/ x \in page
    PROVE  Shown(x)'
<1>1. CASE Shown(x)
  <2>1. PICK i \in DOMAIN pages : x \in pages[i]
    BY <1>1 DEF Shown
  <2>2. i \in 1 .. Len(pages) /\ Len(pages) \in Nat
    <3>1. DOMAIN pages = 1 .. Len(pages) /\ Len(pages) \in Nat
      BY PagesGrow
    <3> QED
      BY <2>1, <3>1
  <2>3. i \in 1 .. (Len(pages) + 1) /\ DOMAIN pages' = 1 .. (Len(pages) + 1)
    <3>1. i \in 1 .. (Len(pages) + 1)
      BY <2>2
    <3> QED
      BY <3>1, PagesGrow
  <2>4. pages'[i] = pages[i]
    BY <2>2, PagesGrow
  <2> QED
    BY <2>1, <2>3, <2>4 DEF Shown
<1>2. CASE x \in page
  <2>1. Len(pages) + 1 \in DOMAIN pages' /\ pages'[Len(pages) + 1] = page
    <3>1. Len(pages) \in Nat
      BY PagesGrow
    <3>2. Len(pages) + 1 \in 1 .. (Len(pages) + 1)
      BY <3>1
    <3> QED
      BY <3>2, PagesGrow
  <2> QED
    BY <1>2, <2>1 DEF Shown
<1> QED
  BY <1>1, <1>2

LEMMA FindMoreIInv == IInv /\ FindMore => IInv'
<1> SUFFICES ASSUME IInv, FindMore PROVE IInv'
  OBVIOUS
<1>1. PICK items \in SUBSET stored, page \in SUBSET stored :
          /\ Answer(items, page) /\ Cardinality(items) > Limit
          /\ more' = TRUE
          /\ \E c \in page : IsLast(c, page) /\ cursor' = {c}
  BY DEF FindMore
<1>2. PICK c \in page : IsLast(c, page) /\ cursor' = {c}
  BY <1>1
<1>3. /\ page \subseteq Candidates /\ Candidates \subseteq Readings
      /\ \A x \in Candidates \ page : Newer(c, x)
      /\ Cardinality(page) = Limit
  BY <1>1, AnswerFacts
<1>4. TypeOK'
  <2>1. pages' \in Seq(SUBSET ever)
    BY <1>1, PagesGrow
  <2>2. more' \in BOOLEAN /\ more' = (cursor' # {})
    BY <1>1, <1>2
  <2>3. cursor' \subseteq ever
    BY <1>2 DEF IInv, TypeOK
  <2> QED
    BY <1>1, <2>1, <2>2, <2>3 DEF IInv, TypeOK, Phases, Answer, archiveVars, walkVars
<1>5. CursorIsLowest'
  <2>1. ASSUME NEW i \in DOMAIN pages', NEW x \in pages'[i]
        PROVE  x = c \/ Newer(x, c)
    <3>1. i \in 1 .. (Len(pages) + 1) /\ Len(pages) \in Nat
      BY <1>1, PagesGrow
    <3>2. CASE i = Len(pages) + 1
      <4>1. x \in page
        BY <1>1, <2>1, <3>2, PagesGrow
      <4> QED
        BY <1>2, <4>1 DEF IsLast
    <3>3. CASE i \in 1 .. Len(pages)
      <4>1. x \in pages[i]
        BY <1>1, <2>1, <3>3, PagesGrow
      <4> QED
        BY <1>1, <3>3, <4>1, NextBelow
    <3> QED
      BY <3>1, <3>2, <3>3
  <2> QED
    BY <1>2, <2>1 DEF CursorIsLowest
<1>6. NothingSkipped'
  <2> SUFFICES ASSUME NEW x \in steady', Passed(x)'
               PROVE  Shown(x)'
    BY DEF NothingSkipped
  <2>1. x \in steady /\ (x = c \/ Newer(x, c))
    BY <1>1, <1>2 DEF Passed, Answer
  <2>2. x \in Candidates => x \in page
    <3>1. ASSUME x \in Candidates, x \notin page PROVE FALSE
      <4>1. Newer(c, x) /\ x \in Readings /\ c \in Readings
        BY <1>3, <3>1
      <4> QED
        BY <2>1, <4>1, NewerAsymmetric
    <3> QED
      BY <3>1
  <2> QED
    BY <1>1, <2>1, <2>2, SteadyAccounted, ShownGrows
<1>7. FullPages'
  <2> SUFFICES ASSUME NEW i \in DOMAIN pages'
               PROVE  Cardinality(pages'[i]) = Limit
    BY DEF FullPages
  <2>1. i = Len(pages) + 1 => pages'[i] = page
    BY <1>1, PagesGrow
  <2>2. i # Len(pages) + 1 => i \in DOMAIN pages /\ pages'[i] = pages[i] /\ more
    <3>1. i \in 1 .. (Len(pages) + 1) /\ Len(pages) \in Nat
      BY <1>1, PagesGrow
    <3>2. i # Len(pages) + 1 => i \in 1 .. Len(pages) /\ Len(pages) > 0
      BY <3>1
    <3> QED
      BY <1>1, <3>2, PagesGrow
  <2> QED
    BY <1>3, <2>1, <2>2 DEF IInv, FullPages
<1> QED
  BY <1>1, <1>4, <1>5, <1>6, <1>7, AnswerKeeps DEF IInv

LEMMA FindEndIInv == IInv /\ FindEnd => IInv'
<1> SUFFICES ASSUME IInv, FindEnd PROVE IInv'
  OBVIOUS
<1>1. PICK items \in SUBSET stored, page \in SUBSET stored :
          /\ Answer(items, page) /\ Cardinality(items) <= Limit
          /\ more' = FALSE /\ cursor' = {}
  BY DEF FindEnd
<1>2. page = Candidates
  BY <1>1, AnswerFacts
<1>3. TypeOK'
  <2>1. pages' \in Seq(SUBSET ever)
    BY <1>1, PagesGrow
  <2>2. more' \in BOOLEAN /\ more' = (cursor' # {}) /\ cursor' \subseteq ever
    BY <1>1
  <2> QED
    BY <1>1, <2>1, <2>2 DEF IInv, TypeOK, Phases, Answer, archiveVars, walkVars
<1>4. CursorIsLowest'
  BY <1>1 DEF CursorIsLowest
<1>5. NothingSkipped'
  <2>1. ASSUME NEW x \in steady' PROVE Shown(x)'
    <3>1. x \in steady
      BY <1>1 DEF Answer
    <3> QED
      BY <1>1, <1>2, <3>1, SteadyAccounted, ShownGrows
  <2> QED
    BY <2>1 DEF NothingSkipped
<1>6. FullPages'
  <2> SUFFICES ASSUME NEW i \in DOMAIN pages', i < Len(pages')
               PROVE  Cardinality(pages'[i]) = Limit
    BY <1>1 DEF FullPages
  <2>1. i \in DOMAIN pages /\ pages'[i] = pages[i] /\ more
    <3>1. Len(pages') = Len(pages) + 1 /\ Len(pages) \in Nat /\ i \in 1 .. Len(pages')
      BY <1>1, PagesGrow
    <3>2. i \in 1 .. Len(pages) /\ Len(pages) > 0
      BY <3>1
    <3> QED
      BY <1>1, <3>2, PagesGrow
  <2> QED
    BY <2>1 DEF IInv, FullPages
<1> QED
  BY <1>1, <1>3, <1>4, <1>5, <1>6, AnswerKeeps DEF IInv

LEMMA NextIInv == IInv /\ [Next]_vars => IInv'
<1> SUFFICES ASSUME IInv, [Next]_vars PROVE IInv'
  OBVIOUS
<1>1. ASSUME NEW isAdmin \in BOOLEAN, NEW single \in BOOLEAN, NEW f \in Filters,
             Open(isAdmin, single, f)
      PROVE  IInv'
  <2>1. pages' = <<>> /\ cursor' = {} /\ more' = FALSE
    BY <1>1 DEF Open
  <2>2. TypeOK'
    <3>1. pages' \in Seq(SUBSET ever)
      BY <2>1
    <3>2. more' = (cursor' # {})
      BY <2>1
    <3> QED
      BY <1>1, <2>1, <3>1, <3>2 DEF Open, IInv, TypeOK, Phases, archiveVars
  <2>3. RequestHasCursor' /\ CursorIsLowest' /\ PagesDescend' /\ NothingSkipped' /\ FullPages'
    BY <2>1 DEF RequestHasCursor, CursorIsLowest, PagesDescend, NothingSkipped, FullPages, Passed
  <2>4. SteadyInScope'
    BY <1>1 DEF Open, SteadyInScope, ResolveScope, archiveVars
  <2> QED
    BY <2>2, <2>3, <2>4 DEF IInv
<1>2. CASE Resolve
  <2>1. TypeOK'
    <3>1. scope' \subseteq Bins
      BY <1>2, InputAssumption DEF Resolve, ResolveScope, IInv, TypeOK, Filter
    <3> QED
      BY <1>2, <3>1 DEF Resolve, IInv, TypeOK, Phases, archiveVars, walkVars
  <2>2. SteadyInScope'
    BY <1>2 DEF Resolve, IInv, SteadyInScope, ResolveScope, archiveVars, walkVars
  <2>3. RequestHasCursor'
    BY <1>2 DEF Resolve, IInv, RequestHasCursor
  <2>4. UNCHANGED <<cursor, more, pages>> /\ steady' \subseteq steady
    BY <1>2 DEF Resolve
  <2> QED
    BY <2>1, <2>2, <2>3, <2>4, WalkKept DEF IInv
<1>3. CASE Forbidden \/ Fail \/ NextPage
  <2>1. TypeOK'
    BY <1>3 DEF Forbidden, Fail, NextPage, IInv, TypeOK, Phases, archiveVars, walkVars
  <2>2. SteadyInScope'
    BY <1>3 DEF Forbidden, Fail, NextPage, IInv, SteadyInScope, ResolveScope, archiveVars, walkVars
  <2>3. RequestHasCursor'
    BY <1>3 DEF Forbidden, Fail, NextPage, RequestHasCursor
  <2>4. UNCHANGED <<cursor, more, pages>> /\ steady' \subseteq steady
    BY <1>3 DEF Forbidden, Fail, NextPage
  <2> QED
    BY <2>1, <2>2, <2>3, <2>4, WalkKept DEF IInv
<1>4. CASE FindMore
  BY <1>4, FindMoreIInv
<1>5. CASE FindEnd
  BY <1>5, FindEndIInv
<1>6. ASSUME NEW x \in Readings, Insert(x) \/ Expire(x)
      PROVE  IInv'
  <2>1. TypeOK'
    <3>1. pages' \in Seq(SUBSET ever')
      <4>1. ever \subseteq ever' /\ pages' = pages /\ pages \in Seq(SUBSET ever)
        BY <1>6 DEF Insert, Expire, IInv, TypeOK
      <4> QED
        BY <4>1
    <3>2. more' \in BOOLEAN /\ more' = (cursor' # {})
      BY <1>6 DEF Insert, Expire, IInv, TypeOK
    <3>3. CASE Insert(x)
      BY <3>1, <3>2, <3>3 DEF Insert, IInv, TypeOK, walkVars
    <3>4. CASE Expire(x)
      BY <3>1, <3>2, <3>4 DEF Expire, IInv, TypeOK, walkVars
    <3> QED
      BY <1>6, <3>3, <3>4
  <2>2. SteadyInScope'
    BY <1>6 DEF Insert, Expire, IInv, SteadyInScope, ResolveScope, walkVars
  <2>3. RequestHasCursor'
    BY <1>6 DEF Insert, Expire, IInv, RequestHasCursor
  <2>4. UNCHANGED <<cursor, more, pages>> /\ steady' \subseteq steady
    BY <1>6 DEF Insert, Expire
  <2> QED
    BY <2>1, <2>2, <2>3, <2>4, WalkKept DEF IInv
<1>7. ASSUME NEW bins \in SUBSET Bins, Reassign(bins)
      PROVE  IInv'
  <2>1. TypeOK'
    BY <1>7 DEF Reassign, IInv, TypeOK, Phases, walkVars
  <2>2. SteadyInScope'
    BY <1>7 DEF Reassign, IInv, SteadyInScope, ResolveScope, walkVars
  <2>3. RequestHasCursor'
    BY <1>7 DEF Reassign, IInv, RequestHasCursor
  <2>4. UNCHANGED <<cursor, more, pages>> /\ steady' \subseteq steady
    BY <1>7 DEF Reassign
  <2> QED
    BY <2>1, <2>2, <2>3, <2>4, WalkKept DEF IInv
<1>8. CASE UNCHANGED vars
  <2>1. TypeOK' /\ SteadyInScope' /\ RequestHasCursor'
    BY <1>8 DEF vars, archiveVars, walkVars, IInv, TypeOK, SteadyInScope, ResolveScope,
       RequestHasCursor
  <2>2. UNCHANGED <<cursor, more, pages>> /\ steady' \subseteq steady
    BY <1>8 DEF vars
  <2> QED
    BY <2>1, <2>2, WalkKept DEF IInv
<1> QED
  BY <1>1, <1>2, <1>3, <1>4, <1>5, <1>6, <1>7, <1>8 DEF Next

LEMMA Inductive == Spec => []IInv
<1>1. Init => IInv
  BY InitIInv
<1>2. IInv /\ [Next]_vars => IInv'
  BY NextIInv
<1> QED
  BY <1>1, <1>2, PTL DEF Spec

\* Every variable keeps its type; in particular an answer has a cursor exactly
\* when the walk can go on.
THEOREM TypeCorrect == Spec => []TypeOK
<1>1. IInv => TypeOK
  BY DEF IInv
<1> QED
  BY <1>1, Inductive, PTL

\* A walk never shows a reading twice and never turns back, whatever the
\* archive and the user's assignment do between its requests.
THEOREM DescendHolds == Spec => []PagesDescend
<1>1. IInv => PagesDescend
  BY DEF IInv
<1> QED
  BY <1>1, Inductive, PTL

\* A reading in reach from the beginning of a walk is not passed over.
THEOREM SkipsNothing == Spec => []NothingSkipped
<1>1. IInv => NothingSkipped
  BY DEF IInv
<1> QED
  BY <1>1, Inductive, PTL

\* A page that is followed by another is full.
THEOREM FullHolds == Spec => []FullPages
<1>1. IInv => FullPages
  BY DEF IInv
<1> QED
  BY <1>1, Inductive, PTL
----
(***************************************************************************)
(* The refinement: an answer is an Advance of OrderedWalk, a new walk its  *)
(* Begin, and what the archive loses a Release.                            *)
(***************************************************************************)

\* A step that leaves the pages and the cursor alone and adds nothing to steady.
LEMMA StepReleases ==
    ASSUME UNCHANGED <<cursor, pages>>, steady' \subseteq steady
    PROVE  Walk!Next
<1>1. ShownSet' = ShownSet /\ LeftSet' = LeftSet
  BY DEF ShownSet, LeftSet
<1>2. Walk!Release
  BY <1>1 DEF Walk!Release
<1> QED
  BY <1>2 DEF Walk!Next

\* What an answer adds to what was shown, and what it finds left.
LEMMA AnswerAdvances ==
    ASSUME IInv, NEW items \in SUBSET stored, NEW page \in SUBSET stored,
           Answer(items, page)
    PROVE  /\ ShownSet' = ShownSet \cup page
           /\ page \subseteq LeftSet
           /\ \A x \in steady \ ShownSet : x \in Candidates
           /\ LeftSet' = {x \in Readings : \E c \in cursor' : Newer(c, x)}
           /\ \A c \in Candidates, x \in Readings : Newer(c, x) => x \in LeftSet
<1>1. /\ DOMAIN pages = 1 .. Len(pages) /\ DOMAIN pages' = 1 .. (Len(pages) + 1)
      /\ Len(pages) \in Nat
      /\ \A i \in 1 .. Len(pages) : pages'[i] = pages[i]
      /\ pages'[Len(pages) + 1] = page
  BY PagesGrow
<1>2. ShownSet' = ShownSet \cup page
  <2>1. 1 .. (Len(pages) + 1) = (1 .. Len(pages)) \cup {Len(pages) + 1}
    BY <1>1
  <2> QED
    BY <1>1, <2>1 DEF ShownSet
<1>3. page \subseteq Candidates /\ Candidates \subseteq Readings
  BY AnswerFacts
<1>4. pages = <<>> \/ \E c \in cursor : TRUE
  BY DEF IInv, TypeOK, RequestHasCursor, Answer
<1>5. \A x \in Candidates : x \in LeftSet
  BY <1>3, <1>4 DEF LeftSet, Candidates, Below
<1>6. ASSUME NEW x \in steady \ ShownSet
      PROVE  x \in Candidates
  <2>1. ~Shown(x)
    BY <1>6 DEF Shown, ShownSet
  <2> QED
    BY <1>6, <2>1, SteadyAccounted
<1>7. pages' # <<>>
  BY <1>1
<1>8. LeftSet' = {x \in Readings : \E c \in cursor' : Newer(c, x)}
  BY <1>7 DEF LeftSet
<1>9. ASSUME NEW c \in Candidates, NEW x \in Readings, Newer(c, x)
      PROVE  x \in LeftSet
  <2>1. CASE pages = <<>>
    BY <2>1 DEF LeftSet
  <2>2. CASE pages # <<>>
    <3>1. PICK d \in cursor : TRUE
      BY <1>4, <2>2
    <3>2. Newer(d, c) /\ d \in Readings /\ c \in Readings
      BY <1>3, <3>1 DEF Candidates, Below, IInv, TypeOK
    <3>3. Newer(d, x)
      BY <1>9, <3>2, NewerTransitive
    <3> QED
      BY <2>2, <3>1, <3>3 DEF LeftSet
  <2> QED
    BY <2>1, <2>2
<1> QED
  BY <1>2, <1>3, <1>5, <1>6, <1>8, <1>9

\* An answer with a cursor goes on below it.
LEMMA FindMoreAdvances == IInv /\ FindMore => Walk!Advance
<1> SUFFICES ASSUME IInv, FindMore PROVE Walk!Advance
  OBVIOUS
<1>1. PICK items \in SUBSET stored, page \in SUBSET stored :
          /\ Answer(items, page) /\ Cardinality(items) > Limit
          /\ \E c \in page : IsLast(c, page) /\ cursor' = {c}
  BY DEF FindMore
<1>2. PICK c \in page : IsLast(c, page) /\ cursor' = {c}
  BY <1>1
<1>3. /\ ShownSet' = ShownSet \cup page /\ page \subseteq LeftSet
      /\ \A x \in steady \ ShownSet : x \in Candidates
      /\ LeftSet' = {x \in Readings : Newer(c, x)}
      /\ \A x \in Readings : Newer(c, x) => x \in LeftSet
  <2>1. c \in Candidates
    BY <1>1, AnswerFacts
  <2> QED
    BY <1>1, <1>2, <2>1, AnswerAdvances
<1>4. page \subseteq Readings /\ Candidates \subseteq Readings
  BY <1>1, AnswerFacts
<1>5. \A x \in page : x = c \/ Newer(x, c)
  BY <1>2 DEF IsLast
<1>6. ASSUME NEW x \in page, NEW y \in LeftSet'
      PROVE  x # y /\ <<x, y>> \in NewerPairs
  <2>1. x \in Readings /\ y \in Readings /\ c \in Readings /\ Newer(c, y)
    BY <1>3, <1>4
  <2>2. Newer(x, y)
    BY <1>5, <2>1, NewerTransitive
  <2> QED
    BY <2>1, <2>2, NewerAsymmetric DEF NewerPairs
<1>7. LeftSet' \in SUBSET (LeftSet \ page)
  BY <1>3, <1>6
<1>8. steady \ ShownSet \subseteq page \cup LeftSet'
  <2> SUFFICES ASSUME NEW x \in steady \ ShownSet, x \notin page
               PROVE  x \in LeftSet'
    OBVIOUS
  <2>1. x \in Candidates \ page
    BY <1>3
  <2>2. Newer(c, x) /\ x \in Readings
    BY <1>1, <1>4, <2>1, AnswerFacts
  <2> QED
    BY <1>3, <2>2
<1>9. (steady \ ShownSet)' = (steady \ ShownSet) \ page
  <2>1. steady' = steady
    BY <1>1 DEF Answer
  <2> QED
    BY <1>3, <2>1
<1> QED
  BY <1>3, <1>6, <1>7, <1>8, <1>9 DEF Walk!Advance

\* An answer without a cursor leaves nothing.
LEMMA FindEndAdvances == IInv /\ FindEnd => Walk!Advance
<1> SUFFICES ASSUME IInv, FindEnd PROVE Walk!Advance
  OBVIOUS
<1>1. PICK items \in SUBSET stored, page \in SUBSET stored :
          /\ Answer(items, page) /\ Cardinality(items) <= Limit /\ cursor' = {}
  BY DEF FindEnd
<1>2. page = Candidates
  BY <1>1, AnswerFacts
<1>3. /\ ShownSet' = ShownSet \cup page /\ page \subseteq LeftSet
      /\ \A x \in steady \ ShownSet : x \in Candidates
      /\ LeftSet' = {}
  BY <1>1, AnswerAdvances
<1>4. (steady \ ShownSet)' = (steady \ ShownSet) \ page
  <2>1. steady' = steady
    BY <1>1 DEF Answer
  <2> QED
    BY <1>3, <2>1
<1> QED
  BY <1>2, <1>3, <1>4 DEF Walk!Advance

LEMMA InitWalks == Init => Walk!Init
BY DEF Init, Walk!Init, ShownSet, LeftSet

LEMMA NextWalks == IInv /\ IInv' /\ [Next]_vars => [Walk!Next]_(Walk!walkVars)
<1> SUFFICES ASSUME IInv, IInv', [Next]_vars PROVE Walk!Next
  BY DEF Walk!walkVars
<1>1. ASSUME NEW isAdmin \in BOOLEAN, NEW single \in BOOLEAN, NEW f \in Filters,
             Open(isAdmin, single, f)
      PROVE  Walk!Next
  <2>1. pages' = <<>>
    BY <1>1 DEF Open
  <2>2. ShownSet' = {} /\ LeftSet' = Readings
    BY <2>1 DEF ShownSet, LeftSet
  <2>3. steady' \subseteq Readings
    BY DEF IInv, TypeOK
  <2>4. Walk!Begin
    BY <2>2, <2>3 DEF Walk!Begin
  <2> QED
    BY <2>4 DEF Walk!Next
<1>2. CASE FindMore \/ FindEnd
  BY <1>2, FindMoreAdvances, FindEndAdvances DEF Walk!Next
<1>3. CASE Resolve \/ Forbidden \/ Fail \/ NextPage
  BY <1>3, StepReleases DEF Resolve, Forbidden, Fail, NextPage
<1>4. ASSUME NEW x \in Readings, Insert(x) \/ Expire(x)
      PROVE  Walk!Next
  BY <1>4, StepReleases DEF Insert, Expire
<1>5. ASSUME NEW bins \in SUBSET Bins, Reassign(bins)
      PROVE  Walk!Next
  BY <1>5, StepReleases DEF Reassign
<1>6. CASE UNCHANGED vars
  BY <1>6, StepReleases DEF vars
<1> QED
  BY <1>1, <1>2, <1>3, <1>4, <1>5, <1>6 DEF Next

\* GET /sensor-readings implements a walk down the order of the readings, for
\* every archive, query and page size.
THEOREM Refines == Spec => WalksInOrder
<1>1. Init => Walk!Init
  BY InitWalks
<1>2. IInv /\ IInv' /\ [Next]_vars => [Walk!Next]_(Walk!walkVars)
  BY NextWalks
<1> QED
  BY <1>1, <1>2, Inductive, PTL DEF Spec, WalksInOrder, Walk!Spec
=============================================================================
