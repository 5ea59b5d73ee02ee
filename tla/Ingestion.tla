------------------------------ MODULE Ingestion ------------------------------
(***************************************************************************)
(* Sensor readings of one bin on their way into the database: the MQTT     *)
(* message handler and POST /ingest (services/mqtt.service.ts,             *)
(* routes/ingest.routes.ts), which share DustbinService.ingestBulkReadings *)
(* and appendReading (services/dustbin.service.ts).                        *)
(*                                                                         *)
(* A message carries one value for each of some metrics.  Its handler runs *)
(* an archive insert and then an update of the bin's document for every    *)
(* metric, all metrics at once, and goes on when all have answered.  The   *)
(* handlers of different messages are not kept apart.  A device may send a *)
(* message again; one that is lost is one that is never received.          *)
(***************************************************************************)
EXTENDS Integers, Sequences, FiniteSets

CONSTANTS
    Metrics,      \* the metrics devices report
    Messages,     \* messages devices send: [ts, metrics], at most one per ts
    Handlers,     \* message handlers that can be in flight, over all replicas
    Window,       \* READING_WINDOW
    MaxReceived,  \* bound: messages received, copies included
    MaxFaults     \* bound: failed database calls

ASSUME BoundsAssumption ==
    /\ Window \in Nat \ {0} /\ MaxReceived \in Nat /\ MaxFaults \in Nat
    /\ IsFiniteSet(Handlers)
    /\ Messages \subseteq [ts : Nat \ {0}, metrics : (SUBSET Metrics) \ {{}}]
    /\ \A m1, m2 \in Messages : m1.ts = m2.ts => m1 = m2

VARIABLES
    exists,      \* the bin's document exists
    active,      \* its isActive
    window,      \* window[k]: the document's recent readings of metric k, by ts
    latest,      \* latest[k]: the message whose value latest.<k> is, by ts
    latestTs,    \* latest.timestamp
    archive,     \* archive[k]: the time-series documents of metric k, in insertion order
    phaseOf,       \* phaseOf[h]: the await handler h is stopped at
    msg,         \* msg[h]: the message it handles
    op,          \* op[h][k]: how far its appendReading for metric k is
    shown,       \* history: messages whose live update was broadcast
    pushed,      \* history: pushed[k]: updates of the document for metric k
    missed,      \* history: missed[k]: archived readings the document will not get
    disorder,    \* history: a message was received out of order or too early
    received, faults  \* counters of the bounds

binVars == <<exists, active, window, latest, latestTs>>
handlerVars == <<phaseOf, msg, op>>
historyVars == <<shown, pushed, missed, disorder>>
ingestVars == <<binVars, archive, handlerVars, historyVars, received, faults>>

HandlerPhases == {"idle", "ingest", "evaluate", "rejected"}
Stages == {"none", "archive", "update", "done"}
NoMessage == [ts |-> 0, metrics |-> {}]
NoOps == [k \in Metrics |-> "none"]

IngestInit ==
    /\ exists \in BOOLEAN /\ active = exists
    /\ window = [k \in Metrics |-> <<>>]
    /\ latest = [k \in Metrics |-> 0] /\ latestTs = 0
    /\ archive = [k \in Metrics |-> <<>>]
    /\ phaseOf = [h \in Handlers |-> "idle"] /\ msg = [h \in Handlers |-> NoMessage]
    /\ op = [h \in Handlers |-> NoOps]
    /\ shown = {} /\ disorder = FALSE
    /\ pushed = [k \in Metrics |-> 0] /\ missed = [k \in Metrics |-> 0]
    /\ received = 0 /\ faults = 0

----
\* A message arrives: each of its metrics sends its archive insert.
Receive(h, m) ==
    /\ phaseOf[h] = "idle" /\ received < MaxReceived
    /\ received' = received + 1
    /\ phaseOf' = [phaseOf EXCEPT ![h] = "ingest"]
    /\ msg' = [msg EXCEPT ![h] = m]
    /\ op' = [op EXCEPT ![h] = [k \in Metrics |->
                 IF k \in m.metrics THEN "archive" ELSE "none"]]
    /\ disorder' = \/ disorder
                   \/ \E g \in Handlers : phaseOf[g] # "idle"
                   \/ \E k \in Metrics : \E i \in DOMAIN archive[k] : archive[k][i] >= m.ts
    /\ UNCHANGED <<binVars, archive, shown, pushed, missed, faults>>

\* SensorReadingModel.create answers; the update of the document is sent.
Archive(h, k) ==
    /\ op[h][k] = "archive"
    /\ archive' = [archive EXCEPT ![k] = Append(@, msg[h].ts)]
    /\ op' = [op EXCEPT ![h][k] = "update"]
    /\ UNCHANGED <<binVars, phaseOf, msg, historyVars, received, faults>>

\* Variant for WindowIsRecent: $slice: READING_WINDOW, which keeps the head.
PushKeepingHead(s, t) == IF Len(s) < Window THEN Append(s, t) ELSE s

\* $push with $slice: -READING_WINDOW.
Push(s, t) ==
    LET all == Append(s, t)
    IN  IF Len(all) <= Window THEN all ELSE SubSeq(all, Len(all) - Window + 1, Len(all))

\* The updateOne is applied, whether the bin is active or not; without the
\* document it matches nothing.
Update(h, k) ==
    /\ op[h][k] = "update"
    /\ op' = [op EXCEPT ![h][k] = "done"]
    /\ IF exists
       THEN /\ window' = [window EXCEPT ![k] = Push(@, msg[h].ts)]
            /\ latest' = [latest EXCEPT ![k] = msg[h].ts]
            /\ latestTs' = msg[h].ts
            /\ pushed' = [pushed EXCEPT ![k] = @ + 1]
            /\ UNCHANGED missed
       ELSE /\ missed' = [missed EXCEPT ![k] = @ + 1]
            /\ UNCHANGED <<window, latest, latestTs, pushed>>
    /\ UNCHANGED <<exists, active, archive, phaseOf, msg, shown, disorder, received, faults>>

AllDone(h) == \A k \in Metrics : op[h][k] \in {"none", "done"}

\* The handlers in hs hold nothing any more.
Release(hs) ==
    /\ phaseOf' = [h \in Handlers |-> IF h \in hs THEN "idle" ELSE phaseOf[h]]
    /\ msg' = [h \in Handlers |-> IF h \in hs THEN NoMessage ELSE msg[h]]
    /\ op' = [h \in Handlers |-> IF h \in hs THEN NoOps ELSE op[h]]

\* Variant for ShownIsStored: the ingestion is not awaited.
ShowEarly(h) ==
    /\ phaseOf[h] = "ingest"
    /\ phaseOf' = [phaseOf EXCEPT ![h] = "evaluate"]
    /\ shown' = shown \cup {msg[h]}
    /\ UNCHANGED <<binVars, archive, msg, op, pushed, missed, disorder, received, faults>>

\* All metrics are through: the live update is broadcast, and the rules are
\* evaluated.
Show(h) ==
    /\ phaseOf[h] = "ingest" /\ AllDone(h)
    /\ phaseOf' = [phaseOf EXCEPT ![h] = "evaluate"]
    /\ shown' = shown \cup {msg[h]}
    /\ UNCHANGED <<binVars, archive, msg, op, pushed, missed, disorder, received, faults>>

\* The evaluations have answered, or one of them has failed and is logged;
\* or the last metric of a rejected message has.
Finish(h) ==
    /\ phaseOf[h] \in {"evaluate", "rejected"} /\ AllDone(h)
    /\ Release({h})
    /\ UNCHANGED <<binVars, archive, historyVars, received, faults>>

----
\* Variant for NothingLost: a failed insert does not keep the document from
\* being updated.
OpFailsGoesOn(h, k) ==
    /\ op[h][k] \in {"archive", "update"} /\ faults < MaxFaults
    /\ faults' = faults + 1
    /\ op' = [op EXCEPT ![h][k] = IF @ = "archive" THEN "update" ELSE "none"]
    /\ missed' = [missed EXCEPT ![k] = IF op[h][k] = "update" THEN @ + 1 ELSE @]
    /\ UNCHANGED phaseOf
    /\ UNCHANGED <<binVars, archive, msg, shown, pushed, disorder, received>>

\* A database call rejects, and with it the whole message: it is neither
\* broadcast nor evaluated, although its other metrics go on.
OpFails(h, k) ==
    /\ op[h][k] \in {"archive", "update"} /\ faults < MaxFaults
    /\ faults' = faults + 1
    /\ op' = [op EXCEPT ![h][k] = "none"]
    /\ missed' = [missed EXCEPT ![k] = IF op[h][k] = "update" THEN @ + 1 ELSE @]
    /\ phaseOf' = [phaseOf EXCEPT ![h] = "rejected"]
    /\ UNCHANGED <<binVars, archive, msg, shown, pushed, disorder, received>>

\* A replica dies with the handlers hs.
Crash(hs) ==
    /\ faults < MaxFaults /\ faults' = faults + 1
    /\ \A h \in hs : phaseOf[h] # "idle"
    /\ Release(hs)
    /\ missed' = [k \in Metrics |->
           missed[k] + Cardinality({h \in hs : op[h][k] = "update"})]
    /\ UNCHANGED <<binVars, archive, shown, pushed, disorder, received>>

\* POST /dustbins, for a new, a deleted or an active bin.
Upsert ==
    /\ exists' = TRUE /\ active' = TRUE
    /\ UNCHANGED <<window, latest, latestTs, archive, handlerVars, historyVars,
                   received, faults>>

\* DELETE /dustbins/:id
SoftDelete ==
    /\ exists /\ active' = FALSE
    /\ UNCHANGED <<exists, window, latest, latestTs, archive, handlerVars,
                   historyVars, received, faults>>

IngestNext ==
    \/ \E h \in Handlers, m \in Messages : Receive(h, m)
    \/ \E h \in Handlers, k \in Metrics : Archive(h, k) \/ Update(h, k) \/ OpFails(h, k)
    \/ \E h \in Handlers : Show(h) \/ Finish(h)
    \/ \E hs \in (SUBSET Handlers) \ {{}} : Crash(hs)
    \/ Upsert \/ SoftDelete

IngestSpec == IngestInit /\ [][IngestNext]_ingestVars

----
Stamps == {m.ts : m \in Messages}

IngestTypeOK ==
    /\ exists \in BOOLEAN /\ active \in BOOLEAN
    /\ window \in [Metrics -> Seq(Stamps)] /\ archive \in [Metrics -> Seq(Stamps)]
    /\ \A k \in Metrics : Len(window[k]) <= Window
    /\ latest \in [Metrics -> Stamps \cup {0}] /\ latestTs \in Stamps \cup {0}
    /\ phaseOf \in [Handlers -> HandlerPhases]
    /\ msg \in [Handlers -> Messages \cup {NoMessage}]
    /\ op \in [Handlers -> [Metrics -> Stages]]
    /\ shown \subseteq Messages /\ disorder \in BOOLEAN
    /\ pushed \in [Metrics -> Nat] /\ missed \in [Metrics -> Nat]
    /\ received \in 0 .. MaxReceived /\ faults \in 0 .. MaxFaults

\* Every reading in the archive is in the bin's document too, or on its way,
\* or one whose update failed, died or found no document; and the document
\* has nothing that is not in the archive (lines 61-84).
NothingLost ==
    \A k \in Metrics :
        Len(archive[k]) =
            pushed[k] + missed[k] + Cardinality({h \in Handlers : op[h][k] = "update"})

\* The live update of a message is not sent before everything it announces
\* can be queried, nor when a part of it was not stored (mqtt lines 126-134).
ShownIsStored ==
    \A m \in shown : \A k \in m.metrics : \E i \in DOMAIN archive[k] : archive[k][i] = m.ts

LastOf(s, n) == IF Len(s) <= n THEN s ELSE SubSeq(s, Len(s) - n + 1, Len(s))

\* What the dashboard shows as latest is the end of the window, always; and as
\* long as messages come in order and one at a time, the window is the end of
\* the archive and nothing in the document is newer than latest.timestamp.
WindowIsRecent ==
    \A k \in Metrics :
        /\ window[k] # <<>> => latest[k] = window[k][Len(window[k])]
        /\ ~disorder =>
            /\ \A i \in DOMAIN window[k] : window[k][i] <= latest[k]
            /\ latest[k] <= latestTs
            /\ missed[k] = 0 /\ (\A h \in Handlers : op[h][k] # "update") =>
                  window[k] = LastOf(archive[k], Window)

\* README.md:264: "ingestion path is idempotent - devices may batch and
\* re-publish on reconnect": a message sent again leaves no second reading.
Idempotent ==
    \A k \in Metrics : \A i, j \in DOMAIN archive[k] :
        archive[k][i] = archive[k][j] => i = j

----
(***************************************************************************)
(* The inductive invariant behind NothingLost and ShownIsStored.           *)
(***************************************************************************)

\* A handler that is between messages has no call out, and one that still
\* waits for all of its metrics has started each of them.
OpsFollowPhase ==
    /\ \A h \in Handlers : phaseOf[h] = "idle" => op[h] = NoOps
    /\ \A h \in Handlers : phaseOf[h] # "idle" => msg[h] \in Messages
    /\ \A h \in Handlers : phaseOf[h] = "ingest" =>
           \A k \in msg[h].metrics : op[h][k] # "none"

IsArchived(k, t) == \E i \in DOMAIN archive[k] : archive[k][i] = t

\* Only what is archived is sent to the document.
UpdatesAreArchived ==
    \A h \in Handlers, k \in Metrics :
        op[h][k] \in {"update", "done"} => IsArchived(k, msg[h].ts)

IngestInv == IngestTypeOK /\ OpsFollowPhase /\ UpdatesAreArchived /\ NothingLost /\ ShownIsStored

----
(***************************************************************************)
(* The inductive invariant behind WindowIsRecent.                          *)
(***************************************************************************)

\* As long as messages come in order and one at a time, one handler at most is
\* at work, and nothing in the archive is newer than its message.
OneAtATime ==
    ~disorder => \A h \in Handlers : phaseOf[h] # "idle" =>
        /\ \A g \in Handlers : phaseOf[g] # "idle" => g = h
        /\ \A k \in Metrics : \A i \in DOMAIN archive[k] : archive[k][i] <= msg[h].ts

\* The document holds what is archived.
DocumentIsArchived ==
    /\ \A k \in Metrics :
          /\ latest[k] = 0 \/ IsArchived(k, latest[k])
          /\ \A i \in DOMAIN window[k] : IsArchived(k, window[k][i])
          /\ window[k] # <<>> => latest[k] = window[k][Len(window[k])]
    /\ latestTs = 0 \/ \E k \in Metrics : IsArchived(k, latestTs)

\* The window is the end of the archive, but for the one reading whose update
\* is under way.
WindowFollows ==
    ~disorder => \A k \in Metrics :
        /\ \A i \in DOMAIN window[k] : window[k][i] <= latest[k]
        /\ latest[k] <= latestTs
        /\ missed[k] = 0 =>
              /\ (\A h \in Handlers : op[h][k] # "update") =>
                    window[k] = LastOf(archive[k], Window)
              /\ \A h \in Handlers : op[h][k] = "update" =>
                    /\ archive[k] # <<>> /\ archive[k][Len(archive[k])] = msg[h].ts
                    /\ window[k] = LastOf(SubSeq(archive[k], 1, Len(archive[k]) - 1), Window)

WindowInv == OneAtATime /\ DocumentIsArchived /\ WindowFollows
=============================================================================
