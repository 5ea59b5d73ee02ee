------------------------------ MODULE BinView ------------------------------
(***************************************************************************)
(* One bin on the dashboard or on its own page: what refresh() and load() *)
(* fetch once, and the live readings that are spliced into it. Readings of *)
(* the bin are numbered in the order in which its document takes them.     *)
(***************************************************************************)
EXTENDS Naturals

CONSTANTS MaxTaken, MaxMissed

VARIABLES
    taken,       \* readings in the document
    onTheWay,    \* readings whose event has not reached the view
    fetch,       \* the request: "sent", "served" or "done", and what it found
    loaded,      \* the view has the bin
    latest,      \* the reading it shows, 0 for none
    missed,
    \* History:
    during,      \* the newest reading announced while the request was out
    overtaken    \* readings that were announced, and then replaced by an older one

viewVars == <<taken, onTheWay, fetch, loaded, latest, missed, during, overtaken>>

\* The effect of the first render sends the request.
ViewInit ==
    /\ taken = 0 /\ onTheWay = {}
    /\ fetch = [pc |-> "sent", found |-> 0]
    /\ loaded = FALSE /\ latest = 0 /\ missed = 0
    /\ during = 0 /\ overtaken = {}

\* A message handler stores the reading, and broadcasts it afterwards. Handlers
\* wait for nobody, so that the events of two readings may change places.
Take ==
    /\ taken < MaxTaken /\ taken' = taken + 1
    /\ onTheWay' = onTheWay \cup {taken'}
    /\ UNCHANGED <<fetch, loaded, latest, missed, during, overtaken>>

Serve ==
    /\ fetch.pc = "sent" /\ fetch' = [pc |-> "served", found |-> taken]
    /\ UNCHANGED <<taken, onTheWay, loaded, latest, missed, during, overtaken>>

\* The answer replaces what the view has.
Arrive ==
    /\ fetch.pc = "served" /\ fetch' = [fetch EXCEPT !.pc = "done"]
    /\ loaded' = TRUE /\ latest' = fetch.found
    /\ overtaken' = IF during > fetch.found THEN overtaken \cup {during} ELSE overtaken
    /\ UNCHANGED <<taken, onTheWay, missed, during>>

\* Rejected: an error, or "not found". The view asks no second time.
FetchFails ==
    /\ missed < MaxMissed /\ missed' = missed + 1
    /\ fetch.pc # "done" /\ fetch' = [fetch EXCEPT !.pc = "done"]
    /\ UNCHANGED <<taken, onTheWay, loaded, latest, during, overtaken>>

\* Variant for ViewCatchesUp: only a bin that is still loading takes events.
TakesBeforeOnly == ~loaded

\* A bin that is not there yet takes no reading.
Takes == loaded

\* An event comes: its values become the latest, whatever their age.
Announce(k) ==
    /\ k \in onTheWay /\ onTheWay' = onTheWay \ {k}
    /\ latest' = IF Takes THEN k ELSE latest
    /\ overtaken' = IF loaded /\ k < latest THEN overtaken \cup {latest} ELSE overtaken
    /\ during' = IF ~loaded /\ k > during THEN k ELSE during
    /\ UNCHANGED <<taken, fetch, loaded, missed>>

\* An event falls into a gap of the connection.
Miss(k) ==
    /\ missed < MaxMissed /\ missed' = missed + 1
    /\ k \in onTheWay /\ onTheWay' = onTheWay \ {k}
    /\ overtaken' = overtaken \cup {k}
    /\ UNCHANGED <<taken, fetch, loaded, latest, during>>

ViewNext ==
    \/ Take \/ Serve \/ Arrive \/ FetchFails
    \/ \E k \in onTheWay : Announce(k) \/ Miss(k)

ViewSpec == ViewInit /\ [][ViewNext]_viewVars

----
ViewTypeOK ==
    /\ taken \in 0..MaxTaken /\ onTheWay \subseteq 1..taken /\ latest \in 0..taken
    /\ fetch \in [pc : {"sent", "served", "done"}, found : 0..taken]
    /\ loaded \in BOOLEAN /\ missed \in 0..MaxMissed
    /\ during \in 0..taken /\ overtaken \subseteq 1..taken

\* Once every event has come, the view shows the newest reading: unless that
\* one's event was missed, came while the answer to the request was on its
\* way, or was followed by the event of an older reading.
ViewCatchesUp ==
    loaded /\ onTheWay = {} => latest = taken \/ taken \in overtaken
\* What ViewCatchesUp rests on: the newest reading is announced, overtaken, or
\* what the view has, or had heard of when its request was still out.
NewestIsKnown ==
    \/ taken = 0 \/ taken \in onTheWay \/ taken \in overtaken
    \/ IF loaded THEN latest = taken ELSE during = taken

ViewInv == ViewTypeOK /\ (loaded => fetch.pc = "done") /\ NewestIsKnown
=============================================================================
