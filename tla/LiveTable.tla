----------------------------- MODULE LiveTable -----------------------------
(***************************************************************************)
(* components/LiveSensorTable.tsx: the table of readings with its filter, *)
(* its stack of cursors, the poll of its first page and the live rows that *)
(* are put before it, against GET /sensor-readings.                        *)
(***************************************************************************)
EXTENDS Naturals, Sequences, FiniteSets, Sorted

CONSTANTS
    MaxReadings,   \* readings stored at most, 1 the oldest
    Selections,    \* the filters, each the readings that it selects
    PageSize,
    Loads,         \* requests of the table in the air at a time
    MaxLoads, MaxLost

None == MaxReadings + 1    \* the cursor null: every reading is below it
NoFilter == 0..MaxReadings    \* all; 0, which is none, tells it from the others
Choices == Selections \cup {NoFilter}

VARIABLES
    stored,      \* readings 1..stored are in the collection
    events,      \* readings whose live event is on its way
    filter, pageIdx, cursors, next,
    items, shown,          \* the rows, and the load they are of
    loads, waiting, error,
    count, lost,
    \* History:
    latest,      \* the latest load that has been answered
    stray        \* Next was pressed when next was not of the page chosen

tableVars == <<stored, events, filter, pageIdx, cursors, next, items, shown, loads,
               waiting, error, count, lost, latest, stray>>
serverVars == <<stored, events>>
viewVars == <<filter, pageIdx, cursors>>

Request(n, f, cursor) ==
    [n |-> n, filter |-> f, cursor |-> cursor, served |-> FALSE,
     items |-> <<>>, next |-> None]
NoLoad == Request(0, NoFilter, None)

Cursor == cursors[pageIdx + 1]

\* loadPage, called by the first render.
TableInit ==
    /\ stored = 0 /\ events = {}
    /\ filter = NoFilter /\ pageIdx = 0 /\ cursors = <<None>> /\ next = None
    /\ items = <<>> /\ shown = [n |-> 0, filter |-> NoFilter, cursor |-> None]
    /\ loads = [l \in Loads |-> IF \A k \in Loads : l <= k THEN Request(1, NoFilter, None) ELSE NoLoad]
    /\ waiting = TRUE /\ error = FALSE
    /\ count = 1 /\ lost = 0
    /\ latest = 0 /\ stray = FALSE

----
\* A reading is stored, and broadcast.
Store ==
    /\ stored < MaxReadings /\ stored' = stored + 1
    /\ events' = events \cup {stored'}
    /\ UNCHANGED <<viewVars, next, items, shown, loads, waiting, error, count, lost, latest, stray>>

Selects(f, r) == r \in f
PageBelow(f, cursor) ==
    Descending({r \in 1..stored : Selects(f, r) /\ r < cursor})
Take(s, n) == SubSeq(s, 1, IF n < Len(s) THEN n ELSE Len(s))

\* The API answers a page, and a cursor when there is more.
Serve(l) ==
    /\ loads[l].n # 0 /\ ~loads[l].served
    /\ LET rows == PageBelow(loads[l].filter, loads[l].cursor)
       IN  loads' = [loads EXCEPT ![l] =
               [n |-> @.n, filter |-> @.filter, cursor |-> @.cursor, served |-> TRUE,
                items |-> Take(rows, PageSize),
                next |-> IF Len(rows) > PageSize THEN rows[PageSize] ELSE None]]
    /\ UNCHANGED <<serverVars, viewVars, next, items, shown, waiting, error, count, lost, latest, stray>>

----
\* loadPage: the filters are those of the render it was made in.
Load(f, cursor) ==
    /\ count < MaxLoads /\ count' = count + 1
    /\ \E l \in Loads :
          /\ loads[l] = NoLoad /\ \A k \in Loads : loads[k] = NoLoad => l <= k
          /\ loads' = [loads EXCEPT ![l] = Request(count', f, cursor)]
    /\ waiting' = TRUE /\ error' = FALSE
    /\ UNCHANGED <<serverVars, items, shown, lost, latest>>

\* Whatever the table shows by then, the answer replaces its rows and next.
Arrive(l) ==
    /\ loads[l].served
    /\ items' = loads[l].items /\ next' = loads[l].next
    /\ shown' = [n |-> loads[l].n, filter |-> loads[l].filter, cursor |-> loads[l].cursor]
    /\ latest' = IF loads[l].n > latest THEN loads[l].n ELSE latest
    /\ loads' = [loads EXCEPT ![l] = NoLoad]
    /\ waiting' = FALSE
    /\ UNCHANGED <<serverVars, viewVars, error, count, lost, stray>>

Fails(l) ==
    /\ lost < MaxLost /\ lost' = lost + 1
    /\ loads[l].n # 0
    /\ loads' = [loads EXCEPT ![l] = NoLoad]
    /\ waiting' = FALSE /\ error' = TRUE
    /\ UNCHANGED <<serverVars, viewVars, next, items, shown, count, latest, stray>>

\* Variant for CursorsDescend: the stack and next stay with the old filter.
ResetViewKeepsNext == UNCHANGED <<cursors, next, pageIdx>>

ResetView == cursors' = <<None>> /\ pageIdx' = 0 /\ next' = None

\* Another filter: back to the first page, with a load of its own.
ChangeFilter ==
    /\ filter' \in Choices \ {filter}
    /\ ResetView /\ stray' = FALSE
    /\ Load(filter', None)

\* Variant for TableShowsPage: a filter stops neither the poll nor live rows.
LivePageUnfiltered == pageIdx = 0

\* The first page without a filter is polled, and takes live rows.
LivePage == filter = NoFilter /\ pageIdx = 0

Poll ==
    /\ LivePage
    /\ Load(NoFilter, None)
    /\ UNCHANGED <<viewVars, next, stray>>

\* A live event: its rows are put before the others.
Splice(r) ==
    /\ r \in events /\ events' = events \ {r}
    /\ items' = IF LivePage THEN Take(<<r>> \o items, PageSize) ELSE items
    /\ UNCHANGED <<stored, viewVars, next, shown, loads, waiting, error, count, lost, latest, stray>>

\* An event is lost with its connection.
LoseEvent(r) ==
    /\ lost < MaxLost /\ lost' = lost + 1
    /\ r \in events /\ events' = events \ {r}
    /\ UNCHANGED <<stored, viewVars, next, items, shown, loads, waiting, error, count, latest, stray>>

NextPage ==
    /\ next # None /\ ~waiting
    /\ cursors' = Append(SubSeq(cursors, 1, pageIdx + 1), next)
    /\ pageIdx' = pageIdx + 1
    /\ stray' = (stray \/ shown.filter # filter \/ shown.cursor # Cursor)
    /\ Load(filter, next)
    /\ UNCHANGED <<filter, next>>

PrevPage ==
    /\ pageIdx > 0 /\ ~waiting
    /\ pageIdx' = pageIdx - 1
    /\ Load(filter, cursors[pageIdx])
    /\ UNCHANGED <<filter, cursors, next, stray>>

TableNext ==
    \/ Store \/ ChangeFilter \/ Poll \/ NextPage \/ PrevPage
    \/ \E l \in Loads : Serve(l) \/ Arrive(l) \/ Fails(l)
    \/ \E r \in events : Splice(r) \/ LoseEvent(r)

TableSpec == TableInit /\ [][TableNext]_tableVars

----
TableTypeOK ==
    /\ stored \in 0..MaxReadings /\ events \subseteq 1..stored
    /\ filter \in Choices /\ pageIdx \in Nat /\ pageIdx < Len(cursors)
    /\ \A i \in DOMAIN cursors : cursors[i] \in 1..None
    /\ next \in 1..None /\ waiting \in BOOLEAN /\ error \in BOOLEAN
    /\ Len(items) <= PageSize

\* Each page of the stack begins below the one before it, so that no page is
\* shown twice under two numbers: unless Next was pressed while the cursor it
\* used was of another page, as a late answer or a failed load leaves it.
CursorsDescend ==
    ~stray => \A i \in 1..(Len(cursors) - 1) : cursors[i + 1] < cursors[i]

\* With no load in the air, the rows are of the filter and below the cursor of
\* the page that is chosen, with the live rows that came since: unless the
\* last load failed, or an answer came after that of a later load.
TableShowsPage ==
    (\A l \in Loads : loads[l].n = 0) /\ ~error /\ shown.n = latest
        => \A i \in DOMAIN items : Selects(filter, items[i]) /\ items[i] < Cursor
----
(* The inductive invariant behind both. *)

TableFits ==
    /\ stored \in 0..MaxReadings /\ events \subseteq 1..stored
    /\ filter \in Choices /\ pageIdx \in Nat
    /\ cursors \in Seq(1..None) /\ pageIdx < Len(cursors) /\ cursors[1] = None
    /\ next \in 1..None /\ items \in Seq(1..MaxReadings)
    /\ count \in Nat \ {0} /\ latest \in 0..count /\ error \in BOOLEAN
    /\ shown \in [n : 0..latest, filter : Choices, cursor : 1..None]
    /\ loads \in [Loads -> [n : 0..count, filter : Choices, cursor : 1..None, served : BOOLEAN,
                             items : Seq(1..MaxReadings), next : 1..None]]

RowsFit(rows, f, cursor) ==
    \A i \in DOMAIN rows : Selects(f, rows[i]) /\ rows[i] < cursor

\* What has been answered is of the filter and below the cursor asked for.
AnswersFit ==
    /\ \A l \in Loads : loads[l].served =>
          /\ RowsFit(loads[l].items, loads[l].filter, loads[l].cursor)
          /\ loads[l].next # None => loads[l].next < loads[l].cursor
    /\ next # None => next < shown.cursor

\* The last load is out, or answered, or failed; and of what is chosen.
LastLoad ==
    /\ error \/ latest = count \/ \E l \in Loads : loads[l].n = count
    /\ \A l \in Loads : loads[l].n = count => loads[l].filter = filter /\ loads[l].cursor = Cursor
    /\ shown.n = count => /\ shown.filter = filter /\ shown.cursor = Cursor
                          /\ RowsFit(items, filter, Cursor)

TableInv == TableFits /\ AnswersFit /\ LastLoad /\ CursorsDescend
=============================================================================
