---------------------------- MODULE KeysetPaging ----------------------------
(***************************************************************************)
(* Reading the archive page by page: GET /sensor-readings and its single   *)
(* bin form (routes/sensorReadings.routes.ts), called by a client that     *)
(* asks for the next page with the cursor of the last one, while devices   *)
(* add readings of any time, old ones expire, and an administrator changes *)
(* the bins the user is assigned to.                                       *)
(*                                                                         *)
(* A request of an ordinary user reads the assigned bins first and the     *)
(* readings after that.  An _id is unique; it says nothing about the order *)
(* of insertion, since every replica makes its own.                        *)
(***************************************************************************)
EXTENDS Integers, Sequences, FiniteSets

CONSTANTS
    Bins,        \* dustbin ids
    Readings,    \* documents the archive may come to hold: [id, ts, bin, metric]
    Filters,     \* queries: [bins, metrics, from, to]; bins = {} asks for all
    Limit,       \* page size of the client
    MaxOpens,    \* bound: walks begun
    MaxChanges   \* bound: expired readings and changed assignments

Reading == [id : Int, ts : Int, bin : Bins, metric : {"depth", "gas", "humidity", "temperature"}]
Filter == [bins : SUBSET Bins, metrics : SUBSET {"depth", "gas", "humidity", "temperature"},
           from : Int, to : Int]

ASSUME InputAssumption ==
    /\ Readings \subseteq Reading /\ IsFiniteSet(Readings)
    /\ \A x, y \in Readings : x.id = y.id => x = y
    /\ Filters \subseteq Filter /\ Filters # {}
    /\ Limit \in Nat \ {0}

VARIABLES
    stored,      \* the archive
    ever,        \* every reading that was ever stored
    assigned,    \* assignedDustbins of the user
    phase,       \* where the current walk is
    admin,       \* its user is an administrator
    byBin,       \* it uses /by-bin/:dustbinId
    filter,      \* its query
    scope,       \* the bins its current request may show
    cursor,      \* {} on the first page and at the end, else the reading to go on below
    more,        \* the last answer had a cursor
    pages,       \* the pages of the walk so far
    steady,      \* history: stored, matching and assigned ever since it began
    opens, changes  \* counters of the bounds

archiveVars == <<stored, ever, assigned>>
walkVars == <<admin, byBin, filter>>
vars == <<archiveVars, phase, walkVars, scope, cursor, more, pages, steady, opens, changes>>

Phases == {"idle", "scope", "find", "shown"}
AnyFilter == CHOOSE f \in Filters : TRUE

\* The sort order { timestamp: -1, _id: -1 }: x comes before y.
Newer(x, y) == x.ts > y.ts \/ (x.ts = y.ts /\ x.id > y.id)

Matches(x, f) == x.metric \in f.metrics /\ f.from <= x.ts /\ x.ts <= f.to

\* resolveScope: the bins a query for the bins in wanted may show.
ResolveScope(isAdmin, wanted) ==
    IF isAdmin THEN IF wanted = {} THEN Bins ELSE wanted
    ELSE IF wanted = {} THEN assigned ELSE wanted \cap assigned

Init ==
    /\ stored = {} /\ ever = {} /\ assigned \in SUBSET Bins
    /\ phase = "idle" /\ admin = FALSE /\ byBin = FALSE /\ filter = AnyFilter
    /\ scope = {} /\ cursor = {} /\ more = FALSE /\ pages = <<>>
    /\ steady = {} /\ opens = 0 /\ changes = 0

----
\* A client begins a walk: the first request has no cursor.
Open(isAdmin, single, f) ==
    /\ phase \in {"idle", "shown"} /\ opens < MaxOpens
    /\ single => Cardinality(f.bins) = 1
    /\ opens' = opens + 1
    /\ phase' = "scope" /\ admin' = isAdmin /\ byBin' = single /\ filter' = f
    /\ cursor' = {} /\ more' = FALSE /\ pages' = <<>>
    /\ steady' = {x \in stored : Matches(x, f) /\ x.bin \in ResolveScope(isAdmin, f.bins)}
    /\ UNCHANGED <<archiveVars, scope, changes>>

\* The user's assigned bins are read.
Resolve ==
    /\ phase = "scope"
    /\ scope' = ResolveScope(admin, filter.bins)
    /\ phase' = "find"
    /\ UNCHANGED <<archiveVars, walkVars, cursor, more, pages, steady, opens, changes>>

\* 403 of /by-bin: the bin is not, or no longer, one of the user's.
Forbidden ==
    /\ phase = "find" /\ byBin /\ scope = {}
    /\ phase' = "idle"
    /\ UNCHANGED <<archiveVars, walkVars, scope, cursor, more, pages, steady, opens, changes>>

\* Readings strictly before the cursor in the sort order.
Below(c) == {x \in stored : \A y \in c : Newer(y, x)}

\* The first n of s in the sort order, or all of s.
FirstOf(page, s, n) ==
    /\ page \subseteq s
    /\ Cardinality(page) = IF Cardinality(s) < n THEN Cardinality(s) ELSE n
    /\ \A x \in page, y \in s \ page : Newer(x, y)

IsLast(x, page) == x \in page /\ \A y \in page : y = x \/ Newer(y, x)

\* The answer to a request: the query asks for one document more than the
\* page holds.
Answer(items, page) ==
    /\ phase = "find" /\ ~(byBin /\ scope = {})
    /\ FirstOf(items, {x \in Below(cursor) : x.bin \in scope /\ Matches(x, filter)}, Limit + 1)
    /\ FirstOf(page, items, Limit)
    /\ phase' = "shown" /\ pages' = Append(pages, page)
    /\ UNCHANGED <<archiveVars, walkVars, scope, steady, opens, changes>>

\* Variant for NothingSkipped: the cursor is taken from the extra document.
FindMoreFromExtra ==
    \E items, page \in SUBSET stored :
        /\ Answer(items, page) /\ Cardinality(items) > Limit
        /\ more' = TRUE
        /\ \E c \in items : IsLast(c, items) /\ cursor' = {c}

\* The extra document is there: the last one shown is the cursor.
FindMore ==
    \E items, page \in SUBSET stored :
        /\ Answer(items, page) /\ Cardinality(items) > Limit
        /\ more' = TRUE
        /\ \E c \in page : IsLast(c, page) /\ cursor' = {c}

\* Variant for FullPages: the last page has a cursor too.
FindEndWithCursor ==
    \E items, page \in SUBSET stored :
        /\ Answer(items, page) /\ Cardinality(items) <= Limit
        /\ more' = (page # {}) /\ cursor' = {c \in page : IsLast(c, page)}

\* It is not: nextCursor is null.
FindEnd ==
    \E items, page \in SUBSET stored :
        /\ Answer(items, page) /\ Cardinality(items) <= Limit
        /\ more' = FALSE /\ cursor' = {}

\* A query is rejected: an error is shown, the cursor of the last answer stays.
Fail ==
    /\ phase \in {"scope", "find"}
    /\ phase' = IF more THEN "shown" ELSE "idle"
    /\ UNCHANGED <<archiveVars, walkVars, scope, cursor, more, pages, steady, opens, changes>>

\* The client asks for the next page with the cursor it was given.
NextPage ==
    /\ phase = "shown" /\ more
    /\ phase' = "scope"
    /\ UNCHANGED <<archiveVars, walkVars, scope, cursor, more, pages, steady, opens, changes>>

----
Insert(x) ==
    /\ x \notin ever
    /\ stored' = stored \cup {x} /\ ever' = ever \cup {x}
    /\ UNCHANGED <<assigned, phase, walkVars, scope, cursor, more, pages, steady,
                   opens, changes>>

\* The archive drops a reading that is past its retention.
Expire(x) ==
    /\ x \in stored /\ changes < MaxChanges
    /\ changes' = changes + 1
    /\ stored' = stored \ {x} /\ steady' = steady \ {x}
    /\ UNCHANGED <<ever, assigned, phase, walkVars, scope, cursor, more, pages, opens>>

\* PATCH /users/:id with assignedDustbins
Reassign(bins) ==
    /\ bins # assigned /\ changes < MaxChanges
    /\ changes' = changes + 1
    /\ assigned' = bins
    /\ steady' = {x \in steady : admin \/ x.bin \in bins}
    /\ UNCHANGED <<stored, ever, phase, walkVars, scope, cursor, more, pages, opens>>

Next ==
    \/ \E isAdmin, single \in BOOLEAN, f \in Filters : Open(isAdmin, single, f)
    \/ Resolve \/ Forbidden \/ FindMore \/ FindEnd \/ Fail \/ NextPage
    \/ \E x \in Readings : Insert(x) \/ Expire(x)
    \/ \E bins \in SUBSET Bins : Reassign(bins)

Spec == Init /\ [][Next]_vars

----
TypeOK ==
    /\ stored \subseteq ever /\ ever \subseteq Readings
    /\ assigned \subseteq Bins
    /\ phase \in Phases /\ admin \in BOOLEAN /\ byBin \in BOOLEAN
    /\ filter \in Filters /\ scope \subseteq Bins
    /\ cursor \subseteq ever /\ more \in BOOLEAN /\ more = (cursor # {})
    /\ pages \in Seq(SUBSET ever)
    /\ steady \subseteq stored
    /\ opens \in Nat /\ changes \in Nat

\* Whatever is inserted, expires or is reassigned between the requests, a
\* walk goes strictly down the sort order: no reading is shown twice, not
\* even one that ties with the cursor's timestamp (lines 118-125).
PagesDescend ==
    \A j \in DOMAIN pages : \A i \in 1 .. (j - 1) :
        \A x \in pages[i], y \in pages[j] : Newer(x, y)

Shown(x) == \E i \in DOMAIN pages : x \in pages[i]

\* Readings above the cursor, or all when there was no cursor any more
\* ("nextCursor === null => end", line 94).
Passed(x) == IF more THEN \E c \in cursor : x = c \/ Newer(x, c) ELSE pages # <<>>

\* A reading that was there when the walk began, and that the user could see
\* all the time, has been shown once the walk has passed its place.
NothingSkipped == \A x \in steady : Passed(x) => Shown(x)

\* Every page but the last is full: hasMore is never given with a short page,
\* whatever the scope and the filter leave out.
FullPages ==
    \A i \in DOMAIN pages : (i < Len(pages) \/ more) => Cardinality(pages[i]) = Limit
----
(***************************************************************************)
(* The inductive invariant behind PagesDescend, NothingSkipped, FullPages. *)
(***************************************************************************)

\* The cursor is one reading, and no page has gone below it.
CursorIsLowest ==
    /\ \A c, d \in cursor : c = d
    /\ \A i \in DOMAIN pages : \A x \in pages[i], c \in cursor : x = c \/ Newer(x, c)

\* A request after the first one has a cursor.
RequestHasCursor == phase \in {"scope", "find"} /\ pages # <<>> => more

\* What counts as steady is in reach of the current request.
SteadyInScope ==
    \A x \in steady :
        /\ Matches(x, filter)
        /\ x.bin \in ResolveScope(admin, filter.bins)
        /\ phase = "find" => x.bin \in scope

IInv ==
    /\ TypeOK
    /\ CursorIsLowest
    /\ RequestHasCursor
    /\ SteadyInScope
    /\ PagesDescend
    /\ NothingSkipped
    /\ FullPages
----
(***************************************************************************)
(* The walk that a client sees: what its pages hold, what lies below the   *)
(* cursor, and what it began with and has not been shown.                  *)
(***************************************************************************)
ShownSet == UNION {pages[i] : i \in DOMAIN pages}

LeftSet ==
    IF pages = <<>> THEN Readings ELSE {x \in Readings : \E c \in cursor : Newer(c, x)}

NewerPairs == {p \in Readings \X Readings : Newer(p[1], p[2])}

Walk == INSTANCE OrderedWalk
            WITH Items <- Readings, Order <- NewerPairs,
                 shown <- ShownSet, left <- LeftSet, owed <- steady \ ShownSet

\* The pages are a walk down the order of the readings: each request shows what
\* comes next and passes over nothing that was in reach all the time, whatever
\* fails, is inserted, expires or is reassigned between the requests.
WalksInOrder == Walk!Spec
=============================================================================
