------------------------------ MODULE ListPage ------------------------------
(***************************************************************************)
(* A list page of the browser: usePaginatedList with its debounce, the    *)
(* Pagination control, the paged endpoints of the API (utils/pagination)  *)
(* and the mutations of the seven pages that use them, while other        *)
(* clients change the rows.                                                *)
(***************************************************************************)
EXTENDS Naturals, Sequences, FiniteSets, Sorted

CONSTANTS
    Rows,          \* 1..n, in the order of creation
    Sizes,         \* page sizes offered; the first page is of the least
    Flights,       \* requests of the list in the air at a time
    ListPages,     \* the pages that are visited
    MaxRequests, MaxInputs, MaxChanges, MaxFaults

VARIABLES
    at,        \* the page the tab is on
    table,     \* the rows: "new" before creation, "open", "done" or "gone"
    query,     \* page, pageSize and filters of the hook
    timer,     \* the debounce timer is set, for the query as it is
    flights,   \* requests of the hook
    data, loading, failed,
    op,        \* the mutation in the air
    bounds,    \* requests, inputs, changes and faults so far
    \* History:
    newest,    \* the latest request that has been answered
    touched,   \* another client, or a mutation without answer, changed a row
    shrunk,    \* a row that was there has changed or gone
    blind      \* the page was chosen on the data of another query

listVars == <<at, table, query, timer, flights, data, loading, failed, op, bounds,
              newest, touched, shrunk, blind>>

Filters == {"all", "open"}
Flight(n, q, got, items, total) ==
    [n |-> n, query |-> q, got |-> got, items |-> items, total |-> total]
NoFlight == Flight(0, [page |-> 1, size |-> 1, filter |-> "all"], {}, <<>>, 0)
NoOp == [pc |-> "none", row |-> 0, to |-> "none"]

\* What a page starts with.
InitialFilter(p) == IF p \in {"alerts", "reports"} THEN "open" ELSE "all"

Least == CHOOSE s \in Sizes : \A t \in Sizes : s <= t

ListInit ==
    /\ at \in ListPages
    /\ \E k \in Rows : table = [r \in Rows |-> IF r < k THEN "open" ELSE "new"]
    /\ query = [page |-> 1, size |-> Least, filter |-> InitialFilter(at)]
    /\ timer = TRUE
    /\ flights = [f \in Flights |-> NoFlight]
    /\ data = [query |-> [page |-> 1, size |-> 1, filter |-> "all"], n |-> 0,
               items |-> <<>>, total |-> 0]
    /\ loading = FALSE /\ failed = FALSE
    /\ op = NoOp
    /\ bounds = [requests |-> 0, inputs |-> 0, changes |-> 0, faults |-> 0]
    /\ newest = 0 /\ touched = FALSE /\ shrunk = FALSE /\ blind = FALSE

----
(* The API *)

Matches(r, filter) == table[r] = "open" \/ (table[r] = "done" /\ filter = "all")

\* Users and bins come in the order of their names, which is that of creation
\* here; the other lists begin with the newest row.
Matching(filter) ==
    LET rows == {r \in Rows : Matches(r, filter)}
    IN  IF at \in {"users", "dustbins"} THEN Ascending(rows) ELSE Descending(rows)

\* parsePage and buildEnvelope: skip, limit and the number of pages.
PageRows(q) ==
    LET all == Matching(q.filter)
        here == {i \in DOMAIN all : (q.page - 1) * q.size < i /\ i <= q.page * q.size}
    IN  [i \in 1..Cardinality(here) |->
            LET r == all[(q.page - 1) * q.size + i] IN [row |-> r, status |-> table[r]]]

TotalPages(total, size) == IF total = 0 THEN 1 ELSE (total + size - 1) \div size

\* The rows and their number are two queries, in either order.
FindRows(f) ==
    /\ flights[f].n # 0 /\ "items" \notin flights[f].got
    /\ flights' = [flights EXCEPT ![f] = Flight(@.n, @.query, @.got \cup {"items"},
                                                PageRows(@.query), @.total)]
    /\ UNCHANGED <<at, table, query, timer, data, loading, failed, op, bounds, newest,
                   touched, shrunk, blind>>

CountRows(f) ==
    /\ flights[f].n # 0 /\ "total" \notin flights[f].got
    /\ flights' = [flights EXCEPT ![f] = Flight(@.n, @.query, @.got \cup {"total"},
                                                @.items, Len(Matching(@.query.filter)))]
    /\ UNCHANGED <<at, table, query, timer, data, loading, failed, op, bounds, newest,
                   touched, shrunk, blind>>

----
(* usePaginatedList *)

Count(what) == bounds' = [bounds EXCEPT ![what] = @ + 1]

\* The timer runs out: the request leaves with the query of the last render.
Fire(f) ==
    /\ timer /\ timer' = FALSE
    /\ bounds.requests < MaxRequests /\ Count("requests")
    /\ flights[f].n = 0 /\ \A g \in Flights : flights[g].n = 0 => f <= g
    /\ flights' = [flights EXCEPT ![f] = Flight(bounds'.requests, query, {}, <<>>, 0)]
    /\ loading' = TRUE /\ failed' = FALSE
    /\ UNCHANGED <<at, table, query, data, op, newest, touched, shrunk, blind>>

\* Its answer is shown, whatever has been asked since: the abort of the effect
\* reaches no request, as no page hands the signal on and paged() takes none.
Arrive(f) ==
    /\ flights[f].got = {"items", "total"}
    /\ flights' = [flights EXCEPT ![f] = NoFlight]
    /\ data' = [query |-> flights[f].query, n |-> flights[f].n,
                items |-> flights[f].items, total |-> flights[f].total]
    /\ newest' = IF flights[f].n > newest THEN flights[f].n ELSE newest
    /\ loading' = FALSE
    /\ UNCHANGED <<at, table, query, timer, failed, op, bounds, touched, shrunk, blind>>

Fails(f) ==
    /\ bounds.faults < MaxFaults /\ Count("faults")
    /\ flights[f].n # 0
    /\ flights' = [flights EXCEPT ![f] = NoFlight]
    /\ failed' = TRUE /\ loading' = FALSE
    /\ UNCHANGED <<at, table, query, timer, data, op, newest, touched, shrunk, blind>>

Input == bounds.inputs < MaxInputs /\ Count("inputs")

\* Variant for PageInRange: the filters change and the page does not.
AfterFilterKeepsPage(q) == q

\* The second effect of a render with other filters or another size: back to
\* page 1, well before the debounce ends.
AfterFilter(q) == [q EXCEPT !.page = 1]

SetFilters(filter) ==
    /\ Input
    /\ query' = AfterFilter([query EXCEPT !.filter = filter])
    /\ timer' = TRUE
    /\ blind' = FALSE
    /\ UNCHANGED <<at, table, flights, data, loading, failed, op, newest, touched, shrunk>>

\* Pagination: all of it is disabled while loading.
SetPageSize(size) ==
    /\ Input /\ ~loading /\ size # query.size
    /\ query' = AfterFilter([query EXCEPT !.size = size])
    /\ timer' = TRUE
    /\ blind' = FALSE
    /\ UNCHANGED <<at, table, flights, data, loading, failed, op, newest, touched, shrunk>>

\* buildRange: the numbers among the buttons.
PageButtons(current, pages) ==
    IF pages <= 7 THEN 1..pages
    ELSE {1, pages} \cup {p \in (current - 1)..(current + 1) : 1 < p /\ p < pages}

\* Prev, Next and the numbers, as far as the total shown allows.
SetPage(p) ==
    /\ Input /\ ~loading /\ p # query.page
    /\ LET pages == TotalPages(data.total, query.size)
       IN  \/ p = query.page - 1 /\ p >= 1
           \/ p = query.page + 1 /\ p <= pages
           \/ p \in PageButtons(query.page, pages)
    /\ query' = [query EXCEPT !.page = p]
    /\ timer' = TRUE
    /\ blind' = (blind \/ data.query.filter # query.filter \/ data.query.size # query.size
                 \/ data.n < newest)
    /\ UNCHANGED <<at, table, flights, data, loading, failed, op, newest, touched, shrunk>>

----
(* What the pages do with their rows *)

Send(r, to) ==
    /\ Input
    /\ op.pc = "none" /\ op' = [pc |-> "sent", row |-> r, to |-> to]
    /\ UNCHANGED <<at, table, query, timer, flights, data, loading, failed, newest, touched,
                   shrunk, blind>>

Shown == {data.items[i] : i \in DOMAIN data.items}

\* refresh() without a mutation.
AskAgain ==
    /\ Input /\ timer' = TRUE
    /\ UNCHANGED <<at, table, query, flights, data, loading, failed, op, newest, touched,
                   shrunk, blind>>

Choose ==
    \/ \E filter \in Filters : SetFilters(filter)
    \/ \E size \in Sizes : SetPageSize(size)
    \/ \E p \in 1..Cardinality(Rows) : SetPage(p)

\* ack, for a row that is shown open; any event of a bin asks again.
AlertsPage ==
    /\ at = "alerts"
    /\ \/ Choose \/ AskAgain
       \/ \E x \in Shown : x.status = "open" /\ Send(x.row, "done")

\* markAll.
NotificationsPage == at = "notifications" /\ (Choose \/ Send(0, "done"))

\* updateStatus: a button for each other status.
AdminReportsPage ==
    /\ at = "reports"
    /\ Choose \/ \E x \in Shown, s \in {"open", "done"} : s # x.status /\ Send(x.row, s)

\* removeEntry, and a button that asks again.
AuditPage ==
    at = "audit" /\ (Choose \/ AskAgain \/ \E x \in Shown : Send(x.row, "gone"))

\* create, remove, and updateEmail, after which the list is asked for too. The
\* fields of the addresses are in Drafts, reset() in Sessions.
AdminUsersPage ==
    /\ at = "users"
    /\ \/ Choose \/ Send(0, "open")
       \/ \E x \in Shown, to \in {"gone", "email"} : Send(x.row, to)

\* create, remove, and toggle: the opposite of what is shown.
AdminRulesPage ==
    /\ at = "rules"
    /\ \/ Choose \/ Send(0, "open")
       \/ \E x \in Shown, to \in {"gone", "open", "done"} : to # x.status /\ Send(x.row, to)

\* submit creates a bin, or updates one, deleted or not; remove.
AdminDustbinsPage ==
    /\ at = "dustbins"
    /\ \/ Choose \/ \E r \in Rows \cup {0} : Send(r, "open")
       \/ \E x \in Shown : Send(x.row, "gone")

NextNew == {r \in Rows : table[r] = "new" /\ \A s \in Rows : table[s] = "new" => r <= s}

\* The rows after a mutation: of one row, of all that are open, or a new one.
\* A deleted bin is there again when it is submitted.
Changed(r, to) ==
    [s \in Rows |->
        CASE to = "email" -> table[s]
          [] s = r /\ table[s] \in {"open", "done", IF at = "dustbins" THEN "gone" ELSE "open"} -> to
          [] r = 0 /\ to = "done" /\ table[s] = "open" -> "done"
          [] r = 0 /\ to = "open" /\ s \in NextNew -> "open"
          [] OTHER -> table[s]]

Shrinks(after) == \E r \in Rows : table[r] \in {"open", "done"} /\ after[r] # table[r]

OpApplies ==
    /\ op.pc = "sent" /\ op' = [op EXCEPT !.pc = "applied"]
    /\ table' = Changed(op.row, op.to)
    /\ shrunk' = (shrunk \/ Shrinks(table'))
    /\ UNCHANGED <<at, query, timer, flights, data, loading, failed, bounds, newest, touched, blind>>

\* Variant for SettledIsFresh: the page does not ask again.
RefreshNever == timer

\* refresh(): the timer is set again, for the page and filters that are chosen.
Refresh == TRUE

OpAnswers ==
    /\ op.pc = "applied" /\ op' = NoOp
    /\ timer' = Refresh
    /\ UNCHANGED <<at, table, query, flights, data, loading, failed, bounds, newest, touched,
                   shrunk, blind>>

\* The call rejects, before or after it did its work: nothing is asked again.
OpFails ==
    /\ bounds.faults < MaxFaults /\ Count("faults")
    /\ op.pc # "none" /\ op' = NoOp
    /\ touched' = (touched \/ op.pc = "applied")
    /\ UNCHANGED <<at, table, query, timer, flights, data, loading, failed, newest, shrunk, blind>>

\* Another client, or the server itself, changes a row or adds one.
OthersChange ==
    /\ bounds.changes < MaxChanges /\ Count("changes")
    /\ \E r \in Rows \cup {0}, to \in {"open", "done", "gone"} : table' = Changed(r, to)
    /\ table' # table
    /\ touched' = TRUE /\ shrunk' = (shrunk \/ Shrinks(table'))
    /\ UNCHANGED <<at, query, timer, flights, data, loading, failed, op, newest, blind>>

ListNext ==
    \/ \E f \in Flights : Fire(f) \/ FindRows(f) \/ CountRows(f) \/ Arrive(f) \/ Fails(f)
    \/ AlertsPage \/ NotificationsPage \/ AdminReportsPage \/ AuditPage
    \/ AdminUsersPage \/ AdminRulesPage \/ AdminDustbinsPage
    \/ OpApplies \/ OpAnswers \/ OpFails \/ OthersChange

ListSpec == ListInit /\ [][ListNext]_listVars

----
ListTypeOK ==
    /\ at \in ListPages
    /\ table \in [Rows -> {"new", "open", "done", "gone"}]
    /\ query \in [page : 1..Cardinality(Rows), size : Sizes, filter : Filters]
    /\ timer \in BOOLEAN /\ loading \in BOOLEAN /\ failed \in BOOLEAN
    /\ \A f \in Flights : flights[f].n \in 0..MaxRequests
    /\ op.pc \in {"none", "sent", "applied"}
    /\ touched \in BOOLEAN /\ shrunk \in BOOLEAN /\ blind \in BOOLEAN
    /\ (\A f \in Flights : flights[f].n = 0) => ~loading

Settled == /\ ~timer /\ ~failed /\ op.pc = "none"
           /\ \A f \in Flights : flights[f].n = 0

Fresh == data.query = query /\ data.items = PageRows(query)
         /\ data.total = Len(Matching(query.filter))

\* When nothing is under way, the page shows what the server would answer to
\* the page and filters that are chosen, the user's own changes included:
\* unless others changed rows, or an answer came after a later one.
SettledIsFresh == Settled /\ ~touched /\ data.n = newest => Fresh

\* usePaginatedList.ts:8, "no race-driven flicker": what is shown when nothing
\* is under way is of the page and filters that are chosen, in whatever order
\* answers come.
NoRaceDrivenFlicker == Settled => data.query = query

\* usePaginatedList.ts:18-19: nobody looks at "page 7 of 2". A page beyond the
\* last one is shown only if a row has left the list, or if the page was
\* chosen on the data of other filters, or on an answer that came
\* too late.
PageInRange ==
    Settled /\ ~shrunk /\ ~blind /\ data.n = newest
        => query.page <= TotalPages(data.total, query.size)
----
(* The inductive invariant behind SettledIsFresh and PageInRange. *)

QueryRecords == [page : Nat \ {0}, size : Nat \ {0}, filter : Filters]
CountOf(rows, filter) ==
    Cardinality({r \in Rows : rows[r] = "open" \/ (rows[r] = "done" /\ filter = "all")})

ListFits ==
    /\ timer \in BOOLEAN /\ blind \in BOOLEAN /\ query \in QueryRecords
    /\ bounds \in [requests : Nat, inputs : Nat, changes : Nat, faults : Nat]
    /\ newest \in 0..bounds.requests
    /\ data.n \in 0..newest /\ data.query \in QueryRecords /\ data.total \in Nat
    /\ flights = [f \in Flights |-> flights[f]]
    /\ \A f \in Flights :
          /\ flights[f].n \in 0..bounds.requests /\ flights[f].query \in QueryRecords
          /\ flights[f].got \subseteq {"items", "total"} /\ flights[f].total \in Nat
    /\ timer \/ bounds.requests # 0

\* The last request is answered or in the air, unless one failed after it left.
LastRequest ==
    failed \/ newest = bounds.requests \/ \E f \in Flights : flights[f].n = bounds.requests

\* Without the timer it asked for what is chosen.
AsksForChosen ==
    ~timer => /\ \A f \in Flights : flights[f].n = bounds.requests => flights[f].query = query
              /\ data.n = bounds.requests => data.query = query

\* What it found is still so, unless a mutation is done and not yet answered.
FindsWhatIs ==
    ~timer /\ ~touched /\ op.pc # "applied" =>
        /\ \A f \in Flights : flights[f].n = bounds.requests =>
              /\ "items" \in flights[f].got => flights[f].items = PageRows(query)
              /\ "total" \in flights[f].got => flights[f].total = CountOf(table, query.filter)
        /\ data.n = bounds.requests => /\ data.items = PageRows(query)
                                       /\ data.total = CountOf(table, query.filter)

\* Totals only grow as long as no row leaves, the page that is chosen exists,
\* and so it did when the last request was counted.
TotalsGrow ==
    ~shrunk => /\ data.total <= CountOf(table, data.query.filter)
               /\ \A f \in Flights : "total" \in flights[f].got
                                      => flights[f].total <= CountOf(table, flights[f].query.filter)
PageExists ==
    ~shrunk /\ ~blind =>
        /\ query.page <= TotalPages(CountOf(table, query.filter), query.size)
        /\ ~timer => /\ \A f \in Flights : flights[f].n = bounds.requests /\ "total" \in flights[f].got
                             => query.page <= TotalPages(flights[f].total, query.size)
                     /\ data.n = bounds.requests => query.page <= TotalPages(data.total, query.size)

ListInv == ListFits /\ LastRequest /\ AsksForChosen /\ FindsWhatIs /\ TotalsGrow /\ PageExists
=============================================================================
