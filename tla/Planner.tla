------------------------------ MODULE Planner ------------------------------
(***************************************************************************)
(* POST /routes/optimize: services/route.service.ts chooses the bins to    *)
(* collect and orders them by nearest neighbour and 2-opt; the driver's    *)
(* page and the administrator's route page ask for it. Each turn of a loop *)
(* is a step, although nothing can come between them: what one turn keeps  *)
(* can then be said of a state. Distances are those of a grid: the code    *)
(* uses its distance only as a symmetric length.                           *)
(***************************************************************************)
EXTENDS Naturals, Sequences, SequencesExt, FiniteSets

CONSTANTS
    Places,          \* positions <<x, y>>
    Depot,           \* where the truck starts and ends
    FillLevels,      \* fills of the bins 1..n: a set of sequences
    Thresholds, Limits,
    MaxIterations,   \* of twoOpt
    MaxPlans

VARIABLES
    place, fill,     \* of each bin; a fill of 0 stands for one that is inactive
    plan,            \* the request: who asks, what with, the bins that remain, the
                     \* stops so far, and where the passes of 2-opt are
    waiting, failed, \* what the page shows
    plans

plannerVars == <<place, fill, plan, waiting, failed, plans>>

NoPlan == [pc |-> "none", by |-> "client", fields |-> {}, threshold |-> 0, limit |-> 1,
           left |-> {}, stops |-> <<>>, i |-> 1, k |-> 2, passes |-> 0, improved |-> FALSE]

PlannerInit ==
    /\ fill \in FillLevels /\ place \in [DOMAIN fill -> Places]
    /\ plan = NoPlan /\ waiting = FALSE /\ failed = FALSE /\ plans = 0

----
(* route.service.ts *)

Apart(m, n) == IF m < n THEN n - m ELSE m - n
Distance(p, q) == Apart(p[1], q[1]) + Apart(p[2], q[2])

\* totalDistance: from the depot over the stops and back.
TotalDistance(at, route) ==
    LET from(i) == IF i = 1 THEN Depot ELSE at[route[i - 1]]
        legs == [i \in DOMAIN route |-> Distance(from(i), at[route[i]])]
    IN  IF route = <<>> THEN 0
        ELSE FoldLeft(+, 0, legs) + Distance(at[Last(route)], Depot)

\* The bins at or above the threshold; of these, the fullest up to the limit.
Candidates(threshold) == {b \in DOMAIN fill : fill[b] # 0 /\ fill[b] >= threshold}
Fuller(b, c) == fill[b] > fill[c] \/ (fill[b] = fill[c] /\ b < c)
Capped(threshold, limit) ==
    {b \in Candidates(threshold) :
        Cardinality({c \in Candidates(threshold) : Fuller(c, b)}) < limit}

\* nearestNeighbour: the first of the nearest of those that remain.
Here == IF plan.stops = <<>> THEN Depot ELSE place[Last(plan.stops)]
Nearest == {b \in plan.left : \A c \in plan.left :
               Distance(Here, place[b]) <= Distance(Here, place[c])}
NextStop == CHOOSE b \in Nearest : \A c \in Nearest \ {b} : Fuller(b, c)

\* Variant for RouteIsTight: the stop at the end of the part stays.
ReversedBeforeEnd(route, i, k) ==
    [j \in DOMAIN route |-> IF i <= j /\ j < k THEN route[i + k - j] ELSE route[j]]

\* twoOpt tries the route with the part from i to k turned round.
Reversed(route, i, k) ==
    [j \in DOMAIN route |-> IF i <= j /\ j <= k THEN route[i + k - j] ELSE route[j]]
Improves(route, i, k) == TotalDistance(place, Reversed(route, i, k)) < TotalDistance(place, route)

----
\* OptimizeSchema.
Required == {"depotLat", "depotLng"}

Ask(by, fields, threshold, limit) ==
    /\ plans < MaxPlans /\ plans' = plans + 1
    /\ plan' = [NoPlan EXCEPT !.pc = "sent", !.by = by, !.fields = fields,
                              !.threshold = threshold, !.limit = limit]
    /\ waiting' = (by # "client") /\ failed' = FALSE
    /\ UNCHANGED <<place, fill>>

\* The buttons of the two pages, disabled while they wait. Both name the
\* start as lib/api.ts does.
DriverPage == plan.pc = "none" /\ \E t \in Thresholds, n \in Limits : Ask("driver", {"startLat", "startLng"}, t, n)
AdminRoutesPage == plan.pc = "none" /\ \E t \in Thresholds, n \in Limits : Ask("admin", {"startLat", "startLng"}, t, n)

\* Another client of the API names it as the API does.
Client == plan.pc = "none" /\ \E t \in Thresholds, n \in Limits : Ask("client", Required, t, n)

\* Other fields are dropped, these must be there.
Refuse ==
    /\ plan.pc = "sent" /\ ~(Required \subseteq plan.fields)
    /\ plan' = [plan EXCEPT !.pc = "refused"]
    /\ UNCHANGED <<place, fill, waiting, failed, plans>>

Find ==
    /\ plan.pc = "sent" /\ Required \subseteq plan.fields
    /\ plan' = [plan EXCEPT !.pc = "nearest", !.left = Capped(plan.threshold, plan.limit)]
    /\ UNCHANGED <<place, fill, waiting, failed, plans>>

Visit ==
    /\ plan.pc = "nearest" /\ plan.left # {}
    /\ plan' = [plan EXCEPT !.left = @ \ {NextStop}, !.stops = Append(@, NextStop)]
    /\ UNCHANGED <<place, fill, waiting, failed, plans>>

\* Routes of fewer than four stops stay as they are.
AllVisited ==
    /\ plan.pc = "nearest" /\ plan.left = {}
    /\ plan' = [plan EXCEPT !.pc = IF Len(plan.stops) < 4 THEN "answered" ELSE "twoOpt"]
    /\ UNCHANGED <<place, fill, waiting, failed, plans>>

\* What becomes of the route when its part from plan.i to plan.k is tried.
Better == IF Improves(plan.stops, plan.i, plan.k)
          THEN Reversed(plan.stops, plan.i, plan.k) ELSE plan.stops
Improved == plan.improved \/ Improves(plan.stops, plan.i, plan.k)

TryPart ==
    /\ plan.pc = "twoOpt" /\ plan.i < Len(plan.stops) - 1
    /\ LET more == plan.k < Len(plan.stops)
       IN  plan' = [plan EXCEPT !.stops = Better, !.improved = Improved,
                                !.i = IF more THEN @ ELSE @ + 1,
                                !.k = IF more THEN @ + 1 ELSE plan.i + 2]
    /\ UNCHANGED <<place, fill, waiting, failed, plans>>

\* The last part of a pass, which was not the last pass if it improved anything.
TryLastPart ==
    /\ plan.pc = "twoOpt" /\ plan.i = Len(plan.stops) - 1
    /\ plan' = IF Improved /\ plan.passes + 1 < MaxIterations
               THEN [plan EXCEPT !.stops = Better, !.improved = FALSE, !.i = 1, !.k = 2,
                                 !.passes = @ + 1]
               ELSE [plan EXCEPT !.pc = "answered", !.stops = Better, !.improved = Improved]
    /\ UNCHANGED <<place, fill, waiting, failed, plans>>

\* The page shows the error, or the client has its route.
Arrive ==
    /\ plan.pc \in {"refused", "answered"} /\ plan' = NoPlan
    /\ waiting' = FALSE /\ failed' = (plan.pc = "refused" /\ plan.by # "client")
    /\ UNCHANGED <<place, fill, plans>>

PlannerNext ==
    \/ DriverPage \/ AdminRoutesPage \/ Client \/ Refuse
    \/ Find \/ Visit \/ AllVisited \/ TryPart \/ TryLastPart \/ Arrive

PlannerSpec == PlannerInit /\ [][PlannerNext]_plannerVars

----
PlannerTypeOK ==
    /\ plan.pc \in {"none", "sent", "refused", "nearest", "twoOpt", "answered"}
    /\ \A i \in DOMAIN plan.stops : plan.stops[i] \in DOMAIN fill
    /\ waiting \in BOOLEAN /\ failed \in BOOLEAN /\ plans \in 0..MaxPlans

\* An answered route stops once at each of the bins it should: as many as the
\* limit allows, none of them emptier than one that is left out. From four
\* stops on no part of it can be reversed to make it shorter, unless the passes
\* ran out while they still improved it (RouteService.optimize;
\* routeService.test.ts tries routes of up to three).
RouteIsTight ==
    LET stops == plan.stops
        due == Candidates(plan.threshold)
    IN  plan.pc = "answered" =>
            /\ IsInjective(stops) /\ ToSet(stops) \subseteq due
            /\ Len(stops) = plan.limit \/ ToSet(stops) = due
            /\ Len(stops) <= plan.limit
            /\ \A b \in ToSet(stops), c \in due \ ToSet(stops) : fill[b] >= fill[c]
            /\ Len(stops) >= 4 /\ ~plan.improved =>
                  \A i, k \in DOMAIN stops :
                      i < k => LET other == SubSeq(stops, 1, i - 1) \o Reverse(SubSeq(stops, i, k))
                                            \o SubSeq(stops, k + 1, Len(stops))
                               IN  ~ (TotalDistance(place, other) < TotalDistance(place, stops))
----
(* The inductive invariant behind RouteIsTight. *)

PlanFits ==
    /\ fill \in Seq(Nat) /\ place \in [DOMAIN fill -> Places]
    /\ plan \in [pc : {"none", "sent", "refused", "nearest", "twoOpt", "answered"},
                by : {"client", "driver", "admin"},
                fields : SUBSET (Required \cup {"startLat", "startLng"}),
                threshold : Thresholds \cup {0}, limit : Nat \ {0},
                left : SUBSET (DOMAIN fill), stops : Seq(DOMAIN fill),
                i : Nat, k : Nat, passes : Nat, improved : BOOLEAN]

\* Each bin that is due, up to the limit, is a stop once or remains.
VisitsCapped ==
    plan.pc \in {"nearest", "twoOpt", "answered"} =>
        LET capped == Capped(plan.threshold, plan.limit)
        IN  /\ IsInjective(plan.stops)
            /\ ToSet(plan.stops) \cap plan.left = {}
            /\ ToSet(plan.stops) \cup plan.left = capped
            /\ Len(plan.stops) + Cardinality(plan.left) = Cardinality(capped)
            /\ plan.pc # "nearest" => plan.left = {}

PartInRoute ==
    /\ plan.pc \in {"none", "sent"} => plan.stops = <<>>
    /\ plan.pc \in {"none", "sent", "nearest"} => plan.i = 1 /\ plan.k = 2
    /\ plan.pc = "twoOpt" => /\ Len(plan.stops) >= 4
                            /\ plan.i \in 1..(Len(plan.stops) - 1)
                            /\ plan.k \in (plan.i + 1)..Len(plan.stops)

\* As long as a pass has improved nothing, no part it has tried would.
Tried(i, k) ==
    \/ plan.pc = "twoOpt" /\ (i < plan.i \/ (i = plan.i /\ k < plan.k))
    \/ plan.pc = "answered" /\ Len(plan.stops) >= 4
NoneShorter ==
    ~plan.improved => \A i, k \in DOMAIN plan.stops :
                          i < k /\ Tried(i, k) => ~Improves(plan.stops, i, k)

PlannerInv == PlanFits /\ VisitsCapped /\ PartInRoute /\ NoneShorter
=============================================================================
