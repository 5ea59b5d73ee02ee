----------------------------- MODULE BrowserTab -----------------------------
(***************************************************************************)
(* A tab of the browser on one of the pages that hold data of their own: a *)
(* list page, the live table of readings, a bin, a form with drafts or a    *)
(* route page; or with its bell. They share no state: the tab is on one.   *)
(***************************************************************************)
EXTENDS Naturals, Sequences, FiniteSets

CONSTANTS
    Rows, Sizes, Flights, ListPages, MaxRequests, MaxInputs, MaxChanges, MaxFaults,
    MaxReadings, Selections, PageSize, Loads, MaxLoads, MaxLost,
    MaxTaken, MaxMissed,
    Keys, Texts, Calls, MaxTypings, MaxSaves, MaxEdits,
    MaxNotes, PanelSize, Asks, MaxAsks, MaxMishaps,
    Places, Depot, FillLevels, Thresholds, Limits, MaxIterations, MaxPlans

ASSUME ListAssumption ==
    /\ Rows \subseteq Nat /\ IsFiniteSet(Rows)
    /\ Sizes \subseteq Nat \ {0} /\ Sizes # {}
    /\ ListPages \subseteq {"alerts", "notifications", "reports", "audit", "users",
                            "rules", "dustbins"}
ASSUME TableAssumption ==
    /\ PageSize \in Nat \ {0} /\ MaxReadings \in Nat /\ Selections \subseteq SUBSET (1..MaxReadings)
    /\ Loads \subseteq Nat /\ Loads # {}
ASSUME BinAssumption == MaxTaken \in Nat /\ MaxMissed \in Nat
ASSUME BellAssumption == MaxNotes \in Nat
ASSUME PlannerAssumption ==
    /\ Places \subseteq Nat \X Nat /\ Depot \in Places /\ FillLevels \subseteq Seq(Nat)
    /\ FillLevels # {} /\ Limits \subseteq Nat \ {0} /\ MaxIterations \in Nat \ {0}

VARIABLES
    view,      \* what the tab is on: see Views
    at, table, query, timer, flights, data, loading, failed, op, bounds,
    newest, touched, shrunk, blind,
    stored, events, filter, pageIdx, cursors, next, items, shown, loads, waiting,
    error, count, lost, latest, stray,
    taken, onTheWay, fetch, loaded, reading, missed, during, overtaken,
    form, entries, draft, calls, saving, counts, typed, wanted, unsure,
    inbox, badge, open, listed, listing, asks, asked, mishaps, changes, basis, fresh,
    place, fill, plan, planning, refused, plans

Views == {"list", "table", "bin", "form", "bell", "planner"}

List == INSTANCE ListPage
Table == INSTANCE LiveTable
Bin == INSTANCE BinView WITH latest <- reading
Form == INSTANCE Drafts WITH stored <- entries
Bell == INSTANCE Bell
Route == INSTANCE Planner WITH waiting <- planning, failed <- refused

listVars == <<at, table, query, timer, flights, data, loading, failed, op, bounds,
              newest, touched, shrunk, blind>>
tableVars == <<stored, events, filter, pageIdx, cursors, next, items, shown, loads,
               waiting, error, count, lost, latest, stray>>
binVars == <<taken, onTheWay, fetch, loaded, reading, missed, during, overtaken>>
formVars == <<form, entries, draft, calls, saving, counts, typed, wanted, unsure>>
bellVars == <<inbox, badge, open, listed, listing, asks, asked, mishaps, changes, basis, fresh>>
routeVars == <<place, fill, plan, planning, refused, plans>>
vars == <<view, listVars, tableVars, binVars, formVars, bellVars, routeVars>>

\* A page that is not mounted has its first state, with no data.
Init ==
    /\ view \in Views
    /\ List!ListInit /\ Table!TableInit /\ Bin!ViewInit /\ Form!DraftInit
    /\ Bell!BellInit /\ Route!PlannerInit
    /\ view # "list" => /\ at = CHOOSE p \in ListPages : TRUE
                        /\ table = [r \in Rows |-> "new"]
    /\ view # "form" => form = "settings" /\ entries = [k \in Keys |-> Form!Empty]
    /\ view # "bell" => \A n \in DOMAIN inbox : inbox[n] = "none"
    /\ view # "planner" => /\ fill = CHOOSE f \in FillLevels : TRUE
                           /\ \A b \in DOMAIN place : place[b] = Depot

OnList == /\ view = "list" /\ List!ListNext
          /\ UNCHANGED <<view, tableVars, binVars, formVars, bellVars, routeVars>>
OnTable == /\ view = "table" /\ Table!TableNext
           /\ UNCHANGED <<view, listVars, binVars, formVars, bellVars, routeVars>>
OnBin == /\ view = "bin" /\ Bin!ViewNext
         /\ UNCHANGED <<view, listVars, tableVars, formVars, bellVars, routeVars>>
OnForm == /\ view = "form" /\ Form!DraftNext
          /\ UNCHANGED <<view, listVars, tableVars, binVars, bellVars, routeVars>>
OnBell == /\ view = "bell" /\ Bell!BellNext
          /\ UNCHANGED <<view, listVars, tableVars, binVars, formVars, routeVars>>
OnPlanner == /\ view = "planner" /\ Route!PlannerNext
             /\ UNCHANGED <<view, listVars, tableVars, binVars, formVars, bellVars>>

Next == OnList \/ OnTable \/ OnBin \/ OnForm \/ OnBell \/ OnPlanner

Spec == Init /\ [][Next]_vars

----
TypeOK ==
    /\ view \in Views
    /\ List!ListTypeOK /\ Table!TableTypeOK /\ Bin!ViewTypeOK /\ Form!DraftTypeOK
    /\ Bell!BellTypeOK /\ Route!PlannerTypeOK

\* When nothing is under way, a list page shows what the server would answer to
\* the page and filters that are chosen, after the user's own changes too
\* (usePaginatedList, the refresh of each page's mutations).
SettledIsFresh == List!SettledIsFresh

\* Nobody looks at a page beyond the last (usePaginatedList.ts:18-19).
PageInRange == List!PageInRange

\* The contradicted claim of usePaginatedList.ts:8, "no race-driven flicker":
\* what is shown in the end is of the filters and page that are chosen.
NoRaceDrivenFlicker == List!NoRaceDrivenFlicker

\* The cursors of the live table descend: no page is shown under two numbers.
CursorsDescend == Table!CursorsDescend

\* The rows of the live table are of its filter and of the page chosen.
TableShowsPage == Table!TableShowsPage

\* A bin that is shown ends with its newest reading.
ViewCatchesUp == Bin!ViewCatchesUp

\* What is typed and not saved stays, whatever is loaded meanwhile.
TypingKept == Form!TypingKept

\* An entry ends as the last save of its field held it.
LastSaveWins == Form!LastSaveWins

\* What the bell's panel shows as read is read, and its badge is right.
BellIsHonest == Bell!BellIsHonest

\* An answered route serves the bins it should, without a detour that 2-opt
\* could take away.
RouteIsTight == Route!RouteIsTight
=============================================================================
