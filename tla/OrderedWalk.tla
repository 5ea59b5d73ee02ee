---------------------------- MODULE OrderedWalk ----------------------------
(***************************************************************************)
(* What reading an archive page by page promises: a walk down an order,   *)
(* that shows no item twice and passes over none that it owes.  Nothing is *)
(* said of cursors, requests or queries.                                   *)
(***************************************************************************)
CONSTANTS
    Items,
    Order     \* pairs <<x, y>>: x is shown before y

VARIABLES
    shown,    \* items shown in this walk
    left,     \* items that it may still come to
    owed      \* items that it must not pass over

walkVars == <<shown, left, owed>>

Init == shown = {} /\ left = Items /\ owed = {}

\* A walk begins, and owes some of the items.
Begin ==
    /\ shown' = {} /\ left' = Items
    /\ owed' \in SUBSET Items

\* The walk shows a part of what is left and goes on below it. What it leaves
\* out for ever is owed to nobody.
Advance ==
    \E page \in SUBSET left :
        /\ shown' = shown \cup page
        /\ left' \in SUBSET (left \ page)
        /\ \A x \in page, y \in left' : <<x, y>> \in Order
        /\ owed \subseteq page \cup left'
        /\ owed' = owed \ page

\* An item is owed no longer: it has gone, or is out of the reader's reach.
Release == owed' \subseteq owed /\ UNCHANGED <<shown, left>>

Next == Release \/ Begin \/ Advance

Spec == Init /\ [][Next]_walkVars
=============================================================================
