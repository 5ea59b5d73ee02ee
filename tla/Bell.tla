-------------------------------- MODULE Bell --------------------------------
(***************************************************************************)
(* The bell of components/TopBar.tsx and the badge of the Sidebar: polls   *)
(* of the unread count, the panel with the newest notifications and its    *)
(* "Mark all read", against notification.service.ts of the API.            *)
(***************************************************************************)
EXTENDS Naturals, FiniteSets

CONSTANTS
    MaxNotes,      \* notifications of the user, 1 the oldest
    PanelSize,     \* notifications the panel lists
    Asks,          \* calls of the two components in the air at a time, numbered
    MaxAsks, MaxMishaps

VARIABLES
    inbox,         \* of each notification: "none", "unread" or "read"
    badge,         \* unread, in the top bar and in the sidebar
    open, listed,  \* the panel, and its items: a set of notifications that are read
    listing,       \* the panel waits for its items
    asks,          \* the calls: what they ask, and what was found
    asked, mishaps,
    \* History:
    changes,       \* how often the inbox has changed
    basis,         \* after how many changes a badge's answer was found
    fresh          \* notifications created while a mark-all of this tab was out

bellVars == <<inbox, badge, open, listed, listing, asks, asked, mishaps, changes, basis, fresh>>

Notes == 1..MaxNotes
Bars == {"top", "side"}
Request(what) == [what |-> what, served |-> FALSE, count |-> 0, at |-> 0, notes |-> {}, read |-> {}]
NoAsk == Request("none")

Unread == {n \in Notes : inbox[n] = "unread"}

\* Both components ask for the count when they are first rendered.
BellInit ==
    /\ \E k \in 0..MaxNotes : inbox = [n \in Notes |-> IF n <= k THEN "unread" ELSE "none"]
    /\ badge = [b \in Bars |-> 0]
    /\ open = FALSE /\ listed = [notes |-> {}, read |-> {}] /\ listing = FALSE
    /\ asks = [a \in Asks |-> NoAsk]
    /\ asked = 0 /\ mishaps = 0
    /\ changes = 1 /\ basis = [b \in Bars |-> 0] /\ fresh = {}

Ask(a, what) ==
    /\ asked < MaxAsks /\ asked' = asked + 1
    /\ asks[a] = NoAsk /\ \A c \in Asks : asks[c] = NoAsk => a <= c
    /\ asks' = [asks EXCEPT ![a] = Request(what)]

Marking == \E a \in Asks : asks[a].what = "mark"

----
(* The API *)

Reply(a, count, when, notes, read) ==
    [what |-> asks[a].what, served |-> TRUE, count |-> count, at |-> when,
     notes |-> notes, read |-> read]

\* create and fanOut store a notification. Their live event has no listener
\* in these components.
Create ==
    /\ \E n \in Notes :
          /\ inbox[n] = "none" /\ \A k \in Notes : inbox[k] = "none" => n <= k
          /\ inbox' = [inbox EXCEPT ![n] = "unread"]
          /\ fresh' = IF Marking THEN fresh \cup {n} ELSE fresh
    /\ changes' = changes + 1
    /\ UNCHANGED <<badge, open, listed, listing, asks, asked, mishaps, basis>>

\* unreadCount.
ServeCount(a) ==
    /\ asks[a].what \in Bars /\ ~asks[a].served
    /\ asks' = [asks EXCEPT ![a] = Reply(a, Cardinality(Unread), changes, {}, {})]
    /\ UNCHANGED <<inbox, badge, open, listed, listing, asked, mishaps, changes, basis, fresh>>

\* list: the newest first, up to the limit.
Newest == {n \in Notes : /\ inbox[n] # "none"
                         /\ Cardinality({k \in Notes : k > n /\ inbox[k] # "none"}) < PanelSize}

ServeList(a) ==
    /\ asks[a].what = "list" /\ ~asks[a].served
    /\ asks' = [asks EXCEPT ![a] = Reply(a, 0, changes, Newest, Newest \ Unread)]
    /\ UNCHANGED <<inbox, badge, open, listed, listing, asked, mishaps, changes, basis, fresh>>

\* markRead without ids: one update of all that are unread.
AllRead == [n \in Notes |-> IF inbox[n] = "unread" THEN "read" ELSE inbox[n]]

ServeMark(a) ==
    /\ asks[a].what = "mark" /\ ~asks[a].served
    /\ inbox' = AllRead /\ changes' = changes + 1
    /\ asks' = [asks EXCEPT ![a] = Reply(a, 0, changes', {}, {})]
    /\ UNCHANGED <<badge, open, listed, listing, asked, mishaps, basis, fresh>>

----
(* The browser *)

\* refresh() of the top bar, tick() of the sidebar: at first and by a timer.
Poll(a, b) ==
    /\ Ask(a, b)
    /\ UNCHANGED <<inbox, badge, open, listed, listing, mishaps, changes, basis, fresh>>

\* The count is shown, in the order in which answers come.
CountArrives(a) ==
    /\ asks[a].what \in Bars /\ asks[a].served
    /\ badge' = [badge EXCEPT ![asks[a].what] = asks[a].count]
    /\ basis' = [basis EXCEPT ![asks[a].what] = asks[a].at]
    /\ asks' = [asks EXCEPT ![a] = NoAsk]
    /\ UNCHANGED <<inbox, open, listed, listing, asked, mishaps, changes, fresh>>

\* The bell is pressed: what the panel lists is asked for when it opens.
OpenPanel(a) ==
    /\ ~open /\ open' = TRUE /\ listing' = TRUE
    /\ Ask(a, "list")
    /\ UNCHANGED <<inbox, badge, listed, mishaps, changes, basis, fresh>>

\* The bell again, or a click outside.
ClosePanel ==
    /\ open /\ open' = FALSE
    /\ UNCHANGED <<inbox, badge, listed, listing, asks, asked, mishaps, changes, basis, fresh>>

ListArrives(a) ==
    /\ asks[a].what = "list" /\ asks[a].served
    /\ listed' = [notes |-> asks[a].notes, read |-> asks[a].read] /\ listing' = FALSE
    /\ asks' = [asks EXCEPT ![a] = NoAsk]
    /\ UNCHANGED <<inbox, badge, open, asked, mishaps, changes, basis, fresh>>

\* Variant for BellIsHonest: the items are shown read before the answer.
ShownWhenPressed == [listed EXCEPT !.read = listed.notes]

\* What the panel shows when the button is pressed: what it did.
ShownMeanwhile == listed

\* markAllRead.
MarkAll(a) ==
    /\ open
    /\ Ask(a, "mark")
    /\ listed' = ShownMeanwhile
    /\ UNCHANGED <<inbox, badge, open, listing, mishaps, changes, basis, fresh>>

\* After the answer: no badge, and every item that is listed by now is read.
MarkAnswered(a) ==
    /\ asks[a].what = "mark" /\ asks[a].served
    /\ badge' = [badge EXCEPT !["top"] = 0]
    /\ basis' = [basis EXCEPT !["top"] = asks[a].at]
    /\ listed' = [notes |-> listed.notes, read |-> listed.notes]
    /\ asks' = [asks EXCEPT ![a] = NoAsk]
    /\ UNCHANGED <<inbox, open, listing, asked, mishaps, changes, fresh>>

\* A call rejects, its work done or not: what is shown stays.
AskFails(a) ==
    /\ mishaps < MaxMishaps /\ mishaps' = mishaps + 1
    /\ asks[a] # NoAsk /\ asks' = [asks EXCEPT ![a] = NoAsk]
    /\ listing' = (listing /\ asks[a].what # "list")
    /\ UNCHANGED <<inbox, badge, open, listed, asked, changes, basis, fresh>>

BellNext ==
    \/ Create \/ ClosePanel
    \/ \E a \in Asks :
          \/ ServeCount(a) \/ ServeList(a) \/ ServeMark(a)
          \/ CountArrives(a) \/ ListArrives(a) \/ MarkAnswered(a) \/ AskFails(a)
          \/ OpenPanel(a) \/ MarkAll(a) \/ \E b \in Bars : Poll(a, b)

BellSpec == BellInit /\ [][BellNext]_bellVars

----
BellTypeOK ==
    /\ inbox \in [Notes -> {"none", "unread", "read"}]
    /\ badge \in [Bars -> 0..MaxNotes]
    /\ open \in BOOLEAN /\ listing \in BOOLEAN
    /\ listed.read \subseteq listed.notes /\ listed.notes \subseteq Notes

\* What the panel shows as read is read in the inbox, and a badge says how many
\* are unread, as long as the inbox has not changed since the answer it shows:
\* only a notification that came while a mark-all was in the air may be shown
\* read before it is (markAllRead in TopBar.tsx).
BellIsHonest ==
    /\ \A n \in listed.read : inbox[n] = "read" \/ n \in fresh
    /\ \A b \in Bars : basis[b] = changes => badge[b] = Cardinality(Unread)
----
(* The inductive invariant behind BellIsHonest. *)

AsksFit ==
    /\ asks \in [Asks -> [what : Bars \cup {"none", "list", "mark"}, served : BOOLEAN,
                          count : 0..MaxNotes, at : Nat, notes : SUBSET Notes, read : SUBSET Notes]]
    /\ listed \in [notes : SUBSET Notes, read : SUBSET Notes]
    /\ changes \in Nat /\ basis \in [Bars -> Nat] /\ fresh \subseteq Notes

\* What is listed, or about to be, exists; and is read where it is said to be.
ListsFit ==
    /\ \A n \in listed.notes : inbox[n] # "none"
    /\ \A a \in Asks : \A n \in asks[a].notes : inbox[n] # "none"
    /\ \A a \in Asks : asks[a].read \subseteq asks[a].notes
    /\ \A a \in Asks : \A n \in asks[a].read : inbox[n] = "read"

\* What is unread after a mark-all came while it was in the air.
UnreadIsFresh ==
    (\E a \in Asks : asks[a].what = "mark" /\ asks[a].served) => Unread \subseteq fresh

\* Answers that no change has come after are right.
AnswersRight ==
    /\ \A b \in Bars : basis[b] <= changes
    /\ \A a \in Asks :
          /\ asks[a].at <= changes
          /\ asks[a].served /\ asks[a].at = changes =>
                /\ asks[a].what \in Bars => asks[a].count = Cardinality(Unread)
                /\ asks[a].what = "mark" => Unread = {}

BellInv == BellTypeOK /\ AsksFit /\ ListsFit /\ UnreadIsFresh /\ AnswersRight /\ BellIsHonest
=============================================================================
