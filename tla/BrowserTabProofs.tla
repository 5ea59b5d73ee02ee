-------------------------- MODULE BrowserTabProofs --------------------------
(***************************************************************************)
(* Proofs of the properties of a browser tab and of the route planner that *)
(* it asks, for any number of rows, readings, keys, notifications, bins,   *)
(* requests in the air, inputs and faults.                                 *)
(* Each page has an invariant of its own, kept by its steps; a step of     *)
(* another page leaves its variables alone.                                *)
(***************************************************************************)
EXTENDS BrowserTab, FiniteSetTheorems, SequenceTheorems, WellFoundedInduction, TLAPS

(***************************************************************************)
(* Sorted sequences.                                                       *)
(***************************************************************************)

\* A family of finite sets has a member that is minimal.
Finitary(F, S) == F # {} /\ \A U \in F : U \subseteq S /\ IsFiniteSet(U)
Minimal(U, F) == U \in F /\ \A V \in F : ~ (V \subseteq U /\ V # U)

LEMMA SmallestSet ==
    ASSUME NEW S, NEW F, Finitary(F, S)
    PROVE  \E U : Minimal(U, F)
  <1>1. F \subseteq FiniteSubsetsOf(S) /\ F # {}
    BY DEF FiniteSubsetsOf, Finitary
  <1>2. \E U \in F : \A V \in F : ~ (<<V, U>> \in StrictSubsetOrdering(S))
    BY <1>1, FS_StrictSubsetOrderingWellFounded, WFMin
  <1>3. QED
    BY <1>1, <1>2 DEF StrictSubsetOrdering, FiniteSubsetsOf, Minimal

\* A set of numbers has a least one.
LEMMA NatMin ==
    ASSUME NEW T \in SUBSET Nat, T # {}
    PROVE  \E n \in T : \A m \in T : n <= m
  <1> DEFINE F == {0..n : n \in T}
  <1>1. ASSUME NEW n \in T
        PROVE  0..n \subseteq Nat /\ IsFiniteSet(0..n)
    BY FS_Interval
  <1>2. Finitary(F, Nat)
    BY <1>1 DEF Finitary
  <1>3. PICK U : Minimal(U, F)
    BY <1>2, SmallestSet
  <1>4. PICK n \in T : U = 0..n
    BY <1>3 DEF Minimal
  <1>5. ASSUME NEW m \in T, m < n
        PROVE  FALSE
    <2>1. 0..m \in F /\ 0..m \subseteq 0..n
      BY <1>5
    <2>2. n \in 0..n /\ n \notin 0..m
      BY <1>5
    <2>3. QED
      BY <1>3, <1>4, <2>1, <2>2 DEF Minimal
  <1>6. QED
    BY <1>5

\* In a finite set of numbers one has i members that are no less.
LEMMA Ranks ==
    ASSUME NEW S \in SUBSET Nat, IsFiniteSet(S), NEW i \in 1..Cardinality(S)
    PROVE  \E r \in S : Cardinality({t \in S : r <= t}) = i
  <1> DEFINE Lacks(U, j) == \A r \in U : Cardinality({t \in U : r <= t}) # j
             F == {U \in SUBSET S : \E j \in 1..Cardinality(U) : Lacks(U, j)}
  <1> SUFFICES ASSUME S \in F
               PROVE  FALSE
    OBVIOUS
  <1>1. Finitary(F, S)
    BY FS_Subset DEF Finitary
  <1>2. PICK U : Minimal(U, F)
    <2> HIDE DEF F
    <2> QED BY <1>1, SmallestSet
  <1>3. IsFiniteSet(U) /\ Cardinality(U) \in Nat /\ U \in SUBSET Nat /\ U \subseteq S
    BY <1>1, <1>2, FS_CardinalityType DEF Finitary, Minimal
  <1>4. PICK j \in 1..Cardinality(U) : Lacks(U, j)
    BY <1>2 DEF Minimal
  <1>5. U # {}
    BY <1>3, <1>4, FS_EmptySet
  <1>6. PICK m \in U : \A k \in U : m <= k
    BY <1>3, <1>5, NatMin
  <1> DEFINE V == U \ {m}
  <1>7. V \notin F /\ V \in SUBSET S
    BY <1>2, <1>3, <1>6 DEF Minimal
  <1>8. Cardinality(V) = Cardinality(U) - 1
    BY <1>3, <1>6, FS_RemoveElement
  <1>9. j # Cardinality(U)
    <2>1. {t \in U : m <= t} = U
      BY <1>6
    <2>2. QED
      BY <1>4, <1>6, <2>1
  <1>10. j \in 1..Cardinality(V)
    BY <1>3, <1>8, <1>9
  <1>11. PICK r \in V : Cardinality({t \in V : r <= t}) = j
    BY <1>7, <1>10
  <1>12. {t \in V : r <= t} = {t \in U : r <= t}
    BY <1>3, <1>6
  <1>13. QED
    BY <1>4, <1>11, <1>12

\* The pages come in with INSTANCE: their cardinality is that of FiniteSets.
LEMMA SameCardinality ==
    \A S : List!Cardinality(S) = Cardinality(S) /\ Table!Cardinality(S) = Cardinality(S)
  BY DEF List!Cardinality, Table!Cardinality, Cardinality, List!IsFiniteSet, Table!IsFiniteSet, IsFiniteSet

\* The rows of a page, newest first, are rows of the set that is sorted.
LEMMA DescendingFits ==
    ASSUME NEW S \in SUBSET Nat, IsFiniteSet(S)
    PROVE  /\ Table!Descending(S) \in [1..Cardinality(S) -> S]
           /\ Cardinality(S) \in Nat /\ Table!Descending(S) \in Seq(S)
           /\ Len(Table!Descending(S)) = Cardinality(S)
  <1>1. Cardinality(S) \in Nat
    BY FS_CardinalityType
  <1>2. ASSUME NEW i \in 1..Table!Cardinality(S)
        PROVE  (CHOOSE r \in S : Table!Cardinality({t \in S : r <= t}) = i) \in S
    <2>1. \E r \in S : Cardinality({t \in S : r <= t}) = i
      BY Ranks, SameCardinality
    <2>2. \E r \in S : Table!Cardinality({t \in S : r <= t}) = i
      BY <2>1, SameCardinality
    <2>3. QED
      BY <2>2
  <1>3. Table!Descending(S) \in [1..Table!Cardinality(S) -> S]
    BY <1>2 DEF Table!Descending
  <1>4. Table!Descending(S) \in [1..Cardinality(S) -> S]
    BY <1>3, SameCardinality
  <1>5. QED
    BY <1>1, <1>4

(***************************************************************************)
(* The live table.                                                         *)
(***************************************************************************)

\* A sequence over a set is one over any set around it.
LEMMA SeqWider ==
    ASSUME NEW S, NEW T, S \subseteq T, NEW s \in Seq(S)
    PROVE  s \in Seq(T)
  OBVIOUS

\* What a sequence holds is of its set.
LEMMA SeqMember ==
    ASSUME NEW S, NEW s \in Seq(S), NEW i \in 1..Len(s)
    PROVE  s[i] \in S
  OBVIOUS

\* A row that is spliced in is the first, and the others are those of before.
LEMMA Spliced ==
    ASSUME NEW S, NEW s \in Seq(S), NEW x \in S
    PROVE  /\ <<x>> \o s \in Seq(S)
           /\ \A i \in DOMAIN (<<x>> \o s) :
                 (<<x>> \o s)[i] = x \/ \E j \in DOMAIN s : (<<x>> \o s)[i] = s[j]
  <1>1. <<x>> \o s \in Seq(S) /\ DOMAIN (<<x>> \o s) = 1..(Len(s) + 1)
    OBVIOUS
  <1>2. (<<x>> \o s)[1] = x
    OBVIOUS
  <1>3. ASSUME NEW i \in 2..(Len(s) + 1)
        PROVE  i - 1 \in DOMAIN s /\ (<<x>> \o s)[i] = s[i - 1]
    OBVIOUS
  <1>4. QED
    BY <1>1, <1>2, <1>3

\* A page is pushed on the stack of cursors, above that of the page shown.
LEMMA Pushed ==
    ASSUME NEW S, NEW s \in Seq(S), NEW n \in 1..Len(s), NEW x \in S
    PROVE  /\ Append(SubSeq(s, 1, n), x) \in Seq(S)
           /\ Len(Append(SubSeq(s, 1, n), x)) = n + 1
           /\ \A i \in 1..n : Append(SubSeq(s, 1, n), x)[i] = s[i]
           /\ Append(SubSeq(s, 1, n), x)[n + 1] = x
  <1>1. SubSeq(s, 1, n) \in Seq(S) /\ Len(SubSeq(s, 1, n)) = n
    OBVIOUS
  <1>2. \A i \in 1..n : SubSeq(s, 1, n)[i] = s[i]
    OBVIOUS
  <1> DEFINE t == SubSeq(s, 1, n)
  <1> HIDE DEF t
  <1>3. /\ Append(t, x) \in Seq(S) /\ Len(Append(t, x)) = n + 1
        /\ \A i \in 1..n : Append(t, x)[i] = t[i]
        /\ Append(t, x)[n + 1] = x
    BY <1>1 DEF t
  <1>4. QED
    BY <1>2, <1>3 DEF t

\* "No cursor" lies beyond every reading.
LEMMA NoneFits == Table!None \in Nat /\ Table!None \in 1..Table!None /\ MaxReadings < Table!None
  BY TableAssumption DEF Table!None

\* No filter is a choice, and selects every reading.
LEMMA NoFilterFits ==
    Table!NoFilter \in Table!Choices /\ \A r \in 1..MaxReadings : r \in Table!NoFilter
  BY TableAssumption DEF Table!NoFilter, Table!Choices

\* The first rows of a page are rows of it, in their places.
LEMMA TakeFits ==
    ASSUME NEW S, NEW s \in Seq(S), NEW n \in Nat
    PROVE  /\ Table!Take(s, n) \in Seq(S)
           /\ \A i \in DOMAIN Table!Take(s, n) : i \in DOMAIN s /\ Table!Take(s, n)[i] = s[i]
  BY DEF Table!Take

\* So a page that is cut still fits its filter and its cursor.
LEMMA TakeRowsFit ==
    ASSUME NEW S, NEW s \in Seq(S), NEW n \in Nat, NEW f, NEW cursor,
           Table!RowsFit(s, f, cursor)
    PROVE  Table!RowsFit(Table!Take(s, n), f, cursor)
  BY TakeFits DEF Table!RowsFit

\* The rows that GET /sensor-readings finds, and where its page ends.
LEMMA PageBelowFits ==
    ASSUME stored \in 0..MaxReadings, NEW f \in Table!Choices, NEW cursor \in 1..Table!None
    PROVE  /\ Table!PageBelow(f, cursor) \in Seq(1..MaxReadings)
           /\ Table!RowsFit(Table!PageBelow(f, cursor), f, cursor)
  <1> DEFINE S == {r \in 1..stored : Table!Selects(f, r) /\ r < cursor}
  <1>1. S \in SUBSET Nat /\ S \subseteq 1..stored /\ stored \in Nat
    BY TableAssumption
  <1>2. IsFiniteSet(S)
    BY <1>1, FS_Interval, FS_Subset
  <1>3. \A r \in S : r \in 1..MaxReadings /\ Table!Selects(f, r) /\ r < cursor
    BY TableAssumption
  <1>4. Table!PageBelow(f, cursor) = Table!Descending(S)
    BY DEF Table!PageBelow
  <1> HIDE DEF S
  <1>5. Table!Descending(S) \in Seq(S) /\ Table!Descending(S) \in [1..Cardinality(S) -> S]
    BY <1>1, <1>2, DescendingFits
  <1>6. \A i \in DOMAIN Table!Descending(S) : Table!Descending(S)[i] \in S
    BY <1>5
  <1>7. Table!Descending(S) \in Seq(1..MaxReadings)
    <2>1. S \subseteq 1..MaxReadings
      BY <1>3
    <2>2. QED
      BY <1>5, <2>1, SeqWider
  <1>8. QED
    BY <1>3, <1>4, <1>6, <1>7 DEF Table!RowsFit

LoadRecord ==
    [n : 0..count, filter : Table!Choices, cursor : 1..Table!None, served : BOOLEAN,
     items : Seq(1..MaxReadings), next : 1..Table!None]

\* The table as it is mounted, its first load sent.
LEMMA InitTableInv == Table!TableInit => Table!TableInv
  <1> SUFFICES ASSUME Table!TableInit
               PROVE  Table!TableInv
    OBVIOUS
  <1> USE TableAssumption DEF Table!None
  <1>1. /\ stored = 0 /\ events = {} /\ filter = Table!NoFilter /\ pageIdx = 0 /\ cursors = <<Table!None>>
        /\ next = Table!None /\ items = <<>> /\ count = 1 /\ latest = 0 /\ error = FALSE
        /\ shown = [n |-> 0, filter |-> Table!NoFilter, cursor |-> Table!None]
    BY DEF Table!TableInit
  <1>2. /\ Table!Request(1, Table!NoFilter, Table!None) \in LoadRecord
        /\ Table!Request(0, Table!NoFilter, Table!None) \in LoadRecord
    BY <1>1, NoFilterFits DEF Table!Request, LoadRecord
  <1>3. loads \in [Loads -> LoadRecord]
    BY <1>2 DEF Table!TableInit, Table!NoLoad
  <1>4. PICK l \in Loads : \A k \in Loads : l <= k
    BY NatMin
  <1>5. \A k \in Loads : \/ loads[k] = Table!Request(1, Table!NoFilter, Table!None)
                        \/ loads[k] = Table!Request(0, Table!NoFilter, Table!None)
    BY DEF Table!TableInit, Table!NoLoad
  <1>6. loads[l] = Table!Request(1, Table!NoFilter, Table!None)
    BY <1>4 DEF Table!TableInit
  <1>7. shown \in [n : 0..latest, filter : Table!Choices, cursor : 1..Table!None]
    BY <1>1, NoFilterFits
  <1>8. cursors \in Seq(1..Table!None) /\ Len(cursors) = 1 /\ cursors[1] = Table!None
    BY <1>1
  <1>9. Table!TableFits
    <2>1. stored \in 0..MaxReadings /\ events \subseteq 1..stored
      BY <1>1
    <2>2. filter \in Table!Choices /\ error \in BOOLEAN
      BY <1>1, NoFilterFits
    <2>3. pageIdx \in Nat /\ pageIdx < Len(cursors) /\ count \in Nat \ {0} /\ latest \in 0..count
      BY <1>1, <1>8
    <2>4. next \in 1..Table!None /\ items \in Seq(1..MaxReadings)
      BY <1>1
    <2>5. QED
      BY <1>3, <1>7, <1>8, <2>1, <2>2, <2>3, <2>4 DEF Table!TableFits, LoadRecord
  <1>10. Table!AnswersFit
    BY <1>1, <1>5 DEF Table!AnswersFit, Table!Request
  <1>11. Table!LastLoad
    <2>1. Table!Cursor = Table!None
      BY <1>1, <1>8 DEF Table!Cursor
    <2>2. loads[l].n = count /\ shown.n # count
      BY <1>1, <1>6 DEF Table!Request
    <2>3. \A k \in Loads : loads[k].filter = Table!NoFilter /\ loads[k].cursor = Table!None
      BY <1>5 DEF Table!Request
    <2> HIDE DEF Table!None
    <2>4. QED
      BY <1>1, <2>1, <2>2, <2>3 DEF Table!LastLoad
  <1>12. Table!CursorsDescend
    BY <1>8 DEF Table!CursorsDescend
  <1>13. QED
    BY <1>9, <1>10, <1>11, <1>12 DEF Table!TableInv

\* A step of the server, or of an event that is not shown.
LEMMA TableUnmoved ==
    ASSUME Table!TableInv, stored' \in 0..MaxReadings, events' \subseteq 1..stored',
           UNCHANGED <<filter, pageIdx, cursors, next, items, shown, loads, error, count, latest, stray>>
    PROVE  Table!TableInv'
  <1>1. Table!TableFits /\ Table!AnswersFit /\ Table!LastLoad /\ Table!CursorsDescend
    BY DEF Table!TableInv
  <1>2. Table!TableFits'
    BY <1>1 DEF Table!TableFits
  <1>3. Table!AnswersFit' /\ Table!CursorsDescend'
    BY <1>1 DEF Table!AnswersFit, Table!CursorsDescend, Table!RowsFit, Table!Selects
  <1>4. Table!LastLoad'
    BY <1>1 DEF Table!LastLoad, Table!RowsFit, Table!Selects, Table!Cursor
  <1>5. QED
    BY <1>2, <1>3, <1>4 DEF Table!TableInv

\* A load is sent for the filter and the page that are chosen by then.
LEMMA LoadSent ==
    ASSUME Table!TableInv, NEW f \in Table!Choices, NEW c \in 1..Table!None, Table!Load(f, c),
           filter' = f, Table!Cursor' = c,
           pageIdx' \in Nat, cursors' \in Seq(1..Table!None), pageIdx' < Len(cursors'),
           cursors'[1] = Table!None, next' \in 1..Table!None,
           next' # Table!None => next' = next, Table!CursorsDescend'
    PROVE  Table!TableInv'
  <1>1. Table!TableFits /\ Table!AnswersFit /\ Table!LastLoad
    BY DEF Table!TableInv
  <1>2. PICK l \in Loads : loads' = [loads EXCEPT ![l] = Table!Request(count', f, c)]
    BY DEF Table!Load
  <1>3. /\ count' = count + 1 /\ error' = FALSE /\ count \in Nat \ {0} /\ latest \in 0..count
        /\ UNCHANGED <<stored, events, items, shown, latest>>
    BY <1>1 DEF Table!Load, Table!serverVars, Table!TableFits
  <1>4. /\ Table!Request(count', f, c) \in LoadRecord'
        /\ Table!Request(count', f, c).n = count' /\ ~Table!Request(count', f, c).served
        /\ Table!Request(count', f, c).filter = f /\ Table!Request(count', f, c).cursor = c
    BY <1>3, TableAssumption DEF Table!Request, LoadRecord, Table!None
  <1>5. loads \in [Loads -> LoadRecord] /\ loads \in [Loads -> LoadRecord']
    <2>1. loads \in [Loads -> LoadRecord]
      BY <1>1 DEF Table!TableFits, LoadRecord
    <2>2. 0..count \subseteq 0..count'
      BY <1>3
    <2>3. LoadRecord \subseteq LoadRecord'
      BY <2>2 DEF LoadRecord
    <2>4. QED
      BY <2>1, <2>3
  <1>6. /\ loads' \in [Loads -> LoadRecord'] /\ loads'[l] = Table!Request(count', f, c)
        /\ \A k \in Loads : k # l => loads'[k] = loads[k]
    BY <1>2, <1>4, <1>5
  <1>7. Table!TableFits'
    <2>1. /\ stored' \in 0..MaxReadings /\ events' \subseteq 1..stored' /\ items' \in Seq(1..MaxReadings)
          /\ filter' \in Table!Choices /\ error' \in BOOLEAN
      BY <1>1, <1>3 DEF Table!TableFits
    <2>2. count' \in Nat \ {0} /\ latest' \in 0..count'
      BY <1>3
    <2>3. shown' \in [n : 0..latest', filter : Table!Choices, cursor : 1..Table!None]
      BY <1>1, <1>3 DEF Table!TableFits
    <2>4. QED
      BY <1>6, <2>1, <2>2, <2>3 DEF Table!TableFits, LoadRecord
  <1>8. Table!AnswersFit'
    BY <1>1, <1>3, <1>4, <1>6 DEF Table!AnswersFit, Table!RowsFit, Table!Selects
  <1>9. ASSUME NEW k \in Loads, k # l
        PROVE  loads'[k].n # count'
    <2>1. loads[k] \in LoadRecord
      BY <1>5
    <2>2. loads[k].n \in 0..count
      BY <2>1 DEF LoadRecord
    <2>3. loads'[k].n = loads[k].n
      BY <1>6, <1>9
    <2>4. QED
      BY <1>3, <2>2, <2>3
  <1>10. shown'.n # count'
    BY <1>1, <1>3 DEF Table!TableFits
  <1>11. Table!LastLoad'
    BY <1>4, <1>6, <1>9, <1>10 DEF Table!LastLoad
  <1>12. QED
    BY <1>7, <1>8, <1>11 DEF Table!TableInv

\* Every step of the live table keeps its invariant.
LEMMA NextTableInv == Table!TableInv /\ Table!TableNext => Table!TableInv'
  <1> SUFFICES ASSUME Table!TableInv, Table!TableNext
               PROVE  Table!TableInv'
    OBVIOUS
  <1>1. Table!TableFits /\ Table!AnswersFit /\ Table!LastLoad /\ Table!CursorsDescend
    BY DEF Table!TableInv
  <1>2. /\ stored \in 0..MaxReadings /\ events \subseteq 1..stored /\ MaxReadings \in Nat
        /\ filter \in Table!Choices /\ pageIdx \in Nat /\ pageIdx < Len(cursors)
        /\ cursors \in Seq(1..Table!None) /\ cursors[1] = Table!None /\ next \in 1..Table!None
        /\ items \in Seq(1..MaxReadings) /\ count \in Nat \ {0} /\ latest \in 0..count
        /\ error \in BOOLEAN /\ loads \in [Loads -> LoadRecord] /\ PageSize \in Nat \ {0}
        /\ shown \in [n : 0..latest, filter : Table!Choices, cursor : 1..Table!None]
    BY <1>1, TableAssumption DEF Table!TableFits, LoadRecord
  <1>3. Table!None \in Nat /\ Table!None \in 1..Table!None /\ MaxReadings < Table!None
    BY NoneFits
  <1>4. CASE Table!Store
    BY <1>2, <1>4, TableUnmoved DEF Table!Store, Table!viewVars
  <1>5. CASE Table!ChangeFilter
    <2>1. /\ filter' \in Table!Choices /\ cursors' = <<Table!None>> /\ pageIdx' = 0 /\ next' = Table!None
          /\ Table!Load(filter', Table!None)
      BY <1>5 DEF Table!ChangeFilter, Table!ResetView
    <2>2. /\ cursors' \in Seq(1..Table!None) /\ Len(cursors') = 1 /\ cursors'[1] = Table!None
          /\ Table!Cursor' = Table!None
      BY <1>3, <2>1 DEF Table!Cursor
    <2>3. Table!CursorsDescend'
      BY <2>2 DEF Table!CursorsDescend
    <2>4. PICK f \in Table!Choices : f = filter'
      BY <2>1
    <2>5. pageIdx' \in Nat /\ pageIdx' < Len(cursors')
      BY <2>1, <2>2
    <2>6. QED
      BY <1>3, <2>1, <2>2, <2>3, <2>4, <2>5, LoadSent
  <1>6. CASE Table!Poll
    <2>1. /\ Table!Load(Table!NoFilter, Table!None) /\ filter = Table!NoFilter /\ pageIdx = 0
          /\ UNCHANGED <<filter, pageIdx, cursors, next, stray>>
      BY <1>6 DEF Table!Poll, Table!LivePage, Table!viewVars
    <2>2. filter' = Table!NoFilter
      BY <1>2, <2>1
    <2>3. Table!Cursor' = Table!None /\ Table!CursorsDescend'
      BY <1>1, <1>2, <2>1 DEF Table!Cursor, Table!CursorsDescend
    <2>4. QED
      BY <1>2, <1>3, <2>1, <2>2, <2>3, LoadSent
  <1>7. CASE Table!NextPage
    <2>1. /\ next # Table!None /\ Table!Load(filter, next)
          /\ cursors' = Append(SubSeq(cursors, 1, pageIdx + 1), next) /\ pageIdx' = pageIdx + 1
          /\ stray' = (stray \/ shown.filter # filter \/ shown.cursor # Table!Cursor)
          /\ UNCHANGED <<filter, next>>
      BY <1>7 DEF Table!NextPage
    <2>2. /\ cursors' \in Seq(1..Table!None) /\ Len(cursors') = pageIdx + 2
          /\ \A i \in 1..(pageIdx + 1) : cursors'[i] = cursors[i]
          /\ cursors'[pageIdx + 2] = next
      <3>1. PICK n \in 1..Len(cursors) : n = pageIdx + 1 /\ n + 1 = pageIdx + 2
        BY <1>2
      <3>2. cursors' = Append(SubSeq(cursors, 1, n), next)
        BY <2>1, <3>1
      <3>3. /\ cursors' \in Seq(1..Table!None) /\ Len(cursors') = n + 1
            /\ \A i \in 1..n : cursors'[i] = cursors[i]
            /\ cursors'[n + 1] = next
        <4> DEFINE S == 1..Table!None
        <4>1. cursors \in Seq(S) /\ next \in S
          BY <1>2
        <4> HIDE DEF S
        <4>2. /\ Append(SubSeq(cursors, 1, n), next) \in Seq(S)
              /\ Len(Append(SubSeq(cursors, 1, n), next)) = n + 1
              /\ \A i \in 1..n : Append(SubSeq(cursors, 1, n), next)[i] = cursors[i]
              /\ Append(SubSeq(cursors, 1, n), next)[n + 1] = next
          BY <4>1, Pushed
        <4>3. QED
          BY <3>2, <4>2 DEF S
      <3>4. QED
        BY <3>1, <3>3
    <2>3. Table!Cursor' = next /\ cursors'[1] = Table!None
      BY <1>2, <2>1, <2>2 DEF Table!Cursor
    <2>4. ASSUME ~stray', NEW i \in 1..(Len(cursors') - 1)
          PROVE  cursors'[i + 1] < cursors'[i]
      <3>1. CASE i = pageIdx + 1
        <4>1. next < shown.cursor /\ shown.cursor = cursors[pageIdx + 1]
          BY <1>1, <2>1, <2>4 DEF Table!AnswersFit, Table!Cursor
        <4>2. cursors'[i + 1] = next /\ cursors'[i] = cursors[pageIdx + 1]
          BY <1>2, <2>2, <3>1
        <4>3. QED
          BY <4>1, <4>2
      <3>2. CASE i # pageIdx + 1
        <4>1. i \in 1..(Len(cursors) - 1) /\ i \in 1..(pageIdx + 1) /\ i + 1 \in 1..(pageIdx + 1)
          BY <1>2, <2>2, <2>4, <3>2
        <4>2. cursors[i + 1] < cursors[i]
          BY <1>1, <2>1, <2>4, <4>1 DEF Table!CursorsDescend
        <4>3. QED
          BY <2>2, <4>1, <4>2
      <3>3. QED
        BY <3>1, <3>2
    <2>5. Table!CursorsDescend'
      BY <2>4 DEF Table!CursorsDescend
    <2>6. QED
      BY <1>2, <2>1, <2>2, <2>3, <2>5, LoadSent
  <1>8. CASE Table!PrevPage
    <2>1. /\ pageIdx > 0 /\ pageIdx' = pageIdx - 1 /\ Table!Load(filter, cursors[pageIdx])
          /\ UNCHANGED <<filter, cursors, next, stray>>
      BY <1>8 DEF Table!PrevPage
    <2>2. cursors[pageIdx] \in 1..Table!None /\ Table!Cursor' = cursors[pageIdx]
      <3>1. pageIdx \in 1..Len(cursors) /\ pageIdx' + 1 = pageIdx /\ pageIdx' \in Nat
        BY <1>2, <2>1
      <3>2. QED
        BY <1>2, <2>1, <3>1, SeqMember DEF Table!Cursor
    <2>3. Table!CursorsDescend'
      BY <1>1, <2>1 DEF Table!CursorsDescend
    <2>4. QED
      BY <1>2, <2>1, <2>2, <2>3, LoadSent
  <1>9. ASSUME NEW l \in Loads, Table!Serve(l)
        PROVE  Table!TableInv'
    <2> DEFINE rows == Table!PageBelow(loads[l].filter, loads[l].cursor)
               answer == [n |-> loads[l].n, filter |-> loads[l].filter, cursor |-> loads[l].cursor,
                          served |-> TRUE, items |-> Table!Take(rows, PageSize),
                          next |-> IF Len(rows) > PageSize THEN rows[PageSize] ELSE Table!None]
    <2>1. /\ loads' = [loads EXCEPT ![l] = answer]
          /\ UNCHANGED <<stored, events, filter, pageIdx, cursors, next, items, shown, error, count,
                         latest, stray>>
      BY <1>9 DEF Table!Serve, Table!serverVars, Table!viewVars
    <2>2. /\ loads[l].n \in 0..count /\ loads[l].filter \in Table!Choices
          /\ loads[l].cursor \in 1..Table!None
      BY <1>2 DEF LoadRecord
    <2>3. rows \in Seq(1..MaxReadings) /\ Table!RowsFit(rows, loads[l].filter, loads[l].cursor)
      BY <1>2, <2>2, PageBelowFits
    <2> HIDE DEF rows
    <2>4. /\ Table!Take(rows, PageSize) \in Seq(1..MaxReadings)
          /\ Table!RowsFit(Table!Take(rows, PageSize), loads[l].filter, loads[l].cursor)
      BY <1>2, <2>3, TakeFits, TakeRowsFit
    <2>5. /\ answer.next \in 1..Table!None
          /\ answer.next # Table!None => answer.next < loads[l].cursor
      <3>1. CASE Len(rows) > PageSize
        <4>1. PageSize \in 1..Len(rows)
          BY <2>3, <3>1, TableAssumption
        <4>2. rows[PageSize] \in 1..MaxReadings /\ PageSize \in DOMAIN rows
          <5> DEFINE S == 1..MaxReadings
          <5>1. rows \in Seq(S)
            BY <2>3
          <5> HIDE DEF S
          <5>2. rows[PageSize] \in S /\ PageSize \in DOMAIN rows
            BY <4>1, <5>1
          <5>3. QED
            BY <5>2 DEF S
        <4>3. rows[PageSize] < loads[l].cursor
          BY <2>3, <4>2 DEF Table!RowsFit
        <4>4. QED
          BY <3>1, <4>2, <4>3, NoneFits, TableAssumption
      <3>2. CASE ~(Len(rows) > PageSize)
        BY <3>2, NoneFits
      <3>3. QED
        BY <3>1, <3>2
    <2>6. /\ answer \in LoadRecord /\ answer.n = loads[l].n /\ answer.filter = loads[l].filter
          /\ answer.cursor = loads[l].cursor /\ answer.items = Table!Take(rows, PageSize)
      BY <2>2, <2>4, <2>5 DEF LoadRecord
    <2> HIDE DEF answer
    <2>7. /\ loads' \in [Loads -> LoadRecord] /\ loads'[l] = answer
          /\ \A k \in Loads : k # l => loads'[k] = loads[k]
      BY <1>2, <2>1, <2>6
    <2>8. Table!TableFits'
      BY <1>1, <2>1, <2>7 DEF Table!TableFits, LoadRecord
    <2>9. Table!AnswersFit'
      BY <1>1, <2>1, <2>4, <2>5, <2>6, <2>7 DEF Table!AnswersFit, Table!RowsFit, Table!Selects
    <2>10. Table!LastLoad'
      BY <1>1, <2>1, <2>6, <2>7 DEF Table!LastLoad, Table!RowsFit, Table!Selects, Table!Cursor
    <2>11. Table!CursorsDescend'
      BY <1>1, <2>1 DEF Table!CursorsDescend
    <2>12. QED
      BY <2>8, <2>9, <2>10, <2>11 DEF Table!TableInv
  <1>10. ASSUME NEW l \in Loads
         PROVE  /\ [loads EXCEPT ![l] = Table!NoLoad] \in [Loads -> LoadRecord]
                /\ [loads EXCEPT ![l] = Table!NoLoad][l].n = 0
                /\ ~[loads EXCEPT ![l] = Table!NoLoad][l].served
                /\ \A k \in Loads : k # l => [loads EXCEPT ![l] = Table!NoLoad][k] = loads[k]
    <2>1. Table!NoLoad \in LoadRecord /\ Table!NoLoad.n = 0 /\ ~Table!NoLoad.served
      BY <1>2, <1>3, NoFilterFits DEF Table!NoLoad, Table!Request, LoadRecord
    <2>2. QED
      BY <1>2, <2>1
  <1>11. ASSUME NEW l \in Loads, Table!Arrive(l)
         PROVE  Table!TableInv'
    <2>1. /\ loads[l].served /\ loads' = [loads EXCEPT ![l] = Table!NoLoad]
          /\ items' = loads[l].items /\ next' = loads[l].next
          /\ shown' = [n |-> loads[l].n, filter |-> loads[l].filter, cursor |-> loads[l].cursor]
          /\ latest' = IF loads[l].n > latest THEN loads[l].n ELSE latest
          /\ UNCHANGED <<stored, events, filter, pageIdx, cursors, error, count, stray>>
      BY <1>11 DEF Table!Arrive, Table!serverVars, Table!viewVars
    <2>2. /\ loads' \in [Loads -> LoadRecord] /\ loads'[l].n = 0 /\ ~loads'[l].served
          /\ \A k \in Loads : k # l => loads'[k] = loads[k]
      BY <1>10, <2>1
    <2>3. loads[l] \in LoadRecord
      BY <1>2
    <2>4. /\ loads[l].n \in 0..count /\ loads[l].n <= latest' /\ latest <= latest' /\ latest' \in 0..count
          /\ loads[l].n = count => latest' = count
      BY <1>2, <2>1, <2>3 DEF LoadRecord
    <2>5. shown' \in [n : 0..latest', filter : Table!Choices, cursor : 1..Table!None]
      BY <2>1, <2>3, <2>4 DEF LoadRecord
    <2>6. items' \in Seq(1..MaxReadings) /\ next' \in 1..Table!None
      BY <2>1, <2>3 DEF LoadRecord
    <2>7. Table!TableFits'
      BY <1>1, <2>1, <2>2, <2>4, <2>5, <2>6 DEF Table!TableFits, LoadRecord
    <2>8. Table!AnswersFit'
      BY <1>1, <2>1, <2>2 DEF Table!AnswersFit, Table!RowsFit, Table!Selects
    <2>9. Table!LastLoad'
      <3>1. error' \/ latest' = count' \/ \E k \in Loads : loads'[k].n = count'
        BY <1>1, <1>2, <2>1, <2>2, <2>4 DEF Table!LastLoad
      <3>2. \A k \in Loads : loads'[k].n = count'
                 => loads'[k].filter = filter' /\ loads'[k].cursor = Table!Cursor'
        BY <1>1, <1>2, <2>1, <2>2 DEF Table!LastLoad, Table!Cursor
      <3>3. ASSUME shown'.n = count'
            PROVE  /\ shown'.filter = filter' /\ shown'.cursor = Table!Cursor'
                   /\ Table!RowsFit(items, filter, Table!Cursor)'
        <4>1. loads[l].filter = filter /\ loads[l].cursor = Table!Cursor
          BY <1>1, <2>1, <3>3 DEF Table!LastLoad
        <4>2. Table!RowsFit(loads[l].items, filter, Table!Cursor)
          BY <1>1, <2>1, <4>1 DEF Table!AnswersFit
        <4>3. QED
          BY <2>1, <4>1, <4>2 DEF Table!RowsFit, Table!Selects, Table!Cursor
      <3>4. QED
        BY <3>1, <3>2, <3>3 DEF Table!LastLoad
    <2>10. Table!CursorsDescend'
      BY <1>1, <2>1 DEF Table!CursorsDescend
    <2>11. QED
      BY <2>7, <2>8, <2>9, <2>10 DEF Table!TableInv
  <1>12. ASSUME NEW l \in Loads, Table!Fails(l)
         PROVE  Table!TableInv'
    <2>1. /\ loads' = [loads EXCEPT ![l] = Table!NoLoad] /\ error' = TRUE
          /\ UNCHANGED <<stored, events, filter, pageIdx, cursors, next, items, shown, count, latest, stray>>
      BY <1>12 DEF Table!Fails, Table!serverVars, Table!viewVars
    <2>2. /\ loads' \in [Loads -> LoadRecord] /\ loads'[l].n = 0 /\ ~loads'[l].served
          /\ \A k \in Loads : k # l => loads'[k] = loads[k]
      BY <1>10, <2>1
    <2>3. Table!TableFits'
      BY <1>1, <2>1, <2>2 DEF Table!TableFits, LoadRecord
    <2>4. Table!AnswersFit' /\ Table!CursorsDescend'
      BY <1>1, <2>1, <2>2 DEF Table!AnswersFit, Table!RowsFit, Table!Selects, Table!CursorsDescend
    <2>5. Table!LastLoad'
      BY <1>1, <1>2, <2>1, <2>2 DEF Table!LastLoad, Table!RowsFit, Table!Selects, Table!Cursor
    <2>6. QED
      BY <2>3, <2>4, <2>5 DEF Table!TableInv
  <1>13. ASSUME NEW r \in events, Table!Splice(r)
         PROVE  Table!TableInv'
    <2>1. /\ events' = events \ {r}
          /\ items' = IF Table!LivePage THEN Table!Take(<<r>> \o items, PageSize) ELSE items
          /\ UNCHANGED <<stored, filter, pageIdx, cursors, next, shown, loads, error, count, latest, stray>>
      BY <1>13 DEF Table!Splice, Table!viewVars
    <2>2. CASE ~Table!LivePage
      BY <1>2, <2>1, <2>2, TableUnmoved
    <2>3. CASE Table!LivePage
      <3>1. r \in 1..MaxReadings
        BY <1>2
      <3>2. /\ <<r>> \o items \in Seq(1..MaxReadings)
            /\ \A i \in DOMAIN (<<r>> \o items) :
                  (<<r>> \o items)[i] = r \/ \E j \in DOMAIN items : (<<r>> \o items)[i] = items[j]
        <4>1. items \in Seq(1..MaxReadings)
          BY <1>2
        <4> DEFINE S == 1..MaxReadings
        <4>2. items \in Seq(S) /\ r \in S
          BY <3>1, <4>1
        <4> HIDE DEF S
        <4>3. /\ <<r>> \o items \in Seq(S)
              /\ \A i \in DOMAIN (<<r>> \o items) :
                    (<<r>> \o items)[i] = r \/ \E j \in DOMAIN items : (<<r>> \o items)[i] = items[j]
          BY <4>2, Spliced
        <4>4. QED
          BY <4>3 DEF S
      <3>3. items' \in Seq(1..MaxReadings)
        BY <1>2, <2>1, <2>3, <3>2, TakeFits
      <3>4. filter = Table!NoFilter /\ Table!Cursor = Table!None /\ r < Table!None
        BY <1>2, <2>3, <3>1 DEF Table!LivePage, Table!Cursor, Table!None
      <3>5. Table!RowsFit(items, filter, Table!Cursor)
               => Table!RowsFit(<<r>> \o items, filter, Table!Cursor)
        BY <3>1, <3>2, <3>4, NoFilterFits DEF Table!RowsFit, Table!Selects
      <3>6. Table!RowsFit(items, filter, Table!Cursor) => Table!RowsFit(items', filter, Table!Cursor)
        BY <1>2, <2>1, <2>3, <3>2, <3>5, TakeRowsFit
      <3>7. Table!TableFits'
        BY <1>1, <1>2, <2>1, <3>3 DEF Table!TableFits
      <3>8. Table!AnswersFit' /\ Table!CursorsDescend'
        BY <1>1, <2>1 DEF Table!AnswersFit, Table!RowsFit, Table!Selects, Table!CursorsDescend
      <3>9. Table!LastLoad'
        BY <1>1, <2>1, <3>6 DEF Table!LastLoad, Table!RowsFit, Table!Selects, Table!Cursor
      <3>10. QED
        BY <3>7, <3>8, <3>9 DEF Table!TableInv
    <2>4. QED
      BY <2>2, <2>3
  <1>14. ASSUME NEW r \in events, Table!LoseEvent(r)
         PROVE  Table!TableInv'
    BY <1>2, <1>14, TableUnmoved DEF Table!LoseEvent, Table!viewVars
  <1>15. QED
    BY <1>4, <1>5, <1>6, <1>7, <1>8, <1>9, <1>11, <1>12, <1>13, <1>14 DEF Table!TableNext

\* What the invariant of the live table says of what is shown.
LEMMA TableInvImplies == Table!TableInv => CursorsDescend /\ TableShowsPage
  <1> SUFFICES ASSUME Table!TableInv
               PROVE  CursorsDescend /\ TableShowsPage
    OBVIOUS
  <1>1. CursorsDescend
    BY DEF Table!TableInv, CursorsDescend
  <1>2. (\A l \in Loads : loads[l].n = 0) /\ ~error => latest = count
    BY DEF Table!TableInv, Table!TableFits, Table!LastLoad
  <1>3. TableShowsPage
    BY <1>2 DEF Table!TableInv, Table!LastLoad, TableShowsPage, Table!TableShowsPage, Table!RowsFit
  <1>4. QED
    BY <1>1, <1>3

(***************************************************************************)
(* The list pages.                                                         *)
(***************************************************************************)

\* How long a sequence is that is written as a function.
LEMMA LenOfFunction ==
    ASSUME NEW n \in Nat, NEW f, f = [i \in 1..n |-> f[i]]
    PROVE  Len(f) = n
  OBVIOUS

\* The number of rows that the endpoint counts, as a function of the table.
LEMMA CountsFinite ==
    ASSUME NEW rows, NEW choice
    PROVE  /\ List!CountOf(rows, choice) \in Nat
           /\ IsFiniteSet({r \in Rows : rows[r] = "open" \/ (rows[r] = "done" /\ choice = "all")})
  <1> DEFINE S == {r \in Rows : rows[r] = "open" \/ (rows[r] = "done" /\ choice = "all")}
  <1>1. S \in SUBSET Rows
    OBVIOUS
  <1> HIDE DEF S
  <1>2. IsFiniteSet(S) /\ Cardinality(S) \in Nat
    BY <1>1, ListAssumption, FS_Subset, FS_CardinalityType
  <1>3. QED
    BY <1>2, SameCardinality DEF List!CountOf, S

\* It is a number.
LEMMA CountIsNat == \A rows, choice : List!CountOf(rows, choice) \in Nat
  BY CountsFinite

\* It is the number of rows the server pages through.
LEMMA CountOfMatching ==
    ASSUME NEW choice
    PROVE  Len(List!Matching(choice)) = List!CountOf(table, choice)
  <1> DEFINE S == {r \in Rows : List!Matches(r, choice)}
             n == List!Cardinality(S)
  <1>1. S = {r \in Rows : table[r] = "open" \/ (table[r] = "done" /\ choice = "all")}
    BY DEF List!Matches
  <1>2. n = List!CountOf(table, choice) /\ n \in Nat
    BY <1>1, CountsFinite DEF List!CountOf
  <1>3. \/ List!Matching(choice) = List!Ascending(S)
        \/ List!Matching(choice) = List!Descending(S)
    BY DEF List!Matching
  <1> HIDE DEF S
  <1>4. Len(List!Ascending(S)) = n
    BY <1>2, LenOfFunction DEF List!Ascending
  <1>5. Len(List!Descending(S)) = n
    BY <1>2, LenOfFunction DEF List!Descending
  <1>6. QED
    BY <1>2, <1>3, <1>4, <1>5

\* Rows that are listed and stay as they are, are counted again.
LEMMA CountGrows ==
    ASSUME NEW before, NEW after,
           \A r \in Rows : before[r] \in {"open", "done"} => after[r] = before[r]
    PROVE  \A choice : List!CountOf(before, choice) <= List!CountOf(after, choice)
  <1> SUFFICES ASSUME NEW choice
               PROVE  List!CountOf(before, choice) <= List!CountOf(after, choice)
    OBVIOUS
  <1> DEFINE S == {r \in Rows : before[r] = "open" \/ (before[r] = "done" /\ choice = "all")}
             T == {r \in Rows : after[r] = "open" \/ (after[r] = "done" /\ choice = "all")}
  <1>1. S \in SUBSET T
    OBVIOUS
  <1>2. IsFiniteSet(T)
    BY CountsFinite
  <1>3. List!CountOf(before, choice) = Cardinality(S) /\ List!CountOf(after, choice) = Cardinality(T)
    BY SameCardinality DEF List!CountOf
  <1> HIDE DEF S, T
  <1>4. Cardinality(S) <= Cardinality(T)
    BY <1>1, <1>2, FS_Subset
  <1>5. QED
    BY <1>3, <1>4

\* More rows never make fewer pages, and there is always one.
LEMMA PagesGrow ==
    ASSUME NEW a \in Nat, NEW b \in Nat, NEW size \in Nat \ {0}, a <= b
    PROVE  /\ List!TotalPages(a, size) \in Nat \ {0}
           /\ List!TotalPages(a, size) <= List!TotalPages(b, size)
  <1>1. \A x \in Nat, y \in Nat : x <= y => (x \div size) <= (y \div size)
    OBVIOUS
  <1>2. \A x \in Nat : x \div size \in Nat
    OBVIOUS
  <1>3. size \div size = 1
    OBVIOUS
  <1>4. ASSUME NEW x \in Nat \ {0}
        PROVE  (x + size - 1) \div size \in Nat \ {0}
    <2>1. x + size - 1 \in Nat /\ size <= x + size - 1
      OBVIOUS
    <2>2. size \div size <= (x + size - 1) \div size
      BY <1>1, <2>1
    <2>3. QED
      BY <1>2, <1>3, <2>1, <2>2
  <1>5. CASE a = 0
    <2>1. List!TotalPages(a, size) = 1
      BY <1>5 DEF List!TotalPages
    <2>2. List!TotalPages(b, size) \in Nat \ {0}
      BY <1>4 DEF List!TotalPages
    <2>3. QED
      BY <2>1, <2>2
  <1>6. CASE a # 0
    <2>1. a + size - 1 \in Nat /\ b + size - 1 \in Nat /\ a + size - 1 <= b + size - 1
      OBVIOUS
    <2>2. /\ List!TotalPages(a, size) = (a + size - 1) \div size
          /\ List!TotalPages(b, size) = (b + size - 1) \div size
      BY <1>6 DEF List!TotalPages
    <2>3. QED
      BY <1>1, <1>4, <1>6, <2>1, <2>2
  <1>7. QED
    BY <1>5, <1>6

\* There is always a first page.
LEMMA PagesPositive == \A a \in Nat, size \in Nat \ {0} : List!TotalPages(a, size) \in Nat \ {0}
  BY PagesGrow

\* What a query finds depends on the rows and on the query alone.
LEMMA SameRows ==
    ASSUME UNCHANGED <<table, at, query>>
    PROVE  List!PageRows(query)' = List!PageRows(query)
  BY DEF List!PageRows, List!Matching, List!Matches

\* The invariant of one request, as the steps below keep it.
FlightFits(f) ==
    /\ flights[f].n \in 0..bounds.requests /\ flights[f].query \in List!QueryRecords
    /\ flights[f].got \subseteq {"items", "total"} /\ flights[f].total \in Nat

\* The size a page opens with is one of those on offer.
LEMMA LeastSize == List!Least \in Nat \ {0}
  <1>1. PICK s \in Sizes : \A t \in Sizes : s <= t
    BY ListAssumption, NatMin
  <1>2. List!Least \in Sizes
    BY <1>1 DEF List!Least
  <1>3. QED
    BY <1>2, ListAssumption

\* A list page as it is mounted, before its timer has run.
LEMMA InitListInv == List!ListInit => List!ListInv
  <1> SUFFICES ASSUME List!ListInit
               PROVE  List!ListInv
    OBVIOUS
  <1>1. /\ timer = TRUE /\ failed = FALSE /\ newest = 0 /\ shrunk = FALSE /\ blind = FALSE
        /\ bounds = [requests |-> 0, inputs |-> 0, changes |-> 0, faults |-> 0]
        /\ query = [page |-> 1, size |-> List!Least, filter |-> List!InitialFilter(at)]
        /\ flights = [f \in Flights |-> List!NoFlight]
        /\ data = [query |-> [page |-> 1, size |-> 1, filter |-> "all"], n |-> 0,
                   items |-> <<>>, total |-> 0]
    BY DEF List!ListInit
  <1>2. query \in List!QueryRecords /\ query.page = 1 /\ query.size \in Nat \ {0}
    BY <1>1, LeastSize DEF List!QueryRecords, List!InitialFilter, List!Filters
  <1>3. [page |-> 1, size |-> 1, filter |-> "all"] \in List!QueryRecords
    BY DEF List!QueryRecords, List!Filters
  <1>4. /\ bounds \in [requests : Nat, inputs : Nat, changes : Nat, faults : Nat]
        /\ bounds.requests = 0
    BY <1>1
  <1>5. /\ data.n = 0 /\ data.total = 0 /\ data.query \in List!QueryRecords
    BY <1>1, <1>3
  <1>6. \A f \in Flights : /\ flights[f].n = 0 /\ flights[f].query \in List!QueryRecords
                           /\ flights[f].got = {} /\ flights[f].total = 0
    BY <1>1, <1>3 DEF List!NoFlight, List!Flight
  <1>7. flights = [f \in Flights |-> flights[f]]
    BY <1>1
  <1>8. List!ListFits
    <2>1. newest \in 0..bounds.requests /\ data.n \in 0..newest /\ data.total \in Nat
      BY <1>1, <1>4, <1>5
    <2>2. \A f \in Flights : FlightFits(f)
      BY <1>4, <1>6 DEF FlightFits
    <2>3. QED
      BY <1>1, <1>2, <1>4, <1>5, <1>7, <2>1, <2>2 DEF List!ListFits, FlightFits
  <1>9. List!LastRequest /\ List!AsksForChosen /\ List!FindsWhatIs
    BY <1>1, <1>4 DEF List!LastRequest, List!AsksForChosen, List!FindsWhatIs
  <1>10. List!TotalsGrow
    <2>1. List!CountOf(table, data.query.filter) \in Nat
      BY CountIsNat
    <2>2. QED
      BY <1>5, <1>6, <2>1 DEF List!TotalsGrow
  <1>11. List!PageExists
    <2>1. List!TotalPages(List!CountOf(table, query.filter), query.size) \in Nat \ {0}
      BY <1>2, CountIsNat, PagesPositive
    <2>2. QED
      BY <1>1, <1>2, <2>1 DEF List!PageExists
  <1>12. QED
    BY <1>8, <1>9, <1>10, <1>11 DEF List!ListInv

\* A step that sets the timer: what was asked no longer counts.
LEMMA TimerSet ==
    ASSUME List!ListInv, timer' = TRUE, query' \in List!QueryRecords, blind' \in BOOLEAN,
           bounds' \in [requests : Nat, inputs : Nat, changes : Nat, faults : Nat],
           bounds'.requests = bounds.requests,
           ~shrunk /\ ~blind' =>
               query'.page <= List!TotalPages(List!CountOf(table, query'.filter), query'.size),
           UNCHANGED <<table, flights, data, failed, newest, shrunk>>
    PROVE  List!ListInv'
  <1>1. List!ListFits /\ List!LastRequest /\ List!TotalsGrow
    BY DEF List!ListInv
  <1>2. List!ListFits'
    BY <1>1 DEF List!ListFits
  <1>3. List!LastRequest'
    BY <1>1 DEF List!LastRequest
  <1>4. List!AsksForChosen' /\ List!FindsWhatIs'
    BY DEF List!AsksForChosen, List!FindsWhatIs
  <1>5. List!TotalsGrow'
    BY <1>1 DEF List!TotalsGrow
  <1>6. List!PageExists'
    BY DEF List!PageExists
  <1>7. QED
    BY <1>2, <1>3, <1>4, <1>5, <1>6 DEF List!ListInv

\* A step of a mutation that changes no row.
LEMMA RowsStay ==
    ASSUME List!ListInv,
           bounds' \in [requests : Nat, inputs : Nat, changes : Nat, faults : Nat],
           bounds'.requests = bounds.requests,
           ~touched' /\ op'.pc # "applied" => ~touched /\ op.pc # "applied",
           UNCHANGED <<at, table, query, timer, flights, data, failed, newest, shrunk, blind>>
    PROVE  List!ListInv'
  <1>1. /\ List!ListFits /\ List!LastRequest /\ List!AsksForChosen
        /\ List!FindsWhatIs /\ List!TotalsGrow /\ List!PageExists
    BY DEF List!ListInv
  <1>2. List!ListFits'
    BY <1>1 DEF List!ListFits
  <1>3. List!LastRequest' /\ List!AsksForChosen'
    BY <1>1 DEF List!LastRequest, List!AsksForChosen
  <1>4. List!FindsWhatIs'
    BY <1>1, SameRows DEF List!FindsWhatIs
  <1>5. List!TotalsGrow' /\ List!PageExists'
    BY <1>1 DEF List!TotalsGrow, List!PageExists
  <1>6. QED
    BY <1>2, <1>3, <1>4, <1>5 DEF List!ListInv

\* A step that changes the rows, by the mutation in the air or by others.
LEMMA RowsChange ==
    ASSUME List!ListInv,
           bounds' \in [requests : Nat, inputs : Nat, changes : Nat, faults : Nat],
           bounds'.requests = bounds.requests,
           touched' \/ op'.pc = "applied", shrunk' = (shrunk \/ List!Shrinks(table')),
           UNCHANGED <<at, query, timer, flights, data, failed, newest, blind>>
    PROVE  List!ListInv'
  <1>1. /\ List!ListFits /\ List!LastRequest /\ List!AsksForChosen
        /\ List!TotalsGrow /\ List!PageExists
    BY DEF List!ListInv
  <1>2. List!ListFits'
    BY <1>1 DEF List!ListFits
  <1>3. List!LastRequest' /\ List!AsksForChosen'
    BY <1>1 DEF List!LastRequest, List!AsksForChosen
  <1>4. List!FindsWhatIs'
    BY DEF List!FindsWhatIs
  <1>5. ASSUME ~shrunk'
        PROVE  ~shrunk /\ \A choice : /\ List!CountOf(table, choice) <= List!CountOf(table', choice)
                                      /\ List!CountOf(table, choice) \in Nat
                                      /\ List!CountOf(table', choice) \in Nat
    <2>1. \A r \in Rows : table[r] \in {"open", "done"} => table'[r] = table[r]
      BY <1>5 DEF List!Shrinks
    <2>2. \A choice : List!CountOf(table, choice) <= List!CountOf(table', choice)
      BY <2>1, CountGrows
    <2>3. QED
      BY <1>5, <2>2, CountIsNat
  <1>6. List!TotalsGrow'
    <2>1. data.total \in Nat /\ \A f \in Flights : flights[f].total \in Nat
      BY <1>1 DEF List!ListFits
    <2>2. QED
      BY <1>1, <1>5, <2>1 DEF List!TotalsGrow
  <1>7. List!PageExists'
    <2>1. query.page \in Nat /\ query.size \in Nat \ {0}
      BY <1>1 DEF List!ListFits, List!QueryRecords
    <2>2. ASSUME ~shrunk'
          PROVE  /\ List!TotalPages(List!CountOf(table, query.filter), query.size)
                       <= List!TotalPages(List!CountOf(table', query.filter), query.size)
                 /\ List!TotalPages(List!CountOf(table, query.filter), query.size) \in Nat
                 /\ List!TotalPages(List!CountOf(table', query.filter), query.size) \in Nat
      BY <1>5, <2>1, <2>2, PagesGrow
    <2>3. QED
      BY <1>1, <1>5, <2>1, <2>2 DEF List!PageExists
  <1>8. QED
    BY <1>2, <1>3, <1>4, <1>6, <1>7 DEF List!ListInv

\* The two effects of a change of filters or size keep the rest of the query.
LEMMA AfterFilterFits ==
    ASSUME NEW q \in List!QueryRecords
    PROVE  List!AfterFilter(q) \in List!QueryRecords /\ List!AfterFilter(q).page = 1
  BY DEF List!AfterFilter, List!QueryRecords

\* What the seven pages do comes down to five steps.
LEMMA PageSteps ==
    ASSUME List!ListNext
    PROVE  \/ \E f \in Flights : \/ List!Fire(f) \/ List!FindRows(f) \/ List!CountRows(f)
                                 \/ List!Arrive(f) \/ List!Fails(f)
           \/ \E choice \in List!Filters : List!SetFilters(choice)
           \/ \E size \in Sizes : List!SetPageSize(size)
           \/ \E p \in 1..List!Cardinality(Rows) : List!SetPage(p)
           \/ \E r, to : List!Send(r, to)
           \/ List!AskAgain
           \/ List!OpApplies \/ List!OpAnswers \/ List!OpFails \/ List!OthersChange
  BY DEF List!ListNext, List!AlertsPage, List!NotificationsPage, List!AdminReportsPage, List!AuditPage,
     List!AdminUsersPage, List!AdminRulesPage, List!AdminDustbinsPage, List!Choose

\* Every step of a list page keeps its invariant.
LEMMA NextListInv == List!ListInv /\ List!ListNext => List!ListInv'
  <1> SUFFICES ASSUME List!ListInv, List!ListNext
               PROVE  List!ListInv'
    OBVIOUS
  <1>1. /\ List!ListFits /\ List!LastRequest /\ List!AsksForChosen
        /\ List!FindsWhatIs /\ List!TotalsGrow /\ List!PageExists
    BY DEF List!ListInv
  <1>2. /\ timer \in BOOLEAN /\ blind \in BOOLEAN /\ query \in List!QueryRecords
        /\ bounds \in [requests : Nat, inputs : Nat, changes : Nat, faults : Nat]
        /\ newest \in 0..bounds.requests /\ bounds.requests \in Nat
        /\ data.n \in 0..newest /\ data.query \in List!QueryRecords /\ data.total \in Nat
        /\ flights = [f \in Flights |-> flights[f]]
        /\ \A f \in Flights : FlightFits(f)
    BY <1>1 DEF List!ListFits, FlightFits
  <1>3. query.page \in Nat \ {0} /\ query.size \in Nat \ {0} /\ query.filter \in List!Filters
    BY <1>2 DEF List!QueryRecords
  <1>4. ASSUME NEW what \in {"inputs", "changes", "faults"}, List!Count(what)
        PROVE  /\ bounds' \in [requests : Nat, inputs : Nat, changes : Nat, faults : Nat]
               /\ bounds'.requests = bounds.requests
    BY <1>2, <1>4 DEF List!Count
  \* A request answers: its flight has a new record, the others stay.
  <1>5. ASSUME NEW f \in Flights, NEW new, flights' = [flights EXCEPT ![f] = new]
        PROVE  /\ flights' = [g \in Flights |-> flights'[g]] /\ flights'[f] = new
               /\ \A g \in Flights : g # f => flights'[g] = flights[g]
    BY <1>2, <1>5
  <1>6. ASSUME NEW f \in Flights, List!Fire(f)
        PROVE  List!ListInv'
    <2> DEFINE new == List!Flight(bounds.requests + 1, query, {}, <<>>, 0)
    <2>1. /\ timer' = FALSE /\ failed' = FALSE /\ bounds' = [bounds EXCEPT !["requests"] = @ + 1]
          /\ flights' = [flights EXCEPT ![f] = List!Flight(bounds'.requests, query, {}, <<>>, 0)]
          /\ UNCHANGED <<at, table, query, data, op, newest, touched, shrunk, blind>>
      BY <1>6 DEF List!Fire, List!Count
    <2>2. /\ bounds' \in [requests : Nat, inputs : Nat, changes : Nat, faults : Nat]
          /\ bounds'.requests = bounds.requests + 1
      BY <1>2, <2>1
    <2>3. /\ flights' = [g \in Flights |-> flights'[g]] /\ flights'[f] = new
          /\ \A g \in Flights : g # f => flights'[g] = flights[g]
      BY <1>5, <2>1, <2>2
    <2>4. new.n = bounds.requests + 1 /\ new.query = query /\ new.got = {} /\ new.total = 0
      BY DEF List!Flight
    <2> HIDE DEF new
    <2>5. \A g \in Flights : FlightFits(g)' /\ (g # f => flights'[g].n # bounds'.requests)
      <3>1. FlightFits(f)'
        BY <1>2, <2>2, <2>3, <2>4 DEF FlightFits
      <3>2. ASSUME NEW g \in Flights, g # f
            PROVE  FlightFits(g)' /\ flights'[g].n # bounds'.requests
        <4>1. FlightFits(g) /\ flights'[g] = flights[g]
          BY <1>2, <2>3, <3>2
        <4>2. QED
          BY <1>2, <2>2, <4>1 DEF FlightFits
      <3>3. QED
        BY <3>1, <3>2
    <2>6. newest # bounds'.requests /\ data.n # bounds'.requests
      BY <1>2, <2>2
    <2>7. List!ListFits'
      <3>1. newest' \in 0..bounds'.requests /\ data'.n \in 0..newest' /\ bounds'.requests # 0
        BY <1>2, <2>1, <2>2
      <3>2. timer' \in BOOLEAN /\ blind' \in BOOLEAN /\ query' \in List!QueryRecords
            /\ data'.query \in List!QueryRecords /\ data'.total \in Nat
        BY <1>2, <2>1
      <3>3. QED
        BY <2>2, <2>3, <2>5, <3>1, <3>2 DEF List!ListFits, FlightFits
    <2>8. List!LastRequest'
      BY <2>2, <2>3, <2>4 DEF List!LastRequest
    <2>9. List!AsksForChosen' /\ List!FindsWhatIs'
      BY <2>1, <2>3, <2>4, <2>5, <2>6 DEF List!AsksForChosen, List!FindsWhatIs
    <2>10. List!TotalsGrow'
      BY <1>1, <2>1, <2>3, <2>4 DEF List!TotalsGrow
    <2>11. List!PageExists'
      BY <1>1, <2>1, <2>3, <2>4, <2>5, <2>6 DEF List!PageExists
    <2>12. QED
      BY <2>7, <2>8, <2>9, <2>10, <2>11 DEF List!ListInv
  <1>7. ASSUME NEW f \in Flights, List!FindRows(f)
        PROVE  List!ListInv'
    <2> DEFINE new == List!Flight(flights[f].n, flights[f].query, flights[f].got \cup {"items"},
                                  List!PageRows(flights[f].query), flights[f].total)
    <2>1. /\ flights' = [flights EXCEPT ![f] = new]
          /\ UNCHANGED <<at, table, query, timer, data, failed, op, bounds, newest, touched, shrunk, blind>>
      BY <1>7 DEF List!FindRows
    <2>2. /\ flights' = [g \in Flights |-> flights'[g]] /\ flights'[f] = new
          /\ \A g \in Flights : g # f => flights'[g] = flights[g]
      BY <1>5, <2>1
    <2>3. /\ new.n = flights[f].n /\ new.query = flights[f].query
          /\ new.got = flights[f].got \cup {"items"} /\ new.total = flights[f].total
          /\ new.items = List!PageRows(flights[f].query)
      BY DEF List!Flight
    <2>4. List!PageRows(query)' = List!PageRows(query)
      BY <2>1, SameRows
    <2> HIDE DEF new
    <2>5. \A g \in Flights : FlightFits(g)'
      BY <1>2, <2>1, <2>2, <2>3 DEF FlightFits
    <2>6. List!ListFits'
      BY <1>1, <1>2, <2>1, <2>2, <2>5 DEF List!ListFits, FlightFits
    <2>7. List!LastRequest' /\ List!AsksForChosen'
      BY <1>1, <2>1, <2>2, <2>3 DEF List!LastRequest, List!AsksForChosen
    <2>8. List!FindsWhatIs'
      BY <1>1, <2>1, <2>2, <2>3, <2>4 DEF List!FindsWhatIs, List!AsksForChosen
    <2>9. List!TotalsGrow'
      BY <1>1, <2>1, <2>2, <2>3 DEF List!TotalsGrow
    <2>10. List!PageExists'
      BY <1>1, <2>1, <2>2, <2>3 DEF List!PageExists
    <2>11. QED
      BY <2>6, <2>7, <2>8, <2>9, <2>10 DEF List!ListInv
  <1>8. ASSUME NEW f \in Flights, List!CountRows(f)
        PROVE  List!ListInv'
    <2> DEFINE new == List!Flight(flights[f].n, flights[f].query, flights[f].got \cup {"total"},
                                  flights[f].items, Len(List!Matching(flights[f].query.filter)))
    <2>1. /\ flights' = [flights EXCEPT ![f] = new]
          /\ UNCHANGED <<at, table, query, timer, data, failed, op, bounds, newest, touched, shrunk, blind>>
      BY <1>8 DEF List!CountRows
    <2>2. /\ flights' = [g \in Flights |-> flights'[g]] /\ flights'[f] = new
          /\ \A g \in Flights : g # f => flights'[g] = flights[g]
      BY <1>5, <2>1
    <2>3. /\ new.n = flights[f].n /\ new.query = flights[f].query
          /\ new.got = flights[f].got \cup {"total"} /\ new.items = flights[f].items
          /\ new.total = List!CountOf(table, flights[f].query.filter)
      BY CountOfMatching DEF List!Flight
    <2>4. List!PageRows(query)' = List!PageRows(query)
      BY <2>1, SameRows
    <2>5. \A choice : List!CountOf(table, choice) \in Nat
      BY CountIsNat
    <2> HIDE DEF new
    <2>6. \A g \in Flights : FlightFits(g)'
      BY <1>2, <2>1, <2>2, <2>3, <2>5 DEF FlightFits
    <2>7. List!ListFits'
      BY <1>1, <1>2, <2>1, <2>2, <2>6 DEF List!ListFits, FlightFits
    <2>8. List!LastRequest' /\ List!AsksForChosen'
      BY <1>1, <2>1, <2>2, <2>3 DEF List!LastRequest, List!AsksForChosen
    <2>9. List!FindsWhatIs'
      BY <1>1, <2>1, <2>2, <2>3, <2>4 DEF List!FindsWhatIs, List!AsksForChosen
    <2>10. List!TotalsGrow'
      BY <1>1, <2>1, <2>2, <2>3, <2>5 DEF List!TotalsGrow
    <2>11. List!PageExists'
      BY <1>1, <2>1, <2>2, <2>3 DEF List!PageExists, List!AsksForChosen
    <2>12. QED
      BY <2>7, <2>8, <2>9, <2>10, <2>11 DEF List!ListInv
  <1>9. List!NoFlight.n = 0 /\ List!NoFlight.got = {} /\ List!NoFlight.total = 0
        /\ List!NoFlight.query \in List!QueryRecords
    BY DEF List!NoFlight, List!Flight, List!QueryRecords, List!Filters
  <1>10. ASSUME NEW f \in Flights, List!Arrive(f)
         PROVE  List!ListInv'
    <2>1. /\ flights[f].got = {"items", "total"} /\ flights' = [flights EXCEPT ![f] = List!NoFlight]
          /\ data' = [query |-> flights[f].query, n |-> flights[f].n,
                      items |-> flights[f].items, total |-> flights[f].total]
          /\ newest' = IF flights[f].n > newest THEN flights[f].n ELSE newest
          /\ UNCHANGED <<at, table, query, timer, failed, op, bounds, touched, shrunk, blind>>
      BY <1>10 DEF List!Arrive
    <2>2. /\ flights' = [g \in Flights |-> flights'[g]] /\ flights'[f] = List!NoFlight
          /\ \A g \in Flights : g # f => flights'[g] = flights[g]
      BY <1>5, <2>1
    <2>3. /\ data'.query = flights[f].query /\ data'.n = flights[f].n
          /\ data'.items = flights[f].items /\ data'.total = flights[f].total
      BY <2>1
    <2>4. FlightFits(f) /\ newest' \in 0..bounds.requests /\ flights[f].n \in 0..newest'
          /\ (flights[f].n = bounds.requests => newest' = bounds.requests)
          /\ (newest = bounds.requests => newest' = bounds.requests)
      BY <1>2, <2>1 DEF FlightFits
    <2>5. \A g \in Flights : FlightFits(g)'
      BY <1>2, <1>9, <2>1, <2>2 DEF FlightFits
    <2>6. List!ListFits'
      BY <1>1, <1>2, <2>1, <2>2, <2>3, <2>4, <2>5 DEF List!ListFits, FlightFits
    <2>7. List!LastRequest'
      BY <1>1, <2>1, <2>2, <2>4 DEF List!LastRequest
    <2>8. timer \/ bounds.requests # 0
      BY <1>1 DEF List!ListFits
    <2>9. List!AsksForChosen'
      BY <1>1, <1>9, <2>1, <2>2, <2>3, <2>8 DEF List!AsksForChosen
    <2>10. List!PageRows(query)' = List!PageRows(query)
      BY <2>1, SameRows
    <2>11. List!FindsWhatIs'
      BY <1>1, <1>9, <2>1, <2>2, <2>3, <2>8, <2>10 DEF List!FindsWhatIs
    <2>12. List!TotalsGrow'
      BY <1>1, <1>9, <2>1, <2>2, <2>3 DEF List!TotalsGrow
    <2>13. List!PageExists'
      BY <1>1, <1>9, <2>1, <2>2, <2>3, <2>8 DEF List!PageExists
    <2>14. QED
      BY <2>6, <2>7, <2>9, <2>11, <2>12, <2>13 DEF List!ListInv
  <1>11. ASSUME NEW f \in Flights, List!Fails(f)
         PROVE  List!ListInv'
    <2>1. /\ flights' = [flights EXCEPT ![f] = List!NoFlight] /\ failed' = TRUE
          /\ List!Count("faults")
          /\ UNCHANGED <<at, table, query, timer, data, op, newest, touched, shrunk, blind>>
      BY <1>11 DEF List!Fails
    <2>2. /\ flights' = [g \in Flights |-> flights'[g]] /\ flights'[f] = List!NoFlight
          /\ \A g \in Flights : g # f => flights'[g] = flights[g]
      BY <1>5, <2>1
    <2>3. /\ bounds' \in [requests : Nat, inputs : Nat, changes : Nat, faults : Nat]
          /\ bounds'.requests = bounds.requests
      BY <1>4, <2>1
    <2>4. \A g \in Flights : FlightFits(g)'
      BY <1>2, <1>9, <2>2, <2>3 DEF FlightFits
    <2>5. timer \/ bounds.requests # 0
      BY <1>1 DEF List!ListFits
    <2>6. List!ListFits'
      BY <1>2, <2>1, <2>2, <2>3, <2>4, <2>5 DEF List!ListFits, FlightFits
    <2>7. List!PageRows(query)' = List!PageRows(query)
      BY <2>1, SameRows
    <2>8. List!LastRequest' /\ List!AsksForChosen'
      BY <1>1, <1>9, <2>1, <2>2, <2>3, <2>5 DEF List!LastRequest, List!AsksForChosen
    <2>9. List!FindsWhatIs'
      BY <1>1, <1>9, <2>1, <2>2, <2>3, <2>5, <2>7 DEF List!FindsWhatIs
    <2>10. List!TotalsGrow'
      BY <1>1, <1>9, <2>1, <2>2 DEF List!TotalsGrow
    <2>11. List!PageExists'
      BY <1>1, <1>9, <2>1, <2>2, <2>3, <2>5 DEF List!PageExists
    <2>12. QED
      BY <2>6, <2>8, <2>9, <2>10, <2>11 DEF List!ListInv
  <1>12. ASSUME NEW q \in List!QueryRecords, query' = List!AfterFilter(q), List!Input,
                timer' = TRUE, blind' = FALSE,
                UNCHANGED <<table, flights, data, failed, newest, shrunk>>
         PROVE  List!ListInv'
    <2>1. query' \in List!QueryRecords /\ query'.page = 1
      BY <1>12, AfterFilterFits
    <2>2. query'.size \in Nat \ {0}
      BY <2>1 DEF List!QueryRecords
    <2>3. List!CountOf(table, query'.filter) \in Nat
      BY CountIsNat
    <2>4. List!TotalPages(List!CountOf(table, query'.filter), query'.size) \in Nat \ {0}
      BY <2>2, <2>3, PagesPositive
    <2>5. query'.page <= List!TotalPages(List!CountOf(table, query'.filter), query'.size)
      BY <2>1, <2>4
    <2>6. /\ bounds' \in [requests : Nat, inputs : Nat, changes : Nat, faults : Nat]
          /\ bounds'.requests = bounds.requests
      BY <1>4, <1>12 DEF List!Input
    <2>7. QED
      BY <1>12, <2>1, <2>5, <2>6, TimerSet
  <1>13. ASSUME NEW choice \in List!Filters, List!SetFilters(choice)
         PROVE  List!ListInv'
    <2>1. [query EXCEPT !.filter = choice] \in List!QueryRecords
      BY <1>2 DEF List!QueryRecords
    <2>2. QED
      BY <1>12, <1>13, <2>1 DEF List!SetFilters
  <1>14. ASSUME NEW size \in Sizes, List!SetPageSize(size)
         PROVE  List!ListInv'
    <2>1. [query EXCEPT !.size = size] \in List!QueryRecords
      BY <1>2, ListAssumption DEF List!QueryRecords
    <2>2. QED
      BY <1>12, <1>14, <2>1 DEF List!SetPageSize
  <1>15. ASSUME NEW p \in 1..List!Cardinality(Rows), List!SetPage(p)
         PROVE  List!ListInv'
    <2> DEFINE pages == List!TotalPages(data.total, query.size)
               existing == List!TotalPages(List!CountOf(table, query.filter), query.size)
    <2>1. /\ List!Input /\ query' = [query EXCEPT !.page = p] /\ timer' = TRUE
          /\ blind' = (blind \/ data.query.filter # query.filter \/ data.query.size # query.size
                       \/ data.n < newest)
          /\ \/ p = query.page - 1
             \/ p = query.page + 1 /\ p <= pages
             \/ p \in List!PageButtons(query.page, pages)
          /\ UNCHANGED <<table, flights, data, failed, newest, shrunk>>
      BY <1>15 DEF List!SetPage
    <2>2. p \in Nat \ {0}
      BY SameCardinality, ListAssumption, FS_CardinalityType
    <2>3. query' \in List!QueryRecords /\ query'.page = p /\ query'.filter = query.filter
          /\ query'.size = query.size
      BY <1>2, <2>1, <2>2 DEF List!QueryRecords
    <2>4. pages \in Nat \ {0} /\ existing \in Nat \ {0}
      BY <1>2, <1>3, CountIsNat, PagesPositive
    <2>5. ASSUME ~shrunk, ~blind'
          PROVE  p <= existing
      <3>1. data.query.filter = query.filter /\ query.page <= existing
        BY <1>1, <2>1, <2>5 DEF List!PageExists
      <3>2. pages <= existing
        BY <1>1, <1>2, <1>3, <2>5, <3>1, CountIsNat, PagesGrow DEF List!TotalsGrow
      <3>3. p <= pages \/ p <= query.page
        BY <1>3, <2>1, <2>2, <2>4 DEF List!PageButtons
      <3>4. QED
        BY <1>3, <2>2, <2>4, <3>1, <3>2, <3>3
    <2>6. blind' \in BOOLEAN
      BY <2>1
    <2>7. QED
      BY <1>4, <2>1, <2>3, <2>5, <2>6, TimerSet DEF List!Input
  <1>16. ASSUME NEW r, NEW to, List!Send(r, to)
         PROVE  List!ListInv'
    <2>1. /\ List!Count("inputs") /\ op.pc # "applied"
          /\ UNCHANGED <<at, table, query, timer, flights, data, failed, newest, touched, shrunk, blind>>
      BY <1>16 DEF List!Send, List!Input
    <2>2. QED
      BY <1>4, <2>1, RowsStay
  <1>17. ~shrunk /\ ~blind => query.page <= List!TotalPages(List!CountOf(table, query.filter), query.size)
    BY <1>1 DEF List!PageExists
  <1>18. CASE List!AskAgain
    <2>1. /\ List!Count("inputs") /\ timer' = TRUE
          /\ UNCHANGED <<table, query, flights, data, failed, newest, shrunk, blind>>
      BY <1>18 DEF List!AskAgain, List!Input
    <2>2. QED
      BY <1>2, <1>4, <1>17, <2>1, TimerSet
  <1>19. CASE List!OpApplies
    <2>1. op'.pc = "applied"
      BY <1>19 DEF List!OpApplies
    <2>2. QED
      BY <1>2, <1>19, <2>1, RowsChange DEF List!OpApplies
  <1>20. CASE List!OpAnswers
    BY <1>2, <1>17, <1>20, TimerSet DEF List!OpAnswers, List!Refresh
  <1>21. CASE List!OpFails
    <2>1. /\ List!Count("faults") /\ touched' = (touched \/ op.pc = "applied")
          /\ UNCHANGED <<at, table, query, timer, flights, data, failed, newest, shrunk, blind>>
      BY <1>21 DEF List!OpFails
    <2>2. QED
      BY <1>4, <2>1, RowsStay
  <1>22. CASE List!OthersChange
    <2>1. /\ List!Count("changes") /\ touched' = TRUE /\ shrunk' = (shrunk \/ List!Shrinks(table'))
          /\ UNCHANGED <<at, query, timer, flights, data, failed, newest, blind>>
      BY <1>22 DEF List!OthersChange
    <2>2. QED
      BY <1>4, <2>1, RowsChange
  <1>23. QED
    BY <1>6, <1>7, <1>8, <1>10, <1>11, <1>13, <1>14, <1>15, <1>16, <1>18, <1>19, <1>20, <1>21,
       <1>22, PageSteps

\* What the invariant of a list page says of a page at rest.
LEMMA ListInvImplies == List!ListInv => SettledIsFresh /\ PageInRange
  <1> SUFFICES ASSUME List!ListInv
               PROVE  SettledIsFresh /\ PageInRange
    OBVIOUS
  <1>1. /\ List!ListFits /\ List!LastRequest /\ List!AsksForChosen
        /\ List!FindsWhatIs /\ List!PageExists
    BY DEF List!ListInv
  <1>2. ASSUME List!Settled, data.n = newest
        PROVE  ~timer /\ op.pc = "none" /\ data.n = bounds.requests
    BY <1>1, <1>2 DEF List!Settled, List!ListFits, List!LastRequest
  <1>3. SettledIsFresh
    <2>1. ASSUME List!Settled, ~touched, data.n = newest
          PROVE  List!Fresh
      BY <1>1, <1>2, <2>1, CountOfMatching DEF List!AsksForChosen, List!FindsWhatIs, List!Fresh
    <2>2. QED
      BY <2>1 DEF SettledIsFresh, List!SettledIsFresh
  <1>4. PageInRange
    BY <1>1, <1>2 DEF PageInRange, List!PageInRange, List!PageExists
  <1>5. QED
    BY <1>3, <1>4

(***************************************************************************)
(* A bin on the dashboard or on its own page.                              *)
(***************************************************************************)

\* A bin as it is opened.
LEMMA InitViewInv == Bin!ViewInit => Bin!ViewInv
  <1> SUFFICES ASSUME Bin!ViewInit
               PROVE  Bin!ViewInv
    OBVIOUS
  <1>1. fetch \in [pc : {"sent", "served", "done"}, found : 0..taken]
    BY DEF Bin!ViewInit
  <1>2. /\ taken \in 0..MaxTaken /\ missed \in 0..MaxMissed
        /\ reading \in 0..taken /\ during \in 0..taken
    BY BinAssumption DEF Bin!ViewInit
  <1>3. loaded \in BOOLEAN /\ onTheWay \subseteq 1..taken /\ overtaken \subseteq 1..taken
    BY DEF Bin!ViewInit
  <1>4. Bin!ViewTypeOK
    BY <1>1, <1>2, <1>3 DEF Bin!ViewTypeOK
  <1>5. ~loaded /\ taken = 0
    BY DEF Bin!ViewInit
  <1>6. QED
    BY <1>4, <1>5 DEF Bin!ViewInv, Bin!NewestIsKnown

\* Every step of a bin's page keeps its invariant.
LEMMA NextViewInv == Bin!ViewInv /\ Bin!ViewNext => Bin!ViewInv'
  <1> SUFFICES ASSUME Bin!ViewInv, Bin!ViewNext
               PROVE  Bin!ViewInv'
    OBVIOUS
  <1> USE BinAssumption DEF Bin!ViewInv, Bin!ViewTypeOK, Bin!NewestIsKnown
  <1>1. CASE Bin!Take
    <2>1. /\ taken \in 0..MaxTaken /\ taken' = taken + 1 /\ taken < MaxTaken
          /\ onTheWay' = onTheWay \cup {taken'}
          /\ UNCHANGED <<fetch, loaded, reading, missed, during, overtaken>>
      BY <1>1 DEF Bin!Take
    <2>2. /\ taken' \in 0..MaxTaken /\ 1..taken \subseteq 1..taken' /\ 0..taken \subseteq 0..taken'
          /\ taken' \in 1..taken'
      BY <2>1
    <2>3. fetch' \in [pc : {"sent", "served", "done"}, found : 0..taken']
      BY <2>1, <2>2
    <2>4. QED
      BY <2>1, <2>2, <2>3
  <1>2. CASE Bin!Serve
    BY <1>2 DEF Bin!Serve
  <1>3. CASE Bin!Arrive
    BY <1>3 DEF Bin!Arrive
  <1>4. CASE Bin!FetchFails
    BY <1>4 DEF Bin!FetchFails
  <1>5. ASSUME NEW k \in onTheWay, Bin!Announce(k)
        PROVE  Bin!ViewInv'
    BY <1>5 DEF Bin!Announce, Bin!Takes
  <1>6. ASSUME NEW k \in onTheWay, Bin!Miss(k)
        PROVE  Bin!ViewInv'
    BY <1>6 DEF Bin!Miss
  <1>7. QED
    BY <1>1, <1>2, <1>3, <1>4, <1>5, <1>6 DEF Bin!ViewNext

\* What the invariant says of a bin that is shown.
LEMMA ViewInvImplies == Bin!ViewInv => ViewCatchesUp
  BY DEF Bin!ViewInv, Bin!ViewTypeOK, Bin!NewestIsKnown, ViewCatchesUp, Bin!ViewCatchesUp


(***************************************************************************)
(* The forms with drafts.                                                  *)
(***************************************************************************)

\* A form as it is opened.
LEMMA InitDraftInv == Form!DraftInit => Form!DraftInv
  <1> SUFFICES ASSUME Form!DraftInit
               PROVE  Form!DraftInv
    OBVIOUS
  <1> USE DEF Form!Empty, Form!Unset, Form!Values, Form!NoCall
  <1>1. /\ form \in {"settings", "emails", "cameras"} /\ entries \in [Keys -> Form!Values]
        /\ draft = [k \in Keys |-> Form!Unset] /\ saving = {} /\ unsure = {}
        /\ typed = [k \in Keys |-> Form!Unset] /\ wanted = [k \in Keys |-> Form!Unset]
    BY DEF Form!DraftInit
  <1>2. \A c \in Calls : /\ calls[c] = [Form!NoCall EXCEPT !.pc = "load"] \/ calls[c] = Form!NoCall
    BY DEF Form!DraftInit
  <1>3. /\ calls \in [Calls -> [pc : {"none", "load", "loaded", "save"}, keys : SUBSET Keys,
                            values : [Keys -> Form!Values \cup {Form!Unset}]]]
        /\ \A c \in Calls : calls[c].pc \in {"none", "load"}
    BY <1>2 DEF Form!DraftInit
  <1>4. Form!DraftTypeOK /\ Form!CallsFit /\ Form!TypingKept
    BY <1>1, <1>3 DEF Form!DraftTypeOK, Form!CallsFit, Form!TypingKept
  <1>5. Form!SavesWanted /\ Form!OneSaveEach /\ Form!WantedComes
    BY <1>1, <1>3 DEF Form!SavesWanted, Form!OneSaveEach, Form!WantedComes, Form!Saves
  <1>6. QED
    BY <1>4, <1>5 DEF Form!DraftInv

\* Drafts and calls keep their records.
LEMMA NextDraftTypes == Form!DraftInv /\ Form!DraftNext => Form!DraftTypeOK' /\ Form!CallsFit'
  <1> SUFFICES ASSUME Form!DraftInv, Form!DraftNext
               PROVE  Form!DraftTypeOK' /\ Form!CallsFit'
    OBVIOUS
  <1> USE DEF Form!DraftTypeOK, Form!CallsFit, Form!Empty, Form!Unset, Form!Values, Form!NoCall
  <1>1. Form!DraftTypeOK /\ Form!CallsFit
    BY DEF Form!DraftInv
  <1>2. ASSUME NEW c \in Calls, Form!ServeLoad(c)
        PROVE  Form!DraftTypeOK' /\ Form!CallsFit'
    <2>1. /\ calls' = [calls EXCEPT ![c] = [pc |-> "loaded", keys |-> calls[c].keys, values |-> entries]]
          /\ UNCHANGED <<form, entries, draft, saving, typed, wanted>>
      BY <1>2 DEF Form!ServeLoad
    <2>2. entries \in [Keys -> Form!Values \cup {Form!Unset}]
      BY <1>1
    <2>3. [pc |-> "loaded", keys |-> calls[c].keys, values |-> entries] \in
             [pc : {"none", "load", "loaded", "save"}, keys : SUBSET Keys,
              values : [Keys -> Form!Values \cup {Form!Unset}]]
      BY <1>1, <2>2
    <2>4. QED
      BY <1>1, <2>1, <2>3
  <1>3. ASSUME NEW c \in Calls, Form!LoadArrives(c)
        PROVE  Form!DraftTypeOK' /\ Form!CallsFit'
    <2>1. /\ calls' = [calls EXCEPT ![c] = Form!NoCall] /\ saving' = Form!Ended(c)
          /\ draft' = Form!Merge(calls[c].values)
          /\ typed' = IF form = "cameras" THEN [k \in Keys |-> Form!Unset] ELSE typed
          /\ UNCHANGED <<form, entries, wanted>>
      BY <1>3 DEF Form!LoadArrives
    <2>2. calls[c].values \in [Keys -> Form!Values \cup {Form!Unset}]
      BY <1>1
    <2>3. draft' \in [Keys -> Form!Values \cup {Form!Unset}]
      BY <1>1, <2>1, <2>2 DEF Form!Merge
    <2>4. calls' \in [Calls -> [pc : {"none", "load", "loaded", "save"}, keys : SUBSET Keys,
                                values : [Keys -> Form!Values \cup {Form!Unset}]]]
      BY <1>1, <2>1
    <2>5. QED
      BY <1>1, <2>1, <2>3, <2>4 DEF Form!Ended
  <1>4. ASSUME NEW c \in Calls, NEW keys \in SUBSET Keys, Form!Save(c, keys)
        PROVE  Form!DraftTypeOK' /\ Form!CallsFit'
    <2> DEFINE kept(k) == IF k \in Form!Written(keys) THEN Form!Sent(k) ELSE Form!Unset
               call == [pc |-> "save", keys |-> keys, values |-> [k \in Keys |-> kept(k)]]
    <2>1. ASSUME NEW k \in Keys
          PROVE  Form!Sent(k) \in Form!Values \cup {Form!Unset}
      BY <1>1 DEF Form!Sent
    <2>2. call \in [pc : {"none", "load", "loaded", "save"}, keys : SUBSET Keys,
                    values : [Keys -> Form!Values \cup {Form!Unset}]]
      BY <2>1
    <2>3. calls' = [calls EXCEPT ![c] = call]
      BY <1>4 DEF Form!Save
    <2>4. /\ saving' = keys /\ UNCHANGED <<form, entries, draft>>
          /\ wanted' = [k \in Keys |-> IF k \in Form!Written(keys) THEN Form!Sent(k) ELSE wanted[k]]
          /\ typed' = [k \in Keys |-> IF k \in keys THEN Form!Unset ELSE typed[k]]
      BY <1>4 DEF Form!Save
    <2> HIDE DEF call
    <2>5. calls' \in [Calls -> [pc : {"none", "load", "loaded", "save"}, keys : SUBSET Keys,
                                values : [Keys -> Form!Values \cup {Form!Unset}]]]
      BY <1>1, <2>2, <2>3
    <2>6. wanted' \in [Keys -> Form!Values \cup {Form!Unset}]
      BY <1>1, <2>1, <2>4
    <2>7. QED
      BY <1>1, <2>4, <2>5, <2>6
  <1>5. ASSUME NEW c \in Calls, Form!SaveApplies(c)
        PROVE  Form!DraftTypeOK' /\ Form!CallsFit'
    <2>1. /\ calls' = [calls EXCEPT ![c] = [Form!NoCall EXCEPT !.pc = "load",
                              !.keys = IF form = "emails" THEN {} ELSE calls[c].keys]]
          /\ saving' = IF form = "emails" THEN Form!Ended(c) ELSE saving
          /\ entries' = [k \in Keys |-> IF calls[c].values[k] = Form!Unset THEN entries[k]
                                                                 ELSE calls[c].values[k]]
          /\ UNCHANGED <<form, draft, typed, wanted>>
      BY <1>5 DEF Form!SaveApplies, Form!StoredBy
    <2>2. calls[c].values \in [Keys -> Form!Values \cup {Form!Unset}]
      BY <1>1
    <2>3. entries' \in [Keys -> Form!Values]
      BY <1>1, <2>1, <2>2
    <2>4. calls' \in [Calls -> [pc : {"none", "load", "loaded", "save"}, keys : SUBSET Keys,
                                values : [Keys -> Form!Values \cup {Form!Unset}]]]
      BY <1>1, <2>1
    <2>5. QED
      BY <1>1, <2>1, <2>3, <2>4 DEF Form!Ended
  <1>6. ASSUME NEW c \in Calls, Form!CallFails(c)
        PROVE  Form!DraftTypeOK' /\ Form!CallsFit'
    <2>1. /\ calls' = [calls EXCEPT ![c] = Form!NoCall] /\ saving' = Form!Ended(c)
          /\ UNCHANGED <<form, entries, draft, typed, wanted>>
      BY <1>6 DEF Form!CallFails
    <2>2. QED
      BY <1>1, <2>1 DEF Form!Ended
  <1>7. ASSUME NEW k \in Keys, NEW text \in Form!Values, Form!Type(k, text)
        PROVE  Form!DraftTypeOK' /\ Form!CallsFit'
    <2>1. /\ draft' = [draft EXCEPT ![k] = text] /\ typed' = [typed EXCEPT ![k] = text]
          /\ UNCHANGED <<form, entries, calls, saving, wanted>>
      BY <1>7 DEF Form!Type
    <2>2. QED
      BY <1>1, <2>1
  <1>8. CASE Form!OtherSaves
    BY <1>1, <1>8 DEF Form!OtherSaves
  <1>9. QED
    BY <1>2, <1>3, <1>4, <1>5, <1>6, <1>7, <1>8 DEF Form!DraftNext, Form!SaveField, Form!SaveCameras

\* No answer overwrites what is typed and not saved.
LEMMA NextTypingKept == Form!DraftInv /\ Form!DraftNext => Form!TypingKept'
  <1> SUFFICES ASSUME Form!DraftInv, Form!DraftNext
               PROVE  Form!TypingKept'
    OBVIOUS
  <1> USE DEF Form!TypingKept, Form!Unset
  <1>1. Form!DraftTypeOK /\ Form!CallsFit /\ Form!TypingKept
    BY DEF Form!DraftInv
  <1>2. ASSUME NEW c \in Calls, Form!LoadArrives(c)
        PROVE  Form!TypingKept'
    BY <1>1, <1>2 DEF Form!LoadArrives, Form!Merge
  <1>3. ASSUME NEW c \in Calls, NEW keys \in SUBSET Keys, Form!Save(c, keys)
        PROVE  Form!TypingKept'
    <2>1. /\ draft' = draft
          /\ typed' = [k \in Keys |-> IF k \in keys THEN Form!Unset ELSE typed[k]]
      BY <1>3 DEF Form!Save
    <2>2. QED
      BY <1>1, <2>1
  <1>4. ASSUME NEW k \in Keys, NEW text \in Form!Values, Form!Type(k, text)
        PROVE  Form!TypingKept'
    <2>1. /\ draft' = [draft EXCEPT ![k] = text] /\ typed' = [typed EXCEPT ![k] = text]
          /\ draft \in [Keys -> Form!Values \cup {Form!Unset}]
          /\ typed \in [Keys -> Form!Values \cup {Form!Unset}]
      BY <1>1, <1>4 DEF Form!Type, Form!DraftTypeOK, Form!CallsFit
    <2>2. QED
      BY <1>1, <2>1
  <1>5. CASE UNCHANGED <<draft, typed>>
    BY <1>1, <1>5
  <1>6. QED
    BY <1>2, <1>3, <1>4, <1>5 DEF Form!DraftNext, Form!SaveField, Form!SaveCameras,
       Form!ServeLoad, Form!SaveApplies, Form!CallFails, Form!OtherSaves

\* Of the saves of a field, one at a time, the last wanted is stored or on its way.
LEMMA NextSaves ==
    Form!DraftInv /\ Form!DraftNext => (Form!SavesWanted /\ Form!OneSaveEach /\ Form!WantedComes)'
  <1> DEFINE Goal == (Form!SavesWanted /\ Form!OneSaveEach /\ Form!WantedComes)'
  <1> SUFFICES ASSUME Form!DraftInv, Form!DraftNext
               PROVE  Goal
    OBVIOUS
  <1> USE DEF Form!SavesWanted, Form!OneSaveEach, Form!WantedComes, Form!Saves, Form!Unset
  <1>1. Form!DraftTypeOK /\ Form!CallsFit /\ Form!SavesWanted /\ Form!OneSaveEach /\ Form!WantedComes
    BY DEF Form!DraftInv
  <1>2. /\ calls \in [Calls -> [pc : {"none", "load", "loaded", "save"}, keys : SUBSET Keys,
                                values : [Keys -> Form!Values \cup {Form!Unset}]]]
        /\ entries \in [Keys -> Form!Values]
    BY <1>1 DEF Form!CallsFit, Form!DraftTypeOK
  \* A call that is no save, before and after, changes nothing.
  <1>3. ASSUME NEW c \in Calls, Form!ServeLoad(c) \/ Form!LoadArrives(c)
        PROVE  Goal
    <2>1. /\ \A d \in Calls : d # c => calls'[d] = calls[d]
          /\ calls[c].pc # "save" /\ calls'[c].pc # "save"
          /\ UNCHANGED <<entries, wanted, unsure>>
      BY <1>2, <1>3 DEF Form!ServeLoad, Form!LoadArrives, Form!NoCall
    <2>2. QED
      BY <1>1, <2>1
  <1>4. ASSUME NEW c \in Calls, NEW keys \in SUBSET Keys, Form!Save(c, keys)
        PROVE  Goal
    <2> DEFINE W == Form!Written(keys)
               kept == [k \in Keys |-> IF k \in W THEN Form!Sent(k) ELSE Form!Unset]
    <2>1. /\ calls[c].pc = "none"
          /\ calls' = [calls EXCEPT ![c] = [pc |-> "save", keys |-> keys, values |-> kept]]
          /\ wanted' = [k \in Keys |-> IF k \in W THEN Form!Sent(k) ELSE wanted[k]]
          /\ unsure' = unsure \cup {k \in keys : \E d \in Calls : calls[d].pc = "save" /\ k \in calls[d].keys}
          /\ entries' = entries
      BY <1>4 DEF Form!Save
    <2>2. W \subseteq keys
      BY DEF Form!Written
    <2>3. /\ \A d \in Calls : d # c => calls'[d] = calls[d]
          /\ calls'[c].pc = "save" /\ calls'[c].keys = keys
          /\ calls'[c].values = kept
      BY <1>2, <2>1
    <2>4. /\ \A k \in Keys : k \in W => kept[k] = wanted'[k]
          /\ \A k \in Keys : k \notin W => kept[k] = Form!Unset /\ wanted'[k] = wanted[k]
      BY <2>1
    <2>5. \A d \in Calls, k \in keys : calls[d].pc = "save" /\ k \in calls[d].keys => k \in unsure'
      BY <2>1
    <2>6. unsure \subseteq unsure' /\ entries' = entries /\ calls[c].pc = "none"
      BY <2>1
    <2> HIDE DEF W, kept
    <2>7. Form!SavesWanted'
      BY <1>1, <2>2, <2>3, <2>4, <2>5, <2>6
    <2>8. Form!OneSaveEach'
      BY <1>1, <2>3, <2>5, <2>6
    <2>9. Form!WantedComes'
      BY <1>1, <2>2, <2>3, <2>4, <2>6
    <2>10. QED
      BY <2>7, <2>8, <2>9
  <1>5. ASSUME NEW c \in Calls, Form!SaveApplies(c)
        PROVE  Goal
    <2>1. /\ calls[c].pc = "save"
          /\ entries' = [k \in Keys |-> IF calls[c].values[k] = Form!Unset THEN entries[k]
                                                                 ELSE calls[c].values[k]]
          /\ \A d \in Calls : d # c => calls'[d] = calls[d]
          /\ calls'[c].pc = "load"
          /\ UNCHANGED <<wanted, unsure>>
      BY <1>2, <1>5 DEF Form!SaveApplies, Form!StoredBy, Form!NoCall
    <2>2. QED
      BY <1>1, <2>1
  <1>6. ASSUME NEW c \in Calls, Form!CallFails(c)
        PROVE  Goal
    <2>1. /\ unsure' = IF calls[c].pc = "save" THEN unsure \cup calls[c].keys ELSE unsure
          /\ \A d \in Calls : d # c => calls'[d] = calls[d]
          /\ calls'[c].pc = "none"
          /\ UNCHANGED <<entries, wanted>>
      BY <1>2, <1>6 DEF Form!CallFails, Form!NoCall
    <2>2. QED
      BY <1>1, <2>1
  <1>7. CASE Form!OtherSaves
    <2>1. PICK k \in Keys, text \in Form!Values : /\ entries' = [entries EXCEPT ![k] = text]
                                                  /\ unsure' = unsure \cup {k}
      BY <1>7 DEF Form!OtherSaves
    <2>2. UNCHANGED <<calls, wanted>>
      BY <1>7 DEF Form!OtherSaves
    <2>3. QED
      BY <1>1, <1>2, <2>1, <2>2
  <1>8. ASSUME NEW k \in Keys, NEW text \in Form!Values, Form!Type(k, text)
        PROVE  Goal
    BY <1>1, <1>8 DEF Form!Type
  <1>9. QED
    BY <1>3, <1>4, <1>5, <1>6, <1>7, <1>8 DEF Form!DraftNext, Form!SaveField, Form!SaveCameras

\* Every step of a form keeps its invariant.
LEMMA NextDraftInv == Form!DraftInv /\ Form!DraftNext => Form!DraftInv'
  BY NextDraftTypes, NextTypingKept, NextSaves DEF Form!DraftInv

\* What the invariant of a form says of its drafts.
LEMMA DraftInvImplies == Form!DraftInv => TypingKept /\ LastSaveWins
  BY DEF Form!DraftInv, Form!WantedComes, Form!Saves, TypingKept, LastSaveWins, Form!LastSaveWins

(***************************************************************************)
(* The bell.                                                               *)
(***************************************************************************)

\* The bell comes in with INSTANCE: its cardinality is that of FiniteSets.
LEMMA BellCardinality == \A S : Bell!Cardinality(S) = Cardinality(S)
  BY DEF Bell!Cardinality, Cardinality, Bell!IsFiniteSet, IsFiniteSet

\* How many notifications are unread is a number the badge may show.
LEMMA UnreadCount ==
    /\ Bell!Cardinality(Bell!Unread) \in 0..MaxNotes
    /\ Bell!Unread = {} => Bell!Cardinality(Bell!Unread) = 0
  <1>1. IsFiniteSet(1..MaxNotes) /\ Cardinality(1..MaxNotes) = MaxNotes
    BY BellAssumption, FS_Interval
  <1>2. Bell!Unread \subseteq 1..MaxNotes
    BY DEF Bell!Unread, Bell!Notes
  <1>3. /\ IsFiniteSet(Bell!Unread)
        /\ Cardinality(Bell!Unread) <= Cardinality(1..MaxNotes)
    BY <1>1, <1>2, FS_Subset
  <1>4. Cardinality(Bell!Unread) \in Nat
    BY <1>3, FS_CardinalityType
  <1>5. Bell!Unread = {} => Cardinality(Bell!Unread) = 0
    BY FS_EmptySet
  <1>6. QED
    BY <1>1, <1>3, <1>4, <1>5, BellAssumption, BellCardinality

AskRecord ==
    [what : Bell!Bars \cup {"none", "list", "mark"}, served : BOOLEAN, count : 0..MaxNotes,
     at : Nat, notes : SUBSET Bell!Notes, read : SUBSET Bell!Notes]

\* The bell as the layout mounts it.
LEMMA InitBellInv == Bell!BellInit => Bell!BellInv
  <1> SUFFICES ASSUME Bell!BellInit
               PROVE  Bell!BellInv
    OBVIOUS
  <1> USE BellAssumption
  <1>1. /\ badge = [b \in Bell!Bars |-> 0] /\ basis = [b \in Bell!Bars |-> 0]
        /\ open = FALSE /\ listing = FALSE
        /\ listed = [notes |-> {}, read |-> {}] /\ fresh = {} /\ changes = 1
        /\ asks = [a \in Asks |-> Bell!NoAsk]
    BY DEF Bell!BellInit
  <1>2. inbox \in [Bell!Notes -> {"none", "unread", "read"}] /\ 0 \in 0..MaxNotes
    BY DEF Bell!BellInit
  <1>3. Bell!NoAsk \in AskRecord
    BY DEF Bell!NoAsk, Bell!Request, AskRecord
  <1>4. asks \in [Asks -> AskRecord]
    BY <1>1, <1>3
  <1>5. Bell!BellTypeOK
    BY <1>1, <1>2 DEF Bell!BellTypeOK
  <1>6. Bell!AsksFit
    BY <1>1, <1>4 DEF Bell!AsksFit, AskRecord
  <1>7. Bell!ListsFit /\ Bell!UnreadIsFresh /\ Bell!AnswersRight /\ Bell!BellIsHonest
    BY <1>1 DEF Bell!ListsFit, Bell!UnreadIsFresh, Bell!AnswersRight, Bell!BellIsHonest,
       Bell!NoAsk, Bell!Request
  <1>8. QED
    BY <1>5, <1>6, <1>7 DEF Bell!BellInv

\* A call that is sent, and a call whose answer has been taken or lost.
LEMMA CallSent ==
    ASSUME Bell!AsksFit, NEW a \in Asks, NEW what \in Bell!Bars \cup {"none", "list", "mark"},
           asks' = [asks EXCEPT ![a] = Bell!Request(what)]
    PROVE  /\ asks' \in [Asks -> AskRecord]
           /\ \A c \in Asks : c # a => asks'[c] = asks[c]
           /\ ~asks'[a].served /\ asks'[a].notes = {} /\ asks'[a].read = {} /\ asks'[a].at = 0
  <1>1. Bell!Request(what) \in AskRecord
    BY BellAssumption DEF AskRecord, Bell!Request
  <1>2. asks \in [Asks -> AskRecord]
    BY DEF Bell!AsksFit, AskRecord
  <1>3. asks'[a] = Bell!Request(what) /\ asks' \in [Asks -> AskRecord]
    BY <1>1, <1>2
  <1>4. QED
    BY <1>2, <1>3 DEF Bell!Request

LEMMA CallEnds ==
    ASSUME Bell!AsksFit, NEW a \in Asks, asks' = [asks EXCEPT ![a] = Bell!NoAsk]
    PROVE  /\ asks' \in [Asks -> AskRecord]
           /\ \A c \in Asks : c # a => asks'[c] = asks[c]
           /\ ~asks'[a].served /\ asks'[a].notes = {} /\ asks'[a].read = {} /\ asks'[a].at = 0
  BY CallSent DEF Bell!NoAsk

\* A step in which a call is sent or ends, and neither the inbox nor what is
\* shown changes.
LEMMA QuietStep ==
    ASSUME Bell!BellInv, NEW a \in Asks,
           asks' \in [Asks -> AskRecord], \A c \in Asks : c # a => asks'[c] = asks[c],
           ~asks'[a].served, asks'[a].notes = {}, asks'[a].read = {}, asks'[a].at = 0,
           open' \in BOOLEAN, listing' \in BOOLEAN,
           UNCHANGED <<inbox, badge, listed, changes, basis, fresh>>
    PROVE  Bell!BellInv'
  <1>1. Bell!BellTypeOK /\ Bell!AsksFit /\ Bell!ListsFit /\ Bell!UnreadIsFresh /\ Bell!AnswersRight
        /\ Bell!BellIsHonest
    BY DEF Bell!BellInv
  <1>2. Bell!Unread' = Bell!Unread
    BY DEF Bell!Unread
  <1>3. Bell!BellTypeOK'
    BY <1>1 DEF Bell!BellTypeOK
  <1>4. Bell!AsksFit'
    BY <1>1 DEF Bell!AsksFit, AskRecord
  <1>5. Bell!ListsFit'
    BY <1>1 DEF Bell!ListsFit
  <1>6. Bell!UnreadIsFresh'
    BY <1>1, <1>2 DEF Bell!UnreadIsFresh
  <1>7. Bell!AnswersRight'
    BY <1>1, <1>2 DEF Bell!AnswersRight, Bell!AsksFit
  <1>8. Bell!BellIsHonest'
    BY <1>1, <1>2 DEF Bell!BellIsHonest
  <1>9. QED
    BY <1>3, <1>4, <1>5, <1>6, <1>7, <1>8 DEF Bell!BellInv

\* Every step of the bell and of the inbox keeps its invariant.
LEMMA NextBellInv == Bell!BellInv /\ Bell!BellNext => Bell!BellInv'
  <1> SUFFICES ASSUME Bell!BellInv, Bell!BellNext
               PROVE  Bell!BellInv'
    OBVIOUS
  <1>1. /\ Bell!BellTypeOK /\ Bell!AsksFit /\ Bell!ListsFit
        /\ Bell!UnreadIsFresh /\ Bell!AnswersRight /\ Bell!BellIsHonest
    BY DEF Bell!BellInv
  <1>2. /\ asks \in [Asks -> AskRecord] /\ changes \in Nat /\ basis \in [Bell!Bars -> Nat]
        /\ inbox \in [Bell!Notes -> {"none", "unread", "read"}] /\ fresh \subseteq Bell!Notes
        /\ badge \in [Bell!Bars -> 0..MaxNotes] /\ "top" \in Bell!Bars
        /\ listed \in [notes : SUBSET Bell!Notes, read : SUBSET Bell!Notes]
        /\ listed.read \subseteq listed.notes
        /\ open \in BOOLEAN /\ listing \in BOOLEAN
    BY <1>1 DEF Bell!AsksFit, Bell!BellTypeOK, AskRecord, Bell!Bars
  <1>3. CASE Bell!Create
    <2>1. PICK n \in Bell!Notes : /\ inbox[n] = "none" /\ inbox' = [inbox EXCEPT ![n] = "unread"]
                                 /\ fresh' = IF Bell!Marking THEN fresh \cup {n} ELSE fresh
      BY <1>3 DEF Bell!Create
    <2>2. /\ changes' = changes + 1
          /\ UNCHANGED <<badge, open, listed, listing, asks, basis>>
      BY <1>3 DEF Bell!Create
    <2>3. Bell!Unread' \subseteq Bell!Unread \cup {n}
      BY <1>2, <2>1 DEF Bell!Unread
    <2>4. Bell!BellTypeOK' /\ Bell!AsksFit'
      BY <1>1, <1>2, <2>1, <2>2 DEF Bell!BellTypeOK, Bell!AsksFit
    <2>5. Bell!ListsFit'
      BY <1>1, <1>2, <2>1, <2>2 DEF Bell!ListsFit
    <2>6. Bell!UnreadIsFresh'
      BY <1>1, <2>1, <2>2, <2>3 DEF Bell!UnreadIsFresh, Bell!Marking
    <2>7. Bell!AnswersRight' /\ \A b \in Bell!Bars : basis'[b] # changes'
      BY <1>1, <1>2, <2>2 DEF Bell!AnswersRight, AskRecord
    <2>8. Bell!BellIsHonest'
      BY <1>1, <1>2, <2>1, <2>2, <2>7 DEF Bell!BellIsHonest
    <2>9. QED
      BY <2>4, <2>5, <2>6, <2>7, <2>8 DEF Bell!BellInv
  <1>4. CASE Bell!ClosePanel
    <2>1. open' = FALSE /\ Bell!Unread' = Bell!Unread
          /\ UNCHANGED <<inbox, badge, listed, listing, asks, changes, basis, fresh>>
      BY <1>4 DEF Bell!ClosePanel, Bell!Unread
    <2>2. QED
      BY <1>1, <2>1 DEF Bell!BellInv, Bell!BellTypeOK, Bell!AsksFit, Bell!ListsFit, Bell!UnreadIsFresh,
         Bell!AnswersRight, Bell!BellIsHonest
  <1>5. ASSUME NEW a \in Asks, Bell!ServeCount(a)
        PROVE  Bell!BellInv'
    <2>1. /\ asks[a].what \in Bell!Bars
          /\ asks' = [asks EXCEPT ![a] = Bell!Reply(a, Bell!Cardinality(Bell!Unread), changes, {}, {})]
          /\ UNCHANGED <<inbox, badge, open, listed, listing, changes, basis, fresh>>
      BY <1>5 DEF Bell!ServeCount
    <2> DEFINE answer == Bell!Reply(a, Bell!Cardinality(Bell!Unread), changes, {}, {})
    <2>2. /\ answer \in AskRecord /\ answer.what = asks[a].what /\ answer.at = changes
          /\ answer.count = Bell!Cardinality(Bell!Unread) /\ answer.notes = {} /\ answer.read = {}
      BY <1>2, UnreadCount DEF AskRecord, Bell!Reply
    <2> HIDE DEF answer
    <2>3. /\ asks' \in [Asks -> AskRecord] /\ asks'[a] = answer
          /\ \A c \in Asks : c # a => asks'[c] = asks[c]
      BY <1>2, <2>1, <2>2 DEF answer
    <2>4. Bell!Unread' = Bell!Unread
      BY <2>1 DEF Bell!Unread
    <2>5. Bell!BellTypeOK' /\ Bell!AsksFit'
      BY <1>1, <2>1, <2>3 DEF Bell!BellTypeOK, Bell!AsksFit, AskRecord
    <2>6. Bell!ListsFit' /\ Bell!UnreadIsFresh'
      BY <1>1, <2>1, <2>2, <2>3, <2>4 DEF Bell!ListsFit, Bell!UnreadIsFresh, Bell!Bars
    <2>7. Bell!AnswersRight'
      BY <1>1, <1>2, <2>1, <2>2, <2>3, <2>4 DEF Bell!AnswersRight, Bell!Bars
    <2>8. Bell!BellIsHonest'
      BY <1>1, <2>1, <2>4 DEF Bell!BellIsHonest
    <2>9. QED
      BY <2>5, <2>6, <2>7, <2>8 DEF Bell!BellInv
  <1>6. ASSUME NEW a \in Asks, Bell!ServeList(a)
        PROVE  Bell!BellInv'
    <2> DEFINE answer == Bell!Reply(a, 0, changes, Bell!Newest, Bell!Newest \ Bell!Unread)
    <2>1. /\ asks[a].what = "list"
          /\ asks' = [asks EXCEPT ![a] = answer]
          /\ UNCHANGED <<inbox, badge, open, listed, listing, changes, basis, fresh>>
      BY <1>6 DEF Bell!ServeList
    <2>2. /\ Bell!Newest \subseteq Bell!Notes
          /\ \A n \in Bell!Newest : inbox[n] # "none"
          /\ \A n \in Bell!Newest \ Bell!Unread : inbox[n] = "read"
      BY <1>2 DEF Bell!Newest, Bell!Unread
    <2>3. /\ answer \in AskRecord /\ answer.what = "list" /\ answer.at = changes
          /\ answer.notes = Bell!Newest /\ answer.read = Bell!Newest \ Bell!Unread
      BY <1>2, <2>1, <2>2, BellAssumption DEF AskRecord, Bell!Reply
    <2> HIDE DEF answer
    <2>4. /\ asks' \in [Asks -> AskRecord] /\ asks'[a] = answer
          /\ \A c \in Asks : c # a => asks'[c] = asks[c]
      BY <1>2, <2>1, <2>3
    <2>5. Bell!Unread' = Bell!Unread
      BY <2>1 DEF Bell!Unread
    <2>6. Bell!BellTypeOK' /\ Bell!AsksFit'
      BY <1>1, <2>1, <2>4 DEF Bell!BellTypeOK, Bell!AsksFit, AskRecord
    <2>7. Bell!ListsFit'
      BY <1>1, <2>1, <2>2, <2>3, <2>4 DEF Bell!ListsFit
    <2>8. Bell!UnreadIsFresh'
      BY <1>1, <2>1, <2>3, <2>4, <2>5 DEF Bell!UnreadIsFresh
    <2>9. Bell!AnswersRight'
      BY <1>1, <1>2, <2>1, <2>3, <2>4, <2>5 DEF Bell!AnswersRight, Bell!Bars
    <2>10. Bell!BellIsHonest'
      BY <1>1, <2>1, <2>5 DEF Bell!BellIsHonest
    <2>11. QED
      BY <2>6, <2>7, <2>8, <2>9, <2>10 DEF Bell!BellInv
  <1>7. ASSUME NEW a \in Asks, Bell!ServeMark(a)
        PROVE  Bell!BellInv'
    <2> DEFINE answer == Bell!Reply(a, 0, changes + 1, {}, {})
    <2>1. /\ asks[a].what = "mark" /\ inbox' = Bell!AllRead /\ changes' = changes + 1
          /\ asks' = [asks EXCEPT ![a] = answer]
          /\ UNCHANGED <<badge, open, listed, listing, basis, fresh>>
      BY <1>7 DEF Bell!ServeMark
    <2>2. /\ answer \in AskRecord /\ answer.what = "mark" /\ answer.at = changes + 1
          /\ answer.notes = {} /\ answer.read = {}
      BY <1>2, <2>1, BellAssumption DEF AskRecord, Bell!Reply
    <2> HIDE DEF answer
    <2>3. /\ asks' \in [Asks -> AskRecord] /\ asks'[a] = answer
          /\ \A c \in Asks : c # a => asks'[c] = asks[c]
      BY <1>2, <2>1, <2>2
    <2>4. /\ inbox' \in [Bell!Notes -> {"none", "unread", "read"}]
          /\ \A n \in Bell!Notes : /\ inbox'[n] # "unread"
                                   /\ inbox[n] # "none" => inbox'[n] # "none"
                                   /\ inbox[n] = "read" => inbox'[n] = "read"
      BY <1>2, <2>1 DEF Bell!AllRead
    <2>5. Bell!Unread' = {}
      BY <2>4 DEF Bell!Unread
    <2>6. Bell!BellTypeOK' /\ Bell!AsksFit'
      BY <1>1, <1>2, <2>1, <2>3, <2>4 DEF Bell!BellTypeOK, Bell!AsksFit, AskRecord
    <2>7. Bell!ListsFit'
      BY <1>1, <1>2, <2>1, <2>2, <2>3, <2>4 DEF Bell!ListsFit, AskRecord
    <2>8. Bell!UnreadIsFresh'
      BY <2>5 DEF Bell!UnreadIsFresh
    <2>9. Bell!AnswersRight' /\ \A b \in Bell!Bars : basis'[b] # changes'
      BY <1>1, <1>2, <2>1, <2>2, <2>3, <2>5 DEF Bell!AnswersRight, AskRecord, Bell!Bars
    <2>10. Bell!BellIsHonest'
      BY <1>1, <1>2, <2>1, <2>4, <2>9 DEF Bell!BellIsHonest
    <2>11. QED
      BY <2>6, <2>7, <2>8, <2>9, <2>10 DEF Bell!BellInv
  <1>8. ASSUME NEW a \in Asks, Bell!CountArrives(a)
        PROVE  Bell!BellInv'
    <2>1. /\ asks[a].what \in Bell!Bars /\ asks[a].served
          /\ badge' = [badge EXCEPT ![asks[a].what] = asks[a].count]
          /\ basis' = [basis EXCEPT ![asks[a].what] = asks[a].at]
          /\ asks' = [asks EXCEPT ![a] = Bell!NoAsk]
          /\ UNCHANGED <<inbox, open, listed, listing, changes, fresh>>
      BY <1>8 DEF Bell!CountArrives
    <2>2. /\ asks' \in [Asks -> AskRecord]
          /\ \A c \in Asks : c # a => asks'[c] = asks[c]
          /\ ~asks'[a].served /\ asks'[a].notes = {} /\ asks'[a].read = {} /\ asks'[a].at = 0
      BY <1>1, <2>1, CallEnds
    <2>3. Bell!Unread' = Bell!Unread
      BY <2>1 DEF Bell!Unread
    <2>4. asks[a].count \in 0..MaxNotes /\ asks[a].at \in Nat
      BY <1>2 DEF AskRecord
    <2>5. Bell!BellTypeOK' /\ Bell!AsksFit'
      BY <1>1, <1>2, <2>1, <2>2, <2>4 DEF Bell!BellTypeOK, Bell!AsksFit, AskRecord
    <2>6. Bell!ListsFit' /\ Bell!UnreadIsFresh'
      BY <1>1, <2>1, <2>2, <2>3 DEF Bell!ListsFit, Bell!UnreadIsFresh
    <2>7. asks[a].at <= changes /\ (asks[a].at = changes => asks[a].count = Bell!Cardinality(Bell!Unread))
      BY <1>1, <2>1 DEF Bell!AnswersRight
    <2>8. Bell!AnswersRight'
      BY <1>1, <1>2, <2>1, <2>2, <2>3, <2>7 DEF Bell!AnswersRight
    <2>9. Bell!BellIsHonest'
      BY <1>1, <1>2, <2>1, <2>3, <2>7 DEF Bell!BellIsHonest
    <2>10. QED
      BY <2>5, <2>6, <2>8, <2>9 DEF Bell!BellInv
  <1>9. ASSUME NEW a \in Asks, Bell!ListArrives(a)
        PROVE  Bell!BellInv'
    <2>1. /\ listed' = [notes |-> asks[a].notes, read |-> asks[a].read] /\ listing' = FALSE
          /\ asks' = [asks EXCEPT ![a] = Bell!NoAsk]
          /\ UNCHANGED <<inbox, badge, open, changes, basis, fresh>>
      BY <1>9 DEF Bell!ListArrives
    <2>2. /\ asks' \in [Asks -> AskRecord]
          /\ \A c \in Asks : c # a => asks'[c] = asks[c]
          /\ ~asks'[a].served /\ asks'[a].notes = {} /\ asks'[a].read = {} /\ asks'[a].at = 0
      BY <1>1, <2>1, CallEnds
    <2>3. Bell!Unread' = Bell!Unread
      BY <2>1 DEF Bell!Unread
    <2>4. asks[a].notes \subseteq Bell!Notes /\ asks[a].read \subseteq asks[a].notes
      BY <1>1, <1>2 DEF AskRecord, Bell!ListsFit
    <2>5. Bell!BellTypeOK' /\ Bell!AsksFit'
      BY <1>1, <1>2, <2>1, <2>2, <2>4 DEF Bell!BellTypeOK, Bell!AsksFit, AskRecord
    <2>6. Bell!ListsFit'
      BY <1>1, <2>1, <2>2 DEF Bell!ListsFit
    <2>7. Bell!UnreadIsFresh' /\ Bell!AnswersRight'
      BY <1>1, <1>2, <2>1, <2>2, <2>3 DEF Bell!UnreadIsFresh, Bell!AnswersRight
    <2>8. Bell!BellIsHonest'
      BY <1>1, <2>1, <2>3 DEF Bell!BellIsHonest, Bell!ListsFit
    <2>9. QED
      BY <2>5, <2>6, <2>7, <2>8 DEF Bell!BellInv
  <1>10. ASSUME NEW a \in Asks, Bell!MarkAnswered(a)
         PROVE  Bell!BellInv'
    <2>1. /\ asks[a].what = "mark" /\ asks[a].served
          /\ badge' = [badge EXCEPT !["top"] = 0]
          /\ basis' = [basis EXCEPT !["top"] = asks[a].at]
          /\ asks' = [asks EXCEPT ![a] = Bell!NoAsk]
          /\ UNCHANGED <<inbox, open, listing, changes, fresh>>
      BY <1>10 DEF Bell!MarkAnswered
    <2>2. /\ asks' \in [Asks -> AskRecord]
          /\ \A c \in Asks : c # a => asks'[c] = asks[c]
          /\ ~asks'[a].served /\ asks'[a].notes = {} /\ asks'[a].read = {} /\ asks'[a].at = 0
      BY <1>1, <2>1, CallEnds
    <2>3. Bell!Unread' = Bell!Unread
      BY <2>1 DEF Bell!Unread
    <2>4. listed' = [notes |-> listed.notes, read |-> listed.notes]
      BY <1>10 DEF Bell!MarkAnswered
    <2>5. asks[a].at \in Nat /\ 0 \in 0..MaxNotes
      BY <1>2, BellAssumption DEF AskRecord
    <2>6. Bell!BellTypeOK' /\ Bell!AsksFit'
      BY <1>1, <1>2, <2>1, <2>2, <2>4, <2>5 DEF Bell!BellTypeOK, Bell!AsksFit, AskRecord
    <2>7. Bell!ListsFit' /\ Bell!UnreadIsFresh'
      BY <1>1, <2>1, <2>2, <2>3, <2>4 DEF Bell!ListsFit, Bell!UnreadIsFresh
    <2>8. asks[a].at <= changes /\ (asks[a].at = changes => Bell!Cardinality(Bell!Unread) = 0)
      BY <1>1, <2>1, UnreadCount DEF Bell!AnswersRight
    <2>9. Bell!AnswersRight'
      BY <1>1, <1>2, <2>1, <2>2, <2>3, <2>8 DEF Bell!AnswersRight
    <2>10. \A n \in listed.notes : inbox[n] = "read" \/ n \in fresh
      BY <1>1, <1>2, <2>1 DEF Bell!ListsFit, Bell!UnreadIsFresh, Bell!Unread
    <2>11. Bell!BellIsHonest'
      BY <1>1, <1>2, <2>1, <2>3, <2>4, <2>8, <2>10 DEF Bell!BellIsHonest
    <2>12. QED
      BY <2>6, <2>7, <2>9, <2>11 DEF Bell!BellInv
  <1>11. ASSUME NEW a \in Asks, Bell!AskFails(a)
         PROVE  Bell!BellInv'
    <2>1. /\ asks' = [asks EXCEPT ![a] = Bell!NoAsk]
          /\ listing' \in BOOLEAN /\ open' \in BOOLEAN
          /\ UNCHANGED <<inbox, badge, listed, changes, basis, fresh>>
      BY <1>2, <1>11 DEF Bell!AskFails
    <2>2. QED
      BY <1>1, <2>1, CallEnds, QuietStep
  <1>12. ASSUME NEW a \in Asks, NEW what \in Bell!Bars \cup {"none", "list", "mark"},
                Bell!Ask(a, what),
                open' \in BOOLEAN, listing' \in BOOLEAN,
                UNCHANGED <<inbox, badge, listed, changes, basis, fresh>>
         PROVE  Bell!BellInv'
    <2>1. asks' = [asks EXCEPT ![a] = Bell!Request(what)]
      BY <1>12 DEF Bell!Ask
    <2>2. QED
      BY <1>1, <1>12, <2>1, CallSent, QuietStep
  <1>13. ASSUME NEW a \in Asks, Bell!OpenPanel(a)
         PROVE  Bell!BellInv'
    BY <1>12, <1>13 DEF Bell!OpenPanel
  <1>14. ASSUME NEW a \in Asks, Bell!MarkAll(a)
         PROVE  Bell!BellInv'
    BY <1>2, <1>12, <1>14 DEF Bell!MarkAll, Bell!ShownMeanwhile
  <1>15. ASSUME NEW a \in Asks, NEW b \in Bell!Bars, Bell!Poll(a, b)
         PROVE  Bell!BellInv'
    BY <1>2, <1>12, <1>15 DEF Bell!Poll
  <1>16. QED
    BY <1>3, <1>4, <1>5, <1>6, <1>7, <1>8, <1>9, <1>10, <1>11, <1>13, <1>14, <1>15 DEF Bell!BellNext

\* What the invariant of the bell says of its badge and its panel.
LEMMA BellInvImplies == Bell!BellInv => BellIsHonest
  BY DEF Bell!BellInv, BellIsHonest


(***************************************************************************)
(* The route planner.                                                      *)
(***************************************************************************)

\* The planner comes in with INSTANCE too.
LEMMA RouteCardinality == \A S : Route!Cardinality(S) = Cardinality(S)
  BY DEF Route!Cardinality, Cardinality, Route!IsFiniteSet, IsFiniteSet

\* The sort by fill puts the bins in a strict total order.
LEMMA FullerOrder ==
    ASSUME fill \in Seq(Nat)
    PROVE  /\ \A b \in DOMAIN fill : ~Route!Fuller(b, b)
           /\ \A b, c \in DOMAIN fill : b # c => Route!Fuller(b, c) \/ Route!Fuller(c, b)
           /\ \A b, c \in DOMAIN fill : Route!Fuller(b, c) => ~Route!Fuller(c, b) /\ fill[b] >= fill[c]
           /\ \A b, c, d \in DOMAIN fill :
                 Route!Fuller(b, c) /\ Route!Fuller(c, d) => Route!Fuller(b, d)
  <1>1. \A b \in DOMAIN fill : b \in Nat /\ fill[b] \in Nat
    OBVIOUS
  <1> DEFINE D == DOMAIN fill
  <1> HIDE DEF D
  <1>2. \A b \in D : b \in Nat /\ fill[b] \in Nat
    BY <1>1 DEF D
  <1>3. /\ \A b \in D : ~Route!Fuller(b, b)
        /\ \A b, c \in D : b # c => Route!Fuller(b, c) \/ Route!Fuller(c, b)
        /\ \A b, c \in D : Route!Fuller(b, c) => ~Route!Fuller(c, b) /\ fill[b] >= fill[c]
    BY <1>2 DEF Route!Fuller
  <1>4. \A b, c, d \in D : Route!Fuller(b, c) /\ Route!Fuller(c, d) => Route!Fuller(b, d)
    BY <1>2 DEF Route!Fuller
  <1>5. QED
    BY <1>3, <1>4 DEF D

\* Bins are finitely many.
LEMMA BinsFinite ==
    ASSUME fill \in Seq(Nat)
    PROVE  IsFiniteSet(DOMAIN fill) /\ \A S \in SUBSET (DOMAIN fill) : IsFiniteSet(S) /\ Cardinality(S) \in Nat
  <1>1. DOMAIN fill = 1..Len(fill) /\ Len(fill) \in Nat
    OBVIOUS
  <1>2. IsFiniteSet(DOMAIN fill)
    BY <1>1, FS_Interval
  <1>3. QED
    BY <1>2, FS_Subset, FS_CardinalityType

\* Among some bins one comes first, and one last.
LEMMA FirstOf ==
    ASSUME fill \in Seq(Nat), NEW S \in SUBSET (DOMAIN fill), S # {}
    PROVE  \E b \in S : \A c \in S \ {b} : Route!Fuller(b, c)
  <1> DEFINE Up(b) == {d \in S : Route!Fuller(d, b) \/ d = b}
             F == {Up(b) : b \in S}
  <1>1. Finitary(F, S)
    BY BinsFinite DEF Finitary
  <1>2. PICK U : Minimal(U, F)
    <2> HIDE DEF F
    <2> QED BY <1>1, SmallestSet
  <1>3. PICK b \in S : U = Up(b)
    BY <1>2 DEF Minimal
  <1>4. ASSUME NEW c \in S, c # b, ~Route!Fuller(b, c)
        PROVE  FALSE
    <2>1. Route!Fuller(c, b) /\ b \in DOMAIN fill /\ c \in DOMAIN fill
      BY <1>4, FullerOrder
    <2>2. Up(c) \subseteq Up(b)
      BY <2>1, FullerOrder
    <2>3. b \in Up(b) /\ b \notin Up(c)
      BY <1>4, <2>1
    <2>4. QED
      BY <1>2, <1>3, <2>2, <2>3 DEF Minimal
  <1>5. QED
    BY <1>4

LEMMA LastOf ==
    ASSUME fill \in Seq(Nat), NEW S \in SUBSET (DOMAIN fill), S # {}
    PROVE  \E b \in S : \A c \in S \ {b} : Route!Fuller(c, b)
  <1> DEFINE Down(b) == {d \in S : Route!Fuller(b, d) \/ d = b}
             F == {Down(b) : b \in S}
  <1>1. Finitary(F, S)
    BY BinsFinite DEF Finitary
  <1>2. PICK U : Minimal(U, F)
    <2> HIDE DEF F
    <2> QED BY <1>1, SmallestSet
  <1>3. PICK b \in S : U = Down(b)
    BY <1>2 DEF Minimal
  <1>4. ASSUME NEW c \in S, c # b, ~Route!Fuller(c, b)
        PROVE  FALSE
    <2>1. Route!Fuller(b, c) /\ b \in DOMAIN fill /\ c \in DOMAIN fill
      BY <1>4, FullerOrder
    <2>2. Down(c) \subseteq Down(b)
      BY <2>1, FullerOrder
    <2>3. b \in Down(b) /\ b \notin Down(c)
      BY <1>4, <2>1, FullerOrder
    <2>4. QED
      BY <1>2, <1>3, <2>2, <2>3 DEF Minimal
  <1>5. QED
    BY <1>4

\* What the cap leaves: no more than the limit, fewer only if all are there, and
\* the fullest.
LEMMA CappedFits ==
    ASSUME fill \in Seq(Nat), NEW t, NEW n \in Nat
    PROVE  /\ Route!Capped(t, n) \subseteq Route!Candidates(t)
           /\ Route!Candidates(t) \subseteq DOMAIN fill
           /\ Cardinality(Route!Capped(t, n)) <= n
           /\ Cardinality(Route!Capped(t, n)) = n \/ Route!Capped(t, n) = Route!Candidates(t)
           /\ \A b \in Route!Capped(t, n), c \in Route!Candidates(t) \ Route!Capped(t, n) :
                 fill[b] >= fill[c]
  <1> DEFINE D == Route!Candidates(t)
             C == Route!Capped(t, n)
             Above(b) == {c \in D : Route!Fuller(c, b)}
             rank(b) == Cardinality(Above(b))
  <1>1. D \subseteq DOMAIN fill
    BY DEF Route!Candidates
  <1>2. C \subseteq D /\ \A b \in D : b \in C <=> rank(b) < n
    BY RouteCardinality DEF Route!Capped
  <1> HIDE DEF C, D, rank
  <1>3. \A b \in D : IsFiniteSet(Above(b))
    BY <1>1, BinsFinite
  <1>4. \A b \in D : rank(b) \in Nat
    BY <1>1, BinsFinite DEF rank
  <1>5. IsFiniteSet(C) /\ Cardinality(C) \in Nat
    BY <1>1, <1>2, BinsFinite
  <1>6. ASSUME NEW b \in C, NEW c \in D, Route!Fuller(c, b)
        PROVE  c \in C
    <2>1. Above(c) \subseteq Above(b)
      BY <1>1, <1>2, <1>6, FullerOrder
    <2>2. rank(c) <= rank(b)
      <3> HIDE DEF Above
      <3>1. IsFiniteSet(Above(b)) /\ Above(c) \subseteq Above(b)
        BY <1>2, <1>3, <2>1
      <3>2. QED
        BY <3>1, FS_Subset DEF rank
    <2>3. QED
      BY <1>2, <1>4, <2>2
  <1>7. Cardinality(C) <= n
    <2>1. CASE C = {}
      BY <2>1, FS_EmptySet
    <2>2. CASE C # {}
      <3>1. PICK m \in C : \A c \in C \ {m} : Route!Fuller(c, m)
        BY <1>1, <1>2, <2>2, LastOf
      <3>2. Above(m) = C \ {m}
        BY <1>1, <1>2, <1>6, <3>1, FullerOrder
      <3>3. rank(m) = Cardinality(C) - 1
        BY <1>5, <3>2, FS_RemoveElement DEF rank
      <3>4. rank(m) < n
        BY <1>2
      <3>5. QED
        BY <1>5, <3>3, <3>4
    <2>3. QED
      BY <2>1, <2>2
  <1>8. C = D \/ Cardinality(C) >= n
    <2> SUFFICES ASSUME D \ C # {}
                 PROVE  Cardinality(C) >= n
      BY <1>2
    <2>1. PICK m \in D \ C : \A c \in (D \ C) \ {m} : Route!Fuller(m, c)
      BY <1>1, FirstOf
    <2>2. Above(m) \subseteq C
      BY <1>1, <2>1, FullerOrder
    <2>3. rank(m) <= Cardinality(C)
      <3> HIDE DEF Above
      <3>1. QED
        BY <1>5, <2>2, FS_Subset DEF rank
    <2>4. QED
      BY <1>2, <1>5, <1>4, <2>3
  <1>9. ASSUME NEW b \in C, NEW c \in D \ C
        PROVE  fill[b] >= fill[c]
    <2>1. b \in DOMAIN fill /\ c \in DOMAIN fill /\ b # c /\ ~Route!Fuller(c, b)
      BY <1>1, <1>2, <1>6
    <2>2. QED
      BY <2>1, FullerOrder
  <1>10. QED
    BY <1>1, <1>2, <1>5, <1>7, <1>8, <1>9 DEF C, D

\* Nearest neighbour always finds a next stop.
LEMMA NextStopFits ==
    ASSUME Route!PlanFits, plan.left # {}
    PROVE  Route!NextStop \in plan.left
  <1>1. /\ fill \in Seq(Nat) /\ place \in [DOMAIN fill -> Places] /\ plan.left \subseteq DOMAIN fill
        /\ plan.stops \in Seq(DOMAIN fill)
    BY DEF Route!PlanFits
  <1>2. Route!Here \in Nat \X Nat
    <2>1. CASE plan.stops = <<>>
      BY <2>1, PlannerAssumption DEF Route!Here
    <2>2. CASE plan.stops # <<>>
      <3>1. Route!Last(plan.stops) \in DOMAIN fill
        BY <1>1, <2>2 DEF Route!Last
      <3>2. QED
        BY <1>1, <2>2, <3>1, PlannerAssumption DEF Route!Here
    <2>3. QED
      BY <2>1, <2>2
  <1> DEFINE far(b) == Route!Distance(Route!Here, place[b])
             T == {far(b) : b \in plan.left}
  <1>3. \A b \in plan.left : far(b) \in Nat
    <2>1. \A b \in plan.left : place[b] \in Nat \X Nat
      BY <1>1, PlannerAssumption
    <2>2. QED
      BY <1>2, <2>1 DEF Route!Distance, Route!Apart
  <1> HIDE DEF far
  <1>4. PICK d \in T : \A e \in T : d <= e
    BY <1>3, NatMin
  <1>5. PICK b \in plan.left : far(b) = d
    BY <1>4
  <1>6. b \in Route!Nearest /\ Route!Nearest \subseteq plan.left
    BY <1>4, <1>5 DEF Route!Nearest, far
  <1>7. \E s \in Route!Nearest : \A c \in Route!Nearest \ {s} : Route!Fuller(s, c)
    BY <1>1, <1>6, FirstOf
  <1>8. QED
    BY <1>6, <1>7 DEF Route!NextStop

\* A stop at the end is one more.
LEMMA StopAdded ==
    ASSUME NEW s, NEW r, NEW n \in Nat, NEW b, DOMAIN s = 1..n, DOMAIN r = 1..(n + 1),
           r[n + 1] = b, \A j \in 1..n : r[j] = s[j]
    PROVE  /\ Route!ToSet(r) = Route!ToSet(s) \cup {b}
           /\ Route!IsInjective(s) /\ b \notin Route!ToSet(s) => Route!IsInjective(r)
  <1>1. 1..(n + 1) = (1..n) \cup {n + 1} /\ n + 1 \notin 1..n
    OBVIOUS
  <1>2. Route!ToSet(r) = Route!ToSet(s) \cup {b}
    BY <1>1 DEF Route!ToSet
  <1>3. ASSUME Route!IsInjective(s), b \notin Route!ToSet(s),
               NEW i \in DOMAIN r, NEW j \in DOMAIN r, r[i] = r[j]
        PROVE  i = j
    <2>1. \A m \in 1..n : r[m] # r[n + 1]
      BY <1>3 DEF Route!ToSet
    <2>2. CASE i \in 1..n /\ j \in 1..n
      BY <1>3, <2>2 DEF Route!IsInjective
    <2>3. QED
      BY <1>1, <1>3, <2>1, <2>2
  <1>4. QED
    BY <1>2, <1>3 DEF Route!IsInjective

\* A part that is turned round keeps the stops and their number.
LEMMA ReversedFits ==
    ASSUME NEW S, NEW s \in Seq(S), NEW i \in 1..Len(s), NEW k \in i..Len(s)
    PROVE  LET r == Route!Reversed(s, i, k)
           IN  /\ r \in Seq(S) /\ Len(r) = Len(s)
               /\ Route!ToSet(r) = Route!ToSet(s)
               /\ Route!IsInjective(s) => Route!IsInjective(r)
  <1> DEFINE r == Route!Reversed(s, i, k)
             to(j) == IF i <= j /\ j <= k THEN i + k - j ELSE j
  <1>1. DOMAIN s = 1..Len(s) /\ Len(s) \in Nat
    OBVIOUS
  <1>2. \A j \in DOMAIN s : to(j) \in DOMAIN s /\ to(to(j)) = j
    BY <1>1
  <1>3. DOMAIN r = DOMAIN s /\ \A j \in DOMAIN s : r[j] = s[to(j)]
    BY DEF Route!Reversed
  <1> HIDE DEF r, to
  <1>4. \A j \in DOMAIN s : s[j] \in S
    OBVIOUS
  <1>5. r = [j \in 1..Len(s) |-> r[j]] /\ \A j \in 1..Len(s) : r[j] \in S
    BY <1>1, <1>2, <1>3, <1>4 DEF r, Route!Reversed
  <1>6. r \in Seq(S) /\ Len(r) = Len(s)
    BY <1>1, <1>5
  <1>7. Route!ToSet(r) = Route!ToSet(s)
    BY <1>2, <1>3 DEF Route!ToSet
  <1>8. Route!IsInjective(s) => Route!IsInjective(r)
    BY <1>2, <1>3 DEF Route!IsInjective
  <1>9. QED
    BY <1>6, <1>7, <1>8 DEF r

\* It is the part in between, reversed, as the code cuts it out.
LEMMA ReversedIsCut ==
    ASSUME NEW S, NEW s \in Seq(S), NEW i \in 1..Len(s), NEW k \in i..Len(s)
    PROVE  SubSeq(s, 1, i - 1) \o Route!Reverse(SubSeq(s, i, k)) \o SubSeq(s, k + 1, Len(s))
             = Route!Reversed(s, i, k)
  <1>1. /\ SubSeq(s, 1, i - 1) \in Seq(S) /\ Len(SubSeq(s, 1, i - 1)) = i - 1
        /\ \A j \in 1..(i - 1) : SubSeq(s, 1, i - 1)[j] = s[j]
    OBVIOUS
  <1>2. /\ SubSeq(s, i, k) \in Seq(S) /\ Len(SubSeq(s, i, k)) = k - i + 1
        /\ \A j \in 1..(k - i + 1) : SubSeq(s, i, k)[j] = s[i + j - 1]
    OBVIOUS
  <1>3. /\ SubSeq(s, k + 1, Len(s)) \in Seq(S) /\ Len(SubSeq(s, k + 1, Len(s))) = Len(s) - k
        /\ \A j \in 1..(Len(s) - k) : SubSeq(s, k + 1, Len(s))[j] = s[k + j]
    OBVIOUS
  <1> DEFINE a == SubSeq(s, 1, i - 1)
             p == SubSeq(s, i, k)
             b == Route!Reverse(p)
             c == SubSeq(s, k + 1, Len(s))
             r == Route!Reversed(s, i, k)
  <1> HIDE DEF a, p, c
  <1>4. /\ b \in Seq(S) /\ Len(b) = k - i + 1
        /\ \A j \in 1..(k - i + 1) : b[j] = s[k + 1 - j]
    <2>1. p \in Seq(S) /\ Len(p) = k - i + 1 /\ \A j \in 1..(k - i + 1) : p[j] = s[i + j - 1]
      BY <1>2 DEF p
    <2>2. b = [j \in 1..(k - i + 1) |-> p[k - i + 1 - j + 1]]
      BY <2>1 DEF Route!Reverse
    <2>3. \A j \in 1..(k - i + 1) : k - i + 1 - j + 1 \in 1..(k - i + 1)
      OBVIOUS
    <2>4. \A j \in 1..(k - i + 1) : p[k - i + 1 - j + 1] = s[k + 1 - j]
      BY <2>1, <2>3
    <2>5. \A j \in 1..(k - i + 1) : p[k - i + 1 - j + 1] \in S
      BY <2>1, <2>3
    <2>6. k - i + 1 \in Nat
      OBVIOUS
    <2> HIDE DEF b
    <2>7. QED
      BY <2>2, <2>4, <2>5, <2>6
  <1> HIDE DEF b
  <1>5. a \in Seq(S) /\ Len(a) = i - 1 /\ \A j \in 1..(i - 1) : a[j] = s[j]
    BY <1>1 DEF a
  <1>6. c \in Seq(S) /\ Len(c) = Len(s) - k /\ \A j \in 1..(Len(s) - k) : c[j] = s[k + j]
    BY <1>3 DEF c
  <1>7. /\ a \o b \in Seq(S) /\ Len(a \o b) = k
        /\ \A j \in 1..k : (a \o b)[j] = IF j < i THEN s[j] ELSE s[i + k - j]
    <2>1. a \o b \in Seq(S) /\ Len(a \o b) = Len(a) + Len(b)
      <3>1. a \in Seq(S) /\ b \in Seq(S)
        BY <1>4, <1>5
      <3>2. QED
        BY <3>1, ConcatProperties
    <2>2. \A j \in 1..(Len(a) + Len(b)) : (a \o b)[j] = IF j <= Len(a) THEN a[j] ELSE b[j - Len(a)]
      BY <1>4, <1>5, ConcatProperties
    <2>3. ASSUME NEW j \in 1..k
          PROVE  (a \o b)[j] = IF j < i THEN s[j] ELSE s[i + k - j]
      <3>1. CASE j < i
        BY <1>4, <1>5, <2>2, <3>1
      <3>2. CASE ~(j < i)
        <4>1. j - Len(a) \in 1..(k - i + 1) /\ ~(j <= Len(a)) /\ k + 1 - (j - Len(a)) = i + k - j
          BY <1>5, <3>2
        <4>2. b[j - Len(a)] = s[i + k - j]
          BY <1>4, <4>1
        <4>3. j \in 1..(Len(a) + Len(b))
          BY <1>4, <1>5
        <4>4. QED
          BY <2>2, <3>2, <4>1, <4>2, <4>3
      <3>3. QED
        BY <3>1, <3>2
    <2>4. Len(a) + Len(b) = k
      BY <1>4, <1>5
    <2>5. QED
      BY <2>1, <2>3, <2>4
  <1> DEFINE ab == a \o b
  <1> HIDE DEF ab
  <1>8. ab \in Seq(S) /\ Len(ab) = k /\ \A j \in 1..k : ab[j] = IF j < i THEN s[j] ELSE s[i + k - j]
    BY <1>7 DEF ab
  <1>9. /\ ab \o c \in Seq(S) /\ Len(ab \o c) = Len(s)
        /\ \A j \in 1..Len(s) : (ab \o c)[j] = IF j <= k THEN ab[j] ELSE c[j - k]
    <2>1. Len(ab) + Len(c) = Len(s)
      BY <1>6, <1>8
    <2>2. /\ ab \o c \in Seq(S) /\ Len(ab \o c) = Len(ab) + Len(c)
          /\ \A j \in 1..(Len(ab) + Len(c)) :
                (ab \o c)[j] = IF j <= Len(ab) THEN ab[j] ELSE c[j - Len(ab)]
      <3>1. ab \in Seq(S) /\ c \in Seq(S)
        BY <1>6, <1>8
      <3>2. QED
        BY <3>1, ConcatProperties
    <2>3. QED
      BY <1>8, <2>1, <2>2
  <1>10. \A j \in 1..Len(s) : (ab \o c)[j] = r[j]
    <2> SUFFICES ASSUME NEW j \in 1..Len(s)
                 PROVE  (ab \o c)[j] = r[j]
      OBVIOUS
    <2>1. r[j] = IF i <= j /\ j <= k THEN s[i + k - j] ELSE s[j]
      BY DEF Route!Reversed
    <2>2. CASE j <= k
      BY <1>8, <1>9, <2>1, <2>2
    <2>3. CASE ~(j <= k)
      <3>1. j - k \in 1..(Len(s) - k) /\ k + (j - k) = j
        BY <2>3
      <3>2. c[j - k] = s[j]
        BY <1>6, <3>1
      <3>3. QED
        BY <1>9, <2>1, <2>3, <3>2
    <2>4. QED
      BY <2>2, <2>3
  <1>11. r \in Seq(S) /\ Len(r) = Len(s)
    BY ReversedFits
  <1> HIDE DEF r
  <1>12. ab \o c = r
    BY <1>9, <1>10, <1>11, SeqEqual
  <1>13. QED
    BY <1>12 DEF ab, a, b, p, c, r

\* No request has been sent: no stops, no bins left to visit.
LEMMA InitPlannerInv == Route!PlannerInit => Route!PlannerInv
  <1> SUFFICES ASSUME Route!PlannerInit
               PROVE  Route!PlannerInv
    OBVIOUS
  <1>1. fill \in Seq(Nat) /\ place \in [DOMAIN fill -> Places] /\ plan = Route!NoPlan
    BY PlannerAssumption DEF Route!PlannerInit
  <1>2. Route!PlanFits
    BY <1>1 DEF Route!PlanFits, Route!NoPlan, Route!Required
  <1>3. plan.pc = "none" /\ plan.stops = <<>> /\ plan.i = 1 /\ plan.k = 2
    BY <1>1 DEF Route!NoPlan
  <1>4. QED
    BY <1>2, <1>3 DEF Route!PlannerInv, Route!VisitsCapped, Route!PartInRoute, Route!NoneShorter

\* The best route after a part is tried has the same stops, and is the same
\* unless that part improves it.
LEMMA BetterFits ==
    ASSUME Route!PlanFits, Route!PartInRoute, plan.pc = "twoOpt"
    PROVE  /\ Route!Better \in Seq(DOMAIN fill) /\ Len(Route!Better) = Len(plan.stops)
           /\ Route!ToSet(Route!Better) = Route!ToSet(plan.stops)
           /\ Route!IsInjective(plan.stops) => Route!IsInjective(Route!Better)
           /\ Route!Improved \in BOOLEAN
           /\ ~Route!Improved => /\ Route!Better = plan.stops /\ ~plan.improved
                                 /\ ~Route!Improves(plan.stops, plan.i, plan.k)
  <1>1. plan.stops \in Seq(DOMAIN fill) /\ plan.improved \in BOOLEAN
    BY DEF Route!PlanFits
  <1>2. plan.i \in 1..Len(plan.stops) /\ plan.k \in plan.i..Len(plan.stops)
    BY <1>1 DEF Route!PartInRoute
  <1> DEFINE r == Route!Reversed(plan.stops, plan.i, plan.k)
  <1>3. /\ r \in Seq(DOMAIN fill) /\ Len(r) = Len(plan.stops)
        /\ Route!ToSet(r) = Route!ToSet(plan.stops)
        /\ Route!IsInjective(plan.stops) => Route!IsInjective(r)
    BY <1>1, <1>2, ReversedFits
  <1> HIDE DEF r
  <1>4. Route!Better = IF Route!Improves(plan.stops, plan.i, plan.k) THEN r ELSE plan.stops
    BY DEF Route!Better, r
  <1>5. Route!Improves(plan.stops, plan.i, plan.k) \in BOOLEAN
    BY DEF Route!Improves
  <1>6. QED
    BY <1>1, <1>3, <1>4, <1>5 DEF Route!Improved

\* Every turn of a loop of RouteService.optimize, and every step of a page, keeps
\* the invariant: a visit moves a bin from those left to the stops, a part that is
\* turned round keeps the stops, and a part is tried before the next one is.
LEMMA NextPlannerInv == Route!PlannerInv /\ Route!PlannerNext => Route!PlannerInv'
  <1> SUFFICES ASSUME Route!PlannerInv, Route!PlannerNext
               PROVE  Route!PlannerInv'
    OBVIOUS
  <1>1. Route!PlanFits /\ Route!VisitsCapped /\ Route!PartInRoute /\ Route!NoneShorter
    BY DEF Route!PlannerInv
  <1>2. fill \in Seq(Nat) /\ place \in [DOMAIN fill -> Places]
    BY <1>1 DEF Route!PlanFits
  <1>3. /\ plan.stops \in Seq(DOMAIN fill) /\ plan.left \subseteq DOMAIN fill
        /\ plan.limit \in Nat \ {0} /\ plan.i \in Nat /\ plan.k \in Nat /\ plan.passes \in Nat
        /\ plan.improved \in BOOLEAN
    BY <1>1 DEF Route!PlanFits
  \* A step of the request alone.
  <1>4. ASSUME plan'.pc \in {"none", "sent", "refused"}, Route!PlanFits',
               plan'.pc # "refused" => plan'.stops = <<>> /\ plan'.i = 1 /\ plan'.k = 2
        PROVE  Route!PlannerInv'
    BY <1>4 DEF Route!PlannerInv, Route!VisitsCapped, Route!PartInRoute, Route!NoneShorter, Route!Tried
  <1>5. ASSUME NEW by \in {"client", "driver", "admin"},
               NEW fields \in SUBSET (Route!Required \cup {"startLat", "startLng"}),
               NEW t \in Thresholds, NEW n \in Limits, Route!Ask(by, fields, t, n)
        PROVE  Route!PlannerInv'
    <2>1. plan' = [Route!NoPlan EXCEPT !.pc = "sent", !.by = by, !.fields = fields,
                                 !.threshold = t, !.limit = n]
          /\ UNCHANGED <<place, fill>>
      BY <1>5 DEF Route!Ask
    <2>2. n \in Nat \ {0}
      BY PlannerAssumption
    <2>3. plan' = [pc |-> "sent", by |-> by, fields |-> fields, threshold |-> t, limit |-> n,
                   left |-> {}, stops |-> <<>>, i |-> 1, k |-> 2, passes |-> 0, improved |-> FALSE]
      BY <2>1 DEF Route!NoPlan
    <2>4. <<>> \in Seq(DOMAIN fill) /\ t \in Thresholds \cup {0}
          /\ {} \in SUBSET (DOMAIN fill) /\ 1 \in Nat /\ 2 \in Nat /\ 0 \in Nat
      OBVIOUS
    <2>5. plan' \in [pc : {"none", "sent", "refused", "nearest", "twoOpt", "answered"},
                     by : {"client", "driver", "admin"},
                     fields : SUBSET (Route!Required \cup {"startLat", "startLng"}),
                     threshold : Thresholds \cup {0}, limit : Nat \ {0},
                     left : SUBSET (DOMAIN fill), stops : Seq(DOMAIN fill),
                     i : Nat, k : Nat, passes : Nat, improved : BOOLEAN]
      BY <2>2, <2>3, <2>4
    <2>6. Route!PlanFits'
      BY <1>1, <2>1, <2>5 DEF Route!PlanFits
    <2>7. QED
      BY <1>4, <2>3, <2>6
  <1>6. CASE Route!DriverPage \/ Route!AdminRoutesPage
    BY <1>5, <1>6 DEF Route!DriverPage, Route!AdminRoutesPage
  <1>7. CASE Route!Client
    BY <1>5, <1>7 DEF Route!Client, Route!Required
  <1>8. CASE Route!Refuse
    <2>1. plan' = [plan EXCEPT !.pc = "refused"] /\ UNCHANGED <<place, fill>>
      BY <1>8 DEF Route!Refuse
    <2>2. Route!PlanFits' /\ plan'.pc = "refused"
      BY <1>1, <2>1 DEF Route!PlanFits
    <2>3. QED
      BY <1>4, <2>2
  <1>9. CASE Route!Arrive
    <2>1. plan' = Route!NoPlan /\ UNCHANGED <<place, fill>>
      BY <1>9 DEF Route!Arrive
    <2>2. Route!PlanFits'
      BY <1>1, <2>1 DEF Route!PlanFits, Route!NoPlan, Route!Required
    <2>3. QED
      BY <1>4, <2>1, <2>2 DEF Route!NoPlan
  <1>10. CASE Route!Find
    <2> DEFINE capped == Route!Capped(plan.threshold, plan.limit)
    <2>1. plan' = [plan EXCEPT !.pc = "nearest", !.left = capped] /\ UNCHANGED <<place, fill>>
          /\ plan.pc = "sent"
      BY <1>10 DEF Route!Find
    <2>2. capped \subseteq DOMAIN fill
      BY <1>2, <1>3, CappedFits
    <2>3. Route!Capped(plan.threshold, plan.limit)' = capped
      BY <2>1 DEF Route!Capped, Route!Candidates, Route!Fuller
    <2> HIDE DEF capped
    <2>4. Route!PlanFits'
      BY <1>1, <2>1, <2>2 DEF Route!PlanFits
    <2>5. /\ plan'.pc = "nearest" /\ plan'.left = capped /\ plan'.stops = <<>> /\ plan'.i = 1
          /\ plan'.k = 2 /\ plan'.threshold = plan.threshold /\ plan'.limit = plan.limit
      BY <1>1, <2>1 DEF Route!PlanFits, Route!PartInRoute
    <2>6. Cardinality(capped) \in Nat
      BY <1>2, <2>2, BinsFinite
    <2>7. Route!VisitsCapped'
      BY <2>3, <2>5, <2>6, RouteCardinality DEF Route!VisitsCapped, Route!ToSet, Route!IsInjective
    <2>8. QED
      BY <2>4, <2>5, <2>7 DEF Route!PlannerInv, Route!PartInRoute, Route!NoneShorter, Route!Tried
  <1>11. CASE Route!Visit
    <2> DEFINE b == Route!NextStop
    <2>1. plan' = [plan EXCEPT !.left = @ \ {b}, !.stops = Append(@, b)] /\ UNCHANGED <<place, fill>>
          /\ plan.pc = "nearest" /\ plan.left # {}
      BY <1>11 DEF Route!Visit
    <2>2. b \in plan.left
      BY <1>1, <2>1, NextStopFits
    <2> HIDE DEF b
    <2>3. b \in DOMAIN fill /\ Append(plan.stops, b) \in Seq(DOMAIN fill)
      BY <1>3, <2>2
    <2>4. Route!PlanFits'
      BY <1>1, <2>1, <2>3 DEF Route!PlanFits
    <2>5. /\ plan'.pc = "nearest" /\ plan'.left = plan.left \ {b} /\ plan'.stops = Append(plan.stops, b)
          /\ plan'.i = plan.i /\ plan'.k = plan.k /\ plan'.threshold = plan.threshold
          /\ plan'.limit = plan.limit
      BY <1>1, <2>1 DEF Route!PlanFits
    <2>6. /\ Len(plan'.stops) = Len(plan.stops) + 1 /\ DOMAIN plan'.stops = 1..(Len(plan.stops) + 1)
          /\ DOMAIN plan.stops = 1..Len(plan.stops) /\ Len(plan.stops) \in Nat
          /\ plan'.stops[Len(plan.stops) + 1] = b
          /\ \A j \in 1..Len(plan.stops) : plan'.stops[j] = plan.stops[j]
      BY <1>3, <2>3, <2>5
    <2>7. /\ Route!IsInjective(plan.stops) /\ Route!ToSet(plan.stops) \cap plan.left = {}
          /\ Route!ToSet(plan.stops) \cup plan.left = Route!Capped(plan.threshold, plan.limit)
          /\ Len(plan.stops) + Cardinality(plan.left)
               = Cardinality(Route!Capped(plan.threshold, plan.limit))
      BY <1>1, <2>1, RouteCardinality DEF Route!VisitsCapped
    <2> DEFINE s == plan.stops
               r == plan'.stops
               n == Len(plan.stops)
    <2>8. /\ Route!ToSet(r) = Route!ToSet(s) \cup {b}
          /\ Route!IsInjective(s) /\ b \notin Route!ToSet(s) => Route!IsInjective(r)
      <3>1. /\ n \in Nat /\ DOMAIN s = 1..n /\ DOMAIN r = 1..(n + 1)
            /\ r[n + 1] = b /\ \A j \in 1..n : r[j] = s[j]
        BY <2>6
      <3> HIDE DEF s, r, n
      <3>2. QED
        BY <3>1, StopAdded
    <2>9. Route!ToSet(plan.stops)' = Route!ToSet(plan.stops) \cup {b}
      <3>1. Route!ToSet(plan.stops)' = Route!ToSet(plan'.stops)
        BY DEF Route!ToSet
      <3>2. QED
        BY <2>8, <3>1
    <2>10. Route!IsInjective(plan.stops)'
      <3>1. Route!IsInjective(plan.stops)' = Route!IsInjective(plan'.stops)
        BY DEF Route!IsInjective
      <3>2. b \notin Route!ToSet(plan.stops)
        BY <2>2, <2>7
      <3>3. QED
        BY <2>7, <2>8, <3>1, <3>2
    <2>11. Cardinality(plan.left \ {b}) = Cardinality(plan.left) - 1 /\ Cardinality(plan.left) \in Nat
      BY <1>2, <1>3, <2>2, BinsFinite, FS_RemoveElement
    <2>12. Route!Capped(plan.threshold, plan.limit)' = Route!Capped(plan.threshold, plan.limit)
      BY <2>1, <2>5 DEF Route!Capped, Route!Candidates, Route!Fuller
    <2>13. Len(plan'.stops) + Cardinality(plan'.left)
              = Cardinality(Route!Capped(plan.threshold, plan.limit))
      <3> DEFINE l == Cardinality(plan.left)
                 m == Cardinality(plan'.left)
                 c == Cardinality(Route!Capped(plan.threshold, plan.limit))
      <3>1. m = l - 1 /\ l \in Nat
        BY <2>5, <2>11
      <3>2. Len(plan.stops) + l = c
        BY <2>7
      <3> HIDE DEF l, m, c
      <3>3. Len(plan'.stops) + m = c
        BY <2>6, <3>1, <3>2
      <3>4. QED
        BY <3>3 DEF l, m, c
    <2>14. Route!VisitsCapped'
      <3>1. /\ Route!ToSet(plan.stops)' \cap plan'.left = {}
            /\ Route!ToSet(plan.stops)' \cup plan'.left = Route!Capped(plan.threshold, plan.limit)
        BY <2>2, <2>5, <2>7, <2>9
      <3>2. QED
        BY <2>5, <2>10, <2>12, <2>13, <3>1, RouteCardinality DEF Route!VisitsCapped
    <2>15. QED
      BY <1>1, <2>1, <2>4, <2>5, <2>14
         DEF Route!PlannerInv, Route!PartInRoute, Route!NoneShorter, Route!Tried
  <1>12. CASE Route!AllVisited
    <2>1. plan' = [plan EXCEPT !.pc = IF Len(plan.stops) < 4 THEN "answered" ELSE "twoOpt"]
          /\ UNCHANGED <<place, fill>> /\ plan.pc = "nearest" /\ plan.left = {}
      BY <1>12 DEF Route!AllVisited
    <2>2. Route!PlanFits'
      BY <1>1, <2>1 DEF Route!PlanFits
    <2>3. /\ plan'.pc = (IF Len(plan.stops) < 4 THEN "answered" ELSE "twoOpt")
          /\ plan'.left = {} /\ plan.left = {} /\ plan'.stops = plan.stops
          /\ plan'.i = 1 /\ plan'.k = 2 /\ plan'.threshold = plan.threshold
          /\ plan'.limit = plan.limit
      BY <1>1, <2>1 DEF Route!PlanFits, Route!PartInRoute
    <2>4. Route!Capped(plan.threshold, plan.limit)' = Route!Capped(plan.threshold, plan.limit)
      BY <2>1, <2>3 DEF Route!Capped, Route!Candidates, Route!Fuller
    <2>5. Route!VisitsCapped'
      <3>1. /\ Route!IsInjective(plan.stops)' /\ Route!ToSet(plan.stops)' = Route!ToSet(plan.stops)
            /\ Route!ToSet(plan.stops) \cup plan.left = Route!Capped(plan.threshold, plan.limit)
            /\ Len(plan.stops) + Cardinality(plan.left)
                 = Cardinality(Route!Capped(plan.threshold, plan.limit))
        BY <1>1, <2>1, <2>3, RouteCardinality DEF Route!VisitsCapped, Route!ToSet, Route!IsInjective
      <3>2. QED
        BY <2>3, <2>4, <3>1, RouteCardinality DEF Route!VisitsCapped
    <2>6. Len(plan.stops) \in Nat /\ DOMAIN plan.stops = 1..Len(plan.stops)
      BY <1>3
    <2>7. Route!PartInRoute' /\ Route!NoneShorter'
      BY <2>3, <2>6 DEF Route!PartInRoute, Route!NoneShorter, Route!Tried
    <2>8. QED
      BY <2>2, <2>5, <2>7 DEF Route!PlannerInv
  \* A part is tried: the stops stay, in the old order or another.
  <1>13. ASSUME plan.pc = "twoOpt", plan'.stops = Route!Better, plan'.left = plan.left,
                plan'.pc \in {"twoOpt", "answered"}, plan'.threshold = plan.threshold,
                plan'.limit = plan.limit, UNCHANGED <<place, fill>>
         PROVE  Route!VisitsCapped'
    <2>1. /\ Len(plan'.stops) = Len(plan.stops)
          /\ Route!ToSet(plan.stops)' = Route!ToSet(plan.stops)
          /\ Route!IsInjective(plan.stops) => Route!IsInjective(plan.stops)'
      <3>1. /\ Len(Route!Better) = Len(plan.stops)
            /\ Route!ToSet(Route!Better) = Route!ToSet(plan.stops)
            /\ Route!IsInjective(plan.stops) => Route!IsInjective(Route!Better)
        BY <1>1, <1>13, BetterFits
      <3>2. QED
        <4>1. Route!ToSet(plan.stops)' = Route!ToSet(plan'.stops)
          BY DEF Route!ToSet
        <4>2. Route!IsInjective(plan.stops)' = Route!IsInjective(plan'.stops)
          BY DEF Route!IsInjective
        <4>3. QED
          BY <1>13, <3>1, <4>1, <4>2
    <2>2. Route!Capped(plan.threshold, plan.limit)' = Route!Capped(plan.threshold, plan.limit)
      BY <1>13 DEF Route!Capped, Route!Candidates, Route!Fuller
    <2>3. Route!Cardinality(plan.left)' = Route!Cardinality(plan.left)
          /\ Route!Cardinality(Route!Capped(plan.threshold, plan.limit))'
               = Route!Cardinality(Route!Capped(plan.threshold, plan.limit))
      BY <1>13, <2>2, RouteCardinality
    <2>4. QED
      BY <1>1, <1>13, <2>1, <2>2, <2>3 DEF Route!VisitsCapped
  <1>14. ASSUME plan.pc = "twoOpt", ~plan'.improved, plan'.stops = Route!Better,
                plan'.improved = Route!Improved, UNCHANGED place,
                \A a, b \in DOMAIN plan.stops : a < b /\ Route!Tried(a, b)' =>
                    Route!Tried(a, b) \/ (a = plan.i /\ b = plan.k)
         PROVE  Route!NoneShorter'
    <2>1. plan'.stops = plan.stops /\ ~plan.improved /\ ~Route!Improves(plan.stops, plan.i, plan.k)
      BY <1>1, <1>14, BetterFits
    <2>2. \A a, b : Route!Improves(plan.stops, a, b)' <=> Route!Improves(plan.stops, a, b)
      BY <1>14, <2>1 DEF Route!Improves, Route!Reversed
    <2>3. \A a, b \in DOMAIN plan.stops : a < b /\ Route!Tried(a, b) => ~Route!Improves(plan.stops, a, b)
      BY <1>1, <2>1 DEF Route!NoneShorter
    <2>4. QED
      BY <1>14, <2>1, <2>2, <2>3 DEF Route!NoneShorter
  <1>15. ASSUME plan.pc = "twoOpt"
         PROVE  /\ Len(plan.stops) \in Nat /\ DOMAIN plan.stops = 1..Len(plan.stops)
                /\ Len(plan.stops) >= 4 /\ plan.i \in 1..(Len(plan.stops) - 1)
                /\ plan.k \in (plan.i + 1)..Len(plan.stops)
                /\ Route!Better \in Seq(DOMAIN fill) /\ Len(Route!Better) = Len(plan.stops)
                /\ Route!Improved \in BOOLEAN
    BY <1>1, <1>3, <1>15, BetterFits DEF Route!PartInRoute
  <1>16. CASE Route!TryPart
    <2> DEFINE more == plan.k < Len(plan.stops)
    <2>1. /\ plan' = [plan EXCEPT !.stops = Route!Better, !.improved = Route!Improved,
                                  !.i = IF more THEN plan.i ELSE plan.i + 1,
                                  !.k = IF more THEN plan.k + 1 ELSE plan.i + 2]
          /\ plan.pc = "twoOpt" /\ plan.i < Len(plan.stops) - 1 /\ UNCHANGED <<place, fill>>
      BY <1>16 DEF Route!TryPart
    <2>2. /\ plan'.pc = "twoOpt" /\ plan'.stops = Route!Better /\ plan'.improved = Route!Improved
          /\ plan'.i = (IF more THEN plan.i ELSE plan.i + 1)
          /\ plan'.k = (IF more THEN plan.k + 1 ELSE plan.i + 2)
          /\ plan'.left = plan.left /\ plan'.threshold = plan.threshold /\ plan'.limit = plan.limit
      BY <1>1, <2>1 DEF Route!PlanFits
    <2>3. Route!PlanFits'
      <3>1. plan'.i \in Nat /\ plan'.k \in Nat
        BY <1>3, <2>2
      <3>2. QED
        BY <1>1, <1>15, <2>1, <2>2, <3>1 DEF Route!PlanFits
    <2>4. Route!VisitsCapped'
      BY <1>13, <2>1, <2>2
    <2>5. Route!PartInRoute'
      <3>1. plan'.i \in 1..(Len(plan.stops) - 1) /\ plan'.k \in (plan'.i + 1)..Len(plan.stops)
        <4> DEFINE n == Len(plan.stops)
        <4>1. n \in Nat /\ plan.i \in 1..(n - 1) /\ plan.k \in (plan.i + 1)..n /\ plan.i < n - 1
          BY <1>15, <2>1
        <4> HIDE DEF n
        <4>2. CASE plan.k < n
          BY <2>2, <4>1, <4>2 DEF n
        <4>3. CASE ~(plan.k < n)
          BY <2>2, <4>1, <4>3 DEF n
        <4>4. QED
          BY <4>2, <4>3 DEF n
      <3>2. Len(plan'.stops) = Len(plan.stops) /\ Len(plan'.stops) >= 4
        BY <1>15, <2>1, <2>2
      <3>3. QED
        BY <2>2, <3>1, <3>2 DEF Route!PartInRoute
    <2>6. Route!NoneShorter'
      <3>1. ASSUME NEW a \in DOMAIN plan.stops, NEW b \in DOMAIN plan.stops, a < b, Route!Tried(a, b)'
            PROVE  Route!Tried(a, b) \/ (a = plan.i /\ b = plan.k)
        BY <1>15, <2>1, <2>2, <3>1 DEF Route!Tried
      <3>2. CASE ~plan'.improved
        BY <1>14, <2>1, <2>2, <3>1, <3>2
      <3>3. QED
        BY <3>2 DEF Route!NoneShorter
    <2>7. QED
      BY <2>3, <2>4, <2>5, <2>6 DEF Route!PlannerInv
  <1>17. CASE Route!TryLastPart
    <2>1. /\ plan.pc = "twoOpt" /\ plan.i = Len(plan.stops) - 1 /\ UNCHANGED <<place, fill>>
          /\ plan.k = Len(plan.stops)
      BY <1>15, <1>17 DEF Route!TryLastPart
    <2>2. CASE plan' = [plan EXCEPT !.stops = Route!Better, !.improved = FALSE, !.i = 1, !.k = 2,
                                    !.passes = plan.passes + 1]
      <3>1. /\ plan'.pc = "twoOpt" /\ plan'.stops = Route!Better /\ plan'.i = 1 /\ plan'.k = 2
            /\ plan'.left = plan.left /\ plan'.threshold = plan.threshold /\ plan'.limit = plan.limit
        BY <1>1, <2>1, <2>2 DEF Route!PlanFits
      <3>2. Route!PlanFits'
        <4>1. plan.passes + 1 \in Nat /\ 1 \in Nat /\ 2 \in Nat
          BY <1>3
        <4>2. QED
          BY <1>1, <1>15, <2>1, <2>2, <4>1 DEF Route!PlanFits
      <3>3. Route!VisitsCapped'
        BY <1>13, <2>1, <3>1
      <3>4. Route!PartInRoute'
        BY <1>15, <2>1, <3>1 DEF Route!PartInRoute
      <3>5. Route!NoneShorter'
        <4>1. DOMAIN plan'.stops = 1..Len(plan.stops) /\ Len(plan.stops) \in Nat
          BY <1>15, <2>1, <3>1
        <4>2. QED
          BY <3>1, <4>1 DEF Route!NoneShorter, Route!Tried
      <3>6. QED
        BY <3>2, <3>3, <3>4, <3>5 DEF Route!PlannerInv
    <2>3. CASE plan' = [plan EXCEPT !.pc = "answered", !.stops = Route!Better, !.improved = Route!Improved]
      <3>1. /\ plan'.pc = "answered" /\ plan'.stops = Route!Better /\ plan'.improved = Route!Improved
            /\ plan'.left = plan.left /\ plan'.threshold = plan.threshold /\ plan'.limit = plan.limit
        BY <1>1, <2>1, <2>3 DEF Route!PlanFits
      <3>2. Route!PlanFits'
        BY <1>1, <1>15, <2>1, <2>3 DEF Route!PlanFits
      <3>3. Route!VisitsCapped'
        BY <1>13, <2>1, <3>1
      <3>4. Route!PartInRoute'
        BY <3>1 DEF Route!PartInRoute
      <3>5. Route!NoneShorter'
        <4>1. ASSUME NEW a \in DOMAIN plan.stops, NEW b \in DOMAIN plan.stops, a < b
              PROVE  Route!Tried(a, b) \/ (a = plan.i /\ b = plan.k)
          BY <1>15, <2>1, <4>1 DEF Route!Tried
        <4>2. CASE ~plan'.improved
          BY <1>14, <2>1, <3>1, <4>1, <4>2
        <4>3. QED
          BY <4>2 DEF Route!NoneShorter
      <3>6. QED
        BY <3>2, <3>3, <3>4, <3>5 DEF Route!PlannerInv
    <2>4. QED
      <3>1. [plan EXCEPT !.stops = Route!Better, !.improved = FALSE, !.i = 1, !.k = 2,
                         !.passes = @ + 1]
              = [plan EXCEPT !.stops = Route!Better, !.improved = FALSE, !.i = 1, !.k = 2,
                             !.passes = plan.passes + 1]
        OBVIOUS
      <3>2. QED
        BY <1>17, <2>2, <2>3, <3>1 DEF Route!TryLastPart
  <1>18. QED
    BY <1>6, <1>7, <1>8, <1>9, <1>10, <1>11, <1>12, <1>16, <1>17 DEF Route!PlannerNext

\* When the route is answered no bin is left, and a last pass that improved
\* nothing has tried every part.
LEMMA PlannerInvImplies == Route!PlannerInv => RouteIsTight
  <1> SUFFICES ASSUME Route!PlannerInv, plan.pc = "answered"
               PROVE  RouteIsTight
    BY DEF RouteIsTight, Route!RouteIsTight
  <1>1. Route!PlanFits /\ Route!VisitsCapped /\ Route!NoneShorter
    BY DEF Route!PlannerInv
  <1>2. fill \in Seq(Nat) /\ plan.stops \in Seq(DOMAIN fill) /\ plan.limit \in Nat \ {0}
    BY <1>1 DEF Route!PlanFits
  <1>3. /\ Route!IsInjective(plan.stops)
        /\ Route!ToSet(plan.stops) = Route!Capped(plan.threshold, plan.limit)
        /\ Len(plan.stops) = Cardinality(Route!Capped(plan.threshold, plan.limit))
    <2>1. /\ plan.left = {} /\ Route!ToSet(plan.stops) \cup plan.left = Route!Capped(plan.threshold, plan.limit)
          /\ Len(plan.stops) + Cardinality(plan.left)
               = Cardinality(Route!Capped(plan.threshold, plan.limit))
          /\ Route!IsInjective(plan.stops)
      BY <1>1, RouteCardinality DEF Route!VisitsCapped
    <2>2. Cardinality(plan.left) = 0 /\ Len(plan.stops) \in Nat
      BY <1>2, <2>1, FS_EmptySet
    <2>3. Route!ToSet(plan.stops) = Route!Capped(plan.threshold, plan.limit)
      BY <2>1
    <2> DEFINE n == Cardinality(Route!Capped(plan.threshold, plan.limit))
               m == Cardinality(plan.left)
    <2>4. Len(plan.stops) + m = n /\ m = 0
      BY <2>1, <2>2
    <2>5. Len(plan.stops) = n
      <3> HIDE DEF n, m
      <3> QED BY <2>2, <2>4
    <2>6. QED
      BY <2>1, <2>3, <2>5
  <1>4. /\ Route!Capped(plan.threshold, plan.limit) \subseteq Route!Candidates(plan.threshold)
        /\ Cardinality(Route!Capped(plan.threshold, plan.limit)) <= plan.limit
        /\ \/ Cardinality(Route!Capped(plan.threshold, plan.limit)) = plan.limit
           \/ Route!Capped(plan.threshold, plan.limit) = Route!Candidates(plan.threshold)
        /\ \A b \in Route!Capped(plan.threshold, plan.limit),
              c \in Route!Candidates(plan.threshold) \ Route!Capped(plan.threshold, plan.limit) :
              fill[b] >= fill[c]
    BY <1>2, CappedFits
  <1>5. ASSUME Len(plan.stops) >= 4, ~plan.improved,
               NEW i \in DOMAIN plan.stops, NEW k \in DOMAIN plan.stops, i < k
        PROVE  ~(Route!TotalDistance(place, SubSeq(plan.stops, 1, i - 1)
                                              \o Route!Reverse(SubSeq(plan.stops, i, k))
                                              \o SubSeq(plan.stops, k + 1, Len(plan.stops)))
                   < Route!TotalDistance(place, plan.stops))
    <2>1. i \in 1..Len(plan.stops) /\ k \in i..Len(plan.stops)
      <3>1. DOMAIN plan.stops = 1..Len(plan.stops) /\ Len(plan.stops) \in Nat
        BY <1>2
      <3>2. i \in 1..Len(plan.stops) /\ k \in 1..Len(plan.stops) /\ i < k
        BY <1>5, <3>1
      <3>3. QED
        BY <3>1, <3>2
    <2>2. SubSeq(plan.stops, 1, i - 1) \o Route!Reverse(SubSeq(plan.stops, i, k))
            \o SubSeq(plan.stops, k + 1, Len(plan.stops)) = Route!Reversed(plan.stops, i, k)
      BY <1>2, <2>1, ReversedIsCut
    <2>3. ~Route!Improves(plan.stops, i, k)
      BY <1>1, <1>5 DEF Route!NoneShorter, Route!Tried
    <2>4. QED
      BY <2>2, <2>3 DEF Route!Improves
  <1>6. QED
    BY <1>3, <1>4, <1>5 DEF RouteIsTight, Route!RouteIsTight

\* What the planner holds depends on the bins and the request alone.
LEMMA RouteUnmoved ==
    ASSUME Route!PlannerInv, UNCHANGED <<place, fill, plan>>
    PROVE  Route!PlannerInv'
  <1>1. Route!PlanFits /\ Route!VisitsCapped /\ Route!PartInRoute /\ Route!NoneShorter
    BY DEF Route!PlannerInv
  <1>2. Route!PlanFits' /\ Route!PartInRoute'
    BY <1>1 DEF Route!PlanFits, Route!PartInRoute
  <1>3. Route!Capped(plan.threshold, plan.limit)' = Route!Capped(plan.threshold, plan.limit)
    BY DEF Route!Capped, Route!Candidates, Route!Fuller
  <1>4. Route!VisitsCapped'
    BY <1>1, <1>3, RouteCardinality DEF Route!VisitsCapped, Route!ToSet, Route!IsInjective
  <1>5. \A a, b : Route!Improves(plan.stops, a, b)' <=> Route!Improves(plan.stops, a, b)
    BY DEF Route!Improves, Route!Reversed
  <1>6. Route!NoneShorter'
    BY <1>1, <1>5 DEF Route!NoneShorter, Route!Tried
  <1>7. QED
    BY <1>2, <1>4, <1>6 DEF Route!PlannerInv

(***************************************************************************)
(* The tab.                                                                *)
(***************************************************************************)

\* A step of the tab is one of the page it is on, and leaves the others alone.
LEMMA StepOfPart ==
    ASSUME [Next]_vars
    PROVE  /\ List!ListNext \/ UNCHANGED listVars
           /\ Table!TableNext \/ UNCHANGED tableVars
           /\ Bin!ViewNext \/ UNCHANGED binVars
           /\ Form!DraftNext \/ UNCHANGED formVars
           /\ Bell!BellNext \/ UNCHANGED bellVars
           /\ Route!PlannerNext \/ UNCHANGED routeVars
  BY DEF Next, vars, OnList, OnTable, OnBin, OnForm, OnBell, OnPlanner

\* Once every event has come, a bin that is shown shows its newest reading, unless
\* that one's event was overtaken or missed (the live views of a bin in the
\* dashboard and on its own page), for any number of readings and of missed events.
THEOREM ViewHolds == Spec => []ViewCatchesUp
  <1>1. Init => Bin!ViewInv
    BY InitViewInv DEF Init
  <1>2. Bin!ViewInv /\ UNCHANGED binVars => Bin!ViewInv'
    BY DEF binVars, Bin!ViewInv, Bin!ViewTypeOK, Bin!NewestIsKnown
  <1>3. Bin!ViewInv /\ [Next]_vars => Bin!ViewInv'
    BY <1>2, StepOfPart, NextViewInv
  <1>4. QED
    BY <1>1, <1>3, ViewInvImplies, PTL DEF Spec

\* What an administrator has typed and not saved stays in its field, and an entry
\* ends as the last save of its field held it, unless others edited it, a call
\* failed or two saves of it were in the air: for any keys, texts and calls (the
\* forms of the configuration pages).
THEOREM DraftsHold == Spec => [](TypingKept /\ LastSaveWins)
  <1>1. Init => Form!DraftInv
    BY InitDraftInv DEF Init
  <1>2. Form!DraftInv /\ UNCHANGED formVars => Form!DraftInv'
    BY DEF formVars, Form!DraftInv, Form!DraftTypeOK, Form!CallsFit, Form!TypingKept,
       Form!SavesWanted, Form!OneSaveEach, Form!WantedComes, Form!Saves
  <1>3. Form!DraftInv /\ [Next]_vars => Form!DraftInv'
    BY <1>2, StepOfPart, NextDraftInv
  <1>4. QED
    BY <1>1, <1>3, DraftInvImplies, PTL DEF Spec

\* What the panel of the bell shows as read is read, except what came while a
\* mark-all was in the air, and a badge that the inbox has not changed since counts
\* what is unread: for any number of notifications and calls (TopBar.tsx).
THEOREM BellHolds == Spec => []BellIsHonest
  <1>1. Init => Bell!BellInv
    BY InitBellInv DEF Init
  <1>2. Bell!BellInv /\ UNCHANGED bellVars => Bell!BellInv'
    BY DEF bellVars, Bell!BellInv, Bell!BellTypeOK, Bell!AsksFit, Bell!ListsFit,
       Bell!UnreadIsFresh, Bell!AnswersRight, Bell!BellIsHonest, Bell!Unread
  <1>3. Bell!BellInv /\ [Next]_vars => Bell!BellInv'
    BY <1>2, StepOfPart, NextBellInv
  <1>4. QED
    BY <1>1, <1>3, BellInvImplies, PTL DEF Spec

\* A list page at rest, whose rows nobody else changed and whose answers came in
\* order, shows what the server would answer to the page and filters chosen, and
\* no page past the last unless rows left the list: for any rows and any number of
\* requests in the air (usePaginatedList and the seven pages that use it).
THEOREM ListHolds == Spec => [](SettledIsFresh /\ PageInRange)
  <1>1. Init => List!ListInv
    BY InitListInv DEF Init
  <1>2. List!ListInv /\ UNCHANGED listVars => List!ListInv'
    BY RowsStay DEF listVars, List!ListInv, List!ListFits
  <1>3. List!ListInv /\ [Next]_vars => List!ListInv'
    BY <1>2, StepOfPart, NextListInv
  <1>4. QED
    BY <1>1, <1>3, ListInvImplies, PTL DEF Spec

\* The cursors of the live table descend, and with no load in the air its rows are
\* of its filter and below the cursor of its page, for any number of readings and
\* loads: with the exceptions the two properties name (LiveSensorTable.tsx).
THEOREM TableHolds == Spec => [](CursorsDescend /\ TableShowsPage)
  <1>1. Init => Table!TableInv
    BY InitTableInv DEF Init
  <1>2. Table!TableInv /\ UNCHANGED tableVars => Table!TableInv'
    BY TableUnmoved DEF tableVars, Table!TableInv, Table!TableFits
  <1>3. Table!TableInv /\ [Next]_vars => Table!TableInv'
    BY <1>2, StepOfPart, NextTableInv
  <1>4. QED
    BY <1>1, <1>3, TableInvImplies, PTL DEF Spec

\* An answered route stops once at each bin that is due, or at as many of the
\* fullest as the limit allows, and no part of it can be turned round to make it
\* shorter, unless the passes ran out while they improved it: for any number of
\* bins, anywhere on the grid, and any limit (RouteService.optimize).
THEOREM RouteHolds == Spec => []RouteIsTight
  <1>1. Init => Route!PlannerInv
    BY InitPlannerInv DEF Init
  <1>2. Route!PlannerInv /\ UNCHANGED routeVars => Route!PlannerInv'
    BY RouteUnmoved DEF routeVars
  <1>3. Route!PlannerInv /\ [Next]_vars => Route!PlannerInv'
    BY <1>2, StepOfPart, NextPlannerInv
  <1>4. QED
    BY <1>1, <1>3, PlannerInvImplies, PTL DEF Spec
=============================================================================
