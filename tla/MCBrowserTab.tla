---------------------------- MODULE MCBrowserTab ----------------------------
(* Instances of BrowserTab for TLC. *)
EXTENDS BrowserTab, SequencesExt

\* Four positions, such that routes of the nearest neighbour can be improved.
MCPlaces == {<<0, 0>>, <<3, 0>>, <<1, 2>>, <<4, 3>>}
MCDepot == <<0, 0>>

\* Five bins: all equally full, or one below the threshold and one inactive.
MCFills == {<<2, 2, 2, 2, 2>>, <<1, 2, 2, 2, 0>>}

\* The sorted sequences of Sorted, against those of the community modules.
ASSUME SortedAsCommunityModules ==
    \A S \in SUBSET (1..5) : /\ List!Ascending(S) = SetToSortSeq(S, <)
                               /\ List!Descending(S) = SetToSortSeq(S, >)
=============================================================================
