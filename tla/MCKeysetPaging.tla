-------------------------- MODULE MCKeysetPaging --------------------------
(* Instances of KeysetPaging for TLC. *)
EXTENDS KeysetPaging
CONSTANTS b1, b2

Doc(id, ts, bin) == [id |-> id, ts |-> ts, bin |-> bin, metric |-> "depth"]
Query(bins, from, to) == [bins |-> bins, metrics |-> {"depth"}, from |-> from, to |-> to]

\* Two readings tie, and one has the lower time and the higher id.
MCReadings == {Doc(1, 2, b1), Doc(2, 2, b1), Doc(5, 1, b1),
               Doc(3, 3, b2), Doc(4, 1, b2)}
\* Everything; one bin within a range that leaves a reading out.
MCFilters == {Query({}, 0, 9), Query({b1}, 2, 9)}
=============================================================================
