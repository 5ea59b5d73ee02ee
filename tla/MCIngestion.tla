---------------------------- MODULE MCIngestion ----------------------------
(* Instances of Ingestion for TLC. *)
EXTENDS Ingestion, TLC
CONSTANTS depth, gas

\* Batches and single readings, all of different times.
MCMessages == {[ts |-> 1, metrics |-> {depth}], [ts |-> 2, metrics |-> {depth, gas}],
               [ts |-> 3, metrics |-> {depth}]}
HandlerSymmetry == Permutations(Handlers)
=============================================================================
