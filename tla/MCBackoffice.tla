---------------------------- MODULE MCBackoffice ----------------------------
EXTENDS Backoffice, TLC
Symmetry == Permutations(Handlers)
=============================================================================
