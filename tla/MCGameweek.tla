------------------------------ MODULE MCGameweek ------------------------------
(* Values for the runs of the whole gameweek. *)
EXTENDS DecisionJournal, TLC

CONSTANTS p1, p2, r1, r2, e1, e2, x1

Symmetry == Permutations(Preparer) \cup Permutations(Run)
=============================================================================
