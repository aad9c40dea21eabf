----------------------------- MODULE MCRefresh -----------------------------
EXTENDS Refresh, TLC

Symmetry == Permutations(Proc) \cup Permutations(Player)
=============================================================================
