------------------------ MODULE MCCompletionMonitor ------------------------
EXTENDS CompletionMonitor, TLC

Symmetry == Permutations(Proc) \cup Permutations(Prediction) \cup Permutations(Version)
=============================================================================
