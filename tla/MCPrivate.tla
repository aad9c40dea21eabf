------------------------------- MODULE MCPrivate -------------------------------
(* Values for the runs of the private evidence and its checkpoints. *)
EXTENDS Checkpoint, TLC

CONSTANTS a1, a2, b1

Symmetry == Permutations(Actor) \cup Permutations(ContextId)
=============================================================================
