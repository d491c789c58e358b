------------------------- MODULE MCTurnOrchestrator -------------------------
(* Small instances of TurnOrchestrator for TLC. *)
EXTENDS TurnOrchestrator, TLC

Symmetric == Permutations(Turns) \cup Permutations(Replicas)
=============================================================================
