-------------------------- MODULE MCPreviewManager --------------------------
(* Small instances of PreviewManager for TLC. *)
EXTENDS PreviewManager, TLC

Symmetric == Permutations(Starts) \cup Permutations(Stops) \cup Permutations(Plans)
All == FaultKinds
None == {}
=============================================================================
