------------------------- MODULE MCPermissionDocks -------------------------
(* Small instances of PermissionDocks for TLC. *)
EXTENDS PermissionDocks, TLC

Symmetric == Permutations(AutoCallers) \cup Permutations(Callers \ AutoCallers)

\* Nothing was saved, or a session's switch that overrides its directory's; the
\* other positions are reached by switching.
SavedSwitches == {<<"unset", "unset">>, <<"on", "off">>, <<"off", "on">>}

\* A bound: a deletion is explored beside answers and docks, not also beside
\* switching, reloading and pruning.
DeletedApart == Untouched \/ (toggles + loads = 0 /\ forgotten = {})
=============================================================================
