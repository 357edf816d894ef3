-------------------------- MODULE MCSettingsRuntime --------------------------
(* The settings runtime for TLC: calls and values are interchangeable.       *)
EXTENDS SettingsRuntime, TLC

Symmetry == Permutations(Requests) \union Permutations(Values)
=============================================================================
