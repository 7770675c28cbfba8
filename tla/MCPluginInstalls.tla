-------------------------- MODULE MCPluginInstalls --------------------------
(* Small instances of PluginInstalls for TLC. *)
EXTENDS PluginInstalls, TLC

Symmetry == Permutations(Calls) \cup Permutations(Creds) \cup Permutations(Ids)
=============================================================================
