-------------------------- MODULE MCPluginBootstrap --------------------------
(* Plugins and hook processes that differ in nothing. *)
EXTENDS PluginBootstrap, TLC
Symmetry == Permutations(Plugin) \cup Permutations(Hook)
=============================================================================
