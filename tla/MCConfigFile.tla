---------------------------- MODULE MCConfigFile ----------------------------
(* A small instance of ConfigFile for TLC.  Nothing depends on which       *)
(* process, layout or name is which; of the colors one is the default.     *)
EXTENDS ConfigFile, TLC

Symmetry == Permutations(Processes) \cup Permutations(Layouts) \cup Permutations(Names)
=============================================================================
