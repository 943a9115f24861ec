----------------------------- MODULE MCConfigFile -----------------------------
(* Instances of ConfigFile for TLC. *)
EXTENDS ConfigFile, TLC

Symmetry == Permutations(Program)
===============================================================================
