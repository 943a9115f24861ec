--------------------------- MODULE MCMonitorManager ---------------------------
(* Instances of MonitorManager for TLC. *)
EXTENDS MonitorManager, TLC

Symmetry == Permutations(Op) \cup Permutations(Key)
==============================================================================
