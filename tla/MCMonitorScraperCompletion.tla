---------------------- MODULE MCMonitorScraperCompletion ----------------------
(* Instances of MonitorScraperCompletion for TLC. *)
EXTENDS MonitorScraperCompletion, TLC

Symmetry == Permutations(Request)
==============================================================================
