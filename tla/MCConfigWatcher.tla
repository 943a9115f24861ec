--------------------------- MODULE MCConfigWatcher ---------------------------
(* Instances of ConfigWatcher for TLC. *)
EXTENDS ConfigWatcher

CONSTANTS common, webhooks, configs, A
==============================================================================
