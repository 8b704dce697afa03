-------------------------- MODULE MCSensorCoverage --------------------------
(* Instances of SensorCoverage for TLC. *)
EXTENDS SensorCoverage

\* No or another directory, another target, and mounts that changed or cannot be read.
MCValues == [root |-> {0, 1, 2}, configured |-> {1, 2}, mounts |-> {1, 0}]
=============================================================================
