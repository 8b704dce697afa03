------------------------- MODULE MCIncidentRetention -------------------------
(* Instances of IncidentRetention for TLC. *)
EXTENDS IncidentRetention
=============================================================================
