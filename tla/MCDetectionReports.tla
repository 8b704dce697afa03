------------------------- MODULE MCDetectionReports -------------------------
(* Instances of DetectionReports for TLC. *)
EXTENDS DetectionReports
=============================================================================
