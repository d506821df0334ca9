----------------------------- MODULE MCIncident -----------------------------
(* Model-checking instances of the incident controller. *)
EXTENDS IncidentProperties
=============================================================================
