-------------------------- MODULE MCIncidentApply --------------------------
(* Model-checking instances of the IncidentApply controller. *)
EXTENDS IncidentApplyProperties
=============================================================================
