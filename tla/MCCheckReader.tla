--------------------------- MODULE MCCheckReader ---------------------------
(* Model-checking instances of the check reader role. *)
EXTENDS CheckReader
=============================================================================
