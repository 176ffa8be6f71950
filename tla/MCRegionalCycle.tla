--------------------------- MODULE MCRegionalCycle ---------------------------
(* Model-checking instance of RegionalCycle. *)
EXTENDS RegionalCycle
=============================================================================
