-------------------------- MODULE MCLivemapConnection --------------------------
(* Model-checking instances of LivemapConnection. *)
EXTENDS LivemapConnection
=============================================================================
