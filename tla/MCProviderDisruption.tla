------------------------- MODULE MCProviderDisruption -------------------------
(* Model-checking instances of ProviderDisruption. *)
EXTENDS ProviderDisruption

CONSTANTS w1, w2

OneWorld == <<w1>>
TwoWorlds == <<w1, w2>>
=============================================================================
