--------------------------- MODULE MCOdooCommands ---------------------------
(* Instances of OdooCommands: which commands of which kind Odoo sends. *)
EXTENDS OdooCommands, TLC

CONSTANTS a, b, e, d, p, x, z

\* A deployment and a participation in the world it creates.
NewWorld == z :> "deploy" @@ p :> "participation"
\* A world from its deployment to its end, with an entitlement, demand data and a
\* row of another world, which has been there from the start.  The end of the world
\* is ordered after the demand data, which a dead worker may still hold then.
WholeLife == z :> "deploy" @@ x :> "close" @@ e :> "entitlement" @@ d :> "demand" @@ b :> "admin"
LifeOrder == {<<b, z>>, <<b, x>>, <<b, e>>, <<b, d>>, <<d, x>>}
\* An administrative command and a participation.
Handled == a :> "admin" @@ p :> "participation"
\* An administrative command, then the end of the world.
Closing == a :> "admin" @@ x :> "close"
AdminFirst == {<<a, x>>}
\* The end of the world, then commands that are still under way.
Late == x :> "close" @@ a :> "admin" @@ e :> "entitlement"
CloseFirst == {<<x, a>>, <<x, e>>, <<a, e>>}

NoOrder == {}
=============================================================================
