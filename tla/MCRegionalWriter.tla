--------------------------- MODULE MCRegionalWriter ---------------------------
(* Model-checking instances of RegionalWriter. *)
EXTENDS RegionalWriter, TLC

CONSTANTS r1, r2, c1, c2, c3, t1, t2

\* c1 advances the simulation within the second, c2 into the next, c3 is a command
\* without a time of its own.
MCAt == (c1 :> 1500) @@ (c2 :> 2000) @@ (c3 :> 0)

OneGenesis == r1 :> 1000
OneRegionJobs ==
    {[region |-> r1, cmds |-> <<c1>>],
     [region |-> r1, cmds |-> <<c3>>],
     [region |-> r1, cmds |-> <<c3, c2>>]}

TwoGenesis == (r1 :> 1000) @@ (r2 :> 1000)
TwoAt == (c2 :> 2000) @@ (c3 :> 0)
TwoRegionJobs == {[region |-> r1, cmds |-> <<c2>>], [region |-> r1, cmds |-> <<c3>>]}
=============================================================================
