--------------------------- MODULE MCRegionalAdvance ---------------------------
(* A model-checking instance of RegionalAdvance: two regions of one world. *)
EXTENDS RegionalAdvance

CONSTANTS r1, r2

TwoRegions == <<r1, r2>>
OneWorld == [r \in RegionSet |-> "w"]

\* A dispatch at the genesis, a continuation and a dispatch at the same time: with the
\* advance as many commands as a batch may have.
Deployment ==
    {[region |-> r1, kind |-> "dispatch", key |-> "b0", at |-> 1],
     [region |-> r2, kind |-> "queue", key |-> "b1", at |-> 3],
     [region |-> r2, kind |-> "dispatch", key |-> "b2", at |-> 3]}

\* A disruption of both regions. An order that is placed late starts at the crowded time.
Order1 == {[key |-> "k1", start |-> 2, end |-> 4, regions |-> {r1, r2}]}
=============================================================================
