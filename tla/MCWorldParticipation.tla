------------------------ MODULE MCWorldParticipation ------------------------
(* Instances of WorldParticipation; the customers are interchangeable. *)
EXTENDS WorldParticipation, TLC

Symmetry == Permutations(Customers)
=============================================================================
