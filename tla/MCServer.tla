------------------------------ MODULE MCServer ------------------------------
(* Instances of Server for TLC.  The connections are alike. *)
EXTENDS Server, TLC
Symmetry == Permutations(Clients)
=============================================================================
