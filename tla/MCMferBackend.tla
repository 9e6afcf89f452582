---------------------------- MODULE MCMferBackend ----------------------------
(* Instances of MferBackend for TLC. *)
EXTENDS MferBackend, TLC

ClientSymmetry == Permutations(Clients)
=============================================================================
