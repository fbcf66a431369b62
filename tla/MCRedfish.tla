----------------------------- MODULE MCRedfish -----------------------------
(* Instances of Redfish for TLC. *)
EXTENDS Redfish, TLC

ClientSymmetry == Permutations(Clients)
=============================================================================
