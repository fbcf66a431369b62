----------------------------- MODULE MCSSHExec -----------------------------
(* Instances of SSHExec for TLC. *)
EXTENDS SSHExec, TLC

ClientSymmetry == Permutations(Clients)
=============================================================================
