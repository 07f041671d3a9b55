-------------------------- MODULE MCGitMutationLock --------------------------
(* A small instance of GitMutationLock for TLC. *)
EXTENDS GitMutationLock
=============================================================================
