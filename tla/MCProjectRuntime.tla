--------------------------- MODULE MCProjectRuntime ---------------------------
(* Small instances of ProjectRuntime for TLC; the cfg names the sessions. *)
EXTENDS ProjectRuntime
=============================================================================
