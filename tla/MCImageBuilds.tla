---------------------------- MODULE MCImageBuilds ----------------------------
(* Small instances of ImageBuilds for TLC. *)
EXTENDS ImageBuilds, TLC

CONSTANT u1

\* All custom images are one user's.
OneOwner == [b \in CustomBuilds |-> u1]
=============================================================================
