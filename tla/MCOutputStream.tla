---------------------------- MODULE MCOutputStream ----------------------------
(* Small instances of OutputStream for TLC. *)
EXTENDS OutputStream
===============================================================================
