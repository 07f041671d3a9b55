--------------------------- MODULE MCTerminalReplay ---------------------------
(* Small instances of TerminalReplay for TLC. *)
EXTENDS TerminalReplay
===============================================================================
