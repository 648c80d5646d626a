--------------------------- MODULE MCBridgeCommands ---------------------------
(* Constants for TLC. *)
EXTENDS BridgeCommands

CONSTANTS d1, d2
=============================================================================
