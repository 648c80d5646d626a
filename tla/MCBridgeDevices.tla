---------------------------- MODULE MCBridgeDevices ----------------------------
(* Constants for TLC. *)
EXTENDS BridgeDevices

CONSTANTS d1, n1, light, switch, plain

TheNames == [d \in {d1} |-> {n1}]
Suggests == [m \in {plain} |-> {}]
=============================================================================
