------------------------------- MODULE MCPresence -------------------------------
(* Devices as model values for TLC. *)
EXTENDS Presence, TLC

CONSTANTS d1, d2

SymDevices == Permutations(Devices)
=============================================================================
