---------------------------- MODULE MCCommandPath ----------------------------
(* Devices are interchangeable: their permutations for TLC. *)
EXTENDS CommandPath, TLC

Symmetry == Permutations(Devices)
=============================================================================
