----------------------------- MODULE MCDeviceStore -----------------------------
(* Attributes as model values for TLC. *)
EXTENDS DeviceStore

CONSTANTS a1, a2
=============================================================================
