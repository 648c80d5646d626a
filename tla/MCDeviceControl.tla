---------------------------- MODULE MCDeviceControl ----------------------------
(* Payloads for TLC: a light, a fan and a thermostat. *)
EXTENDS DeviceControl

Payloads ==
  {[switch |-> "OFF", brightness |-> 128], [switch |-> "TOGGLE"],
   [fan_mode |-> FanOff], [fan_mode |-> 1, percentage |-> 0], [percentage |-> 50],
   [hvac_mode |-> Cool, target_temperature |-> 2000], [identify |-> 1], [cover |-> "STOP"]}
=============================================================================
