------------------------- MODULE MCDevicePresence -------------------------
(* DevicePresence for TLC: it is finite as it stands.                      *)
EXTENDS DevicePresence

=============================================================================
