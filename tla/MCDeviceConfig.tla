--------------------------- MODULE MCDeviceConfig ---------------------------
(* Small instances of DeviceConfig.                                        *)
EXTENDS DeviceConfig

CONSTANTS plain, maint

\* One payload with maintenance_on_boot, one without.
MCPayload == {plain, maint}
MCMaintenance == {maint}
=============================================================================
