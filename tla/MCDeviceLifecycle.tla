-------------------------- MODULE MCDeviceLifecycle --------------------------
(* Model-checking instance of DeviceLifecycle; constants in the .cfg. *)
EXTENDS DeviceLifecycle
==============================================================================
