------------------------ MODULE MCDeviceStateMachine -------------------------
(* Model-checking instance of DeviceStateMachine; constants in the .cfg. *)
EXTENDS DeviceStateMachine
==============================================================================
