------------------------------- MODULE MCAudio -------------------------------
(* The audio HAL over the configuration the device ships. *)
EXTENDS AudioHal, AudioConfigs
=============================================================================
