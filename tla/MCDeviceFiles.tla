----------------------------- MODULE MCDeviceFiles -----------------------------
(* Instance of DeviceFiles for TLC.                                           *)
EXTENDS DeviceFiles
===============================================================================
