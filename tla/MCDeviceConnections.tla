------------------------- MODULE MCDeviceConnections -------------------------
(***************************************************************************)
(* Connections for TLC.                                                    *)
(***************************************************************************)
EXTENDS DeviceConnections, TLC

Symmetric == Permutations(Callers) \union Permutations(Devices)
===============================================================================
