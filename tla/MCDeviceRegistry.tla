--------------------------- MODULE MCDeviceRegistry ---------------------------
(***************************************************************************)
(* Identities and devices for TLC.                                         *)
(***************************************************************************)
EXTENDS DeviceRegistry, TLC

Symmetric == Permutations(Callers) \union Permutations(Names) \union Permutations(Roles)
===============================================================================
