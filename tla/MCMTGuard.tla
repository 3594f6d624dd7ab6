------------------------------- MODULE MCMTGuard -------------------------------
(***************************************************************************)
(* Small instances of MTGuard.                                             *)
(***************************************************************************)
EXTENDS MTGuard

MCModes == {"NICE", "MULTI", "SERIALIZED"}
===============================================================================
