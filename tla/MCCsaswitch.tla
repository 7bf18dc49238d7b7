---------------------------- MODULE MCCsaswitch ----------------------------
(***************************************************************************)
(* Instances of csaswitch for TLC: csarun, and csackpacct or an            *)
(* administrator.                                                          *)
(***************************************************************************)
EXTENDS Csaswitch, TLC

CONSTANTS csarun, csackpacct
=============================================================================
