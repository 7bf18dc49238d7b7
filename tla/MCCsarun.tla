------------------------------ MODULE MCCsarun ------------------------------
(***************************************************************************)
(* Instances of csarun for TLC.                                            *)
(***************************************************************************)
EXTENDS Csarun, TLC

CONSTANTS r1, r2, j1, j2

Unfinished == {<<j2, "proc">>}
=============================================================================
