----------------------------- MODULE MCRecords -----------------------------
(***************************************************************************)
(* Instances of a pacct file for TLC: the sizes keep the order and the     *)
(* sums of those of acctdef.h.in that the buffer of a reader depends on.   *)
(***************************************************************************)
EXTENDS Records, TLC

Sizes == "csa" :> 4 @@ "mem" :> 2 @@ "io" :> 1 @@ "delay" :> 2 @@ "soj" :> 2 @@ "cfg" :> 5
Kinds == {<<"csa">>, <<"csa", "mem">>, <<"csa", "mem", "io">>, <<"soj">>, <<"cfg">>}
=============================================================================
