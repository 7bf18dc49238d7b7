------------------------------ MODULE MCBatch ------------------------------
(***************************************************************************)
(* Instances of the nightly batch for TLC.                                 *)
(***************************************************************************)
EXTENDS Batch

CONSTANTS u1, u2

Sizes == "cfg" :> 7 @@ "soj" :> 3 @@ "eop" :> 5 @@ "eoj" :> 4 @@ "wkmg" :> 11
JobUsers == [j \in Job |-> IF j = 2 THEN u2 ELSE u1]
ReqUsers == [q \in Req |-> IF q = 2 THEN u2 ELSE u1]
Owner(r) == IF r.type = "wkmg" THEN ReqUsers[r.req] ELSE JobUsers[r.job]
Plain == {[a |-> TRUE, i |-> FALSE, n |-> FALSE, cutoff |-> -1]}
Ignoring == {[a |-> TRUE, i |-> TRUE, n |-> FALSE, cutoff |-> -1]}
=============================================================================
