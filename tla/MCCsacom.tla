----------------------------- MODULE MCCsacom ------------------------------
(***************************************************************************)
(* Instances of csacom for TLC.  A day has two hours; the first records    *)
(* are of day 2.                                                           *)
(***************************************************************************)
EXTENDS Csacom, TLC

Sizes == "csa" :> 4 @@ "mem" :> 2 @@ "io" :> 1 @@ "delay" :> 2 @@ "soj" :> 2 @@ "eoj" :> 2 @@ "cfg" :> 5 @@ "wmbs" :> 3

Rec(type, links, start, end) ==
  [type |-> type, links |-> links, start |-> start, end |-> end, user |-> "u1", su |-> FALSE, jid |-> 1, fit |-> TRUE]
Plain == [b |-> FALSE, L |-> FALSE, T |-> FALSE, W |-> FALSE, o |-> FALSE, u |-> "any", j |-> 0, fit |-> FALSE, time |-> NoTimes]

(* Processes of one to four records, the last as long as the buffer, over  *)
(* two days, and the other records that come between them.                 *)
Mixed ==
  {Rec("csa", <<>>, 4, 4), Rec("csa", <<"mem">>, 4, 5), Rec("csa", <<>>, 5, 5), Rec("csa", <<"mem", "io">>, 4, 6),
   [Rec("csa", <<"mem", "io", "delay">>, 6, 6) EXCEPT !.su = TRUE], [Rec("csa", <<"io">>, 5, 7) EXCEPT !.user = "unknown"],
   [Rec("csa", <<>>, 6, 7) EXCEPT !.jid = 2, !.fit = FALSE],
   Rec("soj", <<>>, 5, 5), [Rec("eoj", <<>>, 4, 6) EXCEPT !.user = "unknown"],
   Rec("cfg", <<>>, 5, 5), Rec("wmbs", <<>>, 5, 5)}
Conditions ==
  {[Plain EXCEPT !.b = b, !.L = l, !.T = t, !.o = o, !.u = u] :
     b \in BOOLEAN, l \in BOOLEAN, t \in BOOLEAN, o \in BOOLEAN, u \in {"any", "u1", "#", "?"}}
  \cup {[Plain EXCEPT !.b = b, !.T = t, !.j = 1] : b \in BOOLEAN, t \in BOOLEAN}
  \cup {[Plain EXCEPT !.b = b, !.o = o, !.fit = TRUE] : b \in BOOLEAN, o \in BOOLEAN}

(* Up to two limits of time; the dates of -W. *)
Limits == {l \in [Times -> {NotGiven, 1, 2}] : Cardinality({t \in Times : l[t] # NotGiven}) <= 2}
ByTime == {[Plain EXCEPT !.b = b, !.L = b, !.T = t, !.time = l] : b \in BOOLEAN, t \in BOOLEAN, l \in Limits}
            \cup {[Plain EXCEPT !.W = TRUE, !.L = l] : l \in BOOLEAN}
Every == Conditions \cup ByTime
=============================================================================
