----------------------------- MODULE MCReports -----------------------------
(* Instance of Reports: days of four seconds from a Thursday, whose Friday *)
(* the holidays file marks.                                                *)
EXTENDS Reports

MCPopTimes == [weekday |-> <<"at", 1, 3>>, saturday |-> <<"at", 2, 0>>, sunday |-> <<"all">>]
MCUserOf(rec) == rec.uid
MCSize == [t \in Type |-> 1]

Eop(cmd, jid, uid, prid, time, dur, cpu, delay) ==
  [type |-> "eop", cmd |-> cmd, jid |-> jid, uid |-> uid, prid |-> prid, time |-> time, dur |-> dur, cpu |-> cpu, delay |-> delay]
Own(type, jid, uid, time, dur, himem) == [type |-> type, jid |-> jid, uid |-> uid, time |-> time, dur |-> dur, himem |-> himem]
Wkmg(req, jid, time, queue, cpu, uid, prid, weight) ==
  [type |-> "wkmg", req |-> req, jid |-> jid, time |-> time, queue |-> queue, cpu |-> cpu, wait |-> 1, uid |-> uid,
   prid |-> prid, weight |-> weight]
JobOf(eop, job, wm, jid, ended) ==
  [eop |-> eop, job |-> job, wm |-> wm, jid |-> jid, btime |-> 1, I |-> wm = <<>> /\ ended, B |-> wm # <<>> /\ ended,
   W |-> wm # <<>>, C |-> FALSE, T |-> FALSE]
Ended(jid, uid, himem) == <<Own("soj", jid, uid, 1, 0, 0), Own("eoj", jid, uid, 1, 8, himem)>>

(* Jobs without a request: one or two commands, once or twice; a process   *)
(* over two midnights; one without a name; one without a delay record; one *)
(* that still runs.                                                        *)
Interactive == {
  JobOf(<<Eop("ls", 1, 1, 1, 2, 3, 1, TRUE), Eop("cc", 1, 1, 1, 3, 9, 2, TRUE)>>, Ended(1, 1, 1), <<>>, 1, TRUE),
  JobOf(<<Eop("ls", 2, 1, 1, 4, 0, 1, TRUE), Eop("ls", 2, 1, 1, 11, 3, 1, TRUE)>>, Ended(2, 1, 1), <<>>, 2, TRUE),
  JobOf(<<Eop(Unnamed, 2, 2, 1, 12, 2, 1, TRUE)>>, Ended(2, 2, 1), <<>>, 2, TRUE),
  JobOf(<<Eop("cc", 1, 1, 1, 5, 2, 1, FALSE)>>, Ended(1, 1, 1), <<>>, 1, TRUE),
  JobOf(<<Eop("cc", 2, 2, 2, 5, 3, 1, TRUE)>>, <<Own("soj", 2, 2, 1, 0, 0)>>, <<>>, 2, FALSE)}
(* Requests of one part and of two: in one queue and in two, of one user   *)
(* and of two, with a project and without, with the time of each.          *)
Batch == {
  JobOf(<<Eop("cc", 1, 1, 1, 2, 3, 2, TRUE), Eop("ls", 1, 2, 2, 1, 3, 1, TRUE)>>, Ended(1, 1, 2),
        <<Wkmg(1, 1, 2, "q1", 1, 1, 1, 2)>>, 1, TRUE),
  JobOf(<<Eop("cc", 1, 1, 1, 2, 3, 9, TRUE)>>, Ended(1, 1, 0), <<Wkmg(2, 1, 3, "q1", 0, 1, DefaultPrid, 3)>>, 1, TRUE),
  JobOf(<<Eop("ls", 2, 2, 2, 2, 3, 1, TRUE), Eop("ls", 1, 1, 2, 5, 3, 2, TRUE)>>, Ended(2, 2, 3) \o Ended(1, 1, 1),
        <<Wkmg(3, 1, 4, "q2", 1, 1, 1, 2), Wkmg(3, 2, 1, "q2", 1, 2, 2, 3)>>, 1, TRUE),
  JobOf(<<Eop("ls", 1, 1, 1, 6, 1, 1, TRUE)>>, Ended(1, 1, 1),
        <<Wkmg(4, 1, 2, "q1", 1, 1, 1, 2), Wkmg(4, 1, 6, "q2", 2, 1, 2, 3)>>, 1, TRUE),
  JobOf(<<>>, <<>>, <<Wkmg(5, 2, 2, "q3", 2, 2, 2, 1)>>, 2, TRUE)}
MCJobRecord == Interactive \cup Batch

Sel(full, noZero, exclusive, jid, req) == [full |-> full, noZero |-> noZero, exclusive |-> exclusive, jid |-> jid, req |-> req]
MCSelection == {Sel(TRUE, FALSE, FALSE, AnyOne, AnyOne), Sel(FALSE, FALSE, FALSE, 1, AnyOne),
                Sel(FALSE, FALSE, FALSE, AnyOne, 3), Sel(FALSE, FALSE, TRUE, 1, AnyOne), Sel(FALSE, TRUE, FALSE, AnyOne, AnyOne)}
=============================================================================
