---------------------------- MODULE Consolidate ----------------------------
(***************************************************************************)
(* What is made of the sorted pacct file: csacon reports the jobs that     *)
(* have ended as totals for each user, csarecy keeps the others for the    *)
(* next night, and csaaddc adds files of totals up.                        *)
(***************************************************************************)
EXTENDS CsaBuild

CONSTANTS User, UserOf(_)      \* the user of a record

Jobs(spacct) == FlattenSeq([u \in DOMAIN spacct |-> spacct[u].jobs])

(***************************************************************************)
(* csacon                                                                  *)
(***************************************************************************)
(* Mutant: the end of a job is not looked at when it has a request.        *)
WantedByEoj(job, all) == all \/ job.B \/ job.C \/ job.T \/ job.I
(* scan_srecs *)
Wanted(job, all) == all \/ job.B \/ job.C \/ job.T \/ (~job.W /\ job.I)

(* proc_job, sum_rec: a job that ended by a crash counts at its first      *)
(* process, any other at its EOJ.                                          *)
ByCrash(job, all) == job.C \/ (all /\ ~(job.I \/ job.C \/ job.T))
Of(recs, user) == SelectSeq(recs, LAMBDA r : UserOf(r) = user)
Nth(recs, type) == SelectSeq(recs, LAMBDA r : r.type = type)

NoTotal == [pc |-> 0, njobs |-> 0, nreq |-> 0]
Plus(t1, t2) == [pc |-> t1.pc + t2.pc, njobs |-> t1.njobs + t2.njobs, nreq |-> t1.nreq + t2.nreq]

(* Mutant: a crash counts for each process. *)
SumRecEach(job, all, user) ==
  [pc |-> Len(Of(job.eop, user)), nreq |-> Len(Of(job.wm, user)),
   njobs |-> Len(Of(Nth(job.job, "eoj"), user)) + (IF ByCrash(job, all) THEN Len(Of(job.eop, user)) ELSE 0)]

SumRec(job, all, user) ==
  LET own == SelectSeq(job.job, LAMBDA r : r.type # "cfg")
      crashed == IF ~ByCrash(job, all) THEN 0
                 ELSE IF job.eop # <<>> THEN (IF UserOf(job.eop[1]) = user THEN 1 ELSE 0)
                 ELSE Len(Of(own, user))
  IN [pc |-> Len(Of(job.eop, user)), nreq |-> Len(Of(job.wm, user)),
      njobs |-> Len(Of(Nth(job.job, "eoj"), user)) + crashed]

WantedJobs(spacct, all) == SelectSeq(Jobs(spacct), LAMBDA job : Wanted(job, all))
Csacon(spacct, all) ==
  [user \in User |-> FoldLeft(LAMBDA t, job : Plus(t, SumRec(job, all, user)), NoTotal, WantedJobs(spacct, all))]

(***************************************************************************)
(* csarecy                                                                 *)
(***************************************************************************)
(* scan_spacct: the condition is written for itself. *)
Recycled(job) == ~job.B /\ ~job.C /\ ~job.T /\ (job.W \/ ~job.I)

(* Mutant: the processes of a job are not kept.                            *)
PreserveJobLess(job) == job.wm \o job.job
(* preserve_job: the request, the processes, the rest; a process without a *)
(* job ID ends the job.                                                    *)
PreserveJob(job) ==
  job.wm \o (IF \E n \in DOMAIN job.eop : job.eop[n].jid = 0
             THEN SubSeq(job.eop, 1, Min({n \in DOMAIN job.eop : job.eop[n].jid = 0}) - 1)
             ELSE job.eop \o job.job)

(* Uptime_record: before a job that began after the end of the uptime that *)
(* was written last; until one is written, before any with a time.  An     *)
(* uptime ends when csabuild runs.                                         *)
Header(boot) == [type |-> "cfg", boot |-> boot, time |-> boot]
(* Mutant: no uptime is written. *)
PreserveBare(out, boot, job) == [out EXCEPT !.recs = @ \o PreserveJob(job)]
Preserve(out, boot, job) ==
  LET header == job.btime > 0 /\ ~out.header /\ PreserveJob(job) # <<>>
  IN [recs |-> out.recs \o (IF header THEN <<Header(boot)>> ELSE <<>>) \o PreserveJob(job),
      header |-> out.header \/ header]
Csarecy(spacct) ==
  FoldLeft(LAMBDA out, up : FoldLeft(LAMBDA o, job : IF Recycled(job) THEN Preserve(o, up.boot, job) ELSE o,
                                     out, up.jobs),
           [recs |-> <<>>, header |-> FALSE], spacct).recs

(***************************************************************************)
(* csaaddc                                                                 *)
(***************************************************************************)
(* enter, findacd: the records of a user are added up. *)
Csaaddc(files) == [user \in User |-> FoldLeft(LAMBDA t, f : Plus(t, f[user]), NoTotal, files)]
=============================================================================
