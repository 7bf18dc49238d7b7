------------------------------ MODULE Reports ------------------------------
(***************************************************************************)
(* The reports of a night and of a period: csacms counts the processes of  *)
(* each command (csa/cmd/csacms.c), csadrep adds up the requests of each   *)
(* queue (csa/cmd/csadrep.c), csajrep shows a request.  csarun makes them  *)
(* each night from the sorted pacct file; csaperiod and the administrator  *)
(* merge the files of several nights.                                      *)
(***************************************************************************)
EXTENDS Consolidate, PrimeTime, RequestReport

CONSTANTS
  MaxQueue,             \* MAX_QUEUE
  Word,                 \* an int holds -Word .. Word - 1
  JobRecord,            \* the jobs that csabuild may write
  Selection,            \* what csajrep is asked for
  MaxJobs, MaxNights    \* bounds: the jobs on disk, the nights

ASSUME ReportsAssumption ==
  /\ MaxQueue \in Nat \ {0} /\ Word \in Nat \ {0} /\ MaxJobs \in Nat /\ MaxNights \in Nat
  /\ \A job \in JobRecord : job.eop \in Seq(ToSet(job.eop)) /\ \A rec \in ToSet(job.eop) : rec.cpu \in Nat

(***************************************************************************)
(* csacms                                                                  *)
(***************************************************************************)
Unnamed == ""
Other == "***other"

(* summarize_pacct_file: a process counts as prime when most of its time,  *)
(* at least a second, was.                                                 *)
Cms(rec) ==
  LET pop == PopCalc(rec.time, IF rec.dur = 0 THEN 1 ELSE rec.dur)
      prime == pop.prime > pop.nonprime
  IN [cmd |-> rec.cmd, prime |-> IF prime THEN 1 ELSE 0, nonprime |-> IF prime THEN 0 ELSE 1, cpu |-> rec.cpu]

(* add_cms_records *)
AddCms(to, from) == [to EXCEPT !.prime = @ + from.prime, !.nonprime = @ + from.nonprime, !.cpu = @ + from.cpu]

(* save_record_data: to the entry of that name, or to the first without a  *)
(* name, which takes the name.                                             *)
Slots(table, cmd) == {n \in DOMAIN table : table[n].cmd \in {cmd, Unnamed}}
(* Mutant: always a new entry. *)
SaveRecordNew(table, rec) == Append(table, rec)
SaveRecord(table, rec) ==
  IF Slots(table, rec.cmd) = {} THEN Append(table, rec)
  ELSE LET n == Min(Slots(table, rec.cmd))
       IN [table EXCEPT ![n] = AddCms([@ EXCEPT !.cmd = rec.cmd], rec)]
SaveAll(table, recs) == FoldLeft(SaveRecord, table, recs)

(* -j: the commands that ran once go to one entry. *)
Once(e) == e.prime + e.nonprime <= 1
JoinSingle(table) ==
  LET t == SaveRecord(table, [cmd |-> Other, prime |-> 0, nonprime |-> 0, cpu |-> 0])
      j == Min({n \in DOMAIN t : t[n].cmd = Other})
      single == {n \in DOMAIN t \ {j} : t[n].cmd # Unnamed /\ Once(t[n])}
      joined == [cmd |-> Other, prime |-> SumFunctionOnSet([n \in DOMAIN t |-> t[n].prime], single),
                 nonprime |-> SumFunctionOnSet([n \in DOMAIN t |-> t[n].nonprime], single),
                 cpu |-> SumFunctionOnSet([n \in DOMAIN t |-> t[n].cpu], single)]
  IN [n \in DOMAIN t |->
        IF n = j THEN AddCms(t[j], joined) ELSE IF n \in single THEN [t[n] EXCEPT !.cmd = Unnamed] ELSE t[n]]

(* compress_hash: entries without a name are left out.  The order that the *)
(* entries are sorted in does not matter to who reads them.                *)
Compress(table) == {table[n] : n \in {m \in DOMAIN table : table[m].cmd # Unnamed}}

Processes(jobs) == FlattenSeq([n \in DOMAIN jobs |-> jobs[n].eop])
CmsTable(jobs) == SaveAll(<<>>, [n \in DOMAIN Processes(jobs) |-> Cms(Processes(jobs)[n])])
Csacms(jobs) == Compress(CmsTable(jobs))
CsacmsJoined(jobs) == Compress(JoinSingle(CmsTable(jobs)))
(* csacms -s: the entries of the files are records in their turn. *)
CsacmsMerge(files) == Compress(SaveAll(<<>>, FlattenSeq([n \in DOMAIN files |-> SetToSeq(files[n])])))

(***************************************************************************)
(* csadrep                                                                 *)
(***************************************************************************)
(* inter, batch: jobs.  itime, btime: CPU time.  queues: the queues, with  *)
(* their requests; lo and hi are memory marks, lotime and hitime times.    *)
NoQueue(name) ==
  [name |-> name, cpu |-> 0, jobs |-> 0, wait |-> 0, mem |-> 0, lo |-> 0, hi |-> 0, lotime |-> 0, hitime |-> 0,
   reqs |-> <<>>]
NoDrep == [inter |-> 0, batch |-> 0, itime |-> 0, btime |-> 0, queues |-> <<>>, ok |-> TRUE]
Larger(a, b) == IF a < b THEN b ELSE a

(* Sumit: a process without a delay record is taken for a corrupt record.  *)
SumProcess(d, job, rec) ==
  CASE rec.type = "eop" /\ ~rec.delay -> [d EXCEPT !.ok = FALSE]
    [] rec.type = "eop" /\ job.wm # <<>> -> [d EXCEPT !.btime = @ + rec.cpu]
    [] rec.type = "eop" -> [d EXCEPT !.itime = @ + rec.cpu]
    [] OTHER -> d
(* The accumulators of a batch job. *)
Q(job) ==
  [cpu |-> FoldLeft(LAMBDA a, rec : a + rec.cpu, 0, job.eop),
   mem |-> FoldLeft(LAMBDA a, rec : IF rec.type = "eoj" THEN Larger(a, rec.himem) ELSE a, 0, job.job)]

(* The time of a request passes through an int on its way to the marks,    *)
(* where it is compared as a large number when it is negative.             *)
AsInt(t) == ((t + Word) % (2 * Word)) - Word
AsUnsigned(t) == IF t < 0 THEN t + Word * Word ELSE t

(* sum_wm: the queue of the record, which must find room in the table.     *)
PlaceOf(queues, name) == {n \in DOMAIN queues : queues[n].name = name}
FindQueue(queues, name) == IF PlaceOf(queues, name) # {} THEN queues ELSE Append(queues, NoQueue(name))

(* The processes count for the first record, which makes a request of its  *)
(* queue; the others add to that request.  The last sets the time marks.   *)
SumWm(s, job, n) ==
  LET wm == job.wm[n]
      queues == FindQueue(s.d.queues, wm.queue)
      k == Min(PlaceOf(queues, wm.queue))
      q == IF n = 1 THEN Q(job) ELSE [cpu |-> 0, mem |-> 0]
      cpu == q.cpu + wm.cpu
      time == s.time + cpu
      marks == AsInt(time)
      last == n = Len(job.wm)
      new(e) == [e EXCEPT !.cpu = @ + cpu, !.wait = @ + wm.wait, !.mem = @ + q.mem, !.hi = Larger(@, q.mem),
                          !.jobs = @ + (IF n = 1 THEN 1 ELSE 0),
                          !.lo = IF (@ = 0 \/ q.mem < @) /\ q.mem > 0 THEN q.mem ELSE @,
                          !.lotime = IF last /\ marks > 0 /\ (@ = 0 \/ marks < @) THEN marks ELSE @,
                          !.hitime = IF last THEN Larger(@, AsUnsigned(marks)) ELSE @]
      own == IF n = 1 THEN k ELSE s.own
      put == [queues EXCEPT ![k] = new(@)]
  IN IF ~s.d.ok \/ Len(queues) > MaxQueue THEN [s EXCEPT !.d.ok = FALSE]
     ELSE [d |-> [s.d EXCEPT !.btime = @ + wm.cpu,
                  !.queues = IF n = 1 THEN [put EXCEPT ![own].reqs = <<[uid |-> wm.uid, cpu |-> cpu]>> \o @]
                             ELSE [put EXCEPT ![own].reqs[1].cpu = @ + cpu]],
           time |-> time, own |-> own]

DrepJob(d, job) ==
  LET counted == IF job.wm # <<>> THEN [d EXCEPT !.batch = @ + 1] ELSE [d EXCEPT !.inter = @ + 1]
      summed == FoldLeft(LAMBDA e, rec : SumProcess(e, job, rec), counted, job.eop \o job.job)
  IN IF ~d.ok THEN d
     ELSE FoldLeftDomain(LAMBDA s, n : SumWm(s, job, n), [d |-> summed, time |-> 0, own |-> 0], job.wm).d
Csadrep(jobs) == FoldLeft(DrepJob, NoDrep, jobs)

(***************************************************************************)
(* csadrep files                                                           *)
(***************************************************************************)
(* Mutant: a queue of the file replaces the one of its name. *)
AddQueueLast(queues, q) ==
  LET all == FindQueue(queues, q.name) IN [all EXCEPT ![Min(PlaceOf(all, q.name))] = q]
(* add_wm: every entry of the file's table, used or not, looks for its     *)
(* name or a free entry; an unused one fails when the table is full.       *)
AddQueue(queues, q) ==
  LET all == FindQueue(queues, q.name)
      k == Min(PlaceOf(all, q.name))
      low(mine, its) == IF mine = 0 \/ mine > its THEN its ELSE mine
  IN [all EXCEPT ![k] = [@ EXCEPT !.cpu = @ + q.cpu, !.jobs = @ + q.jobs, !.wait = @ + q.wait, !.mem = @ + q.mem,
                                  !.lo = low(@, q.lo), !.hi = Larger(@, q.hi),
                                  !.lotime = low(@, q.lotime), !.hitime = Larger(@, q.hitime), !.reqs = @ \o q.reqs]]

(* rd_ofile: the file is as wr_ofile left it. *)
AddFile(d, file) ==
  LET queues == FoldLeft(AddQueue, d.queues, file.queues)
  IN [inter |-> d.inter + file.inter, batch |-> d.batch + file.batch,
      itime |-> d.itime + file.itime, btime |-> d.btime + file.btime, queues |-> queues,
      ok |-> d.ok /\ Len(queues) <= MaxQueue /\ (Len(queues) = MaxQueue => Len(file.queues) = MaxQueue)]
CsadrepMerge(files) == FoldLeft(AddFile, NoDrep, files)

(* wm_rep -V 2: the requests of all queues in one list; the list ends at a *)
(* queue without requests of its own.                                      *)
AllRequests(d) ==
  FlattenSeq([n \in {m \in DOMAIN d.queues : \A k \in 1..m : d.queues[k].reqs # <<>>} |-> d.queues[n].reqs])
Attime(d) == FoldLeft(LAMBDA t, r : t + r.cpu, 0, AllRequests(d))

(***************************************************************************)
(* csajrep of tonight's jobs                                               *)
(***************************************************************************)
(* Each job in its turn; a request is shown as a whole besides (-N).       *)
Csajrep(jobs, sel) ==
  FoldLeft(LAMBDA r, job :
             LET done == DoJob(r.mult, job, sel)
             IN [mult |-> done.mult,
                 jobs |-> Append(r.jobs, [job |-> job, procs |-> done.shown, all |-> ~sel.exclusive /\ ~sel.noZero,
                                          segs |-> IF job.wm = <<>> THEN <<>> ELSE DoWm(job).segs])],
           [mult |-> <<>>, jobs |-> <<>>], jobs).jobs

(***************************************************************************)
(* The reports of the nights and of the period                             *)
(***************************************************************************)
VARIABLES
  tonight,              \* the sorted pacct file of tonight
  nights,               \* of each night since the last period: its jobs and the files it left
  period,               \* the files of the last period, with the jobs of its nights
  shown,                \* what csajrep showed last
  stuck                 \* the state that csarun stops in
vars == <<tonight, nights, period, shown, stuck>>

JobsOf(ns) == FlattenSeq([n \in DOMAIN ns |-> ns[n].jobs])
NoPeriod == [jobs |-> <<>>, nights |-> <<>>, cms |-> {}, drep |-> NoDrep]

Init == tonight = <<>> /\ nights = <<>> /\ period = NoPeriod /\ shown = <<>> /\ stuck = "no"

(* csabuild writes a job. *)
JobWritten(job) ==
  /\ stuck = "no" /\ Len(period.jobs \o JobsOf(nights) \o tonight) < MaxJobs
  /\ tonight' = Append(tonight, job)
  /\ shown' = <<>>
  /\ UNCHANGED <<nights, period, stuck>>

Show(sel) ==
  /\ shown' = Csajrep(tonight, sel)
  /\ UNCHANGED <<tonight, nights, period, stuck>>

(* The jobs of the list that are among these. *)
Those(jobs, these) == FlattenSeq([n \in DOMAIN jobs |-> IF jobs[n] \in these THEN <<jobs[n]>> ELSE <<>>])

(* csarun CMS and DREP, of the jobs that have ended; csarecy keeps the     *)
(* others.  An error of csadrep stops csarun, every time it is restarted.  *)
Night ==
  LET jobs == Those(tonight, {job \in JobRecord : Wanted(job, FALSE)})
      drep == Csadrep(jobs)
  IN /\ stuck = "no" /\ tonight # <<>> /\ Len(nights) < MaxNights
     /\ shown' = <<>>
     /\ IF drep.ok
        THEN /\ nights' = Append(nights, [jobs |-> jobs, cms |-> Csacms(jobs), drep |-> drep])
             /\ tonight' = Those(tonight, {job \in JobRecord : Recycled(job)})
             /\ UNCHANGED <<period, stuck>>
        ELSE stuck' = "DREP" /\ UNCHANGED <<tonight, nights, period>>

(* csaperiod merges the command summaries and the administrator the daemon *)
(* reports; the files of the nights are removed.                           *)
Period ==
  /\ stuck = "no" /\ nights # <<>>
  /\ period' = [jobs |-> JobsOf(nights), nights |-> nights,
                cms |-> CsacmsMerge([n \in DOMAIN nights |-> nights[n].cms]),
                drep |-> CsadrepMerge([n \in DOMAIN nights |-> nights[n].drep])]
  /\ nights' = <<>> /\ shown' = <<>>
  /\ UNCHANGED <<tonight, stuck>>

Next == (\E job \in JobRecord : JobWritten(job)) \/ (\E sel \in Selection : Show(sel)) \/ Night \/ Period
Spec == Init /\ [][Next]_vars

(***************************************************************************)
(* Properties                                                              *)
(***************************************************************************)
SumOf(f(_), list) == MapThenSumSet(LAMBDA n : f(list[n]), DOMAIN list)
CpuOf(recs) == SumOf(LAMBDA rec : rec.cpu, recs)
Alike(list1, list2) == \A x \in ToSet(list1 \o list2) : Len(SelectSeq(list1, LAMBDA y : y = x)) = Len(SelectSeq(list2, LAMBDA y : y = x))

(* A command summary counts every process once, under its command, with    *)
(* its CPU time, however many nights it was merged from; commands that are *)
(* joined take their counts along.  When a process has no command name its *)
(* count may be lost or go to the next new command, and is still not       *)
(* doubled (csacms.c save_record_data, compress_hash; csaperiod).          *)
Counts(cms) == SumFunction([e \in cms |-> e.prime + e.nonprime])
CountsEach(cms, jobs) ==
  LET procs == Processes(jobs)
      of(cmd) == {n \in DOMAIN procs : procs[n].cmd = cmd}
  IN IF of(Unnamed) # {} THEN Counts(cms) <= Len(procs)
     ELSE /\ {e.cmd : e \in cms} = {procs[n].cmd : n \in DOMAIN procs}
          /\ \A e \in cms : /\ e.prime + e.nonprime = Cardinality(of(e.cmd))
                            /\ e.cpu = SumFunctionOnSet([n \in DOMAIN procs |-> procs[n].cpu], of(e.cmd))
CmsAddUp ==
  /\ CountsEach(period.cms, period.jobs)
  /\ \A n \in DOMAIN nights : CountsEach(nights[n].cms, nights[n].jobs)
  /\ (\A n \in DOMAIN Processes(tonight) : Processes(tonight)[n].cmd # Unnamed) =>
       Counts(CsacmsJoined(tonight)) = Len(Processes(tonight))

(* The daemon report that is merged from the nights is the one of all the  *)
(* jobs at once, queue by queue: the requests, the time of the requests,   *)
(* the largest marks, and the smallest unless a night has none; with room  *)
(* for one queue more, the merge does not fail.  A request counts for the  *)
(* queue of its first part, and the time mark of a queue is the time of a  *)
(* request as long as that fits an int (csadrep.c sum_wm, add_wm).         *)
QueueAddsUp(q, file, once) ==
  LET its == {n \in DOMAIN once.queues : once.queues[n].name = q}
      o == once.queues[Min(its)]
      mine == file.queues[Min(PlaceOf(file.queues, q))]
      parts == {night.drep.queues[Min(PlaceOf(night.drep.queues, q))] :
                  night \in {m \in ToSet(period.nights) : PlaceOf(m.drep.queues, q) # {}}}
  IN /\ its # {}
     /\ <<mine.cpu, mine.jobs, mine.wait, mine.mem, mine.hi, mine.hitime>> =
          <<o.cpu, o.jobs, o.wait, o.mem, o.hi, o.hitime>>
     /\ Alike(mine.reqs, o.reqs)
     /\ (\A part \in parts : part.lo # 0) => mine.lo = o.lo
     /\ (\A part \in parts : part.lotime # 0) => mine.lotime = o.lotime
Requests(jobs) == SelectSeq(jobs, LAMBDA job : job.wm # <<>>)
TimeOf(job) == CpuOf(job.eop) + CpuOf(job.wm)
QueueExact(q, jobs) ==
  LET own == SelectSeq(Requests(jobs), LAMBDA job : job.wm[1].queue = q.name)
      last == {TimeOf(job) : job \in {j \in ToSet(Requests(jobs)) : j.wm[Len(j.wm)].queue = q.name}}
  IN /\ q.jobs = Len(own) /\ Alike(q.reqs, [n \in DOMAIN own |-> [uid |-> own[n].wm[1].uid, cpu |-> TimeOf(own[n])]])
     /\ (last # {} /\ \A t \in last : t < Word) => q.hitime = Max(last)
QueueNames(jobs) == {wm.queue : wm \in UNION {ToSet(job.wm) : job \in ToSet(jobs)}}
DrepAddUp ==
  LET d == period.drep
      once == Csadrep(period.jobs)
  IN /\ Cardinality(QueueNames(period.jobs)) < MaxQueue => d.ok
     /\ d.ok => /\ <<d.inter, d.batch, d.itime, d.btime>> = <<once.inter, once.batch, once.itime, once.btime>>
                /\ \A n \in DOMAIN d.queues :
                     QueueAddsUp(d.queues[n].name, d, once) /\ QueueExact(d.queues[n], period.jobs)
                /\ (\A n \in DOMAIN d.queues : d.queues[n].reqs # <<>>) => Attime(d) = d.btime

(* csajrep shows all of a request and nothing twice: for each job ID and   *)
(* user the segments hold the CPU time of the daemon and of the processes, *)
(* and the time of a process is with its project or with none.  A process  *)
(* is weighted as the part of its own job with its job ID (csajrep.c       *)
(* find_wm, do_job), unless records are left out.                          *)
Entries(segs, jid, uid) ==
  FlattenSeq([n \in DOMAIN segs |-> IF segs[n].jid = jid THEN SelectSeq(segs[n].list, LAMBDA e : e.uid = uid) ELSE <<>>])
RequestsSplit ==
  \A n \in DOMAIN shown :
    LET job == shown[n].job
        recs == job.wm \o job.eop
        of(rec) == SelectSeq(recs, LAMBDA r : r.jid = rec.jid /\ r.uid = rec.uid)
    IN /\ job.wm # <<>> => \A rec \in ToSet(recs) :
            LET entries == Entries(shown[n].segs, rec.jid, rec.uid)
                its(list) == SelectSeq(list, LAMBDA r : r.prid = rec.prid)
            IN /\ CpuOf(entries) = CpuOf(of(rec))
               /\ rec.prid # DefaultPrid => CpuOf(its(entries)) >= CpuOf(its(of(rec)))
       /\ \A p \in ToSet(shown[n].procs) :
            shown[n].all =>
              IF \E wm \in ToSet(job.wm) : wm.jid = p.rec.jid
              THEN \E wm \in ToSet(job.wm) : wm.jid = p.rec.jid /\ p.sbu = wm.weight * p.rec.cpu
              ELSE p.sbu = p.rec.cpu

(* Every second of a process is prime or non-prime time, one of the two,   *)
(* by the times of its own day, whatever days and holidays the process     *)
(* spans; only a midnight that prime or non-prime time begins at counts    *)
(* once more, as what begins (peak_offpeak.c pop_calc).                    *)
SplitsAddUp ==
  \A rec \in ToSet(Processes(tonight)) : InYear(rec.time, rec.dur) => SplitsRight(rec.time, rec.dur)
=============================================================================
