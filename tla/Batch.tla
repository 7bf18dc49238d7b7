------------------------------- MODULE Batch -------------------------------
(***************************************************************************)
(* Night after night: csad and a workload manager write the records of     *)
(* jobs that may outlive nights and boots, and each night csabuild,        *)
(* csacon and csarecy make one report and the pacct0 of the next night.    *)
(***************************************************************************)
EXTENDS Consolidate

CONSTANTS
  MaxJob, Req,          \* jobs, numbered as they start, and requests
  JobUser, ReqUser,     \* their users
  MaxExit,              \* processes of a job that exit
  MaxClock,             \* bound on the clock, which each record advances
  MaxLost,              \* bound on the jobs that a boot or jobd ends
  MaxNight,             \* bound on the nights
  Options,              \* of csabuild
  All,                  \* whether the night is run with -A
  MayWait,              \* a request may wait for its start over a night or a boot
  EndFirst              \* a request ends after the job it runs in

Job == 1..MaxJob
ASSUME BatchAssumption ==
  /\ MaxJob \in Nat
  /\ JobUser \in [Job -> User] /\ ReqUser \in [Req -> User]
  /\ MaxExit \in Nat /\ MaxClock \in Nat /\ MaxLost \in Nat /\ MaxNight \in Nat
  /\ All \subseteq BOOLEAN
  /\ \A b \in {MayWait, EndFirst} : b \in BOOLEAN

VARIABLES
  clock, boot,          \* the time, and that of the last boot
  job,                  \* each job: its state, its job ID, its start, the exits so far
  nextJid,              \* jobd's counter
  req,                  \* each request: its state, the job it runs in
  pacct, pacct0,        \* the file of today, and the one csarecy left
  nights, stuck,        \* nights so far; csabuild gave up
  sum,                  \* the totals of each night
  written, bills,       \* history: the records so far; how often each was reported
  reported              \* history: the jobs that were reported

world == <<clock, boot, job, nextJid, req>>
files == <<pacct, pacct0, nights, stuck, sum, bills, reported>>
vars == <<world, files, written>>

Rec == Job \X ((1..MaxExit) \cup {0, MaxExit + 1})  \* the start of a job, its processes, its end
Soj == 0
Eoj == MaxExit + 1
Id(r) == <<r.job, r.n>>
Ids(recs) == {Id(recs[n]) : n \in {m \in DOMAIN recs : recs[m].type \in {"soj", "eop", "eoj"}}}
Cfg(t) == [type |-> "cfg", boot |-> t, time |-> t]

Init ==
  /\ clock = 2 /\ boot = 1
  /\ job = [j \in Job |-> [state |-> "none", jid |-> 0, boot |-> 0, start |-> 0, exits |-> 0]]
  /\ nextJid = 1
  /\ req = [q \in Req |-> [state |-> "none", in |-> {}]]
  /\ pacct = <<Cfg(1)>> /\ pacct0 = <<>> /\ nights = 0 /\ stuck = FALSE /\ sum = <<>>
  /\ written = {} /\ bills = [r \in Rec |-> 0] /\ reported = {}

Tick == clock < MaxClock /\ clock' = clock + 1
Write(rec) == Tick /\ pacct' = Append(pacct, rec)
Kernel(type, j, n, t) == [type |-> type, jid |-> job'[j].jid, time |-> t, job |-> j, n |-> n]
WriteKernel(type, j, n, t) ==
  /\ Write(Kernel(type, j, n, t))
  /\ written' = written \cup {<<j, n>>}
  /\ UNCHANGED <<boot, pacct0, nights, stuck, sum, bills, reported>>

(***************************************************************************)
(* csad                                                                    *)
(***************************************************************************)
(* The start of a job is missing when accounting was off at the time. *)
JobStart(j) ==
  /\ job[j].state = "none" /\ \A k \in 1..(j - 1) : job[k].state # "none"
  /\ job' = [job EXCEPT ![j] = [state |-> "run", jid |-> nextJid, boot |-> boot, start |-> clock, exits |-> 0]]
  /\ nextJid' = nextJid + 1
  /\ UNCHANGED req
  /\ \/ WriteKernel("soj", j, Soj, clock)
     \/ Tick /\ UNCHANGED <<boot, files, written>>

ProcExit(j) ==
  /\ job[j].state = "run" /\ job[j].exits < MaxExit
  /\ job' = [job EXCEPT ![j].exits = @ + 1]
  /\ WriteKernel("eop", j, job[j].exits + 1, job[j].start)
  /\ UNCHANGED <<nextJid, req>>

InRequest(j) == \E q \in Req : j \in req[q].in /\ req[q].state = "run"
JobEnd(j) ==
  /\ job[j].state = "run" /\ (EndFirst \/ ~InRequest(j))
  /\ job' = [job EXCEPT ![j].state = "ended"]
  /\ WriteKernel("eoj", j, Eoj, clock)
  /\ UNCHANGED <<nextJid, req>>

Lost == [j \in Job |-> IF job[j].state = "run" THEN [job[j] EXCEPT !.state = "lost"] ELSE job[j]]
CanLose == /\ \E j \in Job : job[j].state = "run"
           /\ Cardinality({j \in Job : job[j].state = "lost"}) < MaxLost
NoneWaits == MayWait \/ \A q \in Req : req[q].state # "queued"

(* The machine goes down and comes up: csad writes its configuration. *)
Reboot ==
  /\ CanLose /\ job' = Lost /\ nextJid' = 1
  /\ NoneWaits /\ boot' = clock /\ Write(Cfg(clock))
  /\ UNCHANGED <<req, pacct0, nights, stuck, sum, bills, reported, written>>

(* jobd, started again, forgets the jobs and begins with the first ID. *)
JobdRestart ==
  /\ CanLose /\ job' = Lost /\ nextJid' = 1
  /\ UNCHANGED <<clock, boot, req, files, written>>

(***************************************************************************)
(* The workload manager                                                    *)
(***************************************************************************)
Wm(sub, q, jid) == [type |-> "wkmg", sub |-> sub, req |-> q, jid |-> jid, time |-> clock, term |-> FALSE]
WriteWm(rec) ==
  /\ Write(rec)
  /\ UNCHANGED <<boot, job, nextJid, pacct0, nights, stuck, sum, bills, reported, written>>

Receive(q) ==
  /\ req[q].state = "none"
  /\ req' = [req EXCEPT ![q].state = "queued"]
  /\ WriteWm(Wm("RECV", q, NoJid))

(* A request starts in a job, or again in another one after a boot. *)
Initiate(q, j) ==
  /\ \/ req[q].state \in {"none", "queued"}
     \/ req[q].state = "run" /\ \A k \in req[q].in : job[k].state = "lost"
  /\ job[j].state = "run" /\ \A p \in Req : j \notin req[p].in
  /\ req' = [req EXCEPT ![q] = [state |-> "run", in |-> @.in \cup {j}]]
  /\ WriteWm(Wm("INIT", q, job[j].jid))

Terminate(q) ==
  /\ req[q].state = "run"
  /\ \E j \in req[q].in :
       /\ job[j].state = (IF EndFirst THEN "ended" ELSE "run")
       /\ WriteWm(Wm("TERM", q, job[j].jid))
  /\ req' = [req EXCEPT ![q].state = "done"]

(***************************************************************************)
(* The night                                                               *)
(***************************************************************************)
Input == IF pacct0 = <<>> THEN <<pacct>> ELSE <<pacct0, pacct>>

(* csad begins the new pacct with its configuration.  csarun stops when    *)
(* csabuild does.                                                          *)
Night ==
  /\ nights < MaxNight /\ ~stuck
  /\ NoneWaits
  /\ nights' = nights + 1 /\ pacct' = <<Cfg(boot)>>
  /\ \E opt \in Options, all \in All : \E built \in {Csabuild(Input, opt)} :
       LET wanted == WantedJobs(built.spacct, all)
           ids(r) == Ids(r.eop \o r.job)
       IN IF ~built.ok THEN stuck' = TRUE /\ UNCHANGED <<pacct0, sum, bills, reported>>
          ELSE /\ pacct0' = IF all THEN <<>> ELSE Csarecy(built.spacct)
               /\ sum' = Append(sum, Csacon(built.spacct, all))
               /\ bills' = [r \in Rec |-> bills[r] + Cardinality({n \in DOMAIN wanted : r \in ids(wanted[n])})]
               /\ reported' = reported \cup {[recs |-> ids(wanted[n]), all |-> all, wm |-> wanted[n].W,
                                              running |-> {j \in Job : job[j].state = "run" /\ \E r \in ids(wanted[n]) : r[1] = j}]
                                             : n \in DOMAIN wanted}
               /\ UNCHANGED stuck
  /\ UNCHANGED <<world, written>>

Next ==
  \/ \E j \in Job : JobStart(j) \/ ProcExit(j) \/ JobEnd(j) \/ \E q \in Req : Initiate(q, j)
  \/ \E q \in Req : Receive(q) \/ Terminate(q)
  \/ Reboot \/ JobdRestart \/ Night

Spec == Init /\ [][Next]_vars

(***************************************************************************)
(* Properties                                                              *)
(***************************************************************************)
(* Every record of the kernel is in the file of today, was kept for the    *)
(* next night, or has been reported; and it is in one of them only.        *)
Places(r) == (IF r \in Ids(pacct) THEN 1 ELSE 0) + (IF r \in Ids(pacct0) THEN 1 ELSE 0) + bills[r]
EachOnce == stuck \/ \A r \in written : Places(r) = 1

(* The records of two jobs are reported as one job only when one request  *)
(* ran in both, or when jobd gave both the same ID within one boot.        *)
SameRequest(j1, j2) == \E q \in Req : {j1, j2} \subseteq req[q].in
SameJid(j1, j2) == job[j1].boot = job[j2].boot /\ job[j1].jid = job[j2].jid
JobsApart ==
  \A rep \in reported : \A r1 \in rep.recs, r2 \in rep.recs :
    r1[1] = r2[1] \/ SameRequest(r1[1], r2[1]) \/ SameJid(r1[1], r2[1])

(* Unless a night has run with -A, a job is reported with all its records, *)
(* however many nights it took, unless its request was started again; and  *)
(* not while it is running (csarecy.c scan_spacct keeps it).               *)
UnfinishedKept == \A rep \in reported : ~rep.all
Moved(j) == \E q \in Req : j \in req[q].in /\ req[q].in # {j}
JobsWhole ==
  /\ UnfinishedKept => \A rep \in reported, j \in Job : (\E r \in rep.recs : r[1] = j) =>
       Moved(j) \/ {r \in written : r[1] = j} \subseteq rep.recs
  /\ \A rep \in reported : rep.all \/ rep.running = {}

(* csabuild accepts what csad and csarecy write: the pacct0 that holds the *)
(* unfinished jobs of one night is input of the next (csarecy.8).          *)
BuildSucceeds == ~stuck

(* The totals of all nights, added up by csaaddc, have each process that   *)
(* was reported once, for its own user; and until a night has run with -A, *)
(* a job is counted as one job, for its own user: at its end, or at its    *)
(* first process when a boot ended it (the comment of csacon.c:474-486).   *)
Alone(j) == ~Moved(j) /\ \A k \in Job \ {j} : ~SameJid(j, k)
JobsCounted ==
  \A user \in User :
    /\ Csaaddc(sum)[user].pc
         = Cardinality({r \in Rec : bills[r] > 0 /\ r[2] \in 1..MaxExit /\ JobUser[r[1]] = user})
    /\ UnfinishedKept /\ (\A j \in Job : Alone(j)) =>
         Csaaddc(sum)[user].njobs
           = Cardinality({j \in Job : JobUser[j] = user /\ \E rep \in reported : \E r \in rep.recs : r[1] = j})
=============================================================================
