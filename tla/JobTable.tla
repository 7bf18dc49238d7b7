------------------------------ MODULE JobTable ------------------------------
(***************************************************************************)
(* The tables of jobd (job/jobd/jobd_hash.c) and the request and event     *)
(* handlers that change them (job/jobd/jobd.c), each written as an         *)
(* operator from the daemon's memory t to its memory afterwards.  jobd is  *)
(* single threaded, so a handler is one step of the daemon.                *)
(***************************************************************************)
EXTENDS JobParams, SequencesExt

(* A pointer to a job_entry is the JID of the entry; job_table is the set  *)
(* jobTab of the entries linked in it and job_table_refcnt is nJobs.       *)
(* proc_table is the set procTab of the pids linked in it.                 *)
JobEntry ==
  [user : User \cup {0}, refcnt : Int, proclist : Seq(Pid), waitstat : Status,
   waitq : Seq(Client), waitcnt : Int]
ProcEntry == [job : Jid \cup {NoJid}, exited : BOOLEAN, saved : Status]
Op == {"CREATE", "WAITJID", "KILLJID", "DETACHJID", "DETACHPID", "ATTACHPID", "SETHID",
       "GETJID", "GETJIDCNT", "GETJIDLST", "GETPIDCNT", "GETPIDLST", "GETUSER", "GETPRIMEPID"}
Err == {"OK", "EINVAL", "EPERM", "ESRCH", "ENODATA", "EBUSY"}
Answer ==
  [op : Op \cup {"", "EOF"}, err : Err \cup {""}, jid : Jid \cup {NoJid}, val : Int,
   list : Seq(Pid)]
CsaEvent == [type : {"START", "END"}, jid : Jid]

Memory ==
  [jobTab : SUBSET Jid, nJobs : Int, job : [Jid -> JobEntry],
   procTab : SUBSET Pid, proc : [Pid -> ProcEntry],
   hid : Hid \cup {DISABLED}, count : 0 .. (SidCount - 1),
   csaActive : BOOLEAN, csaPeer : BOOLEAN, toCsa : Seq(CsaEvent),
   answer : [Client -> Answer]]

(* calloc()ed or freed entries. *)
FreeJob == [user |-> 0, refcnt |-> 0, proclist |-> <<>>, waitstat |-> 0,
            waitq |-> <<>>, waitcnt |-> 0]
FreeProc == [job |-> NoJid, exited |-> FALSE, saved |-> 0]

(* The state of a call that jobd has not answered yet. *)
NoAnswer == [op |-> "", err |-> "", jid |-> NoJid, val |-> 0, list |-> <<>>]

(* The daemon's memory after its static initialisation. *)
InitMemory(answer) ==
  [jobTab |-> {}, nJobs |-> 0, job |-> [j \in Jid |-> FreeJob],
   procTab |-> {}, proc |-> [p \in Pid |-> FreeProc],
   hid |-> 0, count |-> 1 % SidCount,
   csaActive |-> FALSE, csaPeer |-> FALSE, toCsa |-> <<>>, answer |-> answer]

(***************************************************************************)
(* Replies and events                                                      *)
(***************************************************************************)
Reply(t, c, op, err, jid, val) ==
  [t EXCEPT !.answer[c] =
     [op |-> op, err |-> err, jid |-> jid, val |-> val, list |-> <<>>]]

ReplyList(t, c, op, err, jid, list) ==
  [t EXCEPT !.answer[c] =
     [op |-> op, err |-> err, jid |-> jid, val |-> Len(list), list |-> list]]

(* A job event written to the csa socket; a write that fails because csad  *)
(* has closed its end turns CSA off.                                       *)
SendCsa(t, type, j) ==
  IF t.csaPeer
  THEN [t EXCEPT !.toCsa = Append(@, [type |-> type, jid |-> j])]
  ELSE [t EXCEPT !.csaActive = FALSE]

CSA_jobstart(t, j) == IF t.csaActive THEN SendCsa(t, "START", j) ELSE t
CSA_jobend(t, j)   == IF t.csaActive THEN SendCsa(t, "END", j) ELSE t

(***************************************************************************)
(* jobd_hash.c                                                             *)
(***************************************************************************)
AddJobToHash(t, j) == [t EXCEPT !.jobTab = @ \cup {j}, !.nJobs = @ + 1]
UnlinkJobFromHash(t, j) == [t EXCEPT !.jobTab = @ \ {j}, !.nJobs = @ - 1]

AddProcToHash(t, p) == [t EXCEPT !.procTab = @ \cup {p}]
UnlinkProcFromHash(t, p) == [t EXCEPT !.procTab = @ \ {p}]

(* The newest process of a job heads its list. *)
ProcJoins(e, p) == [e EXCEPT !.proclist = <<p>> \o @, !.refcnt = @ + 1]
AddProcToJob(t, p, j) ==
  [t EXCEPT !.proc[p].job = j, !.job[j] = ProcJoins(@, p)]

(* reply_to_waiters(): every queued caller of job_waitjid() is answered. *)
DropWaiters(e) == [e EXCEPT !.waitq = <<>>, !.waitcnt = @ - Len(e.waitq)]
ReplyToWaiters(t, j) ==
  [t EXCEPT !.answer =
       [c \in Client |->
          IF c \in ToSet(t.job[j].waitq)
          THEN [op |-> "WAITJID", err |-> "OK", jid |-> j,
                val |-> t.job[j].waitstat, list |-> <<>>]
          ELSE t.answer[c]],
     !.job[j] = DropWaiters(@)]

(* Mutant of JobCleanup: a single waiter is forgotten. *)
JobCleanupOneWaiter(t, j) ==
  IF t.job[j].refcnt # 0 THEN t
  ELSE LET unlinked == UnlinkJobFromHash(t, j)
           replied == IF unlinked.job[j].waitcnt > 1
                      THEN ReplyToWaiters(unlinked, j) ELSE unlinked
       IN [CSA_jobend(replied, j) EXCEPT !.job[j] = FreeJob]

(* A job without processes is unlinked, reported and freed. *)
JobCleanup(t, j) ==
  IF t.job[j].refcnt # 0 THEN t
  ELSE LET unlinked == UnlinkJobFromHash(t, j)
           replied == IF unlinked.job[j].waitcnt > 0
                      THEN ReplyToWaiters(unlinked, j) ELSE unlinked
           told == CSA_jobend(replied, j)
       IN [told EXCEPT !.job[j] = FreeJob]

(* Mutant of ProcLeaves: the exit status is not kept. *)
ProcLeavesNoStatus(e, p, status) ==
  [e EXCEPT !.proclist = RemoveFirst(@, p), !.refcnt = @ - 1]

(* The exit status of the process that leaves becomes the job's. *)
ProcLeaves(e, p, status) ==
  [e EXCEPT !.proclist = RemoveFirst(@, p), !.waitstat = status, !.refcnt = @ - 1]
UnlinkProcFromJob(t, p, status) ==
  [t EXCEPT !.job[t.proc[p].job] = ProcLeaves(@, p, status)]

(* Unlink a process from both tables, with its job if it was the last one, *)
(* and free its entry.                                                     *)
DropProc(t, p, status) ==
  [JobCleanup(UnlinkProcFromJob(UnlinkProcFromHash(t, p), p, status), t.proc[p].job)
     EXCEPT !.proc[p] = FreeProc]

(***************************************************************************)
(* Kernel and csad events                                                  *)
(***************************************************************************)
(* Mutant of ExitHandler: the newest process of the job is unlinked. *)
ExitHandlerNewest(t, p, status) ==
  IF p \in t.procTab
  THEN DropProc(t, Head(t.job[t.proc[p].job].proclist), status) ELSE t

ExitHandler(t, p, status) == IF p \in t.procTab THEN DropProc(t, p, status) ELSE t

(* Mutant of ForkHandler: the old entry of a pid in use again is kept. *)
ForkHandlerNoClose(t, parent, child) ==
  IF \/ parent \notin t.procTab
     \/ child \in t.procTab /\ ~t.proc[child].exited
  THEN t
  ELSE AddProcToHash(AddProcToJob(t, child, t.proc[parent].job), child)

(* The child joins its parent's job.  An old entry under the child's pid   *)
(* is closed first if its process was seen to exit; otherwise the event is *)
(* ignored.                                                                *)
ForkHandler(t, parent, child) ==
  IF \/ parent \notin t.procTab
     \/ child \in t.procTab /\ ~t.proc[child].exited
  THEN t
  ELSE LET closed == IF child \in t.procTab
                     THEN ExitHandler(t, child, t.proc[child].saved) ELSE t
       IN AddProcToHash(AddProcToJob(closed, child, t.proc[parent].job), child)

(* Mutant of ExitEventHandler: the test of csaActive is inverted. *)
ExitEventHandlerInverted(t, p, status) ==
  IF t.csaActive THEN ExitHandler(t, p, status) ELSE t

(* An EXIT event is noted in the entry; while CSA is active the entry then *)
(* waits for csad's notice.                                                *)
ExitEventHandler(t, p, status) ==
  LET noted == IF p \in t.procTab
               THEN [t EXCEPT !.proc[p].exited = TRUE, !.proc[p].saved = status]
               ELSE t
  IN IF t.csaActive THEN noted ELSE ExitHandler(noted, p, status)

(***************************************************************************)
(* job_create()                                                            *)
(***************************************************************************)
(* The JID generator tries SidCount consecutive values, and gives up when  *)
(* its counter is back where it was, whatever it thinks of the last one.   *)
Candidate(t, k) == MkJid(t.hid, (t.count + k) % SidCount)
(* Mutant of Usable: a JID in use is not skipped. *)
UsableInUse(t, k) == Candidate(t, k) # NoJid
Usable(t, k) == Candidate(t, k) # NoJid /\ Candidate(t, k) \notin t.jobTab
Tries(t) ==
  CHOOSE k \in 0 .. (SidCount - 1) :
    /\ \A i \in 0 .. (k - 1) : ~Usable(t, i)
    /\ Usable(t, k) \/ k = SidCount - 1

JidRefused(t, r) ==
  IF r.jid # NoJid THEN r.jid \in t.jobTab ELSE Tries(t) = SidCount - 1
NewJid(t, r) == IF r.jid # NoJid THEN r.jid ELSE Candidate(t, Tries(t))
(* Mutant of NewCount: the counter does not wrap. *)
NewCountUnwrapped(t, r) ==
  IF r.jid # NoJid THEN t.count ELSE t.count + Tries(t) + 1
NewCount(t, r) ==
  IF r.jid # NoJid THEN t.count ELSE (t.count + Tries(t) + 1) % SidCount

(* Process p, a member of another job or of none, becomes the only member  *)
(* of the new job j.                                                       *)
InstallJob(t, p, j, user) ==
  LET isNew == p \notin t.procTab
      fresh == [t EXCEPT !.job[j] = [FreeJob EXCEPT !.user = user]]
      left == IF isNew THEN fresh ELSE UnlinkProcFromJob(fresh, p, 0)
      joined == AddProcToJob(left, p, j)
      cleaned == IF isNew THEN AddProcToHash(joined, p)
                 ELSE JobCleanup(joined, t.proc[p].job)
  IN CSA_jobstart(AddJobToHash(cleaned, j), j)

CreateError(t, c, r, exist) ==
  IF t.hid = DISABLED THEN "DISABLED"
  ELSE IF c \notin Priv THEN "EPERM"
  ELSE IF r.pid \notin exist THEN "ESRCH"
  ELSE IF JidRefused(t, r) THEN "EBUSY" ELSE "OK"

JobCreate(t, c, r, exist) ==
  LET err == CreateError(t, c, r, exist)
  IN IF err = "OK"
     THEN Reply([InstallJob(t, r.pid, NewJid(t, r), r.user)
                   EXCEPT !.count = NewCount(t, r)],
                c, "CREATE", "OK", NewJid(t, r), 0)
     ELSE Reply(t, c, "CREATE", IF err = "DISABLED" THEN "OK" ELSE err, NoJid, 0)

(***************************************************************************)
(* The other requests that change the tables                               *)
(***************************************************************************)
(* Mutant of WaiterJoins: the waiter is not counted. *)
WaiterJoinsUncounted(e, c) == [e EXCEPT !.waitq = Append(@, c)]
WaiterJoins(e, c) == [e EXCEPT !.waitq = Append(@, c), !.waitcnt = @ + 1]
WaitJid(t, c, r) ==
  IF r.options # 0 THEN Reply(t, c, "WAITJID", "EINVAL", NoJid, 0)
  ELSE IF r.jid \notin t.jobTab THEN Reply(t, c, "WAITJID", "ENODATA", NoJid, 0)
  ELSE [t EXCEPT !.job[r.jid] = WaiterJoins(@, c)]

(* The processes jobd signals; the reply says whether every kill() worked. *)
KillError(t, c, r) ==
  IF r.sig < 0 THEN "EINVAL"
  ELSE IF r.jid \notin t.jobTab THEN "ENODATA"
  ELSE IF c \notin Priv /\ r.uid # t.job[r.jid].user THEN "EPERM" ELSE "OK"

KillTargets(t, c, r) ==
  IF KillError(t, c, r) = "OK" THEN ToSet(t.job[r.jid].proclist) ELSE {}

KillJid(t, c, r, exist) ==
  LET err == KillError(t, c, r)
  IN IF err # "OK" THEN Reply(t, c, "KILLJID", err, NoJid, -1)
     ELSE IF KillTargets(t, c, r) \subseteq exist
          THEN Reply(t, c, "KILLJID", "OK", r.jid, 0)
          ELSE Reply(t, c, "KILLJID", "ESRCH", r.jid, -1)

(* The loop of do_job_detachjid(): every process of the list leaves both   *)
(* tables with status 0, and the last one takes the job with it.           *)
ProcsLeave(e) ==
  [e EXCEPT !.proclist = <<>>, !.waitstat = 0, !.refcnt = @ - Len(e.proclist)]
DetachAll(t, j) ==
  LET list == t.job[j].proclist
      left == [t EXCEPT
                 !.procTab = @ \ ToSet(list),
                 !.proc = [p \in Pid |-> IF p \in ToSet(list) THEN FreeProc ELSE t.proc[p]],
                 !.job[j] = ProcsLeave(@)]
  IN JobCleanup(left, j)

DetachJid(t, c, r) ==
  IF c \notin Priv THEN Reply(t, c, "DETACHJID", "EPERM", NoJid, 0)
  ELSE IF r.jid \notin t.jobTab THEN Reply(t, c, "DETACHJID", "ENODATA", NoJid, 0)
  ELSE Reply(DetachAll(t, r.jid), c, "DETACHJID", "OK", NoJid, t.job[r.jid].refcnt)

DetachPid(t, c, r) ==
  IF c \notin Priv THEN Reply(t, c, "DETACHPID", "EPERM", NoJid, 0)
  ELSE IF r.pid \notin t.procTab THEN Reply(t, c, "DETACHPID", "ESRCH", NoJid, 0)
  ELSE Reply(DropProc(t, r.pid, 0), c, "DETACHPID", "OK", t.proc[r.pid].job, 0)

AttachError(t, c, r, exist) ==
  IF c \notin Priv THEN "EPERM"
  ELSE IF r.pid \in t.procTab THEN "EINVAL"
  ELSE IF r.pid \notin exist THEN "ESRCH"
  ELSE IF r.jid \notin t.jobTab THEN "ENODATA" ELSE "OK"

AttachPid(t, c, r, exist) ==
  LET err == AttachError(t, c, r, exist)
  IN IF err = "OK"
     THEN Reply(AddProcToHash(AddProcToJob(t, r.pid, r.jid), r.pid),
                c, "ATTACHPID", "OK", r.jid, 0)
     ELSE Reply(t, c, "ATTACHPID", err, NoJid, 0)

SetHid(t, c, r) ==
  IF c \notin Priv THEN Reply(t, c, "SETHID", "EPERM", NoJid, 0)
  ELSE Reply([t EXCEPT !.hid = r.hid], c, "SETHID", "OK", NoJid, r.hid)

(***************************************************************************)
(* The queries: they change nothing but the caller's answer                *)
(***************************************************************************)
GetJid(t, c, r, exist) ==
  IF r.pid \in t.procTab
  THEN Reply(t, c, "GETJID", IF t.proc[r.pid].job = NoJid THEN "ENODATA" ELSE "OK",
             t.proc[r.pid].job, 0)
  ELSE Reply(t, c, "GETJID", IF r.pid \in exist THEN "ENODATA" ELSE "ESRCH", NoJid, 0)

GetJidCnt(t, c, r) == Reply(t, c, "GETJIDCNT", "OK", NoJid, t.nJobs)

Smaller(a, b) == IF a < b THEN a ELSE b

(* job_table is walked in the order of its buckets, which is left open:    *)
(* the answer only says how many IDs it carries.                           *)
GetJidList(t, c, r) ==
  Reply(t, c, "GETJIDLST", "OK", NoJid, Smaller(r.room, t.nJobs))

GetPidCnt(t, c, r) ==
  IF r.jid \in t.jobTab
  THEN Reply(t, c, "GETPIDCNT", "OK", r.jid, t.job[r.jid].refcnt)
  ELSE Reply(t, c, "GETPIDCNT", "ENODATA", NoJid, 0)

GetPidList(t, c, r) ==
  IF r.room = 0 THEN ReplyList(t, c, "GETPIDLST", "OK", NoJid, <<>>)
  ELSE IF r.jid \notin t.jobTab
       THEN Reply(t, c, "GETPIDLST", "ENODATA", NoJid, r.room)
  ELSE LET list == t.job[r.jid].proclist
       IN ReplyList(t, c, "GETPIDLST", "OK", r.jid,
            SubSeq(list, 1, Smaller(r.room, Smaller(t.job[r.jid].refcnt, Len(list)))))

GetUid(t, c, r) ==
  IF r.jid \in t.jobTab
  THEN Reply(t, c, "GETUSER", "OK", r.jid, t.job[r.jid].user)
  ELSE Reply(t, c, "GETUSER", "ENODATA", NoJid, 0)

(* The oldest process is the last of the list. *)
GetPrimePid(t, c, r) ==
  IF r.jid \notin t.jobTab THEN Reply(t, c, "GETPRIMEPID", "ENODATA", NoJid, 0)
  ELSE IF t.job[r.jid].proclist = <<>>
       THEN Reply(t, c, "GETPRIMEPID", "ESRCH", NoJid, 0)
  ELSE ReplyList(t, c, "GETPRIMEPID", "OK", r.jid, <<Last(t.job[r.jid].proclist)>>)

(***************************************************************************)
(* process_mesg(): the requests, and what they do to the memory            *)
(***************************************************************************)
Request ==
  [op : {"CREATE"}, pid : Pid, jid : Jid \cup {NoJid}, user : User]
  \cup [op : {"WAITJID"}, jid : Jid, options : {0, 1}]
  \cup [op : {"KILLJID"}, jid : Jid, sig : {-1, 9}, uid : User]
  \cup [op : {"DETACHJID", "GETPIDCNT", "GETUSER", "GETPRIMEPID"}, jid : Jid]
  \cup [op : {"DETACHPID", "GETJID"}, pid : Pid]
  \cup [op : {"ATTACHPID"}, pid : Pid, jid : Jid]
  \cup [op : {"SETHID"}, hid : Hid \cup {DISABLED}]
  \cup [op : {"GETJIDCNT"}]
  \cup [op : {"GETJIDLST"}, room : Nat]
  \cup [op : {"GETPIDLST"}, jid : Jid, room : Nat]

ProcessMesg(t, c, r, exist) ==
  CASE r.op = "CREATE"      -> JobCreate(t, c, r, exist)
    [] r.op = "WAITJID"     -> WaitJid(t, c, r)
    [] r.op = "KILLJID"     -> KillJid(t, c, r, exist)
    [] r.op = "DETACHJID"   -> DetachJid(t, c, r)
    [] r.op = "DETACHPID"   -> DetachPid(t, c, r)
    [] r.op = "ATTACHPID"   -> AttachPid(t, c, r, exist)
    [] r.op = "SETHID"      -> SetHid(t, c, r)
    [] r.op = "GETJID"      -> GetJid(t, c, r, exist)
    [] r.op = "GETJIDCNT"   -> GetJidCnt(t, c, r)
    [] r.op = "GETJIDLST"   -> GetJidList(t, c, r)
    [] r.op = "GETPIDCNT"   -> GetPidCnt(t, c, r)
    [] r.op = "GETPIDLST"   -> GetPidList(t, c, r)
    [] r.op = "GETUSER"     -> GetUid(t, c, r)
    [] r.op = "GETPRIMEPID" -> GetPrimePid(t, c, r)

(***************************************************************************)
(* What the tables promise                                                 *)
(***************************************************************************)
(* A process in the process table is on the list of a job in the job table. *)
ProcHasJob(t) ==
  \A p \in t.procTab :
    t.proc[p].job \in t.jobTab /\ p \in ToSet(t.job[t.proc[p].job].proclist)

(* The list of a job holds, once each, processes whose entries point back.  *)
ListsAgree(t) ==
  \A j \in t.jobTab :
    LET list == t.job[j].proclist
    IN /\ \A i \in DOMAIN list : list[i] \in t.procTab /\ t.proc[list[i]].job = j
       /\ \A h, i \in DOMAIN list : list[h] = list[i] => h = i

(* A job in the table has a process, and counts its processes. *)
RefcntAgrees(t) ==
  \A j \in t.jobTab :
    t.job[j].refcnt = Len(t.job[j].proclist) /\ t.job[j].refcnt > 0

(* An entry that no table holds has been freed: nobody waits on it. *)
FreedEntries(t) ==
  /\ \A j \in Jid \ t.jobTab : t.job[j] = FreeJob
  /\ \A p \in Pid \ t.procTab : t.proc[p] = FreeProc

JobsCounted(t) == t.nJobs = Cardinality(t.jobTab)

TablesAgree(t) ==
  ProcHasJob(t) /\ ListsAgree(t) /\ RefcntAgrees(t) /\ FreedEntries(t) /\ JobsCounted(t)

(* A caller waits once, on one job, and every job counts its waiters. *)
WaitersAgree(t) ==
  \A j \in t.jobTab :
    LET q == t.job[j].waitq
    IN /\ t.job[j].waitcnt = Len(q)
       /\ \A h, i \in DOMAIN q : q[h] = q[i] => h = i
       /\ \A k \in t.jobTab \ {j} : ToSet(q) \cap ToSet(t.job[k].waitq) = {}
=============================================================================
