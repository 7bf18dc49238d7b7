---------------------------- MODULE MemberProofs ----------------------------
(***************************************************************************)
(* With csad beside jobd, however many processes, callers and jobs there   *)
(* are, and provided that the connector loses nothing: every process is in *)
(* the job it inherited or was given as soon as jobd has read its events,  *)
(* its exit is recorded under that job, callers are told of that job and   *)
(* of the exit status it ended with, csad's notices remove the dead alone, *)
(* and the dead are removed.                                               *)
(***************************************************************************)
EXTENDS CsadProofs

(***************************************************************************)
(* What the handlers of jobd do to the membership of processes             *)
(***************************************************************************)
(* The job in which memory t has process p; a step that moves nobody, and  *)
(* one that moves p alone, to job j.                                       *)
JobIn(t, p) == IF p \in t.procTab THEN t.proc[p].job ELSE NoJid
SameMembers(t, u) == \A q \in Pid : JobIn(u, q) = JobIn(t, q)
Puts(t, u, p, j) == JobIn(u, p) = j /\ \A q \in Pid \ {p} : JobIn(u, q) = JobIn(t, q)

LEMMA NoJidIsNoJob == NoJid \notin Jid
BY DEF Jid, NoJid

LEMMA MemberIs ==
  ASSUME NEW t \in Memory, TablesAgree(t), NEW p \in Pid
  PROVE  /\ p \in t.procTab <=> JobIn(t, p) # NoJid
         /\ JobIn(t, p) \in Jid \cup {NoJid}
         /\ p \in t.procTab => JobIn(t, p) \in t.jobTab
<1>1. p \in t.procTab => t.proc[p].job \in t.jobTab
  BY DEF TablesAgree, ProcHasJob
<1>2. t.jobTab \subseteq Jid
  BY DEF Memory
<1> QED
  BY <1>1, <1>2, NoJidIsNoJob DEF JobIn

LEMMA SameTablesMembers ==
  ASSUME NEW t, NEW u, u.procTab = t.procTab, u.proc = t.proc
  PROVE  SameMembers(t, u)
BY DEF SameMembers, JobIn

LEMMA DropProcMembers ==
  ASSUME NEW t \in Memory, TablesAgree(t), NEW p \in t.procTab, NEW status \in Status
  PROVE  Puts(t, DropProc(t, p, status), p, NoJid)
<1> DEFINE u == DropProc(t, p, status)
<1>1. u.procTab = t.procTab \ {p} /\ u.proc = [t.proc EXCEPT ![p] = FreeProc]
  BY DropProcAgrees
<1> HIDE DEF u
<1>2. \A q \in Pid \ {p} : u.proc[q] = t.proc[q]
  BY <1>1 DEF Memory
<1> QED
  BY <1>1, <1>2 DEF Puts, JobIn, u

LEMMA ExitHandlerMembers ==
  ASSUME NEW t \in Memory, TablesAgree(t), NEW p \in Pid, NEW status \in Status
  PROVE  Puts(t, ExitHandler(t, p, status), p, NoJid)
<1>1. CASE p \in t.procTab
  BY <1>1, DropProcMembers DEF ExitHandler
<1>2. CASE p \notin t.procTab
  BY <1>2 DEF ExitHandler, Puts, JobIn
<1> QED
  BY <1>1, <1>2

LEMMA AddProcMembers ==
  ASSUME NEW t \in Memory, NEW p \in Pid, NEW j \in Jid
  PROVE  LET u == AddProcToJob(t, p, j)
         IN /\ u \in Memory /\ u.procTab = t.procTab /\ u.proc[p].job = j
            /\ \A q \in Pid \ {p} : u.proc[q] = t.proc[q]
<1> DEFINE u == AddProcToJob(t, p, j)
<1>1. /\ u \in Memory /\ u.procTab = t.procTab
      /\ u.job = [t.job EXCEPT ![j] = ProcJoins(t.job[j], p)]
      /\ u.proc = [t.proc EXCEPT ![p] = [t.proc[p] EXCEPT !.job = j]]
  BY AddProcToJobKeeps
<1> HIDE DEF u
<1>2. u.proc = [t.proc EXCEPT ![p] = [t.proc[p] EXCEPT !.job = j]]
  BY <1>1
<1>3. u.proc[p].job = j /\ \A q \in Pid \ {p} : u.proc[q] = t.proc[q]
  BY <1>2 DEF Memory, ProcEntry
<1> QED
  BY <1>1, <1>3 DEF u

(* A child that is in no job yet joins that of its parent, or none.        *)
LEMMA ForkHandlerMembers ==
  ASSUME NEW t \in Memory, TablesAgree(t), NEW parent \in Pid, NEW child \in Pid \ {parent},
         child \notin t.procTab
  PROVE  Puts(t, ForkHandler(t, parent, child), child, JobIn(t, parent))
<1> DEFINE j == t.proc[parent].job
           a == AddProcToJob(t, child, j)
           u == AddProcToHash(a, child)
<1>1. CASE parent \notin t.procTab
  BY <1>1 DEF ForkHandler, Puts, JobIn
<1>2. CASE parent \in t.procTab
  <2>1. ForkHandler(t, parent, child) = u
    BY <1>2 DEF ForkHandler
  <2>2. j \in Jid
    BY <1>2 DEF TablesAgree, ProcHasJob, Memory
  <2> HIDE DEF j
  <2>4. /\ a \in Memory /\ a.procTab = t.procTab /\ a.proc[child].job = j
        /\ \A q \in Pid \ {child} : a.proc[q] = t.proc[q]
    BY <2>2, AddProcMembers
  <2> HIDE DEF a
  <2>5. u.procTab = t.procTab \cup {child} /\ u.proc = a.proc
    BY <2>4 DEF AddProcToHash, Memory
  <2> HIDE DEF u
  <2>6. u.proc[child].job = t.proc[parent].job /\ \A q \in Pid \ {child} : u.proc[q] = t.proc[q]
    BY <2>4, <2>5 DEF j
  <2>7. Puts(t, u, child, JobIn(t, parent))
    BY <1>2, <2>5, <2>6 DEF Puts, JobIn
  <2> QED
    BY <2>1, <2>7
<1> QED
  BY <1>1, <1>2

(* While CSA is active an exit is only noted.                              *)
LEMMA ExitEventMembers ==
  ASSUME NEW t \in Memory, TablesAgree(t), NEW p \in Pid, NEW status \in Status
  PROVE  LET u == ExitEventHandler(t, p, status)
         IN IF t.csaActive THEN SameMembers(t, u) ELSE Puts(t, u, p, NoJid)
<1> DEFINE n == Noted(t, p, status)
<1>1. ExitEventHandler(t, p, status) =
        IF t.csaActive THEN n ELSE ExitHandler(n, p, status)
  BY DEF ExitEventHandler, Noted
<1>2. n \in Memory /\ TablesAgree(n)
  BY NotedAgrees
<1>3. SameMembers(t, n)
  <2> DEFINE x == [t.proc[p] EXCEPT !.exited = TRUE, !.saved = status]
  <2>1. CASE p \in t.procTab
    <3>1. x.job = t.proc[p].job /\ x \in ProcEntry
      BY DEF Memory, ProcEntry
    <3>2. n = [t EXCEPT !.proc[p] = x]
      BY <2>1 DEF Memory, ProcEntry, Noted
    <3> HIDE DEF x, n
    <3>3. n.procTab = t.procTab /\ n.proc = [t.proc EXCEPT ![p] = x]
      BY <3>1, <3>2 DEF Memory
    <3>4. \A q \in Pid : n.proc[q].job = t.proc[q].job
      BY <3>1, <3>3 DEF Memory
    <3> QED
      BY <3>3, <3>4 DEF SameMembers, JobIn
  <2>2. CASE p \notin t.procTab
    BY <2>2 DEF Noted, SameMembers
  <2> QED
    BY <2>1, <2>2
<1> HIDE DEF n
<1>4. Puts(n, ExitHandler(n, p, status), p, NoJid)
  BY <1>2, ExitHandlerMembers
<1>5. Puts(t, ExitHandler(n, p, status), p, NoJid)
  BY <1>3, <1>4 DEF Puts, SameMembers
<1> QED
  BY <1>1, <1>3, <1>5

(***************************************************************************)
(* The requests                                                            *)
(***************************************************************************)
LEMMA AnswersMembers ==
  ASSUME NEW t \in Memory, NEW u, NEW c, Answers(t, u, c)
  PROVE  SameMembers(t, u)
<1>1. u.procTab = t.procTab /\ u.proc = t.proc
  BY DEF Answers, Memory
<1> QED
  BY <1>1, SameTablesMembers

(* What job_create() returns: the new job has the process and nobody else  *)
(* has moved; a request that fails moves nobody.                           *)
LEMMA JobCreateMembers ==
  ASSUME NEW t, Ok(t), t.hid # DISABLED, NEW c \in Client, NEW exist,
         NEW r, r.pid \in Pid, r.jid \in Jid \cup {NoJid}, r.user \in User
  PROVE  LET u == JobCreate(t, c, r, exist)
         IN /\ u.answer[c].err = "OK" =>
                 r.pid \in exist /\ u.answer[c].op = "CREATE" /\ Puts(t, u, r.pid, u.answer[c].jid)
            /\ u.answer[c].err # "OK" => SameMembers(t, u)
<1> DEFINE err == CreateError(t, c, r, exist)
<1>1. err \in {"EPERM", "ESRCH", "EBUSY", "OK"}
  BY DEF CreateError
<1>2. CASE err = "OK"
  <2> DEFINE j == NewJid(t, r)
             a == InstallJob(t, r.pid, j, r.user)
             n == NewCount(t, r)
             b == [a EXCEPT !.count = n]
             u == Reply(b, c, "CREATE", "OK", j, 0)
  <2>1. ~ JidRefused(t, r) /\ r.pid \in exist
    BY <1>2 DEF CreateError
  <2>2. j \in Jid \ t.jobTab /\ n \in 0 .. (SidCount - 1)
    BY <2>1, NewJidType DEF Ok
  <2>3. JobCreate(t, c, r, exist) = u
    BY <1>2 DEF JobCreate
  <2> HIDE DEF j, n
  <2>4. /\ a \in Memory /\ a.procTab = t.procTab \cup {r.pid} /\ a.proc[r.pid].job = j
        /\ \A q \in Pid \ {r.pid} : a.proc[q] = t.proc[q]
    BY <2>2, InstallJobAgrees DEF Ok
  <2> HIDE DEF a
  <2>5. b \in Memory /\ b.procTab = a.procTab /\ b.proc = a.proc
    BY <2>2, <2>4 DEF Memory
  <2> HIDE DEF b
  <2>6. /\ u.procTab = b.procTab /\ u.proc = b.proc
        /\ u.answer[c].jid = j /\ u.answer[c].op = "CREATE"
    BY <2>5 DEF Reply, Memory
  <2> HIDE DEF u
  <2>7. Puts(t, u, r.pid, j)
    BY <2>4, <2>5, <2>6 DEF Puts, JobIn
  <2>8. u.answer[c].err = "OK"
    BY <2>5 DEF Reply, Memory, u
  <2> QED
    BY <2>1, <2>3, <2>6, <2>7, <2>8
<1>3. CASE err # "OK"
  <2>1. JobCreate(t, c, r, exist) = Reply(t, c, "CREATE", err, NoJid, 0)
    BY <1>1, <1>3 DEF JobCreate
  <2> HIDE DEF err
  <2> DEFINE u == Reply(t, c, "CREATE", err, NoJid, 0)
  <2>2. u.answer[c].err = err /\ u.procTab = t.procTab /\ u.proc = t.proc
    BY DEF Reply, Memory, Ok
  <2> HIDE DEF u
  <2> QED
    BY <1>3, <2>1, <2>2, SameTablesMembers DEF u
<1> QED
  BY <1>2, <1>3

LEMMA WaitJidMembers ==
  ASSUME NEW t \in Memory, NEW c \in Client, NEW r
  PROVE  SameMembers(t, WaitJid(t, c, r))
<1>1. WaitJid(t, c, r).procTab = t.procTab /\ WaitJid(t, c, r).proc = t.proc
  BY DEF WaitJid, Reply, Memory
<1> QED
  BY <1>1, SameTablesMembers

LEMMA SetHidMembers ==
  ASSUME NEW t \in Memory, NEW c \in Client, NEW r
  PROVE  SameMembers(t, SetHid(t, c, r))
<1>1. SetHid(t, c, r).procTab = t.procTab /\ SetHid(t, c, r).proc = t.proc
  BY DEF SetHid, Reply, Memory
<1> QED
  BY <1>1, SameTablesMembers

Moving == {"ATTACHPID", "DETACHPID", "DETACHJID"}

(* Without attach and detach, job_create() alone moves a process.          *)
LEMMA ProcessMesgMembers ==
  ASSUME NEW t, Ok(t), t.hid # DISABLED, NEW c \in Client, NEW r \in Request, NEW exist,
         r.op \notin Moving
  PROVE  LET u == ProcessMesg(t, c, r, exist)
         IN IF r.op = "CREATE" /\ u.answer[c].err = "OK"
            THEN /\ r.pid \in exist /\ u.answer[c].op = "CREATE"
                 /\ Puts(t, u, r.pid, u.answer[c].jid)
            ELSE SameMembers(t, u)
<1> t \in Memory
  BY DEF Ok
<1>1. CASE r.op = "CREATE"
  <2>1. r.pid \in Pid /\ r.jid \in Jid \cup {NoJid} /\ r.user \in User
    BY <1>1 DEF Request
  <2>2. ProcessMesg(t, c, r, exist) = JobCreate(t, c, r, exist)
    BY <1>1 DEF ProcessMesg
  <2> QED
    BY <1>1, <2>1, <2>2, JobCreateMembers
<1>2. CASE r.op = "WAITJID"
  BY <1>2, WaitJidMembers DEF ProcessMesg
<1>3. CASE r.op = "SETHID"
  BY <1>3, SetHidMembers DEF ProcessMesg
<1>4. CASE r.op \in {"KILLJID", "GETJID", "GETJIDCNT", "GETJIDLST", "GETPIDCNT", "GETPIDLST",
                     "GETUSER", "GETPRIMEPID"}
  <2>1. Answers(t, ProcessMesg(t, c, r, exist), c)
    BY <1>4, QueriesAnswer DEF ProcessMesg
  <2> QED
    BY <1>4, <2>1, AnswersMembers
<1>5. r.op \in Op
  BY DEF Request, Op
<1> QED
  BY <1>1, <1>2, <1>3, <1>4, <1>5 DEF Op, Moving

(* What a successful query says.                                           *)
LEMMA QueriesTrue ==
  ASSUME NEW t \in Memory, NEW c \in Client, NEW r, NEW exist
  PROVE  /\ GetJid(t, c, r, exist).answer[c].jid = JobIn(t, r.pid)
         /\ KillJid(t, c, r, exist).answer[c].err = "OK" =>
              /\ KillJid(t, c, r, exist).answer[c].jid = r.jid /\ r.jid \in t.jobTab
              /\ KillTargets(t, c, r) = ToSet(t.job[r.jid].proclist)
<1>1. GetJid(t, c, r, exist).answer[c].jid = JobIn(t, r.pid)
  BY DEF GetJid, Reply, JobIn, Memory
<1>2. ASSUME KillJid(t, c, r, exist).answer[c].err = "OK"
      PROVE  /\ KillJid(t, c, r, exist).answer[c].jid = r.jid /\ r.jid \in t.jobTab
             /\ KillTargets(t, c, r) = ToSet(t.job[r.jid].proclist)
  <2>1. \A op, err, jid, val :
          /\ Reply(t, c, op, err, jid, val).answer[c].err = err
          /\ Reply(t, c, op, err, jid, val).answer[c].jid = jid
    BY DEF Reply, Memory
  <2>2. KillError(t, c, r) = "OK"
    <3>1. CASE KillError(t, c, r) # "OK"
      <4>1. KillJid(t, c, r, exist) = Reply(t, c, "KILLJID", KillError(t, c, r), NoJid, -1)
        BY <3>1 DEF KillJid
      <4> QED
        BY <1>2, <2>1, <4>1
    <3> QED
      BY <3>1
  <2>3. KillJid(t, c, r, exist) = Reply(t, c, "KILLJID", "OK", r.jid, 0)
    <3>1. KillJid(t, c, r, exist) = IF KillTargets(t, c, r) \subseteq exist
          THEN Reply(t, c, "KILLJID", "OK", r.jid, 0)
          ELSE Reply(t, c, "KILLJID", "ESRCH", r.jid, -1)
      BY <2>2 DEF KillJid
    <3> QED
      BY <1>2, <2>1, <3>1
  <2>4. r.jid \in t.jobTab
    BY <2>2 DEF KillError
  <2> QED
    BY <2>1, <2>2, <2>3, <2>4 DEF KillTargets
<1> QED
  BY <1>1, <1>2

(***************************************************************************)
(* The invariant                                                           *)
(***************************************************************************)
(* What membership needs: no event is lost, no pid is used twice, and      *)
(* nobody moves a process but job_create().                                *)
Faithful == ~Lossy /\ ~Reuse /\ \A call \in Calls : call[2].op \notin Moving

Alive(p) == pstate[p] = "run"
Born(p) == pstate[p] # "free"
Dead(p) == Born(p) /\ ~Alive(p)

(* The FORK event of p, its EXIT event, any event about it is unread.      *)
Unborn(p) == \E i \in DOMAIN nlq : nlq[i].what = "FORK" /\ nlq[i].pid = p
ExitUnread(p) == \E i \in DOMAIN nlq : nlq[i].what = "EXIT" /\ nlq[i].pid = p
ExitAfter(i, p) == \E k \in DOMAIN nlq : k > i /\ nlq[k].what = "EXIT" /\ nlq[k].pid = p
NoEvent(p) == \A i \in DOMAIN nlq : nlq[i].pid # p /\ nlq[i].parent # p
(* csad has the exit of p, jobd has csad's notice of it to read.           *)
Taken(p) == \E i \in DOMAIN tsq : tsq[i].pid = p
Noticed(p) == \E i \in DOMAIN fromCsa : fromCsa[i].what = "NOTICE" /\ fromCsa[i].pid = p

(* A child is forked once, before it forks, by a parent that has not       *)
(* exited; jobd learns of it only then.  An exit is the last event.        *)
ForkOrder(i) ==
  LET c == nlq[i].pid
      q == nlq[i].parent
  IN /\ Born(c) /\ Born(q) /\ JobIn(tbl, c) = NoJid
     /\ Alive(c) \/ ExitAfter(i, c)
     /\ Alive(q) \/ ExitAfter(i, q)
     /\ \A k \in DOMAIN nlq : k > i /\ nlq[k].what = "FORK" => nlq[k].pid # c /\ nlq[k].pid # q
ExitOrder(i) ==
  LET c == nlq[i].pid
  IN /\ Dead(c) /\ nlq[i].parent = c
     /\ \A k \in DOMAIN nlq : k > i => nlq[k].pid # c /\ nlq[k].parent # c
Ordered ==
  /\ \A i \in DOMAIN nlq : nlq[i].what = "FORK" => ForkOrder(i)
  /\ \A i \in DOMAIN nlq : nlq[i].what = "EXIT" => ExitOrder(i)

(* Whom jobd and csad know of has been forked, and has exited when they    *)
(* are told so.                                                            *)
KnownProcs ==
  /\ \A p \in Pid : JobIn(tbl, p) # NoJid => Born(p)
  /\ \A i \in DOMAIN reqq :
       /\ reqq[i].r.op \in {"CREATE", "GETJID"} => Born(reqq[i].r.pid)
       /\ reqq[i].r.op \notin Moving
  /\ \A i \in DOMAIN fromCsa : fromCsa[i].what = "NOTICE" => Dead(fromCsa[i].pid)
  /\ \A i \in DOMAIN tsq : Dead(tsq[i].pid)

(* select() looks at the csa and local sockets when no event is unread.    *)
Chosen ==
  /\ sel = "csa" /\ Head(fromCsa).what = "NOTICE" => NoEvent(Head(fromCsa).pid)
  /\ sel = "unix" /\ Head(reqq).r.op \in {"CREATE", "GETJID"} => ~Unborn(Head(reqq).r.pid)
  /\ sel = "unix" /\ Head(reqq).r.op = "CREATE" =>
       \A i \in DOMAIN nlq : nlq[i].what = "FORK" => nlq[i].parent # Head(reqq).r.pid

(* b is the job of every process, the dead included: alive ones belong to  *)
(* it, a child has the one of its parent, and jobd's tables will agree     *)
(* when it has read the events.                                            *)
Inherited(b) ==
  /\ \A p \in Pid : Alive(p) => b[p] = belongs[p]
  /\ \A i \in DOMAIN nlq : nlq[i].what = "FORK" => b[nlq[i].pid] = b[nlq[i].parent]
  /\ \A p \in Pid :
       ~Unborn(p) /\ (Alive(p) \/ ExitUnread(p) \/ JobIn(tbl, p) # NoJid) => JobIn(tbl, p) = b[p]
ChargedAs(b) == \A i \in DOMAIN tsq : tsJob[i] = b[tsq[i].pid]
Follows(b) == Inherited(b) /\ ChargedAs(b)
Followed == \E b \in [Pid -> Jid \cup {NoJid}] : Follows(b)

(* An exit is on its way through csad once.                                *)
OnceTold ==
  /\ \A h, i \in DOMAIN tsq : tsq[h].pid = tsq[i].pid => h = i
  /\ \A p \in Pid : Taken(p) => ~Noticed(p)

(* A process that exited from a job that csad knows is still in jobd's     *)
(* tables, or not yet.                                                     *)
StillMember ==
  \A i \in DOMAIN tsq :
    tsJob[i] \in acct.tab => JobIn(tbl, tsq[i].pid) # NoJid \/ Unborn(tsq[i].pid)

(* A daemon that is off has nothing to read.                               *)
Switched ==
  /\ csad = "off" <=> ~tsOn
  /\ ~tsOn => tsq = <<>>
  /\ ~cnOn => /\ csad = "off" /\ fromCsa = <<>> /\ reqq = <<>> /\ nlq = <<>> /\ sel = "none"
              /\ \A p \in Pid : JobIn(tbl, p) = NoJid /\ belongs[p] = NoJid

HistoryTyped ==
  /\ belongs \in [Pid -> Jid \cup {NoJid}]
  /\ tsJob \in Seq(Jid \cup {NoJid}) /\ Len(tsJob) = Len(tsq)

MInv ==
  /\ Switched /\ HistoryTyped /\ Ordered /\ KnownProcs /\ Chosen /\ Followed
  /\ OnceTold /\ StillMember

(* What holds of jobd with csad in any instance.                           *)
Base == KInv /\ FreshInv

LEMMA BaseTypes ==
  ASSUME Base
  PROVE  /\ tbl \in Memory /\ TablesAgree(tbl) /\ tbl.hid # DISABLED
         /\ nlq \in Seq(Event) /\ tsq \in Seq(TaskRec) /\ fromCsa \in Seq(CsaItem)
         /\ reqq \in Seq([c : Client, r : Request])
         /\ pstate \in [Pid -> {"free", "run", "zombie", "gone"}]
         /\ cnOn \in BOOLEAN /\ tsOn \in BOOLEAN
         /\ sel \in {"none", "accept", "csa", "unix"} /\ csad \in {"off", "listening", "connected"}
         /\ SelReady
<1> Inv
  BY DEF Base, FreshInv
<1>1. Ok(tbl)
  BY OkInv
<1> QED
  BY <1>1 DEF Inv, Ok, TypeOK, KernelTypeOK

LEMMA BaseItems ==
  ASSUME Base
  PROVE  /\ \A i \in DOMAIN nlq : /\ nlq[i].pid \in Pid /\ nlq[i].parent \in Pid
                                  /\ nlq[i].status \in Status /\ nlq[i].what \in {"FORK", "EXIT"}
                                  /\ nlq[i].what = "FORK" => nlq[i].pid # nlq[i].parent
         /\ \A i \in DOMAIN tsq : tsq[i].pid \in Pid /\ tsq[i].status \in Status
         /\ \A i \in DOMAIN fromCsa :
              /\ fromCsa[i].what = "NOTICE" => fromCsa[i].pid \in Pid /\ fromCsa[i].status \in Status
              /\ fromCsa[i] = CONNECT <=> fromCsa[i].what = "CONNECT"
              /\ fromCsa[i] = EOF <=> fromCsa[i].what = "EOF"
         /\ \A i \in DOMAIN reqq : /\ reqq[i].c \in Client /\ reqq[i].r \in Request
                                   /\ reqq[i].r.op \in {"CREATE", "GETJID"} => reqq[i].r.pid \in Pid
<1>1. /\ nlq \in Seq(Event) /\ tsq \in Seq(TaskRec) /\ fromCsa \in Seq(CsaItem)
      /\ reqq \in Seq([c : Client, r : Request])
  BY BaseTypes
<1>2. \A i \in DOMAIN nlq : nlq[i] \in Event
  BY <1>1
<1>3. \A e \in Event : /\ e.pid \in Pid /\ e.parent \in Pid
                       /\ e.status \in Status /\ e.what \in {"FORK", "EXIT"}
                       /\ e.what = "FORK" => e.pid # e.parent
  BY DEF Event
<1>4. \A i \in DOMAIN tsq : tsq[i] \in TaskRec
  BY <1>1
<1>5. \A e \in TaskRec : e.pid \in Pid /\ e.status \in Status
  BY DEF TaskRec
<1>6. \A i \in DOMAIN fromCsa : fromCsa[i] \in CsaItem
  BY <1>1
<1>7. \A x \in CsaItem : /\ x.what = "NOTICE" => x.pid \in Pid /\ x.status \in Status
                         /\ x = CONNECT <=> x.what = "CONNECT"
                         /\ x = EOF <=> x.what = "EOF"
  BY DEF CsaItem, CONNECT, EOF
<1>8. \A i \in DOMAIN reqq : reqq[i] \in [c : Client, r : Request]
  <2> DEFINE R == [c : Client, r : Request]
  <2>1. reqq \in Seq(R)
    BY <1>1
  <2> HIDE DEF R
  <2>2. \A i \in DOMAIN reqq : reqq[i] \in R
    BY <2>1
  <2> QED
    BY <2>2 DEF R
<1>9. \A x \in [c : Client, r : Request] : x.c \in Client /\ x.r \in Request
  OBVIOUS
<1>10. \A r \in Request : r.op \in {"CREATE", "GETJID"} => r.pid \in Pid
  BY DEF Request
<1>11. \A i \in DOMAIN nlq : /\ nlq[i].pid \in Pid /\ nlq[i].parent \in Pid
                             /\ nlq[i].status \in Status /\ nlq[i].what \in {"FORK", "EXIT"}
                             /\ nlq[i].what = "FORK" => nlq[i].pid # nlq[i].parent
  BY <1>2, <1>3
<1>12. \A i \in DOMAIN fromCsa :
         /\ fromCsa[i].what = "NOTICE" => fromCsa[i].pid \in Pid /\ fromCsa[i].status \in Status
         /\ fromCsa[i] = CONNECT <=> fromCsa[i].what = "CONNECT"
         /\ fromCsa[i] = EOF <=> fromCsa[i].what = "EOF"
  BY <1>6, <1>7
<1>13. \A i \in DOMAIN reqq : /\ reqq[i].c \in Client /\ reqq[i].r \in Request
                              /\ reqq[i].r.op \in {"CREATE", "GETJID"} => reqq[i].r.pid \in Pid
  BY <1>8, <1>9, <1>10
<1> QED
  BY <1>4, <1>5, <1>11, <1>12, <1>13

(***************************************************************************)
(* Queues that grow and shrink                                             *)
(***************************************************************************)
Extends(s, q, x, n) ==
  /\ n \in Nat /\ n \in DOMAIN q /\ q[n] = x /\ n \notin DOMAIN s
  /\ \A i \in DOMAIN s : i \in DOMAIN q /\ q[i] = s[i] /\ i \in Nat /\ i < n
  /\ \A i \in DOMAIN q : i \in DOMAIN s \/ i = n

LEMMA AppendExtends ==
  ASSUME NEW S, NEW s \in Seq(S), NEW x \in S, NEW q, q = Append(s, x)
  PROVE  Extends(s, q, x, Len(s) + 1)
<1>1. /\ Len(s) + 1 \in DOMAIN q /\ q[Len(s) + 1] = x
      /\ \A i \in DOMAIN q : i \in DOMAIN s \/ i = Len(s) + 1
      /\ \A i \in DOMAIN s : i \in DOMAIN q /\ q[i] = s[i]
  BY AppendPlaces
<1>2. Len(s) \in Nat /\ DOMAIN s = 1 .. Len(s)
  OBVIOUS
<1> QED
  BY <1>1, <1>2 DEF Extends

Shifts(s, q) ==
  /\ 1 \in DOMAIN s /\ s[1] = Head(s)
  /\ \A i \in DOMAIN q : i \in Nat /\ i > 0 /\ i + 1 \in DOMAIN s /\ q[i] = s[i + 1]
  /\ \A i \in DOMAIN s : i \in Nat /\ (i = 1 \/ (i - 1 \in DOMAIN q /\ q[i - 1] = s[i] /\ i > 1))

LEMMA TailShifts ==
  ASSUME NEW S, NEW s \in Seq(S), s # <<>>, NEW q, q = Tail(s)
  PROVE  Shifts(s, q)
<1>1. Len(s) \in Nat /\ Len(s) > 0 /\ DOMAIN s = 1 .. Len(s) /\ s[1] = Head(s)
  OBVIOUS
<1>2. q \in Seq(S) /\ Len(q) = Len(s) - 1 /\ \A i \in 1 .. Len(q) : q[i] = s[i + 1]
  BY HeadTailProperties
<1>3. DOMAIN q = 1 .. (Len(s) - 1)
  BY <1>2
<1> QED
  BY <1>1, <1>2, <1>3 DEF Shifts

(***************************************************************************)
(* The order of events, and what they lead to                              *)
(***************************************************************************)
(* A step that neither the kernel nor jobd's tables have a part in.        *)
StillMembers ==
  /\ UNCHANGED <<nlq, belongs>> /\ SameMembers(tbl, tbl')
  /\ \A p \in Pid : (Alive(p)' <=> Alive(p)) /\ (Born(p)' <=> Born(p))

LEMMA StillOrdered ==
  ASSUME Base, Ordered, StillMembers
  PROVE  Ordered'
<1>1. /\ nlq' = nlq /\ \A p \in Pid : JobIn(tbl', p) = JobIn(tbl, p)
      /\ \A p \in Pid : (Alive(p)' <=> Alive(p)) /\ (Born(p)' <=> Born(p))
  BY DEF StillMembers, SameMembers
<1>2. \A i \in DOMAIN nlq : nlq[i].pid \in Pid /\ nlq[i].parent \in Pid
  BY BaseItems
<1>3. \A i \in DOMAIN nlq, p \in Pid : ExitAfter(i, p)' <=> ExitAfter(i, p)
  BY <1>1 DEF ExitAfter
<1>4. ASSUME NEW i \in DOMAIN nlq', nlq'[i].what = "FORK" PROVE ForkOrder(i)'
  <2>1. ForkOrder(i) /\ i \in DOMAIN nlq
    BY <1>1, <1>4 DEF Ordered
  <2> QED
    BY <1>1, <1>2, <1>3, <2>1 DEF ForkOrder
<1>5. ASSUME NEW i \in DOMAIN nlq', nlq'[i].what = "EXIT" PROVE ExitOrder(i)'
  <2>1. ExitOrder(i) /\ i \in DOMAIN nlq
    BY <1>1, <1>5 DEF Ordered
  <2> QED
    BY <1>1, <1>2, <2>1 DEF ExitOrder, Dead
<1> QED
  BY <1>4, <1>5 DEF Ordered

LEMMA StillInherited ==
  ASSUME NEW b, Inherited(b), StillMembers
  PROVE  Inherited(b)'
BY DEF StillMembers, SameMembers, Inherited, Unborn, ExitUnread

(* The queue of events grows by event e.                                   *)
LEMMA UnreadGrows ==
  ASSUME NEW e, NEW n, Extends(nlq, nlq', e, n)
  PROVE  /\ \A p : Unborn(p)' <=> Unborn(p) \/ (e.what = "FORK" /\ e.pid = p)
         /\ \A p : ExitUnread(p)' <=> ExitUnread(p) \/ (e.what = "EXIT" /\ e.pid = p)
         /\ \A p : NoEvent(p)' <=> NoEvent(p) /\ e.pid # p /\ e.parent # p
         /\ \A i \in DOMAIN nlq : \A p : ExitAfter(i, p)' <=> ExitAfter(i, p) \/ (e.what = "EXIT" /\ e.pid = p)
<1>1. /\ n \in Nat /\ n \in DOMAIN nlq' /\ nlq'[n] = e
      /\ \A i \in DOMAIN nlq : i \in DOMAIN nlq' /\ nlq'[i] = nlq[i] /\ i \in Nat /\ i < n
      /\ \A i \in DOMAIN nlq' : i \in DOMAIN nlq \/ i = n
  BY DEF Extends
<1>2. \A p : Unborn(p)' <=> Unborn(p) \/ (e.what = "FORK" /\ e.pid = p)
  BY <1>1 DEF Unborn
<1>3. \A p : ExitUnread(p)' <=> ExitUnread(p) \/ (e.what = "EXIT" /\ e.pid = p)
  BY <1>1 DEF ExitUnread
<1>4. \A p : NoEvent(p)' <=> NoEvent(p) /\ e.pid # p /\ e.parent # p
  BY <1>1 DEF NoEvent
<1>5. ASSUME NEW i \in DOMAIN nlq, NEW p
      PROVE  ExitAfter(i, p)' <=> ExitAfter(i, p) \/ (e.what = "EXIT" /\ e.pid = p)
  <2>1. n > i
    BY <1>1
  <2> QED
    BY <1>1, <2>1 DEF ExitAfter
<1> QED
  BY <1>2, <1>3, <1>4, <1>5

(* A process forks: its child is nobody that an event could be about.      *)
LEMMA ForkOrdered ==
  ASSUME Base, Ordered, KnownProcs, NEW p \in Pid, NEW c \in Pid, Alive(p), ~Born(c),
         pstate' = [pstate EXCEPT ![c] = "run"], SameMembers(tbl, tbl'),
         NEW n, Extends(nlq, nlq', ForkEvent(p, c), n)
  PROVE  Ordered'
<1> DEFINE e == ForkEvent(p, c)
<1>1. e.what = "FORK" /\ e.pid = c /\ e.parent = p /\ p # c
  BY DEF ForkEvent, Alive, Born
<1> HIDE DEF e
<1>2. /\ n \in Nat /\ n \in DOMAIN nlq' /\ nlq'[n] = e /\ n \notin DOMAIN nlq
      /\ \A i \in DOMAIN nlq : i \in DOMAIN nlq' /\ nlq'[i] = nlq[i] /\ i \in Nat /\ i < n
      /\ \A i \in DOMAIN nlq' : i \in DOMAIN nlq \/ i = n
  BY DEF Extends, e
<1>3. /\ \A q \in Pid : (Alive(q)' <=> Alive(q) \/ q = c) /\ (Born(q)' <=> Born(q) \/ q = c)
      /\ ~Alive(c)
  BY BaseTypes DEF Alive, Born
<1>4. \A i \in DOMAIN nlq : nlq[i].pid \in Pid /\ nlq[i].parent \in Pid /\ nlq[i].what \in {"FORK", "EXIT"}
  BY BaseItems
<1>5. \A q \in Pid : JobIn(tbl', q) = JobIn(tbl, q)
  BY DEF SameMembers
<1>6. \A i \in DOMAIN nlq : \A q : ExitAfter(i, q)' <=> ExitAfter(i, q)
  BY <1>1, UnreadGrows DEF e
<1>7. \A i \in DOMAIN nlq : nlq[i].pid # c /\ nlq[i].parent # c
  BY <1>4 DEF Ordered, ForkOrder, ExitOrder, Dead
<1>8. ASSUME NEW i \in DOMAIN nlq', nlq'[i].what = "FORK" PROVE ForkOrder(i)'
  <2>1. CASE i \in DOMAIN nlq
    <3>1. nlq'[i] = nlq[i] /\ ForkOrder(i)
      BY <1>2, <1>8, <2>1 DEF Ordered
    <3>2. \A k \in DOMAIN nlq' : k > i /\ nlq'[k].what = "FORK" =>
            nlq'[k].pid # nlq'[i].pid /\ nlq'[k].pid # nlq'[i].parent
      BY <1>1, <1>2, <1>7, <2>1, <3>1 DEF ForkOrder
    <3> QED
      BY <1>3, <1>4, <1>5, <1>6, <1>7, <2>1, <3>1, <3>2 DEF ForkOrder
  <2>2. CASE i = n
    <3>1. \A k \in DOMAIN nlq' : ~(k > n)
      BY <1>2
    <3>2. JobIn(tbl, c) = NoJid
      BY DEF KnownProcs
    <3>3. Born(p)
      BY DEF Alive, Born
    <3> QED
      BY <1>1, <1>2, <1>3, <1>5, <2>2, <3>1, <3>2, <3>3 DEF ForkOrder
  <2> QED
    BY <1>2, <2>1, <2>2
<1>9. ASSUME NEW i \in DOMAIN nlq', nlq'[i].what = "EXIT" PROVE ExitOrder(i)'
  <2>1. i \in DOMAIN nlq /\ nlq'[i] = nlq[i] /\ ExitOrder(i)
    BY <1>1, <1>2, <1>9 DEF Ordered
  <2>2. nlq[i].pid # p
    BY <2>1 DEF ExitOrder, Dead
  <2>3. \A k \in DOMAIN nlq' : k > i => nlq'[k].pid # nlq[i].pid /\ nlq'[k].parent # nlq[i].pid
    BY <1>1, <1>2, <1>7, <2>1, <2>2 DEF ExitOrder
  <2> QED
    BY <1>3, <1>4, <1>7, <2>1, <2>3 DEF ExitOrder, Dead
<1> QED
  BY <1>8, <1>9 DEF Ordered

(* A process exits: that is its last event.                                *)
LEMMA ExitOrdered ==
  ASSUME Base, Ordered, NEW p \in Pid, NEW s, Alive(p),
         \A q \in Pid : (Alive(q)' <=> Alive(q) /\ q # p) /\ (Born(q)' <=> Born(q)),
         SameMembers(tbl, tbl'), NEW n, Extends(nlq, nlq', ExitEvent(p, s), n)
  PROVE  Ordered'
<1> DEFINE e == ExitEvent(p, s)
<1>1. e.what = "EXIT" /\ e.pid = p /\ e.parent = p
  BY DEF ExitEvent
<1> HIDE DEF e
<1>2. /\ n \in Nat /\ n \in DOMAIN nlq' /\ nlq'[n] = e /\ n \notin DOMAIN nlq
      /\ \A i \in DOMAIN nlq : i \in DOMAIN nlq' /\ nlq'[i] = nlq[i] /\ i \in Nat /\ i < n
      /\ \A i \in DOMAIN nlq' : i \in DOMAIN nlq \/ i = n
  BY DEF Extends, e
<1>4. \A i \in DOMAIN nlq : nlq[i].pid \in Pid /\ nlq[i].parent \in Pid /\ nlq[i].what \in {"FORK", "EXIT"}
  BY BaseItems
<1>5. \A q \in Pid : JobIn(tbl', q) = JobIn(tbl, q)
  BY DEF SameMembers
<1>6. \A i \in DOMAIN nlq : \A q : ExitAfter(i, q)' <=> ExitAfter(i, q) \/ q = p
  BY <1>1, UnreadGrows DEF e
<1>8. ASSUME NEW i \in DOMAIN nlq', nlq'[i].what = "FORK" PROVE ForkOrder(i)'
  <2>1. nlq'[i] = nlq[i] /\ ForkOrder(i) /\ i \in DOMAIN nlq
    BY <1>1, <1>2, <1>8 DEF Ordered
  <2>2. \A k \in DOMAIN nlq' : k > i /\ nlq'[k].what = "FORK" =>
          nlq'[k].pid # nlq'[i].pid /\ nlq'[k].pid # nlq'[i].parent
    BY <1>1, <1>2, <2>1 DEF ForkOrder
  <2> QED
    BY <1>4, <1>5, <1>6, <2>1, <2>2 DEF ForkOrder
<1>9. ASSUME NEW i \in DOMAIN nlq', nlq'[i].what = "EXIT" PROVE ExitOrder(i)'
  <2>1. CASE i \in DOMAIN nlq
    <3>1. nlq'[i] = nlq[i] /\ ExitOrder(i)
      BY <1>2, <1>9, <2>1 DEF Ordered
    <3>2. nlq[i].pid # p
      BY <3>1 DEF ExitOrder, Dead
    <3>3. \A k \in DOMAIN nlq' : k > i => nlq'[k].pid # nlq[i].pid /\ nlq'[k].parent # nlq[i].pid
      BY <1>1, <1>2, <2>1, <3>1, <3>2 DEF ExitOrder
    <3> QED
      BY <1>4, <2>1, <3>1, <3>3 DEF ExitOrder, Dead
  <2>2. CASE i = n
    <3>1. \A k \in DOMAIN nlq' : ~(k > n)
      BY <1>2
    <3>2. Born(p)
      BY DEF Alive, Born
    <3> QED
      BY <1>1, <1>2, <2>2, <3>1, <3>2 DEF ExitOrder, Dead
  <2> QED
    BY <1>2, <2>1, <2>2
<1> QED
  BY <1>8, <1>9 DEF Ordered

(* jobd reads an event: the tables change for the process it is about.     *)
LEMMA ReadOrdered ==
  ASSUME Base, Ordered, Shifts(nlq, nlq'),
         \A q \in Pid : (Alive(q)' <=> Alive(q)) /\ (Born(q)' <=> Born(q)),
         \A q \in Pid : JobIn(tbl', q) # NoJid =>
            JobIn(tbl, q) # NoJid \/ (Head(nlq).what = "FORK" /\ q = Head(nlq).pid)
  PROVE  Ordered'
<1>1. /\ 1 \in DOMAIN nlq /\ nlq[1] = Head(nlq)
      /\ \A i \in DOMAIN nlq' : i \in Nat /\ i > 0 /\ i + 1 \in DOMAIN nlq /\ nlq'[i] = nlq[i + 1]
      /\ \A i \in DOMAIN nlq : i \in Nat /\ (i = 1 \/ (i - 1 \in DOMAIN nlq' /\ nlq'[i - 1] = nlq[i] /\ i > 1))
  BY DEF Shifts
<1>2. \A i \in DOMAIN nlq : nlq[i].pid \in Pid /\ nlq[i].parent \in Pid
  BY BaseItems
<1>3. ASSUME NEW i \in DOMAIN nlq', NEW q, ExitAfter(i + 1, q) PROVE ExitAfter(i, q)'
  <2>1. PICK k \in DOMAIN nlq : k > i + 1 /\ nlq[k].what = "EXIT" /\ nlq[k].pid = q
    BY <1>3 DEF ExitAfter
  <2>2. k - 1 \in DOMAIN nlq' /\ nlq'[k - 1] = nlq[k] /\ k - 1 > i
    BY <1>1, <2>1
  <2> QED
    BY <2>1, <2>2 DEF ExitAfter
<1>4. ASSUME NEW i \in DOMAIN nlq', nlq'[i].what = "FORK" PROVE ForkOrder(i)'
  <2>1. i + 1 \in DOMAIN nlq /\ nlq'[i] = nlq[i + 1] /\ i + 1 > 1
    BY <1>1
  <2>2. ForkOrder(i + 1)
    BY <1>4, <2>1 DEF Ordered
  <2>3. \A k \in DOMAIN nlq' : k > i /\ nlq'[k].what = "FORK" =>
          nlq'[k].pid # nlq'[i].pid /\ nlq'[k].pid # nlq'[i].parent
    <3> SUFFICES ASSUME NEW k \in DOMAIN nlq', k > i, nlq'[k].what = "FORK"
                 PROVE  nlq'[k].pid # nlq'[i].pid /\ nlq'[k].pid # nlq'[i].parent
      OBVIOUS
    <3>1. k + 1 \in DOMAIN nlq /\ nlq'[k] = nlq[k + 1] /\ k + 1 > i + 1
      BY <1>1
    <3> QED
      BY <2>1, <2>2, <3>1 DEF ForkOrder
  <2>4. JobIn(tbl', nlq'[i].pid) = NoJid
    <3>1. JobIn(tbl, nlq[i + 1].pid) = NoJid
      BY <2>2 DEF ForkOrder
    <3>2. Head(nlq).what = "FORK" => nlq[i + 1].pid # Head(nlq).pid
      <4>1. Head(nlq).what = "FORK" => ForkOrder(1)
        BY <1>1 DEF Ordered
      <4> QED
        BY <1>1, <1>4, <2>1, <4>1 DEF ForkOrder
    <3> QED
      BY <1>2, <2>1, <3>1, <3>2
  <2> QED
    BY <1>2, <1>3, <2>1, <2>2, <2>3, <2>4 DEF ForkOrder
<1>5. ASSUME NEW i \in DOMAIN nlq', nlq'[i].what = "EXIT" PROVE ExitOrder(i)'
  <2>1. i + 1 \in DOMAIN nlq /\ nlq'[i] = nlq[i + 1]
    BY <1>1
  <2>2. ExitOrder(i + 1)
    BY <1>5, <2>1 DEF Ordered
  <2>3. \A k \in DOMAIN nlq' : k > i => nlq'[k].pid # nlq'[i].pid /\ nlq'[k].parent # nlq'[i].pid
    <3> SUFFICES ASSUME NEW k \in DOMAIN nlq', k > i
                 PROVE  nlq'[k].pid # nlq'[i].pid /\ nlq'[k].parent # nlq'[i].pid
      OBVIOUS
    <3>1. k + 1 \in DOMAIN nlq /\ nlq'[k] = nlq[k + 1] /\ k + 1 > i + 1
      BY <1>1
    <3> QED
      BY <2>1, <2>2, <3>1 DEF ExitOrder
  <2> QED
    BY <1>2, <2>1, <2>2, <2>3 DEF ExitOrder, Dead
<1> QED
  BY <1>4, <1>5 DEF Ordered

(* A request or a notice moves a process that no unread FORK event forks.  *)
LEMMA MovedOrdered ==
  ASSUME Base, Ordered, nlq' = nlq,
         \A q \in Pid : (Alive(q)' <=> Alive(q)) /\ (Born(q)' <=> Born(q)),
         \A q \in Pid : JobIn(tbl', q) # NoJid => JobIn(tbl, q) # NoJid \/ ~Unborn(q)
  PROVE  Ordered'
<1>1. \A i \in DOMAIN nlq : nlq[i].pid \in Pid /\ nlq[i].parent \in Pid
  BY BaseItems
<1>2. \A i \in DOMAIN nlq : \A q : ExitAfter(i, q)' <=> ExitAfter(i, q)
  BY DEF ExitAfter
<1>3. ASSUME NEW i \in DOMAIN nlq', nlq'[i].what = "FORK" PROVE ForkOrder(i)'
  <2>1. ForkOrder(i) /\ Unborn(nlq[i].pid)
    BY <1>3 DEF Ordered, Unborn
  <2>2. JobIn(tbl', nlq[i].pid) = NoJid
    BY <1>1, <2>1 DEF ForkOrder
  <2> QED
    BY <1>1, <1>2, <2>1, <2>2 DEF ForkOrder
<1>4. ASSUME NEW i \in DOMAIN nlq', nlq'[i].what = "EXIT" PROVE ExitOrder(i)'
  <2>1. ExitOrder(i)
    BY <1>4 DEF Ordered
  <2> QED
    BY <1>1, <2>1 DEF ExitOrder, Dead
<1> QED
  BY <1>3, <1>4 DEF Ordered

(* The first event is read.                                                *)
LEMMA UnreadShrinks ==
  ASSUME Base, Shifts(nlq, nlq')
  PROVE  /\ \A p : Unborn(p)' => Unborn(p)
         /\ \A p : ExitUnread(p)' => ExitUnread(p)
         /\ \A p : Unborn(p) => Unborn(p)' \/ (Head(nlq).what = "FORK" /\ Head(nlq).pid = p)
         /\ \A p : ExitUnread(p) => ExitUnread(p)' \/ (Head(nlq).what = "EXIT" /\ Head(nlq).pid = p)
         /\ \A i \in DOMAIN nlq' : i + 1 \in DOMAIN nlq /\ nlq'[i] = nlq[i + 1] /\ i + 1 > 1
<1>1. /\ 1 \in DOMAIN nlq /\ nlq[1] = Head(nlq)
      /\ \A i \in DOMAIN nlq' : i \in Nat /\ i > 0 /\ i + 1 \in DOMAIN nlq /\ nlq'[i] = nlq[i + 1]
      /\ \A i \in DOMAIN nlq : i \in Nat /\ (i = 1 \/ (i - 1 \in DOMAIN nlq' /\ nlq'[i - 1] = nlq[i] /\ i > 1))
  BY DEF Shifts
<1>2. \A i \in DOMAIN nlq' : i + 1 \in DOMAIN nlq /\ nlq'[i] = nlq[i + 1] /\ i + 1 > 1
  BY <1>1
<1>3. \A i \in DOMAIN nlq : nlq[i] = Head(nlq) \/ \E k \in DOMAIN nlq' : nlq'[k] = nlq[i]
  BY <1>1
<1>4. \A p : (Unborn(p)' => Unborn(p)) /\ (ExitUnread(p)' => ExitUnread(p))
  BY <1>2 DEF Unborn, ExitUnread
<1>5. \A p : Unborn(p) => Unborn(p)' \/ (Head(nlq).what = "FORK" /\ Head(nlq).pid = p)
  BY <1>3 DEF Unborn
<1>6. \A p : ExitUnread(p) => ExitUnread(p)' \/ (Head(nlq).what = "EXIT" /\ Head(nlq).pid = p)
  BY <1>3 DEF ExitUnread
<1> QED
  BY <1>2, <1>4, <1>5, <1>6

LEMMA ForkInherited ==
  ASSUME Base, Ordered, KnownProcs, NEW p \in Pid, NEW c \in Pid, Alive(p), ~Born(c),
         pstate' = [pstate EXCEPT ![c] = "run"], SameMembers(tbl, tbl'),
         belongs \in [Pid -> Jid \cup {NoJid}], belongs' = [belongs EXCEPT ![c] = belongs[p]],
         NEW n, Extends(nlq, nlq', ForkEvent(p, c), n),
         NEW b \in [Pid -> Jid \cup {NoJid}], Inherited(b),
         NEW d, d = [b EXCEPT ![c] = b[p]]
  PROVE  Inherited(d)'
<1> DEFINE e == ForkEvent(p, c)
<1>1. e.what = "FORK" /\ e.pid = c /\ e.parent = p /\ p # c
  BY DEF ForkEvent, Alive, Born
<1> HIDE DEF e
<1>2. /\ n \in DOMAIN nlq' /\ nlq'[n] = e
      /\ \A i \in DOMAIN nlq' : (i \in DOMAIN nlq /\ nlq'[i] = nlq[i]) \/ i = n
  BY DEF Extends, e
<1>3. /\ \A q \in Pid : (Alive(q)' <=> Alive(q) \/ q = c)
      /\ \A q \in Pid \ {c} : d[q] = b[q] /\ belongs'[q] = belongs[q]
      /\ d[c] = b[p] /\ belongs'[c] = belongs[p]
  BY BaseTypes DEF Alive
<1>4. \A i \in DOMAIN nlq : nlq[i].pid \in Pid /\ nlq[i].parent \in Pid /\ nlq[i].what \in {"FORK", "EXIT"}
  BY BaseItems
<1>5. \A q \in Pid : JobIn(tbl', q) = JobIn(tbl, q)
  BY DEF SameMembers
<1>6. /\ \A q : Unborn(q)' <=> Unborn(q) \/ q = c
      /\ \A q : ExitUnread(q)' <=> ExitUnread(q)
  BY <1>1, UnreadGrows DEF e
<1>7. \A i \in DOMAIN nlq : nlq[i].pid # c /\ nlq[i].parent # c
  BY <1>4 DEF Ordered, ForkOrder, ExitOrder, Dead
<1>8. \A q \in Pid : Alive(q)' => d[q] = belongs'[q]
  BY <1>3 DEF Inherited
<1>9. \A i \in DOMAIN nlq' : nlq'[i].what = "FORK" => d[nlq'[i].pid] = d[nlq'[i].parent]
  BY <1>1, <1>2, <1>3, <1>4, <1>7 DEF Inherited
<1>10. ASSUME NEW q \in Pid, ~Unborn(q)', Alive(q)' \/ ExitUnread(q)' \/ JobIn(tbl', q) # NoJid
       PROVE  JobIn(tbl', q) = d[q]
  BY <1>3, <1>5, <1>6, <1>10 DEF Inherited
<1> QED
  BY <1>8, <1>9, <1>10 DEF Inherited

LEMMA ExitInherited ==
  ASSUME Base, NEW p \in Pid, NEW s, Alive(p),
         \A q \in Pid : Alive(q)' <=> Alive(q) /\ q # p,
         SameMembers(tbl, tbl'), \A q \in Pid \ {p} : belongs'[q] = belongs[q],
         NEW n, Extends(nlq, nlq', ExitEvent(p, s), n),
         NEW b, Inherited(b)
  PROVE  Inherited(b)'
<1> DEFINE e == ExitEvent(p, s)
<1>1. e.what = "EXIT" /\ e.pid = p
  BY DEF ExitEvent
<1> HIDE DEF e
<1>2. /\ nlq'[n] = e
      /\ \A i \in DOMAIN nlq' : (i \in DOMAIN nlq /\ nlq'[i] = nlq[i]) \/ i = n
  BY DEF Extends, e
<1>5. \A q \in Pid : JobIn(tbl', q) = JobIn(tbl, q)
  BY DEF SameMembers
<1>6. /\ \A q : Unborn(q)' <=> Unborn(q)
      /\ \A q : ExitUnread(q)' <=> ExitUnread(q) \/ q = p
  BY <1>1, UnreadGrows DEF e
<1>8. \A q \in Pid : Alive(q)' => b[q] = belongs'[q]
  BY DEF Inherited
<1>9. \A i \in DOMAIN nlq' : nlq'[i].what = "FORK" => b[nlq'[i].pid] = b[nlq'[i].parent]
  BY <1>1, <1>2 DEF Inherited
<1>10. \A q \in Pid : ~Unborn(q)' /\ (Alive(q)' \/ ExitUnread(q)' \/ JobIn(tbl', q) # NoJid)
          => JobIn(tbl', q) = b[q]
  BY <1>5, <1>6 DEF Inherited
<1> QED
  BY <1>8, <1>9, <1>10 DEF Inherited

(* jobd reads a FORK event: the parent's own is not unread, so the job     *)
(* that jobd has for it is the right one.                                  *)
LEMMA ReadForkInherited ==
  ASSUME Base, Ordered, Shifts(nlq, nlq'), Head(nlq).what = "FORK",
         \A q \in Pid : Alive(q)' <=> Alive(q), belongs' = belongs,
         Puts(tbl, tbl', Head(nlq).pid, JobIn(tbl, Head(nlq).parent)),
         NEW b, Inherited(b)
  PROVE  Inherited(b)'
<1> DEFINE c == Head(nlq).pid
           q == Head(nlq).parent
<1>1. 1 \in DOMAIN nlq /\ nlq[1] = Head(nlq)
  BY DEF Shifts
<1>2. c \in Pid /\ q \in Pid /\ c # q
  BY <1>1, BaseItems
<1>3. /\ \A p : Unborn(p)' => Unborn(p)
      /\ \A p : ExitUnread(p)' => ExitUnread(p)
      /\ \A p : Unborn(p) => Unborn(p)' \/ p = c
      /\ \A i \in DOMAIN nlq' : i + 1 \in DOMAIN nlq /\ nlq'[i] = nlq[i + 1] /\ i + 1 > 1
  BY UnreadShrinks
<1>4. ForkOrder(1)
  BY <1>1 DEF Ordered
<1>5. b[c] = b[q]
  BY <1>1 DEF Inherited
<1>6. JobIn(tbl', c) = JobIn(tbl, q) /\ \A p \in Pid \ {c} : JobIn(tbl', p) = JobIn(tbl, p)
  BY DEF Puts
<1>7. JobIn(tbl, q) = b[q]
  <2>1. ~Unborn(q)
    <3> SUFFICES ASSUME NEW i \in DOMAIN nlq, nlq[i].what = "FORK", nlq[i].pid = q PROVE FALSE
      BY DEF Unborn
    <3>1. i \in Nat /\ (i = 1 \/ i > 1)
      BY DEF Shifts
    <3> QED
      BY <1>1, <1>2, <1>4, <3>1 DEF ForkOrder
  <2>2. Alive(q) \/ ExitUnread(q)
    BY <1>1, <1>4 DEF ForkOrder, ExitAfter, ExitUnread
  <2> QED
    BY <1>2, <2>1, <2>2 DEF Inherited
<1> HIDE DEF c, q
<1>8. \A p \in Pid : Alive(p)' => b[p] = belongs'[p]
  BY DEF Inherited
<1>9. \A i \in DOMAIN nlq' : nlq'[i].what = "FORK" => b[nlq'[i].pid] = b[nlq'[i].parent]
  BY <1>3 DEF Inherited
<1>10. ASSUME NEW p \in Pid, ~Unborn(p)', Alive(p)' \/ ExitUnread(p)' \/ JobIn(tbl', p) # NoJid
       PROVE  JobIn(tbl', p) = b[p]
  <2>1. CASE p = c
    BY <1>5, <1>6, <1>7, <2>1
  <2>2. CASE p # c
    BY <1>3, <1>6, <1>10, <2>2 DEF Inherited
  <2> QED
    BY <2>1, <2>2
<1> QED
  BY <1>8, <1>9, <1>10 DEF Inherited

(* jobd reads an EXIT event: nothing that is unread is about the process.  *)
LEMMA ReadExitInherited ==
  ASSUME Base, Ordered, Shifts(nlq, nlq'), Head(nlq).what = "EXIT",
         \A q \in Pid : Alive(q)' <=> Alive(q), belongs' = belongs,
         SameMembers(tbl, tbl') \/ Puts(tbl, tbl', Head(nlq).pid, NoJid),
         NEW b, Inherited(b)
  PROVE  Inherited(b)'
<1>1. 1 \in DOMAIN nlq /\ nlq[1] = Head(nlq)
  BY DEF Shifts
<1>2. PICK c \in Pid : c = Head(nlq).pid
  BY <1>1, BaseItems
<1>3. /\ \A p : Unborn(p)' => Unborn(p)
      /\ \A p : ExitUnread(p)' => ExitUnread(p)
      /\ \A p : Unborn(p) => Unborn(p)'
  BY UnreadShrinks
<1>11. \A i \in DOMAIN nlq' : i + 1 \in DOMAIN nlq /\ nlq'[i] = nlq[i + 1] /\ i + 1 > 1
  BY UnreadShrinks
<1>4. ExitOrder(1)
  BY <1>1 DEF Ordered
<1>5. ~Alive(c) /\ ~ExitUnread(c)'
  <2>1. ~Alive(c)
    BY <1>1, <1>2, <1>4 DEF ExitOrder, Dead
  <2>2. \A k \in DOMAIN nlq : k > 1 => nlq[k].pid # nlq[1].pid
    BY <1>4 DEF ExitOrder
  <2>3. \A i \in DOMAIN nlq' : nlq'[i].pid # c
    <3> SUFFICES ASSUME NEW i \in DOMAIN nlq' PROVE nlq'[i].pid # c
      OBVIOUS
    <3>1. i + 1 \in DOMAIN nlq /\ nlq'[i] = nlq[i + 1] /\ i + 1 > 1
      BY <1>11
    <3>2. nlq[i + 1].pid # nlq[1].pid
      BY <2>2, <3>1
    <3> QED
      BY <1>1, <1>2, <3>1, <3>2
  <2> QED
    BY <2>1, <2>3 DEF ExitUnread
<1>6. \A p \in Pid \ {c} : JobIn(tbl', p) = JobIn(tbl, p)
  BY <1>2 DEF Puts, SameMembers
<1>7. JobIn(tbl', c) = NoJid \/ JobIn(tbl', c) = JobIn(tbl, c)
  BY <1>2 DEF Puts, SameMembers
<1>8. \A p \in Pid : Alive(p)' => b[p] = belongs'[p]
  BY DEF Inherited
<1>9. \A i \in DOMAIN nlq' : nlq'[i].what = "FORK" => b[nlq'[i].pid] = b[nlq'[i].parent]
  <2>1. \A i \in DOMAIN nlq : nlq[i].what = "FORK" => b[nlq[i].pid] = b[nlq[i].parent]
    BY DEF Inherited
  <2> QED
    <3> SUFFICES ASSUME NEW i \in DOMAIN nlq', nlq'[i].what = "FORK"
                 PROVE  b[nlq'[i].pid] = b[nlq'[i].parent]
      OBVIOUS
    <3>1. i + 1 \in DOMAIN nlq /\ nlq'[i] = nlq[i + 1]
      BY <1>11
    <3> QED
      BY <2>1, <3>1
<1>10. ASSUME NEW p \in Pid, ~Unborn(p)', Alive(p)' \/ ExitUnread(p)' \/ JobIn(tbl', p) # NoJid
       PROVE  JobIn(tbl', p) = b[p]
  <2>1. CASE p = c
    BY <1>2, <1>3, <1>5, <1>7, <1>10, <2>1 DEF Inherited
  <2>2. CASE p # c
    BY <1>3, <1>6, <1>10, <2>2 DEF Inherited
  <2> QED
    BY <2>1, <2>2
<1> QED
  BY <1>8, <1>9, <1>10 DEF Inherited

LEMMA NoticeInherited ==
  ASSUME nlq' = nlq, belongs' = belongs, \A q \in Pid : Alive(q)' <=> Alive(q),
         NEW p \in Pid, Dead(p), NoEvent(p), Puts(tbl, tbl', p, NoJid),
         NEW b, Inherited(b)
  PROVE  Inherited(b)'
<1>1. ~Alive(p) /\ ~ExitUnread(p)
  BY DEF Dead, NoEvent, ExitUnread
<1>2. JobIn(tbl', p) = NoJid /\ \A q \in Pid \ {p} : JobIn(tbl', q) = JobIn(tbl, q)
  BY DEF Puts
<1>3. /\ \A q : Unborn(q)' <=> Unborn(q)
      /\ \A q : ExitUnread(q)' <=> ExitUnread(q)
  BY DEF Unborn, ExitUnread
<1>4. \A q \in Pid : Alive(q)' => b[q] = belongs'[q]
  BY DEF Inherited
<1>5. \A i \in DOMAIN nlq' : nlq'[i].what = "FORK" => b[nlq'[i].pid] = b[nlq'[i].parent]
  BY DEF Inherited
<1>6. \A q \in Pid : ~Unborn(q)' /\ (Alive(q)' \/ ExitUnread(q)' \/ JobIn(tbl', q) # NoJid)
          => JobIn(tbl', q) = b[q]
  BY <1>1, <1>2, <1>3 DEF Inherited
<1> QED
  BY <1>4, <1>5, <1>6 DEF Inherited

(* job_create(): no unread event has the process for child or parent.      *)
LEMMA CreateInherited ==
  ASSUME Base, nlq' = nlq, \A q \in Pid : Alive(q)' <=> Alive(q),
         NEW p \in Pid, NEW j \in Jid, Puts(tbl, tbl', p, j), ~Unborn(p),
         \A i \in DOMAIN nlq : nlq[i].what = "FORK" => nlq[i].parent # p,
         Alive(p) => belongs'[p] = j, \A q \in Pid \ {p} : belongs'[q] = belongs[q],
         NEW b \in [Pid -> Jid \cup {NoJid}], Inherited(b),
         NEW d, d = [b EXCEPT ![p] = j]
  PROVE  Inherited(d)'
<1>1. d[p] = j /\ \A q \in Pid \ {p} : d[q] = b[q]
  OBVIOUS
<1>2. JobIn(tbl', p) = j /\ \A q \in Pid \ {p} : JobIn(tbl', q) = JobIn(tbl, q)
  BY DEF Puts
<1>3. /\ \A q : Unborn(q)' <=> Unborn(q)
      /\ \A q : ExitUnread(q)' <=> ExitUnread(q)
  BY DEF Unborn, ExitUnread
<1>4. \A q \in Pid : Alive(q)' => d[q] = belongs'[q]
  BY <1>1 DEF Inherited
<1>5. \A i \in DOMAIN nlq' : nlq'[i].what = "FORK" => d[nlq'[i].pid] = d[nlq'[i].parent]
  <2>1. \A i \in DOMAIN nlq : nlq[i].pid \in Pid /\ nlq[i].parent \in Pid
    BY BaseItems
  <2>2. \A i \in DOMAIN nlq : nlq[i].what = "FORK" => nlq[i].pid # p
    BY DEF Unborn
  <2>3. \A i \in DOMAIN nlq : nlq[i].what = "FORK" => b[nlq[i].pid] = b[nlq[i].parent]
    BY DEF Inherited
  <2> QED
    BY <1>1, <2>1, <2>2, <2>3
<1>6. \A q \in Pid : ~Unborn(q)' /\ (Alive(q)' \/ ExitUnread(q)' \/ JobIn(tbl', q) # NoJid)
          => JobIn(tbl', q) = d[q]
  BY <1>1, <1>2, <1>3 DEF Inherited
<1> QED
  BY <1>4, <1>5, <1>6 DEF Inherited

(***************************************************************************)
(* The steps that move no process and lead to no event                     *)
(***************************************************************************)
Fewer(s, q) == \A i \in DOMAIN q : \E k \in DOMAIN s : q[i] = s[k]

LEMMA SameFewer == ASSUME NEW s PROVE Fewer(s, s)
BY DEF Fewer

LEMMA TailFewer ==
  ASSUME NEW S, NEW s \in Seq(S), s # <<>>
  PROVE  Fewer(s, Tail(s))
BY TailElements DEF Fewer

LEMMA EmptyFewer == ASSUME NEW s PROVE Fewer(s, <<>>)
BY DEF Fewer

LEMMA FewerNoticed ==
  ASSUME Fewer(fromCsa, fromCsa') PROVE \A p : Noticed(p)' => Noticed(p)
BY DEF Fewer, Noticed

(* What the records that csad has not reported yet say.                    *)
LEMMA StillKept ==
  ASSUME Base, MInv, StillMembers, UNCHANGED <<tsq, tsJob>>,
         acct'.tab \subseteq acct.tab \/ tsq = <<>>, \A p : Noticed(p)' => Noticed(p)
  PROVE  HistoryTyped' /\ Ordered' /\ Followed' /\ OnceTold' /\ StillMember'
<1>1. /\ tsq' = tsq /\ tsJob' = tsJob /\ nlq' = nlq /\ belongs' = belongs
      /\ \A p \in Pid : JobIn(tbl', p) = JobIn(tbl, p)
  BY DEF StillMembers, SameMembers
<1>2. /\ HistoryTyped /\ Ordered /\ Followed /\ OnceTold /\ StillMember
  BY DEF MInv
<1>3. HistoryTyped'
  BY <1>1, <1>2 DEF HistoryTyped
<1>4. Ordered'
  BY <1>2, StillOrdered
<1>5. Followed'
  <2>1. PICK b \in [Pid -> Jid \cup {NoJid}] : Follows(b)
    BY <1>2 DEF Followed
  <2>2. Inherited(b)'
    BY <2>1, StillInherited DEF Follows
  <2>3. ChargedAs(b)'
    BY <1>1, <2>1 DEF Follows, ChargedAs
  <2> QED
    BY <2>1, <2>2, <2>3 DEF Followed, Follows
<1>6. OnceTold'
  BY <1>1, <1>2 DEF OnceTold, Taken
<1>7. StillMember'
  <2>1. ASSUME NEW i \in DOMAIN tsq, tsJob[i] \in acct'.tab
        PROVE  JobIn(tbl', tsq[i].pid) # NoJid \/ Unborn(tsq[i].pid)'
    <3>1. tsJob[i] \in acct.tab /\ tsq[i].pid \in Pid
      <4>1. tsq # <<>>
        BY <2>1
      <4> QED
        BY <2>1, <4>1, BaseItems
    <3>2. JobIn(tbl, tsq[i].pid) # NoJid \/ Unborn(tsq[i].pid)
      BY <1>2, <2>1, <3>1 DEF StillMember
    <3>3. Unborn(tsq[i].pid)' <=> Unborn(tsq[i].pid)
      BY <1>1 DEF Unborn
    <3> QED
      BY <1>1, <3>1, <3>2, <3>3
  <2> QED
    BY <1>1, <2>1 DEF StillMember
<1> QED
  BY <1>3, <1>4, <1>5, <1>6, <1>7

LEMMA StillKnown ==
  ASSUME Base, KnownProcs, \A p \in Pid : Born(p) => Born(p)',
         \A p \in Pid : Dead(p) => Dead(p)',
         \A p \in Pid : JobIn(tbl', p) # NoJid => JobIn(tbl, p) # NoJid \/ Born(p),
         Fewer(reqq, reqq'), Fewer(fromCsa, fromCsa'), Fewer(tsq, tsq')
  PROVE  KnownProcs'
<1>1. \A p \in Pid : JobIn(tbl', p) # NoJid => Born(p)'
  BY DEF KnownProcs
<1>2. ASSUME NEW i \in DOMAIN reqq'
      PROVE  /\ reqq'[i].r.op \in {"CREATE", "GETJID"} => Born(reqq[i].r.pid)'
             /\ reqq'[i].r.op \notin Moving
  <2>1. PICK k \in DOMAIN reqq : reqq'[i] = reqq[k]
    BY <1>2 DEF Fewer
  <2>2. /\ reqq[k].r.op \in {"CREATE", "GETJID"} => reqq[k].r.pid \in Pid /\ Born(reqq[k].r.pid)
        /\ reqq[k].r.op \notin Moving
    BY BaseItems DEF KnownProcs
  <2> HIDE DEF KnownProcs
  <2> QED
    BY <2>1, <2>2 DEF Born
<1>3. ASSUME NEW i \in DOMAIN fromCsa', fromCsa'[i].what = "NOTICE"
      PROVE  Dead(fromCsa[i].pid)'
  <2>1. PICK k \in DOMAIN fromCsa : fromCsa'[i] = fromCsa[k]
    BY <1>3 DEF Fewer
  <2>2. fromCsa[k].pid \in Pid /\ Dead(fromCsa[k].pid)
    BY <1>3, <2>1, BaseItems DEF KnownProcs
  <2> QED
    BY <2>1, <2>2 DEF Dead, Born, Alive
<1>4. ASSUME NEW i \in DOMAIN tsq' PROVE Dead(tsq[i].pid)'
  <2>1. PICK k \in DOMAIN tsq : tsq'[i] = tsq[k]
    BY <1>4 DEF Fewer
  <2>2. tsq[k].pid \in Pid /\ Dead(tsq[k].pid)
    BY BaseItems DEF KnownProcs
  <2> QED
    BY <2>1, <2>2 DEF Dead, Born, Alive
<1> QED
  BY <1>1, <1>2, <1>3, <1>4, Zenon DEF KnownProcs

LEMMA StillChosen ==
  ASSUME Chosen, nlq' = nlq,
         \/ sel' = "none"
         \/ /\ sel' = sel
            /\ sel = "csa" => Head(fromCsa') = Head(fromCsa)
            /\ sel = "unix" => Head(reqq') = Head(reqq)
  PROVE  Chosen'
BY DEF Chosen, NoEvent, Unborn

LEMMA NoEventChosen ==
  ASSUME nlq' = <<>> PROVE Chosen'
BY DEF Chosen, NoEvent, Unborn

LEMMA QuietKept ==
  ASSUME Base, MInv, StillMembers, UNCHANGED <<tsq, tsJob, cnOn, tsOn, csad>>,
         acct'.tab \subseteq acct.tab \/ tsq = <<>>,
         cnOn \/ UNCHANGED <<fromCsa, reqq, sel>>,
         Fewer(reqq, reqq'), Fewer(fromCsa, fromCsa'), Chosen'
  PROVE  MInv'
<1>1. HistoryTyped' /\ Ordered' /\ Followed' /\ OnceTold' /\ StillMember'
  BY StillKept, FewerNoticed
<1>2. KnownProcs'
  <2>1. /\ \A p \in Pid : Born(p) => Born(p)'
        /\ \A p \in Pid : Dead(p) => Dead(p)'
        /\ \A p \in Pid : JobIn(tbl', p) # NoJid => JobIn(tbl, p) # NoJid \/ Born(p)
    BY DEF StillMembers, SameMembers, Dead
  <2>2. Fewer(tsq, tsq')
    BY SameFewer
  <2> QED
    BY <2>1, <2>2, StillKnown DEF MInv
<1>3. Switched'
  <2>1. nlq' = nlq /\ \A p \in Pid : JobIn(tbl', p) = JobIn(tbl, p) /\ belongs'[p] = belongs[p]
    BY DEF StillMembers, SameMembers
  <2>2. Switched
    BY DEF MInv
  <2>3. (csad = "off" <=> ~tsOn)' /\ (~tsOn => tsq = <<>>)'
    BY <2>2 DEF Switched
  <2>4. ASSUME ~cnOn'
        PROVE  /\ csad' = "off" /\ fromCsa' = <<>> /\ reqq' = <<>> /\ nlq' = <<>> /\ sel' = "none"
               /\ \A p \in Pid : JobIn(tbl', p) = NoJid /\ belongs'[p] = NoJid
    BY <2>1, <2>2, <2>4 DEF Switched
  <2> QED
    BY <2>3, <2>4 DEF Switched
<1> QED
  BY <1>1, <1>2, <1>3 DEF MInv

LEMMA NothingMoves ==
  ASSUME Base, UNCHANGED <<pstate, nlq, belongs>>, tbl'.procTab = tbl.procTab, tbl'.proc = tbl.proc
  PROVE  StillMembers
BY SameTablesMembers DEF StillMembers, Alive, Born

LEMMA ReapKept ==
  ASSUME Base, MInv, Faithful, NEW p \in Pid, ReapStep(p), UNCHANGED <<hvars, acct, eop, tsJob, phase>>
  PROVE  MInv'
<1>1. /\ pstate[p] = "zombie" /\ pstate' = [pstate EXCEPT ![p] = "gone"]
      /\ UNCHANGED <<cnOn, nlq, tsOn, tsq, tbl, sel, reqq, fromCsa, csad, belongs, acct, tsJob>>
  BY DEF ReapStep, Reap, AfterReap, Faithful, hvars
<1>2. pstate \in [Pid -> {"free", "run", "zombie", "gone"}]
  BY BaseTypes
<1>3. \A q \in Pid : (Alive(q)' <=> Alive(q)) /\ (Born(q)' <=> Born(q))
  BY <1>1, <1>2 DEF Alive, Born
<1>4. StillMembers
  BY <1>1, <1>3 DEF StillMembers, SameMembers
<1>5. Chosen'
  BY <1>1, StillChosen DEF MInv
<1> QED
  BY <1>1, <1>4, <1>5, QuietKept, SameFewer

LEMMA SelectKept ==
  ASSUME Base, MInv, Select, UNCHANGED <<hvars, tsJob>>, WithCsad
  PROVE  MInv'
<1>1. /\ nlq = <<>> /\ cnOn /\ tbl' = Answered(tbl)
      /\ UNCHANGED <<pstate, cnOn, nlq, tsOn, tsq, reqq, fromCsa, csad, belongs>>
  BY DEF Select, kvars, hvars
<1>2. tbl'.procTab = tbl.procTab /\ tbl'.proc = tbl.proc
  BY <1>1, BaseTypes DEF Answered, Memory
<1>3. StillMembers
  BY <1>1, <1>2, NothingMoves
<1>4. acct' = acct
  BY <1>1 DEF WithCsad
<1>5. Chosen'
  BY <1>1, NoEventChosen
<1> QED
  BY <1>1, <1>3, <1>4, <1>5, QuietKept, SameFewer

LEMMA AcceptFewer ==
  ASSUME Inv, AcceptCsa
  PROVE  Fewer(fromCsa, fromCsa')
<1> DEFINE First(i) == fromCsa[i] = CONNECT /\ \A h \in 1 .. (i - 1) : fromCsa[h] # CONNECT
           k == CHOOSE i \in DOMAIN fromCsa : First(i)
           rest == SubSeq(fromCsa, k + 1, Len(fromCsa))
<1>1. fromCsa \in Seq(CsaItem) /\ SelReady
  BY DEF Inv, TypeOK
<1>2. \E i \in DOMAIN fromCsa : First(i)
  <2> DEFINE T == {i \in DOMAIN fromCsa : fromCsa[i] = CONNECT}
  <2>1. T # {}
    BY <1>1 DEF SelReady, AcceptCsa, ToSet
  <2>2. T \in SUBSET Nat
    BY <1>1
  <2>3. PICK i \in T : \A h \in T : i <= h
    <3> HIDE DEF T
    <3> QED
      BY <2>1, <2>2, MinExists
  <2>4. ASSUME NEW h \in 1 .. (i - 1) PROVE fromCsa[h] # CONNECT
    <3>1. h \in DOMAIN fromCsa /\ ~ (i <= h)
      BY <1>1, <2>3
    <3> QED
      BY <2>3, <3>1
  <2> QED
    BY <2>3, <2>4
<1>3. k \in DOMAIN fromCsa
  BY <1>2
<1>4. fromCsa' = rest
  BY DEF AcceptCsa
<1> HIDE DEF k
<1>5. ASSUME NEW i \in DOMAIN rest
      PROVE  k + i \in DOMAIN fromCsa /\ rest[i] = fromCsa[k + i]
  BY <1>1, <1>3, <1>5
<1> HIDE DEF rest
<1> QED
  BY <1>4, <1>5 DEF Fewer

LEMMA AcceptCsaKept ==
  ASSUME Base, MInv, AcceptCsa, UNCHANGED <<hvars, tsJob>>, WithCsad
  PROVE  MInv'
<1>1. /\ cnOn /\ sel' = "none"
      /\ UNCHANGED <<pstate, cnOn, nlq, tsOn, tsq, reqq, csad, belongs>>
  BY DEF AcceptCsa, kvars, hvars
<1>2. tbl'.procTab = tbl.procTab /\ tbl'.proc = tbl.proc
  BY BaseTypes DEF AcceptCsa, Memory
<1>3. StillMembers
  BY <1>1, <1>2, NothingMoves
<1>4. acct' = acct
  BY <1>1 DEF WithCsad
<1>5. Chosen'
  BY <1>1, StillChosen DEF MInv
<1> QED
  BY <1>1, <1>3, <1>4, <1>5, AcceptFewer, QuietKept, SameFewer DEF Base, FreshInv

(***************************************************************************)
(* csad at work, jobd aside                                                *)
(***************************************************************************)
LEMMA EopKept ==
  ASSUME Base, MInv, NEW small \in BOOLEAN, NEW brief \in BOOLEAN, Eop(small, brief)
  PROVE  MInv'
<1>1. UNCHANGED <<vars, belongs, tsJob>>
  BY DEF Eop, jobdSide, hvars
<1>2. UNCHANGED <<pstate, cnOn, nlq, tsOn, tsq, tbl, sel, reqq, fromCsa, csad, belongs, tsJob>>
  BY <1>1 DEF vars, kvars
<1>3. acct'.tab = acct.tab
  BY EopFrames DEF Base
<1>4. StillMembers
  BY <1>2, NothingMoves
<1>5. Chosen'
  BY <1>2, StillChosen DEF MInv
<1> QED
  BY <1>2, <1>3, <1>4, <1>5, QuietKept, SameFewer

LEMMA ControlKept ==
  ASSUME Base, MInv, NEW r \in CtlCalls, Control(r)
  PROVE  MInv'
<1>1. UNCHANGED <<vars, belongs, tsJob>>
  BY DEF Control, jobdSide, hvars
<1>2. UNCHANGED <<pstate, cnOn, nlq, tsOn, tsq, tbl, sel, reqq, fromCsa, csad, belongs, tsJob>>
  BY <1>1 DEF vars, kvars
<1>3. acct'.tab = acct.tab
  BY ControlFrames DEF Base
<1>4. StillMembers
  BY <1>2, NothingMoves
<1>5. Chosen'
  BY <1>2, StillChosen DEF MInv
<1> QED
  BY <1>2, <1>3, <1>4, <1>5, QuietKept, SameFewer

LEMMA ReadEventMembers ==
  ASSUME Base, MInv, ReadEvent
  PROVE  MInv'
<1>1. /\ tsq = <<>> /\ csad = "connected" /\ tbl' = [tbl EXCEPT !.toCsa = Tail(@)]
      /\ UNCHANGED <<pstate, cnOn, nlq, tsOn, tsq, sel, reqq, fromCsa, csad, belongs, tsJob>>
  BY DEF ReadEvent, CsadRead, kvars, hvars
<1>2. tbl'.procTab = tbl.procTab /\ tbl'.proc = tbl.proc
  BY <1>1, BaseTypes DEF Memory
<1>3. StillMembers
  BY <1>1, <1>2, NothingMoves
<1>5. Chosen'
  BY <1>1, StillChosen DEF MInv
<1> QED
  BY <1>1, <1>3, <1>5, QuietKept, SameFewer

LEMMA BeginKept ==
  ASSUME Base, MInv, Begin
  PROVE  MInv'
<1>1. /\ csad = "off" /\ cnOn /\ csad' = "listening" /\ tsOn' = TRUE
      /\ UNCHANGED <<pstate, cnOn, nlq, tsq, tbl, sel, reqq, fromCsa, belongs, tsJob>>
  BY DEF Begin, CsadStart, hvars
<1>2. StillMembers
  BY <1>1, NothingMoves
<1>3. tsq = <<>>
  BY <1>1 DEF MInv, Switched
<1>4. HistoryTyped' /\ Ordered' /\ Followed' /\ OnceTold' /\ StillMember'
  BY <1>1, <1>2, <1>3, StillKept, FewerNoticed, SameFewer
<1>5. KnownProcs'
  BY <1>1 DEF MInv, KnownProcs, Born, Dead, Alive
<1>6. Chosen'
  BY <1>1, StillChosen DEF MInv
<1>7. Switched'
  BY <1>1, <1>3 DEF MInv, Switched
<1> QED
  BY <1>4, <1>5, <1>6, <1>7 DEF MInv

LEMMA AppendHead ==
  ASSUME NEW S, NEW s \in Seq(S), NEW x \in S, s # <<>>
  PROVE  Head(Append(s, x)) = Head(s)
OBVIOUS

LEMMA ConnectKept ==
  ASSUME Base, MInv, Connect
  PROVE  MInv'
<1>1. /\ csad = "listening" /\ cnOn /\ csad' = "connected" /\ fromCsa' = Append(fromCsa, CONNECT)
      /\ UNCHANGED <<pstate, cnOn, nlq, tsOn, tsq, tbl, sel, reqq, belongs, acct, tsJob>>
  BY DEF Connect, CsadConnect, kvars, hvars
<1>2. fromCsa \in Seq(CsaItem) /\ CONNECT \in CsaItem /\ SelReady /\ CONNECT.what # "NOTICE"
  BY BaseTypes DEF CsaItem, CONNECT
<1>3. \A i \in DOMAIN fromCsa' : fromCsa'[i].what = "NOTICE" => i \in DOMAIN fromCsa /\ fromCsa'[i] = fromCsa[i]
  BY <1>1, <1>2, SaysMore DEF Base
<1>4. \A p : Noticed(p)' => Noticed(p)
  BY <1>3 DEF Noticed
<1>5. StillMembers
  BY <1>1, NothingMoves
<1>6. HistoryTyped' /\ Ordered' /\ Followed' /\ OnceTold' /\ StillMember'
  BY <1>1, <1>4, <1>5, StillKept
<1>7. KnownProcs'
  BY <1>1, <1>3 DEF MInv, KnownProcs, Born, Dead, Alive
<1>8. Chosen'
  <2>1. sel = "csa" => Head(fromCsa') = Head(fromCsa)
    BY <1>1, <1>2, AppendHead DEF SelReady
  <2> QED
    BY <1>1, <2>1, StillChosen DEF MInv
<1>9. Switched'
  BY <1>1 DEF MInv, Switched
<1> QED
  BY <1>6, <1>7, <1>8, <1>9 DEF MInv

LEMMA AskKept ==
  ASSUME Base, MInv, Faithful, Ask
  PROVE  MInv'
<1>1. PICK call \in Calls : Submit(call[1], call[2])
  BY DEF Ask, SubmitStep
<1> DEFINE x == [c |-> call[1], r |-> call[2]]
           R == [c : Client, r : Request]
<1>2. call[1] \in Client /\ call[2] \in Request /\ call[2].op \notin Moving
  BY JobdAssumption DEF Faithful
<1>3. /\ cnOn /\ reqq' = Append(reqq, x)
      /\ call[2].op \in {"CREATE", "GETJID"} => pstate[call[2].pid] = "run"
      /\ UNCHANGED <<pstate, cnOn, nlq, tsOn, tsq, tbl, sel, fromCsa, csad, belongs, acct, tsJob>>
  BY <1>1 DEF Ask, Submit, kvars, hvars
<1>4. x \in R /\ reqq \in Seq(R) /\ SelReady
  BY <1>2, BaseTypes
<1>5. x.r = call[2]
  OBVIOUS
<1> HIDE DEF x, R
<1>6. \A i \in DOMAIN reqq' : reqq'[i] = x \/ (i \in DOMAIN reqq /\ reqq'[i] = reqq[i])
  BY <1>3, <1>4, AppendPlaces
<1>7. sel = "unix" => Head(reqq') = Head(reqq)
  BY <1>3, <1>4, AppendHead DEF SelReady
<1>8. StillMembers
  BY <1>3, NothingMoves
<1>9. HistoryTyped' /\ Ordered' /\ Followed' /\ OnceTold' /\ StillMember'
  BY <1>3, <1>8, StillKept, FewerNoticed, SameFewer
<1>10. KnownProcs'
  <2>1. ASSUME NEW i \in DOMAIN reqq'
        PROVE  /\ reqq'[i].r.op \in {"CREATE", "GETJID"} => Born(reqq[i].r.pid)'
               /\ reqq'[i].r.op \notin Moving
    <3>1. CASE reqq'[i] = x
      BY <1>2, <1>3, <1>5, <3>1 DEF Born
    <3>2. CASE i \in DOMAIN reqq /\ reqq'[i] = reqq[i]
      BY <1>3, <3>2 DEF Born, MInv, KnownProcs
    <3> QED
      BY <1>6, <2>1, <3>1, <3>2
  <2> QED
    BY <1>3, <2>1 DEF MInv, KnownProcs, Born, Dead, Alive
<1>11. Chosen'
  BY <1>3, <1>7, StillChosen DEF MInv
<1>12. Switched'
  BY <1>3 DEF MInv, Switched
<1> QED
  BY <1>9, <1>10, <1>11, <1>12 DEF MInv

(***************************************************************************)
(* Processes fork and exit                                                 *)
(***************************************************************************)
(* A jobd that is not there, or has just begun, knows nobody.              *)
LEMMA OffKept ==
  ASSUME nlq' = <<>>, tsq' = <<>>, tsJob' = <<>>, fromCsa' = <<>>, reqq' = <<>>, sel' = "none",
         csad' = "off", tsOn' = FALSE, belongs' \in [Pid -> Jid \cup {NoJid}],
         \A p \in Pid : JobIn(tbl', p) = NoJid /\ belongs'[p] = NoJid
  PROVE  MInv'
<1>1. Switched'
  BY DEF Switched
<1>2. HistoryTyped'
  BY DEF HistoryTyped
<1>3. Ordered' /\ KnownProcs' /\ Chosen' /\ OnceTold' /\ StillMember'
  BY DEF Ordered, KnownProcs, Chosen, OnceTold, StillMember, Taken
<1>4. Followed'
  <2>1. PICK b \in [Pid -> Jid \cup {NoJid}] : b = [p \in Pid |-> NoJid]
    OBVIOUS
  <2>2. \A p \in Pid : b[p] = NoJid
    BY <2>1
  <2>3. Inherited(b)'
    BY <2>2 DEF Inherited
  <2>4. ChargedAs(b)'
    BY DEF ChargedAs
  <2> QED
    BY <2>3, <2>4 DEF Followed, Follows
<1> QED
  BY <1>1, <1>2, <1>3, <1>4 DEF MInv

LEMMA OffIs ==
  ASSUME MInv, ~cnOn
  PROVE  /\ nlq = <<>> /\ tsq = <<>> /\ tsJob = <<>> /\ fromCsa = <<>> /\ reqq = <<>> /\ sel = "none"
         /\ csad = "off" /\ tsOn = FALSE /\ belongs \in [Pid -> Jid \cup {NoJid}]
         /\ \A p \in Pid : JobIn(tbl, p) = NoJid /\ belongs[p] = NoJid
<1>1. Switched /\ HistoryTyped
  BY DEF MInv
<1>2. tsq = <<>> /\ ~tsOn
  BY <1>1 DEF Switched
<1>3. tsJob = <<>>
  BY <1>1, <1>2 DEF HistoryTyped
<1> QED
  BY <1>1, <1>2, <1>3 DEF Switched, HistoryTyped

(* Whom the next notice or request is about has been forked.               *)
LEMMA HeadsKnown ==
  ASSUME Base, KnownProcs
  PROVE  /\ sel = "csa" /\ Head(fromCsa).what = "NOTICE" =>
              Head(fromCsa).pid \in Pid /\ Dead(Head(fromCsa).pid)
         /\ sel = "unix" /\ Head(reqq).r.op \in {"CREATE", "GETJID"} =>
              Head(reqq).r.pid \in Pid /\ Born(Head(reqq).r.pid)
<1>1. /\ fromCsa \in Seq(CsaItem) /\ reqq \in Seq([c : Client, r : Request]) /\ SelReady
  BY BaseTypes
<1>2. sel = "csa" => 1 \in DOMAIN fromCsa /\ Head(fromCsa) = fromCsa[1]
  BY <1>1 DEF SelReady
<1>3. sel = "unix" => 1 \in DOMAIN reqq /\ Head(reqq) = reqq[1]
  BY <1>1 DEF SelReady
<1> QED
  BY <1>2, <1>3, BaseItems DEF KnownProcs

LEMMA BreedKept ==
  ASSUME Base, MInv, Faithful, NEW p \in Pid, NEW c \in Pid, Breed(p, c)
  PROVE  MInv'
<1>1. /\ ~InCreate(p) /\ Alive(p) /\ ~Born(c) /\ pstate' = [pstate EXCEPT ![c] = "run"]
      /\ ~cnOn \/ Len(nlq) < EvCap
      /\ nlq' = Deliver(cnOn, nlq, ForkEvent(p, c))
      /\ belongs' = [belongs EXCEPT ![c] = belongs[p]]
      /\ UNCHANGED <<cnOn, tsOn, tsq, tbl, sel, reqq, fromCsa, csad, acct, tsJob>>
  BY DEF Breed, ForkStep, Fork, Inherit, Alive, Born, HasRoom, Faithful
<1>2. /\ Switched /\ HistoryTyped /\ Ordered /\ KnownProcs /\ Chosen /\ Followed
      /\ OnceTold /\ StillMember
  BY DEF MInv
<1>3. CASE ~cnOn
  <2>1. nlq' = nlq
    BY <1>1, <1>3 DEF Deliver
  <2>2. belongs' \in [Pid -> Jid \cup {NoJid}] /\ \A q \in Pid : belongs'[q] = NoJid
    BY <1>1, <1>3, OffIs
  <2>3. \A q \in Pid : JobIn(tbl', q) = NoJid
    BY <1>1, <1>3, OffIs
  <2> QED
    BY <1>1, <1>3, <2>1, <2>2, <2>3, OffIs, OffKept
<1>4. CASE cnOn
  <2> DEFINE e == ForkEvent(p, c)
             n == Len(nlq) + 1
  <2>1. /\ nlq \in Seq(Event) /\ pstate \in [Pid -> {"free", "run", "zombie", "gone"}]
        /\ tbl' = tbl /\ SameMembers(tbl, tbl')
    BY <1>1, BaseTypes DEF SameMembers
  <2>2. e \in Event /\ e.what = "FORK" /\ e.pid = c /\ e.parent = p
    <3>1. p # c /\ 0 \in Status
      BY <1>1, ParamsAssumption DEF Alive, Born
    <3> QED
      BY <3>1 DEF ForkEvent, Event
  <2>3. Extends(nlq, nlq', e, n)
    <3>1. nlq' = Append(nlq, e)
      BY <1>1, <1>4 DEF Deliver
    <3> HIDE DEF e
    <3> QED
      BY <2>1, <2>2, <3>1, AppendExtends
  <2>4. /\ \A q \in Pid : Born(q) => Born(q)'
        /\ \A q \in Pid : Dead(q) => Dead(q)'
    BY <1>1, <2>1 DEF Alive, Born, Dead
  <2>5. Ordered'
    BY <1>1, <1>2, <2>1, <2>3, ForkOrdered
  <2>6. /\ \A q : Unborn(q)' <=> Unborn(q) \/ q = c
        /\ \A q : NoEvent(q)' <=> NoEvent(q) /\ c # q /\ p # q
    <3> HIDE DEF e, n
    <3> QED
      BY <2>2, <2>3, UnreadGrows
  <2>7. KnownProcs'
    <3>1. /\ Fewer(reqq, reqq') /\ Fewer(fromCsa, fromCsa') /\ Fewer(tsq, tsq')
      BY <1>1, SameFewer
    <3>2. \A q \in Pid : JobIn(tbl', q) # NoJid => JobIn(tbl, q) # NoJid \/ Born(q)
      BY <2>1
    <3> QED
      BY <1>2, <2>4, <3>1, <3>2, StillKnown
  <2>8. Followed'
    <3>1. PICK b \in [Pid -> Jid \cup {NoJid}] : Follows(b)
      BY <1>2 DEF Followed
    <3>2. PICK d \in [Pid -> Jid \cup {NoJid}] : d = [b EXCEPT ![c] = b[p]]
      BY <3>1
    <3>3. Inherited(d)'
      <4>1. belongs \in [Pid -> Jid \cup {NoJid}] /\ Inherited(b)
        BY <1>2, <3>1 DEF HistoryTyped, Follows
      <4> HIDE DEF e, n
      <4> QED
        BY <1>1, <1>2, <2>1, <2>3, <3>2, <4>1, ForkInherited DEF e
    <3>4. ChargedAs(d)'
      <4>1. ASSUME NEW i \in DOMAIN tsq PROVE tsJob[i] = d[tsq[i].pid]
        <5>1. tsq[i].pid \in Pid /\ tsq[i].pid # c
          BY <1>1, <1>2, BaseItems DEF KnownProcs, Dead
        <5>2. tsJob[i] = b[tsq[i].pid]
          BY <3>1 DEF Follows, ChargedAs
        <5> QED
          BY <3>2, <5>1, <5>2
      <4> QED
        BY <1>1, <4>1 DEF ChargedAs
    <3> QED
      BY <3>3, <3>4 DEF Followed, Follows
  <2>9. Chosen'
    <3>1. ASSUME sel = "csa", Head(fromCsa).what = "NOTICE" PROVE NoEvent(Head(fromCsa).pid)'
      <4>1. Head(fromCsa).pid # p /\ Head(fromCsa).pid # c /\ NoEvent(Head(fromCsa).pid)
        BY <1>1, <1>2, <3>1, HeadsKnown DEF Dead, Chosen
      <4>2. Head(fromCsa') = Head(fromCsa)
        BY <1>1
      <4> QED
        BY <2>6, <4>1, <4>2
    <3>2. ASSUME sel = "unix", Head(reqq).r.op \in {"CREATE", "GETJID"}
          PROVE  ~Unborn(Head(reqq).r.pid)'
      <4>1. Head(reqq).r.pid # c /\ ~Unborn(Head(reqq).r.pid)
        BY <1>1, <1>2, <3>2, HeadsKnown DEF Chosen
      <4>2. Head(reqq') = Head(reqq)
        BY <1>1
      <4> QED
        BY <2>6, <4>1, <4>2
    <3>3. ASSUME sel = "unix", Head(reqq).r.op = "CREATE", NEW i \in DOMAIN nlq', nlq'[i].what = "FORK"
          PROVE  nlq'[i].parent # Head(reqq).r.pid
      <4>1. 1 \in DOMAIN reqq /\ Head(reqq) = reqq[1]
        <5>1. reqq \in Seq([c : Client, r : Request]) /\ reqq # <<>>
          BY <3>3, BaseTypes DEF SelReady
        <5> QED
          BY <5>1
      <4>2. Head(reqq).r.pid # p
        BY <1>1, <3>3, <4>1 DEF InCreate
      <4>3. nlq'[i] = e \/ (i \in DOMAIN nlq /\ nlq'[i] = nlq[i])
        BY <2>3 DEF Extends
      <4> QED
        BY <1>2, <2>2, <3>3, <4>2, <4>3 DEF Chosen
    <3> QED
      BY <1>1, <3>1, <3>2, <3>3 DEF Chosen
  <2>10. StillMember'
    BY <1>1, <1>2, <2>6 DEF StillMember
  <2>11. Switched' /\ HistoryTyped'
    BY <1>1, <1>2, <1>4 DEF Switched, HistoryTyped
  <2>12. OnceTold'
    BY <1>1, <1>2 DEF OnceTold, Taken, Noticed
  <2> QED
    BY <2>5, <2>7, <2>8, <2>9, <2>10, <2>11, <2>12 DEF MInv
<1> QED
  BY <1>3, <1>4

(* A process exits: csad has to report it, if it runs.                     *)
LEMMA DieKept ==
  ASSUME Base, MInv, Faithful, NEW p \in Pid, NEW s \in Status, Die(p, s)
  PROVE  MInv'
<1>1. /\ Alive(p) /\ \E z \in {"zombie", "gone"} : pstate' = [pstate EXCEPT ![p] = z]
      /\ ~cnOn \/ Len(nlq) < EvCap
      /\ ~tsOn \/ Len(tsq) < EvCap
      /\ nlq' = Deliver(cnOn, nlq, ExitEvent(p, s))
      /\ tsq' = Deliver(tsOn, tsq, [pid |-> p, status |-> s])
      /\ belongs' = [belongs EXCEPT ![p] = NoJid]
      /\ tsJob' = IF tsq' = tsq THEN tsJob ELSE Append(tsJob, belongs[p])
      /\ UNCHANGED <<cnOn, tsOn, tbl, sel, reqq, fromCsa, csad, acct>>
  BY DEF Die, ExitStep, Exit, Leave, Alive, HasRoom, Faithful, AfterReap
<1>2. /\ Switched /\ HistoryTyped /\ Ordered /\ KnownProcs /\ Chosen /\ Followed
      /\ OnceTold /\ StillMember
  BY DEF MInv
<1>3. CASE ~cnOn
  <2>1. nlq' = nlq /\ tsq' = tsq
    BY <1>1, <1>3, OffIs DEF Deliver
  <2>2. belongs' \in [Pid -> Jid \cup {NoJid}] /\ \A q \in Pid : belongs'[q] = NoJid
    BY <1>1, <1>3, OffIs
  <2>3. \A q \in Pid : JobIn(tbl', q) = NoJid
    BY <1>1, <1>3, OffIs
  <2> QED
    BY <1>1, <1>3, <2>1, <2>2, <2>3, OffIs, OffKept
<1>4. CASE cnOn
  <2> DEFINE e == ExitEvent(p, s)
             n == Len(nlq) + 1
             x == [pid |-> p, status |-> s]
  <2>1. /\ nlq \in Seq(Event) /\ pstate \in [Pid -> {"free", "run", "zombie", "gone"}]
        /\ tsq \in Seq(TaskRec) /\ tbl' = tbl /\ SameMembers(tbl, tbl')
        /\ tsJob \in Seq(Jid \cup {NoJid}) /\ Len(tsJob) = Len(tsq)
        /\ belongs \in [Pid -> Jid \cup {NoJid}]
    BY <1>1, <1>2, BaseTypes DEF SameMembers, HistoryTyped
  <2>2. /\ e \in Event /\ e.what = "EXIT" /\ e.pid = p /\ e.parent = p
        /\ x \in TaskRec /\ x.pid = p
    BY DEF ExitEvent, Event, TaskRec
  <2>3. Extends(nlq, nlq', e, n)
    <3>1. nlq' = Append(nlq, e)
      BY <1>1, <1>4 DEF Deliver
    <3> HIDE DEF e
    <3> QED
      BY <2>1, <2>2, <3>1, AppendExtends
  <2>4. \A q \in Pid : (Alive(q)' <=> Alive(q) /\ q # p) /\ (Born(q)' <=> Born(q))
    BY <1>1, <2>1 DEF Alive, Born
  <2>5. Ordered'
    BY <1>1, <1>2, <2>1, <2>3, <2>4, ExitOrdered
  <2>6. /\ \A q : Unborn(q)' <=> Unborn(q)
        /\ \A q : NoEvent(q)' <=> NoEvent(q) /\ p # q
    <3> HIDE DEF e, n
    <3> QED
      BY <2>2, <2>3, UnreadGrows
  (* What csad has to report grows by the exit, or it does not run. *)
  <2>7. \/ ~tsOn /\ tsq' = tsq /\ tsJob' = tsJob
        \/ /\ Extends(tsq, tsq', x, Len(tsq) + 1) /\ Extends(tsJob, tsJob', belongs[p], Len(tsq) + 1)
           /\ tsJob' \in Seq(Jid \cup {NoJid}) /\ Len(tsJob') = Len(tsq')
    <3>1. CASE ~tsOn
      BY <1>1, <3>1 DEF Deliver
    <3>2. CASE tsOn
      <4>1. tsq' = Append(tsq, x)
        BY <1>1, <3>2 DEF Deliver
      <4> HIDE DEF x
      <4>2. Len(tsq') = Len(tsq) + 1 /\ Len(tsq) \in Nat
        BY <2>1, <2>2, <4>1
      <4>3. tsJob' = Append(tsJob, belongs[p]) /\ belongs[p] \in Jid \cup {NoJid}
        BY <1>1, <2>1, <4>2
      <4>4. tsJob' \in Seq(Jid \cup {NoJid}) /\ Len(tsJob') = Len(tsJob) + 1
        BY <2>1, <4>3
      <4>5. Extends(tsJob, tsJob', belongs[p], Len(tsJob) + 1)
        BY <2>1, <4>3, AppendExtends
      <4>6. Extends(tsq, tsq', x, Len(tsq) + 1)
        BY <2>1, <2>2, <4>1, AppendExtends
      <4> QED
        BY <2>1, <4>2, <4>4, <4>5, <4>6
    <3> QED
      BY <3>1, <3>2
  <2> HIDE DEF e, n, x
  <2>8. /\ \A i \in DOMAIN tsq' :
             \/ i \in DOMAIN tsq /\ tsq'[i] = tsq[i] /\ tsJob'[i] = tsJob[i]
             \/ tsOn /\ i \notin DOMAIN tsq /\ tsq'[i] = x /\ tsJob'[i] = belongs[p]
        /\ \A h, i \in DOMAIN tsq' : h \notin DOMAIN tsq /\ i \notin DOMAIN tsq => h = i
    <3>1. CASE ~tsOn /\ tsq' = tsq /\ tsJob' = tsJob
      BY <3>1
    <3>2. CASE Extends(tsq, tsq', x, Len(tsq) + 1) /\ Extends(tsJob, tsJob', belongs[p], Len(tsq) + 1)
      <4>1. DOMAIN tsJob = DOMAIN tsq
        BY <2>1
      <4>2. tsOn
        <5>1. ~tsOn => tsq' = tsq
          BY <1>1 DEF Deliver
        <5> QED
          BY <3>2, <5>1 DEF Extends
      <4> QED
        BY <3>2, <4>1, <4>2 DEF Extends
    <3> QED
      BY <2>7, <3>1, <3>2
  <2>9. KnownProcs'
    <3>1. ASSUME NEW i \in DOMAIN tsq' PROVE Dead(tsq[i].pid)'
      <4>1. CASE i \in DOMAIN tsq /\ tsq'[i] = tsq[i]
        BY <1>2, <2>4, <4>1, BaseItems DEF KnownProcs, Dead
      <4>2. CASE tsq'[i] = x
        BY <1>1, <2>2, <2>4, <4>2 DEF Dead, Alive, Born
      <4> QED
        BY <2>8, <4>1, <4>2
    <3>2. \A i \in DOMAIN fromCsa' : fromCsa'[i].what = "NOTICE" => Dead(fromCsa[i].pid)'
      BY <1>1, <1>2, <2>4, BaseItems DEF KnownProcs, Dead
    <3>3. \A i \in DOMAIN reqq' :
            /\ reqq'[i].r.op \in {"CREATE", "GETJID"} => Born(reqq[i].r.pid)'
            /\ reqq'[i].r.op \notin Moving
      BY <1>1, <1>2, <2>4, BaseItems DEF KnownProcs
    <3>4. \A q \in Pid : JobIn(tbl', q) # NoJid => Born(q)'
      BY <1>2, <2>1, <2>4 DEF KnownProcs
    <3> QED
      BY <3>1, <3>2, <3>3, <3>4 DEF KnownProcs
  <2>10. PICK b \in [Pid -> Jid \cup {NoJid}] : Follows(b)
    BY <1>2 DEF Followed
  <2>11. b[p] = belongs[p]
    BY <1>1, <2>10 DEF Follows, Inherited
  <2>12. Followed'
    <3>1. Inherited(b)'
      <4>1. Inherited(b) /\ \A q \in Pid \ {p} : belongs'[q] = belongs[q]
        BY <1>1, <2>1, <2>10 DEF Follows
      <4>2. \A q \in Pid : Alive(q)' <=> Alive(q) /\ q # p
        BY <2>4
      <4> QED
        BY <1>1, <2>1, <2>3, <4>1, <4>2, ExitInherited DEF e
    <3>2. ASSUME NEW i \in DOMAIN tsq' PROVE tsJob'[i] = b[tsq'[i].pid]
      <4>1. \A k \in DOMAIN tsq : tsJob[k] = b[tsq[k].pid]
        BY <2>10 DEF Follows, ChargedAs
      <4> QED
        BY <2>2, <2>8, <2>11, <4>1
    <3>3. ChargedAs(b)'
      BY <3>2 DEF ChargedAs
    <3> QED
      BY <2>10, <3>1, <3>3 DEF Followed, Follows
  <2>13. Chosen'
    <3>1. ASSUME sel = "csa", Head(fromCsa).what = "NOTICE" PROVE NoEvent(Head(fromCsa).pid)'
      <4>1. Head(fromCsa).pid # p /\ NoEvent(Head(fromCsa).pid)
        BY <1>1, <1>2, <3>1, HeadsKnown DEF Dead, Chosen
      <4>2. Head(fromCsa') = Head(fromCsa)
        BY <1>1
      <4> QED
        BY <2>6, <4>1, <4>2
    <3>2. ASSUME sel = "unix", Head(reqq).r.op \in {"CREATE", "GETJID"}
          PROVE  ~Unborn(Head(reqq).r.pid)'
      <4>1. Head(reqq') = Head(reqq)
        BY <1>1
      <4> QED
        BY <1>2, <2>6, <3>2, <4>1 DEF Chosen
    <3>3. ASSUME sel = "unix", Head(reqq).r.op = "CREATE", NEW i \in DOMAIN nlq', nlq'[i].what = "FORK"
          PROVE  nlq'[i].parent # Head(reqq).r.pid
      <4>1. nlq'[i] = e \/ (i \in DOMAIN nlq /\ nlq'[i] = nlq[i])
        BY <2>3 DEF Extends
      <4> QED
        BY <1>2, <2>2, <3>3, <4>1 DEF Chosen
    <3> QED
      BY <1>1, <3>1, <3>2, <3>3 DEF Chosen
  <2>14. ~Taken(p) /\ ~Noticed(p)
    BY <1>1, <1>2 DEF KnownProcs, Taken, Noticed, Dead
  <2>15. OnceTold'
    <3>1. ASSUME NEW h \in DOMAIN tsq', NEW i \in DOMAIN tsq', tsq'[h].pid = tsq'[i].pid
          PROVE  h = i
      BY <1>2, <2>2, <2>8, <2>14, <3>1 DEF OnceTold, Taken
    <3>2. ASSUME NEW q \in Pid, Taken(q)' PROVE ~Noticed(q)'
      <4>1. Noticed(q)' <=> Noticed(q)
        BY <1>1 DEF Noticed
      <4>2. Taken(q) \/ q = p
        BY <2>2, <2>8, <3>2 DEF Taken
      <4> QED
        BY <1>2, <2>14, <4>1, <4>2 DEF OnceTold
    <3> QED
      BY <3>1, <3>2 DEF OnceTold
  <2>16. StillMember'
    <3>1. ASSUME NEW i \in DOMAIN tsq', tsJob'[i] \in acct.tab
          PROVE  JobIn(tbl, tsq'[i].pid) # NoJid \/ Unborn(tsq'[i].pid)
      <4>1. CASE i \in DOMAIN tsq /\ tsq'[i] = tsq[i] /\ tsJob'[i] = tsJob[i]
        BY <1>2, <3>1, <4>1 DEF StillMember
      <4>2. CASE tsq'[i] = x /\ tsJob'[i] = belongs[p]
        <5>1. acct.tab \subseteq Jid
          BY DEF Base, KInv, CInv, AcctOk, AcctMemory
        <5>2. b[p] # NoJid
          BY <2>11, <3>1, <4>2, <5>1, NoJidIsNoJob
        <5>3. Unborn(p) \/ JobIn(tbl, p) = b[p]
          BY <1>1, <2>10 DEF Follows, Inherited
        <5> QED
          BY <2>2, <4>2, <5>2, <5>3
      <4> QED
        BY <2>8, <4>1, <4>2
    <3> QED
      BY <1>1, <2>6, <3>1 DEF StillMember
  <2>17. Switched' /\ HistoryTyped'
    <3>1. HistoryTyped'
      BY <1>1, <2>1, <2>7 DEF HistoryTyped
    <3>2. Switched'
      <4>1. ~tsOn => tsq' = tsq
        BY <1>1 DEF Deliver
      <4> QED
        BY <1>1, <1>2, <1>4, <4>1 DEF Switched
    <3> QED
      BY <3>1, <3>2
  <2> QED
    BY <2>5, <2>9, <2>12, <2>13, <2>15, <2>16, <2>17 DEF MInv
<1> QED
  BY <1>3, <1>4

(***************************************************************************)
(* csad reports an exit, and ends                                          *)
(***************************************************************************)
LEMMA ReportMembers ==
  ASSUME Base, MInv, Report
  PROVE  MInv'
<1> DEFINE p == Head(tsq).pid
           note == Notice(p, Head(tsq).status)
<1>1. /\ csad = "connected" /\ tsq # <<>>
      /\ fromCsa' = Append(fromCsa, note) /\ tsq' = Tail(tsq) /\ tsJob' = Tail(tsJob)
      /\ acct' = Quiet(acct)
      /\ UNCHANGED <<pstate, cnOn, nlq, tsOn, tbl, sel, reqq, csad, belongs>>
  BY DEF Report, CsadReport, hvars
<1>2. /\ Switched /\ HistoryTyped /\ Ordered /\ KnownProcs /\ Chosen /\ Followed
      /\ OnceTold /\ StillMember
  BY DEF MInv
<1>3. /\ tsq \in Seq(TaskRec) /\ fromCsa \in Seq(CsaItem) /\ SelReady
      /\ tsJob \in Seq(Jid \cup {NoJid}) /\ Len(tsJob) = Len(tsq)
  BY <1>2, BaseTypes DEF HistoryTyped
<1>4. StillMembers
  BY <1>1, NothingMoves
<1>5. Shifts(tsq, tsq') /\ Shifts(tsJob, tsJob')
  <2>1. tsJob # <<>>
    BY <1>1, <1>3
  <2> QED
    BY <1>1, <1>3, <2>1, TailShifts
<1>6. 1 \in DOMAIN tsq /\ Head(tsq) = tsq[1]
  BY <1>5 DEF Shifts
<1>7. p \in Pid /\ Dead(p) /\ Taken(p)
  BY <1>2, <1>6, BaseItems DEF KnownProcs, Taken
<1>8. note \in CsaItem /\ note.what = "NOTICE" /\ note.pid = p
  <2>1. Head(tsq).status \in Status
    BY <1>6, BaseItems
  <2> QED
    BY <1>7, <2>1 DEF Notice, CsaItem
<1> HIDE DEF p, note
<1>9. \A i \in DOMAIN tsq' : i + 1 \in DOMAIN tsq /\ i + 1 # 1 /\ tsq'[i] = tsq[i + 1] /\ tsJob'[i] = tsJob[i + 1]
  <2>1. DOMAIN tsq' = DOMAIN tsJob'
    <3>1. tsq' \in Seq(TaskRec) /\ tsJob' \in Seq(Jid \cup {NoJid}) /\ Len(tsJob') = Len(tsq')
      <4>1. tsJob # <<>>
        BY <1>1, <1>3
      <4> QED
        BY <1>1, <1>3, <4>1
    <3> QED
      BY <3>1
  <2> QED
    BY <1>5, <2>1 DEF Shifts
<1>10. \A i \in DOMAIN fromCsa' : fromCsa'[i] = note \/ (i \in DOMAIN fromCsa /\ fromCsa'[i] = fromCsa[i])
  BY <1>1, <1>8, SaysMore DEF Base
<1>11. HistoryTyped'
  <2>1. tsJob # <<>>
    BY <1>1, <1>3
  <2> QED
    BY <1>1, <1>2, <1>3, <2>1 DEF HistoryTyped
<1>12. Ordered'
  BY <1>2, <1>4, StillOrdered
<1>13. Followed'
  <2>1. PICK b \in [Pid -> Jid \cup {NoJid}] : Follows(b)
    BY <1>2 DEF Followed
  <2>2. Inherited(b)'
    BY <1>4, <2>1, StillInherited DEF Follows
  <2>3. ChargedAs(b)'
    BY <1>9, <2>1 DEF Follows, ChargedAs
  <2> QED
    BY <2>1, <2>2, <2>3 DEF Followed, Follows
<1>14. KnownProcs'
  <2>1. \A i \in DOMAIN tsq' : Dead(tsq[i].pid)'
    BY <1>1, <1>2, <1>9 DEF KnownProcs, Dead, Born, Alive
  <2>2. ASSUME NEW i \in DOMAIN fromCsa', fromCsa'[i].what = "NOTICE" PROVE Dead(fromCsa[i].pid)'
    <3>1. Dead(fromCsa'[i].pid)
      BY <1>2, <1>7, <1>8, <1>10, <2>2 DEF KnownProcs
    <3> QED
      BY <1>1, <3>1 DEF Dead, Born, Alive
  <2> QED
    BY <1>1, <1>2, <2>1, <2>2 DEF KnownProcs, Born
<1>15. Chosen'
  <2>1. sel = "csa" => Head(fromCsa') = Head(fromCsa)
    BY <1>1, <1>3, <1>8, AppendHead DEF SelReady
  <2> QED
    BY <1>1, <1>2, <2>1, StillChosen
<1>16. OnceTold'
  <2>1. ASSUME NEW h \in DOMAIN tsq', NEW i \in DOMAIN tsq', tsq'[h].pid = tsq'[i].pid
        PROVE  h = i
    <3>1. h + 1 = i + 1
      BY <1>2, <1>9, <2>1 DEF OnceTold
    <3>2. h \in Nat /\ i \in Nat
      BY <1>5 DEF Shifts
    <3> QED
      BY <3>1, <3>2
  <2>2. ASSUME NEW q \in Pid, Taken(q)' PROVE ~Noticed(q)'
    <3>1. PICK i \in DOMAIN tsq' : tsq'[i].pid = q
      BY <2>2 DEF Taken
    <3>2. i + 1 \in DOMAIN tsq /\ i + 1 # 1 /\ tsq[i + 1].pid = q
      BY <1>9, <3>1
    <3>3. Taken(q) /\ q # p
      BY <1>2, <1>6, <3>2 DEF OnceTold, Taken, p
    <3>4. ~Noticed(q)
      BY <1>2, <3>3 DEF OnceTold
    <3> QED
      BY <1>8, <1>10, <3>3, <3>4 DEF Noticed
  <2> QED
    BY <2>1, <2>2 DEF OnceTold
<1>17. StillMember'
  <2>1. acct'.tab = acct.tab
    BY <1>1, QuietMemory DEF Base, KInv, CInv, AcctOk
  <2>2. \A q : Unborn(q)' <=> Unborn(q)
    BY <1>1 DEF Unborn
  <2> QED
    BY <1>1, <1>2, <1>9, <2>1, <2>2 DEF StillMember
<1>18. Switched'
  BY <1>1, <1>2 DEF Switched
<1> QED
  BY <1>11, <1>12, <1>13, <1>14, <1>15, <1>16, <1>17, <1>18 DEF MInv

LEMMA EndKept ==
  ASSUME Base, MInv, End
  PROVE  MInv'
<1>1. /\ csad # "off" /\ csad' = "off" /\ tsOn' = FALSE /\ tsq' = <<>> /\ tsJob' = <<>>
      /\ fromCsa' = IF csad = "connected" THEN Append(fromCsa, EOF) ELSE fromCsa
      /\ tbl' = [tbl EXCEPT !.csaPeer = FALSE, !.toCsa = <<>>]
      /\ UNCHANGED <<pstate, cnOn, nlq, sel, reqq, belongs>>
  BY DEF End, CsadStop, hvars
<1>2. /\ Switched /\ HistoryTyped /\ Ordered /\ KnownProcs /\ Chosen /\ Followed
  BY DEF MInv
<1>3. tbl'.procTab = tbl.procTab /\ tbl'.proc = tbl.proc
  BY <1>1, BaseTypes DEF Memory
<1>4. StillMembers
  BY <1>1, <1>3, NothingMoves
<1>5. fromCsa \in Seq(CsaItem) /\ SelReady /\ EOF \in CsaItem /\ EOF.what # "NOTICE"
  BY BaseTypes DEF CsaItem, EOF
<1>6. \A i \in DOMAIN fromCsa' : fromCsa'[i].what = "NOTICE" => i \in DOMAIN fromCsa /\ fromCsa'[i] = fromCsa[i]
  <2>1. CASE csad = "connected"
    BY <1>1, <1>5, <2>1, SaysMore DEF Base
  <2>2. CASE csad # "connected"
    BY <1>1, <2>2
  <2> QED
    BY <2>1, <2>2
<1>7. HistoryTyped' /\ OnceTold' /\ StillMember'
  BY <1>1, <1>2 DEF HistoryTyped, OnceTold, Taken, StillMember
<1>8. Ordered'
  BY <1>2, <1>4, StillOrdered
<1>9. Followed'
  <2>1. PICK b \in [Pid -> Jid \cup {NoJid}] : Follows(b)
    BY <1>2 DEF Followed
  <2>2. Inherited(b)'
    BY <1>4, <2>1, StillInherited DEF Follows
  <2>3. ChargedAs(b)'
    BY <1>1 DEF ChargedAs
  <2> QED
    BY <2>1, <2>2, <2>3 DEF Followed, Follows
<1>10. KnownProcs'
  <2>1. \A q \in Pid : JobIn(tbl', q) = JobIn(tbl, q)
    BY <1>4 DEF StillMembers, SameMembers
  <2> QED
    BY <1>1, <1>2, <1>6, <2>1 DEF KnownProcs, Born, Dead, Alive
<1>11. Chosen'
  <2>1. sel = "csa" => Head(fromCsa') = Head(fromCsa)
    BY <1>1, <1>5, AppendHead DEF SelReady
  <2> QED
    BY <1>1, <1>2, <2>1, StillChosen
<1>12. Switched'
  BY <1>1, <1>2 DEF Switched
<1> QED
  BY <1>7, <1>8, <1>9, <1>10, <1>11, <1>12 DEF MInv

(***************************************************************************)
(* The steps of jobd                                                       *)
(***************************************************************************)
LEMMA DownKept ==
  ASSUME NEW t, NEW callers, Down(t, callers), belongs' = [p \in Pid |-> NoJid], tsJob' = <<>>
  PROVE  MInv'
<1>1. \A p \in Pid : JobIn(tbl', p) = NoJid
  BY DEF Down, InitMemory, JobIn
<1>2. belongs' \in [Pid -> Jid \cup {NoJid}] /\ \A p \in Pid : belongs'[p] = NoJid
  OBVIOUS
<1> QED
  BY <1>1, <1>2, OffKept DEF Down

LEMMA RestartsKept ==
  ASSUME Base, MInv, JobdRestarts
  PROVE  MInv'
<1>1. belongs' = [p \in Pid |-> NoJid] /\ tsJob' = <<>> /\ (Stop \/ Start)
  BY DEF JobdRestarts
<1>2. CASE Stop
  BY <1>1, <1>2, DownKept DEF Stop
<1>3. CASE Start
  <2>1. ~cnOn /\ UNCHANGED <<nlq, tsOn, tsq, tbl, sel, reqq, fromCsa, csad>>
    BY <1>3 DEF Start
  <2>2. belongs' \in [Pid -> Jid \cup {NoJid}] /\ \A p \in Pid : belongs'[p] = NoJid
    BY <1>1
  <2>3. \A p \in Pid : JobIn(tbl', p) = NoJid
    BY <2>1, OffIs
  <2> QED
    BY <1>1, <2>1, <2>2, <2>3, OffIs, OffKept
<1> QED
  BY <1>1, <1>2, <1>3

LEMMA AnsweredMembers ==
  ASSUME NEW t, Ok(t)
  PROVE  /\ Answered(t) \in Memory /\ TablesAgree(Answered(t)) /\ SameMembers(t, Answered(t))
         /\ Answered(t).procTab = t.procTab /\ Answered(t).csaActive = t.csaActive
<1>1. Ok(Answered(t))
  BY AnsweredOk
<1>2. /\ Answered(t).procTab = t.procTab /\ Answered(t).proc = t.proc
      /\ Answered(t).csaActive = t.csaActive
  BY DEF Ok, Answered, Memory
<1> QED
  BY <1>1, <1>2, SameTablesMembers DEF Ok

(* jobd reads a FORK event: the child is of its parent's job.              *)
LEMMA RecvForkKept ==
  ASSUME Base, MInv, RecvNl, UNCHANGED <<hvars, tsJob>>, acct' = acct, Head(nlq).what = "FORK"
  PROVE  MInv'
<1> DEFINE c == Head(nlq).pid
           p == Head(nlq).parent
           t == Answered(tbl)
<1>1. /\ cnOn /\ sel = "none" /\ nlq # <<>> /\ nlq' = Tail(nlq)
      /\ tbl' = ForkHandler(t, p, c)
      /\ UNCHANGED <<pstate, cnOn, tsOn, tsq, sel, reqq, fromCsa, csad, belongs>>
  BY DEF RecvNl, hvars
<1>2. /\ Switched /\ HistoryTyped /\ Ordered /\ KnownProcs /\ Followed /\ OnceTold /\ StillMember
  BY DEF MInv
<1>3. Ok(tbl) /\ nlq \in Seq(Event)
  BY BaseTypes DEF Ok
<1>4. Shifts(nlq, nlq')
  BY <1>1, <1>3, TailShifts
<1>5. 1 \in DOMAIN nlq /\ Head(nlq) = nlq[1]
  BY <1>4 DEF Shifts
<1>6. c \in Pid /\ p \in Pid /\ c # p
  BY <1>5, BaseItems
<1>7. ForkOrder(1)
  BY <1>2, <1>5 DEF Ordered
<1>8. Born(c) /\ JobIn(tbl, c) = NoJid /\ (Alive(c) \/ ExitAfter(1, c)) /\ (Alive(p) \/ ExitAfter(1, p))
  BY <1>5, <1>7 DEF ForkOrder
<1>9. t \in Memory /\ TablesAgree(t) /\ SameMembers(tbl, t) /\ c \notin t.procTab
  <2>1. c \notin tbl.procTab
    BY <1>3, <1>6, <1>8, MemberIs DEF Ok
  <2> QED
    BY <1>3, <2>1, AnsweredMembers
<1>10. Puts(tbl, tbl', c, JobIn(tbl, p))
  <2> HIDE DEF c, p, t
  <2>1. Puts(t, tbl', c, JobIn(t, p))
    BY <1>1, <1>6, <1>9, ForkHandlerMembers
  <2> QED
    BY <1>6, <1>9, <2>1 DEF Puts, SameMembers
<1>11. /\ \A q \in Pid : Alive(q)' <=> Alive(q)
       /\ \A q \in Pid : Born(q)' <=> Born(q)
       /\ \A q \in Pid : (Alive(q)' <=> Alive(q)) /\ (Born(q)' <=> Born(q))
  BY <1>1 DEF Alive, Born
<1>12. \A q \in Pid \ {c} : JobIn(tbl', q) = JobIn(tbl, q)
  BY <1>10 DEF Puts
<1>13. Ordered'
  <2>1. \A q \in Pid : JobIn(tbl', q) # NoJid =>
           JobIn(tbl, q) # NoJid \/ (Head(nlq).what = "FORK" /\ q = Head(nlq).pid)
    BY <1>12
  <2> QED
    BY <1>2, <1>4, <1>11, <2>1, ReadOrdered
<1>14. PICK b \in [Pid -> Jid \cup {NoJid}] : Follows(b)
  BY <1>2 DEF Followed
<1>15. Followed'
  <2>1. Inherited(b) /\ belongs' = belongs
    BY <1>1, <1>14 DEF Follows
  <2>2. Inherited(b)'
    BY <1>2, <1>4, <1>10, <1>11, <2>1, ReadForkInherited
  <2>3. ChargedAs(b)'
    BY <1>1, <1>14 DEF Follows, ChargedAs
  <2> QED
    BY <1>14, <2>2, <2>3 DEF Followed, Follows
<1>16. KnownProcs'
  <2>1. /\ Fewer(reqq, reqq') /\ Fewer(fromCsa, fromCsa') /\ Fewer(tsq, tsq')
    BY <1>1, SameFewer
  <2>2. /\ \A q \in Pid : Born(q) => Born(q)'
        /\ \A q \in Pid : Dead(q) => Dead(q)'
        /\ \A q \in Pid : JobIn(tbl', q) # NoJid => JobIn(tbl, q) # NoJid \/ Born(q)
    BY <1>8, <1>11, <1>12 DEF Dead
  <2> QED
    BY <1>2, <2>1, <2>2, StillKnown
<1>17. StillMember'
  <2>1. ASSUME NEW i \in DOMAIN tsq, tsJob[i] \in acct.tab, NEW q, q = tsq[i].pid
        PROVE  JobIn(tbl', q) # NoJid \/ Unborn(q)'
    <3>1. q \in Pid /\ tsJob[i] = b[q]
      BY <1>14, <2>1, BaseItems DEF Follows, ChargedAs
    <3>2. JobIn(tbl, q) # NoJid \/ Unborn(q)
      BY <1>2, <2>1 DEF StillMember
    <3>3. CASE q = c
      <4>1. ~Unborn(p)
        <5>1. ASSUME NEW i2 \in DOMAIN nlq, nlq[i2].what = "FORK" PROVE nlq[i2].pid # p
          <6>1. i2 = 1 \/ i2 > 1
            BY <1>4 DEF Shifts
          <6> QED
            BY <1>5, <1>6, <1>7, <5>1, <6>1 DEF ForkOrder
        <5> QED
          BY <5>1 DEF Unborn
      <4>2. Alive(p) \/ ExitUnread(p)
        BY <1>8 DEF ExitAfter, ExitUnread
      <4>3. JobIn(tbl, p) = b[p] /\ b[c] = b[p]
        BY <1>5, <1>6, <1>14, <4>1, <4>2 DEF Follows, Inherited
      <4>4. JobIn(tbl', c) = tsJob[i]
        BY <1>10, <3>1, <3>3, <4>3 DEF Puts
      <4>5. acct.tab \subseteq Jid
        BY DEF Base, KInv, CInv, AcctOk, AcctMemory
      <4> QED
        BY <2>1, <3>3, <4>4, <4>5, NoJidIsNoJob
    <3>4. CASE q # c
      <4>1. Unborn(q) => Unborn(q)'
        BY <1>4, <3>4, UnreadShrinks
      <4>2. JobIn(tbl', q) = JobIn(tbl, q)
        BY <1>12, <3>1, <3>4
      <4> QED
        BY <3>2, <4>1, <4>2
    <3> QED
      BY <3>3, <3>4
  <2>2. \A i \in DOMAIN tsq' : tsq'[i] = tsq[i] /\ tsJob'[i] = tsJob[i] /\ i \in DOMAIN tsq
    BY <1>1
  <2>3. acct'.tab = acct.tab
    OBVIOUS
  <2>4. \A q : Unborn(q)' <=> \E i \in DOMAIN nlq' : nlq'[i].what = "FORK" /\ nlq'[i].pid = q
    BY DEF Unborn
  <2> QED
    BY <2>1, <2>2, <2>3, <2>4 DEF StillMember, Unborn
<1>18. HistoryTyped' /\ Switched' /\ OnceTold' /\ Chosen'
  BY <1>1, <1>2 DEF HistoryTyped, Switched, OnceTold, Taken, Noticed, Chosen
<1> QED
  BY <1>13, <1>15, <1>16, <1>17, <1>18 DEF MInv

(* Without a connection csad knows no job whose exits it could report.     *)
LEMMA NoPeerStill ==
  ASSUME Base, Switched, ~tbl.csaActive
  PROVE  tsq = <<>> \/ acct.tab = {}
<1>1. ~tbl.csaPeer
  BY DEF Base, KInv, Conversation
<1>2. csad # "off" => acct.tab = {}
  BY <1>1 DEF Base, KInv, Conversation
<1> QED
  BY <1>2 DEF Switched

LEMMA RecvExitKept ==
  ASSUME Base, MInv, RecvNl, UNCHANGED <<hvars, tsJob>>, acct' = acct, Head(nlq).what = "EXIT"
  PROVE  MInv'
<1> DEFINE p == Head(nlq).pid
           t == Answered(tbl)
<1>1. /\ cnOn /\ sel = "none" /\ nlq # <<>> /\ nlq' = Tail(nlq)
      /\ tbl' = ExitEventHandler(t, p, Head(nlq).status)
      /\ UNCHANGED <<pstate, cnOn, tsOn, tsq, sel, reqq, fromCsa, csad, belongs>>
  BY DEF RecvNl, hvars
<1>2. /\ Switched /\ HistoryTyped /\ Ordered /\ KnownProcs /\ Followed /\ OnceTold /\ StillMember
  BY DEF MInv
<1>3. Ok(tbl) /\ nlq \in Seq(Event)
  BY BaseTypes DEF Ok
<1>4. Shifts(nlq, nlq')
  BY <1>1, <1>3, TailShifts
<1>5. 1 \in DOMAIN nlq /\ Head(nlq) = nlq[1]
  BY <1>4 DEF Shifts
<1>6. p \in Pid /\ Head(nlq).status \in Status
  BY <1>5, BaseItems
<1>7. t \in Memory /\ TablesAgree(t) /\ SameMembers(tbl, t) /\ t.csaActive = tbl.csaActive
  BY <1>3, AnsweredMembers
<1>8. IF tbl.csaActive THEN SameMembers(tbl, tbl') ELSE Puts(tbl, tbl', p, NoJid)
  <2> HIDE DEF p, t
  <2>1. IF t.csaActive THEN SameMembers(t, tbl') ELSE Puts(t, tbl', p, NoJid)
    BY <1>1, <1>6, <1>7, ExitEventMembers
  <2> QED
    BY <1>7, <2>1 DEF Puts, SameMembers
<1>9. /\ \A q \in Pid : Alive(q)' <=> Alive(q)
      /\ \A q \in Pid : Born(q)' <=> Born(q)
      /\ \A q \in Pid : (Alive(q)' <=> Alive(q)) /\ (Born(q)' <=> Born(q))
  BY <1>1 DEF Alive, Born
<1>10. \A q \in Pid : JobIn(tbl', q) # NoJid => JobIn(tbl, q) # NoJid
  <2> HIDE DEF p
  <2>1. CASE tbl.csaActive
    BY <1>8, <2>1 DEF SameMembers
  <2>2. CASE ~tbl.csaActive
    BY <1>8, <2>2 DEF Puts
  <2> QED
    BY <2>1, <2>2
<1>11. Ordered'
  BY <1>2, <1>4, <1>9, <1>10, ReadOrdered
<1>12. Followed'
  <2>1. PICK b \in [Pid -> Jid \cup {NoJid}] : Follows(b)
    BY <1>2 DEF Followed
  <2>2. Inherited(b) /\ belongs' = belongs /\ (SameMembers(tbl, tbl') \/ Puts(tbl, tbl', p, NoJid))
    BY <1>1, <1>8, <2>1 DEF Follows
  <2>3. Inherited(b)'
    BY <1>2, <1>4, <1>9, <2>2, ReadExitInherited
  <2>4. ChargedAs(b)'
    BY <1>1, <2>1 DEF Follows, ChargedAs
  <2> QED
    BY <2>1, <2>3, <2>4 DEF Followed, Follows
<1>13. KnownProcs'
  <2>1. /\ Fewer(reqq, reqq') /\ Fewer(fromCsa, fromCsa') /\ Fewer(tsq, tsq')
    BY <1>1, SameFewer
  <2>2. /\ \A q \in Pid : Born(q) => Born(q)'
        /\ \A q \in Pid : Dead(q) => Dead(q)'
    BY <1>9 DEF Dead
  <2> QED
    BY <1>2, <1>10, <2>1, <2>2, StillKnown
<1>14. StillMember'
  <2>1. CASE tbl.csaActive
    <3>1. ASSUME NEW i \in DOMAIN tsq, tsJob[i] \in acct.tab, NEW q, q = tsq[i].pid
          PROVE  JobIn(tbl', q) # NoJid \/ Unborn(q)'
      <4>1. q \in Pid /\ (JobIn(tbl, q) # NoJid \/ Unborn(q))
        BY <1>2, <3>1, BaseItems DEF StillMember
      <4>2. Unborn(q) => Unborn(q)'
        BY <1>4, UnreadShrinks
      <4>3. JobIn(tbl', q) = JobIn(tbl, q)
        BY <1>8, <2>1, <4>1 DEF SameMembers
      <4> QED
        BY <4>1, <4>2, <4>3
    <3>2. \A i \in DOMAIN tsq' : tsq'[i] = tsq[i] /\ tsJob'[i] = tsJob[i] /\ i \in DOMAIN tsq
      BY <1>1
    <3>3. acct'.tab = acct.tab
      OBVIOUS
    <3> QED
      BY <3>1, <3>2, <3>3 DEF StillMember, Unborn
  <2>2. CASE ~tbl.csaActive
    <3>1. tsq' = <<>> \/ acct'.tab = {}
      BY <1>1, <1>2, <2>2, NoPeerStill
    <3> QED
      BY <3>1 DEF StillMember
  <2> QED
    BY <2>1, <2>2
<1>15. HistoryTyped' /\ Switched' /\ OnceTold' /\ Chosen'
  BY <1>1, <1>2 DEF HistoryTyped, Switched, OnceTold, Taken, Noticed, Chosen
<1> QED
  BY <1>11, <1>12, <1>13, <1>14, <1>15 DEF MInv

(* csad's notice: jobd has read every event about the process.             *)
LEMMA RecvNoticeKept ==
  ASSUME Base, MInv, RecvCsa, UNCHANGED <<hvars, tsJob>>, acct' = acct, Head(fromCsa).what = "NOTICE"
  PROVE  MInv'
<1> DEFINE p == Head(fromCsa).pid
<1>1. /\ cnOn /\ sel = "csa" /\ sel' = "none" /\ fromCsa' = Tail(fromCsa)
      /\ tbl' = ExitHandler(tbl, p, Head(fromCsa).status)
      /\ UNCHANGED <<pstate, cnOn, nlq, tsOn, tsq, reqq, csad, belongs>>
  BY DEF RecvCsa, kvars, hvars
<1>2. /\ Switched /\ HistoryTyped /\ Ordered /\ KnownProcs /\ Chosen /\ Followed /\ OnceTold /\ StillMember
  BY DEF MInv
<1>3. tbl \in Memory /\ TablesAgree(tbl) /\ fromCsa \in Seq(CsaItem) /\ fromCsa # <<>>
  BY <1>1, BaseTypes DEF SelReady
<1>4. 1 \in DOMAIN fromCsa /\ Head(fromCsa) = fromCsa[1]
  BY <1>3
<1>5. p \in Pid /\ Head(fromCsa).status \in Status /\ Dead(p) /\ NoEvent(p) /\ Noticed(p)
  BY <1>1, <1>2, <1>4, BaseItems DEF KnownProcs, Chosen, Noticed
<1>6. Puts(tbl, tbl', p, NoJid)
  <2> HIDE DEF p
  <2> QED
    BY <1>1, <1>3, <1>5, ExitHandlerMembers
<1>7. /\ \A q \in Pid : Alive(q)' <=> Alive(q)
      /\ \A q \in Pid : Born(q)' <=> Born(q)
      /\ \A q \in Pid : (Alive(q)' <=> Alive(q)) /\ (Born(q)' <=> Born(q))
  BY <1>1 DEF Alive, Born
<1>8. \A q \in Pid : JobIn(tbl', q) # NoJid => JobIn(tbl, q) # NoJid
  BY <1>6 DEF Puts
<1>9. Fewer(fromCsa, fromCsa')
  BY <1>1, <1>3, TailFewer
<1>10. Ordered'
  BY <1>1, <1>2, <1>7, <1>8, MovedOrdered
<1>11. Followed'
  <2>1. PICK b \in [Pid -> Jid \cup {NoJid}] : Follows(b)
    BY <1>2 DEF Followed
  <2>2. Inherited(b) /\ belongs' = belongs /\ nlq' = nlq
    BY <1>1, <2>1 DEF Follows
  <2>3. Inherited(b)'
    <3> HIDE DEF p
    <3> QED
      BY <1>5, <1>6, <1>7, <2>2, NoticeInherited
  <2>4. ChargedAs(b)'
    BY <1>1, <2>1 DEF Follows, ChargedAs
  <2> QED
    BY <2>1, <2>3, <2>4 DEF Followed, Follows
<1>12. KnownProcs'
  <2>1. /\ Fewer(reqq, reqq') /\ Fewer(tsq, tsq')
    BY <1>1, SameFewer
  <2>2. /\ \A q \in Pid : Born(q) => Born(q)'
        /\ \A q \in Pid : Dead(q) => Dead(q)'
    BY <1>7 DEF Dead
  <2> QED
    BY <1>2, <1>8, <1>9, <2>1, <2>2, StillKnown
<1>13. StillMember'
  <2>1. ASSUME NEW i \in DOMAIN tsq, tsJob[i] \in acct.tab
        PROVE  JobIn(tbl', tsq[i].pid) # NoJid \/ Unborn(tsq[i].pid)
    <3>1. ~Taken(p)
      BY <1>2, <1>5 DEF OnceTold
    <3>2. tsq[i].pid \in Pid /\ tsq[i].pid # p
      BY <3>1, BaseItems DEF Taken
    <3> QED
      BY <1>2, <1>6, <2>1, <3>2 DEF StillMember, Puts
  <2>2. \A q : Unborn(q)' <=> Unborn(q)
    BY <1>1 DEF Unborn
  <2> QED
    BY <1>1, <2>1, <2>2 DEF StillMember
<1>14. OnceTold'
  <2>1. \A q : Noticed(q)' => Noticed(q)
    BY <1>9, FewerNoticed
  <2> QED
    BY <1>1, <1>2, <2>1 DEF OnceTold, Taken
<1>15. HistoryTyped' /\ Switched' /\ Chosen'
  BY <1>1, <1>2 DEF HistoryTyped, Switched, Chosen
<1> QED
  BY <1>10, <1>11, <1>12, <1>13, <1>14, <1>15 DEF MInv

LEMMA RecvCsaKept ==
  ASSUME Base, MInv, RecvCsa, UNCHANGED <<hvars, tsJob>>, WithCsad
  PROVE  MInv'
<1>1. /\ cnOn /\ sel = "csa" /\ sel' = "none" /\ fromCsa' = Tail(fromCsa)
      /\ UNCHANGED <<pstate, cnOn, nlq, tsOn, tsq, reqq, csad, belongs>>
  BY DEF RecvCsa, kvars, hvars
<1>2. acct' = acct
  BY <1>1 DEF WithCsad
<1>3. CASE Head(fromCsa).what = "NOTICE"
  BY <1>2, <1>3, RecvNoticeKept
<1>4. CASE Head(fromCsa).what # "NOTICE"
  <2>1. tbl' = [tbl EXCEPT !.csaActive = FALSE]
    BY <1>4 DEF RecvCsa
  <2>2. tbl'.procTab = tbl.procTab /\ tbl'.proc = tbl.proc
    BY <2>1, BaseTypes DEF Memory
  <2>3. StillMembers
    BY <1>1, <2>2, NothingMoves
  <2>4. Fewer(fromCsa, fromCsa') /\ Fewer(reqq, reqq')
    <3>1. fromCsa \in Seq(CsaItem) /\ fromCsa # <<>>
      BY <1>1, BaseTypes DEF SelReady
    <3> QED
      BY <1>1, <3>1, TailFewer, SameFewer
  <2>5. Chosen'
    BY <1>1, StillChosen DEF MInv
  <2> QED
    BY <1>1, <1>2, <2>3, <2>4, <2>5, QuietKept
<1> QED
  BY <1>3, <1>4

(***************************************************************************)
(* A request                                                               *)
(***************************************************************************)
(* A request that jobd survives creates a job with the process it names,   *)
(* which no unread event is about, or moves nobody.                        *)
Created ==
  LET r == Head(reqq).r
      a == tbl'.answer[Head(reqq).c]
  IN /\ r.op = "CREATE" /\ r.pid \in Pid /\ r.pid \in Existing
     /\ a.op = "CREATE" /\ a.err = "OK" /\ a.jid \in Jid \ tbl.jobTab
     /\ Puts(tbl, tbl', r.pid, a.jid)
NobodyMoved == SameMembers(tbl, tbl') /\ UNCHANGED hvars

LEMMA RequestMoves ==
  ASSUME Base, MInv, RecvUnix, Moved, cnOn'
  PROVE  Created \/ NobodyMoved
<1> DEFINE c == Head(reqq).c
           r == Head(reqq).r
           a == tbl'.answer[c]
           done == ProcessMesg(tbl, c, r, Existing)
<1>1. sel = "unix" /\ tbl' = done
  BY DEF RecvUnix, Down
<1>2. Ok(tbl) /\ tbl.hid # DISABLED /\ SelReady /\ AnswersTaken
  BY BaseTypes DEF Ok, Base, FreshInv
<1>3. 1 \in DOMAIN reqq /\ Head(reqq) = reqq[1]
  <2>1. reqq \in Seq([c : Client, r : Request]) /\ reqq # <<>>
    BY <1>1, BaseTypes DEF SelReady
  <2> QED
    BY <2>1
<1>4. c \in Client /\ r \in Request /\ r.op \notin Moving
  BY <1>3, BaseItems DEF MInv, KnownProcs
<1>5. r.op = "CREATE" => r.pid \in Pid
  BY <1>3, BaseItems
<1> HIDE DEF c, r, done
<1>6. /\ AnsweredAs(tbl, done, c, r.op)
      /\ r.op = "CREATE" /\ done.answer[c].err = "OK" => Fresh(tbl, done, done.answer[c].jid, r.pid)
  BY <1>2, <1>4, ProcessMesgTells DEF done
<1>7. IF r.op = "CREATE" /\ done.answer[c].err = "OK"
      THEN /\ r.pid \in Existing /\ done.answer[c].op = "CREATE"
           /\ Puts(tbl, done, r.pid, done.answer[c].jid)
      ELSE SameMembers(tbl, done)
  BY <1>2, <1>4, ProcessMesgMembers DEF done
<1>8. CASE r.op = "CREATE" /\ done.answer[c].err = "OK"
  <2>1. done.answer[c].jid \in Jid \ tbl.jobTab
    BY <1>6, <1>8 DEF Fresh
  <2>2. Created
    BY <1>1, <1>5, <1>7, <1>8, <2>1 DEF Created, c, r
  <2> QED
    BY <2>2
<1>9. CASE ~(r.op = "CREATE" /\ done.answer[c].err = "OK")
  <2>1. SameMembers(tbl, tbl')
    BY <1>1, <1>7, <1>9
  <2>2. a.op \in {"", "WAITJID", r.op}
    <3>1. tbl.answer[c] = NoAnswer
      BY <1>1, <1>2, <1>4 DEF AnswersTaken
    <3>2. NoAnswer.op = ""
      BY DEF NoAnswer
    <3> QED
      BY <1>1, <1>4, <1>6, <3>1, <3>2 DEF AnsweredAs
  <2>3. /\ ~(a.err = "OK" /\ a.op = "CREATE") /\ a.op # "ATTACHPID"
        /\ a.op # "DETACHPID" /\ a.op # "DETACHJID"
    BY <1>1, <1>4, <1>9, <2>2 DEF Moving
  <2> HIDE DEF a
  <2>4. UNCHANGED hvars
    BY <2>3 DEF Moved, a, c
  <2> QED
    BY <2>1, <2>4 DEF NobodyMoved
<1> QED
  BY <1>8, <1>9

(* The exits that csad has to report go along with their processes.        *)
GoesTo(i) ==
  IF ~Alive(tsq[i].pid) /\ JobIn(tbl', tsq[i].pid) # JobIn(tbl, tsq[i].pid)
  THEN JobIn(tbl', tsq[i].pid) ELSE tsJob[i]

LEMMA DeadGoAlong ==
  ASSUME Base, DeadMoved, tsq' = tsq
  PROVE  /\ DOMAIN tsJob' = DOMAIN tsq
         /\ \A i \in DOMAIN tsq : tsJob'[i] = GoesTo(i)
<1>1. \A i \in DOMAIN tsq : tsq[i].pid \in Pid
  BY BaseItems
<1>2. ASSUME NEW i \in DOMAIN tsq PROVE JobOf(i) = GoesTo(i)
  BY <1>1 DEF JobOf, GoesTo, JidLookup, JobIn, Running, Alive
<1>3. CASE tsq = <<>>
  BY <1>3 DEF DeadMoved
<1>4. CASE tsq # <<>>
  <2>1. tsJob' = [i \in DOMAIN tsq |-> JobOf(i)]
    BY <1>4 DEF DeadMoved
  <2> QED
    BY <1>2, <2>1
<1> QED
  BY <1>3, <1>4

LEMMA SequenceOf ==
  ASSUME NEW S, NEW T, NEW s \in Seq(S), NEW q, q = <<>> \/ q = [i \in DOMAIN s |-> q[i]],
         DOMAIN q = DOMAIN s, \A i \in DOMAIN s : q[i] \in T
  PROVE  q \in Seq(T) /\ Len(q) = Len(s)
<1>1. Len(s) \in Nat /\ DOMAIN s = 1 .. Len(s)
  OBVIOUS
<1>2. CASE q = <<>>
  <2>1. 1 .. Len(s) = {}
    BY <1>1, <1>2, EmptyQueue
  <2>2. Len(s) = 0
    BY <1>1, <2>1
  <2> QED
    BY <1>2, <2>2
<1>3. CASE q = [i \in DOMAIN s |-> q[i]]
  <2>1. q \in [1 .. Len(s) -> T]
    BY <1>1, <1>3
  <2> QED
    BY <1>1, <2>1
<1> QED
  BY <1>2, <1>3

LEMMA DeadGoTyped ==
  ASSUME Base, Base', HistoryTyped, DeadMoved, tsq' = tsq
  PROVE  tsJob' \in Seq(Jid \cup {NoJid}) /\ Len(tsJob') = Len(tsq)
<1>1. DOMAIN tsJob' = DOMAIN tsq /\ \A i \in DOMAIN tsq : tsJob'[i] = GoesTo(i)
  BY DeadGoAlong
<1>2. /\ tsq \in Seq(TaskRec) /\ tsJob \in Seq(Jid \cup {NoJid}) /\ DOMAIN tsJob = DOMAIN tsq
      /\ tbl' \in Memory /\ TablesAgree(tbl')
  <2>1. tsq \in Seq(TaskRec) /\ tsJob \in Seq(Jid \cup {NoJid}) /\ Len(tsJob) = Len(tsq)
    BY BaseTypes DEF HistoryTyped
  <2>2. tbl' \in Memory /\ TablesAgree(tbl')
    BY OkInv DEF Base, FreshInv, Inv, TypeOK, TablesConsistent
  <2> QED
    BY <2>1, <2>2
<1>3. ASSUME NEW i \in DOMAIN tsq PROVE tsJob'[i] \in Jid \cup {NoJid}
  <2>1. tsq[i].pid \in Pid /\ tsJob[i] \in Jid \cup {NoJid}
    BY <1>2, <1>3, BaseItems
  <2>2. JobIn(tbl', tsq[i].pid) \in Jid \cup {NoJid}
    BY <1>2, <2>1, MemberIs
  <2> QED
    BY <1>1, <2>1, <2>2 DEF GoesTo
<1>4. tsJob' = <<>> \/ tsJob' = [i \in DOMAIN tsq |-> tsJob'[i]]
  BY <1>1 DEF DeadMoved
<1> QED
  BY <1>1, <1>2, <1>3, <1>4, SequenceOf

LEMMA CreateKept ==
  ASSUME Base, Base', MInv, RecvUnix, DeadMoved, Moved, cnOn', Created, acct' = acct
  PROVE  MInv'
<1>1. /\ sel = "unix" /\ sel' = "none" /\ cnOn /\ reqq' = Tail(reqq)
      /\ UNCHANGED <<pstate, cnOn, nlq, tsOn, tsq, fromCsa, csad>>
  BY DEF RecvUnix, Down
<1>2. /\ Switched /\ HistoryTyped /\ Ordered /\ KnownProcs /\ Chosen /\ Followed /\ OnceTold /\ StillMember
  BY DEF MInv
<1>3. PICK p \in Pid, j \in Jid \ tbl.jobTab :
        /\ p = Head(reqq).r.pid /\ j = tbl'.answer[Head(reqq).c].jid
        /\ Head(reqq).r.op = "CREATE" /\ p \in Existing /\ Puts(tbl, tbl', p, j)
        /\ tbl'.answer[Head(reqq).c].op = "CREATE" /\ tbl'.answer[Head(reqq).c].err = "OK"
  BY DEF Created
<1>4. belongs' = [belongs EXCEPT ![p] = IF Alive(p) THEN j ELSE NoJid]
  BY <1>3, Zenon DEF Moved, Alive
<1>5. belongs \in [Pid -> Jid \cup {NoJid}]
  BY <1>2 DEF HistoryTyped
<1>6. (Alive(p) => belongs'[p] = j) /\ \A q \in Pid \ {p} : belongs'[q] = belongs[q]
  BY <1>3, <1>4, <1>5
<1>7. Born(p)
  BY <1>3 DEF Existing, Born
<1>8. /\ ~Unborn(p) /\ \A i \in DOMAIN nlq : nlq[i].what = "FORK" => nlq[i].parent # p
  BY <1>1, <1>2, <1>3 DEF Chosen
<1>9. /\ \A q \in Pid : Alive(q)' <=> Alive(q)
      /\ \A q \in Pid : Born(q)' <=> Born(q)
      /\ \A q \in Pid : (Alive(q)' <=> Alive(q)) /\ (Born(q)' <=> Born(q))
  BY <1>1 DEF Alive, Born
<1>10. /\ JobIn(tbl', p) = j /\ \A q \in Pid \ {p} : JobIn(tbl', q) = JobIn(tbl, q)
       /\ JobIn(tbl, p) # j
  <2>1. JobIn(tbl, p) \in tbl.jobTab \/ JobIn(tbl, p) = NoJid
    BY BaseTypes, MemberIs
  <2> QED
    BY <1>3, <2>1, NoJidIsNoJob DEF Puts
<1>11. nlq' = nlq /\ \A q \in Pid : JobIn(tbl', q) # NoJid => JobIn(tbl, q) # NoJid \/ ~Unborn(q)
  BY <1>1, <1>8, <1>10
<1>12. Ordered'
  BY <1>2, <1>9, <1>11, MovedOrdered
<1>13. DOMAIN tsJob' = DOMAIN tsq /\ \A i \in DOMAIN tsq : tsJob'[i] = GoesTo(i)
  BY <1>1, DeadGoAlong
<1>14. \A i \in DOMAIN tsq : tsJob'[i] = IF tsq[i].pid = p THEN j ELSE tsJob[i]
  <2>1. \A i \in DOMAIN tsq : tsq[i].pid \in Pid /\ ~Alive(tsq[i].pid)
    BY <1>2, BaseItems DEF KnownProcs, Dead
  <2> QED
    BY <1>10, <1>13, <2>1 DEF GoesTo
<1>15. Followed'
  <2>1. PICK b \in [Pid -> Jid \cup {NoJid}] : Follows(b)
    BY <1>2 DEF Followed
  <2>2. PICK d \in [Pid -> Jid \cup {NoJid}] : d = [b EXCEPT ![p] = j]
    BY <1>3, <2>1
  <2>3. Inherited(d)'
    <3>1. Inherited(b) /\ Puts(tbl, tbl', p, j) /\ nlq' = nlq /\ j \in Jid
      BY <1>1, <1>3, <2>1 DEF Follows
    <3> QED
      BY <1>6, <1>8, <1>9, <2>2, <3>1, CreateInherited
  <2>4. \A i \in DOMAIN tsq : tsJob'[i] = d[tsq[i].pid]
    <3>1. \A i \in DOMAIN tsq : tsq[i].pid \in Pid /\ tsJob[i] = b[tsq[i].pid]
      BY <2>1, BaseItems DEF Follows, ChargedAs
    <3> QED
      BY <1>14, <2>2, <3>1
  <2>5. ChargedAs(d)'
    BY <1>1, <2>4 DEF ChargedAs
  <2> QED
    BY <2>3, <2>5 DEF Followed, Follows
<1>16. KnownProcs'
  <2>1. Fewer(reqq, reqq') /\ Fewer(fromCsa, fromCsa') /\ Fewer(tsq, tsq')
    <3> DEFINE R == [c : Client, r : Request]
    <3>1. reqq \in Seq(R) /\ reqq # <<>>
      BY <1>1, BaseTypes DEF SelReady
    <3> HIDE DEF R
    <3> QED
      BY <1>1, <3>1, TailFewer, SameFewer
  <2>2. /\ \A q \in Pid : Born(q) => Born(q)'
        /\ \A q \in Pid : Dead(q) => Dead(q)'
        /\ \A q \in Pid : JobIn(tbl', q) # NoJid => JobIn(tbl, q) # NoJid \/ Born(q)
    BY <1>7, <1>9, <1>10 DEF Dead
  <2> QED
    BY <1>2, <2>1, <2>2, StillKnown
<1>17. StillMember'
  <2>1. ASSUME NEW i \in DOMAIN tsq, tsJob'[i] \in acct.tab
        PROVE  JobIn(tbl', tsq[i].pid) # NoJid \/ Unborn(tsq[i].pid)
    <3>1. tsq[i].pid \in Pid
      BY BaseItems
    <3> QED
      BY <1>2, <1>10, <1>14, <2>1, <3>1, NoJidIsNoJob DEF StillMember
  <2>2. \A q : Unborn(q)' <=> Unborn(q)
    BY <1>1 DEF Unborn
  <2> QED
    BY <1>1, <2>1, <2>2 DEF StillMember
<1>18. HistoryTyped'
  <2>1. belongs' \in [Pid -> Jid \cup {NoJid}]
    BY <1>3, <1>4, <1>5
  <2> QED
    BY <1>1, <1>2, <2>1, DeadGoTyped DEF HistoryTyped
<1>19. Switched' /\ OnceTold' /\ Chosen'
  BY <1>1, <1>2 DEF Switched, OnceTold, Taken, Noticed, Chosen
<1> QED
  BY <1>12, <1>15, <1>16, <1>17, <1>18, <1>19 DEF MInv

LEMMA RecvUnixKept ==
  ASSUME Base, Base', MInv, RecvUnix, Moved, DeadMoved, WithCsad
  PROVE  MInv'
<1>1. CASE ~cnOn'
  <2>1. \E t, callers : Down(t, callers)
    BY <1>1 DEF RecvUnix
  <2>2. PICK t, callers : Down(t, callers)
    BY <2>1
  <2>3. belongs' = [p \in Pid |-> NoJid]
    BY <1>1 DEF Moved
  <2>4. tsJob' = <<>>
    BY <2>2 DEF DeadMoved, Down
  <2> QED
    BY <2>2, <2>3, <2>4, DownKept
<1>2. CASE cnOn'
  <2>1. acct' = acct
    BY <1>2 DEF WithCsad
  <2>2. CASE Created
    BY <1>2, <2>1, <2>2, CreateKept
  <2>3. CASE NobodyMoved
    <3>1. /\ sel = "unix" /\ sel' = "none" /\ cnOn /\ reqq' = Tail(reqq)
          /\ UNCHANGED <<pstate, cnOn, nlq, tsOn, tsq, fromCsa, csad>>
      BY <1>2 DEF RecvUnix, Down
    <3>2. SameMembers(tbl, tbl') /\ belongs' = belongs
      BY <2>3 DEF NobodyMoved, hvars
    <3>3. StillMembers
      BY <3>1, <3>2 DEF StillMembers, Alive, Born
    <3>4. tsJob' = tsJob
      <4>1. DOMAIN tsJob' = DOMAIN tsq /\ \A i \in DOMAIN tsq : tsJob'[i] = GoesTo(i)
        BY <3>1, DeadGoAlong
      <4>2. \A i \in DOMAIN tsq : tsJob'[i] = tsJob[i]
        BY <3>2, <4>1, BaseItems DEF GoesTo, SameMembers
      <4>3. tsJob' \in Seq(Jid \cup {NoJid}) /\ Len(tsJob') = Len(tsq)
        BY <3>1, DeadGoTyped DEF MInv
      <4>4. tsJob \in Seq(Jid \cup {NoJid}) /\ Len(tsJob) = Len(tsq) /\ tsq \in Seq(TaskRec)
        BY BaseTypes DEF MInv, HistoryTyped
      <4>5. \A i \in 1 .. Len(tsJob) : tsJob'[i] = tsJob[i]
        BY <4>2, <4>4
      <4> QED
        BY <4>3, <4>4, <4>5
    <3>5. Fewer(reqq, reqq') /\ Fewer(fromCsa, fromCsa')
      <4> DEFINE R == [c : Client, r : Request]
      <4>1. reqq \in Seq(R) /\ reqq # <<>>
        BY <3>1, BaseTypes DEF SelReady
      <4> HIDE DEF R
      <4> QED
        BY <3>1, <4>1, TailFewer, SameFewer
    <3>6. Chosen'
      BY <3>1, StillChosen DEF MInv
    <3> QED
      BY <2>1, <3>1, <3>3, <3>4, <3>5, <3>6, QuietKept
  <2> QED
    BY <1>2, <2>2, <2>3, RequestMoves
<1> QED
  BY <1>1, <1>2

(***************************************************************************)
(* Every step                                                              *)
(***************************************************************************)
LEMMA InitMembers == ASSUME CInit PROVE MInv
<1>1. /\ nlq = <<>> /\ tsq = <<>> /\ tsJob = <<>> /\ fromCsa = <<>> /\ reqq = <<>> /\ sel = "none"
      /\ csad = "off" /\ tsOn = FALSE /\ cnOn = TRUE /\ belongs = [p \in Pid |-> NoJid]
      /\ tbl.procTab = {}
  BY DEF CInit, HInit, Init, KernelInit, InitMemory
<1>2. \A p \in Pid : belongs[p] = NoJid /\ JobIn(tbl, p) = NoJid
  BY <1>1 DEF JobIn
<1>3. Switched /\ HistoryTyped
  BY <1>1 DEF Switched, HistoryTyped
<1>4. Ordered /\ KnownProcs /\ Chosen /\ OnceTold /\ StillMember
  BY <1>1, <1>2 DEF Ordered, KnownProcs, Chosen, OnceTold, StillMember, Taken
<1>5. Followed
  <2>1. PICK b \in [Pid -> Jid \cup {NoJid}] : b = [p \in Pid |-> NoJid]
    OBVIOUS
  <2>2. Inherited(b) /\ ChargedAs(b)
    BY <1>1, <1>2, <2>1 DEF Inherited, ChargedAs
  <2> QED
    BY <2>2 DEF Followed, Follows
<1> QED
  BY <1>3, <1>4, <1>5 DEF MInv

LEMMA JobdServesMembers ==
  ASSUME Base, Base', MInv, JobdServes PROVE MInv'
<1>1. CASE RecvNl /\ UNCHANGED <<hvars, tsJob>> /\ WithCsad
  <2>1. acct' = acct
    BY <1>1 DEF RecvNl, WithCsad
  <2>2. Head(nlq).what \in {"FORK", "EXIT"}
    <3>1. nlq \in Seq(Event) /\ nlq # <<>>
      BY <1>1, BaseTypes DEF RecvNl
    <3>2. 1 \in DOMAIN nlq /\ Head(nlq) = nlq[1]
      BY <3>1
    <3> QED
      BY <3>2, BaseItems
  <2> QED
    BY <1>1, <2>1, <2>2, RecvForkKept, RecvExitKept
<1>2. CASE Select /\ UNCHANGED <<hvars, tsJob>> /\ WithCsad
  BY <1>2, SelectKept
<1>3. CASE AcceptCsa /\ UNCHANGED <<hvars, tsJob>> /\ WithCsad
  BY <1>3, AcceptCsaKept
<1>4. CASE RecvCsa /\ UNCHANGED <<hvars, tsJob>> /\ WithCsad
  BY <1>4, RecvCsaKept
<1>5. CASE RecvUnix /\ Moved /\ DeadMoved /\ WithCsad
  BY <1>5, RecvUnixKept
<1> QED
  BY <1>1, <1>2, <1>3, <1>4, <1>5 DEF JobdServes

LEMMA UnchangedMembers ==
  ASSUME Base, MInv, UNCHANGED cvars PROVE MInv'
<1>1. UNCHANGED <<pstate, cnOn, nlq, tsOn, tsq, tbl, sel, reqq, fromCsa, csad, belongs, acct, tsJob>>
  BY DEF cvars, vars, kvars, hvars
<1>2. StillMembers
  BY <1>1, NothingMoves
<1>3. Chosen'
  BY <1>1, StillChosen DEF MInv
<1> QED
  BY <1>1, <1>2, <1>3, QuietKept, SameFewer

LEMMA CNextMembers ==
  ASSUME Faithful, Base, Base', MInv, [CNext]_cvars PROVE MInv'
<1>1. CASE UNCHANGED cvars
  BY <1>1, UnchangedMembers
<1>2. CASE Begin
  BY <1>2, BeginKept
<1>3. CASE Connect
  BY <1>3, ConnectKept
<1>4. CASE Report
  BY <1>4, ReportMembers
<1>5. CASE ReadEvent
  BY <1>5, ReadEventMembers
<1>6. CASE End
  BY <1>6, EndKept
<1>7. CASE \E small, brief \in BOOLEAN : Eop(small, brief)
  BY <1>7, EopKept
<1>8. CASE \E r \in CtlCalls : Control(r)
  BY <1>8, ControlKept
<1>9. CASE JobdServes
  BY <1>9, JobdServesMembers
<1>10. CASE JobdRestarts
  BY <1>10, RestartsKept
<1>11. CASE Ask
  BY <1>11, AskKept
<1>12. CASE \E p \in Pid, s \in Status : Die(p, s)
  BY <1>12, DieKept
<1>13. CASE \E p, c \in Pid : Breed(p, c)
  BY <1>13, BreedKept
<1>14. CASE \E p \in Pid : ReapStep(p) /\ UNCHANGED <<hvars, acct, eop, tsJob, phase>>
  BY <1>14, ReapKept
<1> QED
  BY <1>1, <1>2, <1>3, <1>4, <1>5, <1>6, <1>7, <1>8, <1>9, <1>10, <1>11, <1>12, <1>13, <1>14 DEF CNext

(***************************************************************************)
(* The theorems                                                            *)
(***************************************************************************)
LEMMA BaseAlways == CSpec => []Base
<1>1. KInv /\ FreshInv <=> Base
  BY DEF Base
<1>2. CSpec => []KInv
  BY CsadKept
<1>3. CSpec => []FreshInv
  BY JobdImplemented, FreshInvariance, PTL DEF ImplementsJobd
<1> QED
  BY <1>1, <1>2, <1>3, PTL

(* If no event is lost, no pid used twice, and only job_create() moves     *)
(* processes, then at every moment jobd's process table is what the rules  *)
(* of job(7) give, but for the events that jobd has not read: processing   *)
(* them in order leads from the one to the other, and no request, restart  *)
(* of csad or notice of csad comes between a process and its job.          *)
THEOREM MembersFollowed == ASSUME Faithful PROVE CSpec => []MInv
<1>1. CInit => MInv
  BY InitMembers
<1>2. Base /\ Base' /\ MInv /\ [CNext]_cvars => MInv'
  BY CNextMembers
<1> QED
  BY <1>1, <1>2, BaseAlways, PTL DEF CSpec

(* So each process that runs is in the job that it inherited or was given, *)
(* whenever jobd has read its events.                                      *)
THEOREM MembershipAlwaysSettles == ASSUME Faithful PROVE CSpec => []MembershipSettles
<1>1. MInv => MembershipSettles
  <2> SUFFICES ASSUME MInv, nlq = <<>>, NEW p \in Running
               PROVE  belongs[p] = JobIn(tbl, p)
    BY DEF MembershipSettles, JobIn
  <2>1. PICK b \in [Pid -> Jid \cup {NoJid}] : Inherited(b)
    BY DEF MInv, Followed, Follows
  <2>2. p \in Pid /\ Alive(p) /\ ~Unborn(p)
    BY DEF Running, Alive, Unborn
  <2> QED
    BY <2>1, <2>2 DEF Inherited
<1> QED
  BY <1>1, MembersFollowed, PTL

(***************************************************************************)
(* The record of an exit                                                   *)
(***************************************************************************)
(* What has been written says job j; and whether a record is in pacct.     *)
SaysOf(m, j) == m.out \in Seq(Record) /\ \A i \in DOMAIN m.out : m.out[i].jid = j
InPacct(m) == \E i \in DOMAIN m.out : m.out[i].file = NoJid

LEMMA EmitSays ==
  ASSUME NEW m \in AcctMemory, NEW j, SaysOf(m, j), NEW r \in Record, r.jid = j
  PROVE  /\ SaysOf(Emit(m, r), j) /\ Emit(m, r) \in AcctMemory
         /\ r.file = NoJid => InPacct(Emit(m, r))
         /\ Emit(m, r).vp = m.vp /\ Emit(m, r).dmd = m.dmd /\ Emit(m, r).rcd = m.rcd
<1> DEFINE q == Append(m.out, r)
           u == Emit(m, r)
<1>1. /\ q \in Seq(Record) /\ DOMAIN q = 1 .. (Len(m.out) + 1) /\ DOMAIN m.out = 1 .. Len(m.out)
      /\ q[Len(m.out) + 1] = r /\ Len(m.out) \in Nat
      /\ \A i \in DOMAIN m.out : q[i] = m.out[i]
  BY DEF SaysOf
<1>2. u = [m EXCEPT !.out = q]
  BY DEF Emit
<1> HIDE DEF q, u
<1>3. /\ u \in AcctMemory /\ u.out = q /\ u.vp = m.vp /\ u.dmd = m.dmd /\ u.rcd = m.rcd
  BY <1>1, <1>2 DEF AcctMemory
<1>4. \A i \in DOMAIN q : q[i] = r \/ (i \in DOMAIN m.out /\ q[i] = m.out[i])
  BY <1>1
<1>5. SaysOf(u, j)
  BY <1>1, <1>3, <1>4 DEF SaysOf
<1>6. r.file = NoJid => InPacct(u)
  BY <1>1, <1>3 DEF InPacct
<1> QED
  BY <1>3, <1>5, <1>6 DEF u

LEMMA WriteJaSays ==
  ASSUME NEW m \in AcctMemory, NEW j, SaysOf(m, j), NEW r \in Record, r.jid = j, NEW ok
  PROVE  LET u == WriteJa(m, j, r, ok)
         IN u \in AcctMemory /\ SaysOf(u, j) /\ u.vp = m.vp /\ u.dmd = m.dmd /\ u.rcd = m.rcd
<1>1. LET u == [m EXCEPT !.ja = m.ja \ {j}]
      IN u \in AcctMemory /\ SaysOf(u, j) /\ u.vp = m.vp /\ u.dmd = m.dmd /\ u.rcd = m.rcd
  BY DEF AcctMemory, SaysOf
<1> QED
  BY <1>1, EmitSays DEF WriteJa

LEMMA WriteSysSays ==
  ASSUME NEW m \in AcctMemory, NEW j, SaysOf(m, j), NEW r \in Record, r.jid = j, r.file = NoJid, NEW ok
  PROVE  LET u == WriteSys(m, "CSA", r, ok)
         IN SaysOf(u, j) /\ (~u.vp \/ InPacct(u))
<1> DEFINE v == [m EXCEPT !.vp = FALSE, !.dmd["CSA"] = "ERROFF", !.dmd["CSA"] = "ERROFF"]
<1>1. ~v.vp /\ v.out = m.out
  BY DEF AcctMemory
<1>2. SaysOf(v, j)
  BY <1>1 DEF SaysOf
<1> HIDE DEF v
<1>3. WriteSys(m, "CSA", r, ok) = IF ~m.vp THEN m ELSE IF ok THEN Emit(m, r) ELSE v
  BY DEF WriteSys, v
<1> QED
  BY <1>1, <1>2, <1>3, EmitSays

LEMMA AcctEopSays ==
  ASSUME NEW m \in AcctMemory, m.out = <<>>, NEW j \in Jid \cup {NoJid},
         NEW small \in BOOLEAN, NEW brief \in BOOLEAN, NEW ok \in [{1, 2} -> BOOLEAN]
  PROVE  LET u == AcctEop(m, j, small, brief, ok)
         IN /\ SaysOf(u, j)
            /\ j = NoJid => u.out = <<>>
            /\ j \in m.tab /\ m.dmd["CSA"] = "ON" /\ m.rcd \cap Thresholds = {} => ~u.vp \/ InPacct(u)
<1> DEFINE user == WriteJa(m, j, ProcRec(j, j, Parts), ok[1])
           sys == WriteSys(user, "CSA", ProcRec(NoJid, j, m.rcd \cap Parts), ok[2])
           u == AcctEop(m, j, small, brief, ok)
<1>1. /\ ProcRec(j, j, Parts) \in Record /\ ProcRec(NoJid, j, m.rcd \cap Parts) \in Record
      /\ ProcRec(j, j, Parts).jid = j /\ ProcRec(NoJid, j, m.rcd \cap Parts).jid = j
      /\ ProcRec(NoJid, j, m.rcd \cap Parts).file = NoJid
  BY DEF ProcRec, Record
<1>2. SaysOf(m, j)
  BY DEF SaysOf
<1>3. user \in AcctMemory /\ SaysOf(user, j)
  BY <1>1, <1>2, WriteJaSays
<1>4. SaysOf(sys, j) /\ (~sys.vp \/ InPacct(sys))
  <2> HIDE DEF user
  <2> QED
    BY <1>1, <1>3, WriteSysSays
<1>5. u = IF j \notin m.tab THEN m
          ELSE IF m.dmd["CSA"] # "ON" \/ BelowThreshold(m, j, small, brief) THEN user ELSE sys
  BY DEF AcctEop
<1> HIDE DEF user, sys, u
<1>6. NoJid \notin m.tab
  BY NoJidIsNoJob DEF AcctMemory
<1>7. m.rcd \cap Thresholds = {} => ~BelowThreshold(m, j, small, brief)
  BY DEF BelowThreshold, Thresholds
<1> QED
  BY <1>2, <1>3, <1>4, <1>5, <1>6, <1>7 DEF u

(* csad writes the record of an exit to the job that the process exited    *)
(* from; and to pacct, when csad knows that job and jobd all processes.    *)
EopCharges == \A i \in DOMAIN acct'.out : acct'.out[i].jid = Head(tsJob)
EopInPacct ==
  nlq = <<>> /\ Head(tsJob) \in acct.tab /\ acct.dmd["CSA"] = "ON" /\ acct.rcd \cap Thresholds = {} =>
    ~acct'.vp \/ InPacct(acct')

LEMMA EopJob ==
  ASSUME Base, MInv, csad = "connected", tsq # <<>>
  PROVE  LET p == Head(tsq).pid
         IN /\ JidLookup(p) = JobIn(tbl, p) /\ JidLookup(p) \in Jid \cup {NoJid}
            /\ JobIn(tbl, p) # NoJid => JobIn(tbl, p) = Head(tsJob)
            /\ nlq = <<>> /\ Head(tsJob) \in acct.tab => JobIn(tbl, p) # NoJid
<1> DEFINE p == Head(tsq).pid
<1>1. /\ Ordered /\ Followed /\ StillMember
      /\ tsJob \in Seq(Jid \cup {NoJid}) /\ Len(tsJob) = Len(tsq) /\ tsq \in Seq(TaskRec)
  BY BaseTypes DEF MInv, HistoryTyped
<1>2. 1 \in DOMAIN tsq /\ Head(tsq) = tsq[1] /\ Head(tsJob) = tsJob[1]
  BY <1>1
<1>3. p \in Pid
  BY <1>2, BaseItems
<1>4. PICK b \in [Pid -> Jid \cup {NoJid}] : Inherited(b) /\ ChargedAs(b)
  BY <1>1 DEF Followed, Follows
<1>5. Head(tsJob) = b[p]
  BY <1>2, <1>4 DEF ChargedAs
<1>6. JidLookup(p) = JobIn(tbl, p)
  BY DEF JidLookup, JobIn
<1>7. JobIn(tbl, p) # NoJid => ~Unborn(p)
  BY <1>1 DEF Ordered, ForkOrder, Unborn
<1>8. JobIn(tbl, p) # NoJid => JobIn(tbl, p) = Head(tsJob)
  BY <1>3, <1>4, <1>5, <1>7 DEF Inherited
<1>9. nlq = <<>> /\ Head(tsJob) \in acct.tab => JobIn(tbl, p) # NoJid
  <2>1. nlq = <<>> => ~Unborn(p)
    BY DEF Unborn
  <2>2. Head(tsJob) \in acct.tab => JobIn(tbl, p) # NoJid \/ Unborn(tsq[1].pid)
    BY <1>1, <1>2 DEF StillMember
  <2> QED
    BY <1>2, <2>1, <2>2
<1>10. JobIn(tbl, p) \in Jid \cup {NoJid}
  BY <1>3, <1>6, JidLookupType DEF Base, KInv, CInv
<1> QED
  BY <1>6, <1>8, <1>9, <1>10

LEMMA EopCharge ==
  ASSUME Base, MInv, NEW small \in BOOLEAN, NEW brief \in BOOLEAN, Eop(small, brief)
  PROVE  EopCharges /\ EopInPacct
<1> DEFINE m == Quiet(acct)
           p == Head(tsq).pid
           j == JidLookup(p)
<1>1. csad = "connected" /\ tsq # <<>>
  BY DEF Eop
<1>2. PICK ok \in Outcomes : acct' = AcctEop(m, j, small, brief, ok)
  BY DEF Eop
<1>3. ok \in [{1, 2} -> BOOLEAN]
  BY OutcomeType
<1>4. acct \in AcctMemory
  BY DEF Base, KInv, CInv, AcctOk
<1>5. m \in AcctMemory /\ m.out = <<>> /\ m.tab = acct.tab /\ m.dmd = acct.dmd /\ m.rcd = acct.rcd
  <2>1. AcctOk(m) /\ m.out = <<>> /\ m.tab = acct.tab
    BY <1>4, QuietOk, QuietMemory DEF Base, KInv, CInv
  <2>2. m.dmd = acct.dmd /\ m.rcd = acct.rcd
    BY <1>4 DEF Quiet, AcctMemory
  <2> QED
    BY <2>1, <2>2 DEF AcctOk
<1>6. /\ j = JobIn(tbl, p) /\ j \in Jid \cup {NoJid}
      /\ j # NoJid => j = Head(tsJob)
      /\ nlq = <<>> /\ Head(tsJob) \in acct.tab => j # NoJid
  BY <1>1, EopJob
<1> HIDE DEF m, j
<1>7. /\ SaysOf(acct', j)
      /\ j = NoJid => acct'.out = <<>>
      /\ j \in m.tab /\ m.dmd["CSA"] = "ON" /\ m.rcd \cap Thresholds = {} => ~acct'.vp \/ InPacct(acct')
  BY <1>2, <1>3, <1>5, <1>6, AcctEopSays
<1>8. EopCharges
  BY <1>6, <1>7 DEF SaysOf, EopCharges
<1>9. EopInPacct
  BY <1>5, <1>6, <1>7 DEF EopInPacct
<1> QED
  BY <1>8, <1>9

LEMMA EopOnly ==
  ASSUME CNext, EopStep
  PROVE  \E small, brief \in BOOLEAN : Eop(small, brief)
<1>1. ~(JobdServes \/ JobdRestarts)
  BY DEF JobdServes, JobdRestarts, WithCsad, EopStep
<1>2. ~Begin /\ ~Connect /\ ~Report /\ ~ReadEvent /\ ~End /\ ~Ask
  BY DEF Begin, Connect, Report, ReadEvent, End, Ask, EopStep
<1>3. ~(\E r \in CtlCalls : Control(r)) /\ ~(\E p \in Pid, s \in Status : Die(p, s))
      /\ ~(\E p, c \in Pid : Breed(p, c))
      /\ ~(\E p \in Pid : ReapStep(p) /\ UNCHANGED <<hvars, acct, eop, tsJob, phase>>)
  BY DEF Control, Die, Breed, EopStep
<1> QED
  BY <1>1, <1>2, <1>3 DEF CNext

(* The record of an exit names the job in which the process was, although  *)
(* csad asks for it only later: jobd does not know the child of a job yet, *)
(* or keeps it there until csad has reported its exit.                     *)
THEOREM AlwaysChargedToItsJob == ASSUME Faithful PROVE CSpec => ChargedToItsJob
<1>1. Base /\ MInv /\ [CNext]_cvars => [EopStep => EopCharges]_cvars
  BY EopOnly, EopCharge
<1> QED
  BY <1>1, BaseAlways, MembersFollowed, PTL DEF CSpec, ChargedToItsJob, EopCharges

(* When jobd has read every fork, csad finds the job of an exit that it    *)
(* reports, as long as it accounts for that job, and writes the record to  *)
(* pacct unless accounting is off, a threshold is set or the write fails.  *)
THEOREM ExitAlwaysInPacct == ASSUME Faithful PROVE CSpec => ExitCharged
<1>1. Base /\ MInv /\ [CNext]_cvars => [EopStep => EopInPacct]_cvars
  BY EopOnly, EopCharge
<1>2. (EopStep => EopInPacct)
      => (EopStep /\ nlq = <<>>
     /\ Head(tsJob) \in acct.tab /\ acct.dmd["CSA"] = "ON" /\ acct.rcd \cap Thresholds = {} =>
       \/ ~acct'.vp
       \/ \E i \in DOMAIN acct'.out : acct'.out[i].file = NoJid)
  BY DEF EopInPacct, InPacct
<1> QED
  BY <1>1, <1>2, BaseAlways, MembersFollowed, PTL DEF CSpec, ExitCharged

(***************************************************************************)
(* What a caller is told                                                   *)
(***************************************************************************)
QueriesSettled ==
  \A c \in Client :
    LET a == tbl'.answer[c]
        p == Head(reqq).r.pid
    IN tbl'.answer # tbl.answer =>
         /\ nlq = <<>> /\ a.op = "KILLJID" /\ a.err = "OK" /\ a.val = 0 => KilledBy(a.jid)
         /\ a.op = "GETJID" /\ p \in Running => a.jid = belongs[p]

NoQuery == \A c \in Client : tbl'.answer[c].op \notin {"KILLJID", "GETJID"}

LEMMA NothingAsked ==
  ASSUME NEW t \in Memory, \A c \in Client : t.answer[c] = NoAnswer, OnlyWaiters(t, tbl')
  PROVE  NoQuery
<1>1. \A c \in Client : tbl'.answer[c] = NoAnswer \/ tbl'.answer[c].op = "WAITJID"
  BY DEF OnlyWaiters
<1>2. NoAnswer.op = ""
  BY DEF NoAnswer
<1> QED
  BY <1>1, <1>2 DEF NoQuery

(* A handler of jobd's own answers those who wait for a job at most.       *)
LEMMA EventsAnswer ==
  ASSUME FreshInv, RecvNl \/ RecvCsa
  PROVE  NoQuery
<1>0. tbl \in Memory /\ TablesAgree(tbl)
  BY OkInv DEF FreshInv, Ok
<1>1. CASE RecvNl
  <2> DEFINE e == Head(nlq)
             t == Answered(tbl)
  <2>1. nlq \in Seq(Event) /\ nlq # <<>>
    BY <1>1 DEF FreshInv, Inv, TypeOK, KernelTypeOK, RecvNl
  <2>2. e \in Event
    BY <2>1, HeadTail
  <2>3. e.pid \in Pid /\ e.parent \in Pid /\ e.status \in Status /\ (e.what = "FORK" => e.pid # e.parent)
    BY <2>2 DEF Event
  <2>4. t \in Memory /\ TablesAgree(t) /\ \A c \in Client : t.answer[c] = NoAnswer
    BY OkInv, AnsweredOk, AnsweredNone DEF FreshInv, Ok
  <2>5. tbl' = IF e.what = "FORK" THEN ForkHandler(t, e.parent, e.pid)
               ELSE ExitEventHandler(t, e.pid, e.status)
    BY <1>1 DEF RecvNl
  <2> HIDE DEF e, t
  <2>6. CASE e.what = "FORK"
    <3>1. e.pid \in Pid \ {e.parent}
      BY <2>3, <2>6
    <3>2. OnlyWaiters(t, ForkHandler(t, e.parent, e.pid))
      BY <2>3, <2>4, <3>1, ForkTells
    <3> QED
      BY <2>4, <2>5, <2>6, <3>2, NothingAsked
  <2>7. CASE e.what # "FORK"
    <3>1. OnlyWaiters(t, ExitEventHandler(t, e.pid, e.status))
      BY <2>3, <2>4, ExitTells
    <3> QED
      BY <2>4, <2>5, <2>7, <3>1, NothingAsked
  <2> QED
    BY <2>6, <2>7
<1>2. CASE RecvCsa
  <2> DEFINE m == Head(fromCsa)
  <2>1. fromCsa \in Seq(CsaItem) /\ fromCsa # <<>>
    BY <1>2 DEF FreshInv, Inv, TypeOK, SelReady, RecvCsa
  <2>2. m \in CsaItem
    BY <2>1, HeadTail
  <2>3. m.what = "NOTICE" => m.pid \in Pid /\ m.status \in Status
    BY <2>2 DEF CsaItem, CONNECT, EOF
  <2>4. tbl' = IF m.what = "NOTICE" THEN ExitHandler(tbl, m.pid, m.status)
               ELSE [tbl EXCEPT !.csaActive = FALSE]
    BY <1>2 DEF RecvCsa
  <2> HIDE DEF m
  <2>5. \A c \in Client : tbl.answer[c] = NoAnswer
    BY <1>2 DEF FreshInv, AnswersTaken, RecvCsa
  <2>6. OnlyWaiters(tbl, tbl')
    <3>1. CASE m.what = "NOTICE"
      BY <1>0, <2>3, <2>4, <3>1, ExitTells
    <3>2. CASE m.what # "NOTICE"
      BY <1>0, <2>4, <3>2 DEF Memory, OnlyWaiters
    <3> QED
      BY <3>1, <3>2
  <2> QED
    BY <1>0, <2>5, <2>6, NothingAsked
<1> QED
  BY <1>1, <1>2

LEMMA OthersAnswer ==
  ASSUME FreshInv, [Next]_vars, ~RecvUnix
  PROVE  tbl'.answer = tbl.answer \/ NoQuery
<1>0. tbl \in Memory
  BY OkInv DEF FreshInv, Ok
<1>1. NoAnswer.op = "" /\ EofAnswer.op = "EOF"
  BY DEF NoAnswer, EofAnswer
<1>2. CASE RecvNl \/ RecvCsa
  BY <1>2, EventsAnswer
<1>3. CASE Select
  <2>1. \A c \in Client : tbl'.answer[c] = NoAnswer
    BY <1>0, <1>3, AnsweredNone DEF Select
  <2> QED
    BY <1>1, <2>1 DEF NoQuery
<1>4. CASE Stop
  <2> DEFINE callers == {c \in Client : Waiting(c) \/ Queued(c)}
  <2>1. tbl' = InitMemory([c \in Client |-> IF c \in callers THEN EofAnswer ELSE Answered(tbl).answer[c]])
    BY <1>4 DEF Stop, Down
  <2> HIDE DEF callers
  <2>2. \A c \in Client : tbl'.answer[c] = EofAnswer \/ tbl'.answer[c] = NoAnswer
    BY <1>0, <2>1, AnsweredNone DEF InitMemory
  <2> QED
    BY <1>1, <2>2 DEF NoQuery
<1>5. CASE AcceptCsa
  BY <1>0, <1>5 DEF AcceptCsa, Memory
<1>6. CASE CsadRead
  BY <1>0, <1>6 DEF CsadRead, Memory
<1>7. CASE CsadStop
  BY <1>0, <1>7 DEF CsadStop, Memory
<1>8. CASE Start \/ CsadStart \/ CsadConnect \/ CsadReport \/ UNCHANGED vars
  BY <1>8 DEF Start, CsadStart, CsadConnect, CsadReport, vars
<1>9. CASE SubmitStep \/ (\E p, c \in Pid : ForkStep(p, c)) \/ (\E p \in Pid, s \in Status : ExitStep(p, s))
           \/ (\E p \in Pid : ReapStep(p))
  BY <1>9 DEF SubmitStep, Submit, ForkStep, ExitStep, ReapStep
<1> QED
  BY <1>2, <1>3, <1>4, <1>5, <1>6, <1>7, <1>8, <1>9 DEF Next, JobdStep, CsadStep

LEMMA RunningMember ==
  ASSUME Base, MInv, NEW p \in Running, ~Unborn(p)
  PROVE  p \in Pid /\ belongs[p] = JobIn(tbl, p)
<1>1. PICK b \in [Pid -> Jid \cup {NoJid}] : Inherited(b)
  BY DEF MInv, Followed, Follows
<1>2. p \in Pid /\ Alive(p)
  BY DEF Running, Alive
<1> QED
  BY <1>1, <1>2 DEF Inherited

LEMMA RequestTold ==
  ASSUME Base, MInv, RecvUnix
  PROVE  QueriesSettled
<1> DEFINE c == Head(reqq).c
           r == Head(reqq).r
           done == ProcessMesg(tbl, c, r, Existing)
           callers == {b \in Client \ {c} : Waiting(b) \/ Queued(b)}
<1>1. reqq \in Seq([c : Client, r : Request]) /\ reqq # <<>> /\ sel = "unix"
  BY BaseTypes DEF SelReady, RecvUnix
<1>2. Head(reqq) \in [c : Client, r : Request]
  BY <1>1, HeadTail
<1>3. c \in Client /\ r \in Request
  BY <1>2
<1>4. Ok(tbl) /\ tbl.hid # DISABLED /\ tbl \in Memory /\ TablesAgree(tbl)
      /\ \A b \in Client : tbl.answer[b] = NoAnswer
  BY OkInv, BaseTypes DEF Base, FreshInv, AnswersTaken, RecvUnix
<1>5. tbl' = done \/ Down(done, callers)
  BY DEF RecvUnix
<1>6. r.op = "KILLJID" => KillTargets(tbl, c, r) \cap Running \subseteq signalled'
  BY DEF RecvUnix
<1>7. r.op = "GETJID" => ~Unborn(r.pid)
  BY <1>1 DEF MInv, Chosen
<1>8. /\ r.op = "GETJID" => done = GetJid(tbl, c, r, Existing)
      /\ r.op = "KILLJID" => done = KillJid(tbl, c, r, Existing)
  BY DEF ProcessMesg
<1>9. AnsweredAs(tbl, done, c, r.op)
  <2> HIDE DEF c, r
  <2> QED
    BY <1>3, <1>4, ProcessMesgTells
<1>10. c \notin callers
  OBVIOUS
<1>11. r.pid = Head(reqq).r.pid
  OBVIOUS
<1> HIDE DEF c, r, done, callers
<1>12. \A b \in Client : tbl'.answer[b] = done.answer[b] \/ (b # c /\ tbl'.answer[b] = EofAnswer)
  <2>1. CASE Down(done, callers)
    <3>1. tbl' = InitMemory([b \in Client |-> IF b \in callers THEN EofAnswer ELSE done.answer[b]])
      BY <2>1 DEF Down
    <3> QED
      BY <1>10, <3>1 DEF InitMemory
  <2> QED
    BY <1>5, <2>1
<1>13. NoAnswer.op = "" /\ EofAnswer.op = "EOF"
  BY DEF NoAnswer, EofAnswer
<1>14. ASSUME NEW b \in Client, tbl'.answer[b].op \in {"KILLJID", "GETJID"}
       PROVE  b = c /\ tbl'.answer[b] = done.answer[c] /\ tbl'.answer[b].op = r.op
  BY <1>4, <1>9, <1>12, <1>13, <1>14 DEF AnsweredAs
<1>15. ASSUME NEW b \in Client, nlq = <<>>, tbl'.answer[b].op = "KILLJID", tbl'.answer[b].err = "OK"
       PROVE  KilledBy(tbl'.answer[b].jid)
  <2>1. r.op = "KILLJID" /\ tbl'.answer[b] = done.answer[c]
    BY <1>14, <1>15
  <2>2. /\ tbl'.answer[b].jid = r.jid /\ r.jid \in tbl.jobTab
        /\ KillTargets(tbl, c, r) = ToSet(tbl.job[r.jid].proclist)
    BY <1>3, <1>4, <1>8, <1>15, <2>1, QueriesTrue
  <2> SUFFICES ASSUME NEW p \in Running, belongs[p] = r.jid PROVE p \in signalled'
    BY <2>2 DEF KilledBy
  <2>3. ~Unborn(p)
    BY <1>15 DEF Unborn
  <2>4. JobIn(tbl, p) = r.jid
    BY <2>3, RunningMember
  <2>5. r.jid # NoJid
    BY <1>4, <2>2, NoJidIsNoJob DEF Memory
  <2>6. p \in tbl.procTab /\ tbl.proc[p].job = r.jid
    BY <2>4, <2>5 DEF JobIn
  <2>7. p \in ToSet(tbl.job[r.jid].proclist)
    BY <1>4, <2>6 DEF TablesAgree, ProcHasJob
  <2> QED
    BY <1>6, <2>1, <2>2, <2>7
<1>16. ASSUME NEW b \in Client, tbl'.answer[b].op = "GETJID", r.pid \in Running
       PROVE  tbl'.answer[b].jid = belongs[r.pid]
  <2>1. r.op = "GETJID" /\ tbl'.answer[b] = done.answer[c]
    BY <1>14, <1>16
  <2>2. tbl'.answer[b].jid = JobIn(tbl, r.pid)
    BY <1>3, <1>4, <1>8, <2>1, QueriesTrue
  <2>3. belongs[r.pid] = JobIn(tbl, r.pid)
    BY <1>7, <1>16, <2>1, RunningMember
  <2> QED
    BY <2>2, <2>3
<1> QED
  BY <1>11, <1>15, <1>16 DEF QueriesSettled

(* A successful job_killjid() has signalled every process of the job when  *)
(* jobd has read every fork, and job_getjid() of a process that is alive   *)
(* names the job it belongs to, even right after its fork: select() lets   *)
(* no request pass an unread event about its process.                      *)
THEOREM AnswersAlwaysSettled == ASSUME Faithful PROVE CSpec => AnswersSettled
<1>1. Base /\ MInv /\ [CNext]_cvars => [QueriesSettled]_<<vars, hvars>>
  <2> SUFFICES ASSUME Base, MInv, [CNext]_cvars PROVE QueriesSettled \/ UNCHANGED <<vars, hvars>>
    OBVIOUS
  <2>1. CASE UNCHANGED cvars
    BY <2>1 DEF cvars
  <2>2. CASE CNext
    <3>1. [Next]_vars
      BY <2>2, CNextImplements
    <3>2. CASE RecvUnix
      BY <3>2, RequestTold
    <3>3. CASE ~RecvUnix
      <4>1. tbl'.answer = tbl.answer \/ NoQuery
        BY <3>1, <3>3, OthersAnswer DEF Base
      <4> QED
        BY <4>1 DEF QueriesSettled, NoQuery
    <3> QED
      BY <3>2, <3>3
  <2> QED
    BY <2>1, <2>2
<1> QED
  BY <1>1, BaseAlways, MembersFollowed, PTL DEF CSpec, AnswersSettled, QueriesSettled

(***************************************************************************)
(* csad's notices                                                          *)
(***************************************************************************)
(* The processes whose exit csad has to report or has reported are dead,   *)
(* whatever is lost and whoever moves processes.                           *)
NoticesDead == \A p \in Pid : Taken(p) \/ Noticed(p) => Dead(p)

LEMMA FewerDead ==
  ASSUME NoticesDead, pstate' = pstate, Fewer(tsq, tsq'), Fewer(fromCsa, fromCsa')
  PROVE  NoticesDead'
<1>1. \A p : Taken(p)' => Taken(p)
  BY DEF Taken, Fewer
<1>2. \A p : Noticed(p)' => Noticed(p)
  BY FewerNoticed
<1> QED
  BY <1>1, <1>2 DEF NoticesDead, Dead, Born, Alive

(* One more message of csad, which is no notice or that of a dead process. *)
LEMMA SaidDead ==
  ASSUME Inv, NoticesDead, pstate' = pstate, Fewer(tsq, tsq'),
         NEW m \in CsaItem, fromCsa' = Append(fromCsa, m),
         m.what = "NOTICE" => Taken(m.pid)
  PROVE  NoticesDead'
<1>1. fromCsa \in Seq(CsaItem)
  BY DEF Inv, TypeOK
<1>2. \A i \in DOMAIN fromCsa' : (i \in DOMAIN fromCsa /\ fromCsa'[i] = fromCsa[i]) \/ fromCsa'[i] = m
  BY <1>1, AppendPlaces
<1>3. \A p : Noticed(p)' => Noticed(p) \/ Taken(p)
  BY <1>2 DEF Noticed
<1>4. \A p : Taken(p)' => Taken(p)
  BY DEF Taken, Fewer
<1> QED
  BY <1>3, <1>4 DEF NoticesDead, Dead, Born, Alive

LEMMA ItemWhat ==
  /\ CONNECT \in CsaItem /\ CONNECT.what = "CONNECT"
  /\ EOF \in CsaItem /\ EOF.what = "EOF"
BY DEF CONNECT, EOF, CsaItem

LEMMA ExitDead ==
  ASSUME Inv, NoticesDead, ~Reuse, NEW p \in Pid, NEW s \in Status, ExitStep(p, s)
  PROVE  NoticesDead'
<1>1. /\ pstate \in [Pid -> {"free", "run", "zombie", "gone"}] /\ tsq \in Seq(TaskRec)
      /\ pstate[p] = "run" /\ fromCsa' = fromCsa
      /\ pstate' = [pstate EXCEPT ![p] = IF Zombies THEN "zombie" ELSE "gone"]
  BY DEF ExitStep, Exit, AfterReap, Inv, TypeOK, KernelTypeOK
<1>2. Dead(p)' /\ \A q \in Pid : Dead(q) => Dead(q)'
  BY <1>1 DEF Dead, Born, Alive
<1> DEFINE e == [pid |-> p, status |-> s]
<1>3. tsq' = tsq \/ tsq' = Append(tsq, e)
  BY DEF ExitStep, Exit, Deliver
<1>4. e \in TaskRec /\ e.pid = p
  BY DEF TaskRec
<1> HIDE DEF e
<1>5. \A i \in DOMAIN tsq' : (i \in DOMAIN tsq /\ tsq'[i] = tsq[i]) \/ tsq'[i] = e
  BY <1>1, <1>3, <1>4, AppendPlaces
<1>6. \A q : Taken(q)' => Taken(q) \/ q = p
  BY <1>4, <1>5 DEF Taken
<1>7. \A q : Noticed(q)' => Noticed(q)
  BY <1>1 DEF Noticed
<1>8. ASSUME NEW q \in Pid, Taken(q)' \/ Noticed(q)' PROVE Dead(q)'
  BY <1>2, <1>6, <1>7, <1>8 DEF NoticesDead
<1> QED
  BY <1>8 DEF NoticesDead

LEMMA OthersDead ==
  ASSUME Inv, NoticesDead, ~Reuse,
         (\E p, c \in Pid : ForkStep(p, c)) \/ (\E p \in Pid : ReapStep(p))
  PROVE  NoticesDead'
<1>1. pstate \in [Pid -> {"free", "run", "zombie", "gone"}]
  BY DEF Inv, TypeOK, KernelTypeOK
<1>2. tsq' = tsq /\ fromCsa' = fromCsa
  BY DEF ForkStep, Fork, ReapStep, Reap
<1>3. \A q \in Pid : Dead(q) => Dead(q)'
  <2>1. ASSUME NEW p \in Pid, NEW c \in Pid, ForkStep(p, c) PROVE \A q \in Pid : Dead(q) => Dead(q)'
    BY <1>1, <2>1 DEF ForkStep, Fork, Dead, Born, Alive
  <2>2. ASSUME NEW p \in Pid, ReapStep(p) PROVE \A q \in Pid : Dead(q) => Dead(q)'
    BY <1>1, <2>2 DEF ReapStep, Reap, AfterReap, Dead, Born, Alive
  <2> QED
    BY <2>1, <2>2
<1>4. \A q : (Taken(q)' => Taken(q)) /\ (Noticed(q)' => Noticed(q))
  BY <1>2 DEF Taken, Noticed
<1>5. ASSUME NEW q \in Pid, Taken(q)' \/ Noticed(q)' PROVE Dead(q)'
  BY <1>3, <1>4, <1>5 DEF NoticesDead
<1> QED
  BY <1>5 DEF NoticesDead

LEMMA NextDead ==
  ASSUME Inv, NoticesDead, ~Reuse, [Next]_vars
  PROVE  NoticesDead'
<1>0. /\ tsq \in Seq(TaskRec) /\ fromCsa \in Seq(CsaItem)
      /\ Fewer(tsq, tsq) /\ Fewer(fromCsa, fromCsa) /\ Fewer(tsq, <<>>) /\ Fewer(fromCsa, <<>>)
  BY SameFewer, EmptyFewer DEF Inv, TypeOK, KernelTypeOK
<1>1. CASE SubmitStep \/ RecvNl \/ Select \/ Start \/ CsadStart \/ CsadRead \/ UNCHANGED vars
  <2>1. UNCHANGED <<pstate, tsq, fromCsa>>
    BY <1>1 DEF SubmitStep, Submit, RecvNl, Select, Start, CsadStart, CsadRead, vars, kvars
  <2> QED
    BY <1>0, <2>1, FewerDead
<1>2. CASE AcceptCsa
  <2>1. pstate' = pstate /\ tsq' = tsq
    BY <1>2 DEF AcceptCsa, kvars
  <2> QED
    BY <1>0, <1>2, <2>1, AcceptFewer, FewerDead
<1>3. CASE RecvCsa
  <2>1. pstate' = pstate /\ tsq' = tsq /\ fromCsa' = Tail(fromCsa) /\ fromCsa # <<>>
    BY <1>3 DEF RecvCsa, kvars, Inv, SelReady
  <2> QED
    BY <1>0, <2>1, TailFewer, FewerDead
<1>4. CASE RecvUnix \/ Stop
  <2>1. pstate' = pstate /\ (tsq' = tsq \/ tsq' = <<>>) /\ (fromCsa' = fromCsa \/ fromCsa' = <<>>)
    BY <1>4 DEF RecvUnix, Stop, Down
  <2> QED
    BY <1>0, <2>1, FewerDead
<1>5. CASE CsadConnect
  <2>1. pstate' = pstate /\ tsq' = tsq /\ fromCsa' = Append(fromCsa, CONNECT)
    BY <1>5 DEF CsadConnect, kvars
  <2> QED
    BY <1>0, <2>1, ItemWhat, SaidDead
<1>6. CASE CsadReport
  <2> DEFINE m == Notice(Head(tsq).pid, Head(tsq).status)
  <2>1. pstate' = pstate /\ tsq' = Tail(tsq) /\ tsq # <<>> /\ fromCsa' = Append(fromCsa, m)
    BY <1>6 DEF CsadReport
  <2>2. 1 \in DOMAIN tsq /\ Head(tsq) = tsq[1] /\ tsq[1] \in TaskRec
    BY <1>0, <2>1
  <2>3. m \in CsaItem /\ Taken(m.pid)
    <3>1. m.pid = tsq[1].pid /\ m.status = tsq[1].status
      BY <2>2 DEF Notice
    <3>2. tsq[1].pid \in Pid /\ tsq[1].status \in Status
      BY <2>2 DEF TaskRec
    <3>3. m \in CsaItem
      BY <3>1, <3>2 DEF Notice, CsaItem
    <3> QED
      BY <2>2, <3>1, <3>3 DEF Taken
  <2> HIDE DEF m
  <2> QED
    BY <1>0, <2>1, <2>3, TailFewer, SaidDead
<1>7. CASE CsadStop
  <2>1. pstate' = pstate /\ tsq' = <<>> /\ (fromCsa' = fromCsa \/ fromCsa' = Append(fromCsa, EOF))
    BY <1>7 DEF CsadStop
  <2> QED
    BY <1>0, <2>1, ItemWhat, SaidDead, FewerDead
<1>8. CASE (\E p, c \in Pid : ForkStep(p, c)) \/ (\E p \in Pid : ReapStep(p))
  BY <1>8, OthersDead
<1>9. CASE \E p \in Pid, s \in Status : ExitStep(p, s)
  BY <1>9, ExitDead
<1> QED
  BY <1>1, <1>2, <1>3, <1>4, <1>5, <1>6, <1>7, <1>8, <1>9 DEF Next, JobdStep, CsadStep

OnlyDeadRemoved == RecvCsa => \A p \in tbl.procTab \ tbl'.procTab : pstate[p] # "run"

LEMMA NoticeRemoves ==
  ASSUME Inv, NoticesDead, RecvCsa, NEW p \in tbl.procTab \ tbl'.procTab
  PROVE  pstate[p] # "run"
<1> DEFINE m == Head(fromCsa)
<1>1. Ok(tbl) /\ fromCsa \in Seq(CsaItem) /\ fromCsa # <<>>
  BY OkInv DEF Inv, TypeOK, SelReady, RecvCsa
<1>2. m = fromCsa[1] /\ 1 \in DOMAIN fromCsa /\ m \in CsaItem
  BY <1>1
<1>3. m.what = "NOTICE" => m.pid \in Pid /\ m.status \in Status
  BY <1>2 DEF CsaItem, CONNECT, EOF
<1>4. tbl' = IF m.what = "NOTICE" THEN ExitHandler(tbl, m.pid, m.status)
             ELSE [tbl EXCEPT !.csaActive = FALSE]
  BY DEF RecvCsa
<1> HIDE DEF m
<1>5. m.what = "NOTICE"
  BY <1>1, <1>4 DEF Ok, Memory
<1>6. p = m.pid
  <2>1. tbl \in Memory /\ TablesAgree(tbl) /\ m.pid \in Pid /\ m.status \in Status
    BY <1>1, <1>3, <1>5 DEF Ok
  <2>2. Puts(tbl, tbl', m.pid, NoJid)
    BY <1>4, <1>5, <2>1, ExitHandlerMembers
  <2>3. JobIn(tbl', p) = NoJid /\ p \in Pid
    BY <2>1 DEF JobIn, Memory
  <2>4. JobIn(tbl, p) # NoJid
    BY <2>1, <2>3, MemberIs
  <2> QED
    BY <2>2, <2>3, <2>4 DEF Puts
<1>7. Noticed(p)
  BY <1>2, <1>5, <1>6 DEF Noticed
<1> QED
  BY <1>3, <1>5, <1>6, <1>7 DEF NoticesDead, Dead, Alive

(* If no pid is used twice, csad's notice, which may come long after the   *)
(* exit, never removes a process that runs from its job.                   *)
THEOREM OnlyTheDeadRemoved == ASSUME ~Reuse PROVE Spec => NoticeRemovesDead
<1>1. Init => NoticesDead
  BY DEF Init, KernelInit, NoticesDead, Taken, Noticed
<1>2. Inv /\ NoticesDead /\ [Next]_vars => NoticesDead'
  BY NextDead
<1>3. Inv /\ NoticesDead /\ [Next]_vars => [OnlyDeadRemoved]_vars
  BY NoticeRemoves DEF OnlyDeadRemoved
<1> QED
  BY <1>1, <1>2, <1>3, Invariance, PTL DEF Spec, NoticeRemovesDead, OnlyDeadRemoved

(***************************************************************************)
(* Exits on their way                                                      *)
(***************************************************************************)
(* What a dead member needs besides: an exited process is not found by a   *)
(* job_create() that names it, and csad is not stopped.                    *)
Steady == Faithful /\ ~Zombies /\ ~CsadMayStop

(* csad has, or has passed on, the exit of p. *)
InHand(p) == Taken(p) \/ Noticed(p)

(* csad connects once: what waits for jobd is that connection and the      *)
(* notices that follow it.                                                 *)
Greets ==
  /\ fromCsa # <<>> /\ fromCsa[1] = CONNECT
  /\ \A i \in DOMAIN fromCsa : i > 1 => fromCsa[i].what = "NOTICE"
OneCsad ==
  /\ tbl.csaActive \/ sel = "csa" => tbl.csaPeer
  /\ ~tbl.csaPeer /\ csad = "connected" => Greets
  /\ csad # "connected" => fromCsa = <<>>

(* Once jobd has chosen to accept csad, which it does with no event        *)
(* unread, csad is told of every exit that jobd is.                        *)
Reporting ==
  tbl.csaActive \/ sel = "accept" => \A p \in Pid : ExitUnread(p) => InHand(p)

(* A dead member will be removed by its EXIT event or, with CSA active, by *)
(* csad's notice, which jobd has still to read.                            *)
Pending ==
  \A p \in Pid : JobIn(tbl, p) # NoJid /\ ~Alive(p) => ExitUnread(p) \/ (tbl.csaActive /\ InHand(p))

NoZombie == \A p \in Pid : pstate[p] # "zombie"

PInv == OneCsad /\ Reporting /\ Pending /\ NoZombie

LEMMA PendingImplies == ASSUME Base, PInv PROVE DeadMembersPending
<1> SUFFICES ASSUME NEW p \in tbl.procTab, pstate[p] # "run" PROVE ExitPending(p)
  BY DEF DeadMembersPending
<1>1. tbl \in Memory /\ TablesAgree(tbl)
  BY BaseTypes
<1>2. p \in Pid
  BY <1>1 DEF Memory
<1>3. JobIn(tbl, p) # NoJid
  BY <1>1, <1>2, MemberIs
<1> QED
  BY <1>2, <1>3 DEF PInv, Pending, Alive, ExitUnread, InHand, Taken, Noticed, ExitPending

(* A step that brings no new event and no new dead member.                 *)
LEMMA StillPending ==
  ASSUME Reporting, Pending, sel' = "accept" => sel = "accept", tbl'.csaActive = tbl.csaActive,
         \A p \in Pid : ExitUnread(p)' <=> ExitUnread(p),
         \A p \in Pid : InHand(p) => InHand(p)',
         \A p \in Pid : JobIn(tbl', p) # NoJid /\ ~Alive(p)' => JobIn(tbl, p) # NoJid /\ ~Alive(p)
  PROVE  Reporting' /\ Pending'
<1>1. Reporting'
  BY DEF Reporting
<1>2. Pending'
  BY DEF Pending
<1> QED
  BY <1>1, <1>2

(* The steps that neither csad's connection nor any process has a part in. *)
LEMMA StillAll ==
  ASSUME PInv, sel' = sel, tbl'.csaActive = tbl.csaActive, tbl'.csaPeer = tbl.csaPeer,
         UNCHANGED <<pstate, nlq, tsq, fromCsa, csad>>, SameMembers(tbl, tbl')
  PROVE  PInv'
<1>1. OneCsad'
  BY DEF PInv, OneCsad, Greets
<1>2. \A p \in Pid : JobIn(tbl', p) = JobIn(tbl, p)
  BY DEF SameMembers
<1>3. Reporting' /\ Pending'
  BY <1>2, StillPending DEF PInv, ExitUnread, InHand, Taken, Noticed, Alive
<1>4. NoZombie'
  BY DEF PInv, NoZombie
<1> QED
  BY <1>1, <1>3, <1>4 DEF PInv

(* Nobody is a member and nothing is on its way. *)
LEMMA OffPending ==
  ASSUME NoZombie', ~tbl'.csaActive, fromCsa' = <<>>, sel' = "none", csad' = "off",
         \A p \in Pid : JobIn(tbl', p) = NoJid
  PROVE  PInv'
<1>1. OneCsad' /\ Reporting'
  BY DEF OneCsad, Reporting
<1>2. Pending'
  BY DEF Pending
<1> QED
  BY <1>1, <1>2 DEF PInv

LEMMA DownPending ==
  ASSUME NEW t, NEW callers, Down(t, callers), NoZombie'
  PROVE  PInv'
<1>1. \A p \in Pid : JobIn(tbl', p) = NoJid
  BY DEF Down, InitMemory, JobIn
<1>2. ~tbl'.csaActive
  BY DEF Down, InitMemory
<1> QED
  BY <1>1, <1>2, OffPending DEF Down

(***************************************************************************)
(* csad and the processes                                                  *)
(***************************************************************************)
LEMMA BeginPending ==
  ASSUME Base, PInv, Begin PROVE PInv'
<1>1. /\ csad = "off" /\ csad' = "listening"
      /\ UNCHANGED <<pstate, nlq, tsq, tbl, sel, fromCsa>>
  BY DEF Begin, CsadStart
<1>2. OneCsad'
  BY <1>1 DEF PInv, OneCsad
<1>3. Reporting' /\ Pending'
  BY <1>1, StillPending DEF PInv, ExitUnread, InHand, Taken, Noticed, Alive
<1>4. NoZombie'
  BY <1>1 DEF PInv, NoZombie
<1> QED
  BY <1>2, <1>3, <1>4 DEF PInv

LEMMA ConnectPending ==
  ASSUME Base, PInv, Connect PROVE PInv'
<1>1. /\ csad = "listening" /\ csad' = "connected" /\ fromCsa' = Append(fromCsa, CONNECT)
      /\ UNCHANGED <<pstate, nlq, tsq, tbl, sel>>
  BY DEF Connect, CsadConnect, kvars
<1>2. fromCsa = <<>>
  BY <1>1 DEF PInv, OneCsad
<1>3. fromCsa' = <<CONNECT>>
  BY <1>1, <1>2
<1>4. OneCsad'
  <2>1. Greets'
    BY <1>3 DEF Greets
  <2> QED
    BY <1>1, <2>1 DEF PInv, OneCsad
<1>5. \A p \in Pid : ~Noticed(p)
  BY <1>2 DEF Noticed
<1>6. Reporting' /\ Pending'
  BY <1>1, <1>5, StillPending DEF PInv, ExitUnread, InHand, Taken, Alive
<1>7. NoZombie'
  BY <1>1 DEF PInv, NoZombie
<1> QED
  BY <1>4, <1>6, <1>7 DEF PInv

(* The exit passes from csad's queue to jobd's. *)
LEMMA ReportPending ==
  ASSUME Base, PInv, Report PROVE PInv'
<1> DEFINE note == Notice(Head(tsq).pid, Head(tsq).status)
           n == Len(fromCsa) + 1
<1>1. /\ csad = "connected" /\ tsq # <<>>
      /\ fromCsa' = Append(fromCsa, note) /\ tsq' = Tail(tsq)
      /\ UNCHANGED <<pstate, nlq, tbl, sel, csad>>
  BY DEF Report, CsadReport
<1>2. tsq \in Seq(TaskRec) /\ fromCsa \in Seq(CsaItem)
  BY BaseTypes
<1>3. Shifts(tsq, tsq')
  BY <1>1, <1>2, TailShifts
<1>4. 1 \in DOMAIN tsq /\ Head(tsq) = tsq[1]
  BY <1>3 DEF Shifts
<1>5. note.what = "NOTICE" /\ note.pid = tsq[1].pid /\ note \in CsaItem
  <2>1. tsq[1].pid \in Pid /\ tsq[1].status \in Status
    BY <1>4, BaseItems
  <2> QED
    BY <1>4, <2>1 DEF Notice, CsaItem
<1> HIDE DEF note
<1>6. Extends(fromCsa, fromCsa', note, n)
  BY <1>1, <1>2, <1>5, AppendExtends
<1> HIDE DEF n
<1>7. \A p \in Pid : InHand(p) => InHand(p)'
  <2>1. ASSUME NEW p \in Pid, Noticed(p) PROVE Noticed(p)'
    BY <1>6, <2>1 DEF Extends, Noticed
  <2>2. ASSUME NEW p \in Pid, Taken(p) PROVE Taken(p)' \/ Noticed(p)'
    <3>1. PICK i \in DOMAIN tsq : tsq[i].pid = p
      BY <2>2 DEF Taken
    <3>2. CASE i = 1
      <4>1. n \in DOMAIN fromCsa' /\ fromCsa'[n].what = "NOTICE" /\ fromCsa'[n].pid = p
        BY <1>5, <1>6, <3>1, <3>2 DEF Extends
      <4> QED
        BY <4>1 DEF Noticed
    <3>3. CASE i # 1
      <4>1. i - 1 \in DOMAIN tsq' /\ tsq'[i - 1] = tsq[i]
        BY <1>3, <3>3 DEF Shifts
      <4> QED
        BY <3>1, <4>1 DEF Taken
    <3> QED
      BY <3>2, <3>3
  <2> QED
    BY <2>1, <2>2 DEF InHand
<1>8. Reporting' /\ Pending'
  BY <1>1, <1>7, StillPending DEF PInv, ExitUnread, Alive
<1>9. OneCsad'
  <2>1. ASSUME Greets PROVE Greets'
    <3>1. 1 \in DOMAIN fromCsa
      BY <1>2, <2>1 DEF Greets
    <3>2. fromCsa' # <<>> /\ fromCsa'[1] = CONNECT
      BY <1>6, <2>1, <3>1 DEF Extends, Greets
    <3>3. \A i \in DOMAIN fromCsa' : i > 1 => fromCsa'[i].what = "NOTICE"
      BY <1>5, <1>6, <2>1 DEF Extends, Greets
    <3> QED
      BY <3>2, <3>3 DEF Greets
  <2> QED
    BY <1>1, <2>1 DEF PInv, OneCsad
<1>10. NoZombie'
  BY <1>1 DEF PInv, NoZombie
<1> QED
  BY <1>8, <1>9, <1>10 DEF PInv

LEMMA BreedPending ==
  ASSUME Base, MInv, PInv, Faithful, NEW p \in Pid, NEW c \in Pid, Breed(p, c)
  PROVE  PInv'
<1>1. /\ ~Born(c) /\ pstate' = [pstate EXCEPT ![c] = "run"]
      /\ ~cnOn \/ Len(nlq) < EvCap
      /\ nlq' = Deliver(cnOn, nlq, ForkEvent(p, c)) /\ c # p
      /\ UNCHANGED <<tsq, tbl, sel, fromCsa, csad>>
  BY DEF Breed, ForkStep, Fork, Born, HasRoom, Faithful
<1>2. pstate \in [Pid -> {"free", "run", "zombie", "gone"}] /\ nlq \in Seq(Event)
  BY BaseTypes
<1>3. \A q \in Pid : Alive(q)' <=> Alive(q) \/ q = c
  BY <1>1, <1>2 DEF Alive
<1>4. \A q \in Pid : ExitUnread(q)' <=> ExitUnread(q)
  <2>1. CASE ~cnOn
    BY <1>1, <2>1 DEF Deliver, ExitUnread
  <2>2. CASE cnOn
    <3> DEFINE e == ForkEvent(p, c)
               n == Len(nlq) + 1
    <3>1. e \in Event /\ e.what = "FORK"
      <4>1. 0 \in Status
        BY ParamsAssumption
      <4> QED
        BY <1>1, <4>1 DEF ForkEvent, Event
    <3>2. nlq' = Append(nlq, e)
      BY <1>1, <2>2 DEF Deliver
    <3> HIDE DEF e
    <3>3. Extends(nlq, nlq', e, n)
      BY <1>2, <3>1, <3>2, AppendExtends
    <3> HIDE DEF n
    <3> QED
      BY <3>1, <3>3, UnreadGrows
  <2> QED
    BY <2>1, <2>2 DEF HistoryTyped
<1>5. Reporting' /\ Pending'
  BY <1>1, <1>3, <1>4, StillPending DEF PInv, InHand, Taken, Noticed
<1>6. OneCsad' /\ NoZombie'
  BY <1>1, <1>2 DEF PInv, OneCsad, Greets, NoZombie
<1> QED
  BY <1>5, <1>6 DEF PInv

(* jobd is told of the exit, and so is csad if jobd leaves it to csad.     *)
LEMMA DiePending ==
  ASSUME Base, MInv, PInv, Steady, NEW p \in Pid, NEW s \in Status, Die(p, s)
  PROVE  PInv'
<1>1. /\ Alive(p) /\ pstate' = [pstate EXCEPT ![p] = "gone"]
      /\ ~cnOn \/ Len(nlq) < EvCap
      /\ ~tsOn \/ Len(tsq) < EvCap
      /\ nlq' = Deliver(cnOn, nlq, ExitEvent(p, s))
      /\ tsq' = Deliver(tsOn, tsq, [pid |-> p, status |-> s])
      /\ UNCHANGED <<tbl, sel, fromCsa, csad>>
  BY DEF Die, ExitStep, Exit, Alive, HasRoom, Steady, Faithful, AfterReap
<1>2. pstate \in [Pid -> {"free", "run", "zombie", "gone"}] /\ nlq \in Seq(Event)
      /\ tsq \in Seq(TaskRec) /\ SelReady
  BY BaseTypes
<1>3. OneCsad' /\ NoZombie'
  BY <1>1, <1>2 DEF PInv, OneCsad, Greets, NoZombie
<1>4. CASE ~cnOn
  <2>1. /\ fromCsa = <<>> /\ sel = "none" /\ csad = "off"
        /\ \A q \in Pid : JobIn(tbl, q) = NoJid
    BY <1>4, OffIs
  <2>2. ~tbl.csaActive
    BY <2>1 DEF Base, KInv, Conversation, PInv, OneCsad
  <2> QED
    BY <1>1, <1>3, <2>1, <2>2, OffPending
<1>5. CASE cnOn
  <2> DEFINE e == ExitEvent(p, s)
             n == Len(nlq) + 1
             x == [pid |-> p, status |-> s]
             k == Len(tsq) + 1
  <2>1. e \in Event /\ e.what = "EXIT" /\ e.pid = p /\ x \in TaskRec /\ x.pid = p
    BY DEF ExitEvent, Event, TaskRec
  <2>2. nlq' = Append(nlq, e) /\ (tsOn => tsq' = Append(tsq, x)) /\ (~tsOn => tsq' = tsq)
    BY <1>1, <1>5 DEF Deliver
  <2> HIDE DEF e, x
  <2>3. Extends(nlq, nlq', e, n)
    BY <1>2, <2>1, <2>2, AppendExtends
  <2>4. tsOn => Extends(tsq, tsq', x, k)
    BY <1>2, <2>1, <2>2, AppendExtends
  <2> HIDE DEF n, k
  <2>5. \A q \in Pid : ExitUnread(q)' <=> ExitUnread(q) \/ q = p
    BY <2>1, <2>3, UnreadGrows
  <2>6. /\ \A q \in Pid : InHand(q) => InHand(q)'
        /\ tsOn => InHand(p)'
    <3>1. \A q \in Pid : Noticed(q) => Noticed(q)'
      BY <1>1 DEF Noticed
    <3>2. \A q \in Pid : Taken(q) => Taken(q)'
      BY <2>2, <2>4 DEF Extends, Taken
    <3>3. tsOn => Taken(p)'
      BY <2>1, <2>4 DEF Extends, Taken
    <3> QED
      BY <3>1, <3>2, <3>3 DEF InHand
  <2>7. tbl.csaActive \/ sel = "accept" => tsOn
    <3>1. csad = "connected" => tsOn
      BY DEF MInv, Switched
    <3>2. tbl.csaActive => csad = "connected"
      BY DEF PInv, OneCsad, Base, KInv, Conversation
    <3>3. sel = "accept" => fromCsa # <<>>
      <4>1. sel = "accept" => \E i \in DOMAIN fromCsa : fromCsa[i] = CONNECT
        BY <1>2 DEF SelReady, ToSet
      <4> QED
        BY <4>1
    <3>4. sel = "accept" => csad = "connected"
      BY <3>3 DEF PInv, OneCsad
    <3> QED
      BY <3>1, <3>2, <3>4
  <2>8. Reporting'
    BY <1>1, <2>5, <2>6, <2>7 DEF PInv, Reporting
  <2>9. \A q \in Pid : ~Alive(q)' => ~Alive(q) \/ q = p
    BY <1>1, <1>2 DEF Alive
  <2>10. Pending'
    BY <1>1, <2>5, <2>6, <2>9 DEF PInv, Pending
  <2> QED
    BY <1>3, <2>8, <2>10 DEF PInv
<1> QED
  BY <1>4, <1>5, BaseTypes

(***************************************************************************)
(* jobd                                                                    *)
(***************************************************************************)
(* A handler keeps the connection of a csad that jobd has accepted, and    *)
(* opens none.                                                             *)
LEMMA TracksOne ==
  ASSUME OneCsad, tbl.csaActive \in BOOLEAN, tbl'.csaActive \in BOOLEAN,
         Tracks(tbl, tbl'), UNCHANGED <<fromCsa, csad>>, sel' # "csa"
  PROVE  OneCsad' /\ tbl'.csaActive = tbl.csaActive
<1>1. tbl'.csaPeer = tbl.csaPeer /\ tbl'.csaActive = tbl.csaActive
  BY DEF OneCsad, Tracks
<1> QED
  BY <1>1 DEF OneCsad, Greets

LEMMA ActiveTypes ==
  ASSUME NEW t \in Memory PROVE t.csaActive \in BOOLEAN /\ t.csaPeer \in BOOLEAN
BY DEF Memory

LEMMA RecvForkPending ==
  ASSUME Base, Base', MInv, PInv, RecvNl, Head(nlq).what = "FORK"
  PROVE  PInv'
<1> DEFINE c == Head(nlq).pid
           p == Head(nlq).parent
           t == Answered(tbl)
<1>1. /\ sel = "none" /\ sel' = "none" /\ nlq # <<>> /\ nlq' = Tail(nlq)
      /\ tbl' = ForkHandler(t, p, c)
      /\ UNCHANGED <<pstate, tsq, fromCsa, csad>>
  BY DEF RecvNl
<1>2. Ok(tbl) /\ tbl' \in Memory /\ tbl \in Memory /\ nlq \in Seq(Event)
  <2>1. tbl' \in Memory
    BY DEF Base, FreshInv, Inv, TypeOK
  <2> QED
    BY <2>1, BaseTypes DEF Ok
<1>3. Shifts(nlq, nlq')
  BY <1>1, <1>2, TailShifts
<1>4. 1 \in DOMAIN nlq /\ Head(nlq) = nlq[1]
  BY <1>3 DEF Shifts
<1>5. c \in Pid /\ p \in Pid /\ c # p
  BY <1>4, BaseItems
<1>6. ForkOrder(1)
  BY <1>4 DEF MInv, Ordered
<1>7. JobIn(tbl, c) = NoJid /\ (Alive(c) \/ ExitAfter(1, c))
  BY <1>4, <1>6 DEF ForkOrder
<1>8. t \in Memory /\ TablesAgree(t) /\ SameMembers(tbl, t) /\ c \notin t.procTab /\ SameJobs(tbl, t)
  <2>1. c \notin tbl.procTab
    BY <1>2, <1>5, <1>7, MemberIs DEF Ok
  <2> QED
    BY <1>2, <2>1, AnsweredMembers, AnsweredLink
<1>9. Puts(t, tbl', c, JobIn(t, p)) /\ Tracks(t, tbl')
  <2> HIDE DEF c, p, t
  <2> QED
    BY <1>1, <1>5, <1>8, ForkHandlerMembers, ForkHandlerTracks
<1>10. OneCsad' /\ tbl'.csaActive = tbl.csaActive
  <2>1. Tracks(tbl, tbl')
    <3> HIDE DEF t
    <3> QED
      BY <1>8, <1>9, TracksSame, TracksTrans
  <2> HIDE DEF c, p, t
  <2> QED
    BY <1>1, <1>2, <2>1, ActiveTypes, TracksOne DEF PInv
<1>11. \A q \in Pid \ {c} : JobIn(tbl', q) = JobIn(tbl, q)
  BY <1>8, <1>9 DEF Puts, SameMembers
<1>12. \A q \in Pid : ExitUnread(q)' <=> ExitUnread(q)
  BY <1>3, UnreadShrinks
<1>13. Alive(c) \/ ExitUnread(c)
  BY <1>7 DEF ExitAfter, ExitUnread
<1> HIDE DEF c, p, t
<1>14. Reporting'
  BY <1>1, <1>10, <1>12 DEF PInv, Reporting, InHand, Taken, Noticed
<1>15. Pending'
  BY <1>1, <1>10, <1>11, <1>12, <1>13 DEF PInv, Pending, InHand, Taken, Noticed, Alive
<1>16. NoZombie'
  BY <1>1 DEF PInv, NoZombie
<1> QED
  BY <1>10, <1>14, <1>15, <1>16 DEF PInv

(* The EXIT event removes the member, or csad's notice is still to come.   *)
LEMMA RecvExitPending ==
  ASSUME Base, Base', MInv, PInv, RecvNl, Head(nlq).what = "EXIT"
  PROVE  PInv'
<1> DEFINE p == Head(nlq).pid
           t == Answered(tbl)
<1>1. /\ sel = "none" /\ sel' = "none" /\ nlq # <<>> /\ nlq' = Tail(nlq)
      /\ tbl' = ExitEventHandler(t, p, Head(nlq).status)
      /\ UNCHANGED <<pstate, tsq, fromCsa, csad>>
  BY DEF RecvNl
<1>2. Ok(tbl) /\ tbl' \in Memory /\ tbl \in Memory /\ nlq \in Seq(Event)
  <2>1. tbl' \in Memory
    BY DEF Base, FreshInv, Inv, TypeOK
  <2> QED
    BY <2>1, BaseTypes DEF Ok
<1>3. Shifts(nlq, nlq')
  BY <1>1, <1>2, TailShifts
<1>4. 1 \in DOMAIN nlq /\ Head(nlq) = nlq[1]
  BY <1>3 DEF Shifts
<1>5. p \in Pid /\ Head(nlq).status \in Status
  BY <1>4, BaseItems
<1>6. /\ t \in Memory /\ TablesAgree(t) /\ SameMembers(tbl, t) /\ t.csaActive = tbl.csaActive
      /\ SameJobs(tbl, t)
  BY <1>2, AnsweredMembers, AnsweredLink
<1>7. IF tbl.csaActive THEN SameMembers(tbl, tbl') ELSE Puts(tbl, tbl', p, NoJid)
  <2> HIDE DEF p, t
  <2>1. IF t.csaActive THEN SameMembers(t, tbl') ELSE Puts(t, tbl', p, NoJid)
    BY <1>1, <1>5, <1>6, ExitEventMembers
  <2> QED
    BY <1>6, <2>1 DEF Puts, SameMembers
<1>8. OneCsad' /\ tbl'.csaActive = tbl.csaActive
  <2> HIDE DEF p, t
  <2>1. Tracks(t, tbl')
    BY <1>1, <1>5, <1>6, ExitEventTracks
  <2>2. Tracks(tbl, tbl')
    BY <1>6, <2>1, TracksSame, TracksTrans
  <2> QED
    BY <1>1, <1>2, <2>2, ActiveTypes, TracksOne DEF PInv
<1>9. /\ \A q : ExitUnread(q)' => ExitUnread(q)
      /\ \A q : ExitUnread(q) => ExitUnread(q)' \/ q = p
  BY <1>3, UnreadShrinks
<1>10. ExitUnread(p)
  BY <1>4 DEF ExitUnread
<1> HIDE DEF p, t
<1>11. \A q \in Pid : (InHand(q)' <=> InHand(q)) /\ (Alive(q)' <=> Alive(q))
  BY <1>1 DEF InHand, Taken, Noticed, Alive
<1>12. Reporting'
  BY <1>1, <1>8, <1>9, <1>11 DEF PInv, Reporting
<1>13. Pending'
  <2>1. CASE tbl.csaActive
    <3>1. \A q \in Pid : JobIn(tbl', q) = JobIn(tbl, q)
      BY <1>7, <2>1 DEF SameMembers
    <3>2. InHand(p)
      BY <1>5, <1>10, <2>1 DEF PInv, Reporting
    <3> QED
      BY <1>8, <1>9, <1>11, <2>1, <3>1, <3>2 DEF PInv, Pending
  <2>2. CASE ~tbl.csaActive
    <3>1. JobIn(tbl', p) = NoJid /\ \A q \in Pid \ {p} : JobIn(tbl', q) = JobIn(tbl, q)
      BY <1>7, <2>2 DEF Puts
    <3> QED
      BY <1>9, <1>11, <2>2, <3>1 DEF PInv, Pending
  <2> QED
    BY <2>1, <2>2
<1>14. NoZombie'
  BY <1>1 DEF PInv, NoZombie
<1> QED
  BY <1>8, <1>12, <1>13, <1>14 DEF PInv

LEMMA SelectPending ==
  ASSUME Base, PInv, Select PROVE PInv'
<1>1. /\ nlq = <<>> /\ tbl' = Answered(tbl) /\ sel' = Source
      /\ UNCHANGED <<pstate, nlq, tsq, fromCsa, csad>>
  BY DEF Select, kvars
<1>2. tbl \in Memory
  BY BaseTypes
<1>3. /\ tbl'.procTab = tbl.procTab /\ tbl'.proc = tbl.proc
      /\ tbl'.csaActive = tbl.csaActive /\ tbl'.csaPeer = tbl.csaPeer
  BY <1>1, <1>2 DEF Answered, Memory
<1>4. sel' = "csa" => tbl.csaActive
  BY <1>1 DEF Source
<1>5. OneCsad'
  BY <1>1, <1>3, <1>4 DEF PInv, OneCsad, Greets
<1>6. Reporting'
  BY <1>1 DEF Reporting, ExitUnread
<1>7. Pending'
  BY <1>1, <1>3 DEF PInv, Pending, ExitUnread, InHand, Taken, Noticed, Alive, JobIn
<1>8. NoZombie'
  BY <1>1 DEF PInv, NoZombie
<1> QED
  BY <1>5, <1>6, <1>7, <1>8 DEF PInv

(* From now on jobd leaves exits to csad; those that it has not read are   *)
(* in csad's hands.                                                        *)
LEMMA AcceptPending ==
  ASSUME Base, PInv, AcceptCsa PROVE PInv'
<1> DEFINE k == CHOOSE i \in DOMAIN fromCsa :
                  fromCsa[i] = CONNECT /\ \A h \in 1 .. (i - 1) : fromCsa[h] # CONNECT
           rest == SubSeq(fromCsa, k + 1, Len(fromCsa))
<1>1. /\ sel = "accept" /\ sel' = "none" /\ fromCsa' = rest
      /\ tbl' = [tbl EXCEPT !.csaActive = TRUE, !.csaPeer = EOF \notin ToSet(rest), !.toCsa = <<>>]
      /\ UNCHANGED <<pstate, nlq, tsq, csad>>
  BY DEF AcceptCsa, kvars
<1>2. tbl \in Memory /\ fromCsa \in Seq(CsaItem) /\ SelReady
  BY BaseTypes
<1>3. \E i \in DOMAIN fromCsa : fromCsa[i] = CONNECT
  BY <1>1, <1>2 DEF SelReady, ToSet
<1>4. CONNECT.what = "CONNECT" /\ EOF.what = "EOF"
  BY DEF CONNECT, EOF
<1>5. csad = "connected" /\ ~tbl.csaPeer /\ Greets
  <2>1. ~tbl.csaPeer
    BY <1>3, <1>4 DEF Base, KInv, Conversation
  <2>2. fromCsa # <<>>
    BY <1>3
  <2> QED
    BY <2>1, <2>2 DEF PInv, OneCsad
<1>6. 1 \in DOMAIN fromCsa /\ fromCsa[1] = CONNECT
  BY <1>2, <1>5 DEF Greets
<1>7. k = 1
  <2>1. k \in DOMAIN fromCsa /\ \A h \in 1 .. (k - 1) : fromCsa[h] # CONNECT
    <3>1. \A h \in 1 .. (1 - 1) : fromCsa[h] # CONNECT
      OBVIOUS
    <3> QED
      BY <1>6, <3>1
  <2> HIDE DEF k
  <2>2. k \in Nat /\ k >= 1
    BY <1>2, <2>1
  <2> QED
    BY <1>6, <2>1, <2>2
<1> HIDE DEF k
<1>8. /\ \A i \in DOMAIN rest : i + 1 \in DOMAIN fromCsa /\ i + 1 > 1 /\ rest[i] = fromCsa[i + 1]
      /\ \A i \in DOMAIN fromCsa : i > 1 => i - 1 \in DOMAIN rest /\ rest[i - 1] = fromCsa[i]
  BY <1>2, <1>6, <1>7
<1> HIDE DEF rest
<1>9. \A i \in DOMAIN rest : rest[i].what = "NOTICE"
  BY <1>5, <1>8 DEF Greets
<1>10. EOF \notin ToSet(rest)
  BY <1>4, <1>9 DEF ToSet
<1>11. tbl'.csaActive = TRUE /\ tbl'.csaPeer = TRUE /\ tbl'.procTab = tbl.procTab /\ tbl'.proc = tbl.proc
  <2>1. tbl' = [tbl EXCEPT !.csaActive = TRUE, !.csaPeer = TRUE, !.toCsa = <<>>]
    BY <1>1, <1>10
  <2> QED
    BY <1>2, <2>1 DEF Memory
<1>12. OneCsad'
  BY <1>1, <1>5, <1>11 DEF OneCsad
<1>13. \A p : Noticed(p) => Noticed(p)'
  <2>1. ASSUME NEW p, Noticed(p) PROVE Noticed(p)'
    <3>1. PICK i \in DOMAIN fromCsa : fromCsa[i].what = "NOTICE" /\ fromCsa[i].pid = p
      BY <2>1 DEF Noticed
    <3>2. i > 1
      <4>1. i \in Nat /\ i >= 1
        BY <1>2
      <4> QED
        BY <1>4, <1>6, <3>1, <4>1
    <3> QED
      BY <1>1, <1>8, <3>1, <3>2 DEF Noticed
  <2> QED
    BY <2>1
<1>14. \A p \in Pid : ExitUnread(p)' => InHand(p)'
  BY <1>1, <1>13 DEF PInv, Reporting, ExitUnread, InHand, Taken
<1>15. Reporting'
  BY <1>14 DEF Reporting
<1>16. Pending'
  <2>1. ~tbl.csaActive
    BY <1>5 DEF PInv, OneCsad
  <2> QED
    BY <1>1, <1>11, <2>1 DEF PInv, Pending, ExitUnread, Alive, JobIn
<1>17. NoZombie'
  BY <1>1 DEF PInv, NoZombie
<1> QED
  BY <1>12, <1>15, <1>16, <1>17 DEF PInv

(* csad's notice removes the member it is about. *)
LEMMA NoticePending ==
  ASSUME Base, Base', MInv, PInv, RecvCsa PROVE PInv'
<1> DEFINE p == Head(fromCsa).pid
<1>1. /\ sel = "csa" /\ sel' = "none" /\ fromCsa' = Tail(fromCsa)
      /\ tbl' = IF Head(fromCsa).what = "NOTICE" THEN ExitHandler(tbl, p, Head(fromCsa).status)
                ELSE [tbl EXCEPT !.csaActive = FALSE]
      /\ UNCHANGED <<pstate, nlq, tsq, csad>>
  BY DEF RecvCsa, kvars
<1>2. /\ tbl \in Memory /\ TablesAgree(tbl) /\ tbl' \in Memory
      /\ fromCsa \in Seq(CsaItem) /\ fromCsa # <<>>
  <2>1. tbl' \in Memory
    BY DEF Base, FreshInv, Inv, TypeOK
  <2> QED
    BY <1>1, <2>1, BaseTypes DEF SelReady
<1>3. 1 \in DOMAIN fromCsa /\ Head(fromCsa) = fromCsa[1]
  BY <1>2
<1>4. tbl.csaPeer /\ tbl.csaActive /\ csad = "connected" /\ Head(fromCsa).what = "NOTICE"
  BY <1>1, <1>3 DEF PInv, OneCsad, Base, KInv, Conversation
<1>5. p \in Pid /\ Head(fromCsa).status \in Status /\ NoEvent(p)
  BY <1>1, <1>3, <1>4, BaseItems DEF MInv, Chosen
<1>6. tbl' = ExitHandler(tbl, p, Head(fromCsa).status)
  BY <1>1, <1>4
<1>7. Shifts(fromCsa, fromCsa')
  BY <1>1, <1>2, TailShifts
<1>8. \A q : Noticed(q) => Noticed(q)' \/ q = p
  <2>1. ASSUME NEW q, Noticed(q) PROVE Noticed(q)' \/ q = p
    <3>1. PICK i \in DOMAIN fromCsa : fromCsa[i].what = "NOTICE" /\ fromCsa[i].pid = q
      BY <2>1 DEF Noticed
    <3>2. CASE i = 1
      BY <1>3, <3>1, <3>2
    <3>3. CASE i # 1
      <4>1. i - 1 \in DOMAIN fromCsa' /\ fromCsa'[i - 1] = fromCsa[i]
        BY <1>7, <3>3 DEF Shifts
      <4> QED
        BY <3>1, <4>1 DEF Noticed
    <3> QED
      BY <3>2, <3>3
  <2> QED
    BY <2>1
<1> HIDE DEF p
<1>9. Puts(tbl, tbl', p, NoJid) /\ Tracks(tbl, tbl')
  BY <1>2, <1>5, <1>6, ExitHandlerMembers, ExitHandlerTracks
<1>10. tbl'.csaPeer /\ tbl'.csaActive
  BY <1>4, <1>9 DEF Tracks
<1>11. OneCsad'
  BY <1>1, <1>4, <1>10 DEF OneCsad
<1>12. ~ExitUnread(p)
  BY <1>5 DEF NoEvent, ExitUnread
<1>13. \A q \in Pid : InHand(q) => InHand(q)' \/ q = p
  BY <1>1, <1>8 DEF InHand, Taken
<1>14. \A q \in Pid : (ExitUnread(q)' <=> ExitUnread(q)) /\ (Alive(q)' <=> Alive(q))
  BY <1>1 DEF ExitUnread, Alive
<1>15. Reporting'
  BY <1>4, <1>12, <1>13, <1>14 DEF PInv, Reporting
<1>16. Pending'
  <2>1. JobIn(tbl', p) = NoJid /\ \A q \in Pid \ {p} : JobIn(tbl', q) = JobIn(tbl, q)
    BY <1>9 DEF Puts
  <2> QED
    BY <1>10, <1>13, <1>14, <2>1 DEF PInv, Pending
<1>17. NoZombie'
  BY <1>1 DEF PInv, NoZombie
<1> QED
  BY <1>11, <1>15, <1>16, <1>17 DEF PInv

(* A request puts no dead process into a job. *)
LEMMA RequestPending ==
  ASSUME Base, Base', MInv, PInv, RecvUnix, Moved PROVE PInv'
<1>1. CASE ~cnOn'
  <2>1. \E t, callers : Down(t, callers)
    BY <1>1 DEF RecvUnix
  <2>2. PICK t, callers : Down(t, callers)
    BY <2>1
  <2>3. NoZombie'
    BY DEF RecvUnix, PInv, NoZombie
  <2> QED
    BY <2>2, <2>3, DownPending
<1>2. CASE cnOn'
  <2> DEFINE c == Head(reqq).c
             r == Head(reqq).r
             done == ProcessMesg(tbl, c, r, Existing)
             R == [c : Client, r : Request]
  <2>1. /\ sel = "unix" /\ sel' = "none" /\ tbl' = done
        /\ UNCHANGED <<pstate, nlq, tsq, fromCsa, csad>>
    BY <1>2 DEF RecvUnix, Down
  <2>2. /\ Ok(tbl) /\ tbl.hid # DISABLED /\ tbl \in Memory /\ tbl' \in Memory
        /\ reqq \in Seq(R) /\ reqq # <<>>
    <3>1. tbl' \in Memory
      BY DEF Base, FreshInv, Inv, TypeOK
    <3> QED
      BY <2>1, <3>1, BaseTypes DEF Ok, SelReady
  <2>3. 1 \in DOMAIN reqq /\ Head(reqq) = reqq[1]
    <3> HIDE DEF R
    <3> QED
      BY <2>2
  <2>4. c \in Client /\ r \in Request
    BY <2>3, BaseItems
  <2> HIDE DEF c, r, R
  <2>5. Tracks(tbl, tbl')
    BY <2>1, <2>2, <2>4, ProcessMesgTracks
  <2>6. OneCsad' /\ tbl'.csaActive = tbl.csaActive
    <3> HIDE DEF done
    <3> QED
      BY <2>1, <2>2, <2>5, ActiveTypes, TracksOne DEF PInv
  <2> HIDE DEF done
  <2>7. \A q \in Pid : ~Alive(q) => JobIn(tbl', q) = JobIn(tbl, q)
    <3>1. CASE Created
      <4>1. PICK p \in Pid, j \in Jid : p \in Existing /\ Puts(tbl, tbl', p, j)
        BY <3>1 DEF Created
      <4>2. Alive(p)
        BY <4>1 DEF PInv, NoZombie, Existing, Alive
      <4> QED
        BY <4>1, <4>2 DEF Puts
    <3>2. CASE NobodyMoved
      BY <3>2 DEF NobodyMoved, SameMembers
    <3> QED
      BY <1>2, <3>1, <3>2, RequestMoves
  <2>8. \A q \in Pid : /\ ExitUnread(q)' <=> ExitUnread(q)
                       /\ InHand(q) => InHand(q)'
                       /\ Alive(q)' <=> Alive(q)
    BY <2>1 DEF ExitUnread, InHand, Taken, Noticed, Alive
  <2>9. Reporting' /\ Pending'
    BY <2>1, <2>6, <2>7, <2>8, StillPending DEF PInv
  <2>10. NoZombie'
    BY <2>1 DEF PInv, NoZombie
  <2> QED
    BY <2>6, <2>9, <2>10 DEF PInv
<1> QED
  BY <1>1, <1>2

(***************************************************************************)
(* Every step                                                              *)
(***************************************************************************)
LEMMA InitPending == ASSUME CInit PROVE PInv
<1>1. /\ nlq = <<>> /\ fromCsa = <<>> /\ sel = "none" /\ csad = "off"
      /\ tbl = InitMemory([c \in Client |-> NoAnswer])
      /\ pstate = [p \in Pid |-> IF p \in BootPid THEN "run" ELSE "free"]
  BY DEF CInit, HInit, Init, KernelInit
<1>2. ~tbl.csaActive /\ tbl.procTab = {}
  BY <1>1 DEF InitMemory
<1> QED
  BY <1>1, <1>2 DEF PInv, OneCsad, Reporting, Pending, NoZombie, JobIn

LEMMA QuietPending ==
  ASSUME Base, PInv,
         \/ UNCHANGED cvars \/ ReadEvent \/ Ask
         \/ \E small, brief \in BOOLEAN : Eop(small, brief)
         \/ \E r \in CtlCalls : Control(r)
  PROVE  PInv'
<1>1. CASE ReadEvent
  <2>1. /\ tbl' = [tbl EXCEPT !.toCsa = Tail(@)]
        /\ UNCHANGED <<pstate, nlq, tsq, sel, fromCsa, csad>>
    BY <1>1 DEF ReadEvent, CsadRead, kvars
  <2>2. /\ tbl'.csaActive = tbl.csaActive /\ tbl'.csaPeer = tbl.csaPeer
        /\ tbl'.procTab = tbl.procTab /\ tbl'.proc = tbl.proc
    BY <2>1, BaseTypes DEF Memory
  <2> QED
    BY <2>1, <2>2, SameTablesMembers, StillAll
<1>2. CASE ~ReadEvent
  <2>1. UNCHANGED <<pstate, nlq, tsq, tbl, sel, fromCsa, csad>>
    BY <1>2 DEF Ask, SubmitStep, Submit, Eop, Control, jobdSide, cvars, vars, kvars
  <2> QED
    BY <2>1, SameTablesMembers, StillAll
<1> QED
  BY <1>1, <1>2

LEMMA CNextPending ==
  ASSUME Steady, Base, Base', MInv, PInv, [CNext]_cvars PROVE PInv'
<1> Faithful
  BY DEF Steady
<1>1. CASE Begin
  BY <1>1, BeginPending
<1>2. CASE Connect
  BY <1>2, ConnectPending
<1>3. CASE Report
  BY <1>3, ReportPending
<1>4. CASE End
  BY <1>4 DEF End, CsadStop, Steady
<1>5. CASE JobdServes
  <2>1. CASE RecvNl
    <3>1. nlq \in Seq(Event) /\ nlq # <<>>
      BY <2>1, BaseTypes DEF RecvNl
    <3>2. 1 \in DOMAIN nlq /\ Head(nlq) = nlq[1]
      BY <3>1
    <3>3. Head(nlq).what \in {"FORK", "EXIT"}
      BY <3>2, BaseItems
    <3> QED
      BY <2>1, <3>3, RecvForkPending, RecvExitPending
  <2>2. CASE Select
    BY <2>2, SelectPending
  <2>3. CASE AcceptCsa
    BY <2>3, AcceptPending
  <2>4. CASE RecvCsa
    BY <2>4, NoticePending
  <2>5. CASE RecvUnix /\ Moved
    BY <2>5, RequestPending
  <2> QED
    BY <1>5, <2>1, <2>2, <2>3, <2>4, <2>5 DEF JobdServes
<1>6. CASE JobdRestarts
  <2>1. CASE Stop
    BY <2>1, DownPending DEF Stop, PInv, NoZombie
  <2>2. CASE Start
    <3>1. UNCHANGED <<pstate, nlq, tsq, tbl, sel, fromCsa, csad>>
      BY <2>2 DEF Start
    <3> QED
      BY <3>1, SameTablesMembers, StillAll
  <2> QED
    BY <1>6, <2>1, <2>2 DEF JobdRestarts
<1>7. CASE \E p \in Pid, s \in Status : Die(p, s)
  BY <1>7, DiePending
<1>8. CASE \E p, c \in Pid : Breed(p, c)
  BY <1>8, BreedPending
<1>9. CASE \E p \in Pid : ReapStep(p)
  BY <1>9 DEF ReapStep, Reap, PInv, NoZombie
<1>10. CASE \/ UNCHANGED cvars \/ ReadEvent \/ Ask
            \/ \E small, brief \in BOOLEAN : Eop(small, brief)
            \/ \E r \in CtlCalls : Control(r)
  BY <1>10, QuietPending
<1> QED
  BY <1>1, <1>2, <1>3, <1>4, <1>5, <1>6, <1>7, <1>8, <1>9, <1>10 DEF CNext

(* A member of a job that has exited will be removed: if no event is lost, *)
(* no pid used twice, nobody but job_create() moves a process, none stays  *)
(* a zombie that job_create() still finds, and csad, once started, is not  *)
(* stopped, then the exit event or csad's notice of it is on its way,      *)
(* whenever csad connects and however often jobd restarts.                 *)
THEOREM DeadAlwaysPending == ASSUME Steady PROVE CSpec => []DeadMembersPending
<1>1. CInit => PInv
  BY InitPending
<1>2. Base /\ Base' /\ MInv /\ PInv /\ [CNext]_cvars => PInv'
  BY CNextPending
<1>3. Base /\ PInv => DeadMembersPending
  BY PendingImplies
<1>4. CSpec => []MInv
  BY MembersFollowed DEF Steady
<1> QED
  BY <1>1, <1>2, <1>3, <1>4, BaseAlways, PTL DEF CSpec

(***************************************************************************)
(* The status that a job ends with                                         *)
(***************************************************************************)
(* What jobd has still to be told: the exit code of p, and that p exited   *)
(* before q, by the kernel's events and by csad's records.                 *)
EventSays(p, s) == \E i \in DOMAIN nlq : nlq[i].what = "EXIT" /\ nlq[i].pid = p /\ nlq[i].status = s
EventsInOrder(p, q) ==
  \E i, k \in DOMAIN nlq : /\ i < k /\ nlq[i].what = "EXIT" /\ nlq[i].pid = p
                           /\ nlq[k].what = "EXIT" /\ nlq[k].pid = q
RecordSays(p, s) ==
  \/ \E i \in DOMAIN tsq : tsq[i].pid = p /\ tsq[i].status = s
  \/ \E i \in DOMAIN fromCsa :
       fromCsa[i].what = "NOTICE" /\ fromCsa[i].pid = p /\ fromCsa[i].status = s
RecordsInOrder(p, q) ==
  \/ \E i, k \in DOMAIN tsq : i < k /\ tsq[i].pid = p /\ tsq[k].pid = q
  \/ \E i, k \in DOMAIN fromCsa : /\ i < k /\ fromCsa[i].what = "NOTICE" /\ fromCsa[i].pid = p
                                  /\ fromCsa[k].what = "NOTICE" /\ fromCsa[k].pid = q
  \/ Noticed(p) /\ Taken(q)

(* p is in a job of jobd's, or will be when its FORK event is read. *)
Owed(p) == JobIn(tbl, p) # NoJid \/ Unborn(p)

(* The last exit of a job that jobd has not read, as the kernel's event or *)
(* as csad's record, has the code that the job is to end with; and of two  *)
(* processes whose exits csad reports jobd has not lost the later one.     *)
LastEvent(b) ==
  \A p \in Pid, s \in Status :
    /\ EventSays(p, s) /\ b[p] \in Jid \ emptied
    /\ \A q \in Pid : EventsInOrder(p, q) => b[q] # b[p]
    => s = lastExit[b[p]]
LastRecord(b) ==
  \A p \in Pid, s \in Status :
    /\ RecordSays(p, s) /\ b[p] \in Jid \ emptied
    /\ \A q \in Pid : RecordsInOrder(p, q) => b[q] # b[p]
    => s = lastExit[b[p]]
OwedInOrder(b) ==
  \A p, q \in Pid : RecordsInOrder(p, q) /\ Owed(p) /\ b[q] # NoJid => Owed(q)
Statuses(b) == Inherited(b) /\ LastEvent(b) /\ LastRecord(b) /\ OwedInOrder(b)

(* Events and records are in the same order, and no record comes twice. *)
OrdersAgree == \A p, q \in Pid : RecordsInOrder(p, q) /\ ExitUnread(p) => EventsInOrder(p, q)
RecordedOnce == \A p \in Pid : ~RecordsInOrder(p, p)

WInv ==
  /\ lastExit \in [Jid -> Status] /\ OrdersAgree /\ RecordedOnce
  /\ \E b \in [Pid -> Jid \cup {NoJid}] : Statuses(b)

(***************************************************************************)
(* Queues that grow and shrink                                             *)
(***************************************************************************)
LEMMA EventsGrow ==
  ASSUME NEW e, NEW n, Extends(nlq, nlq', e, n)
  PROVE  /\ \A p, s : EventSays(p, s)' <=>
              EventSays(p, s) \/ (e.what = "EXIT" /\ e.pid = p /\ e.status = s)
         /\ \A p, q : EventsInOrder(p, q)' <=>
              EventsInOrder(p, q) \/ (e.what = "EXIT" /\ e.pid = q /\ ExitUnread(p))
<1>1. /\ n \in Nat /\ n \in DOMAIN nlq' /\ nlq'[n] = e
      /\ \A i \in DOMAIN nlq : i \in DOMAIN nlq' /\ nlq'[i] = nlq[i] /\ i \in Nat /\ i < n
      /\ \A i \in DOMAIN nlq' : i \in DOMAIN nlq \/ i = n
  BY DEF Extends
<1>2. \A p, s : EventSays(p, s)' <=>
        EventSays(p, s) \/ (e.what = "EXIT" /\ e.pid = p /\ e.status = s)
  BY <1>1 DEF EventSays
<1>3. ASSUME NEW p, NEW q, EventsInOrder(p, q)'
      PROVE  EventsInOrder(p, q) \/ (e.what = "EXIT" /\ e.pid = q /\ ExitUnread(p))
  <2>1. PICK i \in DOMAIN nlq', k \in DOMAIN nlq' :
          /\ i < k /\ nlq'[i].what = "EXIT" /\ nlq'[i].pid = p
          /\ nlq'[k].what = "EXIT" /\ nlq'[k].pid = q
    BY <1>3 DEF EventsInOrder
  <2>2. i \in DOMAIN nlq /\ nlq[i] = nlq'[i]
    BY <1>1, <2>1
  <2>3. ExitUnread(p)
    BY <2>1, <2>2 DEF ExitUnread
  <2>4. CASE k = n
    BY <1>1, <2>1, <2>3, <2>4
  <2>5. CASE k # n
    BY <1>1, <2>1, <2>2, <2>5 DEF EventsInOrder
  <2> QED
    BY <2>4, <2>5
<1>4. ASSUME NEW p, NEW q, EventsInOrder(p, q) \/ (e.what = "EXIT" /\ e.pid = q /\ ExitUnread(p))
      PROVE  EventsInOrder(p, q)'
  BY <1>1, <1>4 DEF EventsInOrder, ExitUnread
<1> QED
  BY <1>2, <1>3, <1>4

(* The event that jobd reads is the first, and no exit comes twice. *)
LEMMA EventsShrink ==
  ASSUME Ordered, Shifts(nlq, nlq')
  PROVE  /\ \A p, s : EventSays(p, s)' => EventSays(p, s) /\ ExitUnread(p)'
         /\ \A p, q : EventsInOrder(p, q) /\ ExitUnread(p)' => EventsInOrder(p, q)'
         /\ Head(nlq).what = "EXIT" =>
              \A h : h = Head(nlq).pid => ~ExitUnread(h)' /\ \A p : ~EventsInOrder(p, h)
<1>1. /\ 1 \in DOMAIN nlq /\ nlq[1] = Head(nlq)
      /\ \A i \in DOMAIN nlq' : i \in Nat /\ i > 0 /\ i + 1 \in DOMAIN nlq /\ nlq'[i] = nlq[i + 1]
      /\ \A i \in DOMAIN nlq :
           i \in Nat /\ (i = 1 \/ (i - 1 \in DOMAIN nlq' /\ nlq'[i - 1] = nlq[i] /\ i > 1))
  BY DEF Shifts
<1>2. \A p, s : EventSays(p, s)' => EventSays(p, s)
  BY <1>1 DEF EventSays
<1>3. \A p, s : EventSays(p, s)' => ExitUnread(p)'
  BY DEF EventSays, ExitUnread
<1>4. nlq[1].what = "EXIT" => \A k \in DOMAIN nlq : k > 1 => nlq[k].pid # nlq[1].pid
  BY <1>1 DEF Ordered, ExitOrder
<1>5. ASSUME nlq[1].what = "EXIT", NEW h, h = nlq[1].pid PROVE ~ExitUnread(h)'
  <2> SUFFICES ASSUME NEW i \in DOMAIN nlq' PROVE nlq'[i].pid # h
    BY DEF ExitUnread
  <2>1. i + 1 \in DOMAIN nlq /\ i + 1 > 1 /\ nlq'[i] = nlq[i + 1]
    BY <1>1
  <2> QED
    BY <1>4, <1>5, <2>1
<1>6. ASSUME NEW p, NEW q, EventsInOrder(p, q), ExitUnread(p)' PROVE EventsInOrder(p, q)'
  <2>1. PICK i \in DOMAIN nlq, k \in DOMAIN nlq :
          /\ i < k /\ nlq[i].what = "EXIT" /\ nlq[i].pid = p
          /\ nlq[k].what = "EXIT" /\ nlq[k].pid = q
    BY <1>6 DEF EventsInOrder
  <2>2. i # 1
    BY <1>5, <1>6, <2>1
  <2>3. i \in Nat /\ k \in Nat /\ k # 1
    BY <1>1, <2>1, <2>2
  <2>4. /\ i - 1 \in DOMAIN nlq' /\ nlq'[i - 1] = nlq[i]
        /\ k - 1 \in DOMAIN nlq' /\ nlq'[k - 1] = nlq[k]
    BY <1>1, <2>2, <2>3
  <2>5. i - 1 < k - 1
    BY <2>1, <2>3
  <2> QED
    BY <2>1, <2>4, <2>5 DEF EventsInOrder
<1>7. ASSUME nlq[1].what = "EXIT", NEW p, EventsInOrder(p, nlq[1].pid) PROVE FALSE
  <2>1. PICK i \in DOMAIN nlq, k \in DOMAIN nlq : i < k /\ nlq[k].pid = nlq[1].pid
    BY <1>7 DEF EventsInOrder
  <2>2. i \in Nat /\ k \in Nat /\ i >= 1
    BY <1>1
  <2>3. k > 1
    BY <2>1, <2>2
  <2> QED
    BY <1>4, <1>7, <2>1, <2>3
<1> QED
  BY <1>1, <1>2, <1>3, <1>5, <1>6, <1>7

(* csad takes the record x of an exit. *)
LEMMA RecordsGrow ==
  ASSUME NEW x, NEW n, Extends(tsq, tsq', x, n), fromCsa' = fromCsa
  PROVE  /\ \A p, s : RecordSays(p, s)' => RecordSays(p, s) \/ (x.pid = p /\ x.status = s)
         /\ \A p, q : RecordsInOrder(p, q)' <=> RecordsInOrder(p, q) \/ (x.pid = q /\ InHand(p))
<1>1. /\ n \in Nat /\ n \in DOMAIN tsq' /\ tsq'[n] = x
      /\ \A i \in DOMAIN tsq : i \in DOMAIN tsq' /\ tsq'[i] = tsq[i] /\ i \in Nat /\ i < n
      /\ \A i \in DOMAIN tsq' : i \in DOMAIN tsq \/ i = n
  BY DEF Extends
<1>2. \A p, s : RecordSays(p, s)' => RecordSays(p, s) \/ (x.pid = p /\ x.status = s)
  BY <1>1 DEF RecordSays
<1>3. ASSUME NEW p, NEW q, RecordsInOrder(p, q)'
      PROVE  RecordsInOrder(p, q) \/ (x.pid = q /\ InHand(p))
  <2>1. CASE \E i, k \in DOMAIN tsq' : i < k /\ tsq'[i].pid = p /\ tsq'[k].pid = q
    <3>1. PICK i \in DOMAIN tsq', k \in DOMAIN tsq' : i < k /\ tsq'[i].pid = p /\ tsq'[k].pid = q
      BY <2>1
    <3>2. i \in DOMAIN tsq /\ tsq[i] = tsq'[i]
      BY <1>1, <3>1
    <3>3. Taken(p)
      BY <3>1, <3>2 DEF Taken
    <3>4. CASE k = n
      BY <1>1, <3>1, <3>3, <3>4 DEF InHand
    <3>5. CASE k # n
      BY <1>1, <3>1, <3>2, <3>5 DEF RecordsInOrder
    <3> QED
      BY <3>4, <3>5
  <2>2. CASE \E i, k \in DOMAIN fromCsa : /\ i < k /\ fromCsa[i].what = "NOTICE" /\ fromCsa[i].pid = p
                                          /\ fromCsa[k].what = "NOTICE" /\ fromCsa[k].pid = q
    BY <2>2 DEF RecordsInOrder
  <2>3. CASE Noticed(p)' /\ Taken(q)'
    <3>1. Noticed(p)
      BY <2>3 DEF Noticed
    <3>2. Taken(q) \/ x.pid = q
      BY <1>1, <2>3 DEF Taken
    <3> QED
      BY <3>1, <3>2 DEF RecordsInOrder, InHand
  <2> QED
    BY <1>3, <2>1, <2>2, <2>3 DEF RecordsInOrder
<1>4. ASSUME NEW p, NEW q, RecordsInOrder(p, q) \/ (x.pid = q /\ InHand(p))
      PROVE  RecordsInOrder(p, q)'
  <2>1. \A r : Taken(r) => Taken(r)'
    BY <1>1 DEF Taken
  <2>2. \A r : Noticed(r) <=> Noticed(r)'
    BY DEF Noticed
  <2>3. x.pid = q => Taken(q)'
    BY <1>1 DEF Taken
  <2>4. CASE Noticed(p) /\ (Taken(q) \/ x.pid = q)
    BY <2>1, <2>2, <2>3, <2>4 DEF RecordsInOrder
  <2>5. CASE Taken(p) /\ x.pid = q
    <3>1. PICK i \in DOMAIN tsq : tsq[i].pid = p
      BY <2>5 DEF Taken
    <3>2. i \in DOMAIN tsq' /\ tsq'[i].pid = p /\ i < n
      BY <1>1, <3>1
    <3> QED
      BY <1>1, <2>5, <3>2 DEF RecordsInOrder
  <2>6. CASE \E i, k \in DOMAIN tsq : i < k /\ tsq[i].pid = p /\ tsq[k].pid = q
    <3>1. \E i, k \in DOMAIN tsq' : i < k /\ tsq'[i].pid = p /\ tsq'[k].pid = q
      BY <1>1, <2>6
    <3> QED
      BY <3>1 DEF RecordsInOrder
  <2>7. CASE \E i, k \in DOMAIN fromCsa : /\ i < k /\ fromCsa[i].what = "NOTICE" /\ fromCsa[i].pid = p
                                          /\ fromCsa[k].what = "NOTICE" /\ fromCsa[k].pid = q
    BY <2>7 DEF RecordsInOrder
  <2> QED
    BY <1>4, <2>4, <2>5, <2>6, <2>7 DEF RecordsInOrder, InHand
<1> QED
  BY <1>2, <1>3, <1>4

(* What csad has to say to jobd stays as it is. *)
StillRecords ==
  /\ \A p, s : RecordSays(p, s)' => RecordSays(p, s)
  /\ \A p, q : RecordsInOrder(p, q)' <=> RecordsInOrder(p, q)

LEMMA SameRecords == ASSUME tsq' = tsq, fromCsa' = fromCsa PROVE StillRecords
BY DEF StillRecords, RecordSays, RecordsInOrder, Noticed, Taken

(* jobd reads the first item of the csa socket, a notice or not. *)
LEMMA RecordsShrink ==
  ASSUME Shifts(fromCsa, fromCsa'), tsq' = tsq
  PROVE  /\ \A p, s : RecordSays(p, s)' => RecordSays(p, s)
         /\ \A p, q : RecordsInOrder(p, q)' => RecordsInOrder(p, q)
         /\ fromCsa[1].what # "NOTICE" => StillRecords
         /\ fromCsa[1].what = "NOTICE" =>
              /\ \A p, q : RecordsInOrder(p, q) => RecordsInOrder(p, q)' \/ p = fromCsa[1].pid
              /\ \A p : Taken(p) \/ Noticed(p)' => RecordsInOrder(fromCsa[1].pid, p)
<1>1. /\ 1 \in DOMAIN fromCsa
      /\ \A i \in DOMAIN fromCsa' :
           i \in Nat /\ i > 0 /\ i + 1 \in DOMAIN fromCsa /\ fromCsa'[i] = fromCsa[i + 1]
      /\ \A i \in DOMAIN fromCsa :
           i \in Nat /\ (i = 1 \/ (i - 1 \in DOMAIN fromCsa' /\ fromCsa'[i - 1] = fromCsa[i] /\ i > 1))
  BY DEF Shifts
<1>2. \A p : Noticed(p)' => Noticed(p)
  BY <1>1 DEF Noticed
<1>3. \A p : Noticed(p) => Noticed(p)' \/ (fromCsa[1].what = "NOTICE" /\ p = fromCsa[1].pid)
  BY <1>1 DEF Noticed
<1>4. \A p : Taken(p)' <=> Taken(p)
  BY DEF Taken
<1>5. \A p, s : RecordSays(p, s)' => RecordSays(p, s)
  BY <1>1 DEF RecordSays
<1>6. ASSUME NEW p, NEW q, RecordsInOrder(p, q)' PROVE RecordsInOrder(p, q)
  <2>1. CASE \E i, k \in DOMAIN fromCsa' :
               /\ i < k /\ fromCsa'[i].what = "NOTICE" /\ fromCsa'[i].pid = p
               /\ fromCsa'[k].what = "NOTICE" /\ fromCsa'[k].pid = q
    <3>1. PICK i \in DOMAIN fromCsa', k \in DOMAIN fromCsa' :
               /\ i < k /\ fromCsa'[i].what = "NOTICE" /\ fromCsa'[i].pid = p
               /\ fromCsa'[k].what = "NOTICE" /\ fromCsa'[k].pid = q
      BY <2>1
    <3>2. i + 1 < k + 1
      BY <1>1, <3>1
    <3> QED
      BY <1>1, <3>1, <3>2 DEF RecordsInOrder
  <2>2. CASE Noticed(p)' /\ Taken(q)'
    BY <1>2, <1>4, <2>2 DEF RecordsInOrder
  <2>3. CASE \E i, k \in DOMAIN tsq' : i < k /\ tsq'[i].pid = p /\ tsq'[k].pid = q
    BY <2>3 DEF RecordsInOrder
  <2> QED
    BY <1>6, <2>1, <2>2, <2>3 DEF RecordsInOrder
<1>7. ASSUME NEW p, NEW q, RecordsInOrder(p, q), fromCsa[1].what = "NOTICE" => p # fromCsa[1].pid
      PROVE  RecordsInOrder(p, q)'
  <2>1. CASE \E i, k \in DOMAIN fromCsa :
               /\ i < k /\ fromCsa[i].what = "NOTICE" /\ fromCsa[i].pid = p
               /\ fromCsa[k].what = "NOTICE" /\ fromCsa[k].pid = q
    <3>1. PICK i \in DOMAIN fromCsa, k \in DOMAIN fromCsa :
               /\ i < k /\ fromCsa[i].what = "NOTICE" /\ fromCsa[i].pid = p
               /\ fromCsa[k].what = "NOTICE" /\ fromCsa[k].pid = q
      BY <2>1
    <3>2. i # 1
      BY <1>7, <3>1
    <3>3. i \in Nat /\ k \in Nat /\ k # 1
      BY <1>1, <3>1, <3>2
    <3>4. /\ i - 1 \in DOMAIN fromCsa' /\ fromCsa'[i - 1] = fromCsa[i]
          /\ k - 1 \in DOMAIN fromCsa' /\ fromCsa'[k - 1] = fromCsa[k]
      BY <1>1, <3>2, <3>3
    <3>5. i - 1 < k - 1
      BY <3>1, <3>3
    <3> QED
      BY <3>1, <3>4, <3>5 DEF RecordsInOrder
  <2>2. CASE Noticed(p) /\ Taken(q)
    BY <1>3, <1>4, <1>7, <2>2 DEF RecordsInOrder
  <2>3. CASE \E i, k \in DOMAIN tsq : i < k /\ tsq[i].pid = p /\ tsq[k].pid = q
    BY <2>3 DEF RecordsInOrder
  <2> QED
    BY <1>7, <2>1, <2>2, <2>3 DEF RecordsInOrder
<1>8. ASSUME fromCsa[1].what = "NOTICE", NEW p, Taken(p) \/ Noticed(p)'
      PROVE  RecordsInOrder(fromCsa[1].pid, p)
  <2>1. Noticed(fromCsa[1].pid)
    BY <1>1, <1>8 DEF Noticed
  <2>2. CASE Taken(p)
    BY <2>1, <2>2 DEF RecordsInOrder
  <2>3. CASE Noticed(p)'
    <3>1. PICK i \in DOMAIN fromCsa' : fromCsa'[i].what = "NOTICE" /\ fromCsa'[i].pid = p
      BY <2>3 DEF Noticed
    <3>2. i + 1 \in DOMAIN fromCsa /\ fromCsa[i + 1] = fromCsa'[i] /\ 1 < i + 1
      BY <1>1, <3>1
    <3> QED
      BY <1>1, <1>8, <3>1, <3>2 DEF RecordsInOrder
  <2> QED
    BY <1>8, <2>2, <2>3
<1>9. fromCsa[1].what # "NOTICE" => StillRecords
  BY <1>5, <1>6, <1>7 DEF StillRecords
<1> QED
  BY <1>5, <1>6, <1>7, <1>8, <1>9

(* csad passes a record on to jobd. *)
LEMMA RecordsPass ==
  ASSUME Shifts(tsq, tsq'), NEW x, NEW n, Extends(fromCsa, fromCsa', x, n),
         x.what = "NOTICE", x.pid = tsq[1].pid, x.status = tsq[1].status
  PROVE  StillRecords
<1>1. /\ 1 \in DOMAIN tsq
      /\ \A i \in DOMAIN tsq' : i \in Nat /\ i > 0 /\ i + 1 \in DOMAIN tsq /\ tsq'[i] = tsq[i + 1]
      /\ \A i \in DOMAIN tsq :
           i \in Nat /\ (i = 1 \/ (i - 1 \in DOMAIN tsq' /\ tsq'[i - 1] = tsq[i] /\ i > 1))
  BY DEF Shifts
<1>2. /\ n \in Nat /\ n \in DOMAIN fromCsa' /\ fromCsa'[n] = x
      /\ \A i \in DOMAIN fromCsa : i \in DOMAIN fromCsa' /\ fromCsa'[i] = fromCsa[i] /\ i \in Nat /\ i < n
      /\ \A i \in DOMAIN fromCsa' : i \in DOMAIN fromCsa \/ i = n
  BY DEF Extends
<1>3. \A p, s : RecordSays(p, s)' => RecordSays(p, s)
  BY <1>1, <1>2 DEF RecordSays
<1>4. /\ \A p : Noticed(p)' <=> Noticed(p) \/ p = x.pid
      /\ \A p : Taken(p)' => Taken(p)
      /\ \A p : Taken(p) => Taken(p)' \/ p = x.pid
      /\ Taken(x.pid)
  BY <1>1, <1>2 DEF Noticed, Taken
<1>5. ASSUME NEW p, NEW q, RecordsInOrder(p, q)' PROVE RecordsInOrder(p, q)
  <2>1. CASE \E i, k \in DOMAIN tsq' : i < k /\ tsq'[i].pid = p /\ tsq'[k].pid = q
    <3>1. PICK i \in DOMAIN tsq', k \in DOMAIN tsq' : i < k /\ tsq'[i].pid = p /\ tsq'[k].pid = q
      BY <2>1
    <3>2. i + 1 < k + 1
      BY <1>1, <3>1
    <3> QED
      BY <1>1, <3>1, <3>2 DEF RecordsInOrder
  <2>2. CASE \E i, k \in DOMAIN fromCsa' :
               /\ i < k /\ fromCsa'[i].what = "NOTICE" /\ fromCsa'[i].pid = p
               /\ fromCsa'[k].what = "NOTICE" /\ fromCsa'[k].pid = q
    <3>1. PICK i \in DOMAIN fromCsa', k \in DOMAIN fromCsa' :
               /\ i < k /\ fromCsa'[i].what = "NOTICE" /\ fromCsa'[i].pid = p
               /\ fromCsa'[k].what = "NOTICE" /\ fromCsa'[k].pid = q
      BY <2>2
    <3>2. i \in DOMAIN fromCsa /\ fromCsa[i] = fromCsa'[i]
      BY <1>2, <3>1
    <3>3. CASE k = n
      <4>1. Noticed(p) /\ q = x.pid
        BY <1>2, <3>1, <3>2, <3>3 DEF Noticed
      <4> QED
        BY <1>4, <4>1 DEF RecordsInOrder
    <3>4. CASE k # n
      BY <1>2, <3>1, <3>2, <3>4 DEF RecordsInOrder
    <3> QED
      BY <3>3, <3>4
  <2>3. CASE Noticed(p)' /\ Taken(q)'
    <3>1. CASE Noticed(p)
      BY <1>4, <2>3, <3>1 DEF RecordsInOrder
    <3>2. CASE p = x.pid
      <4>1. PICK k \in DOMAIN tsq' : tsq'[k].pid = q
        BY <2>3 DEF Taken
      <4>2. k + 1 \in DOMAIN tsq /\ tsq[k + 1].pid = q /\ 1 < k + 1
        BY <1>1, <4>1
      <4> QED
        BY <1>1, <3>2, <4>2 DEF RecordsInOrder
    <3> QED
      BY <1>4, <2>3, <3>1, <3>2
  <2> QED
    BY <1>5, <2>1, <2>2, <2>3 DEF RecordsInOrder
<1>6. ASSUME NEW p, NEW q, RecordsInOrder(p, q) PROVE RecordsInOrder(p, q)'
  <2>1. CASE \E i, k \in DOMAIN tsq : i < k /\ tsq[i].pid = p /\ tsq[k].pid = q
    <3>1. PICK i \in DOMAIN tsq, k \in DOMAIN tsq : i < k /\ tsq[i].pid = p /\ tsq[k].pid = q
      BY <2>1
    <3>2. i \in Nat /\ k \in Nat /\ i >= 1 /\ k # 1
      BY <1>1, <3>1
    <3>3. k - 1 \in DOMAIN tsq' /\ tsq'[k - 1].pid = q
      BY <1>1, <3>1, <3>2
    <3>4. CASE i = 1
      <4>1. Noticed(p)' /\ Taken(q)'
        BY <1>4, <3>1, <3>3, <3>4 DEF Taken
      <4> QED
        BY <4>1 DEF RecordsInOrder
    <3>5. CASE i # 1
      <4>1. i - 1 \in DOMAIN tsq' /\ tsq'[i - 1].pid = p /\ i - 1 < k - 1
        BY <1>1, <3>1, <3>2, <3>5
      <4> QED
        BY <3>3, <4>1 DEF RecordsInOrder
    <3> QED
      BY <3>4, <3>5
  <2>2. CASE \E i, k \in DOMAIN fromCsa :
               /\ i < k /\ fromCsa[i].what = "NOTICE" /\ fromCsa[i].pid = p
               /\ fromCsa[k].what = "NOTICE" /\ fromCsa[k].pid = q
    <3>1. \E i, k \in DOMAIN fromCsa' :
               /\ i < k /\ fromCsa'[i].what = "NOTICE" /\ fromCsa'[i].pid = p
               /\ fromCsa'[k].what = "NOTICE" /\ fromCsa'[k].pid = q
      BY <1>2, <2>2
    <3> QED
      BY <3>1 DEF RecordsInOrder
  <2>3. CASE Noticed(p) /\ Taken(q)
    <3>1. CASE Taken(q)'
      BY <1>4, <2>3, <3>1 DEF RecordsInOrder
    <3>2. CASE q = x.pid
      <4>1. PICK i \in DOMAIN fromCsa : fromCsa[i].what = "NOTICE" /\ fromCsa[i].pid = p
        BY <2>3 DEF Noticed
      <4>2. i \in DOMAIN fromCsa' /\ fromCsa'[i] = fromCsa[i] /\ i < n
        BY <1>2, <4>1
      <4> QED
        BY <1>2, <3>2, <4>1, <4>2 DEF RecordsInOrder
    <3> QED
      BY <1>4, <2>3, <3>1, <3>2
  <2> QED
    BY <1>6, <2>1, <2>2, <2>3 DEF RecordsInOrder
<1> QED
  BY <1>3, <1>5, <1>6 DEF StillRecords

(* The unread FORK events that bring processes into job j start from a     *)
(* process that jobd has in j.                                             *)
LEMMA FirstOfJob ==
  ASSUME Base, Ordered, NEW b, Inherited(b), NEW q \in Pid, Unborn(q)
  PROVE  \E i \in DOMAIN nlq :
           /\ nlq[i].what = "FORK" /\ b[nlq[i].parent] = b[q]
           /\ JobIn(tbl, nlq[i].parent) = b[q]
<1> DEFINE T == {i \in DOMAIN nlq : nlq[i].what = "FORK" /\ b[nlq[i].pid] = b[q]}
<1>1. nlq \in Seq(Event)
  BY BaseTypes
<1>2. DOMAIN nlq \subseteq Nat
  BY <1>1
<1>3. T \in SUBSET Nat /\ T # {}
  BY <1>2 DEF Unborn
<1>4. PICK i \in T : \A k \in T : i <= k
  <2> HIDE DEF T
  <2> QED
    BY <1>3, MinExists
<1>5. PICK x : x = nlq[i].parent
  OBVIOUS
<1>6. /\ i \in DOMAIN nlq /\ i \in Nat /\ nlq[i].what = "FORK" /\ b[nlq[i].pid] = b[q]
      /\ x \in Pid /\ nlq[i].pid # x
  BY <1>2, <1>4, <1>5, BaseItems
<1>7. b[x] = b[q]
  BY <1>5, <1>6 DEF Inherited
<1>8. ForkOrder(i)
  BY <1>6 DEF Ordered
<1>9. ~Unborn(x)
  <2> SUFFICES ASSUME NEW k \in DOMAIN nlq, nlq[k].what = "FORK", nlq[k].pid = x PROVE FALSE
    BY DEF Unborn
  <2>1. k \in T
    BY <1>7
  <2>2. k \in Nat /\ i <= k
    BY <1>2, <1>4, <2>1
  <2>3. i # k
    BY <1>6
  <2>4. k > i
    BY <1>6, <2>2, <2>3
  <2> QED
    BY <1>5, <1>8, <2>4 DEF ForkOrder
<1>10. Alive(x) \/ ExitUnread(x)
  BY <1>5, <1>8 DEF ForkOrder, ExitAfter, ExitUnread
<1>11. JobIn(tbl, x) = b[x]
  BY <1>6, <1>9, <1>10 DEF Inherited
<1> QED
  BY <1>5, <1>6, <1>7, <1>11

(***************************************************************************)
(* Steps that neither exit nor removal has a part in                       *)
(***************************************************************************)
LEMMA StillStatuses ==
  ASSUME Base, WInv, StillMembers, StillRecords, UNCHANGED <<lastExit, emptied>>
  PROVE  WInv'
<1>1. /\ nlq' = nlq /\ lastExit' = lastExit /\ emptied' = emptied
      /\ \A p \in Pid : JobIn(tbl', p) = JobIn(tbl, p)
  BY DEF StillMembers, SameMembers
<1>2. /\ \A p, s : EventSays(p, s)' <=> EventSays(p, s)
      /\ \A p, q : EventsInOrder(p, q)' <=> EventsInOrder(p, q)
      /\ \A p : ExitUnread(p)' <=> ExitUnread(p)
      /\ \A p \in Pid : Owed(p)' <=> Owed(p)
  BY <1>1 DEF EventSays, EventsInOrder, ExitUnread, Owed, Unborn
<1>3. PICK b \in [Pid -> Jid \cup {NoJid}] : Statuses(b)
  BY DEF WInv
<1>4. Inherited(b)'
  BY <1>3, StillInherited DEF Statuses
<1>5. LastEvent(b)'
  BY <1>1, <1>2, <1>3 DEF Statuses, LastEvent
<1>6. LastRecord(b)'
  BY <1>1, <1>3 DEF Statuses, LastRecord, StillRecords
<1>7. OwedInOrder(b)'
  BY <1>2, <1>3 DEF Statuses, OwedInOrder, StillRecords
<1>8. Statuses(b)'
  BY <1>4, <1>5, <1>6, <1>7 DEF Statuses
<1>9. OrdersAgree' /\ RecordedOnce' /\ lastExit' \in [Jid -> Status]
  BY <1>1, <1>2 DEF WInv, OrdersAgree, RecordedOnce, StillRecords
<1> QED
  BY <1>3, <1>8, <1>9 DEF WInv

(* Nothing is on its way and nobody is in a job. *)
LEMMA OffStatuses ==
  ASSUME lastExit' \in [Jid -> Status], nlq' = <<>>, tsq' = <<>>, fromCsa' = <<>>,
         \A p \in Pid : JobIn(tbl', p) = NoJid /\ belongs'[p] = NoJid
  PROVE  WInv'
<1> DEFINE b == [p \in Pid |-> NoJid]
<1>1. DOMAIN nlq' = {} /\ DOMAIN tsq' = {} /\ DOMAIN fromCsa' = {}
  BY EmptyQueue
<1>2. /\ \A p, s : ~EventSays(p, s)' /\ ~RecordSays(p, s)'
      /\ \A p, q : ~RecordsInOrder(p, q)'
      /\ \A p : ~Unborn(p)' /\ ~ExitUnread(p)'
  BY <1>1 DEF EventSays, RecordSays, RecordsInOrder, Noticed, Unborn, ExitUnread
<1>3. PICK d \in [Pid -> Jid \cup {NoJid}] : d = b
  OBVIOUS
<1>4. \A p \in Pid : d[p] = NoJid
  BY <1>3
<1> HIDE DEF b
<1>5. Inherited(d)'
  BY <1>1, <1>2, <1>4 DEF Inherited
<1>6. LastEvent(d)' /\ LastRecord(d)' /\ OwedInOrder(d)' /\ OrdersAgree' /\ RecordedOnce'
  BY <1>2 DEF LastEvent, LastRecord, OwedInOrder, OrdersAgree, RecordedOnce
<1>7. Statuses(d)'
  BY <1>5, <1>6 DEF Statuses
<1> QED
  BY <1>3, <1>6, <1>7 DEF WInv

LEMMA AsideStatuses ==
  ASSUME Base, WInv, UNCHANGED <<pstate, nlq, tsq, fromCsa>>, UNCHANGED hvars,
         tbl'.procTab = tbl.procTab, tbl'.proc = tbl.proc
  PROVE  WInv'
<1>1. StillMembers
  BY NothingMoves DEF hvars
<1>2. StillRecords
  BY SameRecords
<1> QED
  BY <1>1, <1>2, StillStatuses DEF hvars

LEMMA QuietStatuses ==
  ASSUME Base, WInv,
         \/ UNCHANGED cvars \/ Begin \/ ReadEvent \/ Ask
         \/ Select /\ UNCHANGED hvars
         \/ \E small, brief \in BOOLEAN : Eop(small, brief)
         \/ \E r \in CtlCalls : Control(r)
  PROVE  WInv'
<1>1. CASE ReadEvent
  <2>1. /\ tbl' = [tbl EXCEPT !.toCsa = Tail(@)]
        /\ UNCHANGED <<pstate, nlq, tsq, fromCsa>> /\ UNCHANGED hvars
    BY <1>1 DEF ReadEvent, CsadRead, kvars
  <2>2. tbl'.procTab = tbl.procTab /\ tbl'.proc = tbl.proc
    BY <2>1, BaseTypes DEF Memory
  <2> QED
    BY <2>1, <2>2, AsideStatuses
<1>2. CASE Select /\ UNCHANGED hvars
  <2>1. tbl' = Answered(tbl) /\ UNCHANGED <<pstate, nlq, tsq, fromCsa>>
    BY <1>2 DEF Select, kvars
  <2>2. tbl'.procTab = tbl.procTab /\ tbl'.proc = tbl.proc
    BY <2>1, BaseTypes DEF Answered, Memory
  <2> QED
    BY <1>2, <2>1, <2>2, AsideStatuses
<1>3. CASE ~ReadEvent /\ ~(Select /\ UNCHANGED hvars)
  <2>1. UNCHANGED <<pstate, nlq, tsq, tbl, fromCsa>> /\ UNCHANGED hvars
    BY <1>3 DEF Begin, CsadStart, Ask, SubmitStep, Submit, Eop, Control, jobdSide, cvars, vars, kvars
  <2> QED
    BY <2>1, AsideStatuses
<1> QED
  BY <1>1, <1>2, <1>3

LEMMA ConnectStatuses ==
  ASSUME Base, PInv, WInv, Connect PROVE WInv'
<1>1. /\ csad = "listening" /\ fromCsa' = Append(fromCsa, CONNECT)
      /\ UNCHANGED <<pstate, nlq, tsq, tbl>> /\ UNCHANGED hvars
  BY DEF Connect, CsadConnect, kvars
<1>2. fromCsa = <<>>
  BY <1>1 DEF PInv, OneCsad
<1>3. fromCsa' = <<CONNECT>>
  BY <1>1, <1>2
<1>4. CONNECT.what # "NOTICE"
  BY DEF CONNECT
<1>5. /\ DOMAIN fromCsa = {}
      /\ \A i \in DOMAIN fromCsa' : fromCsa'[i].what # "NOTICE"
  BY <1>2, <1>3, <1>4, EmptyQueue
<1>6. StillRecords
  BY <1>1, <1>5 DEF StillRecords, RecordSays, RecordsInOrder, Noticed, Taken
<1>7. StillMembers
  BY <1>1, NothingMoves DEF hvars
<1> QED
  BY <1>1, <1>6, <1>7, StillStatuses DEF hvars

LEMMA ReportStatuses ==
  ASSUME Base, WInv, Report PROVE WInv'
<1> DEFINE note == Notice(Head(tsq).pid, Head(tsq).status)
           n == Len(fromCsa) + 1
<1>1. /\ tsq # <<>> /\ fromCsa' = Append(fromCsa, note) /\ tsq' = Tail(tsq)
      /\ UNCHANGED <<pstate, nlq, tbl>> /\ UNCHANGED hvars
  BY DEF Report, CsadReport
<1>2. tsq \in Seq(TaskRec) /\ fromCsa \in Seq(CsaItem)
  BY BaseTypes
<1>3. Shifts(tsq, tsq')
  BY <1>1, <1>2, TailShifts
<1>4. 1 \in DOMAIN tsq /\ Head(tsq) = tsq[1]
  BY <1>3 DEF Shifts
<1>5. /\ note.what = "NOTICE" /\ note.pid = tsq[1].pid /\ note.status = tsq[1].status
      /\ note \in CsaItem
  <2>1. tsq[1].pid \in Pid /\ tsq[1].status \in Status
    BY <1>4, BaseItems
  <2> QED
    BY <1>4, <2>1 DEF Notice, CsaItem
<1> HIDE DEF note
<1>6. Extends(fromCsa, fromCsa', note, n)
  BY <1>1, <1>2, <1>5, AppendExtends
<1> HIDE DEF n
<1>7. StillRecords
  BY <1>3, <1>5, <1>6, RecordsPass
<1>8. StillMembers
  BY <1>1, NothingMoves DEF hvars
<1> QED
  BY <1>1, <1>7, <1>8, StillStatuses DEF hvars

(* What jobd drops when it accepts csad is the connection alone. *)
LEMMA AcceptStatuses ==
  ASSUME Base, PInv, WInv, AcceptCsa, UNCHANGED hvars PROVE WInv'
<1> DEFINE k == CHOOSE i \in DOMAIN fromCsa :
                  fromCsa[i] = CONNECT /\ \A h \in 1 .. (i - 1) : fromCsa[h] # CONNECT
           rest == SubSeq(fromCsa, k + 1, Len(fromCsa))
<1>1. /\ sel = "accept" /\ fromCsa' = rest
      /\ tbl' = [tbl EXCEPT !.csaActive = TRUE, !.csaPeer = EOF \notin ToSet(rest), !.toCsa = <<>>]
      /\ UNCHANGED <<pstate, nlq, tsq>>
  BY DEF AcceptCsa, kvars
<1>2. tbl \in Memory /\ fromCsa \in Seq(CsaItem) /\ SelReady
  BY BaseTypes
<1>3. \E i \in DOMAIN fromCsa : fromCsa[i] = CONNECT
  BY <1>1, <1>2 DEF SelReady, ToSet
<1>4. CONNECT.what = "CONNECT"
  BY DEF CONNECT
<1>5. Greets
  <2>1. ~tbl.csaPeer
    BY <1>3, <1>4 DEF Base, KInv, Conversation
  <2>2. fromCsa # <<>>
    BY <1>3
  <2> QED
    BY <2>1, <2>2 DEF PInv, OneCsad
<1>6. fromCsa # <<>> /\ 1 \in DOMAIN fromCsa /\ fromCsa[1] = CONNECT
  BY <1>2, <1>5 DEF Greets
<1>7. k = 1
  <2>1. k \in DOMAIN fromCsa /\ \A h \in 1 .. (k - 1) : fromCsa[h] # CONNECT
    <3>1. \A h \in 1 .. (1 - 1) : fromCsa[h] # CONNECT
      OBVIOUS
    <3> QED
      BY <1>6, <3>1
  <2> HIDE DEF k
  <2>2. k \in Nat /\ k >= 1
    BY <1>2, <2>1
  <2> QED
    BY <1>6, <2>1, <2>2
<1> HIDE DEF k
<1>8. fromCsa' = Tail(fromCsa)
  BY <1>1, <1>2, <1>6, <1>7
<1>9. Shifts(fromCsa, fromCsa')
  BY <1>2, <1>6, <1>8, TailShifts
<1>10. StillRecords
  BY <1>1, <1>4, <1>6, <1>9, RecordsShrink
<1> HIDE DEF rest
<1>11. tbl'.procTab = tbl.procTab /\ tbl'.proc = tbl.proc
  BY <1>1, <1>2 DEF Memory
<1>12. StillMembers
  BY <1>1, <1>11, NothingMoves DEF hvars
<1> QED
  BY <1>10, <1>12, StillStatuses DEF hvars

(* jobd goes down, or comes up. *)
LEMMA DownStatuses ==
  ASSUME NEW t, NEW callers, Down(t, callers), belongs' = [p \in Pid |-> NoJid],
         lastExit' \in [Jid -> Status]
  PROVE  WInv'
<1>1. \A p \in Pid : JobIn(tbl', p) = NoJid
  BY DEF Down, InitMemory, JobIn
<1>2. \A p \in Pid : belongs'[p] = NoJid
  OBVIOUS
<1> QED
  BY <1>1, <1>2, OffStatuses DEF Down

LEMMA RestartStatuses ==
  ASSUME MInv, WInv, JobdRestarts
  PROVE  WInv'
<1>1. belongs' = [p \in Pid |-> NoJid] /\ lastExit' = lastExit /\ (Stop \/ Start)
  BY DEF JobdRestarts
<1>2. lastExit' \in [Jid -> Status]
  BY <1>1 DEF WInv
<1>3. CASE Stop
  BY <1>1, <1>2, <1>3, DownStatuses DEF Stop
<1>4. CASE Start
  <2>1. ~cnOn /\ UNCHANGED <<nlq, tsq, tbl, fromCsa>>
    BY <1>4 DEF Start
  <2>2. \A p \in Pid : JobIn(tbl', p) = NoJid /\ belongs'[p] = NoJid
    BY <1>1, <2>1, OffIs
  <2> QED
    BY <1>2, <2>1, <2>2, OffIs, OffStatuses
<1> QED
  BY <1>1, <1>3, <1>4

(* A child that jobd has not heard of is in no queue but that of its FORK  *)
(* event.                                                                  *)
LEMMA BreedStatuses ==
  ASSUME Base, MInv, WInv, Faithful, NEW p \in Pid, NEW c \in Pid, Breed(p, c)
  PROVE  WInv'
<1>1. /\ Alive(p) /\ ~Born(c) /\ pstate' = [pstate EXCEPT ![c] = "run"] /\ p # c
      /\ ~cnOn \/ Len(nlq) < EvCap
      /\ nlq' = Deliver(cnOn, nlq, ForkEvent(p, c))
      /\ belongs' = [belongs EXCEPT ![c] = belongs[p]]
      /\ UNCHANGED <<tsq, tbl, fromCsa, lastExit, emptied>>
  BY DEF Breed, ForkStep, Fork, Inherit, Alive, Born, HasRoom, Faithful
<1>2. Ordered /\ KnownProcs /\ belongs \in [Pid -> Jid \cup {NoJid}]
  BY DEF MInv, HistoryTyped
<1>3. CASE ~cnOn
  <2>1. nlq' = <<>> /\ tsq' = <<>> /\ fromCsa' = <<>>
    BY <1>1, <1>3, OffIs DEF Deliver
  <2>2. \A q \in Pid : belongs'[q] = NoJid /\ JobIn(tbl', q) = NoJid
    BY <1>1, <1>2, <1>3, OffIs
  <2>3. lastExit' \in [Jid -> Status]
    BY <1>1 DEF WInv
  <2> QED
    BY <2>1, <2>2, <2>3, OffStatuses
<1>4. CASE cnOn
  <2> DEFINE e == ForkEvent(p, c)
             n == Len(nlq) + 1
  <2>1. e \in Event /\ e.what = "FORK" /\ e.pid = c
    <3>1. 0 \in Status
      BY ParamsAssumption
    <3> QED
      BY <1>1, <3>1 DEF ForkEvent, Event
  <2>2. nlq' = Append(nlq, e) /\ nlq \in Seq(Event)
    BY <1>1, <1>4, BaseTypes DEF Deliver
  <2> HIDE DEF e
  <2>3. Extends(nlq, nlq', e, n)
    BY <2>1, <2>2, AppendExtends
  <2> HIDE DEF n
  <2>4. /\ \A q, s : EventSays(q, s)' <=> EventSays(q, s)
        /\ \A q, r : EventsInOrder(q, r)' <=> EventsInOrder(q, r)
    BY <2>1, <2>3, EventsGrow
  <2>5. /\ \A q : Unborn(q)' <=> Unborn(q) \/ q = c
        /\ \A q : ExitUnread(q)' <=> ExitUnread(q)
    BY <2>1, <2>3, UnreadGrows
  <2>6. StillRecords
    BY <1>1, SameRecords
  <2>7. PICK b \in [Pid -> Jid \cup {NoJid}] : Statuses(b)
    BY DEF WInv
  <2>8. PICK d \in [Pid -> Jid \cup {NoJid}] : d = [b EXCEPT ![c] = b[p]]
    BY <2>7
  <2>9. Inherited(d)'
    <3>1. SameMembers(tbl, tbl') /\ Inherited(b)
      BY <1>1, <2>7 DEF SameMembers, Statuses
    <3> QED
      BY <1>1, <1>2, <2>3, <2>8, <3>1, ForkInherited DEF e
  (* No exit and no record is about the child. *)
  <2>10. /\ \A s : ~EventSays(c, s) /\ ~RecordSays(c, s)
         /\ \A q : ~EventsInOrder(q, c) /\ ~RecordsInOrder(q, c) /\ ~RecordsInOrder(c, q)
    <3>1. ~ExitUnread(c)
      BY <1>1, <1>2 DEF Ordered, ExitOrder, Dead, ExitUnread
    <3>2. ~Taken(c) /\ ~Noticed(c)
      BY <1>1, <1>2 DEF KnownProcs, Dead, Taken, Noticed
    <3>3. /\ \A s : EventSays(c, s) => ExitUnread(c)
          /\ \A q : EventsInOrder(q, c) => ExitUnread(c)
      BY DEF EventSays, EventsInOrder, ExitUnread
    <3>4. \A s : RecordSays(c, s) => Taken(c) \/ Noticed(c)
      BY DEF RecordSays, Taken, Noticed
    <3>5. \A q : RecordsInOrder(q, c) \/ RecordsInOrder(c, q) => Taken(c) \/ Noticed(c)
      BY DEF RecordsInOrder, Taken, Noticed
    <3> QED
      BY <3>1, <3>2, <3>3, <3>4, <3>5
  <2>11. \A q \in Pid : q # c => d[q] = b[q]
    BY <2>8
  <2>12. LastEvent(d)'
    BY <1>1, <2>4, <2>7, <2>10, <2>11 DEF Statuses, LastEvent
  <2>13. LastRecord(d)'
    BY <1>1, <2>6, <2>7, <2>10, <2>11 DEF Statuses, LastRecord, StillRecords
  <2>14. OwedInOrder(d)'
    <3>1. \A q \in Pid : q # c => (Owed(q)' <=> Owed(q))
      BY <1>1, <2>5 DEF Owed
    <3> QED
      BY <2>6, <2>7, <2>10, <2>11, <3>1 DEF Statuses, OwedInOrder, StillRecords
  <2>15. OrdersAgree' /\ RecordedOnce' /\ lastExit' \in [Jid -> Status]
    BY <1>1, <2>4, <2>5, <2>6 DEF WInv, OrdersAgree, RecordedOnce, StillRecords
  <2> QED
    BY <2>9, <2>12, <2>13, <2>14, <2>15 DEF WInv, Statuses
<1> QED
  BY <1>3, <1>4

(* Who is said to have exited has an unread exit or a record. *)
LEMMA SaidUnread ==
  /\ \A p, s : EventSays(p, s) => ExitUnread(p)
  /\ \A p, q : EventsInOrder(p, q) => ExitUnread(p) /\ ExitUnread(q)
  /\ \A p, s : RecordSays(p, s) => InHand(p)
  /\ \A p, q : RecordsInOrder(p, q) => InHand(p) /\ InHand(q)
<1>1. \A p, s : EventSays(p, s) => ExitUnread(p)
  BY DEF EventSays, ExitUnread
<1>2. \A p, q : EventsInOrder(p, q) => ExitUnread(p) /\ ExitUnread(q)
  BY DEF EventsInOrder, ExitUnread
<1>3. \A p, s : RecordSays(p, s) => InHand(p)
  BY DEF RecordSays, InHand, Taken, Noticed
<1>4. \A p, q : RecordsInOrder(p, q) => InHand(p) /\ InHand(q)
  BY DEF RecordsInOrder, InHand, Taken, Noticed
<1> QED
  BY <1>1, <1>2, <1>3, <1>4

LEMMA UnreadDead ==
  ASSUME Base, MInv
  PROVE  \A p \in Pid : ExitUnread(p) \/ InHand(p) => Dead(p)
BY DEF MInv, Ordered, ExitOrder, ExitUnread, KnownProcs, InHand, Taken, Noticed

(* The exit that comes last, for the kernel and for csad, is the last of   *)
(* its job.                                                                *)
LEMMA DieStatuses ==
  ASSUME Base, MInv, PInv, WInv, Steady, NEW p \in Pid, NEW s \in Status, Die(p, s)
  PROVE  WInv'
<1>1. /\ Alive(p) /\ pstate' = [pstate EXCEPT ![p] = "gone"]
      /\ ~cnOn \/ Len(nlq) < EvCap
      /\ ~tsOn \/ Len(tsq) < EvCap
      /\ nlq' = Deliver(cnOn, nlq, ExitEvent(p, s))
      /\ tsq' = Deliver(tsOn, tsq, [pid |-> p, status |-> s])
      /\ belongs' = [belongs EXCEPT ![p] = NoJid] /\ emptied' = emptied
      /\ lastExit' = IF belongs[p] = NoJid THEN lastExit ELSE [lastExit EXCEPT ![belongs[p]] = s]
      /\ UNCHANGED <<tbl, fromCsa>>
  BY DEF Die, ExitStep, Exit, Leave, Alive, HasRoom, Steady, Faithful, AfterReap
<1>2. /\ pstate \in [Pid -> {"free", "run", "zombie", "gone"}] /\ nlq \in Seq(Event)
      /\ tsq \in Seq(TaskRec) /\ belongs \in [Pid -> Jid \cup {NoJid}]
      /\ lastExit \in [Jid -> Status]
  BY BaseTypes DEF MInv, HistoryTyped, WInv
<1>3. /\ lastExit' \in [Jid -> Status]
      /\ \A j \in Jid : lastExit'[j] = IF j = belongs[p] THEN s ELSE lastExit[j]
  BY <1>1, <1>2, NoJidIsNoJob
<1>4. CASE ~cnOn
  <2>1. nlq' = <<>> /\ tsq' = <<>> /\ fromCsa' = <<>>
    BY <1>1, <1>4, OffIs DEF Deliver
  <2>2. \A q \in Pid : belongs'[q] = NoJid /\ JobIn(tbl', q) = NoJid
    BY <1>1, <1>2, <1>4, OffIs
  <2> QED
    BY <1>3, <2>1, <2>2, OffStatuses
<1>5. CASE cnOn
  <2> DEFINE e == ExitEvent(p, s)
             n == Len(nlq) + 1
             x == [pid |-> p, status |-> s]
             k == Len(tsq) + 1
  <2>1. /\ e \in Event /\ e.what = "EXIT" /\ e.pid = p /\ e.status = s
        /\ x \in TaskRec /\ x.pid = p /\ x.status = s
    BY DEF ExitEvent, Event, TaskRec
  <2>2. nlq' = Append(nlq, e) /\ (tsOn => tsq' = Append(tsq, x)) /\ (~tsOn => tsq' = tsq)
    BY <1>1, <1>5 DEF Deliver
  <2> HIDE DEF e, x
  <2>3. Extends(nlq, nlq', e, n)
    BY <1>2, <2>1, <2>2, AppendExtends
  <2>4. tsOn => Extends(tsq, tsq', x, k)
    BY <1>2, <2>1, <2>2, AppendExtends
  <2> HIDE DEF n, k
  <2>5. /\ \A q, v : EventSays(q, v)' <=> EventSays(q, v) \/ (q = p /\ v = s)
        /\ \A q, r : EventsInOrder(q, r)' <=> EventsInOrder(q, r) \/ (r = p /\ ExitUnread(q))
    BY <2>1, <2>3, EventsGrow
  <2>6. /\ \A q : Unborn(q)' <=> Unborn(q)
        /\ \A q : ExitUnread(q)' <=> ExitUnread(q) \/ q = p
    BY <2>1, <2>3, UnreadGrows
  <2>7. ~ExitUnread(p) /\ ~InHand(p)
    BY <1>1, UnreadDead DEF Dead
  <2>8. /\ \A q, v : RecordSays(q, v)' => RecordSays(q, v) \/ (q = p /\ v = s)
        /\ \A q, r : RecordsInOrder(q, r)' <=> RecordsInOrder(q, r) \/ (r = p /\ InHand(q))
    <3>1. CASE tsOn
      BY <1>1, <2>1, <2>4, <3>1, RecordsGrow
    <3>2. CASE ~tsOn
      <4>1. tsq = <<>> /\ csad = "off"
        BY <3>2 DEF MInv, Switched
      <4>2. tsq' = <<>> /\ fromCsa = <<>> /\ fromCsa' = <<>>
        BY <1>1, <2>2, <3>2, <4>1 DEF PInv, OneCsad
      <4>3. DOMAIN tsq = {} /\ DOMAIN tsq' = {} /\ DOMAIN fromCsa = {} /\ DOMAIN fromCsa' = {}
        BY <4>1, <4>2, EmptyQueue
      <4> QED
        BY <4>3 DEF RecordSays, RecordsInOrder, InHand, Noticed, Taken
    <3> QED
      BY <3>1, <3>2
  <2>9. PICK b \in [Pid -> Jid \cup {NoJid}] : Statuses(b)
    BY DEF WInv
  <2>10. b[p] = belongs[p] /\ (Unborn(p) \/ JobIn(tbl, p) = b[p])
    BY <1>1, <2>9 DEF Statuses, Inherited
  <2>11. Inherited(b)'
    <3>1. /\ \A q \in Pid : Alive(q)' <=> Alive(q) /\ q # p
          /\ \A q \in Pid \ {p} : belongs'[q] = belongs[q]
          /\ SameMembers(tbl, tbl') /\ Inherited(b)
      BY <1>1, <1>2, <2>9 DEF Alive, SameMembers, Statuses
    <3> QED
      BY <1>1, <2>3, <3>1, ExitInherited DEF e
  <2>12. LastEvent(b)'
    <3> SUFFICES ASSUME NEW q \in Pid, NEW v \in Status, EventSays(q, v)', b[q] \in Jid \ emptied',
                        \A r \in Pid : EventsInOrder(q, r)' => b[r] # b[q]
                 PROVE  v = lastExit'[b[q]]
      BY DEF LastEvent
    <3>1. CASE q = p
      <4>1. v = s
        BY <2>5, <2>7, <3>1, SaidUnread
      <4> QED
        BY <1>3, <2>10, <3>1, <4>1
    <3>2. CASE q # p
      <4>1. EventSays(q, v) /\ ExitUnread(q)
        BY <2>5, <3>2, SaidUnread
      <4>2. b[p] # b[q]
        BY <2>5, <4>1
      <4>3. v = lastExit[b[q]]
        BY <1>1, <2>5, <2>9, <4>1 DEF Statuses, LastEvent
      <4> QED
        BY <1>3, <2>10, <4>2, <4>3
    <3> QED
      BY <3>1, <3>2
  <2>13. LastRecord(b)'
    <3> SUFFICES ASSUME NEW q \in Pid, NEW v \in Status, RecordSays(q, v)', b[q] \in Jid \ emptied',
                        \A r \in Pid : RecordsInOrder(q, r)' => b[r] # b[q]
                 PROVE  v = lastExit'[b[q]]
      BY DEF LastRecord
    <3>1. CASE q = p
      <4>1. v = s
        BY <2>7, <2>8, <3>1, SaidUnread
      <4> QED
        BY <1>3, <2>10, <3>1, <4>1
    <3>2. CASE q # p
      <4>1. RecordSays(q, v) /\ InHand(q)
        BY <2>8, <3>2, SaidUnread
      <4>2. b[p] # b[q]
        BY <2>8, <4>1
      <4>3. v = lastExit[b[q]]
        BY <1>1, <2>8, <2>9, <4>1 DEF Statuses, LastRecord
      <4> QED
        BY <1>3, <2>10, <4>2, <4>3
    <3> QED
      BY <3>1, <3>2
  <2>14. OwedInOrder(b)'
    <3>1. \A q \in Pid : Owed(q)' <=> Owed(q)
      BY <1>1, <2>6 DEF Owed
    <3>2. b[p] # NoJid => Owed(p)
      BY <2>10 DEF Owed
    <3> QED
      BY <2>8, <2>9, <3>1, <3>2 DEF Statuses, OwedInOrder
  <2>15. OrdersAgree'
    <3> SUFFICES ASSUME NEW q \in Pid, NEW r \in Pid, RecordsInOrder(q, r)', ExitUnread(q)'
                 PROVE  EventsInOrder(q, r)'
      BY DEF OrdersAgree
    <3>1. q # p
      BY <2>7, <2>8, SaidUnread
    <3>2. ExitUnread(q)
      BY <2>6, <3>1
    <3> QED
      BY <2>5, <2>8, <3>2 DEF WInv, OrdersAgree
  <2>16. RecordedOnce'
    BY <2>7, <2>8 DEF WInv, RecordedOnce
  <2> QED
    BY <1>3, <2>9, <2>11, <2>12, <2>13, <2>14, <2>15, <2>16 DEF WInv, Statuses
<1> QED
  BY <1>4, <1>5, BaseTypes

(***************************************************************************)
(* jobd reads an event                                                     *)
(***************************************************************************)
LEMMA ReadStatuses ==
  ASSUME WInv, Ordered, Shifts(nlq, nlq'), StillRecords, UNCHANGED <<lastExit, emptied>>,
         \A q : ExitUnread(q)' => ExitUnread(q),
         NEW b \in [Pid -> Jid \cup {NoJid}], Statuses(b), Inherited(b)', OwedInOrder(b)'
  PROVE  WInv'
<1>1. /\ \A p, s : EventSays(p, s)' => EventSays(p, s) /\ ExitUnread(p)'
      /\ \A p, q : EventsInOrder(p, q) /\ ExitUnread(p)' => EventsInOrder(p, q)'
  BY EventsShrink
<1>2. LastEvent(b)'
  BY <1>1 DEF Statuses, LastEvent
<1>3. LastRecord(b)'
  BY DEF Statuses, LastRecord, StillRecords
<1>4. OrdersAgree' /\ RecordedOnce'
  BY <1>1 DEF WInv, OrdersAgree, RecordedOnce, StillRecords
<1> QED
  BY <1>2, <1>3, <1>4 DEF WInv, Statuses

LEMMA RecvForkStatuses ==
  ASSUME Base, MInv, WInv, RecvNl, UNCHANGED hvars, Head(nlq).what = "FORK"
  PROVE  WInv'
<1>1. /\ nlq # <<>> /\ nlq' = Tail(nlq)
      /\ tbl' = ForkHandler(Answered(tbl), Head(nlq).parent, Head(nlq).pid)
      /\ UNCHANGED <<pstate, tsq, fromCsa, belongs, lastExit, emptied>>
  BY DEF RecvNl, hvars
<1>2. Ok(tbl) /\ nlq \in Seq(Event) /\ Ordered
  BY BaseTypes DEF Ok, MInv
<1>3. Shifts(nlq, nlq')
  BY <1>1, <1>2, TailShifts
<1>4. 1 \in DOMAIN nlq /\ Head(nlq) = nlq[1]
  BY <1>3 DEF Shifts
<1>5. PICK c \in Pid, p \in Pid : c = Head(nlq).pid /\ p = Head(nlq).parent /\ c # p
  BY <1>4, BaseItems
<1>6. ForkOrder(1)
  BY <1>2, <1>4 DEF Ordered
<1>7. JobIn(tbl, c) = NoJid /\ (Alive(c) \/ ExitAfter(1, c))
  BY <1>4, <1>5, <1>6 DEF ForkOrder
<1>8. Puts(tbl, tbl', c, JobIn(tbl, p))
  <2>1. PICK t : t = Answered(tbl)
    OBVIOUS
  <2>2. t \in Memory /\ TablesAgree(t) /\ SameMembers(tbl, t) /\ c \notin t.procTab
    <3>1. c \notin tbl.procTab
      BY <1>2, <1>7, MemberIs DEF Ok
    <3> QED
      BY <1>2, <2>1, <3>1, AnsweredMembers
  <2>3. Puts(t, tbl', c, JobIn(t, p))
    BY <1>1, <1>5, <2>1, <2>2, ForkHandlerMembers
  <2> QED
    BY <2>2, <2>3 DEF Puts, SameMembers
<1>9. \A q \in Pid : Alive(q)' <=> Alive(q)
  BY <1>1 DEF Alive
<1>10. /\ \A q : Unborn(q)' => Unborn(q)
       /\ \A q : Unborn(q) => Unborn(q)' \/ q = c
       /\ \A q : ExitUnread(q)' <=> ExitUnread(q)
  BY <1>3, <1>5, UnreadShrinks
<1>11. PICK b \in [Pid -> Jid \cup {NoJid}] : Statuses(b)
  BY DEF WInv
<1>12. Inherited(b)'
  <2>1. Inherited(b) /\ belongs' = belongs
    BY <1>1, <1>11 DEF Statuses
  <2> QED
    BY <1>2, <1>3, <1>5, <1>8, <1>9, <2>1, ReadForkInherited
<1>13. StillRecords
  BY <1>1, SameRecords
<1>14. OwedInOrder(b)'
  <2>1. \A q \in Pid : Owed(q)' => Owed(q)
    <3>1. Unborn(c)
      BY <1>4, <1>5 DEF Unborn
    <3> QED
      BY <1>8, <1>10, <3>1 DEF Owed, Puts
  <2>2. ASSUME NEW q \in Pid, Owed(q), b[q] # NoJid PROVE Owed(q)'
    <3>1. CASE q = c
      <4>1. Alive(c)' \/ ExitUnread(c)'
        BY <1>7, <1>9, <1>10 DEF ExitAfter, ExitUnread
      <4>2. Unborn(c)' \/ JobIn(tbl', c) = b[c]
        BY <1>12, <4>1 DEF Inherited
      <4> QED
        BY <2>2, <3>1, <4>2 DEF Owed
    <3>2. CASE q # c
      BY <1>8, <1>10, <2>2, <3>2 DEF Owed, Puts
    <3> QED
      BY <3>1, <3>2
  <2> QED
    BY <1>11, <1>13, <2>1, <2>2 DEF Statuses, OwedInOrder, StillRecords
<1> QED
  BY <1>1, <1>2, <1>3, <1>10, <1>11, <1>12, <1>13, <1>14, ReadStatuses

(* Without csad's notices jobd removes processes in the order in which     *)
(* they exited.                                                            *)
LEMMA RecvExitStatuses ==
  ASSUME Base, MInv, PInv, WInv, RecvNl, UNCHANGED hvars, Head(nlq).what = "EXIT"
  PROVE  WInv'
<1>1. /\ nlq # <<>> /\ nlq' = Tail(nlq)
      /\ tbl' = ExitEventHandler(Answered(tbl), Head(nlq).pid, Head(nlq).status)
      /\ UNCHANGED <<pstate, tsq, fromCsa, belongs, lastExit, emptied>>
  BY DEF RecvNl, hvars
<1>2. Ok(tbl) /\ nlq \in Seq(Event) /\ Ordered
  BY BaseTypes DEF Ok, MInv
<1>3. Shifts(nlq, nlq')
  BY <1>1, <1>2, TailShifts
<1>4. 1 \in DOMAIN nlq /\ Head(nlq) = nlq[1]
  BY <1>3 DEF Shifts
<1>5. PICK h \in Pid, s \in Status : h = Head(nlq).pid /\ s = Head(nlq).status
  BY <1>4, BaseItems
<1>6. IF tbl.csaActive THEN SameMembers(tbl, tbl') ELSE Puts(tbl, tbl', h, NoJid)
  <2>1. PICK t : t = Answered(tbl)
    OBVIOUS
  <2>2. t \in Memory /\ TablesAgree(t) /\ SameMembers(tbl, t) /\ t.csaActive = tbl.csaActive
    BY <1>2, <2>1, AnsweredMembers
  <2>3. IF t.csaActive THEN SameMembers(t, tbl') ELSE Puts(t, tbl', h, NoJid)
    BY <1>1, <1>5, <2>1, <2>2, ExitEventMembers
  <2> QED
    BY <2>2, <2>3 DEF Puts, SameMembers
<1>7. \A q \in Pid : Alive(q)' <=> Alive(q)
  BY <1>1 DEF Alive
<1>8. /\ \A q : Unborn(q)' <=> Unborn(q)
      /\ \A q : ExitUnread(q)' => ExitUnread(q)
  BY <1>3, UnreadShrinks
<1>9. PICK b \in [Pid -> Jid \cup {NoJid}] : Statuses(b)
  BY DEF WInv
<1>10. Inherited(b)'
  <2>1. Inherited(b) /\ belongs' = belongs /\ (SameMembers(tbl, tbl') \/ Puts(tbl, tbl', h, NoJid))
    BY <1>1, <1>6, <1>9 DEF Statuses
  <2> QED
    BY <1>2, <1>3, <1>5, <1>7, <2>1, ReadExitInherited
<1>11. StillRecords
  BY <1>1, SameRecords
<1>12. OwedInOrder(b)'
  <2>1. CASE tbl.csaActive
    <3>1. \A q \in Pid : Owed(q)' <=> Owed(q)
      BY <1>6, <1>8, <2>1 DEF Owed, SameMembers
    <3> QED
      BY <1>9, <1>11, <3>1 DEF Statuses, OwedInOrder, StillRecords
  <2>2. CASE ~tbl.csaActive
    <3>1. JobIn(tbl', h) = NoJid /\ \A q \in Pid \ {h} : JobIn(tbl', q) = JobIn(tbl, q)
      BY <1>6, <2>2 DEF Puts
    <3> SUFFICES ASSUME NEW p \in Pid, NEW q \in Pid, RecordsInOrder(p, q)', Owed(p)', b[q] # NoJid
                 PROVE  Owed(q)'
      BY DEF OwedInOrder
    <3>2. RecordsInOrder(p, q) /\ Owed(p)
      BY <1>8, <1>11, <3>1 DEF Owed, StillRecords
    <3>3. Owed(q)
      BY <1>9, <3>2 DEF Statuses, OwedInOrder
    <3>4. q # h
      <4> SUFFICES ASSUME q = h PROVE FALSE
        OBVIOUS
      <4>1. ~Alive(p)
        BY <3>2, SaidUnread, UnreadDead DEF Dead
      <4>2. ExitUnread(p)
        <5>1. CASE JobIn(tbl, p) # NoJid
          BY <2>2, <4>1, <5>1 DEF PInv, Pending
        <5>2. CASE Unborn(p)
          BY <1>2, <4>1, <5>2 DEF Unborn, Ordered, ForkOrder, ExitAfter, ExitUnread
        <5> QED
          BY <3>2, <5>1, <5>2 DEF Owed
      <4>3. EventsInOrder(p, h)
        BY <3>2, <4>2 DEF WInv, OrdersAgree
      <4> QED
        BY <1>2, <1>3, <1>5, <4>3, EventsShrink
    <3> QED
      BY <1>8, <3>1, <3>3, <3>4 DEF Owed
  <2> QED
    BY <2>1, <2>2
<1> QED
  BY <1>1, <1>2, <1>3, <1>8, <1>9, <1>10, <1>11, <1>12, ReadStatuses

(* csad's notices come in the order of the exits, each once. *)
LEMMA NoticeStatuses ==
  ASSUME Base, MInv, PInv, WInv, RecvCsa, UNCHANGED hvars
  PROVE  WInv'
<1>1. /\ sel = "csa" /\ fromCsa' = Tail(fromCsa)
      /\ tbl' = IF Head(fromCsa).what = "NOTICE"
                THEN ExitHandler(tbl, Head(fromCsa).pid, Head(fromCsa).status)
                ELSE [tbl EXCEPT !.csaActive = FALSE]
      /\ UNCHANGED <<pstate, nlq, tsq, belongs, lastExit, emptied>>
  BY DEF RecvCsa, kvars, hvars
<1>2. tbl \in Memory /\ TablesAgree(tbl) /\ fromCsa \in Seq(CsaItem) /\ fromCsa # <<>>
  BY <1>1, BaseTypes DEF SelReady
<1>3. 1 \in DOMAIN fromCsa /\ Head(fromCsa) = fromCsa[1]
  BY <1>2
<1>4. Head(fromCsa).what = "NOTICE"
  BY <1>1, <1>3 DEF PInv, OneCsad, Base, KInv, Conversation
<1>5. PICK h \in Pid, s \in Status : h = Head(fromCsa).pid /\ s = Head(fromCsa).status
  BY <1>3, <1>4, BaseItems
<1>6. NoEvent(h) /\ Dead(h)
  BY <1>1, <1>3, <1>4, <1>5 DEF MInv, Chosen, KnownProcs
<1>7. Puts(tbl, tbl', h, NoJid)
  BY <1>1, <1>2, <1>4, <1>5, ExitHandlerMembers
<1>8. Shifts(fromCsa, fromCsa')
  BY <1>1, <1>2, TailShifts
<1>9. /\ \A p, v : RecordSays(p, v)' => RecordSays(p, v)
      /\ \A p, q : RecordsInOrder(p, q)' => RecordsInOrder(p, q)
      /\ \A p, q : RecordsInOrder(p, q) => RecordsInOrder(p, q)' \/ p = h
      /\ \A p : Taken(p) \/ Noticed(p)' => RecordsInOrder(h, p)
  BY <1>1, <1>3, <1>4, <1>5, <1>8, RecordsShrink
<1>10. ~InHand(h)'
  <2>1. ~RecordsInOrder(h, h)
    BY DEF WInv, RecordedOnce
  <2> QED
    BY <1>1, <1>9, <2>1 DEF InHand, Taken
<1>11. /\ \A p, v : RecordSays(p, v)' => p # h
       /\ \A p, q : RecordsInOrder(p, q)' => p # h /\ q # h
  <2>1. /\ \A p, v : RecordSays(p, v)' => InHand(p)'
        /\ \A p, q : RecordsInOrder(p, q)' => InHand(p)' /\ InHand(q)'
    <3>1. \A p, v : RecordSays(p, v)' => InHand(p)'
      BY DEF RecordSays, InHand, Taken, Noticed
    <3>2. \A p, q : RecordsInOrder(p, q)' => InHand(p)' /\ InHand(q)'
      BY DEF RecordsInOrder, InHand, Taken, Noticed
    <3> QED
      BY <3>1, <3>2
  <2> QED
    BY <1>10, <2>1
<1>12. /\ \A p, v : EventSays(p, v)' <=> EventSays(p, v)
       /\ \A p, q : EventsInOrder(p, q)' <=> EventsInOrder(p, q)
       /\ \A p : ExitUnread(p)' <=> ExitUnread(p)
       /\ \A p : Unborn(p)' <=> Unborn(p)
  BY <1>1 DEF EventSays, EventsInOrder, ExitUnread, Unborn
<1>13. PICK b \in [Pid -> Jid \cup {NoJid}] : Statuses(b)
  BY DEF WInv
<1>14. Inherited(b)'
  <2>1. Inherited(b) /\ \A q \in Pid : Alive(q)' <=> Alive(q)
    BY <1>1, <1>13 DEF Statuses, Alive
  <2> QED
    BY <1>1, <1>6, <1>7, <2>1, NoticeInherited
<1>15. LastEvent(b)'
  BY <1>1, <1>12, <1>13 DEF Statuses, LastEvent
<1>16. LastRecord(b)'
  BY <1>1, <1>9, <1>11, <1>13 DEF Statuses, LastRecord
<1>17. OwedInOrder(b)'
  <2>1. \A q \in Pid : q # h => (Owed(q)' <=> Owed(q))
    BY <1>7, <1>12 DEF Owed, Puts
  <2> QED
    BY <1>9, <1>11, <1>13, <2>1 DEF Statuses, OwedInOrder
<1>18. OrdersAgree' /\ RecordedOnce' /\ lastExit' \in [Jid -> Status]
  BY <1>1, <1>9, <1>12 DEF WInv, OrdersAgree, RecordedOnce
<1> QED
  BY <1>13, <1>14, <1>15, <1>16, <1>17, <1>18 DEF WInv, Statuses

(***************************************************************************)
(* A request                                                               *)
(***************************************************************************)
(* Nobody whom jobd has still to hear of is of a job that it does not have.*)
LEMMA FreshJob ==
  ASSUME Base, MInv, NEW b, Inherited(b), NEW j \in Jid \ tbl.jobTab, NEW q \in Pid, b[q] = j
  PROVE  ~Unborn(q) /\ ~Alive(q) /\ ~ExitUnread(q) /\ JobIn(tbl, q) = NoJid
<1>1. tbl \in Memory /\ TablesAgree(tbl)
  BY BaseTypes
<1>2. \A p \in Pid : JobIn(tbl, p) # j
  BY <1>1, MemberIs, NoJidIsNoJob
<1>3. ~Unborn(q)
  BY <1>2, BaseItems, FirstOfJob DEF MInv
<1> QED
  BY <1>2, <1>3 DEF Inherited

(* A new job: who was of a job of the same ID is forgotten. *)
LEMMA CreateStatuses ==
  ASSUME Base, MInv, PInv, WInv, RecvUnix, Moved, cnOn', Created
  PROVE  WInv'
<1>1. sel = "unix" /\ UNCHANGED <<pstate, nlq, tsq, fromCsa>>
  BY DEF RecvUnix, Down
<1>2. PICK p \in Pid, j \in Jid \ tbl.jobTab :
        /\ p = Head(reqq).r.pid /\ j = tbl'.answer[Head(reqq).c].jid
        /\ Head(reqq).r.op = "CREATE" /\ p \in Existing /\ Puts(tbl, tbl', p, j)
        /\ tbl'.answer[Head(reqq).c].op = "CREATE" /\ tbl'.answer[Head(reqq).c].err = "OK"
  BY DEF Created
<1>3. Alive(p)
  BY <1>2 DEF PInv, NoZombie, Existing, Alive
<1>4. /\ belongs' = [belongs EXCEPT ![p] = j] /\ lastExit' = [lastExit EXCEPT ![j] = 0]
      /\ emptied' = (emptied \ {j}) \cup ({belongs[p], tbl.proc[p].job} \ {NoJid})
  <2>1. /\ belongs' = [belongs EXCEPT ![p] = IF pstate[p] = "run" THEN j ELSE NoJid]
        /\ lastExit' = [lastExit EXCEPT ![j] = 0]
        /\ emptied' = (emptied \ {j}) \cup ({belongs[p], tbl.proc[p].job} \ {NoJid})
    BY <1>2, Zenon DEF Moved
  <2> QED
    BY <1>3, <2>1 DEF Alive
<1>5. /\ belongs \in [Pid -> Jid \cup {NoJid}] /\ lastExit \in [Jid -> Status] /\ 0 \in Status
  BY ParamsAssumption DEF MInv, HistoryTyped, WInv
<1>6. /\ lastExit' \in [Jid -> Status] /\ \A i \in Jid : i # j => lastExit'[i] = lastExit[i]
      /\ belongs'[p] = j /\ \A q \in Pid \ {p} : belongs'[q] = belongs[q]
  BY <1>4, <1>5
<1>7. /\ \A i \in Jid \ emptied' : i # j => i \notin emptied
      /\ NoJid \notin Jid
  BY <1>4, NoJidIsNoJob
<1>8. PICK b \in [Pid -> Jid \cup {NoJid}] : Statuses(b)
  BY DEF WInv
<1>9. Inherited(b)
  BY <1>8 DEF Statuses
<1>10. \A q \in Pid : b[q] = j =>
         ~Unborn(q) /\ ~Alive(q) /\ ~ExitUnread(q) /\ JobIn(tbl, q) = NoJid
  BY <1>2, <1>9, FreshJob
<1>11. PICK a \in [Pid -> Jid \cup {NoJid}] : a = [q \in Pid |-> IF b[q] = j THEN NoJid ELSE b[q]]
  <2>1. [q \in Pid |-> IF b[q] = j THEN NoJid ELSE b[q]] \in [Pid -> Jid \cup {NoJid}]
    BY <1>8
  <2> QED
    BY <2>1
<1>12. \A q \in Pid : a[q] = IF b[q] = j THEN NoJid ELSE b[q]
  BY <1>11
<1>13. Inherited(a)
  <2>1. \A q \in Pid : Alive(q) => a[q] = belongs[q]
    BY <1>9, <1>10, <1>12 DEF Inherited
  <2>2. \A i \in DOMAIN nlq : nlq[i].what = "FORK" => a[nlq[i].pid] = a[nlq[i].parent]
    <3>1. \A i \in DOMAIN nlq : nlq[i].pid \in Pid /\ nlq[i].parent \in Pid
      BY BaseItems
    <3> QED
      BY <1>9, <1>12, <3>1 DEF Inherited
  <2>3. \A q \in Pid : ~Unborn(q) /\ (Alive(q) \/ ExitUnread(q) \/ JobIn(tbl, q) # NoJid)
           => JobIn(tbl, q) = a[q]
    BY <1>9, <1>10, <1>12 DEF Inherited
  <2> QED
    BY <2>1, <2>2, <2>3 DEF Inherited
<1>14. PICK d \in [Pid -> Jid \cup {NoJid}] : d = [a EXCEPT ![p] = j]
  BY <1>11
<1>15. Inherited(d)'
  <2>1. ~Unborn(p) /\ \A i \in DOMAIN nlq : nlq[i].what = "FORK" => nlq[i].parent # p
    BY <1>1, <1>2 DEF MInv, Chosen
  <2>2. nlq' = nlq /\ (\A q \in Pid : Alive(q)' <=> Alive(q)) /\ Puts(tbl, tbl', p, j) /\ j \in Jid
    BY <1>1, <1>2 DEF Alive
  <2> QED
    BY <1>6, <1>11, <1>13, <1>14, <2>1, <2>2, CreateInherited
<1>16. /\ \A q, v : EventSays(q, v)' <=> EventSays(q, v)
       /\ \A q, r : EventsInOrder(q, r)' <=> EventsInOrder(q, r)
       /\ \A q : ExitUnread(q)' <=> ExitUnread(q)
       /\ \A q : Unborn(q)' <=> Unborn(q)
  BY <1>1 DEF EventSays, EventsInOrder, ExitUnread, Unborn
<1>17. /\ \A q, v : RecordSays(q, v)' <=> RecordSays(q, v)
       /\ \A q, r : RecordsInOrder(q, r)' <=> RecordsInOrder(q, r)
  BY <1>1 DEF RecordSays, RecordsInOrder, Noticed, Taken
(* Who has exited is not the process of the new job. *)
<1>18. \A q \in Pid : ExitUnread(q) \/ InHand(q) => q # p
  BY <1>3, UnreadDead DEF Dead
<1>19. \A q \in Pid : q # p => d[q] = IF b[q] = j THEN NoJid ELSE b[q]
  BY <1>12, <1>14
<1>20. LastEvent(d)'
  <2> SUFFICES ASSUME NEW q \in Pid, NEW v \in Status, EventSays(q, v), d[q] \in Jid \ emptied',
                      \A r \in Pid : EventsInOrder(q, r) => d[r] # d[q]
               PROVE  v = lastExit'[d[q]]
    BY <1>16 DEF LastEvent
  <2>1. ExitUnread(q)
    BY SaidUnread
  <2>2. b[q] # j /\ d[q] = b[q]
    BY <1>10, <1>18, <1>19, <2>1
  <2>3. ASSUME NEW r \in Pid, EventsInOrder(q, r) PROVE b[r] # b[q]
    <3>1. ExitUnread(r)
      BY <2>3, SaidUnread
    <3>2. d[r] = b[r]
      BY <1>10, <1>18, <1>19, <3>1
    <3> QED
      BY <2>2, <2>3, <3>2
  <2>4. b[q] \in Jid \ emptied
    BY <1>7, <2>2
  <2>5. v = lastExit[b[q]]
    BY <1>8, <2>3, <2>4 DEF Statuses, LastEvent
  <2> QED
    BY <1>6, <2>2, <2>4, <2>5
<1>21. LastRecord(d)'
  <2> SUFFICES ASSUME NEW q \in Pid, NEW v \in Status, RecordSays(q, v), d[q] \in Jid \ emptied',
                      \A r \in Pid : RecordsInOrder(q, r) => d[r] # d[q]
               PROVE  v = lastExit'[d[q]]
    BY <1>17 DEF LastRecord
  <2>1. InHand(q)
    BY SaidUnread
  <2>2. b[q] # j /\ d[q] = b[q]
    BY <1>7, <1>18, <1>19, <2>1
  <2>3. ASSUME NEW r \in Pid, RecordsInOrder(q, r) PROVE b[r] # b[q]
    <3>1. InHand(r)
      BY <2>3, SaidUnread
    <3>2. b[r] = j \/ d[r] = b[r]
      BY <1>18, <1>19, <3>1
    <3> QED
      BY <2>2, <2>3, <3>2
  <2>4. b[q] \in Jid \ emptied
    BY <1>7, <2>2
  <2>5. v = lastExit[b[q]]
    BY <1>8, <2>3, <2>4 DEF Statuses, LastRecord
  <2> QED
    BY <1>6, <2>2, <2>4, <2>5
<1>22. OwedInOrder(d)'
  <2>1. \A q \in Pid : q # p => (Owed(q)' <=> Owed(q))
    BY <1>2, <1>16 DEF Owed, Puts
  <2> SUFFICES ASSUME NEW q \in Pid, NEW r \in Pid, RecordsInOrder(q, r), Owed(q)', d[r] # NoJid
               PROVE  Owed(r)'
    BY <1>17 DEF OwedInOrder
  <2>2. q # p /\ r # p
    BY <1>18, SaidUnread
  <2>3. b[r] # NoJid
    BY <1>19, <2>2
  <2> QED
    BY <1>8, <2>1, <2>2, <2>3 DEF Statuses, OwedInOrder
<1>23. OrdersAgree' /\ RecordedOnce'
  BY <1>16, <1>17 DEF WInv, OrdersAgree, RecordedOnce
<1>24. Statuses(d)'
  BY <1>15, <1>20, <1>21, <1>22 DEF Statuses
<1> QED
  BY <1>6, <1>23, <1>24 DEF WInv

LEMMA RequestStatuses ==
  ASSUME Base, MInv, PInv, WInv, RecvUnix, Moved
  PROVE  WInv'
<1>1. CASE ~cnOn'
  <2>1. \E t, callers : Down(t, callers)
    BY <1>1 DEF RecvUnix
  <2>2. belongs' = [p \in Pid |-> NoJid] /\ lastExit' = lastExit
    BY <1>1 DEF Moved
  <2> QED
    BY <2>1, <2>2, DownStatuses DEF WInv
<1>2. CASE cnOn' /\ Created
  BY <1>2, CreateStatuses
<1>3. CASE cnOn' /\ NobodyMoved
  <2>1. UNCHANGED <<pstate, nlq, tsq, fromCsa>>
    BY <1>3 DEF RecvUnix, Down
  <2>2. SameMembers(tbl, tbl') /\ belongs' = belongs /\ UNCHANGED <<lastExit, emptied>>
    BY <1>3 DEF NobodyMoved, hvars
  <2>3. StillMembers
    BY <2>1, <2>2 DEF StillMembers, Alive, Born
  <2>4. StillRecords
    BY <2>1, SameRecords
  <2> QED
    BY <2>2, <2>3, <2>4, StillStatuses
<1> QED
  BY <1>1, <1>2, <1>3, RequestMoves

(***************************************************************************)
(* Every step                                                              *)
(***************************************************************************)
LEMMA InitStatuses == ASSUME CInit PROVE WInv
<1>1. /\ nlq = <<>> /\ tsq = <<>> /\ fromCsa = <<>> /\ belongs = [p \in Pid |-> NoJid]
      /\ lastExit = [j \in Jid |-> 0] /\ tbl.procTab = {}
  BY DEF CInit, HInit, Init, KernelInit, InitMemory
<1>2. PICK b \in [Pid -> Jid \cup {NoJid}] : b = [p \in Pid |-> NoJid]
  OBVIOUS
<1>3. \A p \in Pid : b[p] = NoJid /\ belongs[p] = NoJid /\ JobIn(tbl, p) = NoJid
  BY <1>1, <1>2 DEF JobIn
<1>4. DOMAIN nlq = {} /\ DOMAIN tsq = {} /\ DOMAIN fromCsa = {}
  BY <1>1, EmptyQueue
<1>5. Inherited(b)
  BY <1>3, <1>4 DEF Inherited
<1>6. /\ \A p, s : ~EventSays(p, s) /\ ~RecordSays(p, s)
      /\ \A p, q : ~RecordsInOrder(p, q)
  BY <1>4 DEF EventSays, RecordSays, RecordsInOrder, Noticed
<1>7. LastEvent(b) /\ LastRecord(b) /\ OwedInOrder(b) /\ OrdersAgree /\ RecordedOnce
  BY <1>6 DEF LastEvent, LastRecord, OwedInOrder, OrdersAgree, RecordedOnce
<1>8. lastExit \in [Jid -> Status]
  <2>1. 0 \in Status
    BY ParamsAssumption
  <2> QED
    BY <1>1, <2>1
<1>9. Statuses(b)
  BY <1>5, <1>7 DEF Statuses
<1> QED
  BY <1>7, <1>8, <1>9 DEF WInv

LEMMA CNextStatuses ==
  ASSUME Steady, Base, MInv, PInv, WInv, [CNext]_cvars PROVE WInv'
<1> Faithful
  BY DEF Steady
<1>1. CASE Connect
  BY <1>1, ConnectStatuses
<1>2. CASE Report
  BY <1>2, ReportStatuses
<1>3. CASE End
  BY <1>3 DEF End, CsadStop, Steady
<1>4. CASE JobdServes
  <2>1. CASE RecvNl /\ UNCHANGED hvars
    <3>1. nlq \in Seq(Event) /\ nlq # <<>>
      BY <2>1, BaseTypes DEF RecvNl
    <3>2. 1 \in DOMAIN nlq /\ Head(nlq) = nlq[1]
      BY <3>1
    <3>3. Head(nlq).what \in {"FORK", "EXIT"}
      BY <3>2, BaseItems
    <3> QED
      BY <2>1, <3>3, RecvForkStatuses, RecvExitStatuses
  <2>2. CASE Select /\ UNCHANGED hvars
    BY <2>2, QuietStatuses
  <2>3. CASE AcceptCsa /\ UNCHANGED hvars
    BY <2>3, AcceptStatuses
  <2>4. CASE RecvCsa /\ UNCHANGED hvars
    BY <2>4, NoticeStatuses
  <2>5. CASE RecvUnix /\ Moved
    BY <2>5, RequestStatuses
  <2> QED
    BY <1>4, <2>1, <2>2, <2>3, <2>4, <2>5 DEF JobdServes
<1>5. CASE JobdRestarts
  BY <1>5, RestartStatuses
<1>6. CASE \E p \in Pid, s \in Status : Die(p, s)
  BY <1>6, DieStatuses
<1>7. CASE \E p, c \in Pid : Breed(p, c)
  BY <1>7, BreedStatuses
<1>8. CASE \E p \in Pid : ReapStep(p)
  BY <1>8 DEF ReapStep, Reap, PInv, NoZombie
<1>9. CASE \/ UNCHANGED cvars \/ Begin \/ ReadEvent \/ Ask
           \/ \E small, brief \in BOOLEAN : Eop(small, brief)
           \/ \E r \in CtlCalls : Control(r)
  BY <1>9, QuietStatuses
<1> QED
  BY <1>1, <1>2, <1>3, <1>4, <1>5, <1>6, <1>7, <1>8, <1>9 DEF CNext

(***************************************************************************)
(* What the callers of job_waitjid() are told                              *)
(***************************************************************************)
(* A handler answers nobody but callers that wait for job j, which it ends *)
(* with status s.                                                          *)
Ends(t, u, j, s) ==
  \A c \in Client :
    \/ u.answer[c] = t.answer[c]
    \/ /\ u.answer[c].op = "WAITJID" /\ u.answer[c].jid = j /\ u.answer[c].val = s
       /\ j \in Jid \ u.jobTab

LEMMA CleanupEnds ==
  ASSUME NEW t \in Memory, NEW j \in Jid
  PROVE  Ends(t, JobCleanup(t, j), j, t.job[j].waitstat)
<1>1. CASE t.job[j].refcnt # 0
  BY <1>1, Zenon DEF JobCleanup, Ends
<1>2. CASE t.job[j].refcnt = 0
  <2> DEFINE u == JobCleanup(t, j)
             a == UnlinkJobFromHash(t, j)
             b == IF a.job[j].waitcnt > 0 THEN ReplyToWaiters(a, j) ELSE a
             d == CSA_jobend(b, j)
             s == t.job[j].waitstat
  <2>0. u.jobTab = t.jobTab \ {j}
    BY <1>2, JobCleanupKeeps
  <2>1. a \in Memory /\ a.job = t.job /\ a.answer = t.answer
    <3>1. t.nJobs - 1 \in Int
      BY DEF Memory
    <3> DEFINE n == t.nJobs - 1
    <3>2. a = [t EXCEPT !.jobTab = t.jobTab \ {j}, !.nJobs = n]
      BY DEF UnlinkJobFromHash, Memory
    <3> HIDE DEF a, n
    <3> QED
      BY <3>1, <3>2 DEF Memory, n
  <2> HIDE DEF a
  <2>2. b \in Memory
    BY <2>1, ReplyToWaitersKeeps
  <2>3. \A c \in Client :
          \/ b.answer[c] = t.answer[c]
          \/ b.answer[c].op = "WAITJID" /\ b.answer[c].jid = j /\ b.answer[c].val = s
    <3>1. CASE a.job[j].waitcnt > 0
      <4> DEFINE ans == [c \in Client |->
                   IF c \in ToSet(a.job[j].waitq)
                   THEN [op |-> "WAITJID", err |-> "OK", jid |-> j,
                         val |-> a.job[j].waitstat, list |-> <<>>]
                   ELSE a.answer[c]]
                 f == [a.job EXCEPT ![j] = DropWaiters(@)]
      <4>1. b = ReplyToWaiters(a, j)
        BY <3>1
      <4>2. b.answer = ans
        <5>1. b = [a EXCEPT !.answer = ans, !.job = f]
          BY <2>1, <4>1 DEF ReplyToWaiters, Memory
        <5> HIDE DEF ans, f
        <5> QED
          BY <2>1, <5>1 DEF Memory
      <4> QED
        BY <2>1, <4>2
    <3>2. CASE ~(a.job[j].waitcnt > 0)
      BY <2>1, <3>2
    <3> QED
      BY <3>1, <3>2
  <2> HIDE DEF b, s
  <2>4. d \in Memory /\ d.answer = b.answer
    BY <2>2, JobEventsKeep DEF CSA_jobend, SendCsa, Memory
  <2>5. u = [d EXCEPT !.job[j] = FreeJob]
    BY <1>2 DEF JobCleanup, a, b
  <2> HIDE DEF d, u
  <2>6. u.answer = b.answer
    BY <2>4, <2>5 DEF Memory
  <2> QED
    BY <2>0, <2>3, <2>6 DEF Ends, u, s
<1> QED
  BY <1>1, <1>2

LEMMA DropProcEnds ==
  ASSUME NEW t \in Memory, TablesAgree(t), NEW p \in t.procTab, NEW status \in Status
  PROVE  Ends(t, DropProc(t, p, status), JobIn(t, p), status)
<1> DEFINE o == t.proc[p].job
           a == UnlinkProcFromHash(t, p)
           b == UnlinkProcFromJob(a, p, status)
           d == JobCleanup(b, o)
           u == DropProc(t, p, status)
           f == LeftBy(t, p, status)
<1>1. /\ a \in Memory /\ a.jobTab = t.jobTab /\ a.nJobs = t.nJobs /\ a.job = t.job /\ a.proc = t.proc
      /\ a.answer = t.answer
  BY DEF UnlinkProcFromHash, Memory
<1>2. o \in Jid
  BY MemberPlace
<1> HIDE DEF a
<1>3. b \in Memory /\ b.answer = a.answer /\ b.job = [a.job EXCEPT ![o] = f]
  <2>1. a.job[t.proc[p].job] = t.job[t.proc[p].job]
    BY <1>1
  <2> HIDE DEF f
  <2>2. b \in Memory /\ b.answer = a.answer
    BY <1>1, <2>1, UnlinkQueues
  <2>3. b.job = [a.job EXCEPT ![t.proc[p].job] = LeftBy(t, p, status)]
    BY <1>1, <2>1, UnlinkProcKeeps
  <2> QED
    BY <2>2, <2>3 DEF f
<1>4. f.waitstat = status
  <2>1. t.job[o] \in JobEntry
    BY <1>2 DEF Memory
  <2> HIDE DEF o
  <2> QED
    BY <2>1 DEF LeftBy, ProcLeaves, JobEntry, o
<1> HIDE DEF b, f
<1>5. b.job[o].waitstat = status
  BY <1>1, <1>2, <1>3, <1>4 DEF Memory
<1>6. Ends(b, d, o, status)
  BY <1>2, <1>3, <1>5, CleanupEnds
<1>7. d \in Memory
  <2>1. CASE b.job[o].refcnt # 0
    BY <1>3, <2>1, Zenon DEF JobCleanup
  <2>2. CASE b.job[o].refcnt = 0
    BY <1>2, <1>3, <2>2, JobCleanupKeeps, Zenon
  <2> QED
    BY <2>1, <2>2
<1> HIDE DEF d
<1>8. u = [d EXCEPT !.proc[p] = FreeProc]
  BY DEF DropProc, d, b, a
<1> HIDE DEF u
<1>9. u.answer = d.answer /\ u.jobTab = d.jobTab
  BY <1>7, <1>8 DEF Memory
<1>10. JobIn(t, p) = o
  BY DEF JobIn
<1> QED
  BY <1>1, <1>3, <1>6, <1>9, <1>10 DEF Ends, u

(* An exit ends the job of the process with its status; while CSA is       *)
(* active an EXIT event ends none.                                         *)
LEMMA ExitEnds ==
  ASSUME NEW t \in Memory, TablesAgree(t), NEW p \in Pid, NEW status \in Status
  PROVE  /\ Ends(t, ExitHandler(t, p, status), JobIn(t, p), status)
         /\ Ends(t, ExitEventHandler(t, p, status), JobIn(t, p), status)
         /\ t.csaActive => ExitEventHandler(t, p, status).answer = t.answer
<1>1. ASSUME NEW m \in Memory, TablesAgree(m)
      PROVE  Ends(m, ExitHandler(m, p, status), JobIn(m, p), status)
  <2>1. CASE p \in m.procTab
    BY <1>1, <2>1, DropProcEnds DEF ExitHandler
  <2>2. CASE p \notin m.procTab
    BY <2>2 DEF ExitHandler, Ends
  <2> QED
    BY <2>1, <2>2
<1>2. /\ Ends(t, ExitEventHandler(t, p, status), JobIn(t, p), status)
      /\ t.csaActive => ExitEventHandler(t, p, status).answer = t.answer
  <2> DEFINE noted == Noted(t, p, status)
  <2>1. ExitEventHandler(t, p, status) = IF t.csaActive THEN noted ELSE ExitHandler(noted, p, status)
    BY DEF ExitEventHandler, Noted
  <2>2. noted \in Memory /\ TablesAgree(noted)
    BY NotedAgrees
  <2>3. noted.answer = t.answer
    BY DEF Noted, Memory
  <2>4. JobIn(noted, p) = JobIn(t, p)
    <3>1. CASE p \in t.procTab
      <4> DEFINE x == [t.proc[p] EXCEPT !.exited = TRUE, !.saved = status]
      <4>1. x.job = t.proc[p].job /\ x \in ProcEntry
        BY DEF Memory, ProcEntry
      <4>2. noted = [t EXCEPT !.proc[p] = x]
        BY <3>1 DEF Memory, ProcEntry, Noted
      <4> HIDE DEF x, noted
      <4>3. noted.procTab = t.procTab /\ noted.proc[p] = x
        BY <4>1, <4>2 DEF Memory
      <4> QED
        BY <4>1, <4>3 DEF JobIn
    <3>2. CASE p \notin t.procTab
      BY <3>2 DEF Noted
    <3> QED
      BY <3>1, <3>2
  <2> HIDE DEF noted
  <2>5. Ends(noted, ExitHandler(noted, p, status), JobIn(t, p), status)
    BY <1>1, <2>2, <2>4
  <2>6. CASE t.csaActive
    BY <2>1, <2>3, <2>6 DEF Ends
  <2>7. CASE ~t.csaActive
    BY <2>1, <2>3, <2>5, <2>7 DEF Ends
  <2> QED
    BY <2>6, <2>7
<1> QED
  BY <1>1, <1>2

(* A fork of a process that jobd does not know of answers nobody.          *)
LEMMA ForkAnswers ==
  ASSUME NEW t \in Memory, TablesAgree(t), NEW p \in Pid, NEW q \in Pid \ {p}, q \notin t.procTab
  PROVE  ForkHandler(t, p, q).answer = t.answer
<1> DEFINE j == t.proc[p].job
           u == AddProcToHash(AddProcToJob(t, q, j), q)
<1>1. CASE p \notin t.procTab
  BY <1>1 DEF ForkHandler
<1>2. CASE p \in t.procTab
  <2>1. ForkHandler(t, p, q) = u
    BY <1>2 DEF ForkHandler
  <2>2. j \in Jid
    BY <1>2, MemberPlace
  <2> HIDE DEF j
  <2>3. u.answer = t.answer
    BY <2>2, JoinQueues
  <2> QED
    BY <2>1, <2>3
<1> QED
  BY <1>1, <1>2

(* Callers that are told of the end of a job other than j wait on.         *)
OnlyOf(t, u, j) ==
  \A c \in Client :
    u.answer[c] = t.answer[c] \/ (u.answer[c].op = "WAITJID" /\ u.answer[c].jid = j)

(* job_create() tells the callers that wait for the job that its process   *)
(* leaves, and nobody when it was in none.                                 *)
LEMMA InstallJobEnds ==
  ASSUME NEW t \in Memory, TablesAgree(t), NEW p \in Pid, NEW j \in Jid \ t.jobTab,
         NEW user \in User
  PROVE  /\ OnlyOf(t, InstallJob(t, p, j, user), t.proc[p].job)
         /\ p \notin t.procTab => InstallJob(t, p, j, user).answer = t.answer
<1> DEFINE isNew == p \notin t.procTab
           o == t.proc[p].job
           e == [FreeJob EXCEPT !.user = user]
           fresh == [t EXCEPT !.job[j] = e]
           left == IF isNew THEN fresh ELSE UnlinkProcFromJob(fresh, p, 0)
           joined == AddProcToJob(left, p, j)
           cleaned == IF isNew THEN AddProcToHash(joined, p) ELSE JobCleanup(joined, o)
           added == AddJobToHash(cleaned, j)
<1>1. InstallJob(t, p, j, user) = CSA_jobstart(added, j)
  BY DEF InstallJob
<1>2. e \in JobEntry
  <2>1. FreeJob \in JobEntry
    BY FreeTypes
  <2> QED
    BY <2>1 DEF FreeJob, JobEntry
<1> HIDE DEF e
<1>3. /\ fresh \in Memory /\ fresh.jobTab = t.jobTab /\ fresh.nJobs = t.nJobs /\ fresh.proc = t.proc
      /\ fresh.procTab = t.procTab /\ fresh.job = [t.job EXCEPT ![j] = e] /\ fresh.answer = t.answer
  BY <1>2 DEF Memory
<1> HIDE DEF fresh
<1>4. left \in Memory /\ left.answer = t.answer
  <2>1. CASE isNew
    BY <1>3, <2>1
  <2>2. CASE ~isNew
    <3>1. 0 \in Status /\ p \in t.procTab
      BY <2>2, ParamsAssumption
    <3>2. t.proc[p].job \in t.jobTab /\ t.proc[p].job \in Jid
      BY <3>1, MemberPlace
    <3>3. fresh.job[t.proc[p].job] = t.job[t.proc[p].job]
      BY <1>3, <3>2 DEF Memory
    <3>4. PICK s \in Status : s = 0
      BY <3>1
    <3>5. left = UnlinkProcFromJob(fresh, p, s)
      BY <2>2, <3>4
    <3> HIDE DEF left
    <3>6. fresh \in Memory /\ fresh.jobTab = t.jobTab /\ fresh.nJobs = t.nJobs /\ fresh.proc = t.proc
      BY <1>3
    <3>7. left \in Memory /\ left.answer = fresh.answer
      BY <3>1, <3>3, <3>5, <3>6, UnlinkQueues
    <3> QED
      BY <1>3, <3>7
  <2> QED
    BY <2>1, <2>2
<1> HIDE DEF left
<1>5. joined \in Memory /\ joined.answer = t.answer
  BY <1>4, AddQueues
<1> HIDE DEF joined
<1>6. cleaned \in Memory /\ OnlyOf(joined, cleaned, o) /\ (isNew => cleaned.answer = joined.answer)
  <2>1. CASE isNew
    <3>1. cleaned \in Memory /\ cleaned.answer = joined.answer
      BY <1>5, <2>1 DEF AddProcToHash, Memory
    <3> QED
      BY <3>1 DEF OnlyOf
  <2>2. CASE ~isNew
    <3>1. o \in Jid
      BY <2>2, MemberPlace
    <3>2. cleaned = JobCleanup(joined, o)
      BY <2>2
    <3> HIDE DEF cleaned, o
    <3>3. OnlyOf(joined, cleaned, o)
      BY <1>5, <3>1, <3>2, CleanupEnds DEF Ends, OnlyOf
    <3>4. CASE joined.job[o].refcnt # 0
      BY <1>5, <2>2, <3>2, <3>3, <3>4 DEF JobCleanup
    <3>5. CASE joined.job[o].refcnt = 0
      BY <1>5, <2>2, <3>1, <3>2, <3>3, <3>5, JobCleanupKeeps
    <3> QED
      BY <3>4, <3>5
  <2> QED
    BY <2>1, <2>2
<1> HIDE DEF cleaned
<1>7. added \in Memory /\ added.answer = cleaned.answer
  <2>1. added \in Memory
    BY <1>6, AddJobToHashKeeps, Zenon
  <2>2. added.answer = cleaned.answer
    BY <1>6 DEF AddJobToHash, Memory
  <2> QED
    BY <2>1, <2>2
<1> HIDE DEF added
<1>8. CSA_jobstart(added, j).answer = added.answer
  BY <1>7 DEF CSA_jobstart, SendCsa, Memory
<1> QED
  BY <1>1, <1>5, <1>6, <1>7, <1>8 DEF OnlyOf

LEMMA JobCreateEnds ==
  ASSUME NEW t, Ok(t), t.hid # DISABLED, NEW c \in Client, NEW exist,
         NEW r, r.pid \in Pid, r.jid \in Jid \cup {NoJid}, r.user \in User
  PROVE  LET u == JobCreate(t, c, r, exist)
         IN /\ \A b \in Client :
                 \/ u.answer[b] = t.answer[b] \/ u.answer[b].op = "CREATE"
                 \/ u.answer[b].jid = t.proc[r.pid].job /\ r.pid \in t.procTab /\ u.answer[c].err = "OK"
            /\ u.hid = t.hid
<1> DEFINE err == CreateError(t, c, r, exist)
<1>0. t \in Memory /\ TablesAgree(t)
  BY DEF Ok
<1>1. err \in {"EPERM", "ESRCH", "EBUSY", "OK"}
  BY DEF CreateError
<1>2. CASE err = "OK"
  <2> DEFINE j == NewJid(t, r)
             a == InstallJob(t, r.pid, j, r.user)
             n == NewCount(t, r)
             b == [a EXCEPT !.count = n]
             u == Reply(b, c, "CREATE", "OK", j, 0)
             o == t.proc[r.pid].job
  <2>1. ~ JidRefused(t, r)
    BY <1>2 DEF CreateError
  <2>2. j \in Jid \ t.jobTab /\ n \in 0 .. (SidCount - 1)
    BY <1>0, <2>1, NewJidType
  <2>3. JobCreate(t, c, r, exist) = u
    BY <1>2 DEF JobCreate
  <2> HIDE DEF j, n
  <2>4. a \in Memory /\ a.hid = t.hid /\ OnlyOf(t, a, o) /\ (r.pid \notin t.procTab => a.answer = t.answer)
    BY <1>0, <2>2, InstallJobAgrees, InstallJobEnds
  <2> HIDE DEF a, o
  <2>5. b \in Memory /\ b.answer = a.answer /\ b.hid = a.hid
    BY <2>2, <2>4 DEF Memory
  <2> HIDE DEF b
  <2>6. /\ u.answer[c].op = "CREATE" /\ u.answer[c].err = "OK"
        /\ (\A d \in Client \ {c} : u.answer[d] = b.answer[d]) /\ u.hid = b.hid
    BY <2>5 DEF Reply, Memory
  <2> HIDE DEF u
  <2> QED
    BY <2>3, <2>4, <2>5, <2>6 DEF OnlyOf, o
<1>3. CASE err # "OK"
  <2>1. JobCreate(t, c, r, exist) = Reply(t, c, "CREATE", err, NoJid, 0)
    BY <1>1, <1>3 DEF JobCreate
  <2> HIDE DEF err
  <2>2. \A b \in Client : Reply(t, c, "CREATE", err, NoJid, 0).answer[b]
          = IF b = c THEN [op |-> "CREATE", err |-> err, jid |-> NoJid, val |-> 0, list |-> <<>>] ELSE t.answer[b]
    BY <1>0 DEF Reply, Memory
  <2>3. Reply(t, c, "CREATE", err, NoJid, 0).hid = t.hid
    BY <1>0 DEF Reply, Memory
  <2> QED
    BY <2>1, <2>2, <2>3
<1> QED
  BY <1>2, <1>3

LEMMA WaitJidEnds ==
  ASSUME NEW t \in Memory, NEW c \in Client, NEW r
  PROVE  \A b \in Client : WaitJid(t, c, r).answer[b] = t.answer[b] \/ WaitJid(t, c, r).answer[b].err # "OK"
<1>1. \A err, b : b \in Client /\ err # "OK" =>
        \/ Reply(t, c, "WAITJID", err, NoJid, 0).answer[b] = t.answer[b]
        \/ Reply(t, c, "WAITJID", err, NoJid, 0).answer[b].err # "OK"
  BY DEF Reply, Memory
<1>2. CASE r.options # 0
  <2>1. WaitJid(t, c, r) = Reply(t, c, "WAITJID", "EINVAL", NoJid, 0)
    BY <1>2 DEF WaitJid
  <2> QED
    BY <1>1, <2>1
<1>3. CASE r.options = 0 /\ r.jid \notin t.jobTab
  <2>1. WaitJid(t, c, r) = Reply(t, c, "WAITJID", "ENODATA", NoJid, 0)
    BY <1>3 DEF WaitJid
  <2> QED
    BY <1>1, <2>1
<1>4. CASE r.options = 0 /\ r.jid \in t.jobTab
  <2>1. WaitJid(t, c, r).answer = t.answer
    BY <1>4 DEF WaitJid, Memory
  <2> QED
    BY <2>1
<1> QED
  BY <1>2, <1>3, <1>4

(* Without attach and detach job_create() alone answers a caller of        *)
(* job_waitjid(), whose job it takes a process from.                       *)
LEMMA ProcessMesgEnds ==
  ASSUME NEW t, Ok(t), t.hid # DISABLED, NEW c \in Client, NEW r \in Request, NEW exist,
         r.op \notin Moving, \A b \in Client : t.answer[b] = NoAnswer,
         NEW u, u = ProcessMesg(t, c, r, exist),
         NEW b \in Client, u.answer[b].op = "WAITJID", u.answer[b].err = "OK"
  PROVE  /\ r.op = "CREATE" /\ r.pid \in t.procTab /\ u.answer[c].err = "OK"
         /\ u.answer[b].jid = t.proc[r.pid].job /\ u.hid = t.hid
<1>0. t \in Memory
  BY DEF Ok
<1>1. NoAnswer.op = ""
  BY DEF NoAnswer
<1>2. u.answer[b] # t.answer[b]
  BY <1>1
<1>3. CASE r.op = "CREATE"
  <2>1. r.pid \in Pid /\ r.jid \in Jid \cup {NoJid} /\ r.user \in User
    BY <1>3 DEF Request
  <2>2. u = JobCreate(t, c, r, exist)
    BY <1>3 DEF ProcessMesg
  <2> QED
    BY <1>2, <1>3, <2>1, <2>2, JobCreateEnds
<1>4. CASE r.op = "WAITJID"
  <2>1. u = WaitJid(t, c, r)
    BY <1>4 DEF ProcessMesg
  <2> QED
    BY <1>0, <1>2, <2>1, WaitJidEnds
<1>5. CASE r.op = "SETHID"
  <2>1. u = SetHid(t, c, r)
    BY <1>5 DEF ProcessMesg
  <2>2. u.answer[b] = t.answer[b] \/ u.answer[b].op = "SETHID"
    BY <1>0, <2>1 DEF SetHid, Reply, Memory
  <2> QED
    BY <1>2, <2>2
<1>6. CASE r.op \in {"KILLJID", "GETJID", "GETJIDCNT", "GETJIDLST", "GETPIDCNT", "GETPIDLST",
                     "GETUSER", "GETPRIMEPID"}
  <2>1. Answers(t, u, c)
    BY <1>6, QueriesAnswer DEF ProcessMesg
  <2>2. b # c => u.answer[b] = t.answer[b]
    BY <1>0, <2>1 DEF Answers, Memory
  <2>3. AnsweredAs(t, u, c, r.op)
    BY ProcessMesgTells
  <2>4. b = c
    BY <1>2, <2>2
  <2>5. u.answer[c].op = r.op
    <3>1. CASE r.op = "KILLJID"
      BY <1>0, <3>1 DEF ProcessMesg, KillJid, Reply, Memory
    <3>2. CASE r.op = "GETJID"
      BY <1>0, <3>2 DEF ProcessMesg, GetJid, Reply, Memory
    <3>3. CASE r.op \in {"GETJIDCNT", "GETJIDLST"}
      BY <1>0, <3>3 DEF ProcessMesg, GetJidCnt, GetJidList, Reply, Memory
    <3>4. CASE r.op \in {"GETPIDCNT", "GETUSER"}
      BY <1>0, <3>4 DEF ProcessMesg, GetPidCnt, GetUid, Reply, Memory
    <3>5. CASE r.op = "GETPIDLST"
      BY <1>0, <3>5 DEF ProcessMesg, GetPidList, Reply, ReplyList, Memory
    <3>6. CASE r.op = "GETPRIMEPID"
      BY <1>0, <3>6 DEF ProcessMesg, GetPrimePid, Reply, ReplyList, Memory
    <3> QED
      BY <1>6, <3>1, <3>2, <3>3, <3>4, <3>5, <3>6
  <2> QED
    BY <1>6, <2>4, <2>5
<1>7. r.op \in Op
  BY DEF Request, Op
<1> QED
  BY <1>3, <1>4, <1>5, <1>6, <1>7 DEF Op, Moving

(* When the process h leaves a job and the job ends, nobody whose exit     *)
(* jobd has still to learn of is of that job.                              *)
LEMMA NobodyLeft ==
  ASSUME Base, Base', Ordered, NEW b, Inherited(b), NEW h \in Pid, Puts(tbl, tbl', h, NoJid),
         NEW j \in Jid, j \notin tbl'.jobTab,
         \A i \in DOMAIN nlq : nlq[i].what = "FORK" => nlq[i].parent # h,
         NEW q \in Pid \ {h}, Unborn(q) \/ JobIn(tbl, q) # NoJid \/ ExitUnread(q)
  PROVE  b[q] # j
<1>1. tbl' \in Memory /\ TablesAgree(tbl')
  BY OkInv DEF Base, FreshInv, Inv, TypeOK, TablesConsistent
<1>2. \A p \in Pid : JobIn(tbl', p) # j
  <2>1. PICK t : t = tbl'
    OBVIOUS
  <2>2. \A p \in Pid : JobIn(t, p) # j
    BY <1>1, <2>1, MemberIs, NoJidIsNoJob
  <2> QED
    BY <2>1, <2>2
<1>3. \A p \in Pid \ {h} : JobIn(tbl, p) # j
  BY <1>2 DEF Puts
<1>4. CASE Unborn(q)
  <2>1. PICK i \in DOMAIN nlq : nlq[i].what = "FORK" /\ JobIn(tbl, nlq[i].parent) = b[q]
    BY <1>4, FirstOfJob
  <2>2. nlq[i].parent \in Pid \ {h}
    BY <2>1, BaseItems
  <2> QED
    BY <1>3, <2>1, <2>2
<1>5. CASE ~Unborn(q)
  BY <1>3, <1>5 DEF Inherited
<1> QED
  BY <1>4, <1>5

(* What the callers of job_waitjid() must be told in a step. *)
StatusTold ==
  \A c \in Client :
    LET a == tbl'.answer[c]
    IN /\ tbl'.answer # tbl.answer
       /\ a.op = "WAITJID" /\ a.err = "OK" /\ a.jid \notin emptied'
       => a.val = lastExit[a.jid]

(* jobd tells nobody of an end. *)
LEMMA EndsUntold ==
  ASSUME tbl'.answer = tbl.answer \/ (\A c \in Client : tbl'.answer[c] \in {NoAnswer, EofAnswer})
  PROVE  StatusTold
<1>1. NoAnswer.op = ""
  BY DEF NoAnswer
<1>2. EofAnswer.op = "EOF"
  BY DEF EofAnswer
<1>3. CASE tbl'.answer = tbl.answer
  BY <1>3 DEF StatusTold
<1>4. CASE \A c \in Client : tbl'.answer[c] \in {NoAnswer, EofAnswer}
  <2>1. \A c \in Client : tbl'.answer[c].op # "WAITJID"
    BY <1>1, <1>2, <1>4
  <2> QED
    BY <2>1 DEF StatusTold
<1> QED
  BY <1>3, <1>4

(* A FORK event adds its child to a job and ends none. *)
LEMMA ForkTold ==
  ASSUME Base, MInv, RecvNl, Head(nlq).what = "FORK"
  PROVE  StatusTold
<1>1. nlq # <<>> /\ tbl' = ForkHandler(Answered(tbl), Head(nlq).parent, Head(nlq).pid)
  BY DEF RecvNl
<1>2. Ok(tbl) /\ nlq \in Seq(Event) /\ Ordered
  BY BaseTypes DEF Ok, MInv
<1>3. 1 \in DOMAIN nlq /\ Head(nlq) = nlq[1]
  BY <1>1, <1>2
<1>4. PICK c \in Pid, p \in Pid : c = Head(nlq).pid /\ p = Head(nlq).parent /\ c # p
  BY <1>3, BaseItems
<1>5. JobIn(tbl, c) = NoJid
  BY <1>2, <1>3, <1>4 DEF Ordered, ForkOrder
<1>6. c \notin tbl.procTab
  BY <1>2, <1>5, MemberIs DEF Ok
<1>7. PICK t : t = Answered(tbl)
  OBVIOUS
<1>8. t \in Memory /\ TablesAgree(t) /\ c \notin t.procTab
  BY <1>2, <1>6, <1>7, AnsweredMembers
<1>9. tbl'.answer = t.answer
  BY <1>1, <1>4, <1>7, <1>8, ForkAnswers
<1>10. \A b \in Client : t.answer[b] = NoAnswer
  BY <1>2, <1>7, AnsweredNone DEF Ok
<1>11. \A b \in Client : tbl'.answer[b] = NoAnswer
  BY <1>9, <1>10
<1> QED
  BY <1>11, EndsUntold

(* Without csad the exit that ends a job is the last of the job's that     *)
(* jobd had to read.                                                       *)
LEMMA ExitTold ==
  ASSUME Base, Base', MInv, WInv, RecvNl, UNCHANGED hvars, Head(nlq).what = "EXIT"
  PROVE  StatusTold
<1>1. /\ nlq # <<>> /\ nlq' = Tail(nlq)
      /\ tbl' = ExitEventHandler(Answered(tbl), Head(nlq).pid, Head(nlq).status)
      /\ lastExit' = lastExit /\ emptied' = emptied
  BY DEF RecvNl, hvars
<1>2. Ok(tbl) /\ nlq \in Seq(Event) /\ Ordered
  BY BaseTypes DEF Ok, MInv
<1>3. Shifts(nlq, nlq')
  BY <1>1, <1>2, TailShifts
<1>4. 1 \in DOMAIN nlq /\ Head(nlq) = nlq[1]
  BY <1>3 DEF Shifts
<1>5. PICK h \in Pid, s \in Status : h = Head(nlq).pid /\ s = Head(nlq).status
  BY <1>4, BaseItems
<1>6. PICK t : t = Answered(tbl)
  OBVIOUS
<1>7. t \in Memory /\ TablesAgree(t) /\ SameMembers(tbl, t) /\ t.csaActive = tbl.csaActive
  BY <1>2, <1>6, AnsweredMembers
<1>8. \A c \in Client : t.answer[c] = NoAnswer
  BY <1>2, <1>6, AnsweredNone DEF Ok
<1>9. Ends(t, tbl', JobIn(t, h), s) /\ (t.csaActive => tbl'.answer = t.answer)
  BY <1>1, <1>5, <1>6, <1>7, ExitEnds
<1>10. CASE tbl.csaActive
  <2>1. \A c \in Client : tbl'.answer[c] = NoAnswer
    BY <1>7, <1>8, <1>9, <1>10
  <2> QED
    BY <2>1, EndsUntold
<1>11. CASE ~tbl.csaActive
  <2>1. Puts(tbl, tbl', h, NoJid)
    <3>1. Puts(t, tbl', h, NoJid)
      BY <1>1, <1>5, <1>6, <1>7, <1>11, ExitEventMembers
    <3> QED
      BY <1>7, <3>1 DEF Puts, SameMembers
  <2> SUFFICES ASSUME NEW c \in Client, tbl'.answer[c].op = "WAITJID",
                      tbl'.answer[c].jid \notin emptied
               PROVE  tbl'.answer[c].val = lastExit[tbl'.answer[c].jid]
    BY <1>1 DEF StatusTold
  <2>2. PICK j \in Jid : /\ j = JobIn(tbl, h) /\ j \notin tbl'.jobTab
                         /\ tbl'.answer[c].jid = j /\ tbl'.answer[c].val = s
    <3>1. NoAnswer.op = ""
      BY DEF NoAnswer
    <3> QED
      BY <1>5, <1>7, <1>8, <1>9, <3>1 DEF Ends, SameMembers
  <2>3. PICK b \in [Pid -> Jid \cup {NoJid}] : Statuses(b)
    BY DEF WInv
  <2>4. EventSays(h, s) /\ ExitUnread(h)
    BY <1>4, <1>5 DEF EventSays, ExitUnread
  (* jobd has read the fork of h, and h forks no more. *)
  <2>5. ~Unborn(h)
    BY <1>2, <1>5, <2>2, NoJidIsNoJob DEF Unborn, Ordered, ForkOrder
  <2>6. \A i \in DOMAIN nlq : nlq[i].what = "FORK" => nlq[i].parent # h
    <3>1. ExitOrder(1)
      BY <1>2, <1>4 DEF Ordered
    <3>2. \A i \in DOMAIN nlq : i = 1 \/ i > 1
      BY <1>3 DEF Shifts
    <3> QED
      BY <1>4, <1>5, <3>1, <3>2 DEF ExitOrder
  <2>7. b[h] = j
    BY <2>2, <2>3, <2>4, <2>5 DEF Statuses, Inherited
  <2>8. ASSUME NEW q \in Pid, EventsInOrder(h, q) PROVE b[q] # j
    <3>1. q # h
      BY <1>2, <1>3, <1>4, <1>5, <2>8, EventsShrink
    <3>2. ExitUnread(q) /\ Inherited(b)
      BY <2>3, <2>8, SaidUnread DEF Statuses
    <3> QED
      BY <1>2, <2>1, <2>2, <2>6, <3>1, <3>2, NobodyLeft
  <2> QED
    BY <2>2, <2>3, <2>4, <2>7, <2>8 DEF Statuses, LastEvent
<1> QED
  BY <1>10, <1>11

(* With csad the notice that ends a job is the last of the job's.          *)
LEMMA NoticeTold ==
  ASSUME Base, Base', MInv, PInv, WInv, RecvCsa, UNCHANGED hvars
  PROVE  StatusTold
<1>1. /\ sel = "csa" /\ fromCsa' = Tail(fromCsa)
      /\ tbl' = IF Head(fromCsa).what = "NOTICE"
                THEN ExitHandler(tbl, Head(fromCsa).pid, Head(fromCsa).status)
                ELSE [tbl EXCEPT !.csaActive = FALSE]
      /\ lastExit' = lastExit /\ emptied' = emptied
  BY DEF RecvCsa, hvars
<1>2. tbl \in Memory /\ TablesAgree(tbl) /\ fromCsa \in Seq(CsaItem) /\ fromCsa # <<>>
  BY <1>1, BaseTypes DEF SelReady
<1>3. 1 \in DOMAIN fromCsa /\ Head(fromCsa) = fromCsa[1]
  BY <1>2
<1>4. Head(fromCsa).what = "NOTICE"
  BY <1>1, <1>3 DEF PInv, OneCsad, Base, KInv, Conversation
<1>5. PICK h \in Pid, s \in Status : h = Head(fromCsa).pid /\ s = Head(fromCsa).status
  BY <1>3, <1>4, BaseItems
<1>6. NoEvent(h)
  BY <1>1, <1>3, <1>4, <1>5 DEF MInv, Chosen
<1>7. Puts(tbl, tbl', h, NoJid)
  BY <1>1, <1>2, <1>4, <1>5, ExitHandlerMembers
<1>8. Ends(tbl, tbl', JobIn(tbl, h), s)
  BY <1>1, <1>2, <1>4, <1>5, ExitEnds
<1>9. \A c \in Client : tbl.answer[c] = NoAnswer
  BY <1>1 DEF Base, FreshInv, AnswersTaken
<1> SUFFICES ASSUME NEW c \in Client, tbl'.answer[c].op = "WAITJID",
                    tbl'.answer[c].jid \notin emptied
             PROVE  tbl'.answer[c].val = lastExit[tbl'.answer[c].jid]
  BY <1>1 DEF StatusTold
<1>10. PICK j \in Jid : /\ j = JobIn(tbl, h) /\ j \notin tbl'.jobTab
                        /\ tbl'.answer[c].jid = j /\ tbl'.answer[c].val = s
  <2>1. NoAnswer.op = ""
    BY DEF NoAnswer
  <2> QED
    BY <1>8, <1>9, <2>1 DEF Ends
<1>11. PICK b \in [Pid -> Jid \cup {NoJid}] : Statuses(b)
  BY DEF WInv
<1>12. b[h] = j /\ Owed(h)
  BY <1>6, <1>10, <1>11, NoJidIsNoJob DEF Statuses, Inherited, NoEvent, Unborn, Owed
<1>13. RecordSays(h, s)
  BY <1>3, <1>4, <1>5 DEF RecordSays
<1>14. ASSUME NEW q \in Pid, RecordsInOrder(h, q) PROVE b[q] # j
  <2> SUFFICES ASSUME b[q] = j PROVE FALSE
    OBVIOUS
  <2>1. q # h
    BY <1>14 DEF WInv, RecordedOnce
  <2>2. Owed(q)
    BY <1>11, <1>12, <1>14, NoJidIsNoJob DEF Statuses, OwedInOrder
  <2>3. Ordered /\ Inherited(b) /\ \A i \in DOMAIN nlq : nlq[i].what = "FORK" => nlq[i].parent # h
    BY <1>6, <1>11 DEF MInv, Statuses, NoEvent
  <2> QED
    BY <1>7, <1>10, <2>1, <2>2, <2>3, NobodyLeft DEF Owed
<1> QED
  BY <1>10, <1>11, <1>12, <1>13, <1>14 DEF Statuses, LastRecord

(* A request answers a waiting caller only when job_create() takes the     *)
(* last process from the caller's job: the job did not end by an exit.     *)
LEMMA CreateTakes ==
  ASSUME Base, MInv, RecvUnix, Moved
  PROVE  StatusTold
<1> DEFINE c == Head(reqq).c
           r == Head(reqq).r
           done == ProcessMesg(tbl, c, r, Existing)
           callers == {b \in Client \ {c} : Waiting(b) \/ Queued(b)}
<1>1. /\ sel = "unix"
      /\ \/ tbl' = done /\ cnOn' = cnOn
         \/ done.hid = DISABLED /\ Down(done, callers)
  <2>1. CASE done.hid = DISABLED
    BY <2>1 DEF RecvUnix
  <2>2. CASE done.hid # DISABLED
    BY <2>2 DEF RecvUnix
  <2> QED
    BY <2>1, <2>2
<1>2. Ok(tbl) /\ tbl.hid # DISABLED /\ cnOn /\ \A b \in Client : tbl.answer[b] = NoAnswer
  BY <1>1, BaseTypes DEF Ok, Base, FreshInv, AnswersTaken, RecvUnix
<1>3. 1 \in DOMAIN reqq /\ Head(reqq) = reqq[1]
  <2>1. reqq \in Seq([c : Client, r : Request]) /\ reqq # <<>>
    BY <1>1, BaseTypes DEF SelReady
  <2> QED
    BY <2>1
<1>4. c \in Client /\ r \in Request /\ r.op \notin Moving
  BY <1>3, BaseItems DEF MInv, KnownProcs
<1>5. c = Head(reqq).c /\ r = Head(reqq).r
  OBVIOUS
<1> HIDE DEF c, r, done, callers
<1>6. Down(done, callers) =>
        \A b \in Client : tbl'.answer[b] = EofAnswer \/ tbl'.answer[b] = done.answer[b]
  BY DEF Down, InitMemory
<1>7. NoAnswer.op = ""
  BY DEF NoAnswer
<1>8. EofAnswer.op = "EOF"
  BY DEF EofAnswer
<1> SUFFICES ASSUME NEW b \in Client, tbl'.answer[b].op = "WAITJID", tbl'.answer[b].err = "OK",
                    tbl'.answer[b].jid \notin emptied'
             PROVE  FALSE
  BY DEF StatusTold
<1>9. tbl'.answer[b] = done.answer[b]
  BY <1>1, <1>6, <1>8
<1>10. /\ r.op = "CREATE" /\ r.pid \in tbl.procTab /\ done.answer[c].err = "OK"
       /\ done.answer[b].jid = tbl.proc[r.pid].job /\ done.hid = tbl.hid
  BY <1>2, <1>4, <1>9, ProcessMesgEnds DEF done
<1>11. tbl' = done /\ cnOn'
  BY <1>1, <1>2, <1>10
<1>12. tbl.proc[r.pid].job \in Jid
  BY <1>2, <1>10, MemberPlace DEF Ok
<1>13. tbl'.answer[c].op = "CREATE" /\ tbl'.answer[c].err = "OK"
  BY <1>2, <1>4, <1>10, <1>11, ProcessMesgMembers DEF done
<1>14. tbl.proc[r.pid].job \in emptied'
  <2>1. emptied' = (emptied \ {tbl'.answer[c].jid}) \cup ({belongs[r.pid], tbl.proc[r.pid].job} \ {NoJid})
    BY <1>5, <1>11, <1>13, Zenon DEF Moved
  <2> QED
    BY <1>12, <2>1, NoJidIsNoJob
<1> QED
  BY <1>9, <1>10, <1>14

(* No other step tells of an end. *)
Others ==
  \/ Select \/ AcceptCsa \/ Stop \/ Start \/ CsadStep \/ SubmitStep
  \/ \E p, c \in Pid : ForkStep(p, c)
  \/ \E p \in Pid, s \in Status : ExitStep(p, s)
  \/ \E p \in Pid : ReapStep(p)

LEMMA OthersUntold ==
  ASSUME Base, Others \/ UNCHANGED vars
  PROVE  StatusTold
<1>0. tbl \in Memory
  BY BaseTypes
<1>1. CASE Select
  <2>1. \A c \in Client : tbl'.answer[c] = NoAnswer
    BY <1>0, <1>1, AnsweredNone DEF Select
  <2> QED
    BY <2>1, EndsUntold
<1>2. CASE Stop
  <2> DEFINE callers == {c \in Client : Waiting(c) \/ Queued(c)}
  <2>1. tbl' = InitMemory([c \in Client |-> IF c \in callers THEN EofAnswer ELSE Answered(tbl).answer[c]])
    BY <1>2 DEF Stop, Down
  <2> HIDE DEF callers
  <2>2. \A c \in Client : tbl'.answer[c] = EofAnswer \/ tbl'.answer[c] = NoAnswer
    BY <1>0, <2>1, AnsweredNone DEF InitMemory
  <2> QED
    BY <2>2, EndsUntold
<1>3. CASE AcceptCsa \/ CsadRead \/ CsadStop
  <2>1. tbl'.answer = tbl.answer
    BY <1>0, <1>3 DEF AcceptCsa, CsadRead, CsadStop, Memory
  <2> QED
    BY <2>1, EndsUntold
<1>4. CASE Start \/ CsadStart \/ CsadConnect \/ CsadReport \/ UNCHANGED vars
  BY <1>4, EndsUntold DEF Start, CsadStart, CsadConnect, CsadReport, vars
<1>5. CASE SubmitStep \/ (\E p, c \in Pid : ForkStep(p, c)) \/ (\E p \in Pid, s \in Status : ExitStep(p, s))
           \/ (\E p \in Pid : ReapStep(p))
  BY <1>5, EndsUntold DEF SubmitStep, Submit, ForkStep, ExitStep, ReapStep
<1> QED
  BY <1>1, <1>2, <1>3, <1>4, <1>5 DEF Others, CsadStep

(* What jobd does itself. *)
LEMMA JobdTells ==
  ASSUME Base, Base', MInv, PInv, WInv, JobdServes
  PROVE  StatusTold
<1>1. CASE RecvNl /\ UNCHANGED hvars
  <2>1. nlq \in Seq(Event) /\ nlq # <<>>
    BY <1>1, BaseTypes DEF RecvNl
  <2>2. 1 \in DOMAIN nlq /\ Head(nlq) = nlq[1]
    BY <2>1
  <2>3. Head(nlq).what \in {"FORK", "EXIT"}
    BY <2>2, BaseItems
  <2> QED
    BY <1>1, <2>3, ForkTold, ExitTold
<1>2. CASE RecvCsa /\ UNCHANGED hvars
  BY <1>2, NoticeTold
<1>3. CASE RecvUnix /\ Moved
  BY <1>3, CreateTakes
<1>4. CASE Select \/ AcceptCsa
  BY <1>4, OthersUntold DEF Others
<1> QED
  BY <1>1, <1>2, <1>3, <1>4 DEF JobdServes

(* job_waitjid() returns the exit status of the process of the job that    *)
(* exited last: if no event is lost, no pid used twice, nobody but         *)
(* job_create() moves a process, none stays a zombie, and csad, once       *)
(* started, is not stopped, then jobd takes the processes out of a job in  *)
(* the order in which they exited, by its events or by csad's notices,     *)
(* also when csad connects between two exits, and adds to the job every    *)
(* child before it finds the job empty.                                    *)
THEOREM WaitAlwaysStatus == ASSUME Steady PROVE CSpec => WaitStatus
<1> Faithful
  BY DEF Steady
<1>1. CInit => PInv
  BY InitPending
<1>2. Base /\ Base' /\ MInv /\ PInv /\ [CNext]_cvars => PInv'
  BY CNextPending
<1>3. CInit => WInv
  BY InitStatuses
<1>4. Base /\ MInv /\ PInv /\ WInv /\ [CNext]_cvars => WInv'
  BY CNextStatuses
<1>5. Base /\ Base' /\ MInv /\ PInv /\ WInv /\ [CNext]_cvars => [StatusTold]_<<vars, hvars>>
  <2> SUFFICES ASSUME Base, Base', MInv, PInv, WInv, [CNext]_cvars
               PROVE  StatusTold \/ UNCHANGED <<vars, hvars>>
    OBVIOUS
  <2>1. CASE JobdServes
    BY <2>1, JobdTells
  <2>2. CASE Begin \/ Connect \/ Report \/ ReadEvent \/ End
    <3>1. CsadStep
      BY <2>2 DEF Begin, Connect, Report, ReadEvent, End, CsadStep
    <3> QED
      BY <3>1, OthersUntold DEF Others
  <2>3. CASE JobdRestarts \/ Ask
    BY <2>3, OthersUntold DEF JobdRestarts, Ask, Others
  <2>4. ASSUME NEW p \in Pid, NEW s \in Status, Die(p, s) PROVE StatusTold
    BY <2>4, OthersUntold DEF Die, Others
  <2>5. ASSUME NEW p \in Pid, NEW c \in Pid, Breed(p, c) PROVE StatusTold
    BY <2>5, OthersUntold DEF Breed, Others
  <2>6. ASSUME NEW p \in Pid, ReapStep(p) PROVE StatusTold
    BY <2>6, OthersUntold DEF Others
  <2>7. CASE \/ \E small, brief \in BOOLEAN : Eop(small, brief)
             \/ \E r \in CtlCalls : Control(r)
             \/ UNCHANGED cvars
    <3>1. UNCHANGED vars
      BY <2>7 DEF Eop, Control, jobdSide, cvars
    <3> QED
      BY <3>1, OthersUntold
  <2> QED
    BY <2>1, <2>2, <2>3, <2>4, <2>5, <2>6, <2>7 DEF CNext
<1> QED
  BY <1>1, <1>2, <1>3, <1>4, <1>5, BaseAlways, MembersFollowed, PTL DEF CSpec, WaitStatus, StatusTold
=============================================================================
