---------------------------- MODULE JobdHistory ----------------------------
(***************************************************************************)
(* jobd observed from outside: which job each process belongs to by the    *)
(* rules of job(7), whatever jobd's tables say.  A process inherits the    *)
(* job of its parent at the instant of the fork; only an answered          *)
(* job_create, job_attachpid or job_detach* moves it.  The history         *)
(* variables restrict no step of Jobd.                                     *)
(***************************************************************************)
EXTENDS Jobd

VARIABLES
  belongs,     \* [Pid -> the job a process belongs to, NoJid if none]
  lastExit,    \* [Jid -> the exit code of the last process of it to exit]
  emptied      \* the jobs that jobd saw a process leave otherwise than by exiting

hvars == <<belongs, lastExit, emptied>>

HInit ==
  /\ Init
  /\ belongs = [p \in Pid |-> NoJid]
  /\ lastExit = [j \in Jid |-> 0]
  /\ emptied = {}

Inherit(p, c) ==
  /\ belongs' = [belongs EXCEPT ![c] = belongs[p]]
  /\ UNCHANGED <<lastExit, emptied>>

Leave(p, s) ==
  /\ lastExit' = IF belongs[p] = NoJid THEN lastExit
                 ELSE [lastExit EXCEPT ![belongs[p]] = s]
  /\ belongs' = [belongs EXCEPT ![p] = NoJid]
  /\ UNCHANGED emptied

(* A process of job j moves to job k. *)
Move(pids, k) ==
  /\ belongs' = [p \in Pid |-> IF p \in pids THEN k ELSE belongs[p]]
  /\ emptied' = emptied \cup ({belongs[p] : p \in pids} \ {NoJid})

Moved ==
  LET r == Head(reqq).r
      a == tbl'.answer[Head(reqq).c]
  IN CASE ~cnOn' -> /\ belongs' = [p \in Pid |-> NoJid]
                    /\ UNCHANGED <<lastExit, emptied>>
       [] cnOn' /\ a.err = "OK" /\ a.op = "CREATE" ->
            /\ belongs' = [belongs EXCEPT ![r.pid] = IF pstate[r.pid] = "run" THEN a.jid ELSE NoJid]
            /\ lastExit' = [lastExit EXCEPT ![a.jid] = 0]
            /\ emptied' = (emptied \ {a.jid})
                          \cup ({belongs[r.pid], tbl.proc[r.pid].job} \ {NoJid})
       [] cnOn' /\ a.err = "OK" /\ a.op = "ATTACHPID" ->
            Move({r.pid} \cap Running, r.jid) /\ UNCHANGED lastExit
       [] cnOn' /\ a.err = "OK" /\ a.op = "DETACHPID" ->
            Move({r.pid}, NoJid) /\ UNCHANGED lastExit
       [] cnOn' /\ a.err = "OK" /\ a.op = "DETACHJID" ->
            Move({p \in Pid : belongs[p] = r.jid}, NoJid) /\ UNCHANGED lastExit
       [] OTHER -> UNCHANGED hvars

(***************************************************************************)
(* Properties                                                              *)
(***************************************************************************)
(* A job is an inescapable container: once jobd has read every fork and    *)
(* exit, its tables place each running process in the job it belongs to.   *)
MembershipSettles ==
  cnOn /\ nlq = <<>> =>
    \A p \in Running :
      belongs[p] = IF p \in tbl.procTab THEN tbl.proc[p].job ELSE NoJid

(* job_waitjid() returns the exit status of the last process to exit the   *)
(* job, if nobody left it otherwise.                                       *)
WaitStatus ==
  [][\A c \in Client :
       LET a == tbl'.answer[c]
       IN /\ tbl'.answer # tbl.answer
          /\ a.op = "WAITJID" /\ a.err = "OK" /\ a.jid \notin emptied'
          => a.val = lastExit[a.jid]]_<<vars, hvars>>

(* Every process that belongs to job j has been sent the signal. *)
KilledBy(j) == \A p \in Running : belongs[p] = j => p \in signalled'

(* A caller finds the job as it is: a successful job_killjid() signals     *)
(* every process that belongs to the job, provided jobd has read every     *)
(* fork; and job_getjid() of a process that is alive names the job it      *)
(* belongs to, even if the call follows the fork at once, because the      *)
(* connector is read first.                                                *)
AnswersSettled ==
  [][\A c \in Client :
       LET a == tbl'.answer[c]
           p == Head(reqq).r.pid
       IN tbl'.answer # tbl.answer =>
            /\ nlq = <<>> /\ a.op = "KILLJID" /\ a.err = "OK" /\ a.val = 0 => KilledBy(a.jid)
            /\ a.op = "GETJID" /\ p \in Running => a.jid = belongs[p]]_<<vars, hvars>>
=============================================================================
