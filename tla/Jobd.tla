-------------------------------- MODULE Jobd --------------------------------
(***************************************************************************)
(* The job daemon: its select() loop over the connector socket, the csa    *)
(* socket and the local socket (main() in job/jobd/jobd.c), the callers of *)
(* libjob that queue on the local socket, and csad as jobd sees it at the  *)
(* far end of the csa socket.                                              *)
(***************************************************************************)
EXTENDS JobTable, Kernel

CONSTANTS
  Calls,       \* the calls of this instance: a caller and its request
  LinkCap,     \* capacity of each direction of the csa socket, in messages
  CsadMayStart, CsadMayStop,   \* whether csad is ever started, ever stopped
  JobdMayStop                  \* whether jobd is ever stopped and restarted

ASSUME JobdAssumption ==
  /\ Calls \subseteq Client \X Request
  /\ LinkCap \in Nat /\ LinkCap >= 2
  /\ {CsadMayStart, CsadMayStop, JobdMayStop} \subseteq BOOLEAN

VARIABLES
  tbl,         \* the memory of jobd
  sel,         \* the source that the last select() chose, "none" before it
  reqq,        \* connections queued on the local socket, with their requests
  fromCsa,     \* what jobd has still to accept and read from csad
  csad         \* csad: "off", "listening" for task records, "connected"

vars == <<kvars, tbl, sel, reqq, fromCsa, csad>>

CONNECT == [what |-> "CONNECT"]
EOF == [what |-> "EOF"]
Notice(p, s) == [what |-> "NOTICE", pid |-> p, status |-> s]
CsaItem == {CONNECT, EOF} \cup [what : {"NOTICE"}, pid : Pid, status : Status]

Init ==
  /\ KernelInit
  /\ tbl = InitMemory([c \in Client |-> NoAnswer])
  /\ sel = "none"
  /\ reqq = <<>>
  /\ fromCsa = <<>>
  /\ csad = "off"

(***************************************************************************)
(* The callers of libjob                                                   *)
(***************************************************************************)
Waiting(c) == \E j \in tbl.jobTab : c \in ToSet(tbl.job[j].waitq)
Queued(c) == \E i \in DOMAIN reqq : reqq[i].c = c

(* A caller connects, sends its request and blocks until it is answered.   *)
(* job_create() names its caller, and job_getjid() asks about a process    *)
(* that is alive when the call is made.                                    *)
Submit(c, r) ==
  /\ cnOn
  /\ ~Waiting(c) /\ ~Queued(c)
  /\ r.op \in {"CREATE", "GETJID"} => pstate[r.pid] = "run"
  /\ reqq' = Append(reqq, [c |-> c, r |-> r])
  /\ UNCHANGED <<kvars, tbl, sel, fromCsa, csad>>

(* The answers of a handler have reached their callers by jobd's next step. *)
Answered(t) == [t EXCEPT !.answer = [c \in Client |-> NoAnswer]]

(***************************************************************************)
(* The main loop                                                           *)
(***************************************************************************)
(* A handler that would write more than the csa socket holds blocks in it. *)
LinkHolds == Len(tbl.toCsa) <= LinkCap

RecvNl ==
  /\ cnOn /\ sel = "none" /\ nlq # <<>>
  /\ LET e == Head(nlq)
         t == Answered(tbl)
     IN tbl' = IF e.what = "FORK" THEN ForkHandler(t, e.parent, e.pid)
               ELSE ExitEventHandler(t, e.pid, e.status)
  /\ LinkHolds'
  /\ nlq' = Tail(nlq)
  /\ UNCHANGED <<pstate, signalled, cnOn, tsOn, tsq, sel, reqq, fromCsa, csad>>

(* Mutants of Source: the local socket is not watched before csad comes,   *)
(* and csad's notices are never read.                                      *)
SourceLocalLate ==
  IF ~tbl.csaActive /\ CONNECT \in ToSet(fromCsa) THEN "accept"
  ELSE IF tbl.csaActive /\ fromCsa # <<>> THEN "csa"
  ELSE IF tbl.csaActive /\ reqq # <<>> THEN "unix" ELSE "none"

SourceNoCsa ==
  IF ~tbl.csaActive /\ CONNECT \in ToSet(fromCsa) THEN "accept"
  ELSE IF reqq # <<>> THEN "unix" ELSE "none"

(* What select() finds readable, in the order in which main() looks at it. *)
Source ==
  IF ~tbl.csaActive /\ CONNECT \in ToSet(fromCsa) THEN "accept"
  ELSE IF tbl.csaActive /\ fromCsa # <<>> THEN "csa"
  ELSE IF reqq # <<>> THEN "unix" ELSE "none"

(* Mutant of Select: connector events have no priority. *)
SelectUnordered ==
  /\ cnOn /\ sel = "none"
  /\ Source # "none"
  /\ sel' = Source
  /\ tbl' = Answered(tbl)
  /\ UNCHANGED <<kvars, reqq, fromCsa, csad>>

(* select() returns without a connector event; one that comes later waits  *)
(* until the source chosen now has been served.                            *)
Select ==
  /\ cnOn /\ sel = "none" /\ nlq = <<>>
  /\ Source # "none"
  /\ sel' = Source
  /\ tbl' = Answered(tbl)
  /\ UNCHANGED <<kvars, reqq, fromCsa, csad>>

(* Accepting closes the previous connection, unread notices included.      *)
AcceptCsa ==
  /\ cnOn /\ sel = "accept"
  /\ LET k == CHOOSE i \in DOMAIN fromCsa :
                fromCsa[i] = CONNECT /\ \A h \in 1 .. (i - 1) : fromCsa[h] # CONNECT
         rest == SubSeq(fromCsa, k + 1, Len(fromCsa))
     IN /\ fromCsa' = rest
        /\ tbl' = [tbl EXCEPT !.csaActive = TRUE,
                              !.csaPeer = EOF \notin ToSet(rest), !.toCsa = <<>>]
  /\ sel' = "none"
  /\ UNCHANGED <<kvars, reqq, csad>>

(* An exit notice removes the process; a short read (end of file) turns    *)
(* CSA off.                                                                *)
RecvCsa ==
  /\ cnOn /\ sel = "csa"
  /\ LET m == Head(fromCsa)
     IN tbl' = IF m.what = "NOTICE" THEN ExitHandler(tbl, m.pid, m.status)
               ELSE [tbl EXCEPT !.csaActive = FALSE]
  /\ LinkHolds'
  /\ fromCsa' = Tail(fromCsa)
  /\ sel' = "none"
  /\ UNCHANGED <<kvars, reqq, csad>>

EofAnswer == [op |-> "EOF", err |-> "OK", jid |-> NoJid, val |-> 0, list |-> <<>>]

(* Mutant of Down: the daemon restarts with its old tables. *)
DownKeepsTables(t, callers) ==
  /\ cnOn' = FALSE
  /\ tbl' = [t EXCEPT !.hid = 0, !.answer = [c \in Client |->
               IF c \in callers THEN EofAnswer ELSE t.answer[c]]]
  /\ nlq' = <<>> /\ reqq' = <<>> /\ fromCsa' = <<>>
  /\ sel' = "none"
  /\ csad' = "off" /\ tsOn' = FALSE /\ tsq' = <<>>

(* cleanup(): the daemon's memory and sockets are gone; its callers read   *)
(* end of file, which libjob takes for an empty answer.                    *)
Down(t, callers) ==
  /\ cnOn' = FALSE
  /\ tbl' = InitMemory([c \in Client |->
               IF c \in callers THEN EofAnswer ELSE t.answer[c]])
  /\ nlq' = <<>> /\ reqq' = <<>> /\ fromCsa' = <<>>
  /\ sel' = "none"
  /\ csad' = "off" /\ tsOn' = FALSE /\ tsq' = <<>>

RecvUnix ==
  /\ cnOn /\ sel = "unix"
  /\ LET c == Head(reqq).c
         r == Head(reqq).r
         done == ProcessMesg(tbl, c, r, Existing)
     IN /\ signalled' = signalled \cup
              (IF r.op = "KILLJID" THEN KillTargets(tbl, c, r) \cap Running ELSE {})
        /\ IF done.hid = DISABLED
           THEN Down(done, {b \in Client \ {c} : Waiting(b) \/ Queued(b)})
           ELSE /\ tbl' = done
                /\ reqq' = Tail(reqq)
                /\ sel' = "none"
                /\ LinkHolds'
                /\ UNCHANGED <<cnOn, nlq, tsOn, tsq, fromCsa, csad>>
  /\ UNCHANGED pstate

(* SIGUSR1, or a crash. *)
Stop ==
  /\ JobdMayStop /\ cnOn
  /\ Down(Answered(tbl), {c \in Client : Waiting(c) \/ Queued(c)})
  /\ UNCHANGED <<pstate, signalled>>

Start ==
  /\ JobdMayStop /\ ~cnOn
  /\ cnOn' = TRUE
  /\ UNCHANGED <<pstate, signalled, nlq, tsOn, tsq, tbl, sel, reqq, fromCsa, csad>>

(***************************************************************************)
(* csad, from outside                                                      *)
(***************************************************************************)
(* csad registers for task records before it connects to jobd.             *)
CsadStart ==
  /\ CsadMayStart /\ csad = "off" /\ cnOn
  /\ csad' = "listening" /\ tsOn' = TRUE
  /\ UNCHANGED <<pstate, signalled, cnOn, nlq, tsq, tbl, sel, reqq, fromCsa>>

CsadConnect ==
  /\ csad = "listening" /\ cnOn /\ Len(fromCsa) < LinkCap
  /\ csad' = "connected"
  /\ fromCsa' = Append(fromCsa, CONNECT)
  /\ UNCHANGED <<kvars, tbl, sel, reqq>>

(* A task record becomes an exit notice. *)
CsadReport ==
  /\ csad = "connected" /\ tsq # <<>> /\ Len(fromCsa) < LinkCap
  /\ fromCsa' = Append(fromCsa, Notice(Head(tsq).pid, Head(tsq).status))
  /\ tsq' = Tail(tsq)
  /\ UNCHANGED <<pstate, signalled, cnOn, nlq, tsOn, tbl, sel, reqq, csad>>

(* Job events are read when there is no task record to report: a csad that *)
(* blocks on a full socket in CsadReport does not read either.             *)
CsadRead ==
  /\ csad = "connected" /\ tsq = <<>> /\ tbl.toCsa # <<>>
  /\ tbl' = [tbl EXCEPT !.toCsa = Tail(@)]
  /\ UNCHANGED <<kvars, sel, reqq, fromCsa, csad>>

CsadStop ==
  /\ CsadMayStop /\ csad # "off"
  /\ csad' = "off"
  /\ tsOn' = FALSE /\ tsq' = <<>>
  /\ fromCsa' = IF csad = "connected" THEN Append(fromCsa, EOF) ELSE fromCsa
  /\ tbl' = [tbl EXCEPT !.csaPeer = FALSE, !.toCsa = <<>>]
  /\ UNCHANGED <<pstate, signalled, cnOn, nlq, sel, reqq>>

(***************************************************************************)
(* The system                                                              *)
(***************************************************************************)
JobdStep == RecvNl \/ Select \/ AcceptCsa \/ RecvCsa \/ RecvUnix \/ Stop \/ Start
CsadStep == CsadStart \/ CsadConnect \/ CsadReport \/ CsadRead \/ CsadStop

(* A process blocked in job_create() does not fork. *)
InCreate(p) == \E i \in DOMAIN reqq : reqq[i].r.op = "CREATE" /\ reqq[i].r.pid = p

ForkStep(p, c) == ~InCreate(p) /\ Fork(p, c) /\ UNCHANGED <<tbl, sel, reqq, fromCsa, csad>>
ExitStep(p, s) == Exit(p, s) /\ UNCHANGED <<tbl, sel, reqq, fromCsa, csad>>
ReapStep(p) == Reap(p) /\ UNCHANGED <<tbl, sel, reqq, fromCsa, csad>>
SubmitStep == \E call \in Calls : Submit(call[1], call[2])

Next ==
  \/ \E p, c \in Pid : ForkStep(p, c)
  \/ \E p \in Pid, s \in Status : ExitStep(p, s)
  \/ \E p \in Pid : ReapStep(p)
  \/ SubmitStep
  \/ JobdStep
  \/ CsadStep

Spec == Init /\ [][Next]_vars

(* jobd never stops serving what is ready, and csad, while it runs, reads  *)
(* and reports.  Nothing is assumed of processes and callers.              *)
Fairness ==
  /\ WF_vars(RecvNl) /\ WF_vars(Select)
  /\ WF_vars(AcceptCsa \/ RecvCsa \/ RecvUnix)
  /\ WF_vars(CsadConnect) /\ WF_vars(CsadReport) /\ WF_vars(CsadRead)

FairSpec == Spec /\ Fairness

(***************************************************************************)
(* Properties                                                              *)
(***************************************************************************)
TypeOK ==
  /\ KernelTypeOK
  /\ tbl \in Memory
  /\ sel \in {"none", "accept", "csa", "unix"}
  /\ reqq \in Seq([c : Client, r : Request])
  /\ fromCsa \in Seq(CsaItem)
  /\ csad \in {"off", "listening", "connected"}

(* The two hash tables, the list of each job and its reference count agree *)
(* after every handler: findproc() never leads to a freed job, a job in    *)
(* the table has a process, and job_getjidcnt() counts the jobs.           *)
TablesConsistent == TablesAgree(tbl)

(* The wait queues agree with their counts, and a caller blocked in        *)
(* job_waitjid() waits once, on one job, and has no other call pending.    *)
WaitersConsistent ==
  /\ WaitersAgree(tbl)
  /\ \A c \in Client : ~(Waiting(c) /\ Queued(c))

(* A caller leaves the wait queue of a job only in the step that ends the  *)
(* job, with that job's ID in its answer, or with jobd itself; and a job   *)
(* never ends with a caller left on its queue.                             *)
WaitersAnswered ==
  [][\A j \in Jid, c \in Client :
       c \in ToSet(tbl.job[j].waitq) =>
         \/ c \in ToSet(tbl'.job[j].waitq) /\ j \in tbl'.jobTab
         \/ ~cnOn'
         \/ /\ j \notin tbl'.jobTab
            /\ tbl'.answer[c].op = "WAITJID" /\ tbl'.answer[c].jid = j]_vars

(* The ID that job_create() returns was not 0 and not in use, and names a  *)
(* job whose only process is the one the caller named.                     *)
CreatedJobIsFresh ==
  [][\A c \in Client :
       /\ cnOn' /\ tbl'.answer # tbl.answer
       /\ tbl'.answer[c].op = "CREATE" /\ tbl'.answer[c].err = "OK"
       => LET j == tbl'.answer[c].jid
          IN /\ j \in Jid \ tbl.jobTab /\ j \in tbl'.jobTab
             /\ tbl'.job[j].proclist = <<Head(reqq).r.pid>>]_vars

(* What is still on its way to jobd about the exit of p. *)
ExitPending(p) ==
  \/ \E i \in DOMAIN nlq : nlq[i].what = "EXIT" /\ nlq[i].pid = p
  \/ /\ tbl.csaActive
     /\ \/ \E i \in DOMAIN tsq : tsq[i].pid = p
        \/ \E i \in DOMAIN fromCsa : fromCsa[i].what = "NOTICE" /\ fromCsa[i].pid = p

(* A member of a job that is no longer alive is about to be removed: the   *)
(* exit event, or csad's notice of it once CSA is active, is on its way.   *)
DeadMembersPending ==
  \A p \in tbl.procTab : pstate[p] # "run" => ExitPending(p)

(* csad's notice never removes a live process from its job. *)
NoticeRemovesDead ==
  [][RecvCsa => \A p \in tbl.procTab \ tbl'.procTab : pstate[p] # "run"]_vars

(* A job all of whose processes have exited ends. *)
AllExited(j) ==
  j \in tbl.jobTab /\ \A p \in ToSet(tbl.job[j].proclist) : pstate[p] # "run"
JobsEnd == \A j \in Jid : AllExited(j) ~> ~AllExited(j)

(* jobd reads every connector event: it never stops for good on csad.  It  *)
(* does when both directions of the socket to csad are full (README, 6).   *)
ConnectorServed == (nlq # <<>>) ~> (nlq = <<>>)

(* Every request is answered, or its caller waits for a job. *)
RequestsServed == \A c \in Client : Queued(c) ~> ~Queued(c)

(* job_create() with no ID of its own fails with EBUSY only when every ID  *)
(* of the host is in use.  The last one is never given out (README, 6).    *)
BusyOnlyWhenFull ==
  [][\A c \in Client :
       /\ tbl'.answer # tbl.answer
       /\ tbl'.answer[c].op = "CREATE" /\ tbl'.answer[c].err = "EBUSY"
       /\ Head(reqq).r.jid = NoJid
       => \A sid \in 0 .. (SidCount - 1) :
            MkJid(tbl.hid, sid) \in tbl.jobTab \cup {NoJid}]_vars
=============================================================================
