-------------------------------- MODULE Csad --------------------------------
(***************************************************************************)
(* jobd and csad together: the select() loop of csad (run_csa_daemon() in  *)
(* csa/csad/csa_daemon.c) takes the place of the csad that Jobd sees from  *)
(* outside.  csad is the thread of jobd that spawn_csa_daemon() starts: it *)
(* shares the process, and asks jobd's process table for the job of each   *)
(* process that it accounts for.                                           *)
(***************************************************************************)
EXTENDS JobdHistory, CsaAcct

CONSTANTS
  CtlCalls,    \* the requests that reach csad's control socket
  WritesFail   \* TRUE: a write to an accounting file may fail

ASSUME CsadAssumption == CtlCalls \subseteq CtlRequest /\ WritesFail \in BOOLEAN

VARIABLES
  acct,        \* the memory of csad
  eop,         \* csad has written the record of the exit it is about to report
  tsJob,       \* history: the job that each process in tsq exited from
  phase        \* history: [Jid -> what pacct says about a job since it was configured]

cvars == <<vars, hvars, acct, eop, tsJob, phase>>
jobdSide == <<vars, hvars, tsJob>>

CInit ==
  /\ HInit
  /\ acct = InitAcct
  /\ eop = FALSE
  /\ tsJob = <<>>
  /\ phase = [j \in Jid |-> "unknown"]

(* Pacct, read in order: a job is opened by its first record and closed by *)
(* its end record; "bad" if it is opened twice, or used after its end.  A  *)
(* configuration record, the end of the file and a new csad, which knows   *)
(* no job, restart what is known.                                          *)
Restart(f) == [j \in Jid |-> IF f[j] = "bad" THEN "bad" ELSE "unknown"]
PhaseAfter(f, r) ==
  CASE r.file # NoJid \/ r.type = "DMD" -> f
    [] r.file = NoJid /\ r.type = "CFG" -> Restart(f)
    [] r.file = NoJid /\ r.type = "SOJ" ->
         [f EXCEPT ![r.jid] = IF @ \in {"open", "bad"} THEN "bad" ELSE "open"]
    [] r.file = NoJid /\ r.type = "CSA" ->
         [f EXCEPT ![r.jid] = IF @ = "closed" THEN "bad" ELSE @]
    [] r.file = NoJid /\ r.type = "EOJ" ->
         [f EXCEPT ![r.jid] = IF @ \in {"closed", "bad"} THEN "bad" ELSE "closed"]
(* A handler writes two records at most. *)
Read(k, f) == IF k \in DOMAIN acct'.out THEN PhaseAfter(f, acct'.out[k]) ELSE f
Observe == phase' = IF acct'.vp THEN Read(2, Read(1, phase)) ELSE Restart(phase)

(* Which of the (at most two) writes of a handler succeed. *)
Outcomes == IF WritesFail THEN [{1, 2} -> BOOLEAN] ELSE {[i \in {1, 2} |-> TRUE]}

(* jid_lookup() *)
JidLookup(p) == IF p \in tbl.procTab THEN tbl.proc[p].job ELSE NoJid

(***************************************************************************)
(* csad                                                                    *)
(***************************************************************************)
(* init_csa(): a new, empty job table. *)
Begin ==
  /\ CsadStart
  /\ acct' = FreeTable(acct)
  /\ phase' = Restart(phase)
  /\ UNCHANGED <<hvars, eop, tsJob>>

Connect == CsadConnect /\ UNCHANGED <<hvars, acct, eop, tsJob, phase>>

(* Mutant of Eop: csad asks for the job of the newest exit.                *)
EopNewest(small, brief) ==
  /\ csad = "connected" /\ tsq # <<>> /\ ~eop
  /\ \E ok \in Outcomes :
       acct' = AcctEop(Quiet(acct), JidLookup(Last(tsq).pid), small, brief, ok)
  /\ eop' = TRUE
  /\ Observe
  /\ UNCHANGED jobdSide

(* The first half of recv_sk_nl(): the record of the exit is written ...   *)
Eop(small, brief) ==
  /\ csad = "connected" /\ tsq # <<>> /\ ~eop
  /\ \E ok \in Outcomes :
       acct' = AcctEop(Quiet(acct), JidLookup(Head(tsq).pid), small, brief, ok)
  /\ eop' = TRUE
  /\ Observe
  /\ UNCHANGED jobdSide

(* Mutant of Report: jobd is told only of the exits that were charged.      *)
ReportCharged ==
  /\ eop
  /\ IF acct.out # <<>> THEN CsadReport
     ELSE tsq' = Tail(tsq)
          /\ UNCHANGED <<pstate, signalled, cnOn, nlq, tsOn, tbl, sel, reqq, fromCsa, csad>>
  /\ acct' = Quiet(acct) /\ eop' = FALSE /\ tsJob' = Tail(tsJob)
  /\ UNCHANGED <<hvars, phase>>

(* ... and then jobd is told of it. *)
Report ==
  /\ eop
  /\ CsadReport
  /\ acct' = Quiet(acct) /\ eop' = FALSE /\ tsJob' = Tail(tsJob)
  /\ UNCHANGED <<hvars, phase>>

(* An event of jobd, read when no task record waits. *)
ReadEvent ==
  /\ CsadRead
  /\ \E ok \in Outcomes : acct' = JobEvent(Quiet(acct), Head(tbl.toCsa), ok[1])
  /\ Observe
  /\ UNCHANGED <<hvars, eop, tsJob>>

(* recv_sk_ctl(): a request, served when neither of the other sockets is   *)
(* readable.  The caller of ja is a live process.                          *)
Control(r) ==
  /\ csad = "connected" /\ tsq = <<>> /\ tbl.toCsa = <<>>
  /\ r.op \in {"JASTART", "JASTOP"} => pstate[r.pid] = "run"
  /\ \E ok \in Outcomes, junk \in BOOLEAN :
       LET j == IF r.op \in {"JASTART", "JASTOP"} THEN JidLookup(r.pid) ELSE NoJid
       IN acct' = DoCtl(Quiet(acct), r, j, junk, ok)
  /\ Observe
  /\ UNCHANGED <<jobdSide, eop>>

(* cleanup_csa(), between two handlers. *)
End ==
  /\ ~eop
  /\ CsadStop
  /\ acct' = FreeTable(acct) /\ tsJob' = <<>>
  /\ UNCHANGED <<hvars, eop, phase>>

(***************************************************************************)
(* jobd, whose end is csad's end                                           *)
(***************************************************************************)
(* A request may still move a process that is dead: its exit goes along.   *)
JobOf(i) ==
  LET p == tsq[i].pid
  IN IF p \notin Running /\ JidLookup(p)' # JidLookup(p) THEN JidLookup(p)' ELSE tsJob[i]
DeadMoved == tsJob' = IF tsq' = <<>> THEN <<>> ELSE [i \in DOMAIN tsq |-> JobOf(i)]

WithCsad ==
  /\ acct' = IF cnOn' THEN acct ELSE InitAcct
  /\ eop' = (eop /\ cnOn')
  /\ phase' = IF cnOn' THEN phase ELSE Restart(phase)

JobdServes ==
  \/ (RecvNl \/ Select \/ AcceptCsa \/ RecvCsa) /\ UNCHANGED <<hvars, tsJob>> /\ WithCsad
  \/ RecvUnix /\ Moved /\ DeadMoved /\ WithCsad

JobdRestarts ==
  /\ Stop \/ Start
  /\ belongs' = [p \in Pid |-> NoJid] /\ tsJob' = <<>> /\ UNCHANGED <<lastExit, emptied>>
  /\ WithCsad

Ask == SubmitStep /\ UNCHANGED <<hvars, acct, eop, tsJob, phase>>

Die(p, s) ==
  /\ ExitStep(p, s) /\ Leave(p, s)
  /\ tsJob' = IF tsq' = tsq THEN tsJob ELSE Append(tsJob, belongs[p])
  /\ UNCHANGED <<acct, eop, phase>>

Breed(p, c) ==
  ForkStep(p, c) /\ Inherit(p, c) /\ UNCHANGED <<acct, eop, tsJob, phase>>

CNext ==
  \/ Begin \/ Connect \/ Report \/ ReadEvent \/ End
  \/ \E small, brief \in BOOLEAN : Eop(small, brief)
  \/ \E r \in CtlCalls : Control(r)
  \/ JobdServes \/ JobdRestarts \/ Ask
  \/ \E p \in Pid, s \in Status : Die(p, s)
  \/ \E p, c \in Pid : Breed(p, c)
  \/ \E p \in Pid : ReapStep(p) /\ UNCHANGED <<hvars, acct, eop, tsJob, phase>>

CSpec == CInit /\ [][CNext]_cvars

(* As in Jobd, and csad serves what is ready. *)
CFairSpec ==
  CSpec
  /\ WF_cvars(JobdServes)
  /\ WF_cvars(Connect) /\ WF_cvars(\E small, brief \in BOOLEAN : Eop(small, brief))
  /\ WF_cvars(Report) /\ WF_cvars(ReadEvent)

(***************************************************************************)
(* Properties                                                              *)
(***************************************************************************)
CsadTypeOK ==
  /\ TypeOK
  /\ acct \in AcctMemory
  /\ eop \in BOOLEAN
  /\ tsJob \in Seq(Jid \cup {NoJid}) /\ Len(tsJob) = Len(tsq)
  /\ phase \in [Jid -> {"unknown", "open", "closed", "bad"}]

(* Together with the loop of csad, the system still does what Jobd says of *)
(* it: csad reports every exit once, in order, and reads every event.      *)
ImplementsJobd == Spec

(* CSA accounting that is on has a file to write to, whatever was started, *)
(* stopped or failed to be written.                                        *)
ActiveHasFile == HasFile(acct)

(* csad's table, once the events q on their way have been read: a job that *)
(* it has or is told of, if its end does not follow.                       *)
EndFollows(q, i, j) == \E k \in DOMAIN q : k > i /\ q[k] = [type |-> "END", jid |-> j]
TabAfter(tab, q) ==
  {j \in Jid :
     \/ j \in tab /\ ~EndFollows(q, 0, j)
     \/ \E i \in DOMAIN q : q[i] = [type |-> "START", jid |-> j] /\ ~EndFollows(q, i, j)}
Settled == TabAfter(acct.tab, tbl.toCsa)

(* csad accounts for no job that has ended: what it knows, and what it is  *)
(* about to be told, are jobs of jobd.                                     *)
TableTracksJobd ==
  csad = "connected" /\ tbl.csaActive /\ tbl.csaPeer => Settled \subseteq tbl.jobTab

(* The records of a job in pacct are framed by its start and end records.  *)
Framed == \A j \in Jid : phase[j] # "bad"

EopStep == eop' /\ ~eop

(* A process is only ever charged to the job it was in when it exited.     *)
ChargedToItsJob ==
  [][EopStep => \A i \in DOMAIN acct'.out : acct'.out[i].jid = Head(tsJob)]_cvars

(* Once jobd has read every fork, the exit of a process of a job that csad *)
(* knows is in pacct, unless accounting is off or its write fails.         *)
ExitCharged ==
  [][EopStep /\ nlq = <<>>
     /\ Head(tsJob) \in acct.tab /\ acct.dmd["CSA"] = "ON" /\ acct.rcd \cap Thresholds = {} =>
       \/ ~acct'.vp
       \/ \E i \in DOMAIN acct'.out : acct'.out[i].file = NoJid]_cvars

(* The exit of a process of a job that csad knows is always in pacct.  It  *)
(* is not when jobd has not read the FORK event yet (README, 6).           *)
ExitAlwaysCharged ==
  [][EopStep /\ Head(tsJob) \in acct.tab /\ acct.dmd["CSA"] = "ON"
     /\ acct.rcd \cap Thresholds = {} =>
       \/ ~acct'.vp
       \/ \E i \in DOMAIN acct'.out : acct'.out[i].file = NoJid]_cvars

(* The end of every job that csad knows is written, or lost with pacct: no *)
(* job stays in csad's table when its processes have exited.               *)
Populated(j) == \E p \in Running : belongs[p] = j
JobsClosed == \A j \in Jid :
  (j \in acct.tab /\ ~Populated(j)) ~> (j \notin acct.tab \/ Populated(j))
=============================================================================
