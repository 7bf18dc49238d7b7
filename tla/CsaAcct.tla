------------------------------ MODULE CsaAcct ------------------------------
(***************************************************************************)
(* The accounting half of csad (csa/csad/csa.c, csa/csad/csa_job.c): its   *)
(* table of jobs, the state of each kind of accounting, and the records it *)
(* writes, as operators from csad's memory m to its memory afterwards.     *)
(* csad runs one handler at a time.                                        *)
(***************************************************************************)
EXTENDS JobParams, SequencesExt

(* The daemons that write to pacct, the continuation records that may      *)
(* follow a process record, and the thresholds.                            *)
Dmd == {"CSA", "WKMG"}
Parts == {"MEM", "IO", "DELAY"}
Thresholds == {"THD_MEM", "THD_TIME"}
Method == Dmd \cup Parts \cup Thresholds

(* A record goes to pacct (file NoJid) or to the user file of a job.       *)
Record ==
  [file : Jid \cup {NoJid}, type : {"SOJ", "CSA", "EOJ", "CFG", "DMD"},
   jid : Jid \cup {NoJid}, parts : SUBSET Parts]
Rec(file, type, jid) == [file |-> file, type |-> type, jid |-> jid, parts |-> {}]

AcctMemory ==
  [tab : SUBSET Jid,        \* the job table
   ja : SUBSET Jid,         \* the jobs with an open user file
   vp : BOOLEAN,            \* csa_acctvp: the pacct file is open
   dmd : [Dmd -> {"OFF", "ON", "ERROFF"}],
   rcd : SUBSET (Parts \cup Thresholds),   \* the entries of acct_rcd that are on
   out : Seq(Record)]       \* what the last handler wrote

InitAcct ==
  [tab |-> {}, ja |-> {}, vp |-> FALSE, dmd |-> [d \in Dmd |-> "OFF"], rcd |-> {},
   out |-> <<>>]

(* A handler starts: nothing is written yet. *)
Quiet(m) == [m EXCEPT !.out = <<>>]

(* The static state of csad outlives its thread; the job table does not.   *)
FreeTable(m) == [m EXCEPT !.tab = {}, !.ja = {}, !.out = <<>>]

Emit(m, r) == [m EXCEPT !.out = Append(@, r)]

(***************************************************************************)
(* csa_write(), csa_config_write()                                         *)
(***************************************************************************)
(* Mutant of WriteSys: only the daemon that wrote is turned off. *)
WriteSysOwnOff(m, did, r, ok) ==
  IF ~m.vp THEN m
  ELSE IF ok THEN Emit(m, r)
  ELSE [m EXCEPT !.vp = FALSE, !.dmd[did] = "ERROFF"]

(* Types A_SYS and A_DMD: a failed write closes pacct and turns off the    *)
(* daemon that wrote, and CSA with it.  (The fstat() of an open descriptor *)
(* before the write is taken to succeed.)                                  *)
WriteSys(m, did, r, ok) ==
  IF ~m.vp THEN m
  ELSE IF ok THEN Emit(m, r)
  ELSE [m EXCEPT !.vp = FALSE, !.dmd[did] = "ERROFF", !.dmd["CSA"] = "ERROFF"]

(* Type A_CJA: a failed write closes the user file of the job. *)
WriteJa(m, j, r, ok) ==
  IF j \notin m.ja THEN m
  ELSE IF ok THEN Emit(m, r) ELSE [m EXCEPT !.ja = @ \ {j}]

(* A configuration record for pacct; its write errors turn nothing off.    *)
ConfigWrite(m, ok) == IF m.vp /\ ok THEN Emit(m, Rec(NoJid, "CFG", NoJid)) ELSE m
CloseSys(m) == [m EXCEPT !.vp = FALSE]

(***************************************************************************)
(* csa_acct_eop(): the end of a process of job j.  It is small in memory   *)
(* or brief in cpu time when it is below the thresholds.                   *)
(***************************************************************************)
ProcRec(file, j, parts) ==
  [file |-> file, type |-> "CSA", jid |-> j, parts |-> parts]

(* The memory threshold is only looked at when a memory record was built.  *)
BelowThreshold(m, j, small, brief) ==
  \/ small /\ "THD_MEM" \in m.rcd /\ (j \in m.ja \/ "MEM" \in m.rcd)
  \/ brief /\ "THD_TIME" \in m.rcd

(* Mutant of AcctEop: a job without a user file is not accounted. *)
AcctEopJaOnly(m, j, small, brief, ok) ==
  IF j \notin m.tab \cap m.ja THEN m
  ELSE WriteSys(WriteJa(m, j, ProcRec(j, j, Parts), ok[1]),
                "CSA", ProcRec(NoJid, j, m.rcd \cap Parts), ok[2])

(* The user file gets every part, pacct those that are on.  ok says which  *)
(* of the two writes succeed.                                              *)
AcctEop(m, j, small, brief, ok) ==
  IF j \notin m.tab THEN m
  ELSE LET user == WriteJa(m, j, ProcRec(j, j, Parts), ok[1])
       IN IF m.dmd["CSA"] # "ON" \/ BelowThreshold(m, j, small, brief) THEN user
          ELSE WriteSys(user, "CSA", ProcRec(NoJid, j, m.rcd \cap Parts), ok[2])

(***************************************************************************)
(* recv_sk_job(): the events of jobd                                       *)
(***************************************************************************)
JobStart(m, j, ok) ==
  IF j \in m.tab THEN m
  ELSE WriteSys([m EXCEPT !.tab = @ \cup {j}], "CSA", Rec(NoJid, "SOJ", j), ok)

(* Mutant of JobEnd: the entry stays in the table. *)
JobEndKept(m, j, ok) ==
  IF j \notin m.tab THEN m ELSE WriteSys(m, "CSA", Rec(NoJid, "EOJ", j), ok)

JobEnd(m, j, ok) ==
  IF j \notin m.tab THEN m
  ELSE [WriteSys(m, "CSA", Rec(NoJid, "EOJ", j), ok) EXCEPT !.tab = @ \ {j}, !.ja = @ \ {j}]

JobEvent(m, e, ok) ==
  IF e.type = "START" THEN JobStart(m, e.jid, ok) ELSE JobEnd(m, e.jid, ok)

(***************************************************************************)
(* csa_doctl(): the requests that change something.  A path is "none", the *)
(* name of a file that csad can open, or "bad": open() fails, and the file *)
(* type tested next is uninitialised memory, so that the request is either *)
(* refused (EACCES) or goes on without a file.                             *)
(***************************************************************************)
CtlRequest ==
  [op : {"START"}, priv : BOOLEAN, path : {"none", "good", "bad"}, on : SUBSET Method \ {{}}]
  \cup [op : {"STOP"}, priv : BOOLEAN, off : SUBSET Method \ {{}}]
  \cup [op : {"HALT"}, priv : BOOLEAN]
  \cup [op : {"JASTART", "JASTOP"}, pid : Pid, path : {"none", "good", "bad"}]
  \cup [op : {"WRACCT"}, priv : BOOLEAN, did : Dmd, jid : Jid]

Set(m, s, state) ==
  [m EXCEPT !.dmd = [d \in Dmd |-> IF d \in s THEN state ELSE m.dmd[d]],
            !.rcd = IF state = "ON" THEN @ \cup (s \ Dmd) ELSE @ \ s]

(* opened: a new accounting file replaces the old one, if any. *)
StartAcct(m, r, opened, ok) ==
  IF ~r.priv \/ ~(opened \/ m.vp) THEN m
  ELSE LET switched == IF opened THEN [ConfigWrite(m, ok[1]) EXCEPT !.vp = TRUE] ELSE m
       IN ConfigWrite(Set(switched, r.on, "ON"), ok[2])

(* pacct is closed when no daemon is on any more. *)
StopAcct(m, r, ok) ==
  IF ~r.priv THEN m
  ELSE LET off == Set(m, r.off, "OFF")
           said == ConfigWrite(off, ok[1])
       IN IF \A d \in Dmd : off.dmd[d] # "ON" THEN CloseSys(said) ELSE said

HaltAcct(m, r, ok) ==
  IF r.priv THEN CloseSys(ConfigWrite(Set(m, Method, "OFF"), ok[1])) ELSE m

(* User accounting of the caller's job j is switched to a new file or off. *)
JaSwitch(m, r, j, opened, ok) ==
  IF j \notin m.tab THEN m
  ELSE LET on == r.op = "JASTART" /\ opened
           switched == [m EXCEPT !.ja = IF on THEN @ \cup {j} ELSE @ \ {j}]
           said == IF r.op = "JASTART" THEN ConfigWrite(switched, ok[1]) ELSE switched
       IN IF on /\ ok[2] THEN Emit(said, Rec(j, "CFG", NoJid)) ELSE said

WrAcct(m, r, ok) ==
  IF ~r.priv THEN m
  ELSE LET rec == Rec(NoJid, "DMD", r.jid)
           sys == IF m.dmd[r.did] = "ON" THEN WriteSys(m, r.did, rec, ok[1]) ELSE m
       IN IF r.jid \in sys.tab THEN WriteJa(sys, r.jid, [rec EXCEPT !.file = r.jid], ok[2])
          ELSE sys

(* Whether the request ends because its path cannot be opened, and whether *)
(* it goes on with a new file; junk is what open() failing left to test.   *)
Refused(r, junk) ==
  CASE r.op = "START" -> r.priv /\ r.path = "bad" /\ ~junk
    [] r.op = "JASTART" -> r.path = "none" \/ (r.path = "bad" /\ ~junk)
    [] r.op = "JASTOP" -> r.path = "bad" /\ ~junk
    [] OTHER -> FALSE

(* csad's answer to request r, for a caller whose process is in job j. *)
DoCtl(m, r, j, junk, ok) ==
  IF Refused(r, junk) THEN m
  ELSE CASE r.op = "START" -> StartAcct(m, r, r.path = "good", ok)
         [] r.op = "STOP"  -> StopAcct(m, r, ok)
         [] r.op = "HALT"  -> HaltAcct(m, r, ok)
         [] r.op = "WRACCT" -> WrAcct(m, r, ok)
         [] OTHER -> JaSwitch(m, r, j, r.path = "good", ok)

(***************************************************************************)
(* What csad's memory promises                                             *)
(***************************************************************************)
(* CSA accounting that is on has a file to write to. *)
HasFile(m) == m.dmd["CSA"] = "ON" => m.vp
=============================================================================
