----------------------------- MODULE CsadProofs -----------------------------
(***************************************************************************)
(* With csad's own loop in the place of the csad that Jobd sees, the       *)
(* system still implements Jobd, so that what JobdProofs shows of jobd     *)
(* holds; CSA accounting that is on always has a file, whatever is         *)
(* requested and whichever writes fail; csad never accounts for a job that *)
(* jobd has ended, once it has read what jobd told it; and the records of  *)
(* a job in pacct are framed by its start and its end.                     *)
(***************************************************************************)
EXTENDS Csad, JobdProofs

(***************************************************************************)
(* The handlers of csad keep its memory typed and its file open            *)
(***************************************************************************)
AcctOk(m) == m \in AcctMemory /\ HasFile(m)

LEMMA EmitOk ==
  ASSUME NEW m \in AcctMemory, NEW r \in Record
  PROVE  /\ Emit(m, r) \in AcctMemory
         /\ Emit(m, r).vp = m.vp /\ Emit(m, r).dmd = m.dmd /\ Emit(m, r).tab = m.tab
         /\ Emit(m, r).ja = m.ja
<1>1. m.out \in Seq(Record) BY DEF AcctMemory
<1>2. Append(m.out, r) \in Seq(Record) BY <1>1
<1> QED BY <1>2 DEF Emit, AcctMemory

LEMMA RecTypes ==
  ASSUME NEW f \in Jid \cup {NoJid}, NEW j \in Jid \cup {NoJid},
         NEW type \in {"SOJ", "CSA", "EOJ", "CFG", "DMD"}, NEW parts \in SUBSET Parts
  PROVE  Rec(f, type, j) \in Record /\ ProcRec(f, j, parts) \in Record
BY DEF Rec, ProcRec, Record

(* A write to pacct either adds a record or turns CSA off. *)
LEMMA WriteSysOk ==
  ASSUME NEW m, AcctOk(m), NEW did \in Dmd, NEW r \in Record, NEW ok \in BOOLEAN
  PROVE  AcctOk(WriteSys(m, did, r, ok)) /\ WriteSys(m, did, r, ok).tab = m.tab
         /\ WriteSys(m, did, r, ok).ja = m.ja
<1>1. m \in AcctMemory BY DEF AcctOk
<1>2. CASE ~m.vp BY <1>2 DEF WriteSys
<1>3. CASE m.vp /\ ok
  BY <1>1, <1>3, EmitOk DEF WriteSys, AcctOk, HasFile
<1>4. CASE m.vp /\ ~ok
  <2> DEFINE w == [m EXCEPT !.vp = FALSE, !.dmd[did] = "ERROFF", !.dmd["CSA"] = "ERROFF"]
  <2>1. WriteSys(m, did, r, ok) = w BY <1>4 DEF WriteSys
  <2>2. "CSA" \in Dmd /\ m.dmd \in [Dmd -> {"OFF", "ON", "ERROFF"}]
    BY <1>1 DEF AcctMemory, Dmd
  <2>3. w \in AcctMemory /\ w.dmd["CSA"] = "ERROFF" /\ w.tab = m.tab /\ w.ja = m.ja
    BY <1>1, <2>2 DEF AcctMemory
  <2> QED BY <2>1, <2>3 DEF AcctOk, HasFile
<1> QED BY <1>2, <1>3, <1>4 DEF AcctMemory, AcctOk

LEMMA WriteJaOk ==
  ASSUME NEW m, AcctOk(m), NEW j, NEW r \in Record, NEW ok \in BOOLEAN
  PROVE  AcctOk(WriteJa(m, j, r, ok)) /\ WriteJa(m, j, r, ok).tab = m.tab
<1>1. m \in AcctMemory BY DEF AcctOk
<1>2. AcctOk(Emit(m, r)) /\ Emit(m, r).tab = m.tab BY <1>1, EmitOk DEF AcctOk, HasFile
<1>3. [m EXCEPT !.ja = m.ja \ {j}] \in AcctMemory BY <1>1 DEF AcctMemory
<1>4. AcctOk([m EXCEPT !.ja = m.ja \ {j}]) /\ [m EXCEPT !.ja = m.ja \ {j}].tab = m.tab
  BY <1>1, <1>3 DEF AcctOk, HasFile, AcctMemory
<1> QED BY <1>2, <1>4 DEF WriteJa

LEMMA ConfigWriteOk ==
  ASSUME NEW m \in AcctMemory, NEW ok \in BOOLEAN
  PROVE  /\ ConfigWrite(m, ok) \in AcctMemory
         /\ ConfigWrite(m, ok).vp = m.vp /\ ConfigWrite(m, ok).dmd = m.dmd
<1>1. NoJid \in Jid \cup {NoJid} OBVIOUS
<1>2. Rec(NoJid, "CFG", NoJid) \in Record BY <1>1 DEF Rec, Record
<1> QED BY <1>2, EmitOk DEF ConfigWrite

LEMMA AcctEopOk ==
  ASSUME NEW m, AcctOk(m), NEW j \in Jid \cup {NoJid}, NEW small \in BOOLEAN,
         NEW brief \in BOOLEAN, NEW ok \in [{1, 2} -> BOOLEAN]
  PROVE  AcctOk(AcctEop(m, j, small, brief, ok))
<1>1. ok[1] \in BOOLEAN /\ ok[2] \in BOOLEAN OBVIOUS
<1>2. Parts \in SUBSET Parts /\ m.rcd \cap Parts \in SUBSET Parts OBVIOUS
<1>3. ProcRec(j, j, Parts) \in Record /\ ProcRec(NoJid, j, m.rcd \cap Parts) \in Record
  BY <1>2, RecTypes
<1> DEFINE user == WriteJa(m, j, ProcRec(j, j, Parts), ok[1])
<1>4. AcctOk(user) BY <1>1, <1>3, WriteJaOk
<1>5. AcctOk(WriteSys(user, "CSA", ProcRec(NoJid, j, m.rcd \cap Parts), ok[2]))
  <2>1. "CSA" \in Dmd BY DEF Dmd
  <2> QED BY <1>1, <1>3, <1>4, <2>1, WriteSysOk
<1> QED BY <1>4, <1>5 DEF AcctEop

LEMMA JobEventOk ==
  ASSUME NEW m, AcctOk(m), NEW e \in CsaEvent, NEW ok \in BOOLEAN
  PROVE  AcctOk(JobEvent(m, e, ok))
<1> DEFINE j == e.jid
<1>1. j \in Jid /\ "CSA" \in Dmd BY DEF CsaEvent, Dmd
<1>2. Rec(NoJid, "SOJ", j) \in Record /\ Rec(NoJid, "EOJ", j) \in Record
  BY <1>1 DEF Rec, Record
<1>3. AcctOk(JobStart(m, j, ok))
  <2>1. AcctOk([m EXCEPT !.tab = m.tab \cup {j}])
    BY <1>1 DEF AcctOk, HasFile, AcctMemory
  <2> QED BY <1>1, <1>2, <2>1, WriteSysOk DEF JobStart
<1>4. AcctOk(JobEnd(m, j, ok))
  <2> DEFINE w == WriteSys(m, "CSA", Rec(NoJid, "EOJ", j), ok)
  <2>1. AcctOk(w) BY <1>1, <1>2, WriteSysOk
  <2>2. AcctOk([w EXCEPT !.tab = w.tab \ {j}, !.ja = w.ja \ {j}])
    <3> HIDE DEF w
    <3> QED BY <2>1 DEF AcctOk, HasFile, AcctMemory
  <2> QED BY <2>2 DEF JobEnd
<1> QED BY <1>3, <1>4 DEF JobEvent

(***************************************************************************)
(* Requests                                                                *)
(***************************************************************************)
LEMMA SetOk ==
  ASSUME NEW m \in AcctMemory, NEW s \in SUBSET Method, NEW state \in {"ON", "OFF"}
  PROVE  /\ Set(m, s, state) \in AcctMemory
         /\ Set(m, s, state).vp = m.vp
         /\ state = "OFF" /\ m.dmd["CSA"] # "ON" => Set(m, s, state).dmd["CSA"] # "ON"
         /\ Set(m, s, state).dmd["CSA"] = "ON" /\ state = "OFF" => m.dmd["CSA"] = "ON"
<1> DEFINE dmd == [d \in Dmd |-> IF d \in s THEN state ELSE m.dmd[d]]
           rcd == IF state = "ON" THEN m.rcd \cup (s \ Dmd) ELSE m.rcd \ s
<1>1. dmd \in [Dmd -> {"OFF", "ON", "ERROFF"}] BY DEF AcctMemory
<1>2. rcd \in SUBSET (Parts \cup Thresholds) BY DEF AcctMemory, Method
<1>3. "CSA" \in Dmd BY DEF Dmd
<1>4. dmd["CSA"] = IF "CSA" \in s THEN state ELSE m.dmd["CSA"] BY <1>3
<1> HIDE DEF dmd, rcd
<1>5. Set(m, s, state) = [m EXCEPT !.dmd = dmd, !.rcd = rcd] BY DEF Set, dmd, rcd
<1>6. [m EXCEPT !.dmd = dmd, !.rcd = rcd] \in AcctMemory BY <1>1, <1>2 DEF AcctMemory
<1>7. Set(m, s, state).vp = m.vp /\ Set(m, s, state).dmd = dmd BY <1>5 DEF AcctMemory
<1> QED BY <1>4, <1>5, <1>6, <1>7

LEMMA StartAcctOk ==
  ASSUME NEW m, AcctOk(m), NEW r \in CtlRequest, r.op = "START", NEW opened \in BOOLEAN,
         NEW ok \in [{1, 2} -> BOOLEAN]
  PROVE  AcctOk(StartAcct(m, r, opened, ok))
<1> DEFINE w == IF opened THEN [ConfigWrite(m, ok[1]) EXCEPT !.vp = TRUE] ELSE m
<1>1. ok[1] \in BOOLEAN /\ ok[2] \in BOOLEAN /\ m \in AcctMemory BY DEF AcctOk
<1>2. r.on \in SUBSET Method BY DEF CtlRequest
<1>3. w \in AcctMemory
  <2>1. ConfigWrite(m, ok[1]) \in AcctMemory BY <1>1, ConfigWriteOk
  <2>2. [ConfigWrite(m, ok[1]) EXCEPT !.vp = TRUE] \in AcctMemory BY <2>1 DEF AcctMemory
  <2> QED BY <1>1, <2>2
<1>4. opened \/ m.vp => w.vp
  <2>1. ConfigWrite(m, ok[1]) \in AcctMemory BY <1>1, ConfigWriteOk
  <2> QED BY <2>1 DEF AcctMemory
<1> HIDE DEF w
<1>5. CASE r.priv /\ (opened \/ m.vp)
  <2>1. Set(w, r.on, "ON") \in AcctMemory /\ Set(w, r.on, "ON").vp
    BY <1>2, <1>3, <1>4, <1>5, SetOk
  <2>2. AcctOk(ConfigWrite(Set(w, r.on, "ON"), ok[2]))
    BY <1>1, <2>1, ConfigWriteOk DEF AcctOk, HasFile
  <2> QED BY <1>5, <2>2 DEF StartAcct, w
<1> QED BY <1>5 DEF StartAcct

LEMMA StopAcctOk ==
  ASSUME NEW m, AcctOk(m), NEW r \in CtlRequest, r.op = "STOP",
         NEW ok \in [{1, 2} -> BOOLEAN]
  PROVE  AcctOk(StopAcct(m, r, ok))
<1>1. ok[1] \in BOOLEAN /\ m \in AcctMemory BY DEF AcctOk
<1>2. r.off \in SUBSET Method BY DEF CtlRequest
<1> DEFINE off == Set(m, r.off, "OFF")
           said == ConfigWrite(off, ok[1])
<1>3. off \in AcctMemory /\ off.vp = m.vp /\ (off.dmd["CSA"] = "ON" => m.dmd["CSA"] = "ON")
  BY <1>1, <1>2, SetOk
<1>4. AcctOk(said) /\ said.dmd = off.dmd
  BY <1>1, <1>3, ConfigWriteOk DEF AcctOk, HasFile
<1>5. ASSUME \A d \in Dmd : off.dmd[d] # "ON" PROVE AcctOk(CloseSys(said))
  <2>1. said.dmd["CSA"] # "ON" BY <1>4, <1>5 DEF Dmd
  <2> HIDE DEF said
  <2> QED BY <1>4, <2>1 DEF CloseSys, AcctOk, HasFile, AcctMemory
<1> QED BY <1>4, <1>5 DEF StopAcct

LEMMA HaltAcctOk ==
  ASSUME NEW m, AcctOk(m), NEW r \in CtlRequest, r.op = "HALT",
         NEW ok \in [{1, 2} -> BOOLEAN]
  PROVE  AcctOk(HaltAcct(m, r, ok))
<1>1. ok[1] \in BOOLEAN /\ m \in AcctMemory BY DEF AcctOk
<1> DEFINE off == Set(m, Method, "OFF")
           said == ConfigWrite(off, ok[1])
<1>2. off \in AcctMemory BY <1>1, SetOk
<1>3. off.dmd["CSA"] = "OFF" BY <1>1 DEF Set, AcctMemory, Dmd, Method
<1>4. said \in AcctMemory /\ said.dmd["CSA"] = "OFF" BY <1>1, <1>2, <1>3, ConfigWriteOk
<1>5. AcctOk(CloseSys(said))
  <2> HIDE DEF said
  <2> QED BY <1>4 DEF CloseSys, AcctOk, HasFile, AcctMemory
<1> QED BY <1>5 DEF HaltAcct

LEMMA JaSwitchOk ==
  ASSUME NEW m, AcctOk(m), NEW r, NEW j \in Jid \cup {NoJid},
         NEW opened \in BOOLEAN, NEW ok \in [{1, 2} -> BOOLEAN]
  PROVE  AcctOk(JaSwitch(m, r, j, opened, ok))
<1>1. ok[1] \in BOOLEAN /\ m \in AcctMemory BY DEF AcctOk
<1> SUFFICES ASSUME j \in m.tab PROVE AcctOk(JaSwitch(m, r, j, opened, ok))
  BY DEF JaSwitch
<1> DEFINE on == r.op = "JASTART" /\ opened
           ja == IF on THEN m.ja \cup {j} ELSE m.ja \ {j}
           switched == [m EXCEPT !.ja = ja]
           said == IF r.op = "JASTART" THEN ConfigWrite(switched, ok[1]) ELSE switched
<1>2. j \in Jid /\ NoJid \in Jid \cup {NoJid} BY <1>1 DEF AcctMemory
<1>3. ja \in SUBSET Jid BY <1>1, <1>2 DEF AcctMemory
<1>4. switched \in AcctMemory /\ switched.vp = m.vp /\ switched.dmd = m.dmd
  <2> HIDE DEF ja
  <2> QED BY <1>1, <1>3 DEF AcctMemory
<1>5. said \in AcctMemory /\ said.vp = m.vp /\ said.dmd = m.dmd
  <2> HIDE DEF switched
  <2> QED BY <1>1, <1>4, ConfigWriteOk
<1> HIDE DEF said
<1>6. Rec(j, "CFG", NoJid) \in Record BY <1>2 DEF Rec, Record
<1>7. AcctOk(said) /\ AcctOk(Emit(said, Rec(j, "CFG", NoJid)))
  BY <1>5, <1>6, EmitOk DEF AcctOk, HasFile
<1> QED BY <1>7 DEF JaSwitch, said

LEMMA WrAcctOk ==
  ASSUME NEW m, AcctOk(m), NEW r \in CtlRequest, r.op = "WRACCT",
         NEW ok \in [{1, 2} -> BOOLEAN]
  PROVE  AcctOk(WrAcct(m, r, ok))
<1>1. ok[1] \in BOOLEAN /\ ok[2] \in BOOLEAN BY DEF AcctOk
<1>2. r.did \in Dmd /\ r.jid \in Jid BY DEF CtlRequest
<1> DEFINE rec == Rec(NoJid, "DMD", r.jid)
           sys == IF m.dmd[r.did] = "ON" THEN WriteSys(m, r.did, rec, ok[1]) ELSE m
<1>3. rec \in Record /\ [rec EXCEPT !.file = r.jid] \in Record BY <1>2 DEF Rec, Record
<1>4. AcctOk(sys)
  <2> HIDE DEF rec
  <2> QED BY <1>1, <1>2, <1>3, WriteSysOk
<1>5. AcctOk(WriteJa(sys, r.jid, [rec EXCEPT !.file = r.jid], ok[2]))
  <2> HIDE DEF rec, sys
  <2> QED BY <1>1, <1>3, <1>4, WriteJaOk
<1> HIDE DEF sys
<1> QED BY <1>4, <1>5 DEF WrAcct, sys

LEMMA DoCtlOk ==
  ASSUME NEW m, AcctOk(m), NEW r \in CtlRequest, NEW j \in Jid \cup {NoJid},
         NEW junk \in BOOLEAN, NEW ok \in [{1, 2} -> BOOLEAN]
  PROVE  AcctOk(DoCtl(m, r, j, junk, ok))
<1>1. (r.path = "good") \in BOOLEAN OBVIOUS
<1>2. r.op \in {"START", "STOP", "HALT", "JASTART", "JASTOP", "WRACCT"} BY DEF CtlRequest
<1>3. CASE r.op = "START" BY <1>1, <1>3, StartAcctOk DEF DoCtl
<1>4. CASE r.op = "STOP" BY <1>4, StopAcctOk DEF DoCtl
<1>5. CASE r.op = "HALT" BY <1>5, HaltAcctOk DEF DoCtl
<1>6. CASE r.op = "WRACCT" BY <1>6, WrAcctOk DEF DoCtl
<1>7. CASE r.op \in {"JASTART", "JASTOP"} BY <1>1, <1>7, JaSwitchOk DEF DoCtl
<1> QED BY <1>2, <1>3, <1>4, <1>5, <1>6, <1>7

LEMMA QuietOk ==
  ASSUME NEW m, AcctOk(m)
  PROVE  AcctOk(Quiet(m)) /\ AcctOk(FreeTable(m))
<1>1. <<>> \in Seq(Record) OBVIOUS
<1>2. AcctOk(Quiet(m)) BY <1>1 DEF AcctOk, HasFile, AcctMemory, Quiet
<1>3. AcctOk(FreeTable(m)) BY <1>1 DEF AcctOk, HasFile, AcctMemory, FreeTable
<1> QED BY <1>2, <1>3

LEMMA InitAcctOk == AcctOk(InitAcct)
<1>1. <<>> \in Seq(Record) OBVIOUS
<1> QED BY <1>1 DEF AcctOk, HasFile, AcctMemory, InitAcct, Dmd

(***************************************************************************)
(* A step of the system is a step of Jobd, or none                         *)
(***************************************************************************)
LEMMA CNextImplements ==
  ASSUME [CNext]_cvars PROVE [Next]_vars
<1>1. CASE Begin BY <1>1 DEF Begin, Next, CsadStep
<1>2. CASE Connect BY <1>2 DEF Connect, Next, CsadStep
<1>3. CASE Report BY <1>3 DEF Report, Next, CsadStep
<1>4. CASE ReadEvent BY <1>4 DEF ReadEvent, Next, CsadStep
<1>5. CASE End BY <1>5 DEF End, Next, CsadStep
<1>6. ASSUME NEW small \in BOOLEAN, NEW brief \in BOOLEAN, Eop(small, brief)
      PROVE  UNCHANGED vars
  BY <1>6 DEF Eop, jobdSide
<1>7. ASSUME NEW r \in CtlCalls, Control(r) PROVE UNCHANGED vars
  BY <1>7 DEF Control, jobdSide
<1>8. CASE JobdServes BY <1>8 DEF JobdServes, Next, JobdStep
<1>9. CASE JobdRestarts BY <1>9 DEF JobdRestarts, Next, JobdStep
<1>10. CASE Ask BY <1>10 DEF Ask, Next
<1>11. ASSUME NEW p \in Pid, NEW s \in Status, Die(p, s) PROVE Next
  BY <1>11 DEF Die, Next
<1>12. ASSUME NEW p \in Pid, NEW c \in Pid, Breed(p, c) PROVE Next
  BY <1>12 DEF Breed, Next
<1>13. ASSUME NEW p \in Pid, ReapStep(p) PROVE Next
  BY <1>13 DEF Next
<1>14. CASE UNCHANGED cvars BY <1>14 DEF cvars
<1> QED
  BY <1>1, <1>2, <1>3, <1>4, <1>5, <1>6, <1>7, <1>8, <1>9, <1>10, <1>11, <1>12, <1>13, <1>14
     DEF CNext

(***************************************************************************)
(* The invariant                                                           *)
(***************************************************************************)
(* The file of CSA is only safe together with jobd's side: csad takes jobs *)
(* from jobd's process table and from jobd's events, which must be jobs.   *)
CInv == Inv /\ AcctOk(acct)

LEMMA OutcomeType ==
  ASSUME NEW ok \in Outcomes
  PROVE  ok \in [{1, 2} -> BOOLEAN] /\ ok[1] \in BOOLEAN
BY DEF Outcomes

LEMMA JidLookupType ==
  ASSUME Inv, NEW p \in Pid
  PROVE  JidLookup(p) \in Jid \cup {NoJid}
<1>1. tbl \in Memory BY DEF Inv, TypeOK
<1>2. tbl.proc[p] \in ProcEntry BY <1>1 DEF Memory
<1> QED BY <1>2 DEF JidLookup, ProcEntry

LEMMA EopAcct ==
  ASSUME CInv, NEW small \in BOOLEAN, NEW brief \in BOOLEAN, Eop(small, brief)
  PROVE  AcctOk(acct')
<1>1. Head(tsq).pid \in Pid
  <2>1. tsq \in Seq(TaskRec) /\ tsq # <<>> BY DEF CInv, Inv, TypeOK, KernelTypeOK, Eop
  <2>2. Head(tsq) \in TaskRec BY <2>1
  <2> QED BY <2>2 DEF TaskRec
<1>2. JidLookup(Head(tsq).pid) \in Jid \cup {NoJid} BY <1>1, JidLookupType DEF CInv
<1>3. AcctOk(Quiet(acct)) BY QuietOk DEF CInv
<1>4. PICK ok \in Outcomes :
        acct' = AcctEop(Quiet(acct), JidLookup(Head(tsq).pid), small, brief, ok)
  BY DEF Eop
<1> QED BY <1>2, <1>3, <1>4, OutcomeType, AcctEopOk

LEMMA ReadEventAcct ==
  ASSUME CInv, ReadEvent PROVE AcctOk(acct')
<1>1. Head(tbl.toCsa) \in CsaEvent
  <2>1. tbl.toCsa \in Seq(CsaEvent) /\ tbl.toCsa # <<>>
    BY DEF CInv, Inv, TypeOK, Memory, ReadEvent, CsadRead
  <2> QED BY <2>1
<1>2. AcctOk(Quiet(acct)) BY QuietOk DEF CInv
<1>3. PICK ok \in Outcomes : acct' = JobEvent(Quiet(acct), Head(tbl.toCsa), ok[1])
  BY DEF ReadEvent
<1> QED BY <1>1, <1>2, <1>3, OutcomeType, JobEventOk

LEMMA ControlAcct ==
  ASSUME CInv, NEW r \in CtlCalls, Control(r) PROVE AcctOk(acct')
<1>1. r \in CtlRequest BY CsadAssumption
<1> DEFINE j == IF r.op \in {"JASTART", "JASTOP"} THEN JidLookup(r.pid) ELSE NoJid
<1>2. j \in Jid \cup {NoJid}
  <2>1. r.op \in {"JASTART", "JASTOP"} => r.pid \in Pid BY <1>1 DEF CtlRequest
  <2> QED BY <2>1, JidLookupType DEF CInv
<1>3. AcctOk(Quiet(acct)) BY QuietOk DEF CInv
<1>4. PICK ok \in Outcomes, junk \in BOOLEAN : acct' = DoCtl(Quiet(acct), r, j, junk, ok)
  BY DEF Control
<1> HIDE DEF j
<1> QED BY <1>1, <1>2, <1>3, <1>4, OutcomeType, DoCtlOk

LEMMA WithCsadAcct ==
  ASSUME CInv, WithCsad PROVE AcctOk(acct')
BY InitAcctOk DEF CInv, WithCsad

LEMMA CNextInv ==
  ASSUME CInv, [CNext]_cvars PROVE CInv'
<1>1. Inv'
  BY CNextImplements, NextInv DEF CInv
<1>2. AcctOk(acct')
  <2>1. CASE Begin \/ End BY <2>1, QuietOk DEF Begin, End, CInv
  <2>2. CASE Connect BY <2>2 DEF Connect, CInv
  <2>3. CASE Report BY <2>3, QuietOk DEF Report, CInv
  <2>4. CASE ReadEvent BY <2>4, ReadEventAcct
  <2>5. CASE \E small, brief \in BOOLEAN : Eop(small, brief) BY <2>5, EopAcct
  <2>6. CASE \E r \in CtlCalls : Control(r) BY <2>6, ControlAcct
  <2>7. CASE JobdServes \/ JobdRestarts BY <2>7, WithCsadAcct DEF JobdServes, JobdRestarts
  <2>8. CASE Ask \/ UNCHANGED cvars BY <2>8 DEF Ask, cvars, CInv
  <2>9. CASE \E p \in Pid, s \in Status : Die(p, s) BY <2>9 DEF Die, CInv
  <2>10. CASE \E p, c \in Pid : Breed(p, c) BY <2>10 DEF Breed, CInv
  <2>11. CASE \E p \in Pid : ReapStep(p) /\ UNCHANGED <<hvars, acct, eop, tsJob, phase>>
    BY <2>11 DEF CInv
  <2> QED
    BY <2>1, <2>2, <2>3, <2>4, <2>5, <2>6, <2>7, <2>8, <2>9, <2>10, <2>11 DEF CNext
<1> QED BY <1>1, <1>2 DEF CInv

(***************************************************************************)
(* The events on their way to csad                                         *)
(***************************************************************************)
Told(type, j) == [type |-> type, jid |-> j]

LEMMA AppendAt ==
  ASSUME NEW S, NEW q \in Seq(S), NEW e \in S, NEW r, r = Append(q, e)
  PROVE  /\ r \in Seq(S) /\ Len(r) = Len(q) + 1 /\ Len(q) \in Nat
         /\ DOMAIN q = 1 .. Len(q) /\ DOMAIN r = 1 .. (Len(q) + 1)
         /\ \A i \in 1 .. Len(q) : r[i] = q[i]
         /\ r[Len(q) + 1] = e
BY AppendProperties

(* What csad will know after one more event.                               *)
LEMMA TabStarts ==
  ASSUME NEW q \in Seq(CsaEvent), NEW j \in Jid, NEW tab, NEW r, r = Append(q, Told("START", j))
  PROVE  TabAfter(tab, r) \subseteq TabAfter(tab, q) \cup {j}
<1>1. Told("START", j) \in CsaEvent BY DEF Told, CsaEvent
<1>2. /\ Len(q) \in Nat /\ DOMAIN q = 1 .. Len(q) /\ DOMAIN r = 1 .. (Len(q) + 1)
      /\ \A i \in 1 .. Len(q) : r[i] = q[i]
      /\ r[Len(q) + 1] = Told("START", j)
  BY <1>1, AppendAt
<1> SUFFICES ASSUME NEW k \in TabAfter(tab, r), k # j PROVE k \in TabAfter(tab, q)
  OBVIOUS
<1>3. k \in Jid /\ \A i : ~EndFollows(r, i, k) => ~EndFollows(q, i, k)
  BY <1>2 DEF TabAfter, EndFollows
<1>4. CASE k \in tab /\ ~EndFollows(r, 0, k)
  BY <1>3, <1>4 DEF TabAfter
<1>5. CASE \E i \in DOMAIN r : r[i] = [type |-> "START", jid |-> k] /\ ~EndFollows(r, i, k)
  <2>1. PICK i \in DOMAIN r : r[i] = [type |-> "START", jid |-> k] /\ ~EndFollows(r, i, k)
    BY <1>5
  <2>2. i # Len(q) + 1 BY <1>2, <2>1 DEF Told
  <2>3. i \in DOMAIN q /\ q[i] = r[i] BY <1>2, <2>1, <2>2
  <2> QED BY <1>3, <2>1, <2>3 DEF TabAfter
<1> QED BY <1>4, <1>5 DEF TabAfter

LEMMA TabEnds ==
  ASSUME NEW q \in Seq(CsaEvent), NEW j \in Jid, NEW tab, NEW r, r = Append(q, Told("END", j))
  PROVE  TabAfter(tab, r) \subseteq TabAfter(tab, q) \ {j}
<1>1. Told("END", j) \in CsaEvent BY DEF Told, CsaEvent
<1>2. /\ Len(q) \in Nat /\ DOMAIN q = 1 .. Len(q) /\ DOMAIN r = 1 .. (Len(q) + 1)
      /\ \A i \in 1 .. Len(q) : r[i] = q[i]
      /\ r[Len(q) + 1] = Told("END", j)
  BY <1>1, AppendAt
<1> SUFFICES ASSUME NEW k \in TabAfter(tab, r) PROVE k \in TabAfter(tab, q) /\ k # j
  OBVIOUS
<1>3. k \in Jid /\ \A i : ~EndFollows(r, i, k) => ~EndFollows(q, i, k)
  BY <1>2 DEF TabAfter, EndFollows
<1>4. ASSUME NEW i \in 0 .. Len(q), ~EndFollows(r, i, k) PROVE k # j
  <2>1. Len(q) + 1 \in DOMAIN r /\ Len(q) + 1 > i BY <1>2
  <2> QED BY <1>2, <1>4, <2>1 DEF EndFollows, Told
<1>5. CASE k \in tab /\ ~EndFollows(r, 0, k)
  BY <1>2, <1>3, <1>4, <1>5 DEF TabAfter
<1>6. CASE \E i \in DOMAIN r : r[i] = [type |-> "START", jid |-> k] /\ ~EndFollows(r, i, k)
  <2>1. PICK i \in DOMAIN r : r[i] = [type |-> "START", jid |-> k] /\ ~EndFollows(r, i, k)
    BY <1>6
  <2>2. i # Len(q) + 1 BY <1>2, <2>1 DEF Told
  <2>3. i \in DOMAIN q /\ q[i] = r[i] /\ i \in 0 .. Len(q) BY <1>2, <2>1, <2>2
  <2> QED BY <1>3, <1>4, <2>1, <2>3 DEF TabAfter
<1> QED BY <1>5, <1>6 DEF TabAfter

LEMMA TailAt ==
  ASSUME NEW S, NEW q \in Seq(S), q # <<>>, NEW r, r = Tail(q)
  PROVE  /\ Len(q) \in Nat /\ Len(r) = Len(q) - 1 /\ Len(q) >= 1
         /\ DOMAIN q = 1 .. Len(q) /\ DOMAIN r = 1 .. (Len(q) - 1)
         /\ \A i \in 1 .. (Len(q) - 1) : r[i] = q[i + 1]
         /\ q[1] = Head(q)
OBVIOUS

(* Reading an event does not change what csad will know in the end.        *)
LEMMA TabRead ==
  ASSUME NEW q \in Seq(CsaEvent), q # <<>>, NEW tab, NEW new,
         \A k \in Jid : k \in new => \/ k \in tab /\ Head(q) # Told("END", k)
                                     \/ Head(q) = Told("START", k)
  PROVE  TabAfter(new, Tail(q)) \subseteq TabAfter(tab, q)
<1> DEFINE r == Tail(q)
<1>1. /\ Len(q) \in Nat /\ Len(q) >= 1
      /\ DOMAIN q = 1 .. Len(q) /\ DOMAIN r = 1 .. (Len(q) - 1)
      /\ \A i \in 1 .. (Len(q) - 1) : r[i] = q[i + 1]
      /\ q[1] = Head(q)
  BY TailAt
<1> HIDE DEF r
<1> SUFFICES ASSUME NEW k \in TabAfter(new, r) PROVE k \in TabAfter(tab, q)
  BY DEF r
<1>2. k \in Jid BY DEF TabAfter
<1>3. ASSUME NEW i \in 0 .. (Len(q) - 1), ~EndFollows(r, i, k) PROVE ~EndFollows(q, i + 1, k)
  <2> SUFFICES ASSUME EndFollows(q, i + 1, k) PROVE EndFollows(r, i, k)
    BY <1>3
  <2>1. PICK m \in DOMAIN q : m > i + 1 /\ q[m] = [type |-> "END", jid |-> k]
    BY DEF EndFollows
  <2>2. m - 1 \in DOMAIN r /\ m - 1 > i /\ r[m - 1] = q[m] BY <1>1, <2>1
  <2> QED BY <2>1, <2>2 DEF EndFollows
<1>4. CASE k \in new /\ ~EndFollows(r, 0, k)
  <2>1. 0 \in 0 .. (Len(q) - 1) BY <1>1
  <2>2. ~EndFollows(q, 1, k) BY <1>3, <1>4, <2>1
  <2>3. CASE Head(q) = Told("START", k)
    BY <1>1, <1>2, <2>2, <2>3 DEF TabAfter, Told
  <2>4. CASE k \in tab /\ Head(q) # Told("END", k)
    <3>1. ~EndFollows(q, 0, k)
      <4> SUFFICES ASSUME EndFollows(q, 0, k) PROVE FALSE OBVIOUS
      <4>1. PICK m \in DOMAIN q : m > 0 /\ q[m] = [type |-> "END", jid |-> k] BY DEF EndFollows
      <4>2. CASE m = 1 BY <1>1, <2>4, <4>1, <4>2 DEF Told
      <4>3. CASE m # 1 BY <1>1, <2>2, <4>1, <4>3 DEF EndFollows
      <4> QED BY <4>2, <4>3
    <3> QED BY <1>2, <2>4, <3>1 DEF TabAfter
  <2> QED BY <1>2, <1>4, <2>3, <2>4
<1>5. CASE \E i \in DOMAIN r : r[i] = [type |-> "START", jid |-> k] /\ ~EndFollows(r, i, k)
  <2>1. PICK i \in DOMAIN r : r[i] = [type |-> "START", jid |-> k] /\ ~EndFollows(r, i, k)
    BY <1>5
  <2>2. i \in 0 .. (Len(q) - 1) /\ i + 1 \in DOMAIN q /\ q[i + 1] = r[i] BY <1>1, <2>1
  <2> QED BY <1>2, <1>3, <2>1, <2>2 DEF TabAfter
<1> QED BY <1>4, <1>5 DEF TabAfter

LEMMA TabEmpty ==
  ASSUME NEW tab PROVE TabAfter(tab, <<>>) \subseteq tab
BY DEF TabAfter, EndFollows

(***************************************************************************)
(* What jobd has told csad                                                 *)
(***************************************************************************)
(* The memory u after a handler that began with t: what jobd has told csad *)
(* leads to no job that jobd does not have, if it did not before.          *)
Tracks(t, u) ==
  /\ u.csaPeer = t.csaPeer
  /\ u.csaActive => t.csaActive
  /\ ~t.csaPeer => u.toCsa = t.toCsa
  /\ t.csaActive /\ t.csaPeer =>
       /\ u.csaActive
       /\ \A tab \in SUBSET Jid :
            TabAfter(tab, t.toCsa) \subseteq t.jobTab => TabAfter(tab, u.toCsa) \subseteq u.jobTab
SameLink(t, u) ==
  u.csaPeer = t.csaPeer /\ u.csaActive = t.csaActive /\ u.toCsa = t.toCsa
SameJobs(t, u) == SameLink(t, u) /\ u.jobTab = t.jobTab

LEMMA TracksSame ==
  ASSUME NEW t, NEW u, SameJobs(t, u) PROVE Tracks(t, u)
BY DEF SameJobs, SameLink, Tracks

LEMMA TracksTrans ==
  ASSUME NEW t, NEW u, NEW v, Tracks(t, u), Tracks(u, v) PROVE Tracks(t, v)
BY DEF Tracks

LEMMA ReplyLink ==
  ASSUME NEW t \in Memory, NEW j \in Jid
  PROVE  SameLink(t, ReplyToWaiters(t, j))
<1> DEFINE ans == [c \in Client |->
             IF c \in ToSet(t.job[j].waitq)
             THEN [op |-> "WAITJID", err |-> "OK", jid |-> j,
                   val |-> t.job[j].waitstat, list |-> <<>>]
             ELSE t.answer[c]]
           f == DropWaiters(t.job[j])
<1>1. ReplyToWaiters(t, j) = [t EXCEPT !.answer = ans, !.job[j] = f]
  BY DEF ReplyToWaiters, Memory
<1> HIDE DEF ans, f
<1> QED BY <1>1 DEF SameLink, Memory

LEMMA SendEnd ==
  ASSUME NEW t \in Memory, NEW j \in Jid, NEW u \in Memory, SameLink(t, u),
         u.jobTab = t.jobTab \ {j}
  PROVE  Tracks(t, CSA_jobend(u, j)) /\ CSA_jobend(u, j).jobTab = u.jobTab
<1> DEFINE v == CSA_jobend(u, j)
           q == Append(u.toCsa, Told("END", j))
<1>1. u.toCsa \in Seq(CsaEvent) BY DEF Memory
<1>2. ASSUME NEW tab PROVE TabAfter(tab, q) \subseteq TabAfter(tab, u.toCsa) \ {j}
  <2>1. PICK s \in Seq(CsaEvent) : s = u.toCsa BY <1>1
  <2>2. q = Append(s, Told("END", j)) BY <2>1
  <2> HIDE DEF q
  <2>3. TabAfter(tab, q) \subseteq TabAfter(tab, s) \ {j} BY <2>2, TabEnds, Zenon
  <2> QED BY <2>1, <2>3
<1>3. v = IF u.csaActive THEN IF u.csaPeer THEN [u EXCEPT !.toCsa = q]
                              ELSE [u EXCEPT !.csaActive = FALSE] ELSE u
  BY DEF CSA_jobend, SendCsa, Told
<1> HIDE DEF v, q
<1>4. CASE u.csaActive /\ u.csaPeer
  <2>1. v.toCsa = q /\ v.csaActive /\ v.csaPeer /\ v.jobTab = u.jobTab
    BY <1>3, <1>4 DEF Memory
  <2>2. ASSUME NEW tab \in SUBSET Jid, TabAfter(tab, t.toCsa) \subseteq t.jobTab
        PROVE  TabAfter(tab, v.toCsa) \subseteq v.jobTab
    <3>1. TabAfter(tab, q) \subseteq TabAfter(tab, u.toCsa) \ {j} BY <1>2
    <3> QED BY <2>1, <2>2, <3>1 DEF SameLink
  <2> QED BY <1>4, <2>1, <2>2 DEF Tracks, SameLink, v
<1>5. CASE u.csaActive /\ ~u.csaPeer
  <2>1. v.toCsa = u.toCsa /\ ~v.csaActive /\ v.csaPeer = u.csaPeer /\ v.jobTab = u.jobTab
    BY <1>3, <1>5 DEF Memory
  <2> QED BY <1>5, <2>1 DEF Tracks, SameLink, v
<1>6. CASE ~u.csaActive
  <2>1. v = u BY <1>3, <1>6
  <2> QED BY <1>6, <2>1 DEF Tracks, SameLink, v
<1> QED BY <1>4, <1>5, <1>6

LEMMA SendStart ==
  ASSUME NEW t \in Memory, NEW j \in Jid, NEW u \in Memory, SameLink(t, u),
         u.jobTab = t.jobTab \cup {j}
  PROVE  Tracks(t, CSA_jobstart(u, j)) /\ CSA_jobstart(u, j).jobTab = u.jobTab
<1> DEFINE v == CSA_jobstart(u, j)
           q == Append(u.toCsa, Told("START", j))
<1>1. u.toCsa \in Seq(CsaEvent) BY DEF Memory
<1>2. ASSUME NEW tab PROVE TabAfter(tab, q) \subseteq TabAfter(tab, u.toCsa) \cup {j}
  <2>1. PICK s \in Seq(CsaEvent) : s = u.toCsa BY <1>1
  <2>2. q = Append(s, Told("START", j)) BY <2>1
  <2> HIDE DEF q
  <2>3. \A x \in Seq(CsaEvent), y \in Jid : \A r : r = Append(x, Told("START", y)) =>
          TabAfter(tab, r) \subseteq TabAfter(tab, x) \cup {y}
    BY TabStarts
  <2>4. TabAfter(tab, q) \subseteq TabAfter(tab, s) \cup {j} BY <2>1, <2>2, <2>3
  <2> QED BY <2>1, <2>4
<1>3. v = IF u.csaActive THEN IF u.csaPeer THEN [u EXCEPT !.toCsa = q]
                              ELSE [u EXCEPT !.csaActive = FALSE] ELSE u
  BY DEF CSA_jobstart, SendCsa, Told
<1> HIDE DEF v, q
<1>4. CASE u.csaActive /\ u.csaPeer
  <2>1. v.toCsa = q /\ v.csaActive /\ v.csaPeer /\ v.jobTab = u.jobTab
    BY <1>3, <1>4 DEF Memory
  <2>2. ASSUME NEW tab \in SUBSET Jid, TabAfter(tab, t.toCsa) \subseteq t.jobTab
        PROVE  TabAfter(tab, v.toCsa) \subseteq v.jobTab
    <3>1. TabAfter(tab, q) \subseteq TabAfter(tab, u.toCsa) \cup {j} BY <1>2
    <3> QED BY <2>1, <2>2, <3>1 DEF SameLink
  <2> QED BY <1>4, <2>1, <2>2 DEF Tracks, SameLink, v
<1>5. CASE u.csaActive /\ ~u.csaPeer
  <2>1. v.toCsa = u.toCsa /\ ~v.csaActive /\ v.csaPeer = u.csaPeer /\ v.jobTab = u.jobTab
    BY <1>3, <1>5 DEF Memory
  <2> QED BY <1>5, <2>1 DEF Tracks, SameLink, v
<1>6. CASE ~u.csaActive
  <2>1. v = u BY <1>3, <1>6
  <2> QED BY <1>6, <2>1 DEF Tracks, SameLink, v
<1> QED BY <1>4, <1>5, <1>6

(* job_cleanup(): csad is told of the end of the job that is unlinked.     *)
LEMMA CleanupTracks ==
  ASSUME NEW t \in Memory, NEW j \in Jid
  PROVE  JobCleanup(t, j) \in Memory /\ Tracks(t, JobCleanup(t, j))
<1>1. CASE t.job[j].refcnt # 0
  <2>1. JobCleanup(t, j) = t BY <1>1 DEF JobCleanup
  <2> QED BY <2>1, TracksSame DEF SameJobs, SameLink
<1>2. CASE t.job[j].refcnt = 0
  <2> DEFINE a == UnlinkJobFromHash(t, j)
             b == IF a.job[j].waitcnt > 0 THEN ReplyToWaiters(a, j) ELSE a
             d == CSA_jobend(b, j)
             u == JobCleanup(t, j)
  <2>1. u \in Memory /\ u.jobTab = t.jobTab \ {j} BY <1>2, JobCleanupKeeps
  <2>2. a \in Memory /\ a.jobTab = t.jobTab \ {j} /\ SameLink(t, a)
    <3>1. t.nJobs - 1 \in Int BY DEF Memory
    <3> DEFINE n == t.nJobs - 1
    <3>2. a = [t EXCEPT !.jobTab = t.jobTab \ {j}, !.nJobs = n]
      BY DEF UnlinkJobFromHash, Memory
    <3> HIDE DEF a, n
    <3> QED BY <3>1, <3>2 DEF Memory, SameLink, n
  <2> HIDE DEF a
  <2>3. b \in Memory /\ b.jobTab = t.jobTab \ {j} /\ SameLink(t, b)
    <3>1. SameLink(a, ReplyToWaiters(a, j)) BY <2>2, ReplyLink
    <3>2. ReplyToWaiters(a, j) \in Memory /\ ReplyToWaiters(a, j).jobTab = a.jobTab
      BY <2>2, ReplyToWaitersKeeps
    <3>3. b \in {a, ReplyToWaiters(a, j)} OBVIOUS
    <3> HIDE DEF b
    <3> QED BY <2>2, <3>1, <3>2, <3>3 DEF SameLink
  <2> HIDE DEF b
  <2>4. d \in Memory /\ Tracks(t, d) BY <2>3, SendEnd, JobEventsKeep
  <2>5. u = [d EXCEPT !.job[j] = FreeJob] BY <1>2 DEF JobCleanup, a, b
  <2> HIDE DEF d, u
  <2>6. SameJobs(d, u) BY <2>4, <2>5 DEF Memory, SameJobs, SameLink
  <2>7. Tracks(t, u) BY <2>4, <2>6, TracksSame, TracksTrans
  <2> QED BY <2>1, <2>7 DEF u
<1> QED BY <1>1, <1>2

LEMMA AddLink ==
  ASSUME NEW t \in Memory, NEW p \in Pid, NEW j \in Jid, NEW u, u = AddProcToJob(t, p, j)
  PROVE  u \in Memory /\ SameJobs(t, u)
<1>1. AddProcToJob(t, p, j) \in Memory /\ AddProcToJob(t, p, j).jobTab = t.jobTab
  BY AddProcToJobKeeps
<1>2. SameLink(t, AddProcToJob(t, p, j)) BY DEF AddProcToJob, SameLink, Memory
<1> QED BY <1>1, <1>2 DEF SameJobs

LEMMA HashLink ==
  ASSUME NEW t \in Memory, NEW p \in Pid
  PROVE  /\ AddProcToHash(t, p) \in Memory /\ SameJobs(t, AddProcToHash(t, p))
         /\ UnlinkProcFromHash(t, p) \in Memory /\ SameJobs(t, UnlinkProcFromHash(t, p))
BY DEF AddProcToHash, UnlinkProcFromHash, Memory, SameJobs, SameLink

LEMMA SameJobsTrans ==
  ASSUME NEW t, NEW u, NEW v, SameJobs(t, u), SameJobs(u, v) PROVE SameJobs(t, v)
BY DEF SameJobs, SameLink

LEMMA JoinTracks ==
  ASSUME NEW t \in Memory, NEW p \in Pid, NEW j \in Jid
  PROVE  /\ AddProcToHash(AddProcToJob(t, p, j), p) \in Memory
         /\ SameJobs(t, AddProcToHash(AddProcToJob(t, p, j), p))
<1> DEFINE a == AddProcToJob(t, p, j)
<1>1. a \in Memory /\ SameJobs(t, a) BY AddLink
<1> HIDE DEF a
<1>2. AddProcToHash(a, p) \in Memory /\ SameJobs(a, AddProcToHash(a, p)) BY <1>1, HashLink
<1>3. SameJobs(t, AddProcToHash(a, p)) BY <1>1, <1>2, SameJobsTrans
<1> QED BY <1>2, <1>3 DEF a

LEMMA UnlinkLink ==
  ASSUME NEW t \in Memory, NEW p, NEW status
  PROVE  SameJobs(t, UnlinkProcFromJob(t, p, status))
BY DEF UnlinkProcFromJob, SameJobs, SameLink, Memory

LEMMA DropProcTracks ==
  ASSUME NEW t \in Memory, TablesAgree(t), NEW p \in t.procTab, NEW status \in Status
  PROVE  Tracks(t, DropProc(t, p, status))
<1> DEFINE o == t.proc[p].job
           a == UnlinkProcFromHash(t, p)
           b == UnlinkProcFromJob(a, p, status)
           d == JobCleanup(b, o)
           u == DropProc(t, p, status)
<1>1. o \in Jid /\ p \in Pid BY MemberPlace DEF Memory
<1>2. /\ a \in Memory /\ a.jobTab = t.jobTab /\ a.nJobs = t.nJobs /\ a.job = t.job /\ a.proc = t.proc
      /\ SameJobs(t, a)
  BY DEF UnlinkProcFromHash, Memory, SameJobs, SameLink
<1> HIDE DEF a
<1>3. b \in Memory /\ SameJobs(a, b)
  <2>1. a.job[t.proc[p].job] = t.job[t.proc[p].job] BY <1>2
  <2>2. b = UnlinkProcFromJob(a, p, status) OBVIOUS
  <2> HIDE DEF b
  <2>3. b \in Memory BY <1>2, <2>1, <2>2, UnlinkProcKeeps
  <2> QED BY <1>2, <2>2, <2>3, UnlinkLink
<1>4. u = [d EXCEPT !.proc[p] = FreeProc] BY DEF DropProc, a
<1> HIDE DEF b, o
<1>5. d \in Memory /\ Tracks(b, d) BY <1>1, <1>3, CleanupTracks
<1> HIDE DEF d, u
<1>6. SameJobs(d, u) BY <1>4, <1>5 DEF Memory, SameJobs, SameLink
<1>7. Tracks(t, b) BY <1>2, <1>3, SameJobsTrans, TracksSame
<1>8. Tracks(t, d) BY <1>5, <1>7, TracksTrans
<1>9. Tracks(t, u) BY <1>6, <1>8, TracksSame, TracksTrans
<1> QED BY <1>9 DEF u

LEMMA ExitHandlerTracks ==
  ASSUME NEW t \in Memory, TablesAgree(t), NEW p \in Pid, NEW status \in Status
  PROVE  Tracks(t, ExitHandler(t, p, status))
<1>1. CASE p \in t.procTab BY <1>1, DropProcTracks DEF ExitHandler
<1>2. CASE p \notin t.procTab
  BY <1>2, TracksSame DEF ExitHandler, SameJobs, SameLink
<1> QED BY <1>1, <1>2

LEMMA ForkHandlerTracks ==
  ASSUME NEW t \in Memory, TablesAgree(t), NEW parent \in Pid, NEW child \in Pid \ {parent}
  PROVE  Tracks(t, ForkHandler(t, parent, child))
<1> DEFINE j == t.proc[parent].job
           closed == IF child \in t.procTab
                     THEN ExitHandler(t, child, t.proc[child].saved) ELSE t
           u == AddProcToHash(AddProcToJob(closed, child, j), child)
<1>1. CASE parent \notin t.procTab \/ (child \in t.procTab /\ ~t.proc[child].exited)
  BY <1>1, TracksSame DEF ForkHandler, SameJobs, SameLink
<1>2. CASE ~(parent \notin t.procTab \/ (child \in t.procTab /\ ~t.proc[child].exited))
  <2>1. ForkHandler(t, parent, child) = u BY <1>2 DEF ForkHandler
  <2>2. j \in Jid BY <1>2, MemberPlace
  <2>3. t.proc[child].saved \in Status BY DEF Memory, ProcEntry
  <2>4. closed \in Memory /\ Tracks(t, closed)
    <3>1. CASE child \in t.procTab BY <2>3, <3>1, ExitHandlerAgrees, ExitHandlerTracks
    <3>2. CASE child \notin t.procTab BY <3>2, TracksSame DEF SameJobs, SameLink
    <3> QED BY <3>1, <3>2
  <2> HIDE DEF closed, j
  <2>5. SameJobs(closed, u) BY <2>2, <2>4, JoinTracks
  <2> HIDE DEF u
  <2> QED BY <2>1, <2>4, <2>5, TracksSame, TracksTrans
<1> QED BY <1>1, <1>2

LEMMA ExitEventTracks ==
  ASSUME NEW t \in Memory, TablesAgree(t), NEW p \in Pid, NEW status \in Status
  PROVE  Tracks(t, ExitEventHandler(t, p, status))
<1> DEFINE noted == Noted(t, p, status)
<1>1. ExitEventHandler(t, p, status) = IF t.csaActive THEN noted ELSE ExitHandler(noted, p, status)
  BY DEF ExitEventHandler, Noted
<1>2. noted \in Memory /\ TablesAgree(noted) BY NotedAgrees
<1>3. SameJobs(t, noted) BY DEF Noted, SameJobs, SameLink, Memory
<1> HIDE DEF noted
<1>4. Tracks(noted, ExitHandler(noted, p, status)) BY <1>2, ExitHandlerTracks
<1> QED BY <1>1, <1>3, <1>4, TracksSame, TracksTrans

(***************************************************************************)
(* Requests                                                                *)
(***************************************************************************)
LEMMA InstallJobTracks ==
  ASSUME NEW t \in Memory, TablesAgree(t), NEW p \in Pid, NEW j \in Jid \ t.jobTab,
         NEW user \in User
  PROVE  Tracks(t, InstallJob(t, p, j, user))
<1> DEFINE isNew == p \notin t.procTab
           o == t.proc[p].job
           e == [FreeJob EXCEPT !.user = user]
           fresh == [t EXCEPT !.job[j] = e]
           left == IF isNew THEN fresh ELSE UnlinkProcFromJob(fresh, p, 0)
           joined == AddProcToJob(left, p, j)
           cleaned == IF isNew THEN AddProcToHash(joined, p) ELSE JobCleanup(joined, o)
           added == AddJobToHash(cleaned, j)
<1>1. InstallJob(t, p, j, user) = CSA_jobstart(added, j) BY DEF InstallJob
<1>2. e \in JobEntry
  <2>1. FreeJob \in JobEntry BY FreeTypes
  <2> QED BY <2>1 DEF FreeJob, JobEntry
<1> HIDE DEF e
<1>3. /\ fresh \in Memory /\ fresh.jobTab = t.jobTab /\ fresh.nJobs = t.nJobs /\ fresh.proc = t.proc
      /\ fresh.job = [t.job EXCEPT ![j] = e] /\ SameJobs(t, fresh)
  BY <1>2 DEF Memory, SameJobs, SameLink
<1> HIDE DEF fresh
<1>4. left \in Memory /\ SameJobs(t, left)
  <2>1. CASE isNew BY <1>3, <2>1
  <2>2. CASE ~isNew
    <3>1. 0 \in Status /\ p \in t.procTab BY <2>2, ParamsAssumption
    <3>2. o \in t.jobTab /\ o \in Jid BY <3>1, MemberPlace
    <3>3. fresh.job[o] = t.job[o] BY <1>3, <3>2 DEF Memory
    <3>4. PICK s \in Status : s = 0 BY <3>1
    <3>5. left = UnlinkProcFromJob(fresh, p, s) BY <2>2, <3>4
    <3> HIDE DEF left
    <3>6. left \in Memory BY <1>3, <3>1, <3>3, <3>5, UnlinkProcKeeps
    <3> QED BY <1>3, <3>5, <3>6, UnlinkLink, SameJobsTrans
  <2> QED BY <2>1, <2>2
<1> HIDE DEF left
<1>5. joined \in Memory /\ SameJobs(t, joined) BY <1>4, AddLink, SameJobsTrans
<1> HIDE DEF joined
<1>6. cleaned \in Memory /\ Tracks(t, cleaned)
  <2>1. CASE isNew
    <3>1. cleaned \in Memory /\ SameJobs(joined, cleaned) BY <1>5, <2>1, HashLink
    <3> QED BY <1>5, <3>1, SameJobsTrans, TracksSame
  <2>2. CASE ~isNew
    <3>1. o \in Jid BY <2>2, MemberPlace
    <3>2. cleaned = JobCleanup(joined, o) BY <2>2
    <3> HIDE DEF cleaned, o
    <3>3. cleaned \in Memory /\ Tracks(joined, cleaned) BY <1>5, <3>1, <3>2, CleanupTracks
    <3> QED BY <1>5, <3>3, TracksSame, TracksTrans
  <2> QED BY <2>1, <2>2
<1> HIDE DEF cleaned
<1>7. added \in Memory /\ added.jobTab = cleaned.jobTab \cup {j} /\ SameLink(cleaned, added)
  <2>1. added \in Memory /\ added.jobTab = cleaned.jobTab \cup {j}
    BY <1>6, AddJobToHashKeeps, Zenon
  <2>2. SameLink(cleaned, added) BY <1>6 DEF AddJobToHash, SameLink, Memory
  <2> QED BY <2>1, <2>2
<1> HIDE DEF added
<1>8. Tracks(cleaned, CSA_jobstart(added, j)) BY <1>6, <1>7, SendStart
<1> QED BY <1>1, <1>6, <1>8, TracksTrans

LEMMA DetachAllTracks ==
  ASSUME NEW t \in Memory, NEW j \in t.jobTab
  PROVE  Tracks(t, DetachAll(t, j))
<1> DEFINE members == ToSet(t.job[j].proclist)
           e == ProcsLeave(t.job[j])
           procs == [p \in Pid |-> IF p \in members THEN FreeProc ELSE t.proc[p]]
           left == [t EXCEPT !.procTab = t.procTab \ members, !.proc = procs, !.job[j] = e]
<1>1. j \in Jid /\ t.job[j] \in JobEntry BY DEF Memory
<1>2. DetachAll(t, j) = JobCleanup(left, j) BY DEF DetachAll, Memory
<1>3. e \in JobEntry BY <1>1, ProcsLeaveType
<1>4. procs \in [Pid -> ProcEntry] BY FreeTypes DEF Memory
<1> HIDE DEF procs, e, members
<1>5. left \in Memory /\ SameJobs(t, left) BY <1>3, <1>4 DEF Memory, SameJobs, SameLink
<1> HIDE DEF left
<1>6. Tracks(left, JobCleanup(left, j)) BY <1>1, <1>5, CleanupTracks
<1> QED BY <1>2, <1>5, <1>6, TracksSame, TracksTrans

LEMMA AnswersTracks ==
  ASSUME NEW t \in Memory, NEW u, NEW c, Answers(t, u, c)
  PROVE  Tracks(t, u)
<1>1. PICK a : u = [t EXCEPT !.answer[c] = a] BY DEF Answers
<1>2. SameJobs(t, u) BY <1>1 DEF SameJobs, SameLink, Memory
<1> QED BY <1>2, TracksSame

(* A handler that does something, and then answers.                        *)
LEMMA RepliesTrack ==
  ASSUME NEW t, NEW u \in Memory, Tracks(t, u), NEW c, NEW op, NEW err, NEW jid, NEW val
  PROVE  Tracks(t, Reply(u, c, op, err, jid, val))
BY RepliesAnswer, AnswersTracks, TracksTrans

(* process_mesg(): every request tells csad of the jobs it makes and ends. *)
LEMMA ProcessMesgTracks ==
  ASSUME NEW t, Ok(t), t.hid # DISABLED, NEW c, NEW r \in Request, NEW exist,
         NEW u, u = ProcessMesg(t, c, r, exist)
  PROVE  Tracks(t, u)
<1> t \in Memory /\ TablesAgree(t) BY DEF Ok
<1>1. CASE r.op = "CREATE"
  <2>1. r.pid \in Pid /\ r.jid \in Jid \cup {NoJid} /\ r.user \in User BY <1>1 DEF Request
  <2>2. u = JobCreate(t, c, r, exist) BY <1>1 DEF ProcessMesg
  <2> DEFINE err == CreateError(t, c, r, exist)
             j == NewJid(t, r)
             a == InstallJob(t, r.pid, j, r.user)
             n == NewCount(t, r)
             b == [a EXCEPT !.count = n]
  <2>3. CASE err = "OK"
    <3>1. ~ JidRefused(t, r) BY <2>3 DEF CreateError
    <3>2. j \in Jid \ t.jobTab /\ n \in 0 .. (SidCount - 1) BY <2>1, <3>1, NewJidType
    <3>3. u = Reply(b, c, "CREATE", "OK", j, 0) BY <2>2, <2>3 DEF JobCreate
    <3> HIDE DEF j, n
    <3>4. a \in Memory /\ Tracks(t, a) BY <2>1, <3>2, InstallJobAgrees, InstallJobTracks
    <3> HIDE DEF a
    <3>5. b \in Memory /\ SameJobs(a, b) BY <3>2, <3>4 DEF Memory, SameJobs, SameLink
    <3> HIDE DEF b
    <3>6. Tracks(t, b) BY <3>4, <3>5, TracksSame, TracksTrans
    <3> QED BY <3>3, <3>5, <3>6, RepliesTrack
  <2>4. CASE err # "OK"
    <3>1. Answers(t, u, c) BY <2>2, <2>4, RepliesAnswer DEF JobCreate
    <3> QED BY <3>1, AnswersTracks
  <2> QED BY <2>3, <2>4
<1>2. CASE r.op = "WAITJID"
  <2>1. u = WaitJid(t, c, r) BY <1>2 DEF ProcessMesg
  <2>2. CASE r.options # 0 \/ r.jid \notin t.jobTab
    <3>1. Answers(t, u, c) BY <2>1, <2>2, RepliesAnswer DEF WaitJid
    <3> QED BY <3>1, AnswersTracks
  <2>3. CASE ~(r.options # 0 \/ r.jid \notin t.jobTab)
    <3>1. u = [t EXCEPT !.job[r.jid] = WaiterJoins(@, c)] BY <2>1, <2>3 DEF WaitJid
    <3>2. SameJobs(t, u) BY <3>1 DEF Memory, SameJobs, SameLink
    <3> QED BY <3>2, TracksSame
  <2> QED BY <2>2, <2>3
<1>3. CASE r.op = "DETACHJID"
  <2>1. u = DetachJid(t, c, r) BY <1>3 DEF ProcessMesg
  <2>2. CASE c \in Priv /\ r.jid \in t.jobTab
    <3>1. DetachAll(t, r.jid) \in Memory /\ Tracks(t, DetachAll(t, r.jid))
      BY <2>2, DetachAllAgrees, DetachAllTracks
    <3>2. u = Reply(DetachAll(t, r.jid), c, "DETACHJID", "OK", NoJid, t.job[r.jid].refcnt)
      BY <2>1, <2>2 DEF DetachJid
    <3> QED BY <3>1, <3>2, RepliesTrack
  <2>3. CASE ~(c \in Priv /\ r.jid \in t.jobTab)
    <3>1. Answers(t, u, c) BY <2>1, <2>3, RepliesAnswer DEF DetachJid
    <3> QED BY <3>1, AnswersTracks
  <2> QED BY <2>2, <2>3
<1>4. CASE r.op = "DETACHPID"
  <2>1. u = DetachPid(t, c, r) BY <1>4 DEF ProcessMesg
  <2>2. CASE c \in Priv /\ r.pid \in t.procTab
    <3>1. 0 \in Status BY ParamsAssumption
    <3>2. DropProc(t, r.pid, 0) \in Memory /\ Tracks(t, DropProc(t, r.pid, 0))
      BY <2>2, <3>1, DropProcAgrees, DropProcTracks
    <3>3. u = Reply(DropProc(t, r.pid, 0), c, "DETACHPID", "OK", t.proc[r.pid].job, 0)
      BY <2>1, <2>2 DEF DetachPid
    <3> QED BY <3>2, <3>3, RepliesTrack
  <2>3. CASE ~(c \in Priv /\ r.pid \in t.procTab)
    <3>1. Answers(t, u, c) BY <2>1, <2>3, RepliesAnswer DEF DetachPid
    <3> QED BY <3>1, AnswersTracks
  <2> QED BY <2>2, <2>3
<1>5. CASE r.op = "ATTACHPID"
  <2>1. u = AttachPid(t, c, r, exist) /\ r.pid \in Pid BY <1>5 DEF ProcessMesg, Request
  <2> DEFINE a == AddProcToHash(AddProcToJob(t, r.pid, r.jid), r.pid)
  <2>2. CASE AttachError(t, c, r, exist) = "OK"
    <3>1. r.jid \in t.jobTab BY <2>2 DEF AttachError
    <3>2. r.jid \in Jid BY <3>1 DEF Memory
    <3>3. u = Reply(a, c, "ATTACHPID", "OK", r.jid, 0) BY <2>1, <2>2 DEF AttachPid
    <3>4. a \in Memory /\ SameJobs(t, a) BY <2>1, <3>2, JoinTracks
    <3> HIDE DEF a
    <3> QED BY <3>3, <3>4, TracksSame, RepliesTrack
  <2>3. CASE AttachError(t, c, r, exist) # "OK"
    <3>1. Answers(t, u, c) BY <2>1, <2>3, RepliesAnswer DEF AttachPid
    <3> QED BY <3>1, AnswersTracks
  <2> QED BY <2>2, <2>3
<1>6. CASE r.op = "SETHID"
  <2>1. u = SetHid(t, c, r) /\ r.hid \in Hid \cup {DISABLED} BY <1>6 DEF ProcessMesg, Request
  <2> DEFINE a == [t EXCEPT !.hid = r.hid]
  <2>2. CASE c \in Priv
    <3>1. u = Reply(a, c, "SETHID", "OK", NoJid, r.hid) BY <2>1, <2>2 DEF SetHid
    <3>2. a \in Memory /\ SameJobs(t, a) BY <2>1 DEF Memory, SameJobs, SameLink
    <3> HIDE DEF a
    <3> QED BY <3>1, <3>2, TracksSame, RepliesTrack
  <2>3. CASE c \notin Priv
    <3>1. Answers(t, u, c) BY <2>1, <2>3, RepliesAnswer DEF SetHid
    <3> QED BY <3>1, AnswersTracks
  <2> QED BY <2>2, <2>3
<1>7. CASE r.op \in {"KILLJID", "GETJID", "GETJIDCNT", "GETJIDLST", "GETPIDCNT", "GETPIDLST", "GETUSER",
                     "GETPRIMEPID"}
  <2>1. Answers(t, u, c) BY <1>7, QueriesAnswer DEF ProcessMesg
  <2> QED BY <2>1, AnswersTracks
<1>8. r.op \in Op BY DEF Request, Op
<1> QED BY <1>1, <1>2, <1>3, <1>4, <1>5, <1>6, <1>7, <1>8 DEF Op

(***************************************************************************)
(* What csad writes                                                        *)
(***************************************************************************)
(* A record that opens and closes no job, and uses none that is unknown.   *)
Mild(r, tab) == r.file # NoJid \/ r.type \in {"DMD", "CFG"} \/ (r.type = "CSA" /\ r.jid \in tab)
Plain(m) == \A i \in DOMAIN m.out : Mild(m.out[i], m.tab)

(* The memory u after a handler that wrote at most n plain records.        *)
Wrote(m, u, n) ==
  u.tab = m.tab /\ (Plain(m) => Plain(u)) /\ Len(u.out) <= Len(m.out) + n

LEMMA WroteTrans ==
  ASSUME NEW m \in AcctMemory, NEW u \in AcctMemory, NEW v \in AcctMemory,
         NEW a \in Nat, NEW b \in Nat, Wrote(m, u, a), Wrote(u, v, b)
  PROVE  Wrote(m, v, a + b)
<1>1. Len(m.out) \in Nat /\ Len(u.out) \in Nat /\ Len(v.out) \in Nat BY DEF AcctMemory
<1>2. Len(v.out) <= Len(m.out) + (a + b)
  <2>1. Len(u.out) <= Len(m.out) + a /\ Len(v.out) <= Len(u.out) + b BY DEF Wrote
  <2> DEFINE x == Len(m.out)
             y == Len(u.out)
             z == Len(v.out)
  <2>2. x \in Nat /\ y \in Nat /\ z \in Nat /\ y <= x + a /\ z <= y + b BY <1>1, <2>1
  <2> HIDE DEF x, y, z
  <2>3. z <= x + (a + b) BY <2>2
  <2> QED BY <2>3 DEF x, z
<1>3. v.tab = m.tab /\ (Plain(m) => Plain(v)) BY DEF Wrote
<1> QED BY <1>2, <1>3 DEF Wrote

LEMMA NothingWrote ==
  ASSUME NEW m \in AcctMemory, NEW u, u.out = m.out, u.tab = m.tab, NEW n \in Nat
  PROVE  Wrote(m, u, n)
<1>1. Len(m.out) \in Nat BY DEF AcctMemory
<1> QED BY <1>1 DEF Wrote, Plain

LEMMA EmitWrote ==
  ASSUME NEW m \in AcctMemory, NEW r \in Record, Mild(r, m.tab)
  PROVE  Wrote(m, Emit(m, r), 1)
<1> DEFINE u == Emit(m, r)
<1>1. m.out \in Seq(Record) /\ Len(m.out) \in Nat BY DEF AcctMemory
<1>2. u.out = Append(m.out, r) /\ u.tab = m.tab BY DEF Emit, AcctMemory
<1> HIDE DEF u
<1>3. PICK s \in Seq(Record) : s = m.out BY <1>1
<1>4. u.out = Append(s, r) BY <1>2, <1>3
<1>5. /\ Len(u.out) = Len(s) + 1 /\ DOMAIN u.out = 1 .. (Len(s) + 1) /\ DOMAIN s = 1 .. Len(s)
      /\ \A i \in 1 .. Len(s) : u.out[i] = s[i]
      /\ u.out[Len(s) + 1] = r
  BY <1>3, <1>4, AppendAt
<1>6. ASSUME Plain(m), NEW i \in DOMAIN u.out PROVE Mild(u.out[i], u.tab)
  <2>1. CASE i \in 1 .. Len(s)
    <3>1. i \in DOMAIN m.out /\ u.out[i] = m.out[i] BY <1>3, <1>5, <2>1
    <3> QED BY <1>2, <1>6, <3>1 DEF Plain
  <2>2. CASE i \notin 1 .. Len(s)
    <3>1. i = Len(s) + 1 BY <1>1, <1>3, <1>5, <1>6, <2>2
    <3> QED BY <1>2, <1>5, <3>1
  <2> QED BY <2>1, <2>2
<1>7. Len(u.out) <= Len(m.out) + 1 BY <1>1, <1>3, <1>5
<1> QED BY <1>2, <1>6, <1>7 DEF Wrote, Plain, u

LEMMA WriteSysWrote ==
  ASSUME NEW m \in AcctMemory, NEW did \in Dmd, NEW r \in Record, Mild(r, m.tab), NEW ok
  PROVE  Wrote(m, WriteSys(m, did, r, ok), 1)
<1> DEFINE w == [m EXCEPT !.vp = FALSE, !.dmd[did] = "ERROFF", !.dmd["CSA"] = "ERROFF"]
<1>1. w.out = m.out /\ w.tab = m.tab BY DEF AcctMemory
<1>2. WriteSys(m, did, r, ok) \in {m, Emit(m, r), w} BY DEF WriteSys
<1> HIDE DEF w
<1> QED BY <1>1, <1>2, EmitWrote, NothingWrote

LEMMA WriteJaWrote ==
  ASSUME NEW m \in AcctMemory, NEW j, NEW r \in Record, r.file # NoJid, NEW ok
  PROVE  Wrote(m, WriteJa(m, j, r, ok), 1)
<1> DEFINE w == [m EXCEPT !.ja = @ \ {j}]
<1>1. w.out = m.out /\ w.tab = m.tab BY DEF AcctMemory
<1>2. WriteJa(m, j, r, ok) \in {m, Emit(m, r), w} BY DEF WriteJa
<1>3. Mild(r, m.tab) BY DEF Mild
<1> HIDE DEF w
<1> QED BY <1>1, <1>2, <1>3, EmitWrote, NothingWrote

LEMMA ConfigWrote ==
  ASSUME NEW m \in AcctMemory, NEW ok
  PROVE  Wrote(m, ConfigWrite(m, ok), 1)
<1> DEFINE r == Rec(NoJid, "CFG", NoJid)
<1>1. r \in Record /\ Mild(r, m.tab) BY DEF Rec, Record, Mild
<1>2. ConfigWrite(m, ok) \in {m, Emit(m, r)} BY DEF ConfigWrite
<1> HIDE DEF r
<1> QED BY <1>1, <1>2, EmitWrote, NothingWrote

LEMMA AcctEopWrote ==
  ASSUME NEW m, AcctOk(m), NEW j \in Jid \cup {NoJid}, NEW small \in BOOLEAN,
         NEW brief \in BOOLEAN, NEW ok \in [{1, 2} -> BOOLEAN]
  PROVE  Wrote(m, AcctEop(m, j, small, brief, ok), 2)
<1> DEFINE u == AcctEop(m, j, small, brief, ok)
<1>1. ok[1] \in BOOLEAN /\ ok[2] \in BOOLEAN /\ m \in AcctMemory BY DEF AcctOk
<1>2. CASE j \notin m.tab
  <2>1. u = m BY <1>2 DEF AcctEop
  <2>2. Wrote(m, m, 2) BY <1>1, NothingWrote
  <2> QED BY <2>1, <2>2
<1>3. CASE j \in m.tab
  <2>1. Parts \in SUBSET Parts /\ m.rcd \cap Parts \in SUBSET Parts /\ j \in Jid /\ "CSA" \in Dmd
    BY <1>1, <1>3 DEF AcctMemory, Dmd
  <2> DEFINE r == ProcRec(j, j, Parts)
             q == ProcRec(NoJid, j, m.rcd \cap Parts)
             user == WriteJa(m, j, r, ok[1])
             sys == WriteSys(user, "CSA", q, ok[2])
  <2>2. r \in Record /\ q \in Record BY <2>1, RecTypes
  <2>3. r.file # NoJid /\ Mild(q, m.tab) BY <1>3, <2>1 DEF ProcRec, Mild, Jid, NoJid
  <2>4. u = IF m.dmd["CSA"] # "ON" \/ BelowThreshold(m, j, small, brief) THEN user ELSE sys
    BY <1>3 DEF AcctEop
  <2> HIDE DEF r, q, u
  <2>5. AcctOk(user) /\ user.tab = m.tab /\ Wrote(m, user, 1) BY <1>1, <2>2, <2>3, WriteJaOk, WriteJaWrote
  <2> HIDE DEF user
  <2>6. AcctOk(sys) /\ Wrote(user, sys, 1)
    BY <1>1, <2>1, <2>2, <2>3, <2>5, WriteSysOk, WriteSysWrote DEF AcctOk
  <2> HIDE DEF sys
  <2>7. Wrote(m, sys, 1 + 1) BY <1>1, <2>5, <2>6, WroteTrans DEF AcctOk
  <2>8. Wrote(m, user, 2)
    <3>1. Len(user.out) \in Nat /\ Len(m.out) \in Nat BY <1>1, <2>5 DEF AcctOk, AcctMemory
    <3> QED BY <2>5, <3>1 DEF Wrote
  <2> QED BY <2>4, <2>7, <2>8 DEF u
<1> QED BY <1>2, <1>3

(***************************************************************************)
(* Requests write configuration and other daemons' records only            *)
(***************************************************************************)
LEMMA WroteLess ==
  ASSUME NEW m \in AcctMemory, NEW u \in AcctMemory, Wrote(m, u, 1)
  PROVE  Wrote(m, u, 2)
<1>1. Len(u.out) \in Nat /\ Len(m.out) \in Nat BY DEF AcctMemory
<1> QED BY <1>1 DEF Wrote

LEMMA SetWrote ==
  ASSUME NEW m \in AcctMemory, NEW s \in SUBSET Method, NEW state \in {"ON", "OFF"}
  PROVE  Wrote(m, Set(m, s, state), 0)
<1>1. Set(m, s, state).out = m.out /\ Set(m, s, state).tab = m.tab BY DEF Set, AcctMemory
<1> QED BY <1>1, NothingWrote

LEMMA StartAcctWrote ==
  ASSUME NEW m, AcctOk(m), NEW r \in CtlRequest, r.op = "START", NEW opened \in BOOLEAN,
         NEW ok \in [{1, 2} -> BOOLEAN]
  PROVE  Wrote(m, StartAcct(m, r, opened, ok), 2)
<1> DEFINE c == ConfigWrite(m, ok[1])
           w == IF opened THEN [c EXCEPT !.vp = TRUE] ELSE m
           s == Set(w, r.on, "ON")
           u == StartAcct(m, r, opened, ok)
<1>1. ok[1] \in BOOLEAN /\ ok[2] \in BOOLEAN /\ m \in AcctMemory BY DEF AcctOk
<1>2. r.on \in SUBSET Method BY DEF CtlRequest
<1>3. u \in {m, ConfigWrite(s, ok[2])} BY DEF StartAcct
<1> HIDE DEF u
<1>4. c \in AcctMemory /\ Wrote(m, c, 1) BY <1>1, ConfigWriteOk, ConfigWrote
<1> HIDE DEF c
<1>5. [c EXCEPT !.vp = TRUE] \in AcctMemory /\ Wrote(c, [c EXCEPT !.vp = TRUE], 0)
  <2> DEFINE d == [c EXCEPT !.vp = TRUE]
  <2>1. d \in AcctMemory /\ d.out = c.out /\ d.tab = c.tab BY <1>4 DEF AcctMemory
  <2> HIDE DEF d
  <2>2. Wrote(c, d, 0) BY <1>4, <2>1, NothingWrote
  <2> QED BY <2>1, <2>2 DEF d
<1>6. w \in AcctMemory /\ Wrote(m, w, 1)
  <2>1. CASE opened
    <3> DEFINE d == [c EXCEPT !.vp = TRUE]
    <3>1. d \in AcctMemory /\ Wrote(c, d, 0) BY <1>5
    <3>2. w = d BY <2>1
    <3> HIDE DEF d, w
    <3>3. Wrote(m, d, 1 + 0) BY <1>1, <1>4, <3>1, WroteTrans
    <3> QED BY <3>1, <3>2, <3>3
  <2>2. CASE ~opened BY <1>1, <2>2, NothingWrote
  <2> QED BY <2>1, <2>2
<1> HIDE DEF w
<1>7. s \in AcctMemory /\ Wrote(w, s, 0) BY <1>2, <1>6, SetOk, SetWrote
<1> HIDE DEF s
<1>8. ConfigWrite(s, ok[2]) \in AcctMemory /\ Wrote(s, ConfigWrite(s, ok[2]), 1)
  BY <1>1, <1>7, ConfigWriteOk, ConfigWrote
<1>9. Wrote(m, s, 1 + 0) BY <1>1, <1>6, <1>7, WroteTrans
<1>10. Wrote(m, ConfigWrite(s, ok[2]), 1 + 1)
  <2>1. Wrote(m, s, 1) BY <1>9
  <2> QED BY <1>1, <1>7, <1>8, <2>1, WroteTrans
<1> QED BY <1>1, <1>3, <1>10, NothingWrote DEF u

LEMMA OffWrote ==
  ASSUME NEW m \in AcctMemory, NEW s \in SUBSET Method, NEW ok \in BOOLEAN,
         NEW said, said = ConfigWrite(Set(m, s, "OFF"), ok)
  PROVE  said \in AcctMemory /\ Wrote(m, said, 2) /\ Wrote(m, CloseSys(said), 2)
<1> DEFINE off == Set(m, s, "OFF")
<1>1. off \in AcctMemory /\ Wrote(m, off, 0) BY SetOk, SetWrote
<1>2. said = ConfigWrite(off, ok) OBVIOUS
<1> HIDE DEF off
<1>3. said \in AcctMemory /\ Wrote(off, said, 1) BY <1>1, <1>2, ConfigWriteOk, ConfigWrote
<1>4. Wrote(m, said, 0 + 1) BY <1>1, <1>3, WroteTrans
<1>5. Wrote(m, said, 2) BY <1>3, <1>4, WroteLess
<1>6. CloseSys(said) \in AcctMemory /\ Wrote(said, CloseSys(said), 0)
  <2>1. CloseSys(said) \in AcctMemory /\ CloseSys(said).out = said.out /\ CloseSys(said).tab = said.tab
    BY <1>3 DEF CloseSys, AcctMemory
  <2> QED BY <1>3, <2>1, NothingWrote
<1>7. Wrote(m, CloseSys(said), 2 + 0) BY <1>3, <1>5, <1>6, WroteTrans
<1> QED BY <1>3, <1>5, <1>7

LEMMA JaSwitchWrote ==
  ASSUME NEW m, AcctOk(m), NEW r, NEW j \in Jid \cup {NoJid},
         NEW opened \in BOOLEAN, NEW ok \in [{1, 2} -> BOOLEAN]
  PROVE  Wrote(m, JaSwitch(m, r, j, opened, ok), 2)
<1>1. ok[1] \in BOOLEAN /\ m \in AcctMemory BY DEF AcctOk
<1>2. CASE j \notin m.tab
  <2>1. JaSwitch(m, r, j, opened, ok) = m BY <1>2 DEF JaSwitch
  <2> QED BY <1>1, <2>1, NothingWrote
<1>3. CASE j \in m.tab
  <2> DEFINE on == r.op = "JASTART" /\ opened
             ja == IF on THEN m.ja \cup {j} ELSE m.ja \ {j}
             switched == [m EXCEPT !.ja = ja]
             c == ConfigWrite(switched, ok[1])
             said == IF r.op = "JASTART" THEN c ELSE switched
             rec == Rec(j, "CFG", NoJid)
             u == JaSwitch(m, r, j, opened, ok)
  <2>1. u \in {said, Emit(said, rec)} BY <1>3 DEF JaSwitch
  <2> HIDE DEF u
  <2>2. ja \in SUBSET Jid BY <1>1, <1>3 DEF AcctMemory
  <2> HIDE DEF ja
  <2>3. switched \in AcctMemory /\ switched.out = m.out /\ switched.tab = m.tab
    BY <1>1, <2>2 DEF AcctMemory
  <2> HIDE DEF switched
  <2>4. Wrote(m, switched, 0) /\ Wrote(m, switched, 1) BY <1>1, <2>3, NothingWrote
  <2>5. c \in AcctMemory /\ Wrote(switched, c, 1) BY <1>1, <2>3, ConfigWriteOk, ConfigWrote
  <2> HIDE DEF c
  <2>6. Wrote(m, c, 0 + 1) BY <1>1, <2>3, <2>4, <2>5, WroteTrans
  <2>7. said \in AcctMemory /\ Wrote(m, said, 1) BY <2>3, <2>4, <2>5, <2>6
  <2> HIDE DEF said
  <2>8. rec \in Record /\ Mild(rec, said.tab) BY DEF Rec, Record, Mild
  <2> HIDE DEF rec
  <2>9. Emit(said, rec) \in AcctMemory /\ Wrote(said, Emit(said, rec), 1)
    BY <2>7, <2>8, EmitOk, EmitWrote
  <2>10. Wrote(m, Emit(said, rec), 1 + 1) BY <1>1, <2>7, <2>9, WroteTrans
  <2>11. Wrote(m, said, 2) BY <1>1, <2>7, WroteLess
  <2> QED BY <2>1, <2>10, <2>11 DEF u
<1> QED BY <1>2, <1>3

LEMMA WrAcctWrote ==
  ASSUME NEW m, AcctOk(m), NEW r \in CtlRequest, r.op = "WRACCT",
         NEW ok \in [{1, 2} -> BOOLEAN]
  PROVE  Wrote(m, WrAcct(m, r, ok), 2)
<1>1. ok[1] \in BOOLEAN /\ ok[2] \in BOOLEAN /\ m \in AcctMemory BY DEF AcctOk
<1>2. r.did \in Dmd /\ r.jid \in Jid /\ r.jid # NoJid BY DEF CtlRequest, Jid, NoJid
<1> DEFINE rec == Rec(NoJid, "DMD", r.jid)
           usr == [rec EXCEPT !.file = r.jid]
           w == WriteSys(m, r.did, rec, ok[1])
           sys == IF m.dmd[r.did] = "ON" THEN w ELSE m
           v == WriteJa(sys, r.jid, usr, ok[2])
           u == WrAcct(m, r, ok)
<1>3. u \in {m, sys, v} BY DEF WrAcct
<1> HIDE DEF u
<1>4. rec \in Record /\ usr \in Record /\ usr.file # NoJid /\ Mild(rec, m.tab)
  BY <1>2 DEF Rec, Record, Mild
<1> HIDE DEF rec, usr
<1>5. AcctOk(w) /\ Wrote(m, w, 1) BY <1>1, <1>2, <1>4, WriteSysOk, WriteSysWrote
<1> HIDE DEF w
<1>6. AcctOk(sys) /\ Wrote(m, sys, 1) BY <1>1, <1>5, NothingWrote
<1> HIDE DEF sys
<1>7. AcctOk(v) /\ Wrote(sys, v, 1) BY <1>1, <1>4, <1>6, WriteJaOk, WriteJaWrote DEF AcctOk
<1> HIDE DEF v
<1>8. Wrote(m, v, 1 + 1) BY <1>1, <1>6, <1>7, WroteTrans DEF AcctOk
<1>9. Wrote(m, sys, 2) BY <1>1, <1>6, WroteLess DEF AcctOk
<1> QED BY <1>1, <1>3, <1>8, <1>9, NothingWrote DEF u

LEMMA DoCtlWrote ==
  ASSUME NEW m, AcctOk(m), NEW r \in CtlRequest, NEW j \in Jid \cup {NoJid},
         NEW junk \in BOOLEAN, NEW ok \in [{1, 2} -> BOOLEAN]
  PROVE  Wrote(m, DoCtl(m, r, j, junk, ok), 2)
<1>1. (r.path = "good") \in BOOLEAN /\ m \in AcctMemory /\ ok[1] \in BOOLEAN BY DEF AcctOk
<1>2. r.op \in {"START", "STOP", "HALT", "JASTART", "JASTOP", "WRACCT"} BY DEF CtlRequest
<1>3. Wrote(m, m, 2) BY <1>1, NothingWrote
<1>4. CASE r.op = "START" BY <1>1, <1>3, <1>4, StartAcctWrote DEF DoCtl
<1>5. CASE r.op = "STOP"
  <2>1. r.off \in SUBSET Method BY <1>5 DEF CtlRequest
  <2> DEFINE said == ConfigWrite(Set(m, r.off, "OFF"), ok[1])
  <2>2. DoCtl(m, r, j, junk, ok) \in {m, said, CloseSys(said)}
    BY <1>5 DEF DoCtl, StopAcct
  <2>3. Wrote(m, said, 2) /\ Wrote(m, CloseSys(said), 2) BY <1>1, <2>1, OffWrote
  <2> HIDE DEF said
  <2> QED BY <1>3, <2>2, <2>3
<1>6. CASE r.op = "HALT"
  <2> DEFINE said == ConfigWrite(Set(m, Method, "OFF"), ok[1])
  <2>1. DoCtl(m, r, j, junk, ok) \in {m, CloseSys(said)}
    BY <1>6 DEF DoCtl, HaltAcct
  <2>2. Wrote(m, CloseSys(said), 2) BY <1>1, OffWrote
  <2> HIDE DEF said
  <2> QED BY <1>3, <2>1, <2>2
<1>7. CASE r.op = "WRACCT" BY <1>3, <1>7, WrAcctWrote DEF DoCtl
<1>8. CASE r.op \in {"JASTART", "JASTOP"} BY <1>1, <1>3, <1>8, JaSwitchWrote DEF DoCtl
<1> QED BY <1>2, <1>4, <1>5, <1>6, <1>7, <1>8

(***************************************************************************)
(* The frame of a job's records                                            *)
(***************************************************************************)
Sound(f) == f \in [Jid -> {"unknown", "open", "closed"}]

(* What pacct says of the jobs, and csad's table: a job that is open is in *)
(* the table, one that is closed is not.                                   *)
Fits(f, tab) ==
  /\ Sound(f)
  /\ \A j \in Jid : (f[j] = "open" => j \in tab) /\ (f[j] = "closed" => j \notin tab)
After(f, m) ==
  LET ReadAt(k, g) == IF k \in DOMAIN m.out THEN PhaseAfter(g, m.out[k]) ELSE g
  IN IF m.vp THEN ReadAt(2, ReadAt(1, f)) ELSE Restart(f)

LEMMA RestartFits ==
  ASSUME NEW f, Sound(f), NEW tab PROVE Fits(Restart(f), tab)
BY DEF Restart, Sound, Fits

LEMMA MildFits ==
  ASSUME NEW tab \in SUBSET Jid, NEW f, Fits(f, tab), NEW r \in Record, Mild(r, tab)
  PROVE  Fits(PhaseAfter(f, r), tab)
<1>1. Sound(f) BY DEF Fits
<1>2. CASE r.file # NoJid \/ r.type = "DMD" BY <1>2 DEF PhaseAfter
<1>3. CASE r.file = NoJid /\ r.type = "CFG"
  <2>1. PhaseAfter(f, r) = Restart(f) BY <1>3 DEF PhaseAfter
  <2> QED BY <1>1, <2>1, RestartFits
<1>4. CASE r.file = NoJid /\ r.type = "CSA"
  <2>1. r.jid \in tab /\ r.jid \in Jid BY <1>4 DEF Mild
  <2>2. f[r.jid] # "closed" BY <2>1 DEF Fits
  <2>3. PhaseAfter(f, r) = [f EXCEPT ![r.jid] = IF @ = "closed" THEN "bad" ELSE @]
    BY <1>4 DEF PhaseAfter
  <2>4. PhaseAfter(f, r) = f BY <1>1, <2>1, <2>2, <2>3 DEF Sound
  <2> QED BY <2>4
<1> QED BY <1>2, <1>3, <1>4 DEF Mild

LEMMA PlainFits ==
  ASSUME NEW f, NEW m \in AcctMemory, Fits(f, m.tab), Plain(m)
  PROVE  Fits(After(f, m), m.tab)
<1>1. m.tab \in SUBSET Jid /\ m.out \in Seq(Record) BY DEF AcctMemory
<1>2. ASSUME NEW k, NEW g, Fits(g, m.tab)
      PROVE  Fits(IF k \in DOMAIN m.out THEN PhaseAfter(g, m.out[k]) ELSE g, m.tab)
  <2>1. CASE k \in DOMAIN m.out
    <3>1. m.out[k] \in Record /\ Mild(m.out[k], m.tab) BY <1>1, <2>1 DEF Plain
    <3>2. Fits(PhaseAfter(g, m.out[k]), m.tab) BY <1>1, <1>2, <3>1, MildFits
    <3> QED BY <2>1, <3>2
  <2>2. CASE k \notin DOMAIN m.out BY <1>2, <2>2
  <2> QED BY <2>1, <2>2
<1>3. Fits(Restart(f), m.tab) BY RestartFits DEF Fits
<1> DEFINE one == IF 1 \in DOMAIN m.out THEN PhaseAfter(f, m.out[1]) ELSE f
           two == IF 2 \in DOMAIN m.out THEN PhaseAfter(one, m.out[2]) ELSE one
<1>4. Fits(one, m.tab) BY <1>2
<1>5. After(f, m) = IF m.vp THEN two ELSE Restart(f) BY DEF After
<1> HIDE DEF one
<1>6. Fits(two, m.tab) BY <1>2, <1>4
<1> HIDE DEF two
<1> QED BY <1>3, <1>5, <1>6

(* The first record of a job opens it, and its end record closes it.       *)
LEMMA OpensFits ==
  ASSUME NEW f, NEW tab, Fits(f, tab), NEW j \in Jid, j \notin tab
  PROVE  Fits(PhaseAfter(f, Rec(NoJid, "SOJ", j)), tab \cup {j})
<1>1. f[j] \notin {"open", "bad"} BY DEF Fits, Sound
<1>2. PhaseAfter(f, Rec(NoJid, "SOJ", j)) = [f EXCEPT ![j] = IF @ \in {"open", "bad"} THEN "bad" ELSE "open"]
  BY DEF PhaseAfter, Rec
<1>3. PhaseAfter(f, Rec(NoJid, "SOJ", j)) = [f EXCEPT ![j] = "open"] BY <1>1, <1>2 DEF Fits, Sound
<1> QED BY <1>3 DEF Fits, Sound

LEMMA ClosesFits ==
  ASSUME NEW f, NEW tab, Fits(f, tab), NEW j \in tab, j \in Jid
  PROVE  Fits(PhaseAfter(f, Rec(NoJid, "EOJ", j)), tab \ {j})
<1>1. f[j] \notin {"closed", "bad"} BY DEF Fits, Sound
<1>2. PhaseAfter(f, Rec(NoJid, "EOJ", j)) = [f EXCEPT ![j] = IF @ \in {"closed", "bad"} THEN "bad" ELSE "closed"]
  BY DEF PhaseAfter, Rec
<1>3. PhaseAfter(f, Rec(NoJid, "EOJ", j)) = [f EXCEPT ![j] = "closed"] BY <1>1, <1>2 DEF Fits, Sound
<1> QED BY <1>3 DEF Fits, Sound

(* A handler that writes one record, or fails and knows no more.           *)
LEMMA WriteAfter ==
  ASSUME NEW m \in AcctMemory, m.out = <<>>, NEW r \in Record, NEW did \in Dmd, NEW ok, NEW f
  PROVE  LET u == WriteSys(m, did, r, ok)
         IN /\ After(f, u) \in {PhaseAfter(f, r), Restart(f)}
            /\ Len(u.out) <= 1
<1> DEFINE w == [m EXCEPT !.vp = FALSE, !.dmd[did] = "ERROFF", !.dmd["CSA"] = "ERROFF"]
           e == Emit(m, r)
           u == WriteSys(m, did, r, ok)
<1>1. u = IF ~m.vp THEN m ELSE IF ok THEN e ELSE w BY DEF WriteSys
<1>2. w.vp = FALSE /\ w.out = <<>> BY DEF AcctMemory
<1>3. e.vp = m.vp /\ e.out = <<r>>
  <2>1. e.out = Append(m.out, r) /\ e.vp = m.vp BY DEF Emit, AcctMemory
  <2> QED BY <2>1
<1> HIDE DEF u, e, w
<1>4. Len(m.out) = 0 OBVIOUS
<1>5. CASE ~m.vp BY <1>1, <1>4, <1>5 DEF After, u
<1>6. CASE m.vp /\ ok
  <2>1. u = e BY <1>1, <1>6
  <2>2. 1 \in DOMAIN e.out /\ 2 \notin DOMAIN e.out /\ e.out[1] = r /\ Len(e.out) = 1 BY <1>3
  <2>3. After(f, e) = PhaseAfter(f, r) BY <1>3, <1>6, <2>2 DEF After
  <2> QED BY <2>1, <2>2, <2>3 DEF u
<1>7. CASE m.vp /\ ~ok
  <2>1. u = w BY <1>1, <1>7
  <2>2. After(f, w) = Restart(f) /\ Len(w.out) = 0 BY <1>2 DEF After
  <2> QED BY <2>1, <2>2 DEF u
<1> QED BY <1>5, <1>6, <1>7

LEMMA QuietMemory ==
  ASSUME NEW m \in AcctMemory
  PROVE  /\ Quiet(m).out = <<>> /\ Quiet(m).tab = m.tab /\ Quiet(m).ja = m.ja
         /\ FreeTable(m).out = <<>> /\ FreeTable(m).tab = {}
BY DEF Quiet, FreeTable, AcctMemory

(* recv_sk_job(): csad knows the job that starts and forgets the one that  *)
(* ends, and its records frame it.                                         *)
LEMMA JobEventFits ==
  ASSUME NEW m, AcctOk(m), m.out = <<>>, NEW f, Fits(f, m.tab), NEW e \in CsaEvent, NEW ok \in BOOLEAN
  PROVE  LET u == JobEvent(m, e, ok)
         IN /\ Fits(After(f, u), u.tab)
            /\ Len(u.out) <= 1
            /\ \A k \in Jid : k \in u.tab => \/ k \in m.tab /\ e # Told("END", k)
                                             \/ e = Told("START", k)
<1> DEFINE j == e.jid
           u == JobEvent(m, e, ok)
<1>1. /\ j \in Jid /\ "CSA" \in Dmd /\ e.type \in {"START", "END"} /\ e = Told(e.type, j)
      /\ Rec(NoJid, "SOJ", j) \in Record /\ Rec(NoJid, "EOJ", j) \in Record
      /\ m \in AcctMemory /\ m.tab \in SUBSET Jid
  BY DEF CsaEvent, Dmd, Rec, Record, Told, AcctOk, AcctMemory
<1>2. Sound(f) BY DEF Fits
<1>3. CASE u = m /\ (\A k \in Jid : k \in m.tab => e # Told("END", k) \/ e = Told("START", k))
  <2>1. After(f, m) \in {f, Restart(f)} /\ Len(m.out) = 0 BY DEF After
  <2> QED BY <1>2, <1>3, <2>1, RestartFits DEF u
<1>4. CASE e.type = "START" /\ j \notin m.tab
  <2> DEFINE m1 == [m EXCEPT !.tab = m.tab \cup {j}]
             r == Rec(NoJid, "SOJ", j)
  <2>1. u = WriteSys(m1, "CSA", r, ok) BY <1>4 DEF JobEvent, JobStart
  <2>2. AcctOk(m1) /\ m1 \in AcctMemory /\ m1.out = <<>> /\ m1.tab = m.tab \cup {j}
    BY <1>1 DEF AcctOk, HasFile, AcctMemory
  <2>3. Fits(PhaseAfter(f, r), m1.tab) BY <1>1, <1>4, <2>2, OpensFits
  <2>4. Fits(Restart(f), m1.tab) BY <1>2, RestartFits
  <2> HIDE DEF m1, r, u
  <2>5. r \in Record BY <1>1 DEF r
  <2>6. u.tab = m1.tab BY <1>1, <2>1, <2>2, <2>5, WriteSysOk
  <2>7. After(f, u) \in {PhaseAfter(f, r), Restart(f)} /\ Len(u.out) <= 1
    BY <1>1, <2>1, <2>2, <2>5, WriteAfter
  <2>8. Fits(After(f, u), u.tab) BY <2>3, <2>4, <2>6, <2>7
  <2>9. ASSUME NEW k \in Jid, k \in u.tab
        PROVE  (k \in m.tab /\ e # Told("END", k)) \/ e = Told("START", k)
    BY <1>1, <1>4, <2>2, <2>6, <2>9 DEF Told
  <2> QED BY <2>7, <2>8, <2>9 DEF u
<1>5. CASE e.type = "END" /\ j \in m.tab
  <2> DEFINE r == Rec(NoJid, "EOJ", j)
             w == WriteSys(m, "CSA", r, ok)
  <2>1. u = [w EXCEPT !.tab = w.tab \ {j}, !.ja = w.ja \ {j}] BY <1>5 DEF JobEvent, JobEnd
  <2>2. Fits(PhaseAfter(f, r), m.tab \ {j}) BY <1>1, <1>5, ClosesFits
  <2>3. Fits(Restart(f), m.tab \ {j}) BY <1>2, RestartFits
  <2>4. r \in Record BY <1>1
  <2> HIDE DEF r
  <2>5. w \in AcctMemory /\ w.tab = m.tab BY <1>1, <2>4, WriteSysOk DEF AcctOk
  <2>6. After(f, w) \in {PhaseAfter(f, r), Restart(f)} /\ Len(w.out) <= 1
    BY <1>1, <2>4, WriteAfter
  <2> HIDE DEF w, u
  <2>7. u.tab = m.tab \ {j} /\ u.out = w.out /\ u.vp = w.vp BY <2>1, <2>5 DEF AcctMemory
  <2>8. After(f, u) = After(f, w) BY <2>7 DEF After
  <2>9. Fits(After(f, u), u.tab) /\ Len(u.out) <= 1 BY <2>2, <2>3, <2>6, <2>7, <2>8
  <2>10. ASSUME NEW k \in Jid, k \in u.tab PROVE k \in m.tab /\ e # Told("END", k)
    BY <1>1, <2>7, <2>10 DEF Told
  <2> QED BY <2>9, <2>10 DEF u
<1>6. CASE (e.type = "START" /\ j \in m.tab) \/ (e.type = "END" /\ j \notin m.tab)
  <2>1. u = m BY <1>6 DEF JobEvent, JobStart, JobEnd
  <2>2. \A k \in Jid : k \in m.tab => e # Told("END", k) \/ e = Told("START", k)
    BY <1>1, <1>6 DEF Told
  <2> QED BY <1>3, <2>1, <2>2
<1> QED BY <1>1, <1>4, <1>5, <1>6

(***************************************************************************)
(* The conversation of csad and jobd                                       *)
(***************************************************************************)
(* A connection that jobd has not accepted yet is followed by its end, or  *)
(* is the last one, of the csad that runs.                                 *)
LastOrEnded(i) ==
  \/ \E m \in DOMAIN fromCsa : m > i /\ fromCsa[m] = EOF
  \/ csad = "connected" /\ \A k \in DOMAIN fromCsa : k > i => fromCsa[k] # CONNECT

(* jobd holds the connection of a csad that lives and has only notices on  *)
(* their way; without it jobd tells nothing, and a csad that runs knows no *)
(* job yet.                                                                *)
Conversation ==
  /\ tbl.csaPeer => /\ tbl.csaActive /\ csad = "connected"
                    /\ \A i \in DOMAIN fromCsa : fromCsa[i].what = "NOTICE"
  /\ ~tbl.csaPeer => tbl.toCsa = <<>> /\ (csad # "off" => acct.tab = {})
  /\ \A i \in DOMAIN fromCsa : fromCsa[i] = CONNECT => LastOrEnded(i)

(* What csad knows once it has read all that jobd told it.                 *)
Tells == tbl.csaPeer => Settled \subseteq tbl.jobTab

(* The records of every job are framed, and while csad runs the jobs that  *)
(* are open in pacct are in its table; a handler writes two records.       *)
FramesKept ==
  /\ Sound(phase)
  /\ csad # "off" => Fits(phase, acct.tab)
  /\ Len(acct.out) <= 2

KInv == CInv /\ Conversation /\ Tells /\ FramesKept

LEMMA ItemKinds ==
  ASSUME NEW x \in CsaItem
  PROVE  /\ x = CONNECT <=> x.what = "CONNECT"
         /\ x = EOF <=> x.what = "EOF"
         /\ x.what \in {"CONNECT", "EOF", "NOTICE"}
         /\ CONNECT \in CsaItem /\ EOF \in CsaItem /\ CONNECT # EOF
BY DEF CsaItem, CONNECT, EOF

(* A step of jobd that leaves csad and what csad said alone.               *)
LEMMA TracksConversation ==
  ASSUME KInv, Tracks(tbl, tbl'), UNCHANGED <<fromCsa, csad>>, acct'.tab = acct.tab
  PROVE  Conversation' /\ Tells'
<1>1. /\ tbl'.csaPeer = tbl.csaPeer /\ (tbl'.csaActive => tbl.csaActive)
      /\ ~tbl.csaPeer => tbl'.toCsa = tbl.toCsa
      /\ tbl.csaActive /\ tbl.csaPeer => tbl'.csaActive
  BY DEF Tracks
<1>2. fromCsa' = fromCsa /\ csad' = csad OBVIOUS
<1>3. Conversation' BY <1>1, <1>2 DEF KInv, Conversation, LastOrEnded
<1>4. Tells'
  <2> SUFFICES ASSUME tbl'.csaPeer PROVE Settled' \subseteq tbl'.jobTab BY DEF Tells
  <2>1. tbl.csaPeer /\ tbl.csaActive /\ Settled \subseteq tbl.jobTab
    BY <1>1 DEF KInv, Conversation, Tells
  <2>2. acct.tab \in SUBSET Jid BY DEF KInv, CInv, AcctOk, AcctMemory
  <2>3. TabAfter(acct.tab, tbl'.toCsa) \subseteq tbl'.jobTab
    BY <2>1, <2>2 DEF Tracks, Settled
  <2> QED BY <2>3 DEF Settled
<1> QED BY <1>3, <1>4

(* csad's connection is gone, and it knows no job if it runs.              *)
LEMMA NoPeerTells ==
  ASSUME ~tbl'.csaPeer PROVE Tells'
BY DEF Tells

LEMMA AnsweredLink ==
  ASSUME NEW t \in Memory PROVE SameJobs(t, Answered(t))
BY DEF Answered, SameJobs, SameLink, Memory

(* jobd gone: no connection, no message. *)
LEMMA DownConversation ==
  ASSUME NEW t, NEW callers, Down(t, callers)
  PROVE  Conversation' /\ Tells'
<1>1. ~tbl'.csaPeer /\ tbl'.toCsa = <<>> /\ csad' = "off" /\ fromCsa' = <<>>
  BY DEF Down, InitMemory
<1> QED BY <1>1 DEF Conversation, Tells

LEMMA RecvNlConversation ==
  ASSUME KInv, RecvNl, acct'.tab = acct.tab PROVE Conversation' /\ Tells'
<1> DEFINE e == Head(nlq)
           t == Answered(tbl)
<1>1. nlq \in Seq(Event) /\ nlq # <<>> BY DEF KInv, CInv, Inv, TypeOK, KernelTypeOK, RecvNl
<1>2. e \in Event BY <1>1, HeadTail
<1>3. e.pid \in Pid /\ e.parent \in Pid /\ e.status \in Status /\ (e.what = "FORK" => e.pid # e.parent)
  BY <1>2 DEF Event
<1>4. Inv /\ tbl \in Memory BY OkInv DEF KInv, CInv, Ok
<1>5. t \in Memory /\ TablesAgree(t) /\ SameJobs(tbl, t) BY <1>4, OkInv, AnsweredOk, AnsweredLink DEF Ok
<1>6. /\ tbl' = IF e.what = "FORK" THEN ForkHandler(t, e.parent, e.pid)
                ELSE ExitEventHandler(t, e.pid, e.status)
      /\ UNCHANGED <<fromCsa, csad>>
  BY DEF RecvNl
<1> HIDE DEF e, t
<1>7. Tracks(t, tbl')
  <2>1. CASE e.what = "FORK"
    <3>1. e.pid \in Pid \ {e.parent} BY <1>3, <2>1
    <3> QED BY <1>3, <1>5, <1>6, <2>1, <3>1, ForkHandlerTracks
  <2>2. CASE e.what # "FORK" BY <1>3, <1>5, <1>6, <2>2, ExitEventTracks
  <2> QED BY <2>1, <2>2
<1>8. Tracks(tbl, tbl') BY <1>5, <1>7, TracksSame, TracksTrans
<1> QED BY <1>6, <1>8, TracksConversation

LEMMA SelectConversation ==
  ASSUME KInv, Select, acct'.tab = acct.tab PROVE Conversation' /\ Tells'
<1>1. tbl \in Memory BY OkInv DEF KInv, CInv, Ok
<1>2. tbl' = Answered(tbl) /\ UNCHANGED <<fromCsa, csad>> BY DEF Select
<1>3. Tracks(tbl, tbl') BY <1>1, <1>2, AnsweredLink, TracksSame
<1> QED BY <1>2, <1>3, TracksConversation

LEMMA RecvUnixConversation ==
  ASSUME KInv, RecvUnix, acct'.tab = acct.tab PROVE Conversation' /\ Tells'
<1> DEFINE c == Head(reqq).c
           r == Head(reqq).r
           done == ProcessMesg(tbl, c, r, Existing)
           callers == {b \in Client \ {c} : Waiting(b) \/ Queued(b)}
<1>1. reqq \in Seq([c : Client, r : Request]) /\ reqq # <<>>
  BY DEF KInv, CInv, Inv, TypeOK, SelReady, RecvUnix
<1>2. Head(reqq) \in [c : Client, r : Request] BY <1>1, HeadTail
<1>3. r \in Request BY <1>2
<1>4. Ok(tbl) /\ tbl.hid # DISABLED BY OkInv DEF KInv, CInv
<1>5. IF done.hid = DISABLED THEN Down(done, callers)
      ELSE tbl' = done /\ UNCHANGED <<fromCsa, csad>>
  BY DEF RecvUnix
<1> HIDE DEF c, r
<1>6. Tracks(tbl, done) BY <1>3, <1>4, ProcessMesgTracks
<1> HIDE DEF done, callers
<1>7. CASE done.hid = DISABLED BY <1>5, <1>7, DownConversation
<1>8. CASE done.hid # DISABLED BY <1>5, <1>6, <1>8, TracksConversation
<1> QED BY <1>7, <1>8

LEMMA RecvCsaConversation ==
  ASSUME KInv, RecvCsa, acct'.tab = acct.tab PROVE Conversation' /\ Tells'
<1> DEFINE m == Head(fromCsa)
<1>1. fromCsa \in Seq(CsaItem) /\ fromCsa # <<>> /\ Inv
  BY DEF KInv, CInv, Inv, TypeOK, SelReady, RecvCsa
<1>2. m \in CsaItem /\ m = fromCsa[1] BY <1>1, HeadTail
<1>3. m.what = "NOTICE" => m.pid \in Pid /\ m.status \in Status BY <1>2 DEF CsaItem, CONNECT, EOF
<1>4. tbl' = IF m.what = "NOTICE" THEN ExitHandler(tbl, m.pid, m.status)
             ELSE [tbl EXCEPT !.csaActive = FALSE]
  BY DEF RecvCsa
<1>5. fromCsa' = Tail(fromCsa) /\ csad' = csad BY DEF RecvCsa
<1>6. /\ Len(fromCsa) \in Nat /\ DOMAIN fromCsa = 1 .. Len(fromCsa)
      /\ DOMAIN fromCsa' = 1 .. (Len(fromCsa) - 1)
      /\ \A i \in 1 .. (Len(fromCsa) - 1) : fromCsa'[i] = fromCsa[i + 1]
  BY <1>1, <1>5, TailAt
<1>7. tbl \in Memory /\ TablesAgree(tbl) BY <1>1, OkInv DEF Ok
<1> HIDE DEF m
<1>8. Tracks(tbl, tbl')
  <2>1. CASE m.what = "NOTICE" BY <1>3, <1>4, <1>7, <2>1, ExitHandlerTracks
  <2>2. CASE m.what # "NOTICE"
    <3>1. ~tbl.csaPeer
      <4>1. 1 \in DOMAIN fromCsa BY <1>1
      <4> QED BY <1>2, <2>2, <4>1 DEF KInv, Conversation
    <3>2. tbl' = [tbl EXCEPT !.csaActive = FALSE] BY <1>4, <2>2
    <3>3. tbl'.csaActive = FALSE /\ tbl'.csaPeer = tbl.csaPeer /\ tbl'.toCsa = tbl.toCsa
      BY <1>7, <3>2 DEF Memory
    <3> QED BY <3>1, <3>3 DEF Tracks
  <2> QED BY <2>1, <2>2
<1>9. ASSUME NEW i \in DOMAIN fromCsa', fromCsa'[i] = CONNECT PROVE LastOrEnded(i)'
  <2>1. i + 1 \in DOMAIN fromCsa /\ fromCsa[i + 1] = CONNECT BY <1>6, <1>9
  <2>2. LastOrEnded(i + 1) BY <2>1 DEF KInv, Conversation
  <2>3. ASSUME NEW k \in DOMAIN fromCsa, k > i + 1
        PROVE  k - 1 \in DOMAIN fromCsa' /\ k - 1 > i /\ fromCsa'[k - 1] = fromCsa[k]
    <3>1. k - 1 \in 1 .. (Len(fromCsa) - 1) /\ i \in Nat /\ k - 1 > i BY <1>6, <1>9, <2>3
    <3> QED BY <1>6, <3>1
  <2>4. CASE \E k \in DOMAIN fromCsa : k > i + 1 /\ fromCsa[k] = EOF
    <3>1. PICK k \in DOMAIN fromCsa : k > i + 1 /\ fromCsa[k] = EOF BY <2>4
    <3> QED BY <2>3, <3>1 DEF LastOrEnded
  <2>5. CASE csad = "connected" /\ \A k \in DOMAIN fromCsa : k > i + 1 => fromCsa[k] # CONNECT
    <3>1. ASSUME NEW k \in DOMAIN fromCsa', k > i PROVE fromCsa'[k] # CONNECT
      <4>1. k + 1 \in DOMAIN fromCsa /\ k + 1 > i + 1 /\ fromCsa'[k] = fromCsa[k + 1]
        BY <1>6, <1>9, <3>1
      <4> QED BY <2>5, <4>1
    <3> QED BY <1>5, <2>5, <3>1 DEF LastOrEnded
  <2> QED BY <2>2, <2>4, <2>5 DEF LastOrEnded
<1>10. tbl'.csaPeer => /\ tbl'.csaActive /\ csad' = "connected"
                       /\ \A i \in DOMAIN fromCsa' : fromCsa'[i].what = "NOTICE"
  <2> SUFFICES ASSUME tbl'.csaPeer
               PROVE  /\ tbl'.csaActive /\ csad' = "connected"
                      /\ \A i \in DOMAIN fromCsa' : fromCsa'[i].what = "NOTICE"
    OBVIOUS
  <2>1. tbl.csaPeer /\ tbl.csaActive /\ csad = "connected"
        /\ \A i \in DOMAIN fromCsa : fromCsa[i].what = "NOTICE"
    BY <1>8 DEF Tracks, KInv, Conversation
  <2>2. tbl'.csaActive BY <1>8, <2>1 DEF Tracks
  <2>3. ASSUME NEW i \in DOMAIN fromCsa' PROVE fromCsa'[i].what = "NOTICE"
    <3>1. i + 1 \in DOMAIN fromCsa /\ fromCsa'[i] = fromCsa[i + 1] BY <1>6, <2>3
    <3> QED BY <2>1, <3>1
  <2> QED BY <1>5, <2>1, <2>2, <2>3
<1>11. ~tbl'.csaPeer => tbl'.toCsa = <<>> /\ (csad' # "off" => acct'.tab = {})
  BY <1>5, <1>8 DEF Tracks, KInv, Conversation
<1>12. Conversation' BY <1>9, <1>10, <1>11 DEF Conversation
<1>13. Tells'
  <2> SUFFICES ASSUME tbl'.csaPeer PROVE Settled' \subseteq tbl'.jobTab BY DEF Tells
  <2>1. tbl.csaPeer /\ tbl.csaActive /\ Settled \subseteq tbl.jobTab
    BY <1>8 DEF KInv, Conversation, Tells, Tracks
  <2>2. acct.tab \in SUBSET Jid BY DEF KInv, CInv, AcctOk, AcctMemory
  <2>3. TabAfter(acct.tab, tbl'.toCsa) \subseteq tbl'.jobTab
    BY <1>8, <2>1, <2>2 DEF Tracks, Settled
  <2> QED BY <2>3 DEF Settled
<1> QED BY <1>12, <1>13

(* jobd takes the connection of a csad that has not read from it yet.      *)
LEMMA AcceptCsaConversation ==
  ASSUME KInv, AcceptCsa, acct'.tab = acct.tab PROVE Conversation' /\ Tells'
<1> DEFINE First(i) == fromCsa[i] = CONNECT /\ \A h \in 1 .. (i - 1) : fromCsa[h] # CONNECT
           k == CHOOSE i \in DOMAIN fromCsa : First(i)
           rest == SubSeq(fromCsa, k + 1, Len(fromCsa))
<1>1. fromCsa \in Seq(CsaItem) /\ tbl \in Memory BY OkInv DEF KInv, CInv, Inv, TypeOK, Ok
<1>2. \E i \in DOMAIN fromCsa : First(i)
  <2> DEFINE T == {i \in DOMAIN fromCsa : fromCsa[i] = CONNECT}
  <2>1. T # {} BY DEF KInv, CInv, Inv, SelReady, AcceptCsa, ToSet
  <2>2. T \in SUBSET Nat BY <1>1
  <2>3. PICK i \in T : \A h \in T : i <= h
    <3> HIDE DEF T
    <3> QED BY <2>1, <2>2, MinExists
  <2>4. ASSUME NEW h \in 1 .. (i - 1) PROVE fromCsa[h] # CONNECT
    <3>1. h \in DOMAIN fromCsa /\ ~ (i <= h) BY <1>1, <2>3
    <3> QED BY <2>3, <3>1
  <2> QED BY <2>3, <2>4
<1>3. k \in DOMAIN fromCsa /\ fromCsa[k] = CONNECT BY <1>2
<1>4. /\ fromCsa' = rest /\ csad' = csad
      /\ tbl' = [tbl EXCEPT !.csaActive = TRUE, !.csaPeer = EOF \notin ToSet(rest), !.toCsa = <<>>]
  BY DEF AcceptCsa
<1> HIDE DEF k
<1>5. /\ Len(fromCsa) \in Nat /\ DOMAIN fromCsa = 1 .. Len(fromCsa)
      /\ DOMAIN rest = 1 .. (Len(fromCsa) - k)
      /\ \A i \in 1 .. (Len(fromCsa) - k) : rest[i] = fromCsa[k + i]
  BY <1>1, <1>3
<1>6. k \in Nat /\ k >= 1 BY <1>3, <1>5
<1> HIDE DEF rest
<1> DEFINE peer == EOF \notin ToSet(rest)
<1>7. tbl'.csaActive = TRUE /\ tbl'.csaPeer = peer /\ tbl'.toCsa = <<>>
  <2> HIDE DEF peer
  <2>1. tbl' = [tbl EXCEPT !.csaActive = TRUE, !.csaPeer = peer, !.toCsa = <<>>] BY <1>4 DEF peer
  <2> QED BY <1>1, <2>1 DEF Memory
<1>8. ASSUME NEW m \in DOMAIN fromCsa, m > k
      PROVE  m - k \in DOMAIN rest /\ rest[m - k] = fromCsa[m]
  <2>1. m - k \in 1 .. (Len(fromCsa) - k) /\ k + (m - k) = m BY <1>5, <1>6, <1>8
  <2> QED BY <1>5, <2>1
<1>9. ASSUME NEW i \in DOMAIN rest
      PROVE  k + i \in DOMAIN fromCsa /\ k + i > k /\ rest[i] = fromCsa[k + i]
  BY <1>5, <1>6, <1>9
<1>10. ~tbl.csaPeer
  <2>1. CONNECT.what # "NOTICE" BY DEF CONNECT
  <2> QED BY <1>3, <2>1 DEF KInv, Conversation
<1>11. LastOrEnded(k) BY <1>3 DEF KInv, Conversation
<1>12. peer => csad = "connected" /\ \A i \in DOMAIN rest : rest[i].what = "NOTICE"
  <2> SUFFICES ASSUME peer
               PROVE  csad = "connected" /\ \A i \in DOMAIN rest : rest[i].what = "NOTICE"
    OBVIOUS
  <2>1. \A i \in DOMAIN rest : rest[i] # EOF BY DEF ToSet
  <2>2. ~ \E m \in DOMAIN fromCsa : m > k /\ fromCsa[m] = EOF BY <1>8, <2>1
  <2>3. csad = "connected" /\ \A m \in DOMAIN fromCsa : m > k => fromCsa[m] # CONNECT
    BY <1>11, <2>2 DEF LastOrEnded
  <2>4. ASSUME NEW i \in DOMAIN rest PROVE rest[i].what = "NOTICE"
    <3>1. rest[i] # CONNECT /\ rest[i] # EOF BY <1>9, <2>1, <2>3
    <3>2. rest[i] \in CsaItem BY <1>1, <1>9
    <3> QED BY <3>1, <3>2, ItemKinds
  <2> QED BY <2>3, <2>4
<1>13. ASSUME NEW i \in DOMAIN rest, rest[i] = CONNECT
       PROVE  \/ \E m \in DOMAIN rest : m > i /\ rest[m] = EOF
              \/ csad = "connected" /\ \A m \in DOMAIN rest : m > i => rest[m] # CONNECT
  <2>1. LastOrEnded(k + i) BY <1>9, <1>13 DEF KInv, Conversation
  <2>2. CASE \E m \in DOMAIN fromCsa : m > k + i /\ fromCsa[m] = EOF
    <3>1. PICK m \in DOMAIN fromCsa : m > k + i /\ fromCsa[m] = EOF BY <2>2
    <3>2. i \in Nat /\ m \in Nat BY <1>5, <1>6, <1>13
    <3>3. m > k /\ m - k > i BY <1>6, <3>1, <3>2
    <3> QED BY <1>8, <3>1, <3>3
  <2>3. CASE csad = "connected" /\ \A m \in DOMAIN fromCsa : m > k + i => fromCsa[m] # CONNECT
    <3>1. ASSUME NEW m \in DOMAIN rest, m > i PROVE rest[m] # CONNECT
      <4>1. m \in Nat /\ i \in Nat BY <1>5, <1>6, <1>13
      <4>2. k + m > k + i BY <1>6, <3>1, <4>1
      <4> QED BY <1>9, <2>3, <4>2
    <3> QED BY <2>3, <3>1
  <2> QED BY <2>1, <2>2, <2>3 DEF LastOrEnded
<1>14. ASSUME NEW i \in DOMAIN fromCsa', fromCsa'[i] = CONNECT PROVE LastOrEnded(i)'
  BY <1>4, <1>13, <1>14 DEF LastOrEnded
<1>15. tbl'.csaPeer => /\ tbl'.csaActive /\ csad' = "connected"
                       /\ \A i \in DOMAIN fromCsa' : fromCsa'[i].what = "NOTICE"
  BY <1>4, <1>7, <1>12
<1>16. csad # "off" => acct.tab = {} BY <1>10 DEF KInv, Conversation
<1>17. Conversation' BY <1>4, <1>7, <1>14, <1>15, <1>16 DEF Conversation
<1>18. Tells'
  <2> SUFFICES ASSUME tbl'.csaPeer PROVE Settled' \subseteq tbl'.jobTab BY DEF Tells
  <2>1. csad = "connected" BY <1>7, <1>12
  <2>2. acct'.tab = {} /\ tbl'.toCsa = <<>> BY <1>7, <1>16, <2>1
  <2> QED BY <2>2, TabEmpty DEF Settled
<1> QED BY <1>17, <1>18

(***************************************************************************)
(* The steps of csad                                                       *)
(***************************************************************************)
(* csad says one thing more, or nothing.                                   *)
LEMMA SaysMore ==
  ASSUME KInv, NEW e \in CsaItem, fromCsa' = Append(fromCsa, e)
  PROVE  /\ Len(fromCsa) \in Nat
         /\ DOMAIN fromCsa = 1 .. Len(fromCsa) /\ DOMAIN fromCsa' = 1 .. (Len(fromCsa) + 1)
         /\ \A i \in DOMAIN fromCsa : fromCsa'[i] = fromCsa[i] /\ i \in DOMAIN fromCsa' /\ i < Len(fromCsa) + 1
         /\ \A i \in DOMAIN fromCsa' : i \in DOMAIN fromCsa \/ i = Len(fromCsa) + 1
         /\ fromCsa'[Len(fromCsa) + 1] = e
<1>1. PICK q \in Seq(CsaItem) : q = fromCsa BY DEF KInv, CInv, Inv, TypeOK
<1>2. fromCsa' = Append(q, e) BY <1>1
<1> QED BY <1>1, <1>2, AppendAt

LEMMA ConnectConversation ==
  ASSUME KInv, CsadConnect, acct'.tab = acct.tab PROVE Conversation' /\ Tells'
<1> DEFINE n == Len(fromCsa) + 1
<1>1. fromCsa' = Append(fromCsa, CONNECT) /\ csad = "listening" /\ csad' = "connected" /\ tbl' = tbl
  BY DEF CsadConnect
<1>2. CONNECT \in CsaItem /\ CONNECT # EOF BY DEF CsaItem, CONNECT, EOF
<1>3. /\ n \in Nat /\ DOMAIN fromCsa' = 1 .. n
      /\ \A i \in DOMAIN fromCsa : fromCsa'[i] = fromCsa[i] /\ i \in DOMAIN fromCsa' /\ i < n
      /\ \A i \in DOMAIN fromCsa' : i \in DOMAIN fromCsa \/ i = n
  BY <1>1, <1>2, SaysMore
<1> HIDE DEF n
<1>4. ~tbl.csaPeer BY <1>1 DEF KInv, Conversation
<1>5. tbl.toCsa = <<>> /\ acct.tab = {} BY <1>1, <1>4 DEF KInv, Conversation
<1>6. ASSUME NEW i \in DOMAIN fromCsa', fromCsa'[i] = CONNECT PROVE LastOrEnded(i)'
  <2>1. CASE i \in DOMAIN fromCsa
    <3>1. LastOrEnded(i) BY <1>3, <1>6, <2>1 DEF KInv, Conversation
    <3>2. PICK m \in DOMAIN fromCsa : m > i /\ fromCsa[m] = EOF BY <1>1, <3>1 DEF LastOrEnded
    <3>3. m \in DOMAIN fromCsa' /\ fromCsa'[m] = EOF BY <1>3, <3>2
    <3> QED BY <3>2, <3>3 DEF LastOrEnded
  <2>2. CASE i = n
    <3>1. \A m \in DOMAIN fromCsa' : ~(m > n) BY <1>3
    <3> QED BY <1>1, <2>2, <3>1 DEF LastOrEnded
  <2> QED BY <1>3, <2>1, <2>2
<1>7. Conversation' BY <1>1, <1>4, <1>5, <1>6 DEF Conversation
<1> QED BY <1>1, <1>4, <1>7, NoPeerTells

LEMMA ReportConversation ==
  ASSUME KInv, CsadReport, acct'.tab = acct.tab PROVE Conversation' /\ Tells'
<1> DEFINE n == Len(fromCsa) + 1
           e == Notice(Head(tsq).pid, Head(tsq).status)
<1>1. fromCsa' = Append(fromCsa, e) /\ csad' = csad /\ tbl' = tbl BY DEF CsadReport
<1>2. e \in CsaItem
  <2>1. tsq \in Seq(TaskRec) /\ tsq # <<>> BY DEF KInv, CInv, Inv, TypeOK, KernelTypeOK, CsadReport
  <2>2. Head(tsq) \in TaskRec BY <2>1
  <2> QED BY <2>2 DEF TaskRec, CsaItem, Notice
<1>3. e.what = "NOTICE" BY DEF Notice
<1> HIDE DEF e
<1>4. e # CONNECT BY <1>2, <1>3, ItemKinds
<1>5. /\ n \in Nat /\ DOMAIN fromCsa' = 1 .. n /\ fromCsa'[n] = e
      /\ \A i \in DOMAIN fromCsa : fromCsa'[i] = fromCsa[i] /\ i \in DOMAIN fromCsa' /\ i < n
      /\ \A i \in DOMAIN fromCsa' : i \in DOMAIN fromCsa \/ i = n
  BY <1>1, <1>2, SaysMore
<1> HIDE DEF n
<1>6. ASSUME NEW i \in DOMAIN fromCsa', fromCsa'[i] = CONNECT PROVE LastOrEnded(i)'
  <2>1. i \in DOMAIN fromCsa /\ fromCsa[i] = CONNECT BY <1>4, <1>5, <1>6
  <2>2. LastOrEnded(i) BY <2>1 DEF KInv, Conversation
  <2>3. CASE \E m \in DOMAIN fromCsa : m > i /\ fromCsa[m] = EOF
    BY <1>5, <2>3 DEF LastOrEnded
  <2>4. CASE csad = "connected" /\ \A m \in DOMAIN fromCsa : m > i => fromCsa[m] # CONNECT
    <3>1. \A m \in DOMAIN fromCsa' : m > i => fromCsa'[m] # CONNECT BY <1>4, <1>5, <2>4
    <3> QED BY <1>1, <2>4, <3>1 DEF LastOrEnded
  <2> QED BY <2>2, <2>3, <2>4 DEF LastOrEnded
<1>7. tbl'.csaPeer => /\ tbl'.csaActive /\ csad' = "connected"
                      /\ \A i \in DOMAIN fromCsa' : fromCsa'[i].what = "NOTICE"
  BY <1>1, <1>3, <1>5 DEF KInv, Conversation
<1>8. Conversation' BY <1>1, <1>6, <1>7 DEF KInv, Conversation
<1>9. Tells' BY <1>1 DEF KInv, Tells, Settled
<1> QED BY <1>8, <1>9

LEMMA StopConversation ==
  ASSUME KInv, CsadStop PROVE Conversation' /\ Tells'
<1> DEFINE n == Len(fromCsa) + 1
<1>1. /\ csad' = "off"
      /\ fromCsa' = IF csad = "connected" THEN Append(fromCsa, EOF) ELSE fromCsa
      /\ tbl' = [tbl EXCEPT !.csaPeer = FALSE, !.toCsa = <<>>]
  BY DEF CsadStop
<1>2. ~tbl'.csaPeer /\ tbl'.toCsa = <<>>
  <2>1. tbl \in Memory BY OkInv DEF KInv, CInv, Ok
  <2> QED BY <1>1, <2>1 DEF Memory
<1>3. ASSUME NEW i \in DOMAIN fromCsa', fromCsa'[i] = CONNECT PROVE LastOrEnded(i)'
  <2>1. CASE csad = "connected"
    <3>1. fromCsa' = Append(fromCsa, EOF) /\ EOF \in CsaItem /\ EOF # CONNECT
      BY <1>1, <2>1 DEF CsaItem, CONNECT, EOF
    <3>2. /\ n \in Nat /\ DOMAIN fromCsa' = 1 .. n /\ fromCsa'[n] = EOF
          /\ \A m \in DOMAIN fromCsa' : m \in DOMAIN fromCsa \/ m = n
          /\ \A m \in DOMAIN fromCsa : m < n
      BY <3>1, SaysMore
    <3> HIDE DEF n
    <3>3. i # n BY <1>3, <3>1, <3>2
    <3>4. n \in DOMAIN fromCsa' /\ n > i BY <1>3, <3>2, <3>3
    <3> QED BY <3>2, <3>4 DEF LastOrEnded
  <2>2. CASE csad # "connected"
    <3>1. fromCsa' = fromCsa BY <1>1, <2>2
    <3>2. LastOrEnded(i) BY <1>3, <3>1 DEF KInv, Conversation
    <3> QED BY <2>2, <3>1, <3>2 DEF LastOrEnded
  <2> QED BY <2>1, <2>2
<1>4. Conversation' BY <1>1, <1>2, <1>3 DEF Conversation
<1> QED BY <1>2, <1>4, NoPeerTells

(* csad starts without a job. *)
LEMMA BeginConversation ==
  ASSUME KInv, Begin PROVE Conversation' /\ Tells'
<1>1. csad = "off" /\ csad' = "listening" /\ tbl' = tbl /\ fromCsa' = fromCsa /\ acct' = FreeTable(acct)
  BY DEF Begin, CsadStart
<1>2. acct'.tab = {} BY <1>1, QuietMemory DEF KInv, CInv, AcctOk
<1>3. ~tbl.csaPeer BY <1>1 DEF KInv, Conversation
<1>4. ASSUME NEW i \in DOMAIN fromCsa', fromCsa'[i] = CONNECT PROVE LastOrEnded(i)'
  <2>1. LastOrEnded(i) BY <1>1, <1>4 DEF KInv, Conversation
  <2> QED BY <1>1, <2>1 DEF LastOrEnded
<1>5. Conversation' BY <1>1, <1>2, <1>3, <1>4 DEF KInv, Conversation
<1> QED BY <1>1, <1>3, <1>5, NoPeerTells

(* What a handler of csad leaves in pacct.                                 *)
LEMMA ObserveAfter ==
  ASSUME Observe PROVE phase' = After(phase, acct')
BY DEF Observe, Read, After

LEMMA EopFrames ==
  ASSUME KInv, NEW small \in BOOLEAN, NEW brief \in BOOLEAN, Eop(small, brief)
  PROVE  FramesKept' /\ acct'.tab = acct.tab
<1> DEFINE m == Quiet(acct)
           j == JidLookup(Head(tsq).pid)
<1>1. j \in Jid \cup {NoJid}
  <2>1. tsq \in Seq(TaskRec) /\ tsq # <<>> BY DEF KInv, CInv, Inv, TypeOK, KernelTypeOK, Eop
  <2>2. Head(tsq) \in TaskRec BY <2>1
  <2> QED BY <2>2, JidLookupType DEF KInv, CInv, TaskRec
<1>2. AcctOk(m) /\ m \in AcctMemory /\ m.out = <<>> /\ m.tab = acct.tab
  BY QuietOk, QuietMemory DEF KInv, CInv, AcctOk
<1>3. PICK ok \in Outcomes : acct' = AcctEop(m, j, small, brief, ok) BY DEF Eop
<1>4. phase' = After(phase, acct') /\ csad' = csad /\ csad = "connected"
  BY ObserveAfter DEF Eop, jobdSide, vars
<1> HIDE DEF m, j
<1>5. Wrote(m, acct', 2) BY <1>1, <1>2, <1>3, OutcomeType, AcctEopWrote
<1>6. acct' \in AcctMemory BY <1>1, <1>2, <1>3, OutcomeType, AcctEopOk DEF AcctOk
<1>7. acct'.tab = acct.tab /\ Plain(acct') /\ Len(acct'.out) <= 2 BY <1>2, <1>5 DEF Wrote, Plain
<1>8. Fits(phase, acct.tab) BY <1>4 DEF KInv, FramesKept
<1>9. Fits(phase', acct'.tab) BY <1>4, <1>6, <1>7, <1>8, PlainFits
<1> QED BY <1>7, <1>9 DEF FramesKept, Fits

LEMMA ControlFrames ==
  ASSUME KInv, NEW r \in CtlCalls, Control(r)
  PROVE  FramesKept' /\ acct'.tab = acct.tab
<1> DEFINE m == Quiet(acct)
           j == IF r.op \in {"JASTART", "JASTOP"} THEN JidLookup(r.pid) ELSE NoJid
<1>1. r \in CtlRequest BY CsadAssumption
<1>2. j \in Jid \cup {NoJid}
  <2>1. r.op \in {"JASTART", "JASTOP"} => r.pid \in Pid BY <1>1 DEF CtlRequest
  <2> QED BY <2>1, JidLookupType DEF KInv, CInv
<1>3. AcctOk(m) /\ m \in AcctMemory /\ m.out = <<>> /\ m.tab = acct.tab
  BY QuietOk, QuietMemory DEF KInv, CInv, AcctOk
<1>4. PICK ok \in Outcomes, junk \in BOOLEAN : acct' = DoCtl(m, r, j, junk, ok) BY DEF Control
<1>5. phase' = After(phase, acct') /\ csad' = csad /\ csad = "connected"
  BY ObserveAfter DEF Control, jobdSide, vars
<1> HIDE DEF m, j
<1>6. Wrote(m, acct', 2) BY <1>1, <1>2, <1>3, <1>4, OutcomeType, DoCtlWrote
<1>7. acct' \in AcctMemory BY <1>1, <1>2, <1>3, <1>4, OutcomeType, DoCtlOk DEF AcctOk
<1>8. acct'.tab = acct.tab /\ Plain(acct') /\ Len(acct'.out) <= 2 BY <1>3, <1>6 DEF Wrote, Plain
<1>9. Fits(phase, acct.tab) BY <1>5 DEF KInv, FramesKept
<1>10. Fits(phase', acct'.tab) BY <1>5, <1>7, <1>8, <1>9, PlainFits
<1> QED BY <1>8, <1>10 DEF FramesKept, Fits

LEMMA ReadEventKept ==
  ASSUME KInv, ReadEvent PROVE Conversation' /\ Tells' /\ FramesKept'
<1> DEFINE m == Quiet(acct)
           e == Head(tbl.toCsa)
<1>1. /\ csad = "connected" /\ csad' = csad /\ tbl.toCsa # <<>> /\ fromCsa' = fromCsa
      /\ tbl' = [tbl EXCEPT !.toCsa = Tail(@)]
  BY DEF ReadEvent, CsadRead
<1>2. tbl \in Memory BY OkInv DEF KInv, CInv, Ok
<1>3. PICK q \in Seq(CsaEvent) : q = tbl.toCsa BY <1>2 DEF Memory
<1>4. q # <<>> /\ e \in CsaEvent /\ e = Head(q) BY <1>1, <1>3
<1>5. /\ tbl'.toCsa = Tail(q) /\ tbl'.csaPeer = tbl.csaPeer /\ tbl'.csaActive = tbl.csaActive
      /\ tbl'.jobTab = tbl.jobTab
  BY <1>1, <1>2, <1>3 DEF Memory
<1>6. AcctOk(m) /\ m.out = <<>> /\ m.tab = acct.tab
  BY QuietOk, QuietMemory DEF KInv, CInv, AcctOk
<1>7. PICK ok \in Outcomes : acct' = JobEvent(m, e, ok[1]) BY DEF ReadEvent
<1>8. phase' = After(phase, acct') BY ObserveAfter DEF ReadEvent
<1>9. Fits(phase, m.tab) BY <1>1, <1>6 DEF KInv, FramesKept
<1> HIDE DEF m, e
<1>10. ok[1] \in BOOLEAN BY OutcomeType
<1>11. /\ Fits(After(phase, acct'), acct'.tab) /\ Len(acct'.out) <= 1
       /\ \A k \in Jid : k \in acct'.tab => \/ k \in m.tab /\ e # Told("END", k)
                                            \/ e = Told("START", k)
  BY <1>4, <1>6, <1>7, <1>9, <1>10, JobEventFits
<1>12. FramesKept'
  <2>1. acct'.out \in Seq(Record)
    BY <1>4, <1>6, <1>7, <1>10, JobEventOk DEF AcctOk, AcctMemory
  <2>2. Len(acct'.out) <= 2
    <3>1. PICK n \in Nat : n = Len(acct'.out) BY <2>1
    <3> QED BY <1>11, <3>1
  <2> QED BY <1>8, <1>11, <2>2 DEF FramesKept, Fits
<1>13. tbl.csaPeer BY <1>1 DEF KInv, Conversation
<1>14. Conversation'
  <2>1. ASSUME NEW i \in DOMAIN fromCsa', fromCsa'[i] = CONNECT PROVE LastOrEnded(i)'
    <3>1. LastOrEnded(i) BY <1>1, <2>1 DEF KInv, Conversation
    <3> QED BY <1>1, <3>1 DEF LastOrEnded
  <2> QED BY <1>1, <1>5, <1>13, <2>1 DEF KInv, Conversation
<1>15. TabAfter(acct'.tab, Tail(q)) \subseteq TabAfter(acct.tab, q)
  BY <1>4, <1>6, <1>11, TabRead
<1>16. Tells' BY <1>3, <1>5, <1>13, <1>15 DEF KInv, Tells, Settled
<1> QED BY <1>12, <1>14, <1>16

(***************************************************************************)
(* Every step                                                              *)
(***************************************************************************)
LEMMA InitKept == ASSUME CInit PROVE Conversation /\ Tells /\ FramesKept
<1>1. /\ tbl = InitMemory([c \in Client |-> NoAnswer]) /\ fromCsa = <<>> /\ csad = "off"
      /\ acct = InitAcct /\ phase = [j \in Jid |-> "unknown"]
  BY DEF CInit, HInit, Init
<1>2. tbl.csaPeer = FALSE /\ tbl.toCsa = <<>> BY <1>1 DEF InitMemory
<1>3. Conversation /\ Tells BY <1>1, <1>2 DEF Conversation, Tells
<1>4. acct.out = <<>> BY <1>1 DEF InitAcct
<1> QED BY <1>1, <1>3, <1>4 DEF FramesKept, Sound

(* csad is gone, or its table as it was. *)
LEMMA WithCsadKept ==
  ASSUME KInv, WithCsad, cnOn' \/ csad' = "off", csad' \in {csad, "off"}
  PROVE  FramesKept' /\ (cnOn' => acct' = acct)
<1>1. CASE cnOn' BY <1>1 DEF WithCsad, KInv, FramesKept
<1>2. CASE ~cnOn'
  <2>1. acct' = InitAcct /\ phase' = Restart(phase) /\ csad' = "off" BY <1>2 DEF WithCsad
  <2>2. acct'.out = <<>> BY <2>1 DEF InitAcct
  <2>3. Sound(phase') BY <2>1, RestartFits DEF KInv, FramesKept, Fits
  <2> QED BY <1>2, <2>1, <2>2, <2>3 DEF FramesKept
<1> QED BY <1>1, <1>2

LEMMA JobdServesKept ==
  ASSUME KInv, JobdServes PROVE Conversation' /\ Tells' /\ FramesKept'
<1>1. CASE (RecvNl \/ Select \/ AcceptCsa \/ RecvCsa) /\ WithCsad
  <2>1. cnOn' /\ csad' = csad BY <1>1 DEF RecvNl, Select, AcceptCsa, RecvCsa, kvars
  <2>2. FramesKept' /\ acct'.tab = acct.tab BY <1>1, <2>1, WithCsadKept
  <2> QED BY <1>1, <2>2, RecvNlConversation, SelectConversation, AcceptCsaConversation, RecvCsaConversation
<1>2. CASE RecvUnix /\ WithCsad
  <2>1. CASE cnOn' = FALSE /\ csad' = "off"
    <3>1. FramesKept' BY <1>2, <2>1, WithCsadKept
    <3>2. ~cnOn' /\ cnOn BY <1>2, <2>1 DEF RecvUnix
    <3>3. \E t, callers : Down(t, callers) BY <1>2, <3>2 DEF RecvUnix
    <3> QED BY <3>1, <3>3, DownConversation
  <2>2. CASE cnOn' /\ csad' = csad
    <3>1. FramesKept' /\ acct'.tab = acct.tab BY <1>2, <2>2, WithCsadKept
    <3> QED BY <1>2, <3>1, RecvUnixConversation
  <2>3. (cnOn' = FALSE /\ csad' = "off") \/ (cnOn' /\ csad' = csad)
    BY <1>2 DEF RecvUnix, Down
  <2> QED BY <2>1, <2>2, <2>3
<1> QED BY <1>1, <1>2 DEF JobdServes

LEMMA JobdRestartsKept ==
  ASSUME KInv, JobdRestarts PROVE Conversation' /\ Tells' /\ FramesKept'
<1>1. CASE Stop /\ WithCsad
  <2>1. \E t, callers : Down(t, callers) BY <1>1 DEF Stop
  <2>2. cnOn' = FALSE /\ csad' = "off" BY <2>1 DEF Down
  <2> QED BY <1>1, <2>1, <2>2, DownConversation, WithCsadKept
<1>2. CASE Start /\ WithCsad
  <2>1. cnOn' /\ csad' = csad /\ fromCsa' = fromCsa /\ tbl' = tbl BY <1>2 DEF Start
  <2>2. FramesKept' /\ acct' = acct BY <1>2, <2>1, WithCsadKept
  <2> QED BY <2>1, <2>2 DEF KInv, Conversation, LastOrEnded, Tells, Settled
<1> QED BY <1>1, <1>2 DEF JobdRestarts

(* A step that touches neither jobd, nor csad, nor what is between them.   *)
LEMMA ElsewhereKept ==
  ASSUME KInv, UNCHANGED <<tbl, fromCsa, csad, acct, phase>>
  PROVE  Conversation' /\ Tells' /\ FramesKept'
<1>1. tbl' = tbl /\ fromCsa' = fromCsa /\ csad' = csad /\ acct' = acct /\ phase' = phase OBVIOUS
<1> QED BY <1>1 DEF KInv, Conversation, LastOrEnded, Tells, Settled, FramesKept

LEMMA CNextKept ==
  ASSUME KInv, [CNext]_cvars PROVE KInv'
<1>1. CInv' BY CNextInv DEF KInv
<1>2. Conversation' /\ Tells' /\ FramesKept'
  <2>1. CASE Begin
    <3>1. acct' = FreeTable(acct) /\ phase' = Restart(phase) BY <2>1 DEF Begin
    <3>2. acct'.out = <<>> BY <3>1, QuietMemory DEF KInv, CInv, AcctOk
    <3>3. FramesKept' BY <3>1, <3>2, RestartFits DEF KInv, FramesKept, Fits
    <3> QED BY <2>1, <3>3, BeginConversation
  <2>2. CASE Connect
    <3>1. FramesKept' BY <2>2 DEF Connect, CsadConnect, KInv, FramesKept
    <3> QED BY <2>2, <3>1, ConnectConversation DEF Connect
  <2>3. CASE Report
    <3>1. acct'.out = <<>> /\ acct'.tab = acct.tab
      BY <2>3, QuietMemory DEF Report, KInv, CInv, AcctOk
    <3>2. phase' = phase /\ csad' = csad BY <2>3 DEF Report, CsadReport
    <3>3. FramesKept' BY <3>1, <3>2 DEF KInv, FramesKept
    <3> QED BY <2>3, <3>1, <3>3, ReportConversation DEF Report
  <2>4. CASE ReadEvent BY <2>4, ReadEventKept
  <2>5. CASE End
    <3>1. acct' = FreeTable(acct) /\ phase' = phase /\ csad' = "off" BY <2>5 DEF End, CsadStop
    <3>2. acct'.out = <<>> BY <3>1, QuietMemory DEF KInv, CInv, AcctOk
    <3>3. FramesKept' BY <3>1, <3>2 DEF KInv, FramesKept
    <3> QED BY <2>5, <3>3, StopConversation DEF End
  <2>6. ASSUME NEW small \in BOOLEAN, NEW brief \in BOOLEAN, Eop(small, brief)
        PROVE  Conversation' /\ Tells' /\ FramesKept'
    <3>1. FramesKept' /\ acct'.tab = acct.tab BY <2>6, EopFrames
    <3>2. tbl' = tbl /\ fromCsa' = fromCsa /\ csad' = csad BY <2>6 DEF Eop, jobdSide, vars
    <3> QED BY <3>1, <3>2 DEF KInv, Conversation, LastOrEnded, Tells, Settled
  <2>7. ASSUME NEW r \in CtlCalls, Control(r)
        PROVE  Conversation' /\ Tells' /\ FramesKept'
    <3>1. FramesKept' /\ acct'.tab = acct.tab BY <2>7, ControlFrames
    <3>2. tbl' = tbl /\ fromCsa' = fromCsa /\ csad' = csad BY <2>7 DEF Control, jobdSide, vars
    <3> QED BY <3>1, <3>2 DEF KInv, Conversation, LastOrEnded, Tells, Settled
  <2>8. CASE JobdServes BY <2>8, JobdServesKept
  <2>9. CASE JobdRestarts BY <2>9, JobdRestartsKept
  <2>10. CASE Ask
    BY <2>10, ElsewhereKept DEF Ask, SubmitStep, Submit
  <2>11. CASE \E p \in Pid, s \in Status : Die(p, s)
    BY <2>11, ElsewhereKept DEF Die, ExitStep
  <2>12. CASE \E p, c \in Pid : Breed(p, c)
    BY <2>12, ElsewhereKept DEF Breed, ForkStep
  <2>13. CASE \E p \in Pid : ReapStep(p) /\ UNCHANGED <<hvars, acct, eop, tsJob, phase>>
    BY <2>13, ElsewhereKept DEF ReapStep
  <2>14. CASE UNCHANGED cvars BY <2>14, ElsewhereKept DEF cvars, vars
  <2> QED
    BY <2>1, <2>2, <2>3, <2>4, <2>5, <2>6, <2>7, <2>8, <2>9, <2>10, <2>11, <2>12, <2>13, <2>14 DEF CNext
<1> QED BY <1>1, <1>2 DEF KInv

(***************************************************************************)
(* The theorems                                                            *)
(***************************************************************************)
(* With the loop of csad in its place, the system does what Jobd says of   *)
(* it: csad tells jobd of each exit once and in order, whatever it writes. *)
THEOREM JobdImplemented == CSpec => ImplementsJobd
<1>1. CInit => Init BY DEF CInit, HInit
<1>2. [CNext]_cvars => [Next]_vars BY CNextImplements
<1> QED BY <1>1, <1>2, PTL DEF CSpec, ImplementsJobd, Spec

(* What holds of csad's memory and of jobd's holds of the two together.    *)
THEOREM CsadInvariance == CSpec => []CInv
<1>1. CInit => CInv BY InitInv, InitAcctOk DEF CInit, HInit, CInv
<1>2. CInv /\ [CNext]_cvars => CInv' BY CNextInv
<1> QED BY <1>1, <1>2, PTL DEF CSpec

(* CSA accounting that is on has a file to write to, whatever was started, *)
(* stopped or failed to be written.                                        *)
THEOREM ActiveHasFileAlways == CSpec => []ActiveHasFile
<1>1. CInv => ActiveHasFile BY DEF CInv, AcctOk, ActiveHasFile
<1> QED BY <1>1, CsadInvariance, PTL

(* And jobd and csad keep to what they tell each other, and to the frame  *)
(* of a job's records.                                                     *)
THEOREM CsadKept == CSpec => []KInv
<1>1. CInit => KInv
  <2>1. CInit => CInv BY InitInv, InitAcctOk DEF CInit, HInit, CInv
  <2> QED BY <2>1, InitKept DEF KInv
<1>2. KInv /\ [CNext]_cvars => KInv' BY CNextKept
<1> QED BY <1>1, <1>2, PTL DEF CSpec

(* csad accounts for no job that has ended: what it knows, and what it is  *)
(* about to be told, are jobs of jobd.                                     *)
THEOREM TableTracksAlways == CSpec => []TableTracksJobd
<1>1. KInv => TableTracksJobd BY DEF KInv, Tells, TableTracksJobd
<1> QED BY <1>1, CsadKept, PTL

(* The records of a job in pacct are framed by its start and end records.  *)
THEOREM FramedAlways == CSpec => []Framed
<1>1. KInv => Framed BY DEF KInv, FramesKept, Sound, Framed
<1> QED BY <1>1, CsadKept, PTL
=============================================================================
