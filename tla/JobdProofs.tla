----------------------------- MODULE JobdProofs -----------------------------
(***************************************************************************)
(* jobd keeps its memory well typed and its tables in agreement, for every *)
(* number of processes, jobs and callers, every capacity, and whether or   *)
(* not events are lost, pids are reused, csad comes and goes and jobd is   *)
(* restarted.  Whoever waits for a job in job_waitjid() waits once, on one *)
(* job, and leaves its queue only with the answer that the job has ended,  *)
(* and whoever creates a job gets one that did not exist, in whatever      *)
(* order jobd reads its events and requests.                               *)
(***************************************************************************)
EXTENDS Jobd, JobTableProofs

(* What select() found is still there when jobd comes to read it. *)
SelReady ==
  /\ sel = "accept" => CONNECT \in ToSet(fromCsa)
  /\ sel = "csa" => fromCsa # <<>>
  /\ sel = "unix" => reqq # <<>>

(* TablesConsistent is not inductive by itself: the events and requests    *)
(* that reach the handlers must be typed, a handler must find the message  *)
(* that select() saw, and a jobd whose host ID is DISABLED is gone.        *)
Inv == TypeOK /\ TablesConsistent /\ SelReady /\ tbl.hid # DISABLED

LEMMA InitMemoryOk ==
  ASSUME NEW answer \in [Client -> Answer]
  PROVE  Ok(InitMemory(answer)) /\ InitMemory(answer).hid # DISABLED
<1> DEFINE t == InitMemory(answer)
<1>1. HidCount \in Nat \ {0} /\ 1 % SidCount \in 0 .. (SidCount - 1)
  BY ParamsAssumption, ModRange
<1>2. 0 \in Hid /\ 0 # DISABLED
  BY <1>1 DEF Hid, DISABLED
<1>3. [j \in Jid |-> FreeJob] \in [Jid -> JobEntry] /\ [p \in Pid |-> FreeProc] \in [Pid -> ProcEntry]
  BY FreeTypes
<1>4. <<>> \in Seq(CsaEvent)
  OBVIOUS
<1>5. t \in Memory
  BY <1>1, <1>2, <1>3, <1>4 DEF InitMemory, Memory
<1>6. TablesAgree(t)
  <2>1. t.jobTab = {} /\ t.procTab = {} /\ t.nJobs = 0 /\ t.job = [j \in Jid |-> FreeJob]
        /\ t.proc = [p \in Pid |-> FreeProc]
    BY DEF InitMemory
  <2>2. Cardinality({}) = 0 BY FS_EmptySet
  <2> HIDE DEF t
  <2> QED BY <2>1, <2>2
          DEF TablesAgree, ProcHasJob, ListsAgree, RefcntAgrees, FreedEntries, JobsCounted
<1> QED BY <1>2, <1>5, <1>6 DEF InitMemory, Ok

LEMMA AnswerTypes ==
  NoAnswer \in Answer /\ EofAnswer \in Answer
  BY DEF NoAnswer, EofAnswer, Answer, Err

LEMMA InitInv ==
  ASSUME Init PROVE Inv
<1>1. [c \in Client |-> NoAnswer] \in [Client -> Answer]
  BY AnswerTypes
<1>2. Ok(tbl) /\ tbl.hid # DISABLED
  BY <1>1, InitMemoryOk DEF Init
<1>3. KernelTypeOK
  <2>1. KernelInit BY DEF Init
  <2>2. nlq \in Seq(Event) /\ tsq \in Seq(TaskRec) BY <2>1 DEF KernelInit
  <2>3. pstate \in [Pid -> {"free", "run", "zombie", "gone"}] BY <2>1 DEF KernelInit
  <2>4. signalled \subseteq Pid /\ cnOn \in BOOLEAN /\ tsOn \in BOOLEAN BY <2>1 DEF KernelInit
  <2> QED BY <2>2, <2>3, <2>4 DEF KernelTypeOK
<1>4. TypeOK
  <2>1. reqq \in Seq([c : Client, r : Request]) /\ fromCsa \in Seq(CsaItem)
    BY DEF Init
  <2>2. sel = "none" /\ csad = "off" BY DEF Init
  <2> QED BY <1>2, <1>3, <2>1, <2>2 DEF TypeOK, Ok
<1> QED BY <1>2, <1>4 DEF Init, Inv, TablesConsistent, SelReady, Ok

(***************************************************************************)
(* Steps of the kernel                                                     *)
(***************************************************************************)
LEMMA DeliverType ==
  ASSUME NEW S, NEW q \in Seq(S), NEW m \in S, NEW on
  PROVE  Deliver(on, q, m) \in Seq(S)
  BY AppendProperties DEF Deliver

LEMMA KernelSteps ==
  ASSUME KernelTypeOK, NEW p \in Pid, NEW c \in Pid, NEW s \in Status,
         Fork(p, c) \/ Exit(p, s) \/ Reap(p)
  PROVE  KernelTypeOK'
<1>1. 0 \in Status BY ParamsAssumption
<1>2. CASE Fork(p, c)
  <2>1. p # c BY <1>2 DEF Fork
  <2>2. ForkEvent(p, c) \in Event BY <1>1, <2>1 DEF ForkEvent, Event
  <2>3. nlq' \in Seq(Event) BY <1>2, <2>2, DeliverType DEF Fork, KernelTypeOK
  <2> QED BY <1>2, <2>3 DEF Fork, KernelTypeOK
<1>3. CASE Exit(p, s)
  <2>1. ExitEvent(p, s) \in Event BY DEF ExitEvent, Event
  <2>2. nlq' \in Seq(Event) BY <1>3, <2>1, DeliverType DEF Exit, KernelTypeOK
  <2>3. [pid |-> p, status |-> s] \in TaskRec BY DEF TaskRec
  <2>4. tsq' \in Seq(TaskRec) BY <1>3, <2>3, DeliverType DEF Exit, KernelTypeOK
  <2>5. pstate' \in [Pid -> {"free", "run", "zombie", "gone"}]
    BY <1>3 DEF Exit, KernelTypeOK, AfterReap
  <2> QED BY <1>3, <2>2, <2>4, <2>5 DEF Exit, KernelTypeOK
<1>4. CASE Reap(p)
  BY <1>4 DEF Reap, KernelTypeOK, AfterReap
<1> QED BY <1>2, <1>3, <1>4

(***************************************************************************)
(* Steps of jobd                                                           *)
(***************************************************************************)
LEMMA HeadTail ==
  ASSUME NEW S, NEW s \in Seq(S), s # <<>>
  PROVE  Head(s) \in S /\ Tail(s) \in Seq(S)
  OBVIOUS

LEMMA AnsweredOk ==
  ASSUME NEW t, Ok(t)
  PROVE  Ok(Answered(t)) /\ Answered(t).hid = t.hid
<1> DEFINE a == [c \in Client |-> NoAnswer]
           u == [t EXCEPT !.answer = a]
<1>1. a \in [Client -> Answer] BY AnswerTypes
<1> HIDE DEF a
<1>2. u \in Memory /\ SameTables(t, u) /\ u.hid = t.hid BY <1>1 DEF Ok, Memory, SameTables
<1> QED BY <1>2, SameTablesAgree DEF Ok, Answered, a

(* A step that leaves the kernel's variables well typed, and that of jobd  *)
(* in order, preserves the invariant.                                      *)
LEMMA OkInv ==
  Inv => Ok(tbl) /\ tbl.hid # DISABLED
  BY DEF Inv, TypeOK, TablesConsistent, Ok

LEMMA RecvNlInv ==
  ASSUME Inv, RecvNl PROVE Inv'
<1> DEFINE e == Head(nlq)
           t == Answered(tbl)
<1>1. nlq \in Seq(Event) /\ nlq # <<>> BY DEF Inv, TypeOK, KernelTypeOK, RecvNl
<1>2. e \in Event /\ nlq' \in Seq(Event) BY <1>1, HeadTail DEF RecvNl
<1>3. e.pid \in Pid /\ e.parent \in Pid /\ e.status \in Status /\ (e.what = "FORK" => e.pid # e.parent)
  BY <1>2 DEF Event
<1>4. t \in Memory /\ TablesAgree(t) /\ t.hid # DISABLED BY OkInv, AnsweredOk DEF Ok
<1>5. tbl' = IF e.what = "FORK" THEN ForkHandler(t, e.parent, e.pid)
             ELSE ExitEventHandler(t, e.pid, e.status)
  BY DEF RecvNl
<1> HIDE DEF e, t
<1>6. Ok(tbl') /\ tbl'.hid # DISABLED
  <2>1. CASE e.what = "FORK"
    <3>1. e.pid \in Pid \ {e.parent} BY <1>3, <2>1
    <3> QED BY <1>3, <1>4, <1>5, <2>1, <3>1, ForkHandlerAgrees DEF Ok
  <2>2. CASE e.what # "FORK" BY <1>3, <1>4, <1>5, <2>2, ExitEventHandlerAgrees DEF Ok
  <2> QED BY <2>1, <2>2
<1>7. TypeOK' BY <1>2, <1>6 DEF Inv, TypeOK, KernelTypeOK, RecvNl, Ok
<1>8. SelReady' BY DEF SelReady, RecvNl
<1> QED BY <1>6, <1>7, <1>8 DEF Inv, TablesConsistent, Ok

LEMMA SelectInv ==
  ASSUME Inv, Select PROVE Inv'
<1>1. Ok(tbl') /\ tbl'.hid # DISABLED BY OkInv, AnsweredOk DEF Select
<1>2. sel' \in {"none", "accept", "csa", "unix"} BY DEF Select, Source
<1>3. TypeOK' BY <1>1, <1>2 DEF Inv, TypeOK, KernelTypeOK, kvars, Select, Ok
<1>4. SelReady' BY DEF SelReady, Select, Source
<1> QED BY <1>1, <1>3, <1>4 DEF Inv, TablesConsistent, Ok

LEMMA AcceptCsaInv ==
  ASSUME Inv, AcceptCsa PROVE Inv'
<1> DEFINE First(i) == fromCsa[i] = CONNECT /\ \A h \in 1 .. (i - 1) : fromCsa[h] # CONNECT
           k == CHOOSE i \in DOMAIN fromCsa : First(i)
           rest == SubSeq(fromCsa, k + 1, Len(fromCsa))
<1>1. fromCsa \in Seq(CsaItem) BY DEF Inv, TypeOK
<1>2. \E i \in DOMAIN fromCsa : First(i)
  <2> DEFINE T == {i \in DOMAIN fromCsa : fromCsa[i] = CONNECT}
  <2>1. T # {} BY DEF Inv, SelReady, AcceptCsa, ToSet
  <2>2. T \in SUBSET Nat BY <1>1
  <2>3. PICK i \in T : \A h \in T : i <= h
    <3> HIDE DEF T
    <3> QED BY <2>1, <2>2, MinExists
  <2>4. \A h \in 1 .. (i - 1) : fromCsa[h] # CONNECT
    <3>1. ASSUME NEW h \in 1 .. (i - 1) PROVE fromCsa[h] # CONNECT
      <4>1. h \in DOMAIN fromCsa /\ ~ (i <= h) BY <1>1, <2>3
      <4> QED BY <2>3, <4>1
    <3> QED BY <3>1
  <2> QED BY <2>3, <2>4
<1>3. k \in DOMAIN fromCsa BY <1>2
<1>4. rest \in Seq(CsaItem)
  <2> HIDE DEF k
  <2> QED BY <1>1, <1>3
<1>5. /\ fromCsa' = rest /\ sel' = "none"
      /\ tbl' = [tbl EXCEPT !.csaActive = TRUE, !.csaPeer = EOF \notin ToSet(rest), !.toCsa = <<>>]
      /\ UNCHANGED <<kvars, reqq, csad>>
  BY DEF AcceptCsa
<1> HIDE DEF rest
<1>6. Ok(tbl') /\ tbl'.hid # DISABLED
  <2> DEFINE peer == EOF \notin ToSet(rest)
  <2>1. peer \in BOOLEAN /\ <<>> \in Seq(CsaEvent) OBVIOUS
  <2>2. tbl' = [tbl EXCEPT !.csaActive = TRUE, !.csaPeer = peer, !.toCsa = <<>>] BY <1>5
  <2> HIDE DEF peer
  <2>3. ASSUME NEW t, Ok(t), NEW q \in Seq(CsaEvent)
        PROVE  LET u == [t EXCEPT !.csaActive = TRUE, !.csaPeer = peer, !.toCsa = q]
               IN u \in Memory /\ SameTables(t, u) /\ u.hid = t.hid
    BY <2>1, <2>3 DEF Ok, Memory, SameTables
  <2>4. tbl' \in Memory /\ SameTables(tbl, tbl') /\ tbl'.hid = tbl.hid
    BY <2>1, <2>2, <2>3, OkInv
  <2> QED BY <2>4, OkInv, SameTablesAgree DEF Ok
<1>7. TypeOK' BY <1>4, <1>5, <1>6 DEF Inv, TypeOK, KernelTypeOK, kvars, Ok
<1>8. SelReady' BY <1>5 DEF SelReady
<1> QED BY <1>6, <1>7, <1>8 DEF Inv, TablesConsistent, Ok

LEMMA RecvCsaInv ==
  ASSUME Inv, RecvCsa PROVE Inv'
<1> DEFINE m == Head(fromCsa)
<1>1. fromCsa \in Seq(CsaItem) /\ fromCsa # <<>> BY DEF Inv, TypeOK, SelReady, RecvCsa
<1>2. m \in CsaItem /\ fromCsa' \in Seq(CsaItem) BY <1>1, HeadTail DEF RecvCsa
<1>3. m.what = "NOTICE" => m.pid \in Pid /\ m.status \in Status BY <1>2 DEF CsaItem, CONNECT, EOF
<1>4. tbl' = IF m.what = "NOTICE" THEN ExitHandler(tbl, m.pid, m.status)
             ELSE [tbl EXCEPT !.csaActive = FALSE]
  BY DEF RecvCsa
<1> HIDE DEF m
<1>5. Ok(tbl') /\ tbl'.hid # DISABLED
  <2>1. CASE m.what = "NOTICE" BY <1>3, <1>4, <2>1, OkInv, ExitHandlerAgrees DEF Ok
  <2>2. CASE m.what # "NOTICE"
    <3>1. tbl' \in Memory /\ SameTables(tbl, tbl') /\ tbl'.hid = tbl.hid
      BY <1>4, <2>2, OkInv DEF Ok, Memory, SameTables
    <3> QED BY <3>1, OkInv, SameTablesAgree DEF Ok
  <2> QED BY <2>1, <2>2
<1>6. TypeOK' BY <1>2, <1>5 DEF Inv, TypeOK, KernelTypeOK, kvars, RecvCsa, Ok
<1>7. SelReady' BY DEF SelReady, RecvCsa
<1> QED BY <1>5, <1>6, <1>7 DEF Inv, TablesConsistent, Ok

(* A jobd that goes down leaves nothing but the answers of its callers. *)
LEMMA DownInv ==
  ASSUME Inv, NEW t \in Memory, NEW callers, Down(t, callers),
         pstate' = pstate, signalled' \subseteq Pid
  PROVE  Inv'
<1> DEFINE a == [c \in Client |-> IF c \in callers THEN EofAnswer ELSE t.answer[c]]
<1>1. a \in [Client -> Answer] BY AnswerTypes DEF Memory
<1>2. tbl' = InitMemory(a) BY DEF Down
<1> HIDE DEF a
<1>3. Ok(tbl') /\ tbl'.hid # DISABLED BY <1>1, <1>2, InitMemoryOk
<1>4. nlq' \in Seq(Event) /\ tsq' \in Seq(TaskRec) /\ fromCsa' \in Seq(CsaItem)
      /\ reqq' \in Seq([c : Client, r : Request])
  BY DEF Down
<1>5. cnOn' = FALSE /\ tsOn' = FALSE /\ sel' = "none" /\ csad' = "off" BY DEF Down
<1>6. TypeOK' BY <1>3, <1>4, <1>5 DEF Inv, TypeOK, KernelTypeOK, Ok
<1>7. SelReady' BY <1>5 DEF SelReady
<1> QED BY <1>3, <1>6, <1>7 DEF Inv, TablesConsistent, Ok

LEMMA RecvUnixInv ==
  ASSUME Inv, RecvUnix PROVE Inv'
<1> DEFINE c == Head(reqq).c
           r == Head(reqq).r
           done == ProcessMesg(tbl, c, r, Existing)
           callers == {b \in Client \ {c} : Waiting(b) \/ Queued(b)}
<1>1. reqq \in Seq([c : Client, r : Request]) /\ reqq # <<>>
  BY DEF Inv, TypeOK, SelReady, RecvUnix
<1>2. Head(reqq) \in [c : Client, r : Request] /\ Tail(reqq) \in Seq([c : Client, r : Request])
  BY <1>1, HeadTail
<1>3. c \in Client /\ r \in Request BY <1>2
<1>4. /\ signalled' = signalled \cup
           (IF r.op = "KILLJID" THEN KillTargets(tbl, c, r) \cap Running ELSE {})
      /\ IF done.hid = DISABLED THEN Down(done, callers)
         ELSE /\ tbl' = done /\ reqq' = Tail(reqq) /\ sel' = "none"
              /\ UNCHANGED <<cnOn, nlq, tsOn, tsq, fromCsa, csad>>
      /\ UNCHANGED pstate
  BY DEF RecvUnix
<1>5. signalled' \subseteq Pid BY <1>4 DEF Inv, TypeOK, KernelTypeOK, Running
<1> HIDE DEF c, r
<1>6. Ok(done) BY <1>3, OkInv, ProcessMesgOk
<1> HIDE DEF done, callers
<1>7. CASE done.hid = DISABLED
  <2>1. done \in Memory /\ Down(done, callers) /\ pstate' = pstate BY <1>4, <1>6, <1>7 DEF Ok
  <2> QED BY <1>5, <2>1, DownInv
<1>8. CASE done.hid # DISABLED
  <2>1. tbl' = done /\ reqq' = Tail(reqq) /\ sel' = "none" /\ pstate' = pstate
        /\ UNCHANGED <<cnOn, nlq, tsOn, tsq, fromCsa, csad>>
    BY <1>4, <1>8
  <2>2. TypeOK' BY <1>2, <1>5, <1>6, <2>1 DEF Inv, TypeOK, KernelTypeOK, Ok
  <2>3. SelReady' BY <2>1 DEF SelReady
  <2> QED BY <1>6, <1>8, <2>1, <2>2, <2>3 DEF Inv, TablesConsistent, Ok
<1> QED BY <1>7, <1>8

(***************************************************************************)
(* The other steps                                                         *)
(***************************************************************************)
LEMMA SubmitInv ==
  ASSUME Inv, SubmitStep PROVE Inv'
<1>1. PICK call \in Calls : Submit(call[1], call[2]) BY DEF SubmitStep
<1>2. call[1] \in Client /\ call[2] \in Request BY JobdAssumption
<1>3. reqq' \in Seq([c : Client, r : Request])
  <2>1. [c |-> call[1], r |-> call[2]] \in [c : Client, r : Request] BY <1>2
  <2> QED BY <1>1, <2>1, AppendProperties DEF Submit, Inv, TypeOK
<1>4. /\ UNCHANGED <<kvars, tbl, sel, fromCsa, csad>>
      /\ reqq' = Append(reqq, [c |-> call[1], r |-> call[2]])
  BY <1>1 DEF Submit
<1>5. reqq' # <<>>
  BY <1>4 DEF Inv, TypeOK
<1>6. TypeOK' BY <1>3, <1>4 DEF Inv, TypeOK, KernelTypeOK, kvars
<1>7. SelReady' BY <1>4, <1>5 DEF Inv, SelReady
<1> QED BY <1>4, <1>6, <1>7 DEF Inv, TablesConsistent

LEMMA KernelInv ==
  ASSUME Inv, NEW p \in Pid, NEW c \in Pid, NEW s \in Status,
         ForkStep(p, c) \/ ExitStep(p, s) \/ ReapStep(p)
  PROVE  Inv'
<1>1. UNCHANGED <<tbl, sel, reqq, fromCsa, csad>> BY DEF ForkStep, ExitStep, ReapStep
<1>2. KernelTypeOK' BY KernelSteps DEF ForkStep, ExitStep, ReapStep, Inv, TypeOK
<1> QED BY <1>1, <1>2 DEF Inv, TypeOK, TablesConsistent, SelReady

(* csad only adds to what jobd reads, and its end of the csa socket is not *)
(* part of the tables.                                                     *)
LEMMA LinkInv ==
  ASSUME Inv, NEW peer \in BOOLEAN, NEW q \in Seq(CsaEvent),
         tbl' = [tbl EXCEPT !.csaPeer = peer, !.toCsa = q] \/ tbl' = [tbl EXCEPT !.toCsa = q]
  PROVE  Ok(tbl') /\ tbl'.hid # DISABLED
<1>1. tbl \in Memory BY OkInv DEF Ok
<1>2. tbl' \in Memory /\ SameTables(tbl, tbl') /\ tbl'.hid = tbl.hid
  BY <1>1 DEF Memory, SameTables
<1> QED BY <1>2, OkInv, SameTablesAgree DEF Ok

LEMMA AppendKeeps ==
  ASSUME NEW S, NEW s \in Seq(S), NEW x \in S
  PROVE  Append(s, x) \in Seq(S) /\ Append(s, x) # <<>> /\ ToSet(s) \subseteq ToSet(Append(s, x))
<1>1. /\ Append(s, x) \in Seq(S) /\ Len(Append(s, x)) = Len(s) + 1
      /\ \A i \in 1 .. Len(s) : Append(s, x)[i] = s[i]
  BY AppendProperties
<1>2. DOMAIN Append(s, x) = 1 .. (Len(s) + 1) /\ DOMAIN s = 1 .. Len(s) /\ Len(s) \in Nat
  BY <1>1
<1>3. Append(s, x) # <<>> BY <1>1, <1>2
<1>4. ASSUME NEW y \in ToSet(s) PROVE y \in ToSet(Append(s, x))
  <2>1. PICK i \in 1 .. Len(s) : y = s[i] BY <1>2 DEF ToSet
  <2>2. i \in 1 .. (Len(s) + 1) /\ Append(s, x)[i] = y BY <1>1, <1>2, <2>1
  <2> QED BY <1>2, <2>2 DEF ToSet
<1> QED BY <1>1, <1>3, <1>4

LEMMA CsadInv ==
  ASSUME Inv, CsadStep PROVE Inv'
<1>1. CASE CsadStart
  BY <1>1 DEF CsadStart, Inv, TypeOK, KernelTypeOK, TablesConsistent, SelReady
<1>2. CASE CsadConnect
  <2>1. CONNECT \in CsaItem /\ fromCsa \in Seq(CsaItem) BY DEF CsaItem, Inv, TypeOK
  <2>2. /\ fromCsa' \in Seq(CsaItem) /\ fromCsa' # <<>> /\ ToSet(fromCsa) \subseteq ToSet(fromCsa')
        /\ csad' = "connected" /\ UNCHANGED <<kvars, tbl, sel, reqq>>
    BY <1>2, <2>1, AppendKeeps DEF CsadConnect
  <2> QED BY <2>2 DEF Inv, TypeOK, KernelTypeOK, kvars, TablesConsistent, SelReady
<1>3. CASE CsadReport
  <2>1. tsq \in Seq(TaskRec) /\ tsq # <<>> /\ fromCsa \in Seq(CsaItem)
    BY <1>3 DEF CsadReport, Inv, TypeOK, KernelTypeOK
  <2>2. Head(tsq) \in TaskRec /\ Tail(tsq) \in Seq(TaskRec) BY <2>1, HeadTail
  <2>3. Notice(Head(tsq).pid, Head(tsq).status) \in CsaItem BY <2>2 DEF Notice, CsaItem, TaskRec
  <2>4. /\ fromCsa' \in Seq(CsaItem) /\ fromCsa' # <<>> /\ ToSet(fromCsa) \subseteq ToSet(fromCsa')
        /\ tsq' \in Seq(TaskRec)
    BY <1>3, <2>1, <2>2, <2>3, AppendKeeps DEF CsadReport
  <2> QED BY <1>3, <2>4 DEF CsadReport, Inv, TypeOK, KernelTypeOK, TablesConsistent, SelReady
<1>4. CASE CsadRead
  <2>1. tbl.toCsa \in Seq(CsaEvent) /\ tbl.toCsa # <<>> BY <1>4 DEF CsadRead, Inv, TypeOK, Memory
  <2>2. Tail(tbl.toCsa) \in Seq(CsaEvent) BY <2>1, HeadTail
  <2>3. tbl' = [tbl EXCEPT !.toCsa = Tail(tbl.toCsa)] BY <1>4 DEF CsadRead
  <2>4. Ok(tbl') /\ tbl'.hid # DISABLED BY <2>2, <2>3, LinkInv
  <2> QED BY <1>4, <2>4 DEF CsadRead, Inv, TypeOK, KernelTypeOK, kvars, TablesConsistent, SelReady, Ok
<1>5. CASE CsadStop
  <2>1. tbl' = [tbl EXCEPT !.csaPeer = FALSE, !.toCsa = <<>>] BY <1>5 DEF CsadStop
  <2>2. <<>> \in Seq(CsaEvent) /\ FALSE \in BOOLEAN OBVIOUS
  <2>3. Ok(tbl') /\ tbl'.hid # DISABLED BY <2>1, <2>2, LinkInv
  <2>4. /\ fromCsa' \in Seq(CsaItem) /\ ToSet(fromCsa) \subseteq ToSet(fromCsa')
        /\ fromCsa # <<>> => fromCsa' # <<>>
    <3>1. EOF \in CsaItem /\ fromCsa \in Seq(CsaItem) BY DEF CsaItem, Inv, TypeOK
    <3>2. fromCsa' = Append(fromCsa, EOF) \/ fromCsa' = fromCsa BY <1>5 DEF CsadStop
    <3> QED BY <3>1, <3>2, AppendKeeps
  <2>5. tsq' \in Seq(TaskRec) BY <1>5 DEF CsadStop
  <2>6. SelReady' BY <1>5, <2>4 DEF CsadStop, Inv, SelReady
  <2>7. TypeOK' BY <1>5, <2>3, <2>4, <2>5 DEF CsadStop, Inv, TypeOK, KernelTypeOK, Ok
  <2> QED BY <2>3, <2>6, <2>7 DEF Inv, TablesConsistent, Ok
<1> QED BY <1>1, <1>2, <1>3, <1>4, <1>5 DEF CsadStep

LEMMA NextInv ==
  ASSUME Inv, [Next]_vars PROVE Inv'
<1>1. ASSUME NEW p \in Pid, NEW c \in Pid, ForkStep(p, c) PROVE Inv'
  <2>1. 0 \in Status BY ParamsAssumption
  <2> QED BY <1>1, <2>1, KernelInv
<1>2. ASSUME NEW p \in Pid, NEW s \in Status, ExitStep(p, s) PROVE Inv'
  BY <1>2, KernelInv
<1>3. ASSUME NEW p \in Pid, ReapStep(p) PROVE Inv'
  <2>1. 0 \in Status BY ParamsAssumption
  <2> QED BY <1>3, <2>1, KernelInv
<1>4. CASE SubmitStep BY <1>4, SubmitInv
<1>5. CASE RecvNl BY <1>5, RecvNlInv
<1>6. CASE Select BY <1>6, SelectInv
<1>7. CASE AcceptCsa BY <1>7, AcceptCsaInv
<1>8. CASE RecvCsa BY <1>8, RecvCsaInv
<1>9. CASE RecvUnix BY <1>9, RecvUnixInv
<1>10. CASE Stop
  <2>1. Answered(tbl) \in Memory BY OkInv, AnsweredOk DEF Ok
  <2>2. signalled' \subseteq Pid BY <1>10 DEF Stop, Inv, TypeOK, KernelTypeOK
  <2> QED BY <1>10, <2>1, <2>2, DownInv DEF Stop
<1>11. CASE Start
  BY <1>11 DEF Start, Inv, TypeOK, KernelTypeOK, TablesConsistent, SelReady
<1>12. CASE CsadStep BY <1>12, CsadInv
<1>13. CASE UNCHANGED vars
  BY <1>13 DEF vars, kvars, Inv, TypeOK, KernelTypeOK, TablesConsistent, SelReady
<1> QED
  BY <1>1, <1>2, <1>3, <1>4, <1>5, <1>6, <1>7, <1>8, <1>9, <1>10, <1>11, <1>12, <1>13
     DEF Next, JobdStep

(***************************************************************************)
(* The theorems                                                            *)
(***************************************************************************)
(* The invariant holds in every state of every behaviour. *)
THEOREM Invariance == Spec => []Inv
<1>1. Init => Inv BY InitInv
<1>2. Inv /\ [Next]_vars => Inv' BY NextInv
<1> QED BY <1>1, <1>2, PTL DEF Spec

(* jobd's memory, the kernel's queues and the sockets hold what their      *)
(* declarations say: no list of a job ever holds a stranger, no count goes *)
(* out of its range.                                                       *)
THEOREM TypeCorrect == Spec => []TypeOK
<1>1. Inv => TypeOK BY DEF Inv
<1> QED BY <1>1, Invariance, PTL

(* The process table, the job table, the process list of each job and its  *)
(* reference count agree after every handler, so that no handler follows a *)
(* pointer to a freed job and no job outlives its last process.            *)
THEOREM TablesCorrect == Spec => []TablesConsistent
<1>1. Inv => TablesConsistent BY DEF Inv
<1> QED BY <1>1, Invariance, PTL

(***************************************************************************)
(* The wait queues                                                         *)
(***************************************************************************)
(* The memory u after a handler that began with t.  A wait queue stays as  *)
(* it is, or its job ends and every caller on it has its answer.           *)
Kept(t, u, j) ==
  /\ u.job[j].waitq = t.job[j].waitq /\ u.job[j].waitcnt = t.job[j].waitcnt
  /\ j \in t.jobTab => j \in u.jobTab
Ended(t, u, j) ==
  /\ u.job[j].waitq = <<>> /\ u.job[j].waitcnt = 0
  /\ j \notin u.jobTab
  /\ \A c \in ToSet(t.job[j].waitq) : u.answer[c].op = "WAITJID" /\ u.answer[c].jid = j
WaitStep(t, u) == \A j \in Jid : Kept(t, u, j) \/ Ended(t, u, j)

(* The memory u after an assignment that wait queues have no part in.      *)
SameQueues(t, u) ==
  u.jobTab = t.jobTab /\ \A j \in Jid : u.job[j].waitq = t.job[j].waitq /\ u.job[j].waitcnt = t.job[j].waitcnt

Counted(t) == \A j \in Jid : t.job[j].waitcnt = Len(t.job[j].waitq)
NotWaiting(t, c) == \A j \in Jid : c \notin ToSet(t.job[j].waitq)

LEMMA SameThenStep ==
  ASSUME NEW t, NEW u, NEW v, SameQueues(t, u), WaitStep(u, v)
  PROVE  WaitStep(t, v)
BY DEF SameQueues, WaitStep, Kept, Ended

LEMMA StepThenSame ==
  ASSUME NEW t, NEW u, NEW v, WaitStep(t, u), SameQueues(u, v), v.answer = u.answer
  PROVE  WaitStep(t, v)
BY DEF SameQueues, WaitStep, Kept, Ended

LEMMA SameIsStep ==
  ASSUME NEW t, NEW u, SameQueues(t, u)
  PROVE  WaitStep(t, u) /\ (Counted(t) => Counted(u)) /\ \A c : NotWaiting(t, c) => NotWaiting(u, c)
BY DEF SameQueues, WaitStep, Kept, Counted, NotWaiting

LEMMA SameTablesQueues ==
  ASSUME NEW t, NEW u, SameTables(t, u)
  PROVE  SameQueues(t, u)
BY DEF SameTables, SameQueues

(* Another caller's answer does not disturb those of the waiters.          *)
LEMMA AnswerStep ==
  ASSUME NEW t \in Memory, NEW u \in Memory, WaitStep(t, u), NEW c \in Client, NotWaiting(t, c), NEW a
  PROVE  WaitStep(t, [u EXCEPT !.answer[c] = a])
<1> DEFINE v == [u EXCEPT !.answer[c] = a]
<1>1. /\ v.jobTab = u.jobTab /\ v.job = u.job
      /\ \A b \in Client \ {c} : v.answer[b] = u.answer[b]
  BY DEF Memory
<1> HIDE DEF v
<1> SUFFICES ASSUME NEW j \in Jid PROVE Kept(t, v, j) \/ Ended(t, v, j)
  BY DEF WaitStep, v
<1>2. CASE Kept(t, u, j)
  BY <1>1, <1>2 DEF Kept
<1>3. CASE Ended(t, u, j)
  <2>1. t.job[j].waitq \in Seq(Client)
    BY DEF Memory, JobEntry
  <2>2. \A b \in ToSet(t.job[j].waitq) : b \in Client \ {c}
    BY <2>1 DEF NotWaiting, ToSet
  <2> QED
    BY <1>1, <1>3, <2>2 DEF Ended
<1> QED
  BY <1>2, <1>3 DEF WaitStep

LEMMA ReplyStep ==
  ASSUME NEW t \in Memory, NEW u \in Memory, WaitStep(t, u), NEW c \in Client, NotWaiting(t, c),
         NEW op, NEW err, NEW jid, NEW val
  PROVE  WaitStep(t, Reply(u, c, op, err, jid, val))
BY AnswerStep DEF Reply

LEMMA AnswersStep ==
  ASSUME NEW t \in Memory, NEW c \in Client, NotWaiting(t, c), NEW u, Answers(t, u, c)
  PROVE  WaitStep(t, u)
<1>1. WaitStep(t, t)
  BY SameIsStep DEF SameQueues
<1> QED
  BY <1>1, AnswerStep DEF Answers

(***************************************************************************)
(* The pieces of the handlers                                              *)
(***************************************************************************)
(* job_cleanup(): the job that ends answers every caller on its queue.     *)
LEMMA CleanupStep ==
  ASSUME NEW t \in Memory, NEW j \in Jid, t.job[j].waitcnt = Len(t.job[j].waitq)
  PROVE  WaitStep(t, JobCleanup(t, j))
<1>1. CASE t.job[j].refcnt # 0
  <2>1. JobCleanup(t, j) = t
    BY <1>1 DEF JobCleanup
  <2> QED
    BY <2>1 DEF WaitStep, Kept
<1>2. CASE t.job[j].refcnt = 0
  <2> DEFINE u == JobCleanup(t, j)
             a == UnlinkJobFromHash(t, j)
             b == IF a.job[j].waitcnt > 0 THEN ReplyToWaiters(a, j) ELSE a
             d == CSA_jobend(b, j)
  <2>1. u.jobTab = t.jobTab \ {j} /\ u.job = [t.job EXCEPT ![j] = FreeJob]
    BY <1>2, JobCleanupKeeps
  <2>2. a \in Memory /\ a.job = t.job /\ a.answer = t.answer
    <3>1. t.nJobs - 1 \in Int
      BY DEF Memory
    <3> DEFINE n == t.nJobs - 1
    <3>2. a = [t EXCEPT !.jobTab = t.jobTab \ {j}, !.nJobs = n]
      BY DEF UnlinkJobFromHash, Memory
    <3> HIDE DEF a, n
    <3> QED
      BY <3>1, <3>2 DEF Memory, n
  <2> HIDE DEF a
  <2>3. b \in Memory
    BY <2>2, ReplyToWaitersKeeps
  <2>4. \A c \in ToSet(t.job[j].waitq) : b.answer[c].op = "WAITJID" /\ b.answer[c].jid = j
    <3>1. t.job[j].waitq \in Seq(Client) /\ t.job[j].waitcnt \in Int
      BY DEF Memory, JobEntry
    <3>2. CASE t.job[j].waitcnt > 0
      <4>1. b = ReplyToWaiters(a, j)
        BY <2>2, <3>2
      <4> DEFINE ans == [c \in Client |->
                   IF c \in ToSet(a.job[j].waitq)
                   THEN [op |-> "WAITJID", err |-> "OK", jid |-> j,
                         val |-> a.job[j].waitstat, list |-> <<>>]
                   ELSE a.answer[c]]
                 f == [a.job EXCEPT ![j] = DropWaiters(@)]
      <4>2. b.answer = ans
        <5>1. b = [a EXCEPT !.answer = ans, !.job = f]
          BY <2>2, <4>1 DEF ReplyToWaiters, Memory
        <5> HIDE DEF ans, f
        <5> QED
          BY <2>2, <5>1 DEF Memory
      <4>3. ToSet(t.job[j].waitq) \subseteq Client
        BY <3>1 DEF ToSet
      <4> QED
        BY <2>2, <4>2, <4>3
    <3>3. CASE ~(t.job[j].waitcnt > 0)
      <4>1. Len(t.job[j].waitq) = 0
        BY <3>1, <3>3
      <4> QED
        BY <3>1, <4>1, NoElements
    <3> QED
      BY <3>2, <3>3
  <2> HIDE DEF b
  <2>5. d \in Memory /\ d.answer = b.answer
    BY <2>3, JobEventsKeep DEF CSA_jobend, SendCsa, Memory
  <2>6. u = [d EXCEPT !.job[j] = FreeJob]
    BY <1>2 DEF JobCleanup, a, b
  <2> HIDE DEF d, u
  <2>7. u.answer = b.answer
    BY <2>5, <2>6 DEF Memory
  <2>8. u.job[j] = FreeJob /\ \A k \in Jid \ {j} : u.job[k] = t.job[k]
    BY <2>1 DEF Memory
  <2>9. Ended(t, u, j)
    BY <2>1, <2>4, <2>7, <2>8 DEF Ended, FreeJob
  <2>10. \A k \in Jid \ {j} : Kept(t, u, k)
    BY <2>1, <2>8 DEF Kept
  <2> QED
    BY <2>9, <2>10 DEF WaitStep, u
<1> QED
  BY <1>1, <1>2

LEMMA EntryQueues ==
  ASSUME NEW e \in JobEntry, NEW p, NEW status
  PROVE  /\ ProcJoins(e, p).waitq = e.waitq /\ ProcJoins(e, p).waitcnt = e.waitcnt
         /\ ProcLeaves(e, p, status).waitq = e.waitq /\ ProcLeaves(e, p, status).waitcnt = e.waitcnt
         /\ ProcsLeave(e).waitq = e.waitq /\ ProcsLeave(e).waitcnt = e.waitcnt
BY DEF JobEntry, ProcJoins, ProcLeaves, ProcsLeave

LEMMA OneEntryQueues ==
  ASSUME NEW t \in Memory, NEW u, NEW o, NEW f, u.jobTab = t.jobTab, u.job = [t.job EXCEPT ![o] = f],
         o \in Jid => f.waitq = t.job[o].waitq /\ f.waitcnt = t.job[o].waitcnt
  PROVE  SameQueues(t, u)
BY DEF SameQueues, Memory

(* A process joins a job. *)
LEMMA AddQueues ==
  ASSUME NEW t \in Memory, NEW p \in Pid, NEW j \in Jid, NEW u, u = AddProcToJob(t, p, j)
  PROVE  u \in Memory /\ SameQueues(t, u) /\ u.answer = t.answer
<1> DEFINE f == ProcJoins(t.job[j], p)
<1>1. t.job[j] \in JobEntry /\ t.job \in [Jid -> JobEntry] /\ t.proc \in [Pid -> ProcEntry]
  BY DEF Memory
<1>2. u.answer = t.answer
  BY DEF AddProcToJob, Memory
<1>4. f.waitq = t.job[j].waitq /\ f.waitcnt = t.job[j].waitcnt
  BY <1>1, EntryQueues
<1>5. u \in Memory /\ u.jobTab = t.jobTab /\ u.job = [t.job EXCEPT ![j] = f]
  <2> DEFINE a == AddProcToJob(t, p, j)
  <2>1. /\ a \in Memory /\ a.hid = t.hid
        /\ a.jobTab = t.jobTab /\ a.nJobs = t.nJobs /\ a.procTab = t.procTab
        /\ a.job = [t.job EXCEPT ![j] = f]
        /\ a.proc = [t.proc EXCEPT ![p] = [t.proc[p] EXCEPT !.job = j]]
    BY <1>1, AddProcToJobKeeps
  <2> HIDE DEF f
  <2>2. u = a
    OBVIOUS
  <2> HIDE DEF a
  <2> QED
    BY <2>1, <2>2
<1> HIDE DEF f
<1> QED
  BY <1>2, <1>4, <1>5, OneEntryQueues

LEMMA JoinQueues ==
  ASSUME NEW t \in Memory, NEW p \in Pid, NEW j \in Jid, NEW u, u = AddProcToHash(AddProcToJob(t, p, j), p)
  PROVE  SameQueues(t, u) /\ u.answer = t.answer
<1> DEFINE a == AddProcToJob(t, p, j)
<1>1. a \in Memory /\ SameQueues(t, a) /\ a.answer = t.answer
  BY AddQueues
<1>2. u = AddProcToHash(a, p)
  OBVIOUS
<1> HIDE DEF a
<1>3. u.jobTab = a.jobTab /\ u.job = a.job /\ u.answer = a.answer
  BY <1>1, <1>2 DEF AddProcToHash, Memory
<1> QED
  BY <1>1, <1>3 DEF SameQueues

(* A process leaves a job. *)
LEMMA UnlinkQueues ==
  ASSUME NEW t \in Memory, TablesAgree(t), NEW p \in t.procTab, NEW status \in Status,
         NEW t2 \in Memory, t2.jobTab = t.jobTab, t2.nJobs = t.nJobs, t2.proc = t.proc,
         t2.job[t.proc[p].job] = t.job[t.proc[p].job],
         NEW u, u = UnlinkProcFromJob(t2, p, status)
  PROVE  u \in Memory /\ SameQueues(t2, u) /\ u.answer = t2.answer
<1> DEFINE o == t.proc[p].job
           f == LeftBy(t, p, status)
<1>1. u \in Memory /\ u.jobTab = t2.jobTab /\ u.job = [t2.job EXCEPT ![o] = f]
  BY UnlinkProcKeeps
<1>2. t.job[o] \in JobEntry
  BY MemberPlace
<1>3. f.waitq = t.job[o].waitq /\ f.waitcnt = t.job[o].waitcnt
  BY <1>2, EntryQueues DEF LeftBy
<1>4. u.answer = t2.answer
  BY DEF UnlinkProcFromJob, Memory
<1>5. SameQueues(t2, u)
  <2> HIDE DEF f, o
  <2>1. t2.job[o] = t.job[o]
    BY DEF o
  <2> QED
    BY <1>1, <1>3, <2>1, OneEntryQueues
<1> QED
  BY <1>1, <1>4, <1>5

LEMMA DropProcStep ==
  ASSUME NEW t \in Memory, TablesAgree(t), NEW p \in t.procTab, NEW status \in Status, Counted(t)
  PROVE  WaitStep(t, DropProc(t, p, status))
<1> DEFINE o == t.proc[p].job
           a == UnlinkProcFromHash(t, p)
           b == UnlinkProcFromJob(a, p, status)
           d == JobCleanup(b, o)
           u == DropProc(t, p, status)
<1>1. /\ a \in Memory /\ a.jobTab = t.jobTab /\ a.nJobs = t.nJobs /\ a.job = t.job /\ a.proc = t.proc
      /\ SameQueues(t, a)
  BY DEF UnlinkProcFromHash, Memory, SameQueues
<1>2. o \in Jid
  BY MemberPlace
<1> HIDE DEF a
<1>3. b \in Memory /\ SameQueues(a, b)
  <2>1. a.job[t.proc[p].job] = t.job[t.proc[p].job]
    BY <1>1
  <2>2. b = UnlinkProcFromJob(a, p, status)
    OBVIOUS
  <2> HIDE DEF b
  <2> QED
    BY <1>1, <2>1, <2>2, UnlinkQueues
<1>4. u = [d EXCEPT !.proc[p] = FreeProc]
  BY DEF DropProc, a
<1>5. d = JobCleanup(b, o)
  OBVIOUS
<1> HIDE DEF b, d, u
<1>6. SameQueues(t, b) /\ Counted(b)
  BY <1>1, <1>3, SameIsStep DEF SameQueues
<1>7. WaitStep(b, d)
  <2> HIDE DEF o
  <2> QED
    BY <1>2, <1>3, <1>5, <1>6, CleanupStep DEF Counted
<1>8. WaitStep(t, d)
  BY <1>6, <1>7, SameThenStep
<1>9. SameQueues(d, u) /\ u.answer = d.answer
  <2>1. d \in Memory
    <3>1. CASE b.job[o].refcnt # 0
      BY <1>3, <1>5, <3>1 DEF JobCleanup
    <3>2. CASE b.job[o].refcnt = 0
      <4> HIDE DEF o
      <4> QED
        BY <1>2, <1>3, <1>5, <3>2, JobCleanupKeeps
    <3> QED
      BY <3>1, <3>2
  <2> QED
    BY <1>4, <2>1 DEF SameQueues, Memory
<1> QED
  BY <1>8, <1>9, StepThenSame DEF u

(* do_job_detachjid() ends the job with all its processes.                 *)
LEMMA DetachAllStep ==
  ASSUME NEW t \in Memory, TablesAgree(t), NEW j \in t.jobTab, Counted(t)
  PROVE  WaitStep(t, DetachAll(t, j))
<1> DEFINE members == ToSet(t.job[j].proclist)
           e == ProcsLeave(t.job[j])
           procs == [p \in Pid |-> IF p \in members THEN FreeProc ELSE t.proc[p]]
           left == [t EXCEPT !.procTab = t.procTab \ members, !.proc = procs, !.job[j] = e]
<1>1. j \in Jid /\ t.job[j] \in JobEntry
  BY DEF Memory
<1>2. DetachAll(t, j) = JobCleanup(left, j)
  BY DEF DetachAll, Memory
<1>3. e \in JobEntry /\ e.waitq = t.job[j].waitq /\ e.waitcnt = t.job[j].waitcnt
  BY <1>1, ProcsLeaveType, EntryQueues
<1>4. procs \in [Pid -> ProcEntry]
  BY FreeTypes DEF Memory
<1> HIDE DEF procs, e, members
<1>5. left \in Memory /\ left.jobTab = t.jobTab /\ left.job = [t.job EXCEPT ![j] = e]
  BY <1>3, <1>4 DEF Memory
<1> HIDE DEF left
<1>6. SameQueues(t, left)
  BY <1>3, <1>5, OneEntryQueues
<1>7. WaitStep(left, JobCleanup(left, j))
  BY <1>1, <1>5, <1>6, SameIsStep, CleanupStep DEF Counted
<1> QED
  BY <1>2, <1>6, <1>7, SameThenStep
(* do_job_create(): the job the process leaves may end; the new job, which *)
(* nobody waits on yet, is added.                                          *)
LEMMA InstallJobStep ==
  ASSUME NEW t \in Memory, TablesAgree(t), NEW p \in Pid, NEW j \in Jid \ t.jobTab,
         NEW user \in User, Counted(t)
  PROVE  WaitStep(t, InstallJob(t, p, j, user))
<1> DEFINE isNew == p \notin t.procTab
           o == t.proc[p].job
           e == [FreeJob EXCEPT !.user = user]
           fresh == [t EXCEPT !.job[j] = e]
           left == IF isNew THEN fresh ELSE UnlinkProcFromJob(fresh, p, 0)
           joined == AddProcToJob(left, p, j)
           cleaned == IF isNew THEN AddProcToHash(joined, p) ELSE JobCleanup(joined, o)
           added == AddJobToHash(cleaned, j)
<1>1. InstallJob(t, p, j, user) = CSA_jobstart(added, j)
  BY DEF InstallJob
<1>2. t.job[j] = FreeJob
  BY DEF TablesAgree, FreedEntries
<1>3. e \in JobEntry /\ e.waitq = t.job[j].waitq /\ e.waitcnt = t.job[j].waitcnt
  <2>1. FreeJob \in JobEntry
    BY FreeTypes
  <2> QED
    BY <1>2, <2>1 DEF FreeJob, JobEntry
<1> HIDE DEF e
<1>4. /\ fresh \in Memory /\ fresh.jobTab = t.jobTab /\ fresh.nJobs = t.nJobs /\ fresh.proc = t.proc
      /\ fresh.procTab = t.procTab /\ fresh.job = [t.job EXCEPT ![j] = e]
  BY <1>3 DEF Memory
<1> HIDE DEF fresh
<1>5. SameQueues(t, fresh)
  BY <1>3, <1>4, OneEntryQueues
<1>6. left \in Memory /\ SameQueues(fresh, left)
  <2>1. CASE isNew
    BY <1>4, <2>1 DEF SameQueues
  <2>2. CASE ~isNew
    <3>1. 0 \in Status /\ p \in t.procTab
      BY <2>2, ParamsAssumption
    <3>2. t.proc[p].job \in t.jobTab /\ t.proc[p].job \in Jid
      BY <3>1, MemberPlace
    <3>3. fresh.job[t.proc[p].job] = t.job[t.proc[p].job]
      BY <1>4, <3>2 DEF Memory
    <3>4. PICK s \in Status : s = 0
      BY <3>1
    <3>5. left = UnlinkProcFromJob(fresh, p, s)
      BY <2>2, <3>4
    <3> HIDE DEF left
    <3> QED
      BY <1>4, <3>1, <3>3, <3>5, UnlinkQueues
  <2> QED
    BY <2>1, <2>2
<1> HIDE DEF left
<1>7. joined \in Memory /\ SameQueues(left, joined)
  BY <1>6, AddQueues
<1> HIDE DEF joined
<1>8. SameQueues(t, joined) /\ Counted(joined)
  <2>1. SameQueues(t, joined)
    BY <1>5, <1>6, <1>7 DEF SameQueues
  <2> QED
    BY <2>1, SameIsStep
<1>9. cleaned \in Memory /\ WaitStep(joined, cleaned)
  <2>1. CASE isNew
    <3>1. cleaned \in Memory /\ SameQueues(joined, cleaned)
      BY <1>7, <2>1 DEF AddProcToHash, SameQueues, Memory
    <3> QED
      BY <3>1, SameIsStep
  <2>2. CASE ~isNew
    <3>1. o \in Jid
      BY <2>2, MemberPlace
    <3>2. cleaned = JobCleanup(joined, o)
      BY <2>2
    <3> HIDE DEF cleaned, o
    <3>3. WaitStep(joined, cleaned)
      BY <1>7, <1>8, <3>1, <3>2, CleanupStep DEF Counted
    <3>4. CASE joined.job[o].refcnt # 0
      BY <1>7, <3>2, <3>3, <3>4 DEF JobCleanup
    <3>5. CASE joined.job[o].refcnt = 0
      BY <1>7, <3>1, <3>2, <3>3, <3>5, JobCleanupKeeps
    <3> QED
      BY <3>4, <3>5
  <2> QED
    BY <2>1, <2>2
<1> HIDE DEF cleaned
<1>10. added \in Memory /\ added.jobTab = cleaned.jobTab \cup {j} /\ added.job = cleaned.job /\ added.answer = cleaned.answer
  <2>1. added \in Memory /\ added.jobTab = cleaned.jobTab \cup {j} /\ added.job = cleaned.job
    BY <1>9, AddJobToHashKeeps, Zenon
  <2>2. added.answer = cleaned.answer
    BY <1>9 DEF AddJobToHash, Memory
  <2> QED
    BY <2>1, <2>2
<1> HIDE DEF added
<1>11. WaitStep(t, cleaned)
  BY <1>8, <1>9, SameThenStep
<1>12. WaitStep(t, added)
  <2> SUFFICES ASSUME NEW k \in Jid PROVE Kept(t, added, k) \/ Ended(t, added, k)
    BY DEF WaitStep
  <2>1. CASE k = j
    <3>1. t.job[k].waitq = <<>> /\ t.job[k].waitcnt = 0
      BY <1>2, <2>1 DEF FreeJob
    <3>2. added.job[k].waitq = <<>> /\ added.job[k].waitcnt = 0
      BY <1>10, <1>11, <3>1 DEF WaitStep, Kept, Ended
    <3> QED
      BY <2>1, <3>1, <3>2 DEF Kept
  <2>2. CASE k # j
    BY <1>10, <1>11, <2>2 DEF WaitStep, Kept, Ended
  <2> QED
    BY <2>1, <2>2
<1>13. SameQueues(added, CSA_jobstart(added, j)) /\ CSA_jobstart(added, j).answer = added.answer
  <2>1. CSA_jobstart(added, j).answer = added.answer
    BY <1>10 DEF CSA_jobstart, SendCsa, Memory
  <2> QED
    BY <1>10, <2>1, JobEventsKeep, SameTablesQueues
<1> QED
  BY <1>1, <1>12, <1>13, StepThenSame

(***************************************************************************)
(* The events                                                              *)
(***************************************************************************)
LEMMA ExitHandlerStep ==
  ASSUME NEW t \in Memory, TablesAgree(t), NEW p \in Pid, NEW status \in Status, Counted(t)
  PROVE  WaitStep(t, ExitHandler(t, p, status))
<1>1. CASE p \in t.procTab
  BY <1>1, DropProcStep DEF ExitHandler
<1>2. CASE p \notin t.procTab
  BY <1>2, SameIsStep DEF ExitHandler, SameQueues
<1> QED
  BY <1>1, <1>2

LEMMA ForkHandlerStep ==
  ASSUME NEW t \in Memory, TablesAgree(t), NEW parent \in Pid, NEW child \in Pid \ {parent}, Counted(t)
  PROVE  WaitStep(t, ForkHandler(t, parent, child))
<1> DEFINE j == t.proc[parent].job
           ignored == parent \notin t.procTab \/ (child \in t.procTab /\ ~t.proc[child].exited)
           closed == IF child \in t.procTab THEN ExitHandler(t, child, t.proc[child].saved) ELSE t
           u == AddProcToHash(AddProcToJob(closed, child, j), child)
<1>1. CASE ignored
  BY <1>1, SameIsStep DEF ForkHandler, SameQueues
<1>2. CASE ~ignored
  <2>1. ForkHandler(t, parent, child) = u
    BY <1>2 DEF ForkHandler
  <2>2. j \in Jid
    BY <1>2, MemberPlace
  <2>3. t.proc[child].saved \in Status
    BY DEF Memory, ProcEntry
  <2>4. closed \in Memory /\ WaitStep(t, closed)
    <3>1. CASE child \in t.procTab
      BY <2>3, <3>1, ExitHandlerAgrees, ExitHandlerStep
    <3>2. CASE child \notin t.procTab
      BY <3>2, SameIsStep DEF SameQueues
    <3> QED
      BY <3>1, <3>2
  <2> HIDE DEF closed, j
  <2>5. SameQueues(closed, u) /\ u.answer = closed.answer
    BY <2>2, <2>4, JoinQueues
  <2> HIDE DEF u
  <2> QED
    BY <2>1, <2>4, <2>5, StepThenSame
<1> QED
  BY <1>1, <1>2

LEMMA ExitEventHandlerStep ==
  ASSUME NEW t \in Memory, TablesAgree(t), NEW p \in Pid, NEW status \in Status, Counted(t)
  PROVE  WaitStep(t, ExitEventHandler(t, p, status))
<1> DEFINE noted == Noted(t, p, status)
<1>1. ExitEventHandler(t, p, status) = IF t.csaActive THEN noted ELSE ExitHandler(noted, p, status)
  BY DEF ExitEventHandler, Noted
<1>2. noted \in Memory /\ TablesAgree(noted) /\ SameQueues(t, noted)
  BY NotedAgrees DEF SameQueues
<1> HIDE DEF noted
<1>3. WaitStep(t, noted) /\ Counted(noted)
  BY <1>2, SameIsStep
<1>4. WaitStep(noted, ExitHandler(noted, p, status))
  BY <1>2, <1>3, ExitHandlerStep
<1> QED
  BY <1>1, <1>2, <1>3, <1>4, SameThenStep

(***************************************************************************)
(* The requests                                                            *)
(***************************************************************************)
LEMMA JobCreateStep ==
  ASSUME NEW t, Ok(t), t.hid # DISABLED, Counted(t), NEW c \in Client, NotWaiting(t, c), NEW exist,
         NEW r, r.pid \in Pid, r.jid \in Jid \cup {NoJid}, r.user \in User
  PROVE  WaitStep(t, JobCreate(t, c, r, exist))
<1> DEFINE err == CreateError(t, c, r, exist)
<1>1. CASE err = "OK"
  <2> DEFINE j == NewJid(t, r)
             a == InstallJob(t, r.pid, j, r.user)
             n == NewCount(t, r)
             b == [a EXCEPT !.count = n]
  <2>1. ~ JidRefused(t, r)
    BY <1>1 DEF CreateError
  <2>2. j \in Jid \ t.jobTab /\ n \in 0 .. (SidCount - 1)
    BY <2>1, NewJidType DEF Ok
  <2>3. JobCreate(t, c, r, exist) = Reply(b, c, "CREATE", "OK", j, 0)
    BY <1>1 DEF JobCreate
  <2> HIDE DEF j, n
  <2>4. a \in Memory /\ WaitStep(t, a)
    BY <2>2, InstallJobAgrees, InstallJobStep DEF Ok
  <2> HIDE DEF a
  <2>5. b \in Memory /\ SameQueues(a, b) /\ b.answer = a.answer
    BY <2>2, <2>4 DEF Memory, SameQueues
  <2> HIDE DEF b
  <2>6. WaitStep(t, b)
    BY <2>4, <2>5, StepThenSame
  <2> QED
    BY <2>3, <2>5, <2>6, ReplyStep DEF Ok
<1>2. CASE err # "OK"
  <2>1. Answers(t, JobCreate(t, c, r, exist), c)
    BY <1>2, RepliesAnswer DEF JobCreate
  <2> QED
    BY <2>1, AnswersStep DEF Ok
<1> QED
  BY <1>1, <1>2

(* A caller that asks to wait is refused, or joins one queue. *)
Joined(t, u, c, j) ==
  /\ j \in t.jobTab /\ u.jobTab = t.jobTab
  /\ u.job[j].waitq = Append(t.job[j].waitq, c) /\ u.job[j].waitcnt = t.job[j].waitcnt + 1
  /\ \A k \in Jid \ {j} : u.job[k] = t.job[k]

LEMMA WaitJidStep ==
  ASSUME NEW t \in Memory, NEW c \in Client, NotWaiting(t, c), NEW r, NEW u, u = WaitJid(t, c, r)
  PROVE  WaitStep(t, u) \/ \E j \in Jid : Joined(t, u, c, j)
<1>1. CASE r.options # 0 \/ r.jid \notin t.jobTab
  <2>1. Answers(t, u, c)
    BY <1>1, RepliesAnswer DEF WaitJid
  <2> QED
    BY <2>1, AnswersStep
<1>2. CASE r.options = 0 /\ r.jid \in t.jobTab
  <2> DEFINE j == r.jid
             e == t.job[j]
             f == WaiterJoins(e, c)
  <2>1. j \in Jid /\ e \in JobEntry
    BY <1>2 DEF Memory
  <2>2. u = [t EXCEPT !.job[j] = f]
    BY <1>2 DEF WaitJid, Memory
  <2>3. f.waitq = Append(e.waitq, c) /\ f.waitcnt = e.waitcnt + 1
    BY <2>1 DEF WaiterJoins, JobEntry
  <2> HIDE DEF f
  <2>4. u.jobTab = t.jobTab /\ u.job[j] = f /\ \A k \in Jid \ {j} : u.job[k] = t.job[k]
    BY <2>1, <2>2 DEF Memory
  <2> QED
    BY <1>2, <2>1, <2>3, <2>4 DEF Joined
<1> QED
  BY <1>1, <1>2

LEMMA DetachJidStep ==
  ASSUME NEW t, Ok(t), Counted(t), NEW c \in Client, NotWaiting(t, c), NEW r
  PROVE  WaitStep(t, DetachJid(t, c, r))
<1>1. CASE c \in Priv /\ r.jid \in t.jobTab
  <2>1. DetachAll(t, r.jid) \in Memory /\ WaitStep(t, DetachAll(t, r.jid))
    BY <1>1, DetachAllAgrees, DetachAllStep DEF Ok
  <2>2. DetachJid(t, c, r) = Reply(DetachAll(t, r.jid), c, "DETACHJID", "OK", NoJid, t.job[r.jid].refcnt)
    BY <1>1 DEF DetachJid
  <2> QED
    BY <2>1, <2>2, ReplyStep DEF Ok
<1>2. CASE ~(c \in Priv /\ r.jid \in t.jobTab)
  <2>1. Answers(t, DetachJid(t, c, r), c)
    BY <1>2, RepliesAnswer DEF DetachJid
  <2> QED
    BY <2>1, AnswersStep DEF Ok
<1> QED
  BY <1>1, <1>2

LEMMA DetachPidStep ==
  ASSUME NEW t, Ok(t), Counted(t), NEW c \in Client, NotWaiting(t, c), NEW r
  PROVE  WaitStep(t, DetachPid(t, c, r))
<1>1. CASE c \in Priv /\ r.pid \in t.procTab
  <2>1. 0 \in Status
    BY ParamsAssumption
  <2>2. DropProc(t, r.pid, 0) \in Memory /\ WaitStep(t, DropProc(t, r.pid, 0))
    BY <1>1, <2>1, DropProcAgrees, DropProcStep DEF Ok
  <2>3. DetachPid(t, c, r) = Reply(DropProc(t, r.pid, 0), c, "DETACHPID", "OK", t.proc[r.pid].job, 0)
    BY <1>1 DEF DetachPid
  <2> QED
    BY <2>2, <2>3, ReplyStep DEF Ok
<1>2. CASE ~(c \in Priv /\ r.pid \in t.procTab)
  <2>1. Answers(t, DetachPid(t, c, r), c)
    BY <1>2, RepliesAnswer DEF DetachPid
  <2> QED
    BY <2>1, AnswersStep DEF Ok
<1> QED
  BY <1>1, <1>2

LEMMA AttachPidStep ==
  ASSUME NEW t, Ok(t), NEW c \in Client, NotWaiting(t, c), NEW exist, NEW r, r.pid \in Pid
  PROVE  WaitStep(t, AttachPid(t, c, r, exist))
<1>1. CASE AttachError(t, c, r, exist) = "OK"
  <2> DEFINE u == AddProcToHash(AddProcToJob(t, r.pid, r.jid), r.pid)
  <2>1. r.jid \in t.jobTab /\ r.pid \in Pid \ t.procTab
    BY <1>1 DEF AttachError
  <2>2. AttachPid(t, c, r, exist) = Reply(u, c, "ATTACHPID", "OK", r.jid, 0)
    BY <1>1 DEF AttachPid
  <2>3. r.jid \in Jid
    BY <2>1 DEF Ok, Memory
  <2>4. u \in Memory /\ SameQueues(t, u)
    BY <2>1, <2>3, JoinAgrees, JoinQueues DEF Ok
  <2> HIDE DEF u
  <2> QED
    BY <2>2, <2>4, SameIsStep, ReplyStep DEF Ok
<1>2. CASE AttachError(t, c, r, exist) # "OK"
  <2>1. Answers(t, AttachPid(t, c, r, exist), c)
    BY <1>2, RepliesAnswer DEF AttachPid
  <2> QED
    BY <2>1, AnswersStep DEF Ok
<1> QED
  BY <1>1, <1>2

LEMMA SetHidStep ==
  ASSUME NEW t \in Memory, NEW c \in Client, NotWaiting(t, c), NEW r, r.hid \in Hid \cup {DISABLED}
  PROVE  WaitStep(t, SetHid(t, c, r))
<1>1. CASE c \in Priv
  <2> DEFINE u == [t EXCEPT !.hid = r.hid]
  <2>1. u \in Memory /\ SameQueues(t, u)
    BY DEF Memory, SameQueues
  <2>2. SetHid(t, c, r) = Reply(u, c, "SETHID", "OK", NoJid, r.hid)
    BY <1>1 DEF SetHid
  <2> HIDE DEF u
  <2> QED
    BY <2>1, <2>2, SameIsStep, ReplyStep
<1>2. CASE c \notin Priv
  <2>1. Answers(t, SetHid(t, c, r), c)
    BY <1>2, RepliesAnswer DEF SetHid
  <2> QED
    BY <2>1, AnswersStep
<1> QED
  BY <1>1, <1>2

(* process_mesg(): but for a caller that comes to wait, the queues stay as *)
(* they are or end with their jobs.                                        *)
LEMMA ProcessMesgStep ==
  ASSUME NEW t, Ok(t), t.hid # DISABLED, Counted(t), NEW c \in Client, NotWaiting(t, c),
         NEW r \in Request, NEW exist, NEW u, u = ProcessMesg(t, c, r, exist)
  PROVE  WaitStep(t, u) \/ \E j \in Jid : Joined(t, u, c, j)
<1> t \in Memory
  BY DEF Ok
<1>1. CASE r.op = "CREATE"
  <2>1. r.pid \in Pid /\ r.jid \in Jid \cup {NoJid} /\ r.user \in User
    BY <1>1 DEF Request
  <2> QED
    BY <1>1, <2>1, JobCreateStep DEF ProcessMesg
<1>2. CASE r.op = "WAITJID"
  <2>1. u = WaitJid(t, c, r)
    BY <1>2 DEF ProcessMesg
  <2> QED
    BY <2>1, WaitJidStep
<1>3. CASE r.op = "DETACHJID"
  BY <1>3, DetachJidStep DEF ProcessMesg
<1>4. CASE r.op = "DETACHPID"
  BY <1>4, DetachPidStep DEF ProcessMesg
<1>5. CASE r.op = "ATTACHPID"
  <2>1. r.pid \in Pid
    BY <1>5 DEF Request
  <2> QED
    BY <1>5, <2>1, AttachPidStep DEF ProcessMesg
<1>6. CASE r.op = "SETHID"
  <2>1. r.hid \in Hid \cup {DISABLED}
    BY <1>6 DEF Request
  <2> QED
    BY <1>6, <2>1, SetHidStep DEF ProcessMesg
<1>7. CASE r.op \in {"KILLJID", "GETJID", "GETJIDCNT", "GETJIDLST", "GETPIDCNT", "GETPIDLST", "GETUSER",
                     "GETPRIMEPID"}
  <2>1. Answers(t, u, c)
    BY <1>7, QueriesAnswer DEF ProcessMesg
  <2> QED
    BY <2>1, AnswersStep
<1>8. r.op \in Op
  BY DEF Request, Op
<1> QED
  BY <1>1, <1>2, <1>3, <1>4, <1>5, <1>6, <1>7, <1>8 DEF Op

(***************************************************************************)
(* The invariant                                                           *)
(***************************************************************************)
(* Nobody is on a queue twice, or on two queues. *)
Once(t) ==
  /\ \A j \in Jid : \A h, i \in DOMAIN t.job[j].waitq :
       t.job[j].waitq[h] = t.job[j].waitq[i] => h = i
  /\ \A j, k \in Jid : \A c \in ToSet(t.job[j].waitq) : c \in ToSet(t.job[k].waitq) => j = k

(* A caller has at most one request on the local socket, and none while it *)
(* waits for a job.                                                        *)
OneRequest ==
  /\ \A h, i \in DOMAIN reqq : reqq[h].c = reqq[i].c => h = i
  /\ \A i \in DOMAIN reqq : NotWaiting(tbl, reqq[i].c)

(* WaitersConsistent is not inductive by itself: the queues of the entries *)
(* that no table holds must be empty, and a caller that comes to wait must *)
(* not have a second request behind the one it is heard on.                *)
WaitInv == Inv /\ Counted(tbl) /\ Once(tbl) /\ OneRequest

LEMMA EmptyQueue == ToSet(<<>>) = {} /\ DOMAIN <<>> = {}
<1>1. DOMAIN <<>> = {}
  OBVIOUS
<1> QED
  BY <1>1 DEF ToSet

LEMMA StepWaits ==
  ASSUME NEW t, NEW u, WaitStep(t, u), Counted(t), Once(t)
  PROVE  Counted(u) /\ Once(u) /\ \A c : NotWaiting(t, c) => NotWaiting(u, c)
<1>1. \A j \in Jid : u.job[j].waitq \in {t.job[j].waitq, <<>>} /\ u.job[j].waitcnt = Len(u.job[j].waitq)
  <2> SUFFICES ASSUME NEW j \in Jid
               PROVE  u.job[j].waitq \in {t.job[j].waitq, <<>>} /\ u.job[j].waitcnt = Len(u.job[j].waitq)
    OBVIOUS
  <2>1. CASE Kept(t, u, j)
    BY <2>1 DEF Kept, Counted
  <2>2. CASE Ended(t, u, j)
    <3>1. Len(<<>>) = 0
      OBVIOUS
    <3> QED
      BY <2>2, <3>1 DEF Ended
  <2> QED
    BY <2>1, <2>2 DEF WaitStep
<1>2. \A j \in Jid : ToSet(u.job[j].waitq) \subseteq ToSet(t.job[j].waitq)
  BY <1>1, EmptyQueue
<1>3. Once(u)
  <2>1. ASSUME NEW j \in Jid, NEW h \in DOMAIN u.job[j].waitq, NEW i \in DOMAIN u.job[j].waitq,
               u.job[j].waitq[h] = u.job[j].waitq[i]
        PROVE  h = i
    <3>1. u.job[j].waitq = t.job[j].waitq
      BY <1>1, EmptyQueue
    <3> QED
      BY <2>1, <3>1 DEF Once
  <2>2. ASSUME NEW j \in Jid, NEW k \in Jid, NEW c \in ToSet(u.job[j].waitq), c \in ToSet(u.job[k].waitq)
        PROVE  j = k
    BY <1>2, <2>2 DEF Once
  <2> QED
    BY <2>1, <2>2 DEF Once
<1> QED
  BY <1>1, <1>2, <1>3 DEF Counted, NotWaiting

LEMMA AppendPlaces ==
  ASSUME NEW S, NEW s \in Seq(S), NEW x \in S, NEW q, q = Append(s, x)
  PROVE  /\ Len(q) = Len(s) + 1 /\ Len(s) + 1 \in DOMAIN q /\ q[Len(s) + 1] = x
         /\ \A i \in DOMAIN q : i \in DOMAIN s \/ i = Len(s) + 1
         /\ \A i \in DOMAIN s : i \in DOMAIN q /\ q[i] = s[i]
<1>1. /\ Len(q) = Len(s) + 1 /\ q[Len(s) + 1] = x
      /\ \A i \in 1 .. Len(s) : q[i] = s[i]
  BY AppendProperties
<1>2. DOMAIN q = 1 .. (Len(s) + 1) /\ DOMAIN s = 1 .. Len(s) /\ Len(s) \in Nat
  BY <1>1
<1> QED
  BY <1>1, <1>2

LEMMA AppendElements ==
  ASSUME NEW S, NEW s \in Seq(S), NEW x \in S, NEW q, q = Append(s, x)
  PROVE  Len(q) = Len(s) + 1 /\ ToSet(q) = ToSet(s) \cup {x}
BY AppendPlaces DEF ToSet

LEMMA AppendDistinct ==
  ASSUME NEW S, NEW s \in Seq(S), NEW x \in S, NEW q, q = Append(s, x), x \notin ToSet(s),
         \A h, i \in DOMAIN s : s[h] = s[i] => h = i
  PROVE  \A h, i \in DOMAIN q : q[h] = q[i] => h = i
<1> SUFFICES ASSUME NEW h \in DOMAIN q, NEW i \in DOMAIN q, q[h] = q[i]
             PROVE  h = i
  OBVIOUS
<1>1. /\ q[Len(s) + 1] = x
      /\ \A k \in DOMAIN q : k \in DOMAIN s \/ k = Len(s) + 1
      /\ \A k \in DOMAIN s : q[k] = s[k]
  BY AppendPlaces
<1>2. \A k \in DOMAIN s : s[k] # x
  BY DEF ToSet
<1> QED
  BY <1>1, <1>2

LEMMA JoinedWaits ==
  ASSUME NEW t \in Memory, Counted(t), Once(t), NEW c \in Client, NotWaiting(t, c),
         NEW u, NEW j \in Jid, Joined(t, u, c, j)
  PROVE  Counted(u) /\ Once(u) /\ \A b : b # c /\ NotWaiting(t, b) => NotWaiting(u, b)
<1> DEFINE s == t.job[j].waitq
           q == u.job[j].waitq
<1>1. s \in Seq(Client) /\ q = Append(s, c)
  BY DEF Memory, JobEntry, Joined
<1>2. \A h, i \in DOMAIN s : s[h] = s[i] => h = i
  BY DEF Once
<1>3. c \notin ToSet(s)
  BY DEF NotWaiting
<1>4. \A k \in Jid \ {j} : u.job[k].waitq = t.job[k].waitq /\ u.job[k].waitcnt = t.job[k].waitcnt
  BY DEF Joined
<1>5. u.job[j].waitcnt = Len(s) + 1
  BY DEF Joined, Counted
<1> HIDE DEF s, q
<1>6. /\ Len(q) = Len(s) + 1 /\ ToSet(q) = ToSet(s) \cup {c}
      /\ \A h, i \in DOMAIN q : q[h] = q[i] => h = i
  <2>1. Len(q) = Len(s) + 1 /\ ToSet(q) = ToSet(s) \cup {c}
    BY <1>1, AppendElements
  <2>2. \A h, i \in DOMAIN q : q[h] = q[i] => h = i
    BY <1>1, <1>2, <1>3, AppendDistinct
  <2> QED
    BY <2>1, <2>2
<1>7. Counted(u)
  BY <1>4, <1>5, <1>6 DEF Counted, q
<1>8. \A k \in Jid : \A b \in ToSet(u.job[k].waitq) : b \in ToSet(t.job[k].waitq) \/ (b = c /\ k = j)
  BY <1>4, <1>6 DEF s, q
<1>9. Once(u)
  <2>1. ASSUME NEW k \in Jid, NEW h \in DOMAIN u.job[k].waitq, NEW i \in DOMAIN u.job[k].waitq,
               u.job[k].waitq[h] = u.job[k].waitq[i]
        PROVE  h = i
    <3>1. CASE k = j
      BY <1>6, <2>1, <3>1 DEF q
    <3>2. CASE k # j
      BY <1>4, <2>1, <3>2 DEF Once
    <3> QED
      BY <3>1, <3>2
  <2>2. ASSUME NEW k \in Jid, NEW m \in Jid, NEW b \in ToSet(u.job[k].waitq), b \in ToSet(u.job[m].waitq)
        PROVE  k = m
    <3>1. CASE b = c
      BY <1>8, <2>2, <3>1 DEF NotWaiting
    <3>2. CASE b # c
      BY <1>8, <2>2, <3>2 DEF Once
    <3> QED
      BY <3>1, <3>2
  <2> QED
    BY <2>1, <2>2 DEF Once
<1> QED
  BY <1>7, <1>8, <1>9 DEF NotWaiting

LEMMA JoinedStay ==
  ASSUME NEW t \in Memory, NEW c \in Client, NEW u, NEW k \in Jid, Joined(t, u, c, k),
         NEW j \in Jid, NEW b \in ToSet(t.job[j].waitq)
  PROVE  b \in ToSet(u.job[j].waitq)
<1>1. CASE k = j
  <2> DEFINE s == t.job[j].waitq
             q == u.job[j].waitq
  <2>1. s \in Seq(Client) /\ q = Append(s, c)
    BY <1>1 DEF Memory, JobEntry, Joined
  <2> HIDE DEF s, q
  <2>2. Len(q) = Len(s) + 1 /\ ToSet(q) = ToSet(s) \cup {c}
    BY <2>1, AppendElements
  <2> QED
    BY <2>2 DEF s, q
<1>2. CASE k # j
  BY <1>2 DEF Joined
<1> QED
  BY <1>1, <1>2

(* Entries that no table holds have no queue. *)
LEMMA QueueInTable ==
  ASSUME NEW t, Ok(t), NEW j \in Jid, NEW c \in ToSet(t.job[j].waitq)
  PROVE  j \in t.jobTab
<1> SUFFICES ASSUME j \notin t.jobTab PROVE FALSE
  OBVIOUS
<1>1. t.job[j].waitq = <<>>
  BY DEF Ok, TablesAgree, FreedEntries, FreeJob
<1> QED
  BY <1>1, EmptyQueue

LEMMA WaitingIs ==
  ASSUME Ok(tbl), NEW c
  PROVE  Waiting(c) <=> ~NotWaiting(tbl, c)
<1>1. tbl.jobTab \subseteq Jid
  BY DEF Ok, Memory
<1> QED
  BY <1>1, QueueInTable DEF Waiting, NotWaiting

(***************************************************************************)
(* The steps                                                               *)
(***************************************************************************)
(* What a step of the system does to the wait queues and to the requests. *)
NoNewWaiter ==
  /\ WaitStep(tbl, tbl')
  /\ reqq' = reqq \/ (reqq # <<>> /\ reqq' = Tail(reqq))
WaiterComes ==
  /\ reqq # <<>> /\ reqq' = Tail(reqq)
  /\ \E j \in Jid : Joined(tbl, tbl', Head(reqq).c, j)
GoesDown == ~cnOn' /\ reqq' = <<>> /\ \A j \in Jid : tbl'.job[j] = FreeJob

LEMMA SameJobsQuiet ==
  ASSUME tbl'.jobTab = tbl.jobTab, tbl'.job = tbl.job, reqq' = reqq
  PROVE  NoNewWaiter
BY SameIsStep DEF SameQueues, NoNewWaiter

LEMMA DownGoes ==
  ASSUME NEW t, NEW callers, Down(t, callers)
  PROVE  GoesDown
<1>1. tbl'.job = [j \in Jid |-> FreeJob] /\ cnOn' = FALSE /\ reqq' = <<>>
  BY DEF Down, InitMemory
<1> QED
  BY <1>1 DEF GoesDown

LEMMA AnsweredQueues ==
  ASSUME NEW t \in Memory
  PROVE  Answered(t).jobTab = t.jobTab /\ Answered(t).job = t.job
BY DEF Answered, Memory

LEMMA RecvNlQuiet ==
  ASSUME WaitInv, RecvNl
  PROVE  NoNewWaiter
<1> DEFINE e == Head(nlq)
           t == Answered(tbl)
<1>1. nlq \in Seq(Event) /\ nlq # <<>>
  BY DEF WaitInv, Inv, TypeOK, KernelTypeOK, RecvNl
<1>2. e \in Event
  BY <1>1, HeadTail
<1>3. e.pid \in Pid /\ e.parent \in Pid /\ e.status \in Status /\ (e.what = "FORK" => e.pid # e.parent)
  BY <1>2 DEF Event
<1>4. t \in Memory /\ TablesAgree(t) /\ SameQueues(tbl, t)
  BY OkInv, AnsweredOk, AnsweredQueues DEF WaitInv, Ok, SameQueues
<1>5. tbl' = IF e.what = "FORK" THEN ForkHandler(t, e.parent, e.pid)
             ELSE ExitEventHandler(t, e.pid, e.status)
  BY DEF RecvNl
<1> HIDE DEF e, t
<1>6. Counted(t)
  BY <1>4, SameIsStep DEF WaitInv
<1>7. WaitStep(t, tbl')
  <2>1. CASE e.what = "FORK"
    <3>1. e.pid \in Pid \ {e.parent}
      BY <1>3, <2>1
    <3> QED
      BY <1>3, <1>4, <1>5, <1>6, <2>1, <3>1, ForkHandlerStep
  <2>2. CASE e.what # "FORK"
    BY <1>3, <1>4, <1>5, <1>6, <2>2, ExitEventHandlerStep
  <2> QED
    BY <2>1, <2>2
<1>8. WaitStep(tbl, tbl')
  BY <1>4, <1>7, SameThenStep
<1> QED
  BY <1>8 DEF NoNewWaiter, RecvNl

LEMMA RecvCsaQuiet ==
  ASSUME WaitInv, RecvCsa
  PROVE  NoNewWaiter
<1> DEFINE m == Head(fromCsa)
<1>1. fromCsa \in Seq(CsaItem) /\ fromCsa # <<>>
  BY DEF WaitInv, Inv, TypeOK, SelReady, RecvCsa
<1>2. m \in CsaItem
  BY <1>1, HeadTail
<1>3. m.what = "NOTICE" => m.pid \in Pid /\ m.status \in Status
  BY <1>2 DEF CsaItem, CONNECT, EOF
<1>4. tbl' = IF m.what = "NOTICE" THEN ExitHandler(tbl, m.pid, m.status)
             ELSE [tbl EXCEPT !.csaActive = FALSE]
  BY DEF RecvCsa
<1> HIDE DEF m
<1>5. Ok(tbl) /\ Counted(tbl)
  BY OkInv DEF WaitInv
<1>6. WaitStep(tbl, tbl')
  <2>1. CASE m.what = "NOTICE"
    BY <1>3, <1>4, <1>5, <2>1, ExitHandlerStep DEF Ok
  <2>2. CASE m.what # "NOTICE"
    <3>1. SameQueues(tbl, tbl')
      BY <1>4, <1>5, <2>2 DEF Ok, Memory, SameQueues
    <3> QED
      BY <3>1, SameIsStep
  <2> QED
    BY <2>1, <2>2
<1> QED
  BY <1>6 DEF NoNewWaiter, RecvCsa

LEMMA RecvUnixWaits ==
  ASSUME WaitInv, RecvUnix
  PROVE  NoNewWaiter \/ WaiterComes \/ GoesDown
<1> DEFINE c == Head(reqq).c
           r == Head(reqq).r
           done == ProcessMesg(tbl, c, r, Existing)
           callers == {b \in Client \ {c} : Waiting(b) \/ Queued(b)}
<1>1. reqq \in Seq([c : Client, r : Request]) /\ reqq # <<>>
  BY DEF WaitInv, Inv, TypeOK, SelReady, RecvUnix
<1>2. Head(reqq) \in [c : Client, r : Request]
  BY <1>1, HeadTail
<1>3. c \in Client /\ r \in Request
  BY <1>2
<1>4. IF done.hid = DISABLED THEN Down(done, callers)
      ELSE tbl' = done /\ reqq' = Tail(reqq)
  BY DEF RecvUnix
<1>5. NotWaiting(tbl, c)
  <2>1. 1 \in DOMAIN reqq /\ reqq[1] = Head(reqq)
    BY <1>1
  <2> QED
    BY <2>1 DEF WaitInv, OneRequest
<1>6. Ok(tbl) /\ tbl.hid # DISABLED /\ Counted(tbl)
  BY OkInv DEF WaitInv
<1> HIDE DEF r, callers
<1>7. CASE done.hid = DISABLED
  BY <1>4, <1>7, DownGoes
<1>8. CASE done.hid # DISABLED
  <2>1. tbl' = done /\ reqq' = Tail(reqq)
    BY <1>4, <1>8
  <2> HIDE DEF c
  <2>2. WaitStep(tbl, done) \/ \E j \in Jid : Joined(tbl, done, c, j)
    BY <1>3, <1>5, <1>6, ProcessMesgStep
  <2> HIDE DEF done
  <2> QED
    BY <1>1, <2>1, <2>2 DEF NoNewWaiter, WaiterComes, c
<1> QED
  BY <1>7, <1>8

LEMMA OtherStepsQuiet ==
  ASSUME WaitInv,
         \/ Select \/ AcceptCsa \/ Start \/ CsadStep \/ UNCHANGED vars
         \/ \E p, c \in Pid : ForkStep(p, c)
         \/ \E p \in Pid, s \in Status : ExitStep(p, s)
         \/ \E p \in Pid : ReapStep(p)
  PROVE  NoNewWaiter
<1> tbl \in Memory
  BY OkInv DEF WaitInv, Ok
<1>1. CASE Select
  BY <1>1, AnsweredQueues, SameJobsQuiet DEF Select
<1>2. CASE AcceptCsa
  <2>1. tbl'.jobTab = tbl.jobTab /\ tbl'.job = tbl.job /\ reqq' = reqq
    BY <1>2 DEF AcceptCsa, Memory
  <2> QED
    BY <2>1, SameJobsQuiet
<1>3. CASE CsadRead
  <2>1. tbl'.jobTab = tbl.jobTab /\ tbl'.job = tbl.job /\ reqq' = reqq
    BY <1>3 DEF CsadRead, Memory
  <2> QED
    BY <2>1, SameJobsQuiet
<1>4. CASE CsadStop
  <2>1. tbl'.jobTab = tbl.jobTab /\ tbl'.job = tbl.job /\ reqq' = reqq
    BY <1>4 DEF CsadStop, Memory
  <2> QED
    BY <2>1, SameJobsQuiet
<1>5. CASE ~(Select \/ AcceptCsa \/ CsadRead \/ CsadStop)
  <2>1. tbl' = tbl /\ reqq' = reqq
    BY <1>5 DEF Start, CsadStep, CsadStart, CsadConnect, CsadReport, vars, ForkStep, ExitStep, ReapStep
  <2> QED
    BY <2>1, SameJobsQuiet
<1> QED
  BY <1>1, <1>2, <1>3, <1>4, <1>5

LEMMA NextWaits ==
  ASSUME WaitInv, [Next]_vars
  PROVE  NoNewWaiter \/ WaiterComes \/ GoesDown \/ SubmitStep
<1>1. CASE RecvNl
  BY <1>1, RecvNlQuiet
<1>2. CASE RecvCsa
  BY <1>2, RecvCsaQuiet
<1>3. CASE RecvUnix
  BY <1>3, RecvUnixWaits
<1>4. CASE Stop
  <2>1. Down(Answered(tbl), {c \in Client : Waiting(c) \/ Queued(c)})
    BY <1>4 DEF Stop
  <2> QED
    BY <2>1, DownGoes
<1> QED
  BY <1>1, <1>2, <1>3, <1>4, OtherStepsQuiet DEF Next, JobdStep

(***************************************************************************)
(* The invariant is inductive                                              *)
(***************************************************************************)
LEMMA InitWait ==
  ASSUME Init
  PROVE  WaitInv
<1>1. \A j \in Jid : tbl.job[j] = FreeJob
  BY DEF Init, InitMemory
<1>2. \A j \in Jid : tbl.job[j].waitq = <<>> /\ tbl.job[j].waitcnt = 0
  BY <1>1 DEF FreeJob
<1>3. Counted(tbl)
  <2>1. Len(<<>>) = 0
    OBVIOUS
  <2> QED
    BY <1>2, <2>1 DEF Counted
<1>4. Once(tbl)
  BY <1>2, EmptyQueue DEF Once
<1>5. OneRequest
  BY EmptyQueue DEF Init, OneRequest
<1> QED
  BY <1>3, <1>4, <1>5, InitInv DEF WaitInv

LEMMA TailElements ==
  ASSUME NEW S, NEW s \in Seq(S), s # <<>>, NEW i \in DOMAIN Tail(s)
  PROVE  i + 1 \in DOMAIN s /\ i + 1 # 1 /\ Tail(s)[i] = s[i + 1] /\ i \in Nat
<1>1. Len(s) \in Nat /\ Len(s) # 0 /\ Len(Tail(s)) = Len(s) - 1 /\ i \in 1 .. Len(Tail(s))
  OBVIOUS
<1> QED
  BY <1>1

LEMMA RequestsShrink ==
  ASSUME reqq \in Seq([c : Client, r : Request]), reqq # <<>>, reqq' = Tail(reqq), OneRequest
  PROVE  /\ \A h, i \in DOMAIN reqq' : reqq'[h].c = reqq'[i].c => h = i
         /\ \A i \in DOMAIN reqq' : NotWaiting(tbl, reqq'[i].c) /\ reqq'[i].c # Head(reqq).c
<1>1. \A i \in DOMAIN reqq' : i + 1 \in DOMAIN reqq /\ i + 1 # 1 /\ reqq'[i] = reqq[i + 1] /\ i \in Nat
  BY TailElements
<1>2. 1 \in DOMAIN reqq /\ reqq[1] = Head(reqq)
  OBVIOUS
<1>3. ASSUME NEW h \in DOMAIN reqq', NEW i \in DOMAIN reqq', reqq'[h].c = reqq'[i].c
      PROVE  h = i
  <2>1. h + 1 = i + 1
    BY <1>1, <1>3 DEF OneRequest
  <2> QED
    BY <1>1, <2>1
<1>4. ASSUME NEW i \in DOMAIN reqq'
      PROVE  NotWaiting(tbl, reqq'[i].c) /\ reqq'[i].c # Head(reqq).c
  BY <1>1, <1>2 DEF OneRequest
<1> QED
  BY <1>3, <1>4

LEMMA SubmitWait ==
  ASSUME WaitInv, SubmitStep
  PROVE  OneRequest' /\ tbl' = tbl
<1>1. PICK call \in Calls : Submit(call[1], call[2])
  BY DEF SubmitStep
<1> DEFINE c == call[1]
           x == [c |-> c, r |-> call[2]]
<1>2. c \in Client /\ call[2] \in Request
  BY JobdAssumption
<1>3. ~Waiting(c) /\ ~Queued(c) /\ reqq' = Append(reqq, x) /\ tbl' = tbl
  BY <1>1 DEF Submit
<1>4. x \in [c : Client, r : Request] /\ x.c = c
  BY <1>2
<1> HIDE DEF c, x
<1>5. reqq \in Seq([c : Client, r : Request])
  BY DEF WaitInv, Inv, TypeOK
<1>6. /\ Len(reqq') = Len(reqq) + 1 /\ reqq'[Len(reqq) + 1] = x
      /\ \A i \in 1 .. Len(reqq) : reqq'[i] = reqq[i]
  BY <1>3, <1>4, <1>5, AppendProperties
<1>7. DOMAIN reqq' = 1 .. (Len(reqq) + 1) /\ DOMAIN reqq = 1 .. Len(reqq) /\ Len(reqq) \in Nat
  BY <1>3, <1>4, <1>5, <1>6
<1>8. \A i \in DOMAIN reqq' : \/ i \in DOMAIN reqq /\ reqq'[i] = reqq[i] /\ reqq[i].c # c
                              \/ i = Len(reqq) + 1 /\ reqq'[i].c = c
  BY <1>3, <1>4, <1>6, <1>7 DEF Queued
<1>9. NotWaiting(tbl, c)
  BY <1>3, OkInv, WaitingIs DEF WaitInv
<1> QED
  BY <1>3, <1>8, <1>9 DEF WaitInv, OneRequest

LEMMA NextWait ==
  ASSUME WaitInv, [Next]_vars
  PROVE  WaitInv'
<1>1. Inv'
  BY NextInv DEF WaitInv
<1>2. reqq \in Seq([c : Client, r : Request]) /\ tbl \in Memory
  BY DEF WaitInv, Inv, TypeOK
<1>3. CASE NoNewWaiter
  <2>1. Counted(tbl') /\ Once(tbl') /\ \A c : NotWaiting(tbl, c) => NotWaiting(tbl', c)
    BY <1>3, StepWaits DEF NoNewWaiter, WaitInv
  <2>2. OneRequest'
    <3>1. CASE reqq' = reqq
      BY <2>1, <3>1 DEF WaitInv, OneRequest
    <3>2. CASE reqq # <<>> /\ reqq' = Tail(reqq)
      BY <1>2, <2>1, <3>2, RequestsShrink DEF WaitInv, OneRequest
    <3> QED
      BY <1>3, <3>1, <3>2 DEF NoNewWaiter
  <2> QED
    BY <1>1, <2>1, <2>2 DEF WaitInv
<1>4. CASE WaiterComes
  <2> DEFINE c == Head(reqq).c
  <2>1. reqq # <<>> /\ reqq' = Tail(reqq)
    BY <1>4 DEF WaiterComes
  <2>2. c \in Client
    <3>1. Head(reqq) \in [c : Client, r : Request]
      BY <1>2, <2>1, HeadTail
    <3> QED
      BY <3>1
  <2>3. NotWaiting(tbl, c)
    <3>1. 1 \in DOMAIN reqq /\ reqq[1] = Head(reqq)
      BY <1>2, <2>1
    <3> QED
      BY <3>1 DEF WaitInv, OneRequest
  <2>4. PICK j \in Jid : Joined(tbl, tbl', c, j)
    BY <1>4 DEF WaiterComes
  <2> HIDE DEF c
  <2>5. Counted(tbl') /\ Once(tbl') /\ \A b : b # c /\ NotWaiting(tbl, b) => NotWaiting(tbl', b)
    BY <1>2, <2>2, <2>3, <2>4, JoinedWaits DEF WaitInv
  <2>6. OneRequest'
    <3>1. /\ \A h, i \in DOMAIN reqq' : reqq'[h].c = reqq'[i].c => h = i
          /\ \A i \in DOMAIN reqq' : NotWaiting(tbl, reqq'[i].c) /\ reqq'[i].c # c
      BY <1>2, <2>1, RequestsShrink DEF WaitInv, c
    <3> QED
      BY <2>5, <3>1 DEF OneRequest
  <2> QED
    BY <1>1, <2>5, <2>6 DEF WaitInv
<1>5. CASE GoesDown
  <2>1. \A j \in Jid : tbl'.job[j].waitq = <<>> /\ tbl'.job[j].waitcnt = 0
    BY <1>5 DEF GoesDown, FreeJob
  <2>2. Counted(tbl')
    <3>1. Len(<<>>) = 0
      OBVIOUS
    <3> QED
      BY <2>1, <3>1 DEF Counted
  <2>3. Once(tbl')
    BY <2>1, EmptyQueue DEF Once
  <2>4. OneRequest'
    BY <1>5, EmptyQueue DEF GoesDown, OneRequest
  <2> QED
    BY <1>1, <2>2, <2>3, <2>4 DEF WaitInv
<1>6. CASE SubmitStep
  <2>1. OneRequest' /\ tbl' = tbl
    BY <1>6, SubmitWait
  <2> QED
    BY <1>1, <2>1 DEF WaitInv
<1> QED
  BY <1>3, <1>4, <1>5, <1>6, NextWaits

(***************************************************************************)
(* The theorems                                                            *)
(***************************************************************************)
(* The invariant of the wait queues holds in every state of every          *)
(* behaviour.                                                              *)
THEOREM WaitInvariance == Spec => []WaitInv
<1>1. Init => WaitInv
  BY InitWait
<1>2. WaitInv /\ [Next]_vars => WaitInv'
  BY NextWait
<1> QED
  BY <1>1, <1>2, PTL DEF Spec

(* Every job counts the callers blocked in job_waitjid() on it; a caller   *)
(* waits once, on one job, and has no other call pending.                  *)
THEOREM WaitersCorrect == Spec => []WaitersConsistent
<1>1. WaitInv => WaitersConsistent
  <2> SUFFICES ASSUME WaitInv PROVE WaitersConsistent
    OBVIOUS
  <2>1. Ok(tbl) /\ tbl.jobTab \subseteq Jid
    BY OkInv DEF WaitInv, Ok, Memory
  <2>2. WaitersAgree(tbl)
    <3> SUFFICES ASSUME NEW j \in tbl.jobTab
                 PROVE  LET q == tbl.job[j].waitq
                        IN /\ tbl.job[j].waitcnt = Len(q)
                           /\ \A h, i \in DOMAIN q : q[h] = q[i] => h = i
                           /\ \A k \in tbl.jobTab \ {j} : ToSet(q) \cap ToSet(tbl.job[k].waitq) = {}
      BY DEF WaitersAgree
    <3>1. tbl.job[j].waitcnt = Len(tbl.job[j].waitq)
      BY <2>1 DEF WaitInv, Counted
    <3>2. \A h, i \in DOMAIN tbl.job[j].waitq : tbl.job[j].waitq[h] = tbl.job[j].waitq[i] => h = i
      BY <2>1 DEF WaitInv, Once
    <3>3. \A k \in tbl.jobTab \ {j} : ToSet(tbl.job[j].waitq) \cap ToSet(tbl.job[k].waitq) = {}
      BY <2>1 DEF WaitInv, Once
    <3> QED
      BY <3>1, <3>2, <3>3
  <2>3. \A c \in Client : ~(Waiting(c) /\ Queued(c))
    BY <2>1, WaitingIs DEF WaitInv, OneRequest, Queued
  <2> QED
    BY <2>2, <2>3 DEF WaitersConsistent
<1> QED
  BY <1>1, WaitInvariance, PTL

(* A caller leaves the wait queue of a job only in the step that ends the  *)
(* job, with that job's ID in its answer, or with jobd itself, and no job  *)
(* ends with a caller left on its queue.                                   *)
THEOREM EveryWaiterAnswered == Spec => WaitersAnswered
<1> DEFINE Served == \A j \in Jid, c \in Client :
             c \in ToSet(tbl.job[j].waitq) =>
               \/ c \in ToSet(tbl'.job[j].waitq) /\ j \in tbl'.jobTab
               \/ ~cnOn'
               \/ /\ j \notin tbl'.jobTab
                  /\ tbl'.answer[c].op = "WAITJID" /\ tbl'.answer[c].jid = j
<1>1. WaitInv /\ [Next]_vars => [Served]_vars
  <2> SUFFICES ASSUME WaitInv, [Next]_vars, NEW j \in Jid, NEW c \in ToSet(tbl.job[j].waitq)
               PROVE  \/ c \in ToSet(tbl'.job[j].waitq) /\ j \in tbl'.jobTab
                      \/ ~cnOn'
                      \/ /\ j \notin tbl'.jobTab
                         /\ tbl'.answer[c].op = "WAITJID" /\ tbl'.answer[c].jid = j
    OBVIOUS
  <2>1. j \in tbl.jobTab /\ tbl \in Memory
    BY OkInv, QueueInTable DEF WaitInv, Ok
  <2>2. CASE NoNewWaiter
    BY <2>1, <2>2 DEF NoNewWaiter, WaitStep, Kept, Ended
  <2>3. CASE WaiterComes
    <3>1. PICK k \in Jid : Joined(tbl, tbl', Head(reqq).c, k)
      BY <2>3 DEF WaiterComes
    <3>2. Head(reqq).c \in Client
      <4>1. reqq \in Seq([c : Client, r : Request]) /\ reqq # <<>>
        BY <2>3 DEF WaitInv, Inv, TypeOK, WaiterComes
      <4>2. Head(reqq) \in [c : Client, r : Request]
        BY <4>1, HeadTail
      <4> QED
        BY <4>2
    <3>3. c \in ToSet(tbl'.job[j].waitq)
      BY <2>1, <3>1, <3>2, JoinedStay
    <3> QED
      BY <2>1, <3>1, <3>3 DEF Joined
  <2>4. CASE GoesDown
    BY <2>4 DEF GoesDown
  <2>5. CASE SubmitStep
    <3>1. tbl' = tbl
      BY <2>5, SubmitWait
    <3> QED
      BY <2>1, <3>1
  <2> QED
    BY <2>2, <2>3, <2>4, <2>5, NextWaits
<1> QED
  BY <1>1, WaitInvariance, PTL DEF WaitersAnswered, Spec

(***************************************************************************)
(* The new job of job_create()                                             *)
(***************************************************************************)
(* A handler tells the callers of job_waitjid(), and nobody else. *)
OnlyWaiters(t, u) ==
  \A c \in Client : u.answer[c] = t.answer[c] \/ u.answer[c].op = "WAITJID"

LEMMA CleanupTells ==
  ASSUME NEW t \in Memory, NEW j \in Jid
  PROVE  OnlyWaiters(t, JobCleanup(t, j))
<1>1. CASE t.job[j].refcnt # 0
  BY <1>1, Zenon DEF JobCleanup, OnlyWaiters
<1>2. CASE t.job[j].refcnt = 0
  <2> DEFINE u == JobCleanup(t, j)
             a == UnlinkJobFromHash(t, j)
             b == IF a.job[j].waitcnt > 0 THEN ReplyToWaiters(a, j) ELSE a
             d == CSA_jobend(b, j)
  <2>1. a \in Memory /\ a.job = t.job /\ a.answer = t.answer
    <3>1. t.nJobs - 1 \in Int
      BY DEF Memory
    <3> DEFINE n == t.nJobs - 1
    <3>2. a = [t EXCEPT !.jobTab = t.jobTab \ {j}, !.nJobs = n]
      BY DEF UnlinkJobFromHash, Memory
    <3> HIDE DEF a, n
    <3> QED
      BY <3>1, <3>2 DEF Memory, n
  <2> HIDE DEF a
  <2>2. b \in Memory
    BY <2>1, ReplyToWaitersKeeps
  <2>3. \A c \in Client : b.answer[c] = t.answer[c] \/ b.answer[c].op = "WAITJID"
    <3>1. CASE a.job[j].waitcnt > 0
      <4> DEFINE ans == [c \in Client |->
                   IF c \in ToSet(a.job[j].waitq)
                   THEN [op |-> "WAITJID", err |-> "OK", jid |-> j,
                         val |-> a.job[j].waitstat, list |-> <<>>]
                   ELSE a.answer[c]]
                 f == [a.job EXCEPT ![j] = DropWaiters(@)]
      <4>1. b = ReplyToWaiters(a, j)
        BY <3>1
      <4>2. b.answer = ans
        <5>1. b = [a EXCEPT !.answer = ans, !.job = f]
          BY <2>1, <4>1 DEF ReplyToWaiters, Memory
        <5> HIDE DEF ans, f
        <5> QED
          BY <2>1, <5>1 DEF Memory
      <4> QED
        BY <2>1, <4>2
    <3>2. CASE ~(a.job[j].waitcnt > 0)
      BY <2>1, <3>2
    <3> QED
      BY <3>1, <3>2
  <2> HIDE DEF b
  <2>4. d \in Memory /\ d.answer = b.answer
    BY <2>2, JobEventsKeep DEF CSA_jobend, SendCsa, Memory
  <2>5. u = [d EXCEPT !.job[j] = FreeJob]
    BY <1>2 DEF JobCleanup, a, b
  <2> HIDE DEF d, u
  <2>6. u.answer = b.answer
    BY <2>4, <2>5 DEF Memory
  <2> QED
    BY <2>3, <2>6 DEF OnlyWaiters, u
<1> QED
  BY <1>1, <1>2

LEMMA TellsThenSame ==
  ASSUME NEW t, NEW u, NEW v, OnlyWaiters(t, u), v.answer = u.answer
  PROVE  OnlyWaiters(t, v)
BY DEF OnlyWaiters

LEMMA SameThenTells ==
  ASSUME NEW t, NEW u, NEW v, u.answer = t.answer, OnlyWaiters(u, v)
  PROVE  OnlyWaiters(t, v)
BY DEF OnlyWaiters

LEMMA DropProcTells ==
  ASSUME NEW t \in Memory, TablesAgree(t), NEW p \in t.procTab, NEW status \in Status
  PROVE  OnlyWaiters(t, DropProc(t, p, status))
<1> DEFINE o == t.proc[p].job
           a == UnlinkProcFromHash(t, p)
           b == UnlinkProcFromJob(a, p, status)
           d == JobCleanup(b, o)
           u == DropProc(t, p, status)
<1>1. /\ a \in Memory /\ a.jobTab = t.jobTab /\ a.nJobs = t.nJobs /\ a.job = t.job /\ a.proc = t.proc
      /\ a.answer = t.answer
  BY DEF UnlinkProcFromHash, Memory
<1>2. o \in Jid
  BY MemberPlace
<1> HIDE DEF a
<1>3. b \in Memory /\ b.answer = a.answer
  <2>1. a.job[t.proc[p].job] = t.job[t.proc[p].job]
    BY <1>1
  <2> HIDE DEF o
  <2> QED
    BY <1>1, <2>1, UnlinkQueues
<1> HIDE DEF b
<1>4. OnlyWaiters(b, d)
  BY <1>2, <1>3, CleanupTells
<1>5. d \in Memory
  <2>1. CASE b.job[o].refcnt # 0
    BY <1>3, <2>1, Zenon DEF JobCleanup
  <2>2. CASE b.job[o].refcnt = 0
    BY <1>2, <1>3, <2>2, JobCleanupKeeps, Zenon
  <2> QED
    BY <2>1, <2>2
<1> HIDE DEF d
<1>6. u = [d EXCEPT !.proc[p] = FreeProc]
  BY DEF DropProc, d, b, a
<1> HIDE DEF u
<1>7. u.answer = d.answer
  BY <1>5, <1>6 DEF Memory
<1>8. OnlyWaiters(t, d)
  BY <1>1, <1>3, <1>4, SameThenTells
<1> QED
  BY <1>7, <1>8, TellsThenSame DEF u

LEMMA DetachAllTells ==
  ASSUME NEW t \in Memory, NEW j \in t.jobTab
  PROVE  OnlyWaiters(t, DetachAll(t, j))
<1> DEFINE members == ToSet(t.job[j].proclist)
           e == ProcsLeave(t.job[j])
           procs == [p \in Pid |-> IF p \in members THEN FreeProc ELSE t.proc[p]]
           left == [t EXCEPT !.procTab = t.procTab \ members, !.proc = procs, !.job[j] = e]
<1>1. j \in Jid /\ t.job[j] \in JobEntry
  BY DEF Memory
<1>2. DetachAll(t, j) = JobCleanup(left, j)
  BY DEF DetachAll, Memory
<1>3. e \in JobEntry
  BY <1>1, ProcsLeaveType
<1>4. procs \in [Pid -> ProcEntry]
  BY FreeTypes DEF Memory
<1> HIDE DEF procs, e, members
<1>5. left \in Memory /\ left.answer = t.answer
  BY <1>3, <1>4 DEF Memory
<1> HIDE DEF left
<1>6. OnlyWaiters(left, JobCleanup(left, j))
  BY <1>1, <1>5, CleanupTells
<1> QED
  BY <1>2, <1>5, <1>6, SameThenTells

LEMMA InstallJobTells ==
  ASSUME NEW t \in Memory, TablesAgree(t), NEW p \in Pid, NEW j \in Jid \ t.jobTab,
         NEW user \in User
  PROVE  OnlyWaiters(t, InstallJob(t, p, j, user))
<1> DEFINE isNew == p \notin t.procTab
           o == t.proc[p].job
           e == [FreeJob EXCEPT !.user = user]
           fresh == [t EXCEPT !.job[j] = e]
           left == IF isNew THEN fresh ELSE UnlinkProcFromJob(fresh, p, 0)
           joined == AddProcToJob(left, p, j)
           cleaned == IF isNew THEN AddProcToHash(joined, p) ELSE JobCleanup(joined, o)
           added == AddJobToHash(cleaned, j)
<1>1. InstallJob(t, p, j, user) = CSA_jobstart(added, j)
  BY DEF InstallJob
<1>2. e \in JobEntry
  <2>1. FreeJob \in JobEntry
    BY FreeTypes
  <2> QED
    BY <2>1 DEF FreeJob, JobEntry
<1> HIDE DEF e
<1>3. /\ fresh \in Memory /\ fresh.jobTab = t.jobTab /\ fresh.nJobs = t.nJobs /\ fresh.proc = t.proc
      /\ fresh.procTab = t.procTab /\ fresh.job = [t.job EXCEPT ![j] = e] /\ fresh.answer = t.answer
  BY <1>2 DEF Memory
<1> HIDE DEF fresh
<1>4. left \in Memory /\ left.answer = t.answer
  <2>1. CASE isNew
    BY <1>3, <2>1
  <2>2. CASE ~isNew
    <3>1. 0 \in Status /\ p \in t.procTab
      BY <2>2, ParamsAssumption
    <3>2. t.proc[p].job \in t.jobTab /\ t.proc[p].job \in Jid
      BY <3>1, MemberPlace
    <3>3. fresh.job[t.proc[p].job] = t.job[t.proc[p].job]
      BY <1>3, <3>2 DEF Memory
    <3>4. PICK s \in Status : s = 0
      BY <3>1
    <3>5. left = UnlinkProcFromJob(fresh, p, s)
      BY <2>2, <3>4
    <3> HIDE DEF left
    <3>6. fresh \in Memory /\ fresh.jobTab = t.jobTab /\ fresh.nJobs = t.nJobs /\ fresh.proc = t.proc
      BY <1>3
    <3>7. left \in Memory /\ left.answer = fresh.answer
      BY <3>1, <3>3, <3>5, <3>6, UnlinkQueues
    <3> QED
      BY <1>3, <3>7
  <2> QED
    BY <2>1, <2>2
<1> HIDE DEF left
<1>5. joined \in Memory /\ joined.answer = t.answer
  BY <1>4, AddQueues
<1> HIDE DEF joined
<1>6. cleaned \in Memory /\ OnlyWaiters(joined, cleaned)
  <2>1. CASE isNew
    <3>1. cleaned \in Memory /\ cleaned.answer = joined.answer
      BY <1>5, <2>1 DEF AddProcToHash, Memory
    <3> QED
      BY <3>1 DEF OnlyWaiters
  <2>2. CASE ~isNew
    <3>1. o \in Jid
      BY <2>2, MemberPlace
    <3>2. cleaned = JobCleanup(joined, o)
      BY <2>2
    <3> HIDE DEF cleaned, o
    <3>3. OnlyWaiters(joined, cleaned)
      BY <1>5, <3>1, <3>2, CleanupTells
    <3>4. CASE joined.job[o].refcnt # 0
      BY <1>5, <3>2, <3>3, <3>4 DEF JobCleanup
    <3>5. CASE joined.job[o].refcnt = 0
      BY <1>5, <3>1, <3>2, <3>3, <3>5, JobCleanupKeeps
    <3> QED
      BY <3>4, <3>5
  <2> QED
    BY <2>1, <2>2
<1> HIDE DEF cleaned
<1>7. added \in Memory /\ added.answer = cleaned.answer
  <2>1. added \in Memory
    BY <1>6, AddJobToHashKeeps, Zenon
  <2>2. added.answer = cleaned.answer
    BY <1>6 DEF AddJobToHash, Memory
  <2> QED
    BY <2>1, <2>2
<1> HIDE DEF added
<1>8. CSA_jobstart(added, j).answer = added.answer
  BY <1>7 DEF CSA_jobstart, SendCsa, Memory
<1>9. OnlyWaiters(t, cleaned)
  BY <1>5, <1>6, SameThenTells
<1> QED
  BY <1>1, <1>7, <1>8, <1>9, TellsThenSame

LEMMA ExitTells ==
  ASSUME NEW t \in Memory, TablesAgree(t), NEW p \in Pid, NEW status \in Status
  PROVE  OnlyWaiters(t, ExitHandler(t, p, status)) /\ OnlyWaiters(t, ExitEventHandler(t, p, status))
<1>1. ASSUME NEW m \in Memory, TablesAgree(m)
      PROVE  OnlyWaiters(m, ExitHandler(m, p, status))
  <2>1. CASE p \in m.procTab
    BY <1>1, <2>1, DropProcTells DEF ExitHandler
  <2>2. CASE p \notin m.procTab
    BY <2>2 DEF ExitHandler, OnlyWaiters
  <2> QED
    BY <2>1, <2>2
<1>2. OnlyWaiters(t, ExitEventHandler(t, p, status))
  <2> DEFINE noted == Noted(t, p, status)
  <2>1. ExitEventHandler(t, p, status) = IF t.csaActive THEN noted ELSE ExitHandler(noted, p, status)
    BY DEF ExitEventHandler, Noted
  <2>2. noted \in Memory /\ TablesAgree(noted)
    BY NotedAgrees
  <2>3. noted.answer = t.answer
    BY DEF Noted, Memory
  <2> HIDE DEF noted
  <2>4. OnlyWaiters(noted, ExitHandler(noted, p, status))
    BY <1>1, <2>2
  <2>5. CASE t.csaActive
    BY <2>1, <2>3, <2>5 DEF OnlyWaiters
  <2>6. CASE ~t.csaActive
    BY <2>1, <2>3, <2>4, <2>6, SameThenTells
  <2> QED
    BY <2>5, <2>6
<1> QED
  BY <1>1, <1>2

LEMMA ForkTells ==
  ASSUME NEW t \in Memory, TablesAgree(t), NEW p \in Pid, NEW q \in Pid \ {p}
  PROVE  OnlyWaiters(t, ForkHandler(t, p, q))
<1> DEFINE j == t.proc[p].job
           ignored == p \notin t.procTab \/ (q \in t.procTab /\ ~t.proc[q].exited)
           closed == IF q \in t.procTab THEN ExitHandler(t, q, t.proc[q].saved) ELSE t
           u == AddProcToHash(AddProcToJob(closed, q, j), q)
<1>1. CASE ignored
  BY <1>1 DEF ForkHandler, OnlyWaiters
<1>2. CASE ~ignored
  <2>1. ForkHandler(t, p, q) = u
    BY <1>2 DEF ForkHandler
  <2>2. j \in Jid
    BY <1>2, MemberPlace
  <2>3. t.proc[q].saved \in Status
    BY DEF Memory, ProcEntry
  <2>4. closed \in Memory /\ OnlyWaiters(t, closed)
    <3>1. CASE q \in t.procTab
      BY <2>3, <3>1, ExitHandlerAgrees, ExitTells
    <3>2. CASE q \notin t.procTab
      BY <3>2 DEF OnlyWaiters
    <3> QED
      BY <3>1, <3>2
  <2> HIDE DEF closed, j
  <2>5. u.answer = closed.answer
    BY <2>2, <2>4, JoinQueues
  <2> HIDE DEF u
  <2> QED
    BY <2>1, <2>4, <2>5, TellsThenSame
<1> QED
  BY <1>1, <1>2

(* A request answers nobody else but its caller, under its own name. *)
AnsweredAs(t, u, c, op) ==
  \A b \in Client :
    u.answer[b] = t.answer[b] \/ u.answer[b].op = "WAITJID" \/ (b = c /\ u.answer[b].op = op)

LEMMA ReplyTold ==
  ASSUME NEW t \in Memory, NEW u \in Memory, OnlyWaiters(t, u), NEW c \in Client,
         NEW op, NEW err, NEW jid, NEW val
  PROVE  LET v == Reply(u, c, op, err, jid, val)
         IN /\ AnsweredAs(t, v, c, op) /\ v.answer[c].err = err /\ v.answer[c].jid = jid
            /\ v.jobTab = u.jobTab /\ v.job = u.job
BY DEF AnsweredAs, OnlyWaiters, Reply, Memory

LEMMA OnlyReply ==
  ASSUME NEW t \in Memory, NEW c \in Client
  PROVE  /\ \A op, err, jid, val : AnsweredAs(t, Reply(t, c, op, err, jid, val), c, op)
         /\ \A op, err, jid, list : AnsweredAs(t, ReplyList(t, c, op, err, jid, list), c, op)
BY DEF AnsweredAs, Reply, ReplyList, Memory

LEMMA QueriesTell ==
  ASSUME NEW t \in Memory, NEW c \in Client, NEW exist, NEW r
  PROVE  /\ AnsweredAs(t, KillJid(t, c, r, exist), c, "KILLJID")
         /\ AnsweredAs(t, GetJid(t, c, r, exist), c, "GETJID")
         /\ AnsweredAs(t, GetJidCnt(t, c, r), c, "GETJIDCNT")
         /\ AnsweredAs(t, GetJidList(t, c, r), c, "GETJIDLST")
         /\ AnsweredAs(t, GetPidCnt(t, c, r), c, "GETPIDCNT")
         /\ AnsweredAs(t, GetPidList(t, c, r), c, "GETPIDLST")
         /\ AnsweredAs(t, GetUid(t, c, r), c, "GETUSER")
         /\ AnsweredAs(t, GetPrimePid(t, c, r), c, "GETPRIMEPID")
<1>1. AnsweredAs(t, KillJid(t, c, r, exist), c, "KILLJID")
  BY OnlyReply, Zenon DEF KillJid
<1>2. AnsweredAs(t, GetJid(t, c, r, exist), c, "GETJID")
  BY OnlyReply, Zenon DEF GetJid
<1>3. AnsweredAs(t, GetJidCnt(t, c, r), c, "GETJIDCNT") /\ AnsweredAs(t, GetJidList(t, c, r), c, "GETJIDLST")
  BY OnlyReply, Zenon DEF GetJidCnt, GetJidList
<1>4. AnsweredAs(t, GetPidCnt(t, c, r), c, "GETPIDCNT") /\ AnsweredAs(t, GetUid(t, c, r), c, "GETUSER")
  BY OnlyReply, Zenon DEF GetPidCnt, GetUid
<1>5. AnsweredAs(t, GetPidList(t, c, r), c, "GETPIDLST")
  BY OnlyReply, Zenon DEF GetPidList
<1>6. AnsweredAs(t, GetPrimePid(t, c, r), c, "GETPRIMEPID")
  BY OnlyReply, Zenon DEF GetPrimePid
<1> QED
  BY <1>1, <1>2, <1>3, <1>4, <1>5, <1>6

LEMMA WaitJidTells ==
  ASSUME NEW t \in Memory, NEW c \in Client, NEW r
  PROVE  AnsweredAs(t, WaitJid(t, c, r), c, "WAITJID")
<1>1. CASE r.options # 0 \/ r.jid \notin t.jobTab
  BY <1>1, OnlyReply, Zenon DEF WaitJid
<1>2. CASE ~(r.options # 0 \/ r.jid \notin t.jobTab)
  BY <1>2 DEF WaitJid, AnsweredAs, Memory
<1> QED
  BY <1>1, <1>2

LEMMA DetachTells ==
  ASSUME NEW t, Ok(t), NEW c \in Client, NEW r
  PROVE  AnsweredAs(t, DetachJid(t, c, r), c, "DETACHJID") /\ AnsweredAs(t, DetachPid(t, c, r), c, "DETACHPID")
<1>1. AnsweredAs(t, DetachJid(t, c, r), c, "DETACHJID")
  <2>1. CASE c \in Priv /\ r.jid \in t.jobTab
    <3> DEFINE u == DetachAll(t, r.jid)
    <3>1. u \in Memory /\ OnlyWaiters(t, u)
      BY <2>1, DetachAllAgrees, DetachAllTells DEF Ok
    <3>2. DetachJid(t, c, r) = Reply(u, c, "DETACHJID", "OK", NoJid, t.job[r.jid].refcnt)
      BY <2>1 DEF DetachJid
    <3> HIDE DEF u
    <3> QED
      BY <3>1, <3>2, ReplyTold DEF Ok
  <2>2. CASE ~(c \in Priv /\ r.jid \in t.jobTab)
    BY <2>2, OnlyReply, Zenon DEF DetachJid, Ok
  <2> QED
    BY <2>1, <2>2
<1>2. AnsweredAs(t, DetachPid(t, c, r), c, "DETACHPID")
  <2>1. CASE c \in Priv /\ r.pid \in t.procTab
    <3> DEFINE u == DropProc(t, r.pid, 0)
    <3>1. PICK s \in Status : s = 0
      BY ParamsAssumption
    <3>2. u \in Memory /\ OnlyWaiters(t, u)
      BY <2>1, <3>1, DropProcAgrees, DropProcTells DEF Ok
    <3>3. DetachPid(t, c, r) = Reply(u, c, "DETACHPID", "OK", t.proc[r.pid].job, 0)
      BY <2>1 DEF DetachPid
    <3> HIDE DEF u
    <3> QED
      BY <3>2, <3>3, ReplyTold DEF Ok
  <2>2. CASE ~(c \in Priv /\ r.pid \in t.procTab)
    BY <2>2, OnlyReply, Zenon DEF DetachPid, Ok
  <2> QED
    BY <2>1, <2>2
<1> QED
  BY <1>1, <1>2

LEMMA AttachPidTells ==
  ASSUME NEW t, Ok(t), NEW c \in Client, NEW exist, NEW r, r.pid \in Pid
  PROVE  AnsweredAs(t, AttachPid(t, c, r, exist), c, "ATTACHPID")
<1> DEFINE err == AttachError(t, c, r, exist)
           u == AddProcToHash(AddProcToJob(t, r.pid, r.jid), r.pid)
<1>1. CASE err = "OK"
  <2>1. r.jid \in t.jobTab /\ r.pid \in Pid \ t.procTab /\ r.jid \in Jid
    BY <1>1 DEF AttachError, Ok, Memory
  <2>2. u \in Memory /\ u.answer = t.answer
    BY <2>1, JoinAgrees, JoinQueues DEF Ok
  <2>3. AttachPid(t, c, r, exist) = Reply(u, c, "ATTACHPID", "OK", r.jid, 0)
    BY <1>1 DEF AttachPid
  <2> HIDE DEF u
  <2>4. OnlyWaiters(t, u)
    BY <2>2 DEF OnlyWaiters
  <2> QED
    BY <2>2, <2>3, <2>4, ReplyTold DEF Ok
<1>2. CASE err # "OK"
  BY <1>2, OnlyReply, Zenon DEF AttachPid, Ok
<1> QED
  BY <1>1, <1>2

LEMMA SetHidTells ==
  ASSUME NEW t \in Memory, NEW c \in Client, NEW r, r.hid \in Hid \cup {DISABLED}
  PROVE  AnsweredAs(t, SetHid(t, c, r), c, "SETHID")
<1>1. CASE c \notin Priv
  BY <1>1, OnlyReply, Zenon DEF SetHid
<1>2. CASE c \in Priv
  <2> DEFINE u == [t EXCEPT !.hid = r.hid]
  <2>1. u \in Memory /\ u.answer = t.answer
    BY DEF Memory
  <2>2. SetHid(t, c, r) = Reply(u, c, "SETHID", "OK", NoJid, r.hid)
    BY <1>2 DEF SetHid
  <2> HIDE DEF u
  <2>3. OnlyWaiters(t, u)
    BY <2>1 DEF OnlyWaiters
  <2> QED
    BY <2>1, <2>2, <2>3, ReplyTold
<1> QED
  BY <1>1, <1>2

(* The job j of memory u is new since t, and p is its only process. *)
Fresh(t, u, j, p) == j \in Jid \ t.jobTab /\ j \in u.jobTab /\ u.job[j].proclist = <<p>>

LEMMA JobCreateTells ==
  ASSUME NEW t, Ok(t), t.hid # DISABLED, NEW c \in Client, NEW exist,
         NEW r, r.pid \in Pid, r.jid \in Jid \cup {NoJid}, r.user \in User
  PROVE  LET u == JobCreate(t, c, r, exist)
         IN /\ AnsweredAs(t, u, c, "CREATE")
            /\ u.answer[c].err = "OK" => Fresh(t, u, u.answer[c].jid, r.pid)
<1> DEFINE err == CreateError(t, c, r, exist)
<1>1. err \in {"EPERM", "ESRCH", "EBUSY", "OK"}
  BY DEF CreateError
<1>2. CASE err = "OK"
  <2> DEFINE j == NewJid(t, r)
             a == InstallJob(t, r.pid, j, r.user)
             n == NewCount(t, r)
             b == [a EXCEPT !.count = n]
             u == Reply(b, c, "CREATE", "OK", j, 0)
  <2>1. ~ JidRefused(t, r)
    BY <1>2 DEF CreateError
  <2>2. j \in Jid \ t.jobTab /\ n \in 0 .. (SidCount - 1)
    BY <2>1, NewJidType DEF Ok
  <2>3. JobCreate(t, c, r, exist) = u
    BY <1>2 DEF JobCreate
  <2> HIDE DEF j, n
  <2>4. a \in Memory /\ OnlyWaiters(t, a) /\ j \in a.jobTab /\ a.job[j].proclist = <<r.pid>>
    BY <2>2, InstallJobAgrees, InstallJobTells DEF Ok
  <2> HIDE DEF a
  <2>5. b \in Memory /\ b.answer = a.answer /\ b.jobTab = a.jobTab /\ b.job = a.job
    BY <2>2, <2>4 DEF Memory
  <2> HIDE DEF b
  <2>6. OnlyWaiters(t, b)
    BY <2>4, <2>5, TellsThenSame
  <2>7. AnsweredAs(t, u, c, "CREATE") /\ u.answer[c].jid = j /\ u.jobTab = b.jobTab /\ u.job = b.job
    BY <2>5, <2>6, ReplyTold DEF Ok
  <2> HIDE DEF u
  <2>8. Fresh(t, u, u.answer[c].jid, r.pid)
    BY <2>2, <2>4, <2>5, <2>7 DEF Fresh
  <2> QED
    BY <2>3, <2>7, <2>8
<1>3. CASE err # "OK"
  <2>1. JobCreate(t, c, r, exist) = Reply(t, c, "CREATE", err, NoJid, 0)
    BY <1>1, <1>3 DEF JobCreate
  <2> HIDE DEF err
  <2>2. OnlyWaiters(t, t)
    BY DEF OnlyWaiters
  <2> QED
    BY <1>3, <2>1, <2>2, ReplyTold DEF Ok
<1> QED
  BY <1>2, <1>3

LEMMA ProcessMesgTells ==
  ASSUME NEW t, Ok(t), t.hid # DISABLED, NEW c \in Client, NEW r \in Request, NEW exist
  PROVE  LET u == ProcessMesg(t, c, r, exist)
         IN /\ AnsweredAs(t, u, c, r.op)
            /\ r.op = "CREATE" /\ u.answer[c].err = "OK" => Fresh(t, u, u.answer[c].jid, r.pid)
<1> t \in Memory
  BY DEF Ok
<1>1. CASE r.op = "CREATE"
  <2>1. r.pid \in Pid /\ r.jid \in Jid \cup {NoJid} /\ r.user \in User
    BY <1>1 DEF Request
  <2>2. ProcessMesg(t, c, r, exist) = JobCreate(t, c, r, exist)
    BY <1>1 DEF ProcessMesg
  <2> QED
    BY <1>1, <2>1, <2>2, JobCreateTells
<1>2. CASE r.op = "WAITJID"
  BY <1>2, WaitJidTells DEF ProcessMesg
<1>3. CASE r.op = "DETACHJID"
  BY <1>3, DetachTells DEF ProcessMesg
<1>4. CASE r.op = "DETACHPID"
  BY <1>4, DetachTells DEF ProcessMesg
<1>5. CASE r.op = "ATTACHPID"
  <2>1. r.pid \in Pid
    BY <1>5 DEF Request
  <2> QED
    BY <1>5, <2>1, AttachPidTells DEF ProcessMesg
<1>6. CASE r.op = "SETHID"
  <2>1. r.hid \in Hid \cup {DISABLED}
    BY <1>6 DEF Request
  <2> QED
    BY <1>6, <2>1, SetHidTells DEF ProcessMesg
<1>7. CASE r.op \in {"KILLJID", "GETJID", "GETJIDCNT", "GETJIDLST", "GETPIDCNT", "GETPIDLST",
                     "GETUSER", "GETPRIMEPID"}
  BY <1>7, QueriesTell DEF ProcessMesg
<1>8. r.op \in Op
  BY DEF Request, Op
<1> QED
  BY <1>1, <1>2, <1>3, <1>4, <1>5, <1>6, <1>7, <1>8 DEF Op

(***************************************************************************)
(* Answers have reached their callers when a request is read.              *)
(***************************************************************************)
AnswersTaken == sel # "none" => \A c \in Client : tbl.answer[c] = NoAnswer
FreshInv == Inv /\ AnswersTaken

LEMMA AnsweredNone ==
  ASSUME NEW t \in Memory, NEW c \in Client
  PROVE  Answered(t).answer[c] = NoAnswer
BY DEF Answered, Memory

LEMMA NextTaken ==
  ASSUME FreshInv, [Next]_vars
  PROVE  AnswersTaken'
<1> tbl \in Memory
  BY OkInv DEF FreshInv, Ok
<1>1. CASE Select
  BY <1>1, AnsweredNone DEF Select, AnswersTaken
<1>2. CASE RecvNl
  BY <1>2 DEF RecvNl, AnswersTaken
<1>3. CASE AcceptCsa \/ RecvCsa \/ Stop
  BY <1>3 DEF AcceptCsa, RecvCsa, Stop, Down, AnswersTaken
<1>4. CASE RecvUnix
  BY <1>4 DEF RecvUnix, Down, AnswersTaken
<1>5. CASE CsadRead
  <2>1. tbl'.answer = tbl.answer /\ sel' = sel
    BY <1>5 DEF CsadRead, Memory
  <2> QED
    BY <2>1 DEF FreshInv, AnswersTaken
<1>6. CASE CsadStop
  <2>1. tbl'.answer = tbl.answer /\ sel' = sel
    BY <1>6 DEF CsadStop, Memory
  <2> QED
    BY <2>1 DEF FreshInv, AnswersTaken
<1>7. CASE Start \/ CsadStart \/ CsadConnect \/ CsadReport \/ UNCHANGED vars
  <2>1. tbl' = tbl /\ sel' = sel
    BY <1>7 DEF Start, CsadStart, CsadConnect, CsadReport, vars
  <2> QED
    BY <2>1 DEF FreshInv, AnswersTaken
<1>8. CASE SubmitStep \/ (\E p, c \in Pid : ForkStep(p, c)) \/ (\E p \in Pid, s \in Status : ExitStep(p, s))
           \/ (\E p \in Pid : ReapStep(p))
  <2>1. tbl' = tbl /\ sel' = sel
    BY <1>8 DEF SubmitStep, Submit, ForkStep, ExitStep, ReapStep
  <2> QED
    BY <2>1 DEF FreshInv, AnswersTaken
<1> QED
  BY <1>1, <1>2, <1>3, <1>4, <1>5, <1>6, <1>7, <1>8 DEF Next, JobdStep, CsadStep

(* jobd has sent its answers before it looks for the next request, so that *)
(* an answer in its memory is that of the request just read.               *)
THEOREM FreshInvariance == Spec => []FreshInv
<1>1. Init => FreshInv
  BY InitInv DEF Init, FreshInv, AnswersTaken
<1>2. FreshInv /\ [Next]_vars => FreshInv'
  BY NextInv, NextTaken DEF FreshInv
<1> QED
  BY <1>1, <1>2, PTL DEF Spec

(* What a step tells the caller of job_create(). *)
CreateTold ==
  \A c \in Client :
    /\ cnOn' /\ tbl'.answer # tbl.answer
    /\ tbl'.answer[c].op = "CREATE" /\ tbl'.answer[c].err = "OK"
    => LET j == tbl'.answer[c].jid
       IN /\ j \in Jid \ tbl.jobTab /\ j \in tbl'.jobTab
          /\ tbl'.job[j].proclist = <<Head(reqq).r.pid>>

LEMMA NobodyTold ==
  ASSUME NEW t \in Memory, \A c \in Client : t.answer[c] = NoAnswer, OnlyWaiters(t, tbl')
  PROVE  CreateTold
<1>1. \A c \in Client : tbl'.answer[c] = NoAnswer \/ tbl'.answer[c].op = "WAITJID"
  BY DEF OnlyWaiters
<1>2. NoAnswer.op = ""
  BY DEF NoAnswer
<1>3. \A c \in Client : tbl'.answer[c].op # "CREATE"
  BY <1>1, <1>2
<1> QED
  BY <1>3 DEF CreateTold

LEMMA RecvNlCreates ==
  ASSUME FreshInv, RecvNl
  PROVE  CreateTold
<1> DEFINE e == Head(nlq)
           t == Answered(tbl)
<1>1. nlq \in Seq(Event) /\ nlq # <<>>
  BY DEF FreshInv, Inv, TypeOK, KernelTypeOK, RecvNl
<1>2. e \in Event
  BY <1>1, HeadTail
<1>3. e.pid \in Pid /\ e.parent \in Pid /\ e.status \in Status /\ (e.what = "FORK" => e.pid # e.parent)
  BY <1>2 DEF Event
<1>4. t \in Memory /\ TablesAgree(t) /\ \A c \in Client : t.answer[c] = NoAnswer
  BY OkInv, AnsweredOk, AnsweredNone DEF FreshInv, Ok
<1>5. tbl' = IF e.what = "FORK" THEN ForkHandler(t, e.parent, e.pid)
             ELSE ExitEventHandler(t, e.pid, e.status)
  BY DEF RecvNl
<1> HIDE DEF e, t
<1>6. OnlyWaiters(t, tbl')
  <2>1. CASE e.what = "FORK"
    <3>1. e.pid \in Pid \ {e.parent}
      BY <1>3, <2>1
    <3>2. OnlyWaiters(t, ForkHandler(t, e.parent, e.pid))
      BY <1>3, <1>4, <3>1, ForkTells
    <3> QED
      BY <1>5, <2>1, <3>2
  <2>2. CASE e.what # "FORK"
    <3>1. OnlyWaiters(t, ExitEventHandler(t, e.pid, e.status))
      BY <1>3, <1>4, ExitTells
    <3> QED
      BY <1>5, <2>2, <3>1
  <2> QED
    BY <2>1, <2>2
<1> QED
  BY <1>4, <1>6, NobodyTold

LEMMA RecvCsaCreates ==
  ASSUME FreshInv, RecvCsa
  PROVE  CreateTold
<1> DEFINE m == Head(fromCsa)
<1>1. fromCsa \in Seq(CsaItem) /\ fromCsa # <<>>
  BY DEF FreshInv, Inv, TypeOK, SelReady, RecvCsa
<1>2. m \in CsaItem
  BY <1>1, HeadTail
<1>3. m.what = "NOTICE" => m.pid \in Pid /\ m.status \in Status
  BY <1>2 DEF CsaItem, CONNECT, EOF
<1>4. tbl' = IF m.what = "NOTICE" THEN ExitHandler(tbl, m.pid, m.status)
             ELSE [tbl EXCEPT !.csaActive = FALSE]
  BY DEF RecvCsa
<1> HIDE DEF m
<1>5. tbl \in Memory /\ TablesAgree(tbl) /\ \A c \in Client : tbl.answer[c] = NoAnswer
  BY OkInv DEF FreshInv, AnswersTaken, RecvCsa, Ok
<1>6. OnlyWaiters(tbl, tbl')
  <2>1. CASE m.what = "NOTICE"
    BY <1>3, <1>4, <1>5, <2>1, ExitTells
  <2>2. CASE m.what # "NOTICE"
    BY <1>4, <1>5, <2>2 DEF Memory, OnlyWaiters
  <2> QED
    BY <2>1, <2>2
<1> QED
  BY <1>5, <1>6, NobodyTold

LEMMA RecvUnixCreates ==
  ASSUME FreshInv, RecvUnix
  PROVE  CreateTold
<1> DEFINE c == Head(reqq).c
           r == Head(reqq).r
           done == ProcessMesg(tbl, c, r, Existing)
<1>1. reqq \in Seq([c : Client, r : Request]) /\ reqq # <<>>
  BY DEF FreshInv, Inv, TypeOK, SelReady, RecvUnix
<1>2. Head(reqq) \in [c : Client, r : Request]
  BY <1>1, HeadTail
<1>3. c \in Client /\ r \in Request
  BY <1>2
<1>4. Ok(tbl) /\ tbl.hid # DISABLED /\ \A b \in Client : tbl.answer[b] = NoAnswer
  BY OkInv DEF FreshInv, AnswersTaken, RecvUnix
<1>5. cnOn' = FALSE \/ tbl' = done
  BY DEF RecvUnix, Down
<1> HIDE DEF c, r
<1>6. /\ AnsweredAs(tbl, done, c, r.op)
      /\ r.op = "CREATE" /\ done.answer[c].err = "OK" => Fresh(tbl, done, done.answer[c].jid, r.pid)
  BY <1>3, <1>4, ProcessMesgTells
<1> HIDE DEF done
<1>7. NoAnswer.op = ""
  BY DEF NoAnswer
<1> SUFFICES ASSUME cnOn', NEW b \in Client, tbl'.answer[b].op = "CREATE", tbl'.answer[b].err = "OK"
             PROVE  Fresh(tbl, tbl', tbl'.answer[b].jid, Head(reqq).r.pid)
  BY DEF CreateTold, Fresh
<1>8. tbl' = done
  BY <1>5
<1>9. b = c /\ r.op = "CREATE"
  BY <1>4, <1>6, <1>7, <1>8 DEF AnsweredAs
<1> QED
  BY <1>6, <1>8, <1>9 DEF r

(* The job that job_create() answers with was not in the job table before  *)
(* the step, is in it afterwards, and has the process of the request as    *)
(* its only member, whatever job that process was in.                      *)
THEOREM CreatedAlwaysFresh == Spec => CreatedJobIsFresh
<1>1. FreshInv /\ [Next]_vars => [CreateTold]_vars
  <2> SUFFICES ASSUME FreshInv, Next PROVE CreateTold
    OBVIOUS
  <2> tbl \in Memory
    BY OkInv DEF FreshInv, Ok
  <2>1. CASE RecvNl
    BY <2>1, RecvNlCreates
  <2>2. CASE RecvCsa
    BY <2>2, RecvCsaCreates
  <2>3. CASE RecvUnix
    BY <2>3, RecvUnixCreates
  <2>4. CASE Select
    <3>1. \A c \in Client : tbl'.answer[c] = NoAnswer
      BY <2>4, AnsweredNone DEF Select
    <3>2. NoAnswer.op = ""
      BY DEF NoAnswer
    <3>3. \A c \in Client : tbl'.answer[c].op # "CREATE"
      BY <3>1, <3>2
    <3> QED
      BY <3>3 DEF CreateTold
  <2>5. CASE Stop
    BY <2>5 DEF Stop, Down, CreateTold
  <2>6. CASE AcceptCsa \/ CsadRead \/ CsadStop
    <3>1. tbl'.answer = tbl.answer
      <4>1. CASE AcceptCsa
        BY <4>1 DEF AcceptCsa, Memory
      <4>2. CASE CsadRead
        BY <4>2 DEF CsadRead, Memory
      <4>3. CASE CsadStop
        BY <4>3 DEF CsadStop, Memory
      <4> QED
        BY <2>6, <4>1, <4>2, <4>3
    <3> QED
      BY <3>1 DEF CreateTold
  <2>7. CASE Start \/ CsadStart \/ CsadConnect \/ CsadReport
    <3>1. tbl' = tbl
      BY <2>7 DEF Start, CsadStart, CsadConnect, CsadReport
    <3> QED
      BY <3>1 DEF CreateTold
  <2>8. CASE SubmitStep \/ (\E p, c \in Pid : ForkStep(p, c)) \/ (\E p \in Pid, s \in Status : ExitStep(p, s))
             \/ (\E p \in Pid : ReapStep(p))
    <3>1. tbl' = tbl
      BY <2>8 DEF SubmitStep, Submit, ForkStep, ExitStep, ReapStep
    <3> QED
      BY <3>1 DEF CreateTold
  <2> QED
    BY <2>1, <2>2, <2>3, <2>4, <2>5, <2>6, <2>7, <2>8 DEF Next, JobdStep, CsadStep
<1> QED
  BY <1>1, FreshInvariance, PTL DEF CreatedJobIsFresh, CreateTold, Spec
=============================================================================
