--------------------------- MODULE JobTableProofs ---------------------------
(***************************************************************************)
(* Lemmas about the handlers of jobd: each of them keeps the memory well   *)
(* typed and the tables in agreement, whatever the number of processes,    *)
(* jobs and callers.                                                       *)
(***************************************************************************)
EXTENDS JobTable, TLAPS, SequenceTheorems, FiniteSetTheorems, WellFoundedInduction

(***************************************************************************)
(* Data                                                                    *)
(***************************************************************************)
(* A set of naturals that is not empty has a least element. *)
LEMMA MinExists ==
  ASSUME NEW T \in SUBSET Nat, T # {}
  PROVE \E x \in T : \A y \in T : x <= y
<1>1. \E x \in T : \A y \in T : ~ (<<y, x>> \in OpToRel(<, Nat))
  BY NatLessThanWellFounded, WFMin
<1>2. PICK x \in T : \A y \in T : ~ (<<y, x>> \in OpToRel(<, Nat))
  BY <1>1
<1>3. ASSUME NEW y \in T PROVE x <= y
  <2>1. x \in Nat /\ y \in Nat OBVIOUS
  <2>2. y < x => <<y, x>> \in OpToRel(<, Nat) BY <2>1 DEF OpToRel
  <2>3. ~ (<<y, x>> \in OpToRel(<, Nat)) BY <1>2
  <2>4. ~ (y < x) BY <2>2, <2>3, Zenon
  <2> QED BY <2>1, <2>4
<1> QED BY <1>3

Injective(s) == \A h, i \in DOMAIN s : s[h] = s[i] => h = i

(* Removing an element from a list without repetitions. *)
LEMMA RemoveFirstProperties ==
  ASSUME NEW S, NEW s \in Seq(S), Injective(s), NEW i \in DOMAIN s
  PROVE  LET w == RemoveFirst(s, s[i])
         IN /\ w \in Seq(S)
            /\ Len(w) = Len(s) - 1
            /\ Injective(w)
            /\ ToSet(w) = ToSet(s) \ {s[i]}
<1> DEFINE k == SelectInSeq(s, LAMBDA v : v = s[i])
           w == RemoveFirst(s, s[i])
<1>0. i \in 1 .. Len(s) /\ Len(s) \in Nat
  OBVIOUS
<1>00. {h \in 1 .. Len(s) : s[h] = s[i]} = {i}
  BY <1>0 DEF Injective
<1>1. k = i /\ i \in 1 .. Len(s) /\ Len(s) \in Nat
  BY <1>0, <1>00 DEF SelectInSeq, Min
<1>2. w = SubSeq(s, 1, i - 1) \o SubSeq(s, i + 1, Len(s))
  BY <1>0, <1>1 DEF RemoveFirst, RemoveAt
<1> DEFINE a == SubSeq(s, 1, i - 1)  b == SubSeq(s, i + 1, Len(s))
<1>3. /\ a \in Seq(S) /\ Len(a) = i - 1 /\ \A h \in 1 .. (i - 1) : a[h] = s[h]
  BY <1>1, SubSeqProperties
<1>4. /\ b \in Seq(S) /\ Len(b) = Len(s) - i /\ \A h \in 1 .. (Len(s) - i) : b[h] = s[h + i]
  BY <1>1, SubSeqProperties
<1>5. /\ w \in Seq(S) /\ Len(w) = Len(s) - 1
      /\ \A h \in 1 .. (Len(s) - 1) : w[h] = IF h < i THEN s[h] ELSE s[h + 1]
  <2> HIDE DEF a, b
  <2>1. w = a \o b BY <1>2 DEF a, b
  <2>2. /\ a \o b \in Seq(S) /\ Len(a \o b) = Len(a) + Len(b)
        /\ \A h \in 1 .. (Len(a) + Len(b)) : (a \o b)[h] = IF h <= Len(a) THEN a[h] ELSE b[h - Len(a)]
    BY <1>3, <1>4, ConcatProperties
  <2>3. Len(a) + Len(b) = Len(s) - 1 BY <1>1, <1>3, <1>4
  <2>4. ASSUME NEW h \in 1 .. (Len(s) - 1) PROVE (a \o b)[h] = IF h < i THEN s[h] ELSE s[h + 1]
    <3>1. CASE h < i BY <1>1, <1>3, <1>4, <2>2, <2>3, <3>1
    <3>2. CASE ~(h < i)
      <4>1. h - Len(a) \in 1 .. (Len(s) - i) /\ (h - Len(a)) + i = h + 1
        BY <1>1, <1>3, <3>2
      <4>2. (a \o b)[h] = b[h - Len(a)] BY <1>1, <1>3, <2>2, <2>3, <3>2
      <4>3. b[h - Len(a)] = s[(h - Len(a)) + i] BY <1>4, <4>1
      <4> QED BY <3>2, <4>1, <4>2, <4>3
    <3> QED BY <3>1, <3>2
  <2> QED BY <2>1, <2>2, <2>3, <2>4
<1> HIDE DEF w, k
<1>6. DOMAIN w = 1 .. (Len(s) - 1) /\ DOMAIN s = 1 .. Len(s)
  BY <1>5
<1>7. Injective(w)
  BY <1>1, <1>5, <1>6 DEF Injective
<1>8. ToSet(w) = ToSet(s) \ {s[i]}
  <2>1. ASSUME NEW x \in ToSet(w) PROVE x \in ToSet(s) \ {s[i]}
    <3>1. PICK h \in 1 .. (Len(s) - 1) : x = w[h] BY <1>6 DEF ToSet
    <3>2. \E g \in 1 .. Len(s) : g # i /\ x = s[g]
      <4>1. CASE h < i
        <5>1. h \in 1 .. Len(s) /\ h # i BY <1>1, <4>1
        <5>2. x = s[h] BY <1>5, <3>1, <4>1
        <5> QED BY <5>1, <5>2
      <4>2. CASE ~(h < i)
        <5>1. h + 1 \in 1 .. Len(s) /\ h + 1 # i BY <1>1, <4>2
        <5>2. x = s[h + 1] BY <1>5, <3>1, <4>2
        <5> QED BY <5>1, <5>2
      <4> QED BY <4>1, <4>2
    <3> QED BY <1>1, <1>6, <3>2 DEF ToSet, Injective
  <2>2. ASSUME NEW x \in ToSet(s) \ {s[i]} PROVE x \in ToSet(w)
    <3>1. PICK g \in 1 .. Len(s) : x = s[g] /\ g # i BY <1>6 DEF ToSet
    <3>2. \E h \in 1 .. (Len(s) - 1) : x = w[h]
      <4>1. CASE g < i BY <1>1, <1>5, <3>1, <4>1
      <4>2. CASE g > i
        <5>1. g - 1 \in 1 .. (Len(s) - 1) /\ ~(g - 1 < i) /\ (g - 1) + 1 = g BY <1>1, <3>1, <4>2
        <5>2. w[g - 1] = s[(g - 1) + 1] BY <1>5, <5>1
        <5> QED BY <3>1, <5>1, <5>2
      <4> QED BY <1>1, <3>1, <4>1, <4>2
    <3> QED BY <1>6, <3>2 DEF ToSet
  <2> QED BY <2>1, <2>2
<1> QED BY <1>5, <1>7, <1>8 DEF w

(* A JID fits its host ID and its counter. *)
LEMMA MkJidRange ==
  ASSUME NEW h \in Hid, NEW s \in 0 .. (SidCount - 1)
  PROVE  MkJid(h, s) \in Jid \cup {NoJid}
<1>1. HidCount \in Nat /\ SidCount \in Nat /\ h \in Nat /\ s \in Nat /\ h <= HidCount - 1 /\ s <= SidCount - 1
  BY ParamsAssumption DEF Hid
<1>2. h * SidCount \in Nat /\ (HidCount - 1) * SidCount = HidCount * SidCount - SidCount
  BY <1>1
<1>3. h * SidCount <= (HidCount - 1) * SidCount
  BY <1>1
<1>4. HidCount * SidCount \in Nat
  BY <1>1
<1> QED
  BY <1>1, <1>2, <1>3, <1>4 DEF MkJid, Jid, NoJid

LEMMA ModRange ==
  ASSUME NEW x \in Nat
  PROVE  x % SidCount \in 0 .. (SidCount - 1)
  BY ParamsAssumption

(* The JID generator stops after at most SidCount tries, and stops early   *)
(* only at a JID that is free.                                             *)
LEMMA TriesProperties ==
  ASSUME NEW t
  PROVE  /\ Tries(t) \in 0 .. (SidCount - 1)
         /\ Usable(t, Tries(t)) \/ Tries(t) = SidCount - 1
<1> DEFINE T == {k \in 0 .. (SidCount - 1) : Usable(t, k) \/ k = SidCount - 1}
<1>1. SidCount \in Nat \ {0}
  BY ParamsAssumption
<1>2. T \in SUBSET Nat /\ SidCount - 1 \in T
  BY <1>1
<1>3. PICK k \in T : \A y \in T : k <= y
  <2> HIDE DEF T
  <2> QED BY <1>2, MinExists
<1>4. \A i \in 0 .. (k - 1) : ~ Usable(t, i)
  <2>1. ASSUME NEW i \in 0 .. (k - 1), Usable(t, i) PROVE FALSE
    <3>1. i \in 0 .. (SidCount - 1) /\ i < k BY <1>1, <1>3
    <3>2. i \in T BY <2>1, <3>1
    <3> QED BY <1>3, <3>1, <3>2
  <2> QED BY <2>1
<1>5. \E x \in 0 .. (SidCount - 1) :
        /\ \A i \in 0 .. (x - 1) : ~ Usable(t, i)
        /\ Usable(t, x) \/ x = SidCount - 1
  BY <1>3, <1>4
<1> QED BY <1>5 DEF Tries

(***************************************************************************)
(* Pieces of the memory                                                    *)
(***************************************************************************)
(* What TablesAgree depends on. *)
SameTables(t, u) ==
  /\ u.jobTab = t.jobTab /\ u.nJobs = t.nJobs /\ u.job = t.job
  /\ u.procTab = t.procTab /\ u.proc = t.proc

LEMMA SameTablesAgree ==
  ASSUME NEW t, NEW u, SameTables(t, u), TablesAgree(t)
  PROVE  TablesAgree(u)
<1>1. ProcHasJob(u) BY DEF SameTables, TablesAgree, ProcHasJob
<1>2. ListsAgree(u) BY DEF SameTables, TablesAgree, ListsAgree
<1>3. RefcntAgrees(u) BY DEF SameTables, TablesAgree, RefcntAgrees
<1>4. FreedEntries(u) BY DEF SameTables, TablesAgree, FreedEntries
<1>5. JobsCounted(u) BY DEF SameTables, TablesAgree, JobsCounted
<1> QED BY <1>1, <1>2, <1>3, <1>4, <1>5 DEF TablesAgree

LEMMA FreeTypes ==
  FreeJob \in JobEntry /\ FreeProc \in ProcEntry
<1>1. 0 \in Status
  BY ParamsAssumption
<1>2. FreeJob \in JobEntry
  BY <1>1 DEF FreeJob, JobEntry
<1>3. FreeProc \in ProcEntry
  BY <1>1 DEF FreeProc, ProcEntry
<1> QED BY <1>2, <1>3

LEMMA NoElements ==
  ASSUME NEW S, NEW s \in Seq(S), Len(s) = 0
  PROVE  ToSet(s) = {}
<1>1. DOMAIN s = 1 .. 0 OBVIOUS
<1>2. DOMAIN s = {} BY <1>1
<1> QED BY <1>2 DEF ToSet

(* What happens to one entry. *)
LEMMA DropWaitersType ==
  ASSUME NEW e \in JobEntry
  PROVE  /\ DropWaiters(e) \in JobEntry
         /\ DropWaiters(e).proclist = e.proclist /\ DropWaiters(e).refcnt = e.refcnt
<1> DEFINE n == e.waitcnt - Len(e.waitq)
<1>1. n \in Int BY DEF JobEntry
<1> HIDE DEF n
<1>2. <<>> \in Seq(Client) OBVIOUS
<1>3. ASSUME NEW q \in Seq(Client)
      PROVE  LET f == [e EXCEPT !.waitq = q, !.waitcnt = n]
             IN f \in JobEntry /\ f.proclist = e.proclist /\ f.refcnt = e.refcnt
  BY <1>1 DEF JobEntry
<1>4. LET f == [e EXCEPT !.waitq = <<>>, !.waitcnt = n]
      IN f \in JobEntry /\ f.proclist = e.proclist /\ f.refcnt = e.refcnt
  BY <1>2, <1>3, Zenon
<1> QED BY <1>4, Zenon DEF DropWaiters, n

LEMMA ProcJoinsType ==
  ASSUME NEW e \in JobEntry, NEW p \in Pid
  PROVE  /\ ProcJoins(e, p) \in JobEntry
         /\ ProcJoins(e, p).proclist = <<p>> \o e.proclist
         /\ ProcJoins(e, p).refcnt = e.refcnt + 1
<1> DEFINE n == e.refcnt + 1
           l == <<p>> \o e.proclist
<1>1. n \in Int /\ l \in Seq(Pid) BY DEF JobEntry
<1>2. ProcJoins(e, p) = [e EXCEPT !.proclist = l, !.refcnt = n] BY DEF ProcJoins
<1> HIDE DEF n, l
<1>3. LET f == [e EXCEPT !.proclist = l, !.refcnt = n]
      IN f \in JobEntry /\ f.proclist = l /\ f.refcnt = n
  BY <1>1 DEF JobEntry
<1> QED BY <1>2, <1>3 DEF n, l

LEMMA ProcLeavesType ==
  ASSUME NEW e \in JobEntry, NEW i \in DOMAIN e.proclist, Injective(e.proclist),
         NEW status \in Status
  PROVE  LET f == ProcLeaves(e, e.proclist[i], status)
         IN /\ f \in JobEntry /\ f.refcnt = e.refcnt - 1
            /\ Len(f.proclist) = Len(e.proclist) - 1 /\ Injective(f.proclist)
            /\ ToSet(f.proclist) = ToSet(e.proclist) \ {e.proclist[i]}
<1> DEFINE n == e.refcnt - 1
           l == RemoveFirst(e.proclist, e.proclist[i])
<1>1. n \in Int /\ e.proclist \in Seq(Pid) BY DEF JobEntry
<1>2. /\ l \in Seq(Pid) /\ Len(l) = Len(e.proclist) - 1 /\ Injective(l)
      /\ ToSet(l) = ToSet(e.proclist) \ {e.proclist[i]}
  BY <1>1, RemoveFirstProperties
<1>3. ProcLeaves(e, e.proclist[i], status) = [e EXCEPT !.proclist = l, !.waitstat = status, !.refcnt = n]
  BY DEF ProcLeaves
<1> HIDE DEF n, l
<1>4. LET f == [e EXCEPT !.proclist = l, !.waitstat = status, !.refcnt = n]
      IN f \in JobEntry /\ f.proclist = l /\ f.refcnt = n
  BY <1>1, <1>2 DEF JobEntry
<1> QED BY <1>2, <1>3, <1>4 DEF n

LEMMA ProcsLeaveType ==
  ASSUME NEW e \in JobEntry
  PROVE  ProcsLeave(e) \in JobEntry /\ ProcsLeave(e).refcnt = e.refcnt - Len(e.proclist)
<1> DEFINE n == e.refcnt - Len(e.proclist)
<1>1. n \in Int BY DEF JobEntry
<1> HIDE DEF n
<1>2. <<>> \in Seq(Pid) /\ 0 \in Status BY ParamsAssumption
<1>3. ASSUME NEW l \in Seq(Pid), NEW s \in Status
      PROVE  LET f == [e EXCEPT !.proclist = l, !.waitstat = s, !.refcnt = n]
             IN f \in JobEntry /\ f.refcnt = n
  BY <1>1 DEF JobEntry
<1>4. LET f == [e EXCEPT !.proclist = <<>>, !.waitstat = 0, !.refcnt = n]
      IN f \in JobEntry /\ f.refcnt = n
  BY <1>2, <1>3, Zenon
<1> QED BY <1>4, Zenon DEF ProcsLeave, n

LEMMA AnswerType ==
  ASSUME NEW op \in Op, NEW err \in Err, NEW jid \in Jid \cup {NoJid},
         NEW val \in Int, NEW list \in Seq(Pid)
  PROVE  [op |-> op, err |-> err, jid |-> jid, val |-> val, list |-> list] \in Answer
  BY DEF Answer

LEMMA ReplyKeeps ==
  ASSUME NEW t \in Memory, NEW c \in Client, NEW op \in Op, NEW err \in Err,
         NEW jid \in Jid \cup {NoJid}, NEW val \in Int
  PROVE  LET u == Reply(t, c, op, err, jid, val)
         IN u \in Memory /\ SameTables(t, u) /\ u.hid = t.hid
<1> DEFINE a == [op |-> op, err |-> err, jid |-> jid, val |-> val, list |-> <<>>]
<1>1. a \in Answer
  <2>1. <<>> \in Seq(Pid) OBVIOUS
  <2> QED BY <2>1, AnswerType, Zenon
<1> HIDE DEF a
<1>2. [t EXCEPT !.answer[c] = a] \in Memory BY <1>1 DEF Memory
<1>3. SameTables(t, [t EXCEPT !.answer[c] = a]) /\ [t EXCEPT !.answer[c] = a].hid = t.hid
  BY DEF Memory, SameTables
<1> QED BY <1>2, <1>3 DEF Reply, a

LEMMA ReplyListKeeps ==
  ASSUME NEW t \in Memory, NEW c \in Client, NEW op \in Op, NEW err \in Err,
         NEW jid \in Jid \cup {NoJid}, NEW list \in Seq(Pid)
  PROVE  LET u == ReplyList(t, c, op, err, jid, list)
         IN u \in Memory /\ SameTables(t, u) /\ u.hid = t.hid
<1> DEFINE a == [op |-> op, err |-> err, jid |-> jid, val |-> Len(list), list |-> list]
<1>1. a \in Answer
  <2>1. Len(list) \in Int OBVIOUS
  <2> QED BY <2>1, AnswerType, Zenon
<1> HIDE DEF a
<1>2. [t EXCEPT !.answer[c] = a] \in Memory BY <1>1 DEF Memory
<1>3. SameTables(t, [t EXCEPT !.answer[c] = a]) /\ [t EXCEPT !.answer[c] = a].hid = t.hid
  BY DEF Memory, SameTables
<1> QED BY <1>2, <1>3 DEF ReplyList, a

LEMMA SendCsaKeeps ==
  ASSUME NEW t \in Memory, NEW type \in {"START", "END"}, NEW j \in Jid
  PROVE  LET u == SendCsa(t, type, j)
         IN u \in Memory /\ SameTables(t, u) /\ u.hid = t.hid
<1> DEFINE e == [type |-> type, jid |-> j]
           q == Append(t.toCsa, e)
<1>1. q \in Seq(CsaEvent)
  BY AppendProperties DEF CsaEvent, Memory
<1> HIDE DEF q
<1>2. CASE t.csaPeer
  <2>1. SendCsa(t, type, j) = [t EXCEPT !.toCsa = q] BY <1>2 DEF SendCsa, q, Memory
  <2> QED BY <1>1, <2>1 DEF Memory, SameTables
<1>3. CASE ~ t.csaPeer
  BY <1>3 DEF SendCsa, Memory, SameTables
<1> QED BY <1>2, <1>3

LEMMA JobEventsKeep ==
  ASSUME NEW t \in Memory, NEW j \in Jid
  PROVE  /\ CSA_jobstart(t, j) \in Memory /\ SameTables(t, CSA_jobstart(t, j))
         /\ CSA_jobstart(t, j).hid = t.hid
         /\ CSA_jobend(t, j) \in Memory /\ SameTables(t, CSA_jobend(t, j))
         /\ CSA_jobend(t, j).hid = t.hid
  BY SendCsaKeeps DEF CSA_jobstart, CSA_jobend, SameTables

(* reply_to_waiters() changes answers and the queue of one job. *)
LEMMA ReplyToWaitersKeeps ==
  ASSUME NEW t \in Memory, NEW j \in Jid
  PROVE  LET u == ReplyToWaiters(t, j)
         IN /\ u \in Memory /\ u.hid = t.hid
            /\ u.jobTab = t.jobTab /\ u.nJobs = t.nJobs
            /\ u.procTab = t.procTab /\ u.proc = t.proc
            /\ \A k \in Jid \ {j} : u.job[k] = t.job[k]
<1> DEFINE ans == [c \in Client |->
             IF c \in ToSet(t.job[j].waitq)
             THEN [op |-> "WAITJID", err |-> "OK", jid |-> j,
                   val |-> t.job[j].waitstat, list |-> <<>>]
             ELSE t.answer[c]]
           e == DropWaiters(t.job[j])
<1>1. t.job[j] \in JobEntry /\ t.job \in [Jid -> JobEntry] /\ t.answer \in [Client -> Answer]
  BY DEF Memory
<1>2. t.job[j].waitstat \in Int /\ t.job[j].waitq \in Seq(Client) /\ t.job[j].waitcnt \in Int
  <2>1. Status \subseteq Int BY ParamsAssumption
  <2>2. t.job[j].waitstat \in Status /\ t.job[j].waitq \in Seq(Client) /\ t.job[j].waitcnt \in Int
    BY <1>1 DEF JobEntry
  <2> QED BY <2>1, <2>2
<1>3. ans \in [Client -> Answer]
  <2>1. [op |-> "WAITJID", err |-> "OK", jid |-> j, val |-> t.job[j].waitstat, list |-> <<>>]
          \in Answer
    <3>1. "WAITJID" \in Op /\ "OK" \in Err BY DEF Op, Err
    <3>2. j \in Jid \cup {NoJid} /\ <<>> \in Seq(Pid) OBVIOUS
    <3> QED BY <1>2, <3>1, <3>2, AnswerType, Zenon
  <2> QED BY <1>1, <2>1
<1>4. e \in JobEntry
  BY <1>1, DropWaitersType
<1>5. ReplyToWaiters(t, j) = [t EXCEPT !.answer = ans, !.job = [t.job EXCEPT ![j] = e]]
  BY <1>1 DEF ReplyToWaiters, Memory
<1> HIDE DEF ans, e
<1>6. [t.job EXCEPT ![j] = e] \in [Jid -> JobEntry]
  BY <1>1, <1>4
<1> DEFINE f == [t.job EXCEPT ![j] = e]
<1>7. \A k \in Jid \ {j} : f[k] = t.job[k]
  BY <1>1
<1> HIDE DEF f
<1>8. LET u == [t EXCEPT !.answer = ans, !.job = f]
      IN /\ u \in Memory /\ u.hid = t.hid
         /\ u.jobTab = t.jobTab /\ u.nJobs = t.nJobs
         /\ u.procTab = t.procTab /\ u.proc = t.proc /\ u.job = f
  BY <1>3, <1>6 DEF Memory, f
<1> QED BY <1>5, <1>7, <1>8 DEF f

(* job_cleanup() frees a job without processes and touches nothing else. *)
LEMMA JobCleanupKeeps ==
  ASSUME NEW t \in Memory, NEW j \in Jid, t.job[j].refcnt = 0
  PROVE  LET u == JobCleanup(t, j)
         IN /\ u \in Memory /\ u.hid = t.hid
            /\ u.jobTab = t.jobTab \ {j} /\ u.nJobs = t.nJobs - 1
            /\ u.procTab = t.procTab /\ u.proc = t.proc
            /\ u.job = [t.job EXCEPT ![j] = FreeJob]
<1> DEFINE a == UnlinkJobFromHash(t, j)
           b == IF a.job[j].waitcnt > 0 THEN ReplyToWaiters(a, j) ELSE a
           d == CSA_jobend(b, j)
<1>1. /\ a \in Memory /\ a.hid = t.hid
      /\ a.jobTab = t.jobTab \ {j} /\ a.nJobs = t.nJobs - 1
      /\ a.procTab = t.procTab /\ a.proc = t.proc /\ a.job = t.job
  <2>1. t.nJobs - 1 \in Int BY DEF Memory
  <2>2. a = [t EXCEPT !.jobTab = t.jobTab \ {j}, !.nJobs = t.nJobs - 1]
    BY DEF Memory, UnlinkJobFromHash
  <2> QED BY <2>1, <2>2 DEF Memory
<1> HIDE DEF a
<1>2. /\ b \in Memory /\ b.hid = a.hid
      /\ b.jobTab = a.jobTab /\ b.nJobs = a.nJobs
      /\ b.procTab = a.procTab /\ b.proc = a.proc
      /\ \A k \in Jid \ {j} : b.job[k] = a.job[k]
  BY <1>1, ReplyToWaitersKeeps
<1> HIDE DEF b
<1>3. d \in Memory /\ SameTables(b, d) /\ d.hid = b.hid
  BY <1>2, JobEventsKeep
<1> HIDE DEF d
<1>4. JobCleanup(t, j) = [d EXCEPT !.job[j] = FreeJob]
  BY DEF JobCleanup, a, b, d
<1>5. LET u == [d EXCEPT !.job[j] = FreeJob]
      IN /\ u \in Memory /\ u.hid = d.hid
         /\ u.jobTab = d.jobTab /\ u.nJobs = d.nJobs
         /\ u.procTab = d.procTab /\ u.proc = d.proc
         /\ u.job = [d.job EXCEPT ![j] = FreeJob]
  BY <1>3, FreeTypes DEF Memory
<1>6. [d.job EXCEPT ![j] = FreeJob] = [t.job EXCEPT ![j] = FreeJob]
  <2>1. d.job \in [Jid -> JobEntry] /\ t.job \in [Jid -> JobEntry]
    BY <1>3 DEF Memory
  <2>2. \A k \in Jid \ {j} : d.job[k] = t.job[k]
    BY <1>1, <1>2, <1>3 DEF SameTables
  <2> QED BY <2>1, <2>2
<1> QED BY <1>1, <1>2, <1>3, <1>4, <1>5, <1>6 DEF SameTables

(***************************************************************************)
(* Processes join and leave                                                *)
(***************************************************************************)
LEMMA AddProcToJobKeeps ==
  ASSUME NEW t \in Memory, NEW p \in Pid, NEW j \in Jid
  PROVE  LET u == AddProcToJob(t, p, j)
         IN /\ u \in Memory /\ u.hid = t.hid
            /\ u.jobTab = t.jobTab /\ u.nJobs = t.nJobs /\ u.procTab = t.procTab
            /\ u.job = [t.job EXCEPT ![j] = ProcJoins(t.job[j], p)]
            /\ u.proc = [t.proc EXCEPT ![p] = [t.proc[p] EXCEPT !.job = j]]
<1> DEFINE e == ProcJoins(t.job[j], p)
           x == [t.proc[p] EXCEPT !.job = j]
<1>1. t.job[j] \in JobEntry /\ t.proc[p] \in ProcEntry
  BY DEF Memory
<1>2. e \in JobEntry /\ x \in ProcEntry
  BY <1>1, ProcJoinsType DEF ProcEntry
<1>3. AddProcToJob(t, p, j) = [t EXCEPT !.proc[p] = x, !.job[j] = e]
  BY <1>1 DEF AddProcToJob, Memory, ProcEntry
<1> HIDE DEF e, x
<1>4. LET u == [t EXCEPT !.proc[p] = x, !.job[j] = e]
      IN /\ u \in Memory /\ u.hid = t.hid
         /\ u.jobTab = t.jobTab /\ u.nJobs = t.nJobs /\ u.procTab = t.procTab
         /\ u.job = [t.job EXCEPT ![j] = e] /\ u.proc = [t.proc EXCEPT ![p] = x]
  BY <1>2 DEF Memory
<1> QED BY <1>3, <1>4 DEF e, x

(* A process that is in no job joins a job of the table. *)
LEMMA JoinAgrees ==
  ASSUME NEW t \in Memory, TablesAgree(t), NEW j \in t.jobTab, NEW p \in Pid \ t.procTab
  PROVE  LET u == AddProcToHash(AddProcToJob(t, p, j), p)
         IN u \in Memory /\ TablesAgree(u) /\ u.hid = t.hid
<1> DEFINE a == AddProcToJob(t, p, j)
           u == AddProcToHash(a, p)
           e == ProcJoins(t.job[j], p)
<1>1. j \in Jid /\ t.job[j] \in JobEntry /\ t.job \in [Jid -> JobEntry] /\ t.proc \in [Pid -> ProcEntry]
  BY DEF Memory
<1>2. /\ a \in Memory /\ a.hid = t.hid
      /\ a.jobTab = t.jobTab /\ a.nJobs = t.nJobs /\ a.procTab = t.procTab
      /\ a.job = [t.job EXCEPT ![j] = e]
      /\ a.proc = [t.proc EXCEPT ![p] = [t.proc[p] EXCEPT !.job = j]]
  BY <1>1, AddProcToJobKeeps
<1> HIDE DEF a
<1>3. /\ u \in Memory /\ u.hid = t.hid
      /\ u.jobTab = t.jobTab /\ u.nJobs = t.nJobs /\ u.procTab = t.procTab \cup {p}
      /\ u.job = [t.job EXCEPT ![j] = e]
      /\ u.proc = [t.proc EXCEPT ![p] = [t.proc[p] EXCEPT !.job = j]]
  BY <1>2 DEF AddProcToHash, Memory
<1> HIDE DEF u
<1>4. e.proclist = <<p>> \o t.job[j].proclist /\ e.refcnt = t.job[j].refcnt + 1
  BY <1>1, ProcJoinsType
<1> HIDE DEF e
<1>5. /\ u.job[j] = e /\ \A k \in Jid \ {j} : u.job[k] = t.job[k]
      /\ u.proc[p].job = j /\ \A q \in Pid \ {p} : u.proc[q] = t.proc[q]
  BY <1>1, <1>3 DEF ProcEntry
<1> DEFINE old == t.job[j].proclist
           new == e.proclist
<1>6. old \in Seq(Pid)
  BY <1>1 DEF JobEntry
<1>7. /\ new \in Seq(Pid) /\ Len(new) = Len(old) + 1 /\ new[1] = p
      /\ \A i \in 2 .. Len(new) : i - 1 \in 1 .. Len(old) /\ new[i] = old[i - 1]
      /\ \A i \in 1 .. Len(old) : i + 1 \in 1 .. Len(new) /\ new[i + 1] = old[i]
  BY <1>4, <1>6
<1>8. \A i \in 1 .. Len(old) : old[i] \in t.procTab /\ t.proc[old[i]].job = j
  BY <1>6 DEF TablesAgree, ListsAgree
<1> HIDE DEF new
<1>9. ProcHasJob(u)
  <2> SUFFICES ASSUME NEW q \in u.procTab
               PROVE  u.proc[q].job \in u.jobTab /\ q \in ToSet(u.job[u.proc[q].job].proclist)
    BY DEF ProcHasJob
  <2>1. CASE q = p
    <3>1. new[1] = p /\ 1 \in DOMAIN new BY <1>6, <1>7
    <3> QED BY <1>3, <1>5, <2>1, <3>1 DEF ToSet, new
  <2>2. CASE q # p
    <3>1. q \in t.procTab /\ q \in Pid /\ u.proc[q] = t.proc[q] BY <1>3, <1>5, <2>2 DEF Memory
    <3>2. t.proc[q].job \in t.jobTab /\ q \in ToSet(t.job[t.proc[q].job].proclist)
      BY <3>1 DEF TablesAgree, ProcHasJob
    <3>3. CASE t.proc[q].job = j
      <4>1. PICK i \in 1 .. Len(old) : old[i] = q BY <1>6, <3>2, <3>3 DEF ToSet
      <4>2. i + 1 \in DOMAIN new /\ new[i + 1] = q BY <1>7, <4>1
      <4> QED BY <1>3, <1>5, <3>1, <3>3, <4>2 DEF ToSet, new
    <3>4. CASE t.proc[q].job # j
      <4>1. u.job[t.proc[q].job] = t.job[t.proc[q].job]
        BY <1>5, <3>2, <3>4 DEF Memory
      <4> QED BY <1>3, <3>1, <3>2, <4>1
    <3> QED BY <3>3, <3>4
  <2> QED BY <2>1, <2>2
<1>10. ListsAgree(u)
  <2> SUFFICES ASSUME NEW k \in u.jobTab
               PROVE  LET list == u.job[k].proclist
                      IN /\ \A i \in DOMAIN list : list[i] \in u.procTab /\ u.proc[list[i]].job = k
                         /\ Injective(list)
    BY DEF ListsAgree, Injective
  <2>1. CASE k = j
    <3>1. u.job[k].proclist = new /\ DOMAIN new = 1 .. Len(new)
      BY <1>5, <1>7, <2>1 DEF new
    <3>2. ASSUME NEW i \in 1 .. Len(new) PROVE new[i] \in u.procTab /\ u.proc[new[i]].job = k
      <4>1. CASE i = 1 BY <1>3, <1>5, <1>7, <2>1, <4>1
      <4>2. CASE i # 1
        <5>1. i \in 2 .. Len(new) BY <1>6, <1>7, <4>2
        <5>2. new[i] = old[i - 1] /\ i - 1 \in 1 .. Len(old) BY <1>7, <5>1
        <5>3. new[i] \in t.procTab /\ t.proc[new[i]].job = j BY <1>8, <5>2
        <5> QED BY <1>3, <1>5, <2>1, <5>3 DEF Memory
      <4> QED BY <4>1, <4>2
    <3>3. Injective(new)
      <4> SUFFICES ASSUME NEW h \in 1 .. Len(new), NEW i \in 1 .. Len(new), new[h] = new[i]
                   PROVE  h = i
        BY <3>1 DEF Injective
      <4>1. ASSUME NEW m \in 2 .. Len(new) PROVE new[m] # p
        <5>1. m - 1 \in 1 .. Len(old) /\ new[m] = old[m - 1] BY <1>7
        <5>2. new[m] \in t.procTab BY <1>8, <5>1
        <5> QED BY <5>2
      <4>2. CASE h = 1 \/ i = 1 BY <1>7, <4>1, <4>2
      <4>3. CASE h # 1 /\ i # 1
        <5>1. h \in 2 .. Len(new) /\ i \in 2 .. Len(new) BY <1>6, <1>7, <4>3
        <5>2. old[h - 1] = old[i - 1] /\ h - 1 \in 1 .. Len(old) /\ i - 1 \in 1 .. Len(old)
          BY <1>7, <5>1
        <5>3. h - 1 = i - 1 BY <1>6, <5>2 DEF TablesAgree, ListsAgree
        <5> QED BY <5>3
      <4> QED BY <4>2, <4>3
    <3> QED BY <3>1, <3>2, <3>3
  <2>2. CASE k # j
    <3>1. k \in t.jobTab /\ u.job[k] = t.job[k] BY <1>3, <1>5, <2>2 DEF Memory
    <3>2. \A i \in DOMAIN t.job[k].proclist :
            t.job[k].proclist[i] \in t.procTab /\ t.proc[t.job[k].proclist[i]].job = k
      BY <3>1 DEF TablesAgree, ListsAgree
    <3>3. Injective(t.job[k].proclist) BY <3>1 DEF TablesAgree, ListsAgree, Injective
    <3>4. \A q \in t.procTab : u.proc[q] = t.proc[q] BY <1>5 DEF Memory
    <3> QED BY <1>3, <3>1, <3>2, <3>3, <3>4
  <2> QED BY <2>1, <2>2
<1>11. RefcntAgrees(u)
  <2> SUFFICES ASSUME NEW k \in u.jobTab
               PROVE  u.job[k].refcnt = Len(u.job[k].proclist) /\ u.job[k].refcnt > 0
    BY DEF RefcntAgrees
  <2>1. t.job[k].refcnt = Len(t.job[k].proclist) /\ t.job[k].refcnt > 0
    BY <1>3 DEF TablesAgree, RefcntAgrees
  <2>2. CASE k = j
    <3>1. u.job[k].proclist = new /\ u.job[k].refcnt = t.job[k].refcnt + 1
      BY <1>4, <1>5, <2>2 DEF new
    <3>2. t.job[k].refcnt = Len(old) BY <2>1, <2>2
    <3> QED BY <1>6, <1>7, <3>1, <3>2
  <2>3. CASE k # j BY <1>3, <1>5, <2>1, <2>3 DEF Memory
  <2> QED BY <2>2, <2>3
<1>12. FreedEntries(u)
  BY <1>3, <1>5 DEF TablesAgree, FreedEntries
<1>13. JobsCounted(u)
  BY <1>3 DEF TablesAgree, JobsCounted
<1> QED BY <1>3, <1>9, <1>10, <1>11, <1>12, <1>13 DEF TablesAgree, u, a

LEMMA JidFinite ==
  IsFiniteSet(Jid)
<1>1. HidCount * SidCount - 1 \in Int
  BY ParamsAssumption
<1> QED BY <1>1, FS_Interval DEF Jid

(* A new job with one process that was in no job. *)
LEMMA NewJobAgrees ==
  ASSUME NEW t \in Memory, TablesAgree(t), NEW j \in Jid \ t.jobTab, NEW p \in Pid \ t.procTab,
         NEW u \in Memory,
         u.jobTab = t.jobTab \cup {j}, u.nJobs = t.nJobs + 1, u.procTab = t.procTab \cup {p},
         u.job[j].proclist = <<p>>, u.job[j].refcnt = 1, u.proc[p].job = j,
         \A k \in Jid \ {j} : u.job[k] = t.job[k],
         \A q \in Pid \ {p} : u.proc[q] = t.proc[q]
  PROVE  TablesAgree(u)
<1>1. t.jobTab \subseteq Jid /\ t.procTab \subseteq Pid
  BY DEF Memory
<1>2. DOMAIN u.job[j].proclist = {1} /\ u.job[j].proclist[1] = p
  OBVIOUS
<1>3. ProcHasJob(u)
  <2> SUFFICES ASSUME NEW q \in u.procTab
               PROVE  u.proc[q].job \in u.jobTab /\ q \in ToSet(u.job[u.proc[q].job].proclist)
    BY DEF ProcHasJob
  <2>1. CASE q = p BY <1>2, <2>1 DEF ToSet
  <2>2. CASE q # p
    <3>1. q \in t.procTab /\ u.proc[q] = t.proc[q] BY <1>1, <2>2
    <3>2. t.proc[q].job \in t.jobTab /\ q \in ToSet(t.job[t.proc[q].job].proclist)
      BY <3>1 DEF TablesAgree, ProcHasJob
    <3>3. u.job[t.proc[q].job] = t.job[t.proc[q].job] BY <1>1, <3>2
    <3> QED BY <3>1, <3>2, <3>3
  <2> QED BY <2>1, <2>2
<1>4. ListsAgree(u)
  <2> SUFFICES ASSUME NEW k \in u.jobTab
               PROVE  LET list == u.job[k].proclist
                      IN /\ \A i \in DOMAIN list : list[i] \in u.procTab /\ u.proc[list[i]].job = k
                         /\ \A h, i \in DOMAIN list : list[h] = list[i] => h = i
    BY DEF ListsAgree
  <2>1. CASE k = j BY <1>2, <2>1
  <2>2. CASE k # j
    <3>1. k \in t.jobTab /\ u.job[k] = t.job[k] BY <1>1, <2>2
    <3>2. \A q \in t.procTab : u.proc[q] = t.proc[q] BY <1>1
    <3> QED BY <3>1, <3>2 DEF TablesAgree, ListsAgree
  <2> QED BY <2>1, <2>2
<1>5. RefcntAgrees(u)
  <2> SUFFICES ASSUME NEW k \in u.jobTab
               PROVE  u.job[k].refcnt = Len(u.job[k].proclist) /\ u.job[k].refcnt > 0
    BY DEF RefcntAgrees
  <2>1. CASE k = j
    <3>1. Len(<<p>>) = 1 /\ 1 > 0 OBVIOUS
    <3>2. Len(u.job[j].proclist) = 1 BY <3>1, Zenon
    <3> QED BY <2>1, <3>1, <3>2
  <2>2. CASE k # j
    <3>1. k \in t.jobTab /\ u.job[k] = t.job[k] BY <1>1, <2>2
    <3> QED BY <3>1 DEF TablesAgree, RefcntAgrees
  <2> QED BY <2>1, <2>2
<1>6. FreedEntries(u)
  BY DEF TablesAgree, FreedEntries
<1>7. JobsCounted(u)
  <2>1. IsFiniteSet(t.jobTab) BY <1>1, JidFinite, FS_Subset
  <2>2. Cardinality(t.jobTab \cup {j}) = Cardinality(t.jobTab) + 1 BY <2>1, FS_AddElement
  <2> QED BY <2>2 DEF TablesAgree, JobsCounted
<1> QED BY <1>3, <1>4, <1>5, <1>6, <1>7 DEF TablesAgree

(* Where a process is on the list of its job. *)
LEMMA MemberPlace ==
  ASSUME NEW t \in Memory, TablesAgree(t), NEW p \in t.procTab
  PROVE  LET e == t.job[t.proc[p].job]
         IN /\ t.proc[p].job \in t.jobTab /\ t.proc[p].job \in Jid
            /\ e \in JobEntry /\ Injective(e.proclist) /\ e.proclist \in Seq(Pid)
            /\ e.refcnt = Len(e.proclist)
            /\ \E i \in DOMAIN e.proclist : e.proclist[i] = p
<1> DEFINE o == t.proc[p].job
<1>1. o \in t.jobTab /\ p \in ToSet(t.job[o].proclist)
  BY DEF TablesAgree, ProcHasJob
<1>2. o \in Jid /\ t.job[o] \in JobEntry
  BY <1>1 DEF Memory
<1>3. t.job[o].proclist \in Seq(Pid)
  BY <1>2 DEF JobEntry
<1>4. Injective(t.job[o].proclist)
  BY <1>1 DEF TablesAgree, ListsAgree, Injective
<1>5. t.job[o].refcnt = Len(t.job[o].proclist)
  BY <1>1 DEF TablesAgree, RefcntAgrees
<1> QED BY <1>1, <1>2, <1>3, <1>4, <1>5 DEF ToSet

(* The entry of its job that a process leaves behind. *)
LeftBy(t, p, status) == ProcLeaves(t.job[t.proc[p].job], p, status)

LEMMA LeftByProperties ==
  ASSUME NEW t \in Memory, TablesAgree(t), NEW p \in t.procTab, NEW status \in Status
  PROVE  /\ LeftBy(t, p, status) \in JobEntry
         /\ LeftBy(t, p, status).refcnt = Len(LeftBy(t, p, status).proclist)
         /\ Injective(LeftBy(t, p, status).proclist)
         /\ ToSet(LeftBy(t, p, status).proclist) = ToSet(t.job[t.proc[p].job].proclist) \ {p}
<1> DEFINE e == t.job[t.proc[p].job]
           f == ProcLeaves(e, p, status)
<1>1. PICK i \in DOMAIN e.proclist : e.proclist[i] = p
  BY MemberPlace
<1>2. e \in JobEntry /\ Injective(e.proclist) /\ e.refcnt = Len(e.proclist)
  BY MemberPlace
<1> HIDE DEF e
<1>3. /\ f \in JobEntry /\ f.refcnt = e.refcnt - 1
      /\ Len(f.proclist) = Len(e.proclist) - 1 /\ Injective(f.proclist)
      /\ ToSet(f.proclist) = ToSet(e.proclist) \ {p}
  BY <1>1, <1>2, ProcLeavesType
<1>4. f.refcnt = Len(f.proclist)
  BY <1>2, <1>3
<1> HIDE DEF f
<1>5. LeftBy(t, p, status) = f
  BY DEF LeftBy, f, e
<1> QED BY <1>3, <1>4, <1>5, Zenon DEF e

(* The tables u after process p has left its job with the entry f, the job *)
(* being freed if p was its last process.                                  *)
Left(t, u, p, f) ==
  LET o == t.proc[p].job
  IN \/ /\ f.refcnt # 0
        /\ u.jobTab = t.jobTab /\ u.nJobs = t.nJobs /\ u.job = [t.job EXCEPT ![o] = f]
     \/ /\ f.refcnt = 0
        /\ u.jobTab = t.jobTab \ {o} /\ u.nJobs = t.nJobs - 1
        /\ u.job = [t.job EXCEPT ![o] = FreeJob]

LEMMA LeaveAgrees ==
  ASSUME NEW t \in Memory, TablesAgree(t), NEW p \in t.procTab, NEW status \in Status,
         NEW u \in Memory, Left(t, u, p, LeftBy(t, p, status)),
         u.procTab = t.procTab \ {p}, u.proc = [t.proc EXCEPT ![p] = FreeProc]
  PROVE  TablesAgree(u)
<1> DEFINE o == t.proc[p].job
           e == t.job[o]
           f == LeftBy(t, p, status)
<1>1. /\ o \in t.jobTab /\ o \in Jid /\ e.proclist \in Seq(Pid) /\ e.refcnt = Len(e.proclist)
      /\ \E i \in DOMAIN e.proclist : e.proclist[i] = p
  BY MemberPlace
<1>2. /\ f \in JobEntry /\ f.refcnt = Len(f.proclist)
      /\ Injective(f.proclist) /\ ToSet(f.proclist) = ToSet(e.proclist) \ {p}
  BY LeftByProperties
<1>3. Left(t, u, p, f)
  OBVIOUS
<1> HIDE DEF f
<1>4. t.jobTab \subseteq Jid /\ t.procTab \subseteq Pid /\ t.job \in [Jid -> JobEntry] /\ t.proc \in [Pid -> ProcEntry]
  BY DEF Memory
<1>5. \A k \in Jid \ {o} : u.job[k] = t.job[k] /\ (k \in u.jobTab <=> k \in t.jobTab)
  BY <1>3, <1>4 DEF Left
<1>6. \A q \in Pid \ {p} : u.proc[q] = t.proc[q]
  BY <1>4
<1>7. \/ f.refcnt # 0 /\ o \in u.jobTab /\ u.job[o] = f
      \/ f.refcnt = 0 /\ o \notin u.jobTab /\ u.job[o] = FreeJob /\ ToSet(f.proclist) = {}
  <2>1. CASE f.refcnt # 0 BY <1>1, <1>3, <1>4, <2>1 DEF Left
  <2>2. CASE f.refcnt = 0
    <3>1. f.proclist \in Seq(Pid) BY <1>2 DEF JobEntry
    <3>2. Len(f.proclist) = 0 BY <1>2, <2>2
    <3>3. ToSet(f.proclist) = {} BY <3>1, <3>2, NoElements
    <3> QED BY <1>1, <1>3, <1>4, <2>2, <3>3 DEF Left
  <2> QED BY <2>1, <2>2
<1>8. \A i \in DOMAIN f.proclist : f.proclist[i] \in t.procTab \ {p} /\ t.proc[f.proclist[i]].job = o
  <2> SUFFICES ASSUME NEW i \in DOMAIN f.proclist
               PROVE  f.proclist[i] \in t.procTab \ {p} /\ t.proc[f.proclist[i]].job = o
    OBVIOUS
  <2>1. f.proclist[i] \in ToSet(e.proclist) \ {p} BY <1>2 DEF ToSet
  <2>2. PICK h \in DOMAIN e.proclist : e.proclist[h] = f.proclist[i] BY <2>1 DEF ToSet
  <2>3. e.proclist[h] \in t.procTab /\ t.proc[e.proclist[h]].job = o
    BY <1>1 DEF TablesAgree, ListsAgree
  <2> QED BY <2>1, <2>2, <2>3
<1>9. ProcHasJob(u)
  <2> SUFFICES ASSUME NEW q \in u.procTab
               PROVE  u.proc[q].job \in u.jobTab /\ q \in ToSet(u.job[u.proc[q].job].proclist)
    BY DEF ProcHasJob
  <2>1. q \in t.procTab /\ q # p /\ u.proc[q] = t.proc[q]
    BY <1>4, <1>6
  <2>2. t.proc[q].job \in t.jobTab /\ q \in ToSet(t.job[t.proc[q].job].proclist)
    BY <2>1 DEF TablesAgree, ProcHasJob
  <2>3. CASE t.proc[q].job = o
    <3>1. q \in ToSet(f.proclist) BY <1>2, <2>1, <2>2, <2>3
    <3> QED BY <1>7, <2>1, <2>3, <3>1
  <2>4. CASE t.proc[q].job # o BY <1>4, <1>5, <2>1, <2>2, <2>4
  <2> QED BY <2>3, <2>4
<1>10. ListsAgree(u)
  <2> SUFFICES ASSUME NEW k \in u.jobTab
               PROVE  LET list == u.job[k].proclist
                      IN /\ \A i \in DOMAIN list : list[i] \in u.procTab /\ u.proc[list[i]].job = k
                         /\ Injective(list)
    BY DEF ListsAgree, Injective
  <2>1. k \in Jid BY <1>4 DEF Memory
  <2>2. CASE k = o
    <3>1. u.job[k] = f BY <1>7, <2>2
    <3> QED BY <1>2, <1>4, <1>6, <1>8, <2>2, <3>1
  <2>3. CASE k # o
    <3>1. k \in t.jobTab /\ u.job[k] = t.job[k] BY <1>5, <2>1, <2>3
    <3>2. Injective(t.job[k].proclist) BY <3>1 DEF TablesAgree, ListsAgree, Injective
    <3>3. \A i \in DOMAIN t.job[k].proclist :
            t.job[k].proclist[i] \in t.procTab /\ t.proc[t.job[k].proclist[i]].job = k
      BY <3>1 DEF TablesAgree, ListsAgree
    <3>4. \A i \in DOMAIN t.job[k].proclist : t.job[k].proclist[i] # p
      BY <2>3, <3>3
    <3> QED BY <1>4, <1>6, <3>1, <3>2, <3>3, <3>4
  <2> QED BY <2>2, <2>3
<1>11. RefcntAgrees(u)
  <2> SUFFICES ASSUME NEW k \in u.jobTab
               PROVE  u.job[k].refcnt = Len(u.job[k].proclist) /\ u.job[k].refcnt > 0
    BY DEF RefcntAgrees
  <2>1. k \in Jid BY DEF Memory
  <2>2. CASE k = o
    <3>1. u.job[k] = f /\ f.refcnt # 0 BY <1>7, <2>2
    <3>2. f.proclist \in Seq(Pid) BY <1>2 DEF JobEntry
    <3>3. Len(f.proclist) \in Nat BY <3>2
    <3> DEFINE n == Len(f.proclist)
    <3>4. n \in Nat /\ n # 0 BY <1>2, <3>1, <3>3
    <3> HIDE DEF n
    <3>5. n > 0 BY <3>4
    <3> QED BY <1>2, <3>1, <3>5 DEF n
  <2>3. CASE k # o
    <3>1. k \in t.jobTab /\ u.job[k] = t.job[k] BY <1>5, <2>1, <2>3
    <3> QED BY <3>1 DEF TablesAgree, RefcntAgrees
  <2> QED BY <2>2, <2>3
<1>12. FreedEntries(u)
  <2>1. ASSUME NEW k \in Jid \ u.jobTab PROVE u.job[k] = FreeJob
    <3>1. CASE k = o BY <1>7, <2>1, <3>1
    <3>2. CASE k # o
      <4>1. k \notin t.jobTab /\ u.job[k] = t.job[k] BY <1>5, <2>1, <3>2
      <4> QED BY <4>1 DEF TablesAgree, FreedEntries
    <3> QED BY <3>1, <3>2
  <2>2. ASSUME NEW q \in Pid \ u.procTab PROVE u.proc[q] = FreeProc
    <3>1. CASE q = p BY <1>4, <3>1
    <3>2. CASE q # p BY <1>6, <3>2 DEF TablesAgree, FreedEntries
    <3> QED BY <3>1, <3>2
  <2> QED BY <2>1, <2>2 DEF FreedEntries
<1>13. JobsCounted(u)
  <2>1. IsFiniteSet(t.jobTab) BY <1>4, JidFinite, FS_Subset
  <2>2. Cardinality(t.jobTab \ {o}) =
          IF o \in t.jobTab THEN Cardinality(t.jobTab) - 1 ELSE Cardinality(t.jobTab)
    <3> HIDE DEF o
    <3> QED BY <2>1, FS_RemoveElement
  <2> QED BY <1>1, <1>3, <2>2 DEF TablesAgree, JobsCounted, Left
<1> QED BY <1>9, <1>10, <1>11, <1>12, <1>13 DEF TablesAgree

(* unlink_proc_from_job() on a memory t2 that agrees with t where it       *)
(* matters.                                                                *)
LEMMA UnlinkProcKeeps ==
  ASSUME NEW t \in Memory, TablesAgree(t), NEW p \in t.procTab, NEW status \in Status,
         NEW t2 \in Memory, t2.jobTab = t.jobTab, t2.nJobs = t.nJobs, t2.proc = t.proc,
         t2.job[t.proc[p].job] = t.job[t.proc[p].job],
         NEW u, u = UnlinkProcFromJob(t2, p, status)
  PROVE  /\ u \in Memory /\ u.hid = t2.hid
         /\ u.jobTab = t2.jobTab /\ u.nJobs = t2.nJobs
         /\ u.procTab = t2.procTab /\ u.proc = t2.proc
         /\ u.job = [t2.job EXCEPT ![t.proc[p].job] = LeftBy(t, p, status)]
<1> DEFINE o == t.proc[p].job
           f == LeftBy(t, p, status)
<1>1. f \in JobEntry /\ o \in Jid
  BY LeftByProperties, MemberPlace
<1>2. UnlinkProcFromJob(t2, p, status) = [t2 EXCEPT !.job[o] = f]
  BY DEF UnlinkProcFromJob, LeftBy, Memory
<1> HIDE DEF o, f
<1>3. LET v == [t2 EXCEPT !.job[o] = f]
      IN /\ v \in Memory /\ v.hid = t2.hid
         /\ v.jobTab = t2.jobTab /\ v.nJobs = t2.nJobs
         /\ v.procTab = t2.procTab /\ v.proc = t2.proc
         /\ v.job = [t2.job EXCEPT ![o] = f]
  BY <1>1 DEF Memory
<1> QED BY <1>2, <1>3 DEF o, f

LEMMA DropProcAgrees ==
  ASSUME NEW t \in Memory, TablesAgree(t), NEW p \in t.procTab, NEW status \in Status
  PROVE  /\ DropProc(t, p, status) \in Memory /\ TablesAgree(DropProc(t, p, status))
         /\ DropProc(t, p, status).hid = t.hid
         /\ DropProc(t, p, status).procTab = t.procTab \ {p}
         /\ DropProc(t, p, status).proc = [t.proc EXCEPT ![p] = FreeProc]
         /\ Left(t, DropProc(t, p, status), p, LeftBy(t, p, status))
<1> DEFINE o == t.proc[p].job
           f == LeftBy(t, p, status)
           a == UnlinkProcFromHash(t, p)
           b == UnlinkProcFromJob(a, p, status)
           d == JobCleanup(b, o)
           u == DropProc(t, p, status)
<1>1. /\ a \in Memory /\ a.hid = t.hid /\ a.jobTab = t.jobTab /\ a.nJobs = t.nJobs
      /\ a.job = t.job /\ a.procTab = t.procTab \ {p} /\ a.proc = t.proc
  BY DEF UnlinkProcFromHash, Memory
<1>2. o \in t.jobTab /\ o \in Jid /\ p \in Pid
  BY MemberPlace DEF Memory
<1>3. f \in JobEntry
  BY LeftByProperties
<1> HIDE DEF a, f
<1>4. /\ b \in Memory /\ b.hid = a.hid /\ b.jobTab = a.jobTab /\ b.nJobs = a.nJobs
      /\ b.procTab = a.procTab /\ b.proc = a.proc
      /\ b.job = [a.job EXCEPT ![o] = f]
  <2>1. a.job[t.proc[p].job] = t.job[t.proc[p].job] BY <1>1
  <2>2. b = UnlinkProcFromJob(a, p, status) OBVIOUS
  <2> HIDE DEF b
  <2> QED BY <1>1, <2>1, <2>2, UnlinkProcKeeps DEF f
<1>5. d = JobCleanup(b, o)
  OBVIOUS
<1>6. u = [d EXCEPT !.proc[p] = FreeProc]
  BY DEF DropProc, a
<1> HIDE DEF b, d, u
<1>7. b.job[o] = f
  BY <1>1, <1>2, <1>4 DEF Memory
<1>8. /\ d \in Memory /\ d.hid = t.hid /\ d.procTab = t.procTab \ {p} /\ d.proc = t.proc
      /\ Left(t, d, p, f)
  <2>1. CASE f.refcnt # 0
    <3>1. d = b BY <1>5, <1>7, <2>1 DEF JobCleanup
    <3> QED BY <1>1, <1>4, <2>1, <3>1 DEF Left
  <2>2. CASE f.refcnt = 0
    <3>1. /\ d \in Memory /\ d.hid = b.hid
          /\ d.jobTab = b.jobTab \ {o} /\ d.nJobs = b.nJobs - 1
          /\ d.procTab = b.procTab /\ d.proc = b.proc
          /\ d.job = [b.job EXCEPT ![o] = FreeJob]
      <4> HIDE DEF o
      <4> QED BY <1>2, <1>4, <1>5, <1>7, <2>2, JobCleanupKeeps
    <3>2. [b.job EXCEPT ![o] = FreeJob] = [t.job EXCEPT ![o] = FreeJob]
      BY <1>1, <1>2, <1>4 DEF Memory
    <3> QED BY <1>1, <1>4, <2>2, <3>1, <3>2 DEF Left
  <2> QED BY <2>1, <2>2
<1>9. /\ u \in Memory /\ u.hid = d.hid /\ u.jobTab = d.jobTab /\ u.nJobs = d.nJobs
      /\ u.procTab = d.procTab /\ u.job = d.job /\ u.proc = [d.proc EXCEPT ![p] = FreeProc]
  BY <1>2, <1>6, <1>8, FreeTypes DEF Memory
<1>10. Left(t, u, p, f)
  BY <1>8, <1>9 DEF Left
<1>11. u.procTab = t.procTab \ {p} /\ u.proc = [t.proc EXCEPT ![p] = FreeProc] /\ u.hid = t.hid
  BY <1>8, <1>9
<1>12. TablesAgree(u)
  BY <1>9, <1>10, <1>11, LeaveAgrees DEF f
<1> QED BY <1>9, <1>10, <1>11, <1>12 DEF u, f

(***************************************************************************)
(* The events                                                              *)
(***************************************************************************)
LEMMA ExitHandlerAgrees ==
  ASSUME NEW t \in Memory, TablesAgree(t), NEW p \in Pid, NEW status \in Status
  PROVE  /\ ExitHandler(t, p, status) \in Memory /\ TablesAgree(ExitHandler(t, p, status))
         /\ ExitHandler(t, p, status).hid = t.hid
<1>1. CASE p \in t.procTab BY <1>1, DropProcAgrees DEF ExitHandler
<1>2. CASE p \notin t.procTab BY <1>2 DEF ExitHandler
<1> QED BY <1>1, <1>2

LEMMA ForkHandlerAgrees ==
  ASSUME NEW t \in Memory, TablesAgree(t), NEW parent \in Pid, NEW child \in Pid \ {parent}
  PROVE  /\ ForkHandler(t, parent, child) \in Memory /\ TablesAgree(ForkHandler(t, parent, child))
         /\ ForkHandler(t, parent, child).hid = t.hid
<1> DEFINE j == t.proc[parent].job
<1>1. CASE parent \notin t.procTab \/ (child \in t.procTab /\ ~ t.proc[child].exited)
  BY <1>1 DEF ForkHandler
<1>2. CASE parent \in t.procTab /\ child \notin t.procTab
  <2>1. ForkHandler(t, parent, child) = AddProcToHash(AddProcToJob(t, child, j), child)
    BY <1>2 DEF ForkHandler
  <2>2. j \in t.jobTab BY <1>2 DEF TablesAgree, ProcHasJob
  <2> QED BY <1>2, <2>1, <2>2, JoinAgrees
<1>3. CASE parent \in t.procTab /\ child \in t.procTab /\ t.proc[child].exited
  <2> DEFINE a == ExitHandler(t, child, t.proc[child].saved)
  <2>1. t.proc[child].saved \in Status BY DEF Memory, ProcEntry
  <2>2. a = DropProc(t, child, t.proc[child].saved) BY <1>3 DEF ExitHandler
  <2>3. /\ a \in Memory /\ TablesAgree(a) /\ a.hid = t.hid /\ a.procTab = t.procTab \ {child}
        /\ a.proc = [t.proc EXCEPT ![child] = FreeProc]
        /\ Left(t, a, child, LeftBy(t, child, t.proc[child].saved))
    BY <1>3, <2>1, <2>2, DropProcAgrees
  <2>4. ForkHandler(t, parent, child) = AddProcToHash(AddProcToJob(a, child, j), child)
    BY <1>3 DEF ForkHandler
  <2> HIDE DEF a
  <2>5. parent \in a.procTab /\ a.proc[parent].job = j BY <1>3, <2>3 DEF Memory
  <2>6. j \in a.jobTab BY <2>3, <2>5 DEF TablesAgree, ProcHasJob
  <2> QED BY <2>3, <2>4, <2>6, JoinAgrees
<1> QED BY <1>1, <1>2, <1>3

(* An exit is noted in the entry of the process. *)
Noted(t, p, status) ==
  IF p \in t.procTab THEN [t EXCEPT !.proc[p].exited = TRUE, !.proc[p].saved = status] ELSE t

LEMMA NotedAgrees ==
  ASSUME NEW t \in Memory, TablesAgree(t), NEW p \in Pid, NEW status \in Status
  PROVE  /\ Noted(t, p, status) \in Memory /\ TablesAgree(Noted(t, p, status))
         /\ Noted(t, p, status).hid = t.hid
         /\ Noted(t, p, status).jobTab = t.jobTab /\ Noted(t, p, status).job = t.job
<1> DEFINE x == [t.proc[p] EXCEPT !.exited = TRUE, !.saved = status]
           a == [t EXCEPT !.proc[p] = x]
           noted == IF p \in t.procTab THEN a ELSE t
<1>1. x \in ProcEntry /\ x.job = t.proc[p].job
  BY DEF Memory, ProcEntry
<1>2. Noted(t, p, status) = noted
  <2>1. CASE p \in t.procTab
    <3>1. [t EXCEPT !.proc[p].exited = TRUE, !.proc[p].saved = status] = a
      BY DEF Memory, ProcEntry
    <3> QED BY <2>1, <3>1 DEF Noted
  <2>2. CASE p \notin t.procTab
    BY <2>2 DEF Noted
  <2> QED BY <2>1, <2>2
<1> HIDE DEF x
<1>3. /\ a \in Memory /\ a.hid = t.hid /\ a.jobTab = t.jobTab /\ a.nJobs = t.nJobs
      /\ a.job = t.job /\ a.procTab = t.procTab /\ a.proc = [t.proc EXCEPT ![p] = x]
  BY <1>1 DEF Memory
<1> HIDE DEF a
<1>4. ASSUME p \in t.procTab PROVE TablesAgree(a)
  <2>1. \A q \in Pid : a.proc[q].job = t.proc[q].job BY <1>1, <1>3 DEF Memory
  <2>2. t.procTab \subseteq Pid BY DEF Memory
  <2>3. ProcHasJob(a) BY <1>3, <2>1, <2>2 DEF TablesAgree, ProcHasJob
  <2>4. ListsAgree(a)
    <3> SUFFICES ASSUME NEW k \in a.jobTab
                 PROVE  LET list == a.job[k].proclist
                        IN /\ \A i \in DOMAIN list : list[i] \in a.procTab /\ a.proc[list[i]].job = k
                           /\ \A h, i \in DOMAIN list : list[h] = list[i] => h = i
      BY DEF ListsAgree
    <3>1. a.job[k] = t.job[k] /\ k \in t.jobTab BY <1>3
    <3> QED BY <1>3, <2>1, <2>2, <3>1 DEF TablesAgree, ListsAgree
  <2>5. RefcntAgrees(a) BY <1>3 DEF TablesAgree, RefcntAgrees
  <2>6. FreedEntries(a) BY <1>3, <1>4 DEF TablesAgree, FreedEntries, Memory
  <2>7. JobsCounted(a) BY <1>3 DEF TablesAgree, JobsCounted
  <2> QED BY <2>3, <2>4, <2>5, <2>6, <2>7 DEF TablesAgree
<1>5. /\ noted \in Memory /\ TablesAgree(noted) /\ noted.hid = t.hid
      /\ noted.jobTab = t.jobTab /\ noted.job = t.job
  BY <1>3, <1>4
<1> HIDE DEF noted
<1> QED BY <1>2, <1>5

LEMMA ExitEventHandlerAgrees ==
  ASSUME NEW t \in Memory, TablesAgree(t), NEW p \in Pid, NEW status \in Status
  PROVE  /\ ExitEventHandler(t, p, status) \in Memory
         /\ TablesAgree(ExitEventHandler(t, p, status))
         /\ ExitEventHandler(t, p, status).hid = t.hid
<1>1. ExitEventHandler(t, p, status) =
        IF t.csaActive THEN Noted(t, p, status) ELSE ExitHandler(Noted(t, p, status), p, status)
  BY DEF ExitEventHandler, Noted
<1> QED BY <1>1, NotedAgrees, ExitHandlerAgrees

(***************************************************************************)
(* The requests                                                            *)
(***************************************************************************)
LEMMA AddJobToHashKeeps ==
  ASSUME NEW t \in Memory, NEW j \in Jid
  PROVE  LET u == AddJobToHash(t, j)
         IN /\ u \in Memory /\ u.hid = t.hid
            /\ u.jobTab = t.jobTab \cup {j} /\ u.nJobs = t.nJobs + 1
            /\ u.procTab = t.procTab /\ u.job = t.job /\ u.proc = t.proc
<1>1. t.nJobs + 1 \in Int BY DEF Memory
<1>2. AddJobToHash(t, j) = [t EXCEPT !.jobTab = t.jobTab \cup {j}, !.nJobs = t.nJobs + 1]
  BY DEF AddJobToHash, Memory
<1> DEFINE n == t.nJobs + 1
<1> HIDE DEF n
<1>3. LET u == [t EXCEPT !.jobTab = t.jobTab \cup {j}, !.nJobs = n]
      IN /\ u \in Memory /\ u.hid = t.hid
         /\ u.jobTab = t.jobTab \cup {j} /\ u.nJobs = n
         /\ u.procTab = t.procTab /\ u.job = t.job /\ u.proc = t.proc
  BY <1>1 DEF Memory, n
<1> QED BY <1>2, <1>3, Zenon DEF n

(* do_job_create(), once it has its JID: whether the process was in no job *)
(* or leaves one, the new job is the only change left to the tables.       *)
LEMMA InstallJobAgrees ==
  ASSUME NEW t \in Memory, TablesAgree(t), NEW p \in Pid, NEW j \in Jid \ t.jobTab,
         NEW user \in User
  PROVE  LET u == InstallJob(t, p, j, user)
         IN /\ u \in Memory /\ TablesAgree(u) /\ u.hid = t.hid
            /\ j \in u.jobTab /\ u.job[j].proclist = <<p>>
            /\ u.procTab = t.procTab \cup {p} /\ u.proc[p].job = j
            /\ \A q \in Pid \ {p} : u.proc[q] = t.proc[q]
<1> DEFINE isNew == p \notin t.procTab
           o == t.proc[p].job
           e == [FreeJob EXCEPT !.user = user]
           fresh == [t EXCEPT !.job[j] = e]
           left == IF isNew THEN fresh ELSE UnlinkProcFromJob(fresh, p, 0)
           joined == AddProcToJob(left, p, j)
           cleaned == IF isNew THEN AddProcToHash(joined, p) ELSE JobCleanup(joined, o)
           added == AddJobToHash(cleaned, j)
<1>1. InstallJob(t, p, j, user) = CSA_jobstart(added, j)
  BY DEF InstallJob
<1>2. e \in JobEntry /\ e.proclist = <<>> /\ e.refcnt = 0
  <2>1. FreeJob \in JobEntry BY FreeTypes
  <2>2. FreeJob.proclist = <<>> /\ FreeJob.refcnt = 0 BY DEF FreeJob
  <2> HIDE DEF FreeJob
  <2> QED BY <2>1, <2>2 DEF JobEntry
<1> HIDE DEF e
<1>3. /\ fresh \in Memory /\ fresh.hid = t.hid /\ fresh.jobTab = t.jobTab /\ fresh.nJobs = t.nJobs
      /\ fresh.procTab = t.procTab /\ fresh.proc = t.proc /\ fresh.job = [t.job EXCEPT ![j] = e]
  BY <1>2 DEF Memory
<1> HIDE DEF fresh
<1>4. fresh.job[j] = e /\ \A k \in Jid \ {j} : fresh.job[k] = t.job[k]
  BY <1>3 DEF Memory
<1>5. ProcJoins(e, p) \in JobEntry /\ ProcJoins(e, p).proclist = <<p>> /\ ProcJoins(e, p).refcnt = 1
  <2>1. <<p>> \o <<>> = <<p>> /\ 0 + 1 = 1 OBVIOUS
  <2>2. /\ ProcJoins(e, p) \in JobEntry /\ ProcJoins(e, p).proclist = <<p>> \o e.proclist
        /\ ProcJoins(e, p).refcnt = e.refcnt + 1
    BY <1>2, ProcJoinsType
  <2> QED BY <1>2, <2>1, <2>2, Zenon
<1>6. /\ added \in Memory /\ added.hid = t.hid /\ TablesAgree(added)
      /\ j \in added.jobTab /\ added.job[j].proclist = <<p>>
      /\ added.procTab = t.procTab \cup {p} /\ added.proc[p].job = j
      /\ \A q \in Pid \ {p} : added.proc[q] = t.proc[q]
  <2>1. CASE isNew
    <3>1. left = fresh BY <2>1
    <3> HIDE DEF left
    <3>2. /\ joined \in Memory /\ joined.hid = t.hid
          /\ joined.jobTab = t.jobTab /\ joined.nJobs = t.nJobs /\ joined.procTab = t.procTab
          /\ joined.job = [fresh.job EXCEPT ![j] = ProcJoins(e, p)]
          /\ joined.proc = [t.proc EXCEPT ![p] = [t.proc[p] EXCEPT !.job = j]]
      BY <1>3, <1>4, <3>1, AddProcToJobKeeps
    <3> HIDE DEF joined
    <3>3. cleaned = AddProcToHash(joined, p) BY <2>1
    <3> HIDE DEF cleaned
    <3>4. /\ cleaned \in Memory /\ cleaned.hid = t.hid
          /\ cleaned.jobTab = t.jobTab /\ cleaned.nJobs = t.nJobs
          /\ cleaned.procTab = t.procTab \cup {p}
          /\ cleaned.job = joined.job /\ cleaned.proc = joined.proc
      BY <3>2, <3>3 DEF AddProcToHash, Memory
    <3>5. /\ added \in Memory /\ added.hid = t.hid
          /\ added.jobTab = t.jobTab \cup {j} /\ added.nJobs = t.nJobs + 1
          /\ added.procTab = t.procTab \cup {p}
          /\ added.job = joined.job /\ added.proc = joined.proc
      BY <3>2, <3>4, AddJobToHashKeeps
    <3> HIDE DEF added
    <3>6. /\ added.job[j] = ProcJoins(e, p)
          /\ \A k \in Jid \ {j} : added.job[k] = t.job[k]
      BY <1>3, <1>4, <3>2, <3>5 DEF Memory
    <3>7. /\ added.proc[p].job = j
          /\ \A q \in Pid \ {p} : added.proc[q] = t.proc[q]
      BY <3>2, <3>5 DEF Memory, ProcEntry
    <3>8. TablesAgree(added)
      BY <1>5, <2>1, <3>5, <3>6, <3>7, NewJobAgrees
    <3> QED BY <1>5, <3>5, <3>6, <3>7, <3>8
  <2>2. CASE ~ isNew
    <3> DEFINE f == LeftBy(t, p, 0)
               d == DropProc(t, p, 0)
    <3>1. o \in t.jobTab /\ o \in Jid /\ o # j /\ 0 \in Status /\ p \in t.procTab
      BY <2>2, MemberPlace, ParamsAssumption
    <3>2. /\ d \in Memory /\ TablesAgree(d) /\ d.procTab = t.procTab \ {p}
          /\ d.proc = [t.proc EXCEPT ![p] = FreeProc] /\ Left(t, d, p, f)
      BY <2>2, <3>1, DropProcAgrees
    <3> HIDE DEF d, f
    <3>3. left = UnlinkProcFromJob(fresh, p, 0) BY <2>2
    <3> HIDE DEF left
    <3>4. fresh.job[t.proc[p].job] = t.job[t.proc[p].job] BY <1>4, <3>1
    <3>5. /\ left \in Memory /\ left.hid = t.hid /\ left.jobTab = t.jobTab /\ left.nJobs = t.nJobs
          /\ left.procTab = t.procTab /\ left.proc = t.proc /\ left.job = [fresh.job EXCEPT ![o] = f]
      <4>1. /\ left \in Memory /\ left.hid = fresh.hid
            /\ left.jobTab = fresh.jobTab /\ left.nJobs = fresh.nJobs
            /\ left.procTab = fresh.procTab /\ left.proc = fresh.proc
            /\ left.job = [fresh.job EXCEPT ![t.proc[p].job] = LeftBy(t, p, 0)]
        <5>1. PICK s \in Status : s = 0 BY <3>1
        <5>2. left = UnlinkProcFromJob(fresh, p, s) BY <3>3, <5>1
        <5>3. p \in t.procTab BY <3>1
        <5>4. /\ fresh \in Memory /\ fresh.jobTab = t.jobTab /\ fresh.nJobs = t.nJobs
              /\ fresh.proc = t.proc
          BY <1>3
        <5>5. /\ left \in Memory /\ left.hid = fresh.hid
              /\ left.jobTab = fresh.jobTab /\ left.nJobs = fresh.nJobs
              /\ left.procTab = fresh.procTab /\ left.proc = fresh.proc
              /\ left.job = [fresh.job EXCEPT ![t.proc[p].job] = LeftBy(t, p, s)]
          BY <3>4, <5>2, <5>3, <5>4, UnlinkProcKeeps
        <5> QED BY <5>1, <5>5
      <4> QED BY <1>3, <4>1 DEF f
    <3>6. left.job[j] = e /\ left.job[o] = f /\ \A k \in Jid \ {j, o} : left.job[k] = t.job[k]
      BY <1>3, <1>4, <3>1, <3>5 DEF Memory
    <3>7. /\ joined \in Memory /\ joined.hid = t.hid
          /\ joined.jobTab = t.jobTab /\ joined.nJobs = t.nJobs /\ joined.procTab = t.procTab
          /\ joined.job = [left.job EXCEPT ![j] = ProcJoins(e, p)]
          /\ joined.proc = [t.proc EXCEPT ![p] = [t.proc[p] EXCEPT !.job = j]]
      BY <3>5, <3>6, AddProcToJobKeeps
    <3> HIDE DEF joined
    <3>8. /\ joined.job[j] = ProcJoins(e, p) /\ joined.job[o] = f
          /\ \A k \in Jid \ {j, o} : joined.job[k] = t.job[k]
      BY <3>1, <3>5, <3>6, <3>7 DEF Memory
    <3>9. cleaned = JobCleanup(joined, o) BY <2>2
    <3> HIDE DEF cleaned
    <3>10. /\ cleaned \in Memory /\ cleaned.hid = t.hid
           /\ cleaned.jobTab = d.jobTab /\ cleaned.nJobs = d.nJobs
           /\ cleaned.procTab = t.procTab /\ cleaned.proc = joined.proc
           /\ cleaned.job[j] = ProcJoins(e, p)
           /\ \A k \in Jid \ {j} : cleaned.job[k] = d.job[k]
      <4>1. CASE f.refcnt # 0
        <5>1. cleaned = joined BY <3>8, <3>9, <4>1 DEF JobCleanup
        <5>2. d.jobTab = t.jobTab /\ d.nJobs = t.nJobs /\ d.job = [t.job EXCEPT ![o] = f]
          BY <3>2, <4>1 DEF Left
        <5>3. \A k \in Jid \ {j} : joined.job[k] = d.job[k] BY <3>1, <3>8, <5>2 DEF Memory
        <5> QED BY <3>7, <3>8, <5>1, <5>2, <5>3
      <4>2. CASE f.refcnt = 0
        <5>1. d.jobTab = t.jobTab \ {o} /\ d.nJobs = t.nJobs - 1 /\ d.job = [t.job EXCEPT ![o] = FreeJob]
          BY <3>2, <4>2 DEF Left
        <5>2. /\ cleaned \in Memory /\ cleaned.hid = joined.hid
              /\ cleaned.jobTab = joined.jobTab \ {o} /\ cleaned.nJobs = joined.nJobs - 1
              /\ cleaned.procTab = joined.procTab /\ cleaned.proc = joined.proc
              /\ cleaned.job = [joined.job EXCEPT ![o] = FreeJob]
          <6> HIDE DEF o
          <6> QED BY <3>1, <3>7, <3>8, <3>9, <4>2, JobCleanupKeeps
        <5>3. cleaned.job[j] = joined.job[j] /\ \A k \in Jid \ {j} : cleaned.job[k] = d.job[k]
          BY <3>1, <3>7, <3>8, <5>1, <5>2 DEF Memory
        <5> QED BY <3>7, <3>8, <5>1, <5>2, <5>3
      <4> QED BY <4>1, <4>2
    <3>11. /\ added \in Memory /\ added.hid = t.hid
           /\ added.jobTab = d.jobTab \cup {j} /\ added.nJobs = d.nJobs + 1
           /\ added.procTab = t.procTab
           /\ added.job = cleaned.job /\ added.proc = joined.proc
      BY <3>10, AddJobToHashKeeps
    <3> HIDE DEF added
    <3>12. added.proc[p].job = j /\ \A q \in Pid \ {p} : added.proc[q] = d.proc[q]
      BY <3>2, <3>7, <3>11 DEF Memory, ProcEntry
    <3>13. p \notin d.procTab /\ added.procTab = d.procTab \cup {p}
      BY <2>2, <3>2, <3>11
    <3>14. j \in Jid \ d.jobTab
      BY <3>2 DEF Left
    <3>15. TablesAgree(added)
      <4> HIDE DEF isNew, o, joined
      <4>1. p \in Pid \ d.procTab BY <3>13
      <4>2. \A k \in Jid \ {j} : added.job[k] = d.job[k] BY <3>10, <3>11
      <4>3. added.job[j].proclist = <<p>> /\ added.job[j].refcnt = 1 BY <1>5, <3>10, <3>11
      <4> QED BY <3>2, <3>11, <3>12, <3>13, <3>14, <4>1, <4>2, <4>3, NewJobAgrees
    <3>16. \A q \in Pid \ {p} : d.proc[q] = t.proc[q] BY <3>2 DEF Memory
    <3>17. added.job[j].proclist = <<p>> BY <1>5, <3>10, <3>11
    <3>18. added.procTab = t.procTab \cup {p} BY <3>1, <3>11
    <3> QED BY <3>11, <3>12, <3>15, <3>16, <3>17, <3>18
  <2> QED BY <2>1, <2>2
<1> HIDE DEF added
<1>7. /\ CSA_jobstart(added, j) \in Memory /\ SameTables(added, CSA_jobstart(added, j))
      /\ CSA_jobstart(added, j).hid = added.hid
  BY <1>6, JobEventsKeep
<1> QED BY <1>1, <1>6, <1>7, SameTablesAgree DEF SameTables

(* do_job_detachjid() frees a job with all its processes. *)
LEMMA DetachAllAgrees ==
  ASSUME NEW t \in Memory, TablesAgree(t), NEW j \in t.jobTab
  PROVE  /\ DetachAll(t, j) \in Memory /\ TablesAgree(DetachAll(t, j))
         /\ DetachAll(t, j).hid = t.hid
<1> DEFINE list == t.job[j].proclist
           members == ToSet(list)
           e == ProcsLeave(t.job[j])
           procs == [p \in Pid |-> IF p \in members THEN FreeProc ELSE t.proc[p]]
           left == [t EXCEPT !.procTab = t.procTab \ members, !.proc = procs, !.job[j] = e]
           u == JobCleanup(left, j)
<1>1. j \in Jid /\ t.job[j] \in JobEntry /\ t.procTab \subseteq Pid /\ t.jobTab \subseteq Jid
  BY DEF Memory
<1>2. list \in Seq(Pid) /\ t.job[j].refcnt = Len(list) /\ Len(list) \in Nat
  BY <1>1 DEF TablesAgree, RefcntAgrees, JobEntry
<1>3. e \in JobEntry /\ e.refcnt = 0
  BY <1>1, <1>2, ProcsLeaveType
<1>4. DetachAll(t, j) = u
  BY DEF DetachAll, Memory
<1> HIDE DEF e, members
<1>5. procs \in [Pid -> ProcEntry]
  BY FreeTypes DEF Memory
<1> HIDE DEF procs
<1>6. /\ left \in Memory /\ left.hid = t.hid /\ left.jobTab = t.jobTab /\ left.nJobs = t.nJobs
      /\ left.procTab = t.procTab \ members /\ left.proc = procs
      /\ left.job = [t.job EXCEPT ![j] = e]
  BY <1>3, <1>5 DEF Memory
<1> HIDE DEF left
<1>7. left.job[j].refcnt = 0
  BY <1>1, <1>3, <1>6 DEF Memory
<1>8. /\ u \in Memory /\ u.hid = left.hid
      /\ u.jobTab = left.jobTab \ {j} /\ u.nJobs = left.nJobs - 1
      /\ u.procTab = left.procTab /\ u.proc = left.proc
      /\ u.job = [left.job EXCEPT ![j] = FreeJob]
  BY <1>1, <1>6, <1>7, JobCleanupKeeps
<1> HIDE DEF u
<1>9. /\ u.jobTab = t.jobTab \ {j} /\ u.nJobs = t.nJobs - 1 /\ u.procTab = t.procTab \ members
      /\ u.job[j] = FreeJob /\ \A k \in Jid \ {j} : u.job[k] = t.job[k]
      /\ \A p \in members \cap Pid : u.proc[p] = FreeProc
      /\ \A p \in Pid \ members : u.proc[p] = t.proc[p]
  BY <1>1, <1>6, <1>8 DEF Memory, procs
<1>10. \A p \in t.procTab : p \in members <=> t.proc[p].job = j
  <2>1. ASSUME NEW p \in members PROVE t.proc[p].job = j
    <3>1. PICK i \in DOMAIN list : list[i] = p BY DEF members, ToSet
    <3> QED BY <3>1 DEF TablesAgree, ListsAgree
  <2>2. ASSUME NEW p \in t.procTab, t.proc[p].job = j PROVE p \in members
    BY <2>2 DEF TablesAgree, ProcHasJob, members
  <2> QED BY <2>1, <2>2
<1>11. ProcHasJob(u)
  <2> SUFFICES ASSUME NEW q \in u.procTab
               PROVE  u.proc[q].job \in u.jobTab /\ q \in ToSet(u.job[u.proc[q].job].proclist)
    BY DEF ProcHasJob
  <2>1. q \in t.procTab /\ q \notin members /\ q \in Pid /\ u.proc[q] = t.proc[q]
    BY <1>1, <1>9
  <2>2. t.proc[q].job \in t.jobTab /\ q \in ToSet(t.job[t.proc[q].job].proclist)
    BY <2>1 DEF TablesAgree, ProcHasJob
  <2>3. t.proc[q].job # j BY <1>10, <2>1
  <2> QED BY <1>1, <1>9, <2>1, <2>2, <2>3
<1>12. ListsAgree(u)
  <2> SUFFICES ASSUME NEW k \in u.jobTab
               PROVE  LET l == u.job[k].proclist
                      IN /\ \A i \in DOMAIN l : l[i] \in u.procTab /\ u.proc[l[i]].job = k
                         /\ Injective(l)
    BY DEF ListsAgree, Injective
  <2>1. k \in t.jobTab /\ k \in Jid /\ k # j /\ u.job[k] = t.job[k]
    BY <1>1, <1>9
  <2>2. Injective(t.job[k].proclist) BY <2>1 DEF TablesAgree, ListsAgree, Injective
  <2>3. ASSUME NEW i \in DOMAIN t.job[k].proclist
        PROVE  LET q == t.job[k].proclist[i] IN q \in u.procTab /\ u.proc[q].job = k
    <3>1. t.job[k].proclist[i] \in t.procTab /\ t.proc[t.job[k].proclist[i]].job = k
      BY <2>1 DEF TablesAgree, ListsAgree
    <3> QED BY <1>1, <1>9, <1>10, <2>1, <3>1
  <2> QED BY <2>1, <2>2, <2>3
<1>13. RefcntAgrees(u)
  BY <1>1, <1>9 DEF TablesAgree, RefcntAgrees
<1>14. FreedEntries(u)
  BY <1>1, <1>9 DEF TablesAgree, FreedEntries
<1>15. JobsCounted(u)
  <2>1. IsFiniteSet(t.jobTab) BY <1>1, JidFinite, FS_Subset
  <2>2. Cardinality(t.jobTab \ {j}) = Cardinality(t.jobTab) - 1 BY <2>1, FS_RemoveElement
  <2> QED BY <1>9, <2>2 DEF TablesAgree, JobsCounted
<1>16. TablesAgree(u)
  BY <1>11, <1>12, <1>13, <1>14, <1>15 DEF TablesAgree
<1> QED BY <1>4, <1>6, <1>8, <1>16

LEMMA WaitJidAgrees ==
  ASSUME NEW t \in Memory, TablesAgree(t), NEW c \in Client, NEW j \in t.jobTab
  PROVE  LET u == [t EXCEPT !.job[j] = WaiterJoins(@, c)]
         IN u \in Memory /\ TablesAgree(u) /\ u.hid = t.hid
<1> DEFINE e == t.job[j]
           q == Append(e.waitq, c)
           n == e.waitcnt + 1
           f == WaiterJoins(e, c)
           u == [t EXCEPT !.job[j] = f]
<1>1. j \in Jid /\ e \in JobEntry
  BY DEF Memory
<1> HIDE DEF e
<1>2. q \in Seq(Client) /\ n \in Int
  BY <1>1 DEF JobEntry
<1>3. f = [e EXCEPT !.waitq = q, !.waitcnt = n]
  BY DEF WaiterJoins
<1> HIDE DEF q, n
<1>4. f \in JobEntry /\ f.proclist = e.proclist /\ f.refcnt = e.refcnt
  BY <1>1, <1>2, <1>3 DEF JobEntry
<1>5. [t EXCEPT !.job[j] = WaiterJoins(@, c)] = u
  BY DEF e, Memory
<1> HIDE DEF f
<1>6. /\ u \in Memory /\ u.hid = t.hid /\ u.jobTab = t.jobTab /\ u.nJobs = t.nJobs
      /\ u.procTab = t.procTab /\ u.proc = t.proc /\ u.job = [t.job EXCEPT ![j] = f]
  BY <1>4 DEF Memory
<1> HIDE DEF u
<1>7. \A k \in Jid : u.job[k].proclist = t.job[k].proclist /\ u.job[k].refcnt = t.job[k].refcnt
  BY <1>4, <1>6 DEF Memory, e
<1>8. \A k \in Jid \ {j} : u.job[k] = t.job[k]
  BY <1>6 DEF Memory
<1>9. t.jobTab \subseteq Jid
  BY DEF Memory
<1>10. ProcHasJob(u) BY <1>6, <1>7, <1>9 DEF TablesAgree, ProcHasJob
<1>11. ListsAgree(u)
  <2> SUFFICES ASSUME NEW k \in u.jobTab
               PROVE  LET list == u.job[k].proclist
                      IN /\ \A i \in DOMAIN list : list[i] \in u.procTab /\ u.proc[list[i]].job = k
                         /\ \A h, i \in DOMAIN list : list[h] = list[i] => h = i
    BY DEF ListsAgree
  <2>1. k \in t.jobTab /\ u.job[k].proclist = t.job[k].proclist BY <1>6, <1>7, <1>9
  <2> QED BY <1>6, <2>1 DEF TablesAgree, ListsAgree
<1>12. RefcntAgrees(u) BY <1>6, <1>7, <1>9 DEF TablesAgree, RefcntAgrees
<1>13. FreedEntries(u) BY <1>6, <1>8 DEF TablesAgree, FreedEntries
<1>14. JobsCounted(u) BY <1>6 DEF TablesAgree, JobsCounted
<1> QED BY <1>5, <1>6, <1>10, <1>11, <1>12, <1>13, <1>14 DEF TablesAgree

Ok(t) == t \in Memory /\ TablesAgree(t)

LEMMA ReplyOk ==
  ASSUME NEW t, Ok(t), NEW c \in Client, NEW op \in Op, NEW err \in Err,
         NEW jid \in Jid \cup {NoJid}, NEW val \in Int
  PROVE  Ok(Reply(t, c, op, err, jid, val))
  BY ReplyKeeps, SameTablesAgree DEF Ok

LEMMA ReplyListOk ==
  ASSUME NEW t, Ok(t), NEW c \in Client, NEW op \in Op, NEW err \in Err,
         NEW jid \in Jid \cup {NoJid}, NEW list \in Seq(Pid)
  PROVE  Ok(ReplyList(t, c, op, err, jid, list))
  BY ReplyListKeeps, SameTablesAgree DEF Ok

LEMMA NewJidType ==
  ASSUME NEW t \in Memory, t.hid # DISABLED, NEW r, r.jid \in Jid \cup {NoJid},
         ~ JidRefused(t, r)
  PROVE  NewJid(t, r) \in Jid \ t.jobTab /\ NewCount(t, r) \in 0 .. (SidCount - 1)
<1>1. t.hid \in Hid /\ t.count \in 0 .. (SidCount - 1) /\ SidCount \in Nat \ {0}
  BY ParamsAssumption DEF Memory
<1>2. Tries(t) \in 0 .. (SidCount - 1) /\ (Usable(t, Tries(t)) \/ Tries(t) = SidCount - 1)
  BY TriesProperties
<1> DEFINE k == Tries(t)
<1>3. CASE r.jid # NoJid
  BY <1>1, <1>3 DEF NewJid, NewCount, JidRefused
<1>4. CASE r.jid = NoJid
  <2>1. Usable(t, k) BY <1>2, <1>4 DEF JidRefused
  <2> HIDE DEF k
  <2>2. t.count + k \in Nat /\ t.count + k + 1 \in Nat BY <1>1, <1>2 DEF k
  <2>3. Candidate(t, k) \in Jid \cup {NoJid}
    BY <1>1, <2>2, ModRange, MkJidRange DEF Candidate
  <2>4. Candidate(t, k) \in Jid \ t.jobTab BY <2>1, <2>3 DEF Usable
  <2>5. (t.count + k + 1) % SidCount \in 0 .. (SidCount - 1) BY <2>2, ModRange
  <2> QED BY <1>4, <2>4, <2>5 DEF NewJid, NewCount, k
<1> QED BY <1>3, <1>4

LEMMA JobCreateOk ==
  ASSUME NEW t, Ok(t), t.hid # DISABLED, NEW c \in Client, NEW exist,
         NEW r, r.pid \in Pid, r.jid \in Jid \cup {NoJid}, r.user \in User
  PROVE  Ok(JobCreate(t, c, r, exist))
<1> DEFINE err == CreateError(t, c, r, exist)
<1>1. err \in {"EPERM", "ESRCH", "EBUSY", "OK"}
  BY DEF CreateError
<1>2. "CREATE" \in Op /\ {"EPERM", "ESRCH", "EBUSY", "OK"} \subseteq Err
      /\ NoJid \in Jid \cup {NoJid} /\ 0 \in Int
  BY DEF Op, Err
<1>3. CASE err = "OK"
  <2> DEFINE j == NewJid(t, r)
             a == InstallJob(t, r.pid, j, r.user)
             n == NewCount(t, r)
             b == [a EXCEPT !.count = n]
  <2>1. ~ JidRefused(t, r) BY <1>3 DEF CreateError
  <2>2. j \in Jid \ t.jobTab /\ n \in 0 .. (SidCount - 1) BY <2>1, NewJidType DEF Ok
  <2>3. JobCreate(t, c, r, exist) = Reply(b, c, "CREATE", "OK", j, 0)
    BY <1>3 DEF JobCreate
  <2> HIDE DEF j, n
  <2>4. a \in Memory /\ TablesAgree(a) BY <2>2, InstallJobAgrees DEF Ok
  <2> HIDE DEF a
  <2>5. b \in Memory /\ SameTables(a, b) BY <2>2, <2>4 DEF Memory, SameTables
  <2>6. Ok(b) BY <2>4, <2>5, SameTablesAgree DEF Ok
  <2> HIDE DEF b
  <2> QED BY <1>2, <2>2, <2>3, <2>6, ReplyOk
<1>4. CASE err # "OK"
  <2>1. JobCreate(t, c, r, exist) = Reply(t, c, "CREATE", err, NoJid, 0)
    BY <1>1, <1>4 DEF JobCreate
  <2> HIDE DEF err
  <2> QED BY <1>1, <1>2, <2>1, ReplyOk
<1> QED BY <1>3, <1>4

LEMMA Literals ==
  /\ {"OK", "EINVAL", "EPERM", "ESRCH", "ENODATA", "EBUSY"} \subseteq Err
  /\ {"CREATE", "WAITJID", "KILLJID", "DETACHJID", "DETACHPID", "ATTACHPID", "SETHID",
      "GETJID", "GETJIDCNT", "GETJIDLST", "GETPIDCNT", "GETPIDLST", "GETUSER",
      "GETPRIMEPID"} \subseteq Op
  /\ NoJid \in Jid \cup {NoJid} /\ 0 \in Int /\ -1 \in Int /\ <<>> \in Seq(Pid)
  BY DEF Op, Err

(* What the answers carry. *)
LEMMA EntryFacts ==
  ASSUME NEW t, Ok(t), NEW j \in t.jobTab
  PROVE  /\ j \in Jid /\ j \in Jid \cup {NoJid}
         /\ t.job[j].proclist \in Seq(Pid) /\ t.job[j].refcnt \in Int /\ t.job[j].user \in Int
         /\ t.job[j].refcnt = Len(t.job[j].proclist) /\ t.job[j].refcnt > 0
<1>1. j \in Jid /\ t.job[j] \in JobEntry BY DEF Ok, Memory
<1>2. User \cup {0} \subseteq Int BY ParamsAssumption
<1>3. t.job[j].proclist \in Seq(Pid) /\ t.job[j].refcnt \in Int /\ t.job[j].user \in User \cup {0}
  BY <1>1 DEF JobEntry
<1> QED BY <1>1, <1>2, <1>3 DEF Ok, TablesAgree, RefcntAgrees

LEMMA WaitJidOk ==
  ASSUME NEW t, Ok(t), NEW c \in Client, NEW r
  PROVE  Ok(WaitJid(t, c, r))
<1>1. CASE r.options # 0 BY <1>1, ReplyOk, Literals DEF WaitJid
<1>2. CASE r.options = 0 /\ r.jid \notin t.jobTab BY <1>2, ReplyOk, Literals DEF WaitJid
<1>3. CASE r.options = 0 /\ r.jid \in t.jobTab
  <2>1. WaitJid(t, c, r) = [t EXCEPT !.job[r.jid] = WaiterJoins(@, c)] BY <1>3 DEF WaitJid
  <2> QED BY <1>3, <2>1, WaitJidAgrees DEF Ok
<1> QED BY <1>1, <1>2, <1>3

LEMMA KillJidOk ==
  ASSUME NEW t, Ok(t), NEW c \in Client, NEW exist, NEW r, r.jid \in Jid
  PROVE  Ok(KillJid(t, c, r, exist))
<1> DEFINE err == KillError(t, c, r)
<1>1. err \in {"EINVAL", "ENODATA", "EPERM", "OK"} BY DEF KillError
<1>2. err \in Err BY <1>1, Literals
<1>3. KillJid(t, c, r, exist) \in
        {Reply(t, c, "KILLJID", err, NoJid, -1), Reply(t, c, "KILLJID", "OK", r.jid, 0),
         Reply(t, c, "KILLJID", "ESRCH", r.jid, -1)}
  BY DEF KillJid
<1> HIDE DEF err
<1>4. Ok(Reply(t, c, "KILLJID", err, NoJid, -1)) BY <1>2, ReplyOk, Literals
<1>5. Ok(Reply(t, c, "KILLJID", "OK", r.jid, 0)) BY ReplyOk, Literals
<1>6. Ok(Reply(t, c, "KILLJID", "ESRCH", r.jid, -1)) BY ReplyOk, Literals
<1> QED BY <1>3, <1>4, <1>5, <1>6

LEMMA DetachJidOk ==
  ASSUME NEW t, Ok(t), NEW c \in Client, NEW r
  PROVE  Ok(DetachJid(t, c, r))
<1>1. CASE c \notin Priv BY <1>1, ReplyOk, Literals DEF DetachJid
<1>2. CASE c \in Priv /\ r.jid \notin t.jobTab BY <1>2, ReplyOk, Literals DEF DetachJid
<1>3. CASE c \in Priv /\ r.jid \in t.jobTab
  <2>1. Ok(DetachAll(t, r.jid)) BY <1>3, DetachAllAgrees DEF Ok
  <2>2. t.job[r.jid].refcnt \in Int BY <1>3, EntryFacts
  <2>3. DetachJid(t, c, r) = Reply(DetachAll(t, r.jid), c, "DETACHJID", "OK", NoJid, t.job[r.jid].refcnt)
    BY <1>3 DEF DetachJid
  <2> QED BY <2>1, <2>2, <2>3, ReplyOk, Literals
<1> QED BY <1>1, <1>2, <1>3

LEMMA DetachPidOk ==
  ASSUME NEW t, Ok(t), NEW c \in Client, NEW r
  PROVE  Ok(DetachPid(t, c, r))
<1>1. CASE c \notin Priv BY <1>1, ReplyOk, Literals DEF DetachPid
<1>2. CASE c \in Priv /\ r.pid \notin t.procTab BY <1>2, ReplyOk, Literals DEF DetachPid
<1>3. CASE c \in Priv /\ r.pid \in t.procTab
  <2>1. 0 \in Status BY ParamsAssumption
  <2>2. Ok(DropProc(t, r.pid, 0)) BY <1>3, <2>1, DropProcAgrees DEF Ok
  <2>3. t.proc[r.pid].job \in Jid \cup {NoJid} BY <1>3, MemberPlace DEF Ok
  <2>4. DetachPid(t, c, r) = Reply(DropProc(t, r.pid, 0), c, "DETACHPID", "OK", t.proc[r.pid].job, 0)
    BY <1>3 DEF DetachPid
  <2> QED BY <2>2, <2>3, <2>4, ReplyOk, Literals
<1> QED BY <1>1, <1>2, <1>3

LEMMA AttachPidOk ==
  ASSUME NEW t, Ok(t), NEW c \in Client, NEW exist, NEW r, r.pid \in Pid
  PROVE  Ok(AttachPid(t, c, r, exist))
<1> DEFINE err == AttachError(t, c, r, exist)
<1>1. err \in {"EPERM", "EINVAL", "ESRCH", "ENODATA", "OK"} BY DEF AttachError
<1>2. CASE err = "OK"
  <2> DEFINE u == AddProcToHash(AddProcToJob(t, r.pid, r.jid), r.pid)
  <2>1. r.jid \in t.jobTab /\ r.pid \in Pid \ t.procTab BY <1>2 DEF AttachError
  <2>2. AttachPid(t, c, r, exist) = Reply(u, c, "ATTACHPID", "OK", r.jid, 0)
    BY <1>2 DEF AttachPid
  <2>3. Ok(u) BY <2>1, JoinAgrees DEF Ok
  <2> HIDE DEF u
  <2>4. r.jid \in Jid \cup {NoJid} BY <2>1, EntryFacts
  <2> QED BY <2>2, <2>3, <2>4, ReplyOk, Literals
<1>3. CASE err # "OK"
  <2>1. AttachPid(t, c, r, exist) = Reply(t, c, "ATTACHPID", err, NoJid, 0)
    BY <1>3 DEF AttachPid
  <2>2. err \in Err BY <1>1, Literals
  <2> HIDE DEF err
  <2> QED BY <2>1, <2>2, ReplyOk, Literals
<1> QED BY <1>2, <1>3

LEMMA SetHidOk ==
  ASSUME NEW t, Ok(t), NEW c \in Client, NEW r, r.hid \in Hid \cup {DISABLED}
  PROVE  Ok(SetHid(t, c, r))
<1>1. CASE c \notin Priv BY <1>1, ReplyOk, Literals DEF SetHid
<1>2. CASE c \in Priv
  <2> DEFINE u == [t EXCEPT !.hid = r.hid]
  <2>1. u \in Memory /\ SameTables(t, u) BY DEF Ok, Memory, SameTables
  <2>2. Ok(u) BY <2>1, SameTablesAgree DEF Ok
  <2>3. SetHid(t, c, r) = Reply(u, c, "SETHID", "OK", NoJid, r.hid) BY <1>2 DEF SetHid
  <2>4. r.hid \in Int BY ParamsAssumption DEF Hid, DISABLED
  <2> HIDE DEF u
  <2> QED BY <2>2, <2>3, <2>4, ReplyOk, Literals
<1> QED BY <1>1, <1>2

LEMMA QueriesOk ==
  ASSUME NEW t, Ok(t), NEW c \in Client, NEW exist, NEW r
  PROVE  /\ Ok(GetJid(t, c, r, exist))
         /\ Ok(GetJidCnt(t, c, r))
         /\ r.room \in Nat => Ok(GetJidList(t, c, r)) /\ Ok(GetPidList(t, c, r))
         /\ Ok(GetPidCnt(t, c, r)) /\ Ok(GetUid(t, c, r)) /\ Ok(GetPrimePid(t, c, r))
<1>1. Ok(GetJid(t, c, r, exist))
  <2>1. CASE r.pid \in t.procTab
    <3>1. t.proc[r.pid].job \in Jid \cup {NoJid} BY <2>1, MemberPlace DEF Ok
    <3>2. t.proc[r.pid].job # NoJid BY <2>1, MemberPlace DEF Ok, Jid, NoJid
    <3>3. GetJid(t, c, r, exist) = Reply(t, c, "GETJID", "OK", t.proc[r.pid].job, 0)
      BY <2>1, <3>2 DEF GetJid
    <3> QED BY <3>1, <3>3, ReplyOk, Literals
  <2>2. CASE r.pid \notin t.procTab
    <3>1. GetJid(t, c, r, exist) \in {Reply(t, c, "GETJID", "ENODATA", NoJid, 0),
                                      Reply(t, c, "GETJID", "ESRCH", NoJid, 0)}
      BY <2>2 DEF GetJid
    <3>2. /\ Ok(Reply(t, c, "GETJID", "ENODATA", NoJid, 0))
          /\ Ok(Reply(t, c, "GETJID", "ESRCH", NoJid, 0))
      BY ReplyOk, Literals
    <3> QED BY <3>1, <3>2
  <2> QED BY <2>1, <2>2
<1>2. t.nJobs \in Int
  BY DEF Ok, Memory
<1>3. Ok(GetJidCnt(t, c, r))
  BY <1>2, ReplyOk, Literals DEF GetJidCnt
<1>4. r.room \in Nat => Ok(GetJidList(t, c, r))
  <2>1. r.room \in Nat => Smaller(r.room, t.nJobs) \in Int BY <1>2 DEF Smaller
  <2> QED BY <2>1, ReplyOk, Literals DEF GetJidList
<1>5. r.room \in Nat => Ok(GetPidList(t, c, r))
  <2> SUFFICES ASSUME r.room \in Nat PROVE Ok(GetPidList(t, c, r)) OBVIOUS
  <2>1. CASE r.room = 0
    BY <2>1, ReplyListOk, Literals DEF GetPidList
  <2>2. CASE r.room # 0 /\ r.jid \notin t.jobTab
    <3>1. GetPidList(t, c, r) = Reply(t, c, "GETPIDLST", "ENODATA", NoJid, r.room)
      BY <2>2 DEF GetPidList
    <3>2. r.room \in Int OBVIOUS
    <3> QED BY <3>1, <3>2, ReplyOk, Literals
  <2>3. CASE r.room # 0 /\ r.jid \in t.jobTab
    <3> DEFINE list == t.job[r.jid].proclist
               n == Smaller(r.room, Smaller(t.job[r.jid].refcnt, Len(list)))
               part == SubSeq(list, 1, n)
    <3>1. list \in Seq(Pid) /\ t.job[r.jid].refcnt = Len(list) /\ r.jid \in Jid \cup {NoJid}
      BY <2>3, EntryFacts
    <3>2. n \in 0 .. Len(list) BY <3>1 DEF Smaller
    <3>3. GetPidList(t, c, r) = ReplyList(t, c, "GETPIDLST", "OK", r.jid, part)
      BY <2>3 DEF GetPidList
    <3> HIDE DEF n, list
    <3>4. part \in Seq(Pid) BY <3>1, <3>2
    <3> HIDE DEF part
    <3> QED BY <3>1, <3>3, <3>4, ReplyListOk, Literals
  <2> QED BY <2>1, <2>2, <2>3
<1>6. Ok(GetPidCnt(t, c, r))
  <2>1. CASE r.jid \in t.jobTab
    <3>1. t.job[r.jid].refcnt \in Int /\ r.jid \in Jid \cup {NoJid} BY <2>1, EntryFacts
    <3> QED BY <2>1, <3>1, ReplyOk, Literals DEF GetPidCnt
  <2>2. CASE r.jid \notin t.jobTab BY <2>2, ReplyOk, Literals DEF GetPidCnt
  <2> QED BY <2>1, <2>2
<1>7. Ok(GetUid(t, c, r))
  <2>1. CASE r.jid \in t.jobTab
    <3>1. t.job[r.jid].user \in Int /\ r.jid \in Jid \cup {NoJid} BY <2>1, EntryFacts
    <3> QED BY <2>1, <3>1, ReplyOk, Literals DEF GetUid
  <2>2. CASE r.jid \notin t.jobTab BY <2>2, ReplyOk, Literals DEF GetUid
  <2> QED BY <2>1, <2>2
<1>8. Ok(GetPrimePid(t, c, r))
  <2>1. CASE r.jid \in t.jobTab
    <3> DEFINE list == t.job[r.jid].proclist
               part == <<Last(list)>>
    <3>1. list \in Seq(Pid) /\ Len(list) > 0 /\ r.jid \in Jid \cup {NoJid}
      BY <2>1, EntryFacts
    <3>2. list # <<>> BY <3>1
    <3>3. GetPrimePid(t, c, r) = ReplyList(t, c, "GETPRIMEPID", "OK", r.jid, part)
      BY <2>1, <3>2 DEF GetPrimePid
    <3> HIDE DEF list
    <3>4. Last(list) \in Pid BY <3>1 DEF Last
    <3>5. part \in Seq(Pid) BY <3>4
    <3> HIDE DEF part
    <3> QED BY <3>1, <3>3, <3>5, ReplyListOk, Literals
  <2>2. CASE r.jid \notin t.jobTab BY <2>2, ReplyOk, Literals DEF GetPrimePid
  <2> QED BY <2>1, <2>2
<1> QED BY <1>1, <1>3, <1>4, <1>5, <1>6, <1>7, <1>8

(* A handler that only answers its caller. *)
Answers(t, u, c) == \E a : u = [t EXCEPT !.answer[c] = a]

LEMMA RepliesAnswer ==
  ASSUME NEW t, NEW c, NEW op, NEW err, NEW jid, NEW val, NEW list
  PROVE  Answers(t, Reply(t, c, op, err, jid, val), c) /\ Answers(t, ReplyList(t, c, op, err, jid, list), c)
BY DEF Answers, Reply, ReplyList

LEMMA QueriesAnswer ==
  ASSUME NEW t, NEW c, NEW exist, NEW r
  PROVE  /\ Answers(t, KillJid(t, c, r, exist), c) /\ Answers(t, GetJid(t, c, r, exist), c)
         /\ Answers(t, GetJidCnt(t, c, r), c) /\ Answers(t, GetJidList(t, c, r), c)
         /\ Answers(t, GetPidCnt(t, c, r), c) /\ Answers(t, GetPidList(t, c, r), c)
         /\ Answers(t, GetUid(t, c, r), c) /\ Answers(t, GetPrimePid(t, c, r), c)
<1>1. Answers(t, KillJid(t, c, r, exist), c)
  BY RepliesAnswer, Zenon DEF KillJid
<1>2. Answers(t, GetJid(t, c, r, exist), c)
  BY RepliesAnswer, Zenon DEF GetJid
<1>3. Answers(t, GetJidCnt(t, c, r), c) /\ Answers(t, GetJidList(t, c, r), c)
  BY RepliesAnswer, Zenon DEF GetJidCnt, GetJidList
<1>4. Answers(t, GetPidCnt(t, c, r), c) /\ Answers(t, GetUid(t, c, r), c)
  BY RepliesAnswer, Zenon DEF GetPidCnt, GetUid
<1>5. Answers(t, GetPidList(t, c, r), c)
  BY RepliesAnswer, Zenon DEF GetPidList
<1>6. Answers(t, GetPrimePid(t, c, r), c)
  BY RepliesAnswer, Zenon DEF GetPrimePid
<1> QED
  BY <1>1, <1>2, <1>3, <1>4, <1>5, <1>6

(* process_mesg(): every request leaves the tables in agreement. *)
LEMMA ProcessMesgOk ==
  ASSUME NEW t, Ok(t), t.hid # DISABLED, NEW c \in Client, NEW r \in Request, NEW exist
  PROVE  Ok(ProcessMesg(t, c, r, exist))
<1>1. CASE r.op = "CREATE"
  <2>1. r.pid \in Pid /\ r.jid \in Jid \cup {NoJid} /\ r.user \in User BY <1>1 DEF Request
  <2> QED BY <1>1, <2>1, JobCreateOk DEF ProcessMesg
<1>2. CASE r.op = "WAITJID" BY <1>2, WaitJidOk DEF ProcessMesg
<1>3. CASE r.op = "KILLJID"
  <2>1. r.jid \in Jid BY <1>3 DEF Request
  <2> QED BY <1>3, <2>1, KillJidOk DEF ProcessMesg
<1>4. CASE r.op = "DETACHJID" BY <1>4, DetachJidOk DEF ProcessMesg
<1>5. CASE r.op = "DETACHPID" BY <1>5, DetachPidOk DEF ProcessMesg
<1>6. CASE r.op = "ATTACHPID"
  <2>1. r.pid \in Pid BY <1>6 DEF Request
  <2> QED BY <1>6, <2>1, AttachPidOk DEF ProcessMesg
<1>7. CASE r.op = "SETHID"
  <2>1. r.hid \in Hid \cup {DISABLED} BY <1>7 DEF Request
  <2> QED BY <1>7, <2>1, SetHidOk DEF ProcessMesg
<1>8. CASE r.op = "GETJID" BY <1>8, QueriesOk DEF ProcessMesg
<1>9. CASE r.op = "GETJIDCNT" BY <1>9, QueriesOk DEF ProcessMesg
<1>10. CASE r.op \in {"GETJIDLST", "GETPIDLST"}
  <2>1. r.room \in Nat BY <1>10 DEF Request
  <2> QED BY <1>10, <2>1, QueriesOk DEF ProcessMesg
<1>11. CASE r.op \in {"GETPIDCNT", "GETUSER", "GETPRIMEPID"} BY <1>11, QueriesOk DEF ProcessMesg
<1>12. r.op \in Op BY DEF Request, Op
<1> QED
  BY <1>1, <1>2, <1>3, <1>4, <1>5, <1>6, <1>7, <1>8, <1>9, <1>10, <1>11, <1>12 DEF Op
=============================================================================
