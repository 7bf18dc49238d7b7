------------------------------ MODULE CsaBuild ------------------------------
(***************************************************************************)
(* csabuild: from the pacct files of a night to the sorted pacct file.     *)
(* The records are put into segments, one list of segments for each job    *)
(* ID and boot; the records of a workload management request are           *)
(* consolidated and put into the segments of its job; the segments of one  *)
(* request are joined; each segment is written as one job.                 *)
(***************************************************************************)
EXTENDS Integers, SequencesExt, FiniteSetsExt

CONSTANT Size           \* bytes of a record of each type

Type == {"cfg", "soj", "eop", "eoj", "wkmg"}
ASSUME SizeAssumption == \A t \in Type : Size[t] \in Nat \ {0}

NoJid == -3             \* WM_NO_JID
NoReq == -1

(* A record has a type; soj, eop and eoj have a jid and a time, cfg a boot *)
(* and a time, wkmg a sub (RECV, INIT, TERM, CON), a req, a jid, a time    *)
(* and term, whether it has ended.                                         *)

(* initialize_segment.  proc are places in the input files. *)
Segment == [start |-> 0, stop |-> 0, req |-> NoReq, proc |-> <<>>, wm |-> <<>>]
(* The segments of a job ID; closed when the last has its EOJ. *)
NewChain == [segs |-> <<Segment>>, closed |-> FALSE]
Uptime(boot) == [boot |-> boot, jobs |-> <<>>, queued |-> <<>>]

(* up: the uptimes.  ind: the current one.  file, off: the place in the    *)
(* input.  reqs: the requests.  dropped: the records that have no job.     *)
Empty == [up |-> <<>>, ind |-> 0, file |-> 0, off |-> 0, reqs |-> <<>>, dropped |-> <<>>, ok |-> TRUE]

(***************************************************************************)
(* get_segptr                                                              *)
(***************************************************************************)
ChainOf(b, u, jid) == IF jid \in DOMAIN b.up[u].jobs THEN b.up[u].jobs[jid] ELSE NewChain

(* The start of a segment comes from its processes: csad leaves the        *)
(* restart time, which csabuild takes from the start of a job, at zero.    *)
Stime(rec) == IF rec.type = "soj" THEN 0 ELSE rec.time
Earlier(t1, t2) == IF t2 = 0 \/ t1 < t2 THEN t1 ELSE t2

(* The records of a job go to its last segment.  NOJOB is <<>>. *)
PlaceInJob(c, rec) ==
  LET n == Len(c.segs)
      s == c.segs[n]
  IN IF c.closed
     THEN IF rec.type = "eoj" THEN <<>>
          ELSE <<[segs |-> Append(c.segs, [Segment EXCEPT !.start = Stime(rec)]), closed |-> FALSE], n + 1>>
     ELSE IF rec.type = "eoj"
          THEN <<[segs |-> [c.segs EXCEPT ![n].stop = rec.time], closed |-> TRUE], n>>
          ELSE <<[c EXCEPT !.segs[n].start = Earlier(Stime(rec), @)], n>>

(* Other records go to the first segment that their time fits; a request   *)
(* does not go to one that has a request already.                          *)
Fits(s, rec) ==
  \/ s.start = 0 /\ s.stop = 0
  \/ /\ ~(rec.type = "wkmg" /\ s.req # NoReq)
     /\ \/ s.stop = 0
        \/ rec.time >= s.start /\ rec.time <= s.stop
PlaceByTime(c, rec) ==
  LET fit == {n \in DOMAIN c.segs : Fits(c.segs[n], rec)}
  IN IF fit # {} THEN <<c, Min(fit)>>
     ELSE <<[segs |-> Append(c.segs, Segment), closed |-> FALSE], Len(c.segs) + 1>>

(***************************************************************************)
(* process_eop, process_special                                            *)
(***************************************************************************)
(* Mutant: a boot is not noticed. *)
BootedOnce(b, boot) == IF b.up = <<>> THEN [b EXCEPT !.up = <<Uptime(boot)>>, !.ind = 1] ELSE b
(* A configuration record with another boot time changes the uptime. *)
Booted(b, boot) ==
  LET same == {u \in DOMAIN b.up : b.up[u].boot = boot}
  IN IF same # {} THEN [b EXCEPT !.ind = IF b.up[b.ind].boot = boot THEN @ ELSE Min(same)]
     ELSE [b EXCEPT !.up = Append(@, Uptime(boot)), !.ind = Len(b.up) + 1]

Place(b) == [file |-> b.file, off |-> b.off]
AddProc(b, c, n, jid) ==
  [b EXCEPT !.up[b.ind].jobs = (jid :> [c EXCEPT !.segs[n].proc = Append(@, Place(b))]) @@ @]

(* The offset; with -i it stays where it is when the record has no job.    *)
Advance(b, rec, found, i) == [b EXCEPT !.off = IF found \/ ~i THEN @ + Size[rec.type] ELSE @]

PacctRecord(b, rec, i) ==
  IF b.up = <<>>
  THEN IF rec.type # "eop" /\ i THEN Advance([b EXCEPT !.dropped = Append(@, rec)], rec, FALSE, i)
       ELSE [b EXCEPT !.ok = FALSE]
  ELSE LET at == PlaceInJob(ChainOf(b, b.ind, rec.jid), rec)
       IN IF at = <<>> THEN Advance([b EXCEPT !.dropped = Append(@, rec)], rec, FALSE, i)
          ELSE Advance(AddProc(b, at[1], at[2], rec.jid), rec, TRUE, i)

(* Configuration records are kept under job ID 0. *)
CfgRecord(b, rec, i) ==
  LET b1 == Booted(b, rec.boot)
      at == PlaceByTime(ChainOf(b1, b1.ind, 0), rec)
  IN Advance(AddProc(b1, at[1], at[2], 0), rec, TRUE, i)

(***************************************************************************)
(* process_wm                                                              *)
(***************************************************************************)
(* The consolidated record of a part of a request. *)
Con(rec) == [type |-> "wkmg", sub |-> "CON", req |-> rec.req, jid |-> rec.jid, time |-> rec.time, term |-> FALSE]
MakeSegment(b, con) == [u |-> b.ind, con |-> con]
MakeRequest(b, con) ==
  [b EXCEPT !.reqs = Append(@, [req |-> con.req, parts |-> <<MakeSegment(b, con)>>, last |-> "none"])]
Find(b, req) == {k \in DOMAIN b.reqs : b.reqs[k].req = req}
LastPart(b, k) == Len(b.reqs[k].parts)

WmCon(b, rec) == IF Find(b, rec.req) # {} THEN b ELSE MakeRequest(b, Con(rec))

WmRecv(b, rec) ==
  LET b1 == IF Find(b, rec.req) # {} THEN b ELSE MakeRequest(b, [Con(rec) EXCEPT !.jid = NoJid])
  IN [b1 EXCEPT !.reqs[Min(Find(b1, rec.req))].last = "RECV"]

(* A request that was only received, or that comes from a recycled record, *)
(* takes its last part over.                                               *)
WmInit(b, rec) ==
  LET b1 == IF Find(b, rec.req) # {} THEN b ELSE MakeRequest(b, Con(rec))
      k == Min(Find(b1, rec.req))
      new == b1.reqs[k].last \notin {"RECV", "none"}
      parts == b1.reqs[k].parts
  IN [b1 EXCEPT !.reqs[k].last = "INIT",
                !.reqs[k].parts = IF new THEN Append(parts, MakeSegment(b1, Con(rec)))
                                  ELSE [parts EXCEPT ![Len(parts)].con = Con(rec)]]

WmTerm(b, rec) ==
  LET b1 == IF Find(b, rec.req) # {} THEN b ELSE MakeRequest(b, Con(rec))
      k == Min(Find(b1, rec.req))
      n == LastPart(b1, k)
  IN IF b1.reqs[k].parts[n].con.term THEN b1
     ELSE [b1 EXCEPT !.reqs[k].parts[n].con.term = TRUE, !.reqs[k].last = "TERM"]

PrcWm(b, rec) ==
  CASE rec.sub = "CON" -> WmCon(b, rec) [] rec.sub = "RECV" -> WmRecv(b, rec)
    [] rec.sub = "INIT" -> WmInit(b, rec) [] rec.sub = "TERM" -> WmTerm(b, rec)

(* The time of a record is compared with that of the first uptime, which   *)
(* must have been seen.                                                    *)
WmRecord(b, rec, i) ==
  IF b.up = <<>> THEN [b EXCEPT !.ok = FALSE] ELSE Advance(PrcWm(b, rec), rec, TRUE, i)

(***************************************************************************)
(* Build_segment, Build_file                                               *)
(***************************************************************************)
BuildRecord(b, rec, i) ==
  CASE ~b.ok -> b
    [] rec.type = "cfg" -> CfgRecord(b, rec, i)
    [] rec.type = "wkmg" -> WmRecord(b, rec, i)
    [] OTHER -> PacctRecord(b, rec, i)
BuildFile(files, i) ==
  FoldLeftDomain(LAMBDA b, f : FoldLeft(LAMBDA b1, rec : BuildRecord(b1, rec, i),
                                        [b EXCEPT !.file = f, !.off = 0], files[f]),
                 Empty, files)

(***************************************************************************)
(* add_segs_wm                                                             *)
(***************************************************************************)
AddPart(b, part) ==
  LET con == part.con
      u == part.u
      into(s) == [s EXCEPT !.wm = Append(@, con), !.req = con.req]
      at == PlaceByTime(ChainOf(b, u, con.jid), con)
  IN IF con.jid = NoJid THEN [b EXCEPT !.up[u].queued = Append(@, into(Segment))]
     ELSE IF at[1].segs[at[2]].req \notin {NoReq, con.req} THEN [b EXCEPT !.ok = FALSE]
     ELSE [b EXCEPT !.up[u].jobs = (con.jid :> [at[1] EXCEPT !.segs[at[2]] = into(@)]) @@ @]
Parts(b) == FlattenSeq([k \in DOMAIN b.reqs |-> b.reqs[k].parts])
AddSegsWm(b) == FoldLeft(LAMBDA b1, part : IF b1.ok THEN AddPart(b1, part) ELSE b1, b, Parts(b))

(***************************************************************************)
(* Condense_wm                                                             *)
(***************************************************************************)
(* trackwm: where the parts of a request are, and how many there are. *)
Key(part) == [req |-> part.con.req, u |-> part.u, jid |-> part.con.jid]
Track(b) == {Key(p) : p \in ToSet(Parts(b))}
Twice(b, key) == Cardinality({n \in DOMAIN Parts(b) : Key(Parts(b)[n]) = key}) > 1
Spread(b, req) == LET keys == {key \in Track(b) : key.req = req}
                  IN Cardinality(keys) > 1 \/ \E key \in keys : Twice(b, key)

(* Only the requests in several parts are kept in the table.  The others   *)
(* get a job ID that the sort puts first, and not last, except for what    *)
(* has no job; the table ends at the first of them.                        *)
TableAsMeant(b) == {key \in Track(b) : Spread(b, key.req)}
Table(b) == IF TableAsMeant(b) = Track(b) THEN Track(b) ELSE {key \in TableAsMeant(b) : key.jid = NoJid}

Before(k1, k2) == k1.u < k2.u \/ (k1.u = k2.u /\ k1.jid < k2.jid)

Segs(b, key) == IF key.jid = NoJid THEN b.up[key.u].queued ELSE ChainOf(b, key.u, key.jid).segs
SetSegs(b, key, segs, closed) ==
  IF key.jid = NoJid THEN [b EXCEPT !.up[key.u].queued = segs]
  ELSE [b EXCEPT !.up[key.u].jobs = (key.jid :> [segs |-> segs, closed |-> closed]) @@ @]
Closed(b, key) == key.jid # NoJid /\ ChainOf(b, key.u, key.jid).closed
Mine(b, key) == {n \in DOMAIN Segs(b, key) : Segs(b, key)[n].req = key.req}

(* Consolidate_wm: the segments of the request in one list. *)
ConsolidateWm(b, key) ==
  LET segs == Segs(b, key)
      mine == SetToSortSeq(Mine(b, key), <)
      into == [segs[mine[1]] EXCEPT !.proc = FlattenSeq([m \in DOMAIN mine |-> segs[mine[m]].proc]),
                                    !.wm = FlattenSeq([m \in DOMAIN mine |-> segs[mine[m]].wm])]
      kept == SetToSortSeq((DOMAIN segs \ ToSet(mine)) \cup {mine[1]}, <)
  IN IF Twice(b, key)
     THEN SetSegs(b, key, [m \in DOMAIN kept |-> IF kept[m] = mine[1] THEN into ELSE segs[kept[m]]], Closed(b, key))
     ELSE b

(* "Delete next chain": the segment after the one that was joined goes, if *)
(* there is one; else the joined segment is emptied.                       *)
DeleteNext(b, key) ==
  LET segs == Segs(b, key)
      n == Min(Mine(b, key))
  IN IF n < Len(segs) THEN SetSegs(b, key, RemoveAt(segs, n + 1), Closed(b, key))
     ELSE SetSegs(b, key, [segs EXCEPT ![n] = Segment], FALSE)

(* Another part joins the first.  tail is the segment whose list of        *)
(* records is at the end of the list of the first: a part without records  *)
(* leaves the end of the list in itself.                                   *)
Join(b, first, tail, key) ==
  LET b1 == ConsolidateWm(b, key)
      s == Segs(b1, key)[Min(Mine(b1, key))]
      more(b2, k, n) == SetSegs(b2, k, [Segs(b2, k) EXCEPT ![n].proc = @ \o s.proc], Closed(b2, k))
      m == Min(Mine(b1, first))
      b3 == SetSegs(b1, first, [Segs(b1, first) EXCEPT ![m].wm = @ \o s.wm], Closed(b1, first))
      emptied == DeleteNext(b3, key)
  IN IF tail = <<>> THEN [b |-> DeleteNext(more(b3, first, m), key),
                          tail |-> IF s.proc = <<>> THEN <<key, Min(Mine(b1, key))>> ELSE tail]
     ELSE [b |-> more(emptied, tail[1], tail[2]),
           tail |-> IF s.proc = <<>> THEN <<key, Min(Mine(b1, key))>> ELSE tail]

CondenseRequest(b, keys) ==
  IF Mine(b, keys[1]) = {} THEN [b EXCEPT !.ok = FALSE]
  ELSE FoldLeft(LAMBDA j, key : IF ~j.b.ok \/ Mine(j.b, key) = {} THEN [j EXCEPT !.b.ok = FALSE]
                                ELSE Join(j.b, keys[1], j.tail, key),
                [b |-> ConsolidateWm(b, keys[1]), tail |-> <<>>], Tail(keys)).b

CondenseWm(b) ==
  LET reqs == SetToSortSeq({key.req : key \in Table(b)}, <)
  IN FoldLeft(LAMBDA b1, req : IF b1.ok
                THEN CondenseRequest(b1, SetToSortSeq({key \in Table(b) : key.req = req}, Before)) ELSE b1,
              b, reqs)

(***************************************************************************)
(* Create_srec                                                             *)
(***************************************************************************)
OffsetOf(file, n) == FoldLeft(LAMBDA a, rec : a + Size[rec.type], 0, SubSeq(file, 1, n - 1))
Hits(files, p) == {n \in DOMAIN files[p.file] : OffsetOf(files[p.file], n) = p.off}
ReadRecord(files, p) == files[p.file][Min(Hits(files, p))]

(* A job without an end is over when the machine has been booted since. *)
Crashed(b, u, s, ended, opt) == s.wm = <<>> /\ opt.a /\ u < Len(b.up) /\ ~ended

(* Write_Job_recs: the processes, then the other records of the job, then  *)
(* the request, and the header with its flags.                             *)
WriteJobRecs(files, b, u, jid, s, opt) ==
  LET recs == [n \in DOMAIN s.proc |-> ReadRecord(files, s.proc[n])]
      eop == SelectSeq(recs, LAMBDA r : r.type = "eop")
      job == SelectSeq(recs, LAMBDA r : r.type # "eop")
      timed == SelectSeq(eop \o job, LAMBDA r : r.type # "cfg")
      I == \E n \in DOMAIN job : job[n].type = "eoj"
  IN [eop |-> eop, job |-> job, wm |-> s.wm,
      jid |-> IF s.wm # <<>> THEN jid ELSE IF timed = <<>> THEN 0 ELSE timed[Len(timed)].jid,
      btime |-> IF timed = <<>> THEN 0 ELSE timed[Len(timed)].time,
      I |-> I,
      B |-> \E n \in DOMAIN s.wm : s.wm[n].term,
      W |-> s.wm # <<>>,
      C |-> Crashed(b, u, s, I, opt),
      T |-> s.start # 0 /\ s.start <= opt.cutoff]

(* The segments of an uptime in the order of the file; a job ID whose      *)
(* first segment has no record of the kernel is left out.                  *)
Written(up) ==
  LET jids == SetToSortSeq({j \in DOMAIN up.jobs : up.jobs[j].segs[1].proc # <<>>}, <)
      of(j) == [n \in DOMAIN up.jobs[j].segs |-> <<j, up.jobs[j].segs[n]>>]
  IN [n \in DOMAIN up.queued |-> <<NoJid, up.queued[n]>>] \o FlattenSeq([m \in DOMAIN jids |-> of(jids[m])])

CreateSrec(files, b, opt) ==
  [u \in DOMAIN b.up |->
     [boot |-> b.up[u].boot,
      jobs |-> LET w == Written(b.up[u])
               IN [n \in DOMAIN w |-> WriteJobRecs(files, b, u, w[n][1], w[n][2], opt)]]]

(* Every place must hold a record, or csabuild stops. *)
Readable(files, b) ==
  \A u \in DOMAIN b.up : \A n \in DOMAIN Written(b.up[u]) :
    \A m \in DOMAIN Written(b.up[u])[n][2].proc : Hits(files, Written(b.up[u])[n][2].proc[m]) # {}

(* main: opt is [a, i, n, cutoff]. *)
BuildTables(files, opt) ==
  LET b == BuildFile(files, opt.i)
      b1 == IF b.ok THEN AddSegsWm(b) ELSE b
  IN IF b1.ok /\ ~opt.n THEN CondenseWm(b1) ELSE b1
Csabuild(files, opt) ==
  LET b == BuildTables(files, opt)
  IN IF b.ok /\ Readable(files, b) THEN [ok |-> TRUE, spacct |-> CreateSrec(files, b, opt), dropped |-> b.dropped]
     ELSE [ok |-> FALSE, spacct |-> <<>>, dropped |-> b.dropped]
=============================================================================
