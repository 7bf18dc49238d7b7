--------------------------- MODULE RequestReport ---------------------------
(***************************************************************************)
(* csajrep (csa/cmd/csajrep.c): what a job of the sorted pacct file used.  *)
(* A request of a workload manager (-N) is shown in segments, one for each *)
(* start of the request, and in each segment by user and project; other    *)
(* jobs are shown record by record, and the billing units of a process are *)
(* multiplied by the weight of its part of the request.                    *)
(***************************************************************************)
EXTENDS Integers, SequencesExt, FiniteSetsExt

(* The project of a record that has none. *)
DefaultPrid == -2

(* Of a record: its job ID, user and project, when it began and ended, and *)
(* its CPU time, which only a process has.                                 *)
Prid(rec) == IF rec.type = "eop" THEN rec.prid ELSE DefaultPrid
Stop(rec) == IF rec.type = "soj" THEN rec.time ELSE rec.time + rec.dur
Used(rec) == IF rec.type = "eop" THEN rec.cpu ELSE 0

Entry(uid, prid, cpu) == [uid |-> uid, prid |-> prid, cpu |-> cpu]
Portion(jid, start, stop, list) == [jid |-> jid, start |-> start, stop |-> stop, list |-> list]

(***************************************************************************)
(* do_wm: the segments in the order of their start                         *)
(***************************************************************************)
OfWm(wm) == Portion(wm.jid, wm.time, wm.time, <<Entry(wm.uid, wm.prid, wm.cpu)>>)

(* A segment goes behind the last that did not start after it.             *)
Insert(segs, seg) ==
  LET before == {n \in DOMAIN segs : segs[n].start <= seg.start}
      at == IF before = {} THEN 0 ELSE Max(before)
  IN InsertAt(segs, at + 1, seg)
SegmentList(wms) == FoldLeft(LAMBDA segs, wm : Insert(segs, OfWm(wm)), <<>>, wms)

(* The time of the whole request. *)
WallOfWm(wms) ==
  FoldLeft(LAMBDA w, wm : IF wm.time < w[1] THEN <<wm.time, w[2]>>
                          ELSE IF wm.time > w[2] THEN <<w[1], wm.time>> ELSE w,
           <<wms[1].time, wms[1].time>>, wms)

(***************************************************************************)
(* find_wm                                                                 *)
(***************************************************************************)
(* The first segment from n on with the job ID; but a segment that starts  *)
(* no sooner than the record, with neither it nor the next of that job ID, *)
(* ends the search.                                                        *)
SearchFrom(r, rec) == IF rec.time >= r.segs[r.curr].start THEN r.curr ELSE 1
Found(r, rec) == {n \in SearchFrom(r, rec)..Len(r.segs) : r.segs[n].jid = rec.jid}
Stops(r, rec) ==
  {n \in SearchFrom(r, rec)..Len(r.segs) :
     /\ r.segs[n].jid # rec.jid /\ rec.time <= r.segs[n].start
     /\ n = Len(r.segs) \/ r.segs[n + 1].jid # rec.jid}
Here(r, rec) == Found(r, rec) # {} /\ \A n \in Stops(r, rec) : Min(Found(r, rec)) < n

(* add_wm: a segment is made up before the one that ended the search, or   *)
(* after the last.                                                         *)
MadeUp(r, rec) ==
  LET at == IF Stops(r, rec) = {} THEN Len(r.segs) + 1 ELSE Min(Stops(r, rec))
  IN [r EXCEPT !.segs = InsertAt(@, at, Portion(rec.jid, rec.time, Stop(rec), <<Entry(rec.uid, Prid(rec), 0)>>)),
               !.curr = at, !.ent = 1]

(* An entry without a project takes that of the first record of its user;  *)
(* a record without one takes any entry of its user.                       *)
Matches(e, rec) == e.uid = rec.uid /\ (e.prid = DefaultPrid \/ Prid(rec) = DefaultPrid \/ e.prid = Prid(rec))

FindEntry(r, rec) ==
  LET list == r.segs[r.curr].list
      fit == {n \in DOMAIN list : Matches(list[n], rec)}
      n == Min(fit)
  IN IF fit = {}
     THEN [r EXCEPT !.segs[r.curr].list = Append(@, Entry(rec.uid, Prid(rec), 0)), !.ent = Len(list) + 1]
     ELSE [r EXCEPT !.segs[r.curr].list[n].prid = IF @ = DefaultPrid THEN Prid(rec) ELSE @, !.ent = n]

FindWm(r, rec) ==
  IF Here(r, rec)
  THEN LET n == Min(Found(r, rec))
       IN FindEntry([r EXCEPT !.segs[n].start = IF rec.time < @ THEN rec.time ELSE @, !.curr = n], rec)
  ELSE MadeUp(r, rec)

(***************************************************************************)
(* wm_process, do_wm                                                       *)
(***************************************************************************)
(* A record that begins earlier than the request does not move its end.    *)
Wall(wall, rec) ==
  IF rec.time < wall[1] THEN <<rec.time, wall[2]>>
  ELSE IF Stop(rec) > wall[2] THEN <<wall[1], Stop(rec)>> ELSE wall

(* Mutant: the time goes to the first entry of the segment. *)
WmProcessFirst(r, rec) ==
  IF rec.type = "cfg" THEN r
  ELSE LET f == FindWm([r EXCEPT !.wall = Wall(@, rec)], rec)
       IN [f EXCEPT !.segs[f.curr].list[1].cpu = @ + Used(rec)]
WmProcess(r, rec) ==
  IF rec.type = "cfg" THEN r
  ELSE LET f == FindWm([r EXCEPT !.wall = Wall(@, rec)], rec)
       IN [f EXCEPT !.segs[f.curr].list[f.ent].cpu = @ + Used(rec),
                    !.segs[f.curr].stop = IF rec.type = "eoj" \/ (rec.type = "eop" /\ @ < Stop(rec))
                                          THEN Stop(rec) ELSE @]

(* The records of the job, then the processes, each from the first segment. *)
DoWm(job) ==
  LET r1 == FoldLeft(WmProcess, [segs |-> SegmentList(job.wm), wall |-> WallOfWm(job.wm), curr |-> 1, ent |-> 1],
                     job.job)
  IN FoldLeft(WmProcess, [r1 EXCEPT !.curr = 1, !.ent = 1], job.eop)

(***************************************************************************)
(* do_job                                                                  *)
(***************************************************************************)
(* select_job.  sel is the choice of the caller: everything (-F), a job ID *)
(* or a request, whether only the records of the choice are shown (-e),    *)
(* and whether job ID 0 is left out (-Z).                                  *)
AnyOne == -1
Chosen(rec, sel, record) ==
  \/ sel.full /\ ~sel.noZero
  \/ /\ rec.type # "cfg"
     /\ ~(sel.noZero /\ rec.jid = 0)
     /\ \/ record /\ ~sel.exclusive
        \/ /\ sel.jid \in {AnyOne, rec.jid}
           /\ sel.req = AnyOne \/ (rec.type = "wkmg" /\ sel.req = rec.req)
Shown(rec, sel) == (sel.exclusive \/ sel.noZero) => Chosen(rec, sel, TRUE)

(* The weights of the parts that are shown go into the table, at the place *)
(* of the part; what an earlier job left in the other places stays, and    *)
(* what was never written is nobody's.                                     *)
Multipliers(mult, wms, sel) ==
  [n \in 1..(IF Len(wms) > Len(mult) THEN Len(wms) ELSE Len(mult)) |->
     IF n <= Len(wms) /\ Shown(wms[n], sel) THEN [jid |-> wms[n].jid, weight |-> wms[n].weight]
     ELSE IF n <= Len(mult) THEN mult[n] ELSE [jid |-> 0, weight |-> 0]]

Weight(mult, job, rec) ==
  LET own == {n \in DOMAIN job.wm : mult[n].jid = rec.jid}
  IN IF own = {} THEN 1 ELSE mult[Min(own)].weight

(* Whether a record of the job is chosen, and if so the processes that are *)
(* shown with their billing units, and the table.                          *)
DoJob(mult, job, sel) ==
  IF ~\E rec \in ToSet(job.wm \o job.eop \o job.job) : Chosen(rec, sel, FALSE)
  THEN [mult |-> mult, shown |-> <<>>]
  ELSE LET m == Multipliers(mult, job.wm, sel)
           procs == SelectSeq(job.eop, LAMBDA rec : Shown(rec, sel))
       IN [mult |-> m,
           shown |-> [n \in DOMAIN procs |-> [rec |-> procs[n], sbu |-> Weight(m, job, procs[n]) * procs[n].cpu]]]
=============================================================================
