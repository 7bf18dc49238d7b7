---------------------------- MODULE CsarunProofs ----------------------------
(***************************************************************************)
(* csarun reports no record twice, and csaperiod charges none that was not *)
(* reported, for any number of records, nights, files, damaged records and *)
(* faults, provided that the nights are orderly.  It loses no record       *)
(* either: until one was reported or taken out as damaged, it is in a file *)
(* that a later night reads, and a job's end is reported with or after the *)
(* rest of the job.                                                        *)
(***************************************************************************)
EXTENDS Csarun, TLAPS, FiniteSetTheorems, WellFoundedInduction

(* One csarun at a time; restarts have the options of the run they resume  *)
(* and name no state whose work was not done (a named BUILD takes files    *)
(* that were not verified); csaperiod waits for csarun; csarecy does its   *)
(* work, nobody switches pacct in SETUP, and no run dies while a file is   *)
(* between two names, or after its work directory has gone.                *)
Orderly ==
  /\ \A r \in Run, q \in Run : r = q
  /\ OptionsKept /\ PeriodAlone /\ ~RecyFails /\ ~SwitchInSetup
  /\ Named \subseteq {"SETUP", "VERIFY"}
  /\ CrashPoints \cap {"mv", "mvgood", "unlock", "complete"} = {}

(***************************************************************************)
(* Where a run is                                                          *)
(***************************************************************************)
State == {"SETUP", "VERIFY", "ARCHIVE1", "BUILD", "ARCHIVE2", "CMS", "REPORT",
          "DREP", "FEF", "USEREXIT", "CLEANUP", "COMPLETE"}
Inside == {"loop", "ls", "mv", "verify", "mvbad", "mvgood", "next", "recy", "mvrecycled", "reports"}
Pc == {"off", "lock", "args", "state", "mkdir", "unlock", "complete"} \cup Inside

FileType == {None} \cup {Holding(S) : S \in SUBSET Rec}
DirType == [made : BOOLEAN, W : [File -> FileType], bad : [File -> FileType],
            edited : FileType, spacct : FileType, recycled : FileType]
RunType == [pc : Pc, date : Date \cup {0}, arg : {"none", "cron", "restart"} \cup Named, all : BOOLEAN,
            edit : BOOLEAN, at : State \cup {"none"}, todo : SUBSET File]

PeriodType == [pc : {"off", "list", "add", "remove"}, list : SUBSET Date, data : SUBSET (Date \X Rec)]

CsarunTypeOK ==
  /\ nite \in [lock : BOOLEAN, state : State, date : Date \cup {0}]
  /\ pacct \in SUBSET Rec /\ day \in [File -> FileType]
  /\ work \in [Date -> DirType] /\ sum \in [Date -> FileType]
  /\ run \in [Run -> RunType]
  /\ period \in PeriodType
  /\ damaged \in SUBSET Rec /\ faults \in Nat
  /\ written \in SUBSET Rec /\ aside \in SUBSET Rec /\ asked \in BOOLEAN
  /\ bills \in [Rec -> Nat] /\ charged \in [Rec -> Nat]

(* The state file while a run is at a command of that state.               *)
StatesAt(pc) ==
  CASE pc \in {"ls", "mv"} -> {"SETUP"}
    [] pc \in {"verify", "mvbad", "mvgood"} -> {"VERIFY"}
    [] pc \in {"recy", "mvrecycled", "reports"} -> {"REPORT"}
    [] pc = "next" -> State \ {"CLEANUP", "COMPLETE"}
    [] pc \in {"unlock", "complete"} -> {"CLEANUP"}
    [] OTHER -> State \cup {"none"}

(* A run that has looked at its arguments is at the date of the state      *)
(* file, with the options of its night.                                    *)
RunAt(r) ==
  /\ run[r].pc \in {"lock", "args"} =>
       /\ run[r].date \in Date \cap {nite.date, nite.date + 1}
       /\ run[r].arg # "none" /\ (run[r].arg # "cron" => run[r].all = asked)
       /\ run[r].arg \in Named => nite.state # "COMPLETE"
  /\ run[r].pc \notin {"off", "lock", "args"} =>
       run[r].date = nite.date /\ run[r].date \in Date /\ run[r].all = asked
  /\ run[r].pc = "state" => sum[run[r].date] = None /\ nite.state = "COMPLETE"
  /\ run[r].pc = "mkdir" => sum[run[r].date] = None /\ ~Dir(r).made /\ nite.state = "SETUP"
  /\ run[r].pc \in Inside => Dir(r).made
  /\ run[r].pc \in {"unlock", "complete"} => ~Dir(r).made
  /\ run[r].pc \notin {"off", "lock", "args", "state", "mkdir", "loop"} =>
       nite.state = run[r].at /\ run[r].at \in StatesAt(run[r].pc)
  /\ run[r].pc \in {"recy", "mvrecycled"} => ~asked
  /\ run[r].pc \in {"mvbad", "mvgood"} => run[r].todo # {}

(* Only the night of the state file has a work directory, and no later one *)
(* a daily file.                                                           *)
OneNight ==
  \A d \in Date :
    /\ work[d].made => d = nite.date /\ nite.state # "COMPLETE"
    /\ ~work[d].made => work[d] = NoDir
    /\ d > nite.date => sum[d] = None

(* csaperiod has only nights that are complete.                            *)
Open(d) == d = nite.date /\ nite.state # "COMPLETE"
PeriodAt ==
  period.pc # "off" =>
    /\ \A r \in Run : run[r].pc = "off"
    /\ \A d \in period.list : ~Open(d)
    /\ period.pc = "remove" => period.data = UNION {{d} \X Contents(sum[d]) : d \in period.list}

Control == CsarunTypeOK /\ (\A r \in Run : RunAt(r)) /\ OneNight /\ PeriodAt

(***************************************************************************)
(* The numbers of the files                                                *)
(***************************************************************************)
(* A file that csaedit is about to give back keeps its number.             *)
Given(f) == \E r \in Run : run[r].pc = "mvgood" /\ f = Min(run[r].todo)
Moving == \E r \in Run : run[r].pc = "mv"
(* The numbers of the day's files have no gap, and while they are moved    *)
(* those of both directories together; a work directory with a file has a  *)
(* Wpacct1, and no gap.                                                    *)
Gapless(S) == \A f \in S, g \in File : g > 0 /\ (g = 1 \/ g <= f) => g \in S
DayNumbers ==
  /\ ~Moving => \A f \in File, g \in File : day[f] # None /\ 0 < g /\ g <= f => day[g] # None
  /\ \A r \in Run : run[r].pc = "ls" => day[1] # None
WorkNumbers ==
  \A d \in Date : work[d].made =>
    IF Moving
    THEN /\ Gapless({f \in File : work[d].W[f] # None \/ day[f] # None})
         /\ \A f \in File, g \in File : work[d].W[f] # None /\ day[g] # None => f < g
    ELSE Gapless({f \in File : work[d].W[f] # None \/ Given(f)})

(* Nothing is in the work directory before the files are moved; and        *)
(* csaedit makes a file where there was one.                               *)
Fresh ==
  \A r \in Run :
    /\ \/ run[r].pc = "ls"
       \/ run[r].pc = "loop" /\ run[r].arg = "cron" /\ nite.state = "SETUP"
       => Dir(r) = EmptyDir
    /\ run[r].pc = "mv" => /\ run[r].todo = {f \in File : day[f] # None}
                           /\ Dir(r) = [EmptyDir EXCEPT !.W = Dir(r).W]
    /\ run[r].pc = "mvbad" => Dir(r).W[Min(run[r].todo)] # None
    /\ run[r].pc \in {"mvbad", "mvgood"} => Dir(r).edited # None

Numbers == DayNumbers /\ WorkNumbers /\ Fresh

(***************************************************************************)
(* The files of a night                                                    *)
(***************************************************************************)
NotEnded(S) == S \ Ended(S)

(* From the end of VERIFY on the files are free of damaged records, and so *)
(* they are if something was made of them.                                 *)
PastVerify == {"ARCHIVE1", "BUILD", "ARCHIVE2", "CMS", "REPORT", "DREP", "FEF", "USEREXIT", "CLEANUP"}
PastBuild == {"ARCHIVE2", "CMS", "REPORT", "DREP", "FEF", "USEREXIT", "CLEANUP"}
Done(state) == \E r \in Run : run[r].pc = "next" /\ run[r].at = state
Recycled(d) == day[0] # None /\ work[d].W[1] # None
Verified(d) ==
  nite.state \in PastVerify \/ Done("VERIFY") \/ work[d].spacct # None \/ Recycled(d)

(* What csaedit has taken out of a file is in bad: the damaged records are *)
(* put aside, the others are in the file that took its place.              *)
Editing(d) ==
  \A r \in Run :
    LET f == Min(run[r].todo)
    IN /\ run[r].pc \in {"verify", "mvbad", "mvgood"} =>
            \A g \in File \ run[r].todo : Contents(work[d].W[g]) \cap damaged = {}
       /\ run[r].pc \in {"mvbad", "mvgood"} => work[d].spacct = None /\ ~Recycled(d)
       /\ run[r].pc = "mvbad" => /\ Contents(work[d].W[f]) \cap damaged # {}
                                 /\ work[d].edited = Holding(Contents(work[d].W[f]) \ damaged)
       /\ run[r].pc = "mvgood" => /\ work[d].W[f] = None /\ day[0] = None
                                  /\ work[d].edited = Holding(Contents(work[d].bad[f]) \ damaged)
                                  /\ AllOf(work[d].bad) \subseteq aside \cup damaged \cup AllOf(work[d].W) \cup Contents(work[d].edited)
Edited(d) ==
  (\A r \in Run : run[r].pc # "mvgood") =>
    /\ Contents(work[d].edited) \subseteq AllOf(work[d].W)
    /\ AllOf(work[d].bad) \subseteq aside \cup AllOf(work[d].W)

(* The sorted file has all of the records, and the recycled ones are those *)
(* of jobs that go on.                                                     *)
Sorted(d) ==
  /\ work[d].spacct # None => work[d].spacct = Holding(AllOf(work[d].W)) /\ work[d].W[1] # None
  /\ nite.state \in PastBuild \/ Done("BUILD") => work[d].spacct # None
  /\ Contents(work[d].recycled) # {} => work[d].spacct # None
  /\ Contents(work[d].recycled) \subseteq AllOf(work[d].W)
  /\ Contents(sum[d]) # {} => work[d].spacct # None
  /\ Recycled(d) => ~asked /\ Contents(day[0]) \subseteq NotEnded(AllOf(work[d].W))
  /\ \A r \in Run :
       /\ run[r].pc \in {"recy", "mvrecycled"} => Contents(sum[d]) = Ended(AllOf(work[d].W))
       /\ run[r].pc = "mvrecycled" => work[d].recycled = Holding(NotEnded(AllOf(work[d].W)))

Whole(d) == AllOf(work[d].W) \cap damaged = {}
Nightly ==
  \A d \in Date : work[d].made =>
    (Verified(d) => Whole(d)) /\ Editing(d) /\ Edited(d) /\ Sorted(d)

(***************************************************************************)
(* Where each record is                                                    *)
(***************************************************************************)
Billed == {rec \in Rec : bills[rec] > 0}
AllDay == AllOf(day)

(* What is in a file was written, and what was put aside is damaged.       *)
OfWritten ==
  /\ pacct \subseteq written /\ AllDay \subseteq written /\ damaged \subseteq written
  /\ aside \subseteq damaged
  /\ \A d \in Date : InDir(work[d]) \cup Contents(work[d].spacct) \cup Contents(sum[d]) \subseteq written

(* The records of a night; csaedit may have them in a file with no number. *)
InNight(d) == AllOf(work[d].W) \cup Contents(work[d].edited)

(* A record is in one file; only a recycled one is in the work directory,  *)
(* too.                                                                    *)
OneFile ==
  /\ pacct \cap AllDay = {}
  /\ \A f \in File, g \in File : f # g => Contents(day[f]) \cap Contents(day[g]) = {}
  /\ \A d \in Date : work[d].made =>
       /\ pacct \cap InNight(d) = {}
       /\ \A f \in File : f # 0 \/ work[d].W[1] = None => Contents(day[f]) \cap InNight(d) = {}

(* A record that was reported is in no file any more.                      *)
BilledGone ==
  /\ Billed \subseteq written
  /\ Billed \cap (pacct \cup AllDay \cup aside) = {}
  /\ \A d \in Date : work[d].made => Billed \cap (InNight(d) \cup AllOf(work[d].bad)) = {}

(* The daily file of the night is of records that are in no file that a    *)
(* later night reads; that of a complete night is of records that were     *)
(* reported in no other one and in no period.                              *)
DailyFiles ==
  \A d \in Date :
    /\ Open(d) => Contents(sum[d]) \cap (pacct \cup AllDay \cup aside \cup Billed) = {}
    /\ ~Open(d) => /\ \A rec \in Contents(sum[d]) : bills[rec] = 1 /\ charged[rec] = 0
                   /\ \A e \in Date : ~Open(e) /\ e # d => Contents(sum[d]) \cap Contents(sum[e]) = {}
Once == \A rec \in Rec : bills[rec] <= 1 /\ charged[rec] <= bills[rec]

Located == OneFile /\ BilledGone /\ DailyFiles /\ Once

(***************************************************************************)
(* Files, directories and states                                           *)
(***************************************************************************)
LEMMA FileFacts ==
  /\ None \in FileType /\ Contents(None) = {}
  /\ \A S : S \in SUBSET Rec => Holding(S) \in FileType
  /\ \A S : Contents(Holding(S)) = S /\ Holding(S) # None
  /\ \A F \in FileType : Contents(F) \in SUBSET Rec /\ (F = None \/ F = Holding(Contents(F)))
<1>1. \A S : UNION {S} = S
  OBVIOUS
<1>2. UNION {} = {}
  OBVIOUS
<1> QED
  BY <1>1, <1>2 DEF FileType, None, Holding, Contents

LEMMA DirFacts ==
  /\ EmptyDir \in DirType /\ NoDir \in DirType
  /\ EmptyDir.made /\ ~NoDir.made
  /\ \A D \in {EmptyDir, NoDir} :
       /\ D.edited = None /\ D.spacct = None /\ D.recycled = None
       /\ \A f \in File : D.W[f] = None /\ D.bad[f] = None
  /\ NoFiles \in [File -> FileType] /\ \A f \in File : NoFiles[f] = None
<1>1. NoFiles \in [File -> FileType] /\ \A f \in File : NoFiles[f] = None
  BY FileFacts DEF NoFiles
<1>2. EmptyDir \in DirType
  BY <1>1, FileFacts DEF EmptyDir, DirType
<1>3. /\ NoDir = [EmptyDir EXCEPT !.made = FALSE] /\ NoDir \in DirType
      /\ NoDir.made = FALSE /\ NoDir.W = EmptyDir.W /\ NoDir.bad = EmptyDir.bad
      /\ NoDir.edited = EmptyDir.edited /\ NoDir.spacct = EmptyDir.spacct
      /\ NoDir.recycled = EmptyDir.recycled
  BY <1>2 DEF NoDir, DirType
<1>4. /\ EmptyDir.made /\ EmptyDir.W = NoFiles /\ EmptyDir.bad = NoFiles
      /\ EmptyDir.edited = None /\ EmptyDir.spacct = None /\ EmptyDir.recycled = None
  BY DEF EmptyDir
<1> QED
  BY <1>1, <1>2, <1>3, <1>4

PutFile(w, d, f, x) == [w EXCEPT ![d].W[f] = x]
(* A change of one file of one directory leaves the others alone.          *)
LEMMA SetFile ==
  ASSUME NEW w \in [Date -> DirType], NEW d \in Date, NEW f \in File, NEW x \in FileType,
         NEW v, v = PutFile(w, d, f, x)
  PROVE  /\ v \in [Date -> DirType] /\ \A e \in Date : e # d => v[e] = w[e]
         /\ v[d].made = w[d].made /\ v[d].bad = w[d].bad /\ v[d].edited = w[d].edited
         /\ v[d].spacct = w[d].spacct /\ v[d].recycled = w[d].recycled
         /\ v[d].W[f] = x /\ \A g \in File : g # f => v[d].W[g] = w[d].W[g]
<1>1. w[d].W \in [File -> FileType] /\ w[d] \in DirType
  BY DEF DirType
<1>2. v[d] = [w[d] EXCEPT !.W = [w[d].W EXCEPT ![f] = x]]
  BY DEF PutFile
<1>3. [w[d].W EXCEPT ![f] = x] \in [File -> FileType]
  BY <1>1
<1>4. v[d] \in DirType
  BY <1>1, <1>2, <1>3 DEF DirType
<1>5. /\ v[d].W = [w[d].W EXCEPT ![f] = x] /\ v[d].made = w[d].made /\ v[d].bad = w[d].bad
      /\ v[d].edited = w[d].edited /\ v[d].spacct = w[d].spacct /\ v[d].recycled = w[d].recycled
  BY <1>1, <1>2 DEF DirType
<1> QED
  BY <1>1, <1>2, <1>4, <1>5 DEF PutFile

LEMMA AfterFacts ==
  /\ After("SETUP") = "VERIFY" /\ After("VERIFY") = "ARCHIVE1" /\ After("ARCHIVE1") = "BUILD"
  /\ After("BUILD") = "ARCHIVE2" /\ After("ARCHIVE2") = "CMS" /\ After("CMS") = "REPORT"
  /\ After("REPORT") = "DREP" /\ After("DREP") = "FEF" /\ After("FEF") = "USEREXIT"
  /\ After("USEREXIT") = "CLEANUP"
<1>1. DOMAIN States = 1..12 /\ 1..12 = {1, 2, 3, 4, 5, 6, 7, 8, 9, 10, 11, 12}
  BY DEF States
<1>2. /\ States[1] = "SETUP" /\ States[2] = "VERIFY" /\ States[3] = "ARCHIVE1" /\ States[4] = "BUILD"
      /\ States[5] = "ARCHIVE2" /\ States[6] = "CMS" /\ States[7] = "REPORT" /\ States[8] = "DREP"
      /\ States[9] = "FEF" /\ States[10] = "USEREXIT" /\ States[11] = "CLEANUP" /\ States[12] = "COMPLETE"
  BY DEF States
<1>3. /\ Place("SETUP") = 1 /\ Place("VERIFY") = 2 /\ Place("ARCHIVE1") = 3 /\ Place("BUILD") = 4
      /\ Place("ARCHIVE2") = 5 /\ Place("CMS") = 6 /\ Place("REPORT") = 7 /\ Place("DREP") = 8
      /\ Place("FEF") = 9 /\ Place("USEREXIT") = 10
  BY <1>1, <1>2 DEF Place
<1> QED
  BY <1>2, <1>3 DEF After

LEMMA Alone == ASSUME Orderly, NEW r \in Run PROVE Run = {r}
BY DEF Orderly

NiteType == [lock : BOOLEAN, state : State, date : Date \cup {0}]
RestType ==
  /\ pacct \in SUBSET Rec /\ day \in [File -> FileType] /\ damaged \in SUBSET Rec /\ faults \in Nat
  /\ written \in SUBSET Rec /\ aside \in SUBSET Rec /\ asked \in BOOLEAN
  /\ bills \in [Rec -> Nat] /\ charged \in [Rec -> Nat]
  
(* What Control needs to know of a step of a run, which is at a given      *)
(* command before and after it.                                            *)
LEMMA RunStep ==
  ASSUME Orderly, Control, NEW r \in Run, NEW x \in RunType, run' = [run EXCEPT ![r] = x],
         nite' \in NiteType, work' \in [Date -> DirType], sum' \in [Date -> FileType], RestType', 
         period' = period, period.pc = "off", RunAt(r)', OneNight'
  PROVE  Control'
<1>1. Run = {r} /\ run' \in [Run -> RunType]
  BY Alone DEF Control, CsarunTypeOK
<1>2. CsarunTypeOK'
  BY <1>1 DEF Control, CsarunTypeOK, NiteType, RestType
<1>3. PeriodAt'
  BY DEF PeriodAt
<1> QED
  BY <1>1, <1>2, <1>3 DEF Control

LEMMA OffType == Off \in RunType
BY DEF Off, RunType, Pc, State

(* A run ends, with an error or in a crash.                                *)
LEMMA RunEnds ==
  ASSUME Orderly, Control, NEW r \in Run, run' = [run EXCEPT ![r] = Off],
         nite' \in NiteType, nite'.state = nite.state, nite'.date = nite.date,
         work' = work, sum' \in [Date -> FileType], \A d \in Date : d > nite.date => sum'[d] = sum[d],
         pacct' = pacct, day' = day, damaged' = damaged, faults' \in Nat,
         written' = written, aside' = aside, asked' = asked, bills' = bills, charged' = charged,
         period' = period, period.pc = "off"
  PROVE  Control'
<1>1. RestType' /\ work \in [Date -> DirType] /\ run'[r] = Off
  BY DEF Control, CsarunTypeOK, RestType
<1>2. RunAt(r)'
  BY <1>1 DEF RunAt, Off, Inside, StatesAt
<1>3. OneNight'
  BY DEF Control, OneNight
<1> QED
  BY <1>1, <1>2, <1>3, OffType, RunStep

LEMMA NiteFacts ==
  ASSUME Control
  PROVE  /\ nite \in NiteType /\ RestType
         /\ \A b \in BOOLEAN : [nite EXCEPT !.lock = b] \in NiteType
         /\ \A s \in State : [nite EXCEPT !.state = s] \in NiteType
         /\ \A b \in BOOLEAN : [nite EXCEPT !.lock = b].state = nite.state /\ [nite EXCEPT !.lock = b].date = nite.date
         /\ \A s \in State : [nite EXCEPT !.state = s].state = s /\ [nite EXCEPT !.state = s].date = nite.date
BY DEF NiteType, Control, CsarunTypeOK, RestType

LEMMA PeriodWaits ==
  ASSUME Orderly, Control, NEW r \in Run, run[r].pc # "off"
  PROVE  period.pc = "off"
BY DEF Control, PeriodAt

LEMMA FailsControl ==
  ASSUME Orderly, Control, NEW r \in Run, run[r].pc # "off", Fails(r) \/ (ErrorExit(r) /\ faults' = faults),
         pacct' = pacct, day' = day, work' = work, period' = period, damaged' = damaged,
         written' = written, aside' = aside, asked' = asked, bills' = bills, charged' = charged,
         sum' \in [Date -> FileType], \A d \in Date : d > nite.date => sum'[d] = sum[d]
  PROVE  Control'
<1>1. run' = [run EXCEPT ![r] = Off] /\ nite' = [nite EXCEPT !.lock = FALSE] /\ faults' \in Nat
  BY DEF Fails, ErrorExit, Control, CsarunTypeOK
<1> QED
  BY <1>1, NiteFacts, PeriodWaits, RunEnds

LEMMA MakeLockControl ==
  ASSUME Orderly, Control, NEW r \in Run, MakeLock(r)
  PROVE  Control'
<1> DEFINE x == [run[r] EXCEPT !.pc = "args"]
<1>0. run[r] \in RunType /\ run[r].pc = "lock" /\ run' = [run EXCEPT ![r] = x]
  BY DEF MakeLock, At, Goto, Control, CsarunTypeOK
<1>1. x \in RunType /\ run'[r] = x
  BY <1>0 DEF RunType, Pc, Control, CsarunTypeOK
<1>2. nite' \in NiteType /\ nite'.state = nite.state /\ nite'.date = nite.date
  BY NiteFacts DEF MakeLock
<1>3. RestType' /\ work \in [Date -> DirType] /\ sum \in [Date -> FileType] /\ work' = work /\ sum' = sum /\ period' = period
  BY DEF MakeLock, history, Control, CsarunTypeOK, RestType
<1>4. RunAt(r)'
  BY <1>0, <1>1, <1>2, <1>3 DEF Control, RunAt, RunType, Inside, StatesAt, Dir, MakeLock, history
<1>5. OneNight'
  BY <1>0, <1>1, <1>2, <1>3 DEF Control, OneNight
<1>6. period.pc = "off"
  BY <1>0, PeriodWaits
<1> HIDE DEF x
<1> QED
  BY <1>0, <1>1, <1>2, <1>3, <1>4, <1>5, <1>6, RunStep

LEMMA InvokeControl ==
  ASSUME Orderly, Control, NEW r \in Run, Invoke(r)
  PROVE  Control'
<1>1. period.pc = "off" /\ period' = period /\ run[r].pc = "off" /\ faults' = faults /\ faults \in Nat
  BY DEF Invoke, Orderly, At, Control, CsarunTypeOK
<1>2. /\ pacct' = pacct /\ day' = day /\ damaged' = damaged /\ work' = work /\ sum' = sum
      /\ written' = written /\ aside' = aside /\ asked' = asked /\ bills' = bills /\ charged' = charged
      /\ sum \in [Date -> FileType] /\ work \in [Date -> DirType]
  BY DEF Invoke, history, Control, CsarunTypeOK
<1>3. CASE ErrorExit(r)
  BY <1>1, <1>2, <1>3, RunEnds, NiteFacts DEF ErrorExit
<1>5. "cron" \notin Named /\ "restart" \notin Named /\ "none" \notin Named
  BY DEF Orderly
<1>4. ASSUME NEW d \in Date \cap {nite.date, nite.date + 1}, NEW arg \in {"cron", "restart"} \cup Named,
             NEW all \in BOOLEAN, NEW edit \in BOOLEAN, nite' = nite,
             arg # "cron" => all = asked, arg \in Named => nite.state # "COMPLETE",
             run' = [run EXCEPT ![r] = [Off EXCEPT !.pc = "lock", !.date = d, !.arg = arg, !.all = all, !.edit = edit]]
      PROVE  Control'
  <2> DEFINE x == [Off EXCEPT !.pc = "lock", !.date = d, !.arg = arg, !.all = all, !.edit = edit]
  <2>1. x \in RunType /\ x.pc = "lock" /\ x.date = d /\ x.arg = arg /\ x.all = all
    BY DEF Off, RunType, Pc, State
  <2> HIDE DEF x
  <2>2. run' = [run EXCEPT ![r] = x] /\ run'[r] = x
    BY <1>4 DEF x, Control, CsarunTypeOK
  <2>3. RunAt(r)'
    BY <1>2, <1>4, <1>5, <2>1, <2>2 DEF RunAt, Inside, StatesAt
  <2>4. OneNight'
    BY <1>2, <1>4 DEF Control, OneNight
  <2>5. nite' \in NiteType /\ RestType'
    BY <1>1, <1>2, <1>4, NiteFacts DEF RestType
  <2> QED
    BY <1>1, <1>2, <2>1, <2>2, <2>3, <2>4, <2>5, RunStep
<1> QED
  BY <1>3, <1>4, <1>5 DEF Invoke, Orderly

(* A run goes on within the night.                                         *)
LEMMA GoesOn ==
  ASSUME Orderly, Control, NEW r \in Run, NEW x \in RunType, run' = [run EXCEPT ![r] = x],
         run[r].pc \in Inside, x.pc \in Inside, x.date = run[r].date, x.all = run[r].all,
         x.pc # "loop" => x.at = nite'.state /\ x.at \in StatesAt(x.pc),
         x.pc \in {"recy", "mvrecycled"} => ~asked, x.pc \in {"mvbad", "mvgood"} => x.todo # {},
         nite' \in NiteType, nite'.date = nite.date, nite'.state # "COMPLETE",
         work' \in [Date -> DirType], \A d \in Date : d # nite.date => work'[d] = work[d],
         work'[nite.date].made,
         sum' \in [Date -> FileType], \A d \in Date : d # nite.date => sum'[d] = sum[d],
         RestType', asked' = asked, period' = period
  PROVE  Control'
<1>1. run'[r] = x
  BY DEF Control, CsarunTypeOK
<1>2. /\ run[r].date = nite.date /\ nite.date \in Date /\ run[r].all = asked
      /\ x.pc \notin {"off", "lock", "args", "state", "mkdir", "unlock", "complete"}
  BY DEF Control, RunAt, Inside
<1>3. RunAt(r)'
  BY <1>1, <1>2 DEF RunAt, Dir
<1>5. OneNight'
  BY <1>2 DEF Control, OneNight, Date
<1>4. period.pc = "off"
  BY PeriodWaits DEF Inside
<1> QED
  BY <1>3, <1>4, <1>5, RunStep

LEMMA StartControl ==
  ASSUME Orderly, Control, NEW r \in Run, Start(r)
  PROVE  Control'
<1>1. run[r] \in RunType /\ run[r].pc = "args" /\ nite.date \in Nat
  BY DEF Start, At, Control, CsarunTypeOK, Date
<1>2. /\ pacct' = pacct /\ day' = day /\ damaged' = damaged /\ work' = work /\ sum' = sum /\ period' = period
      /\ written' = written /\ aside' = aside /\ bills' = bills /\ charged' = charged
      /\ sum \in [Date -> FileType] /\ work \in [Date -> DirType]
  BY DEF Start, Control, CsarunTypeOK
<1>3. CASE asked' = asked /\ (Fails(r) \/ (ErrorExit(r) /\ faults' = faults))
  BY <1>1, <1>2, <1>3, FailsControl
<1>4. CASE /\ nite.date # run[r].date /\ nite.state = "COMPLETE"
           /\ nite' = [nite EXCEPT !.date = run[r].date]
           /\ asked' = run[r].all /\ Goto(r, "state") /\ faults' = faults
  <2> DEFINE x == [run[r] EXCEPT !.pc = "state"]
  <2>1. /\ x \in RunType /\ run' = [run EXCEPT ![r] = x] /\ run'[r] = x
        /\ x.pc = "state" /\ x.date = run[r].date /\ x.all = run[r].all
    BY <1>1, <1>4 DEF RunType, Pc, Goto, Control, CsarunTypeOK
  <2>2. /\ run[r].date \in Date /\ run[r].date = nite.date + 1
        /\ nite'.date = run[r].date /\ nite'.state = nite.state /\ nite' \in NiteType
    BY <1>1, <1>4 DEF Control, RunAt, CsarunTypeOK, NiteType
  <2>3. RestType'
    BY <1>2, <1>4, <1>1 DEF RestType, RunType, Control, CsarunTypeOK
  <2> HIDE DEF x
  <2>4. RunAt(r)'
    BY <1>1, <1>2, <1>4, <2>1, <2>2 DEF RunAt, Inside, StatesAt, Control, OneNight, Dir, Date
  <2>5. OneNight'
    BY <1>1, <1>2, <1>4, <2>2 DEF Control, OneNight, Date
  <2> QED
    BY <1>1, <1>2, <2>1, <2>2, <2>3, <2>4, <2>5, PeriodWaits, RunStep
<1>5. \/ Fails(r) /\ asked' = asked
      \/ ErrorExit(r) /\ asked' = asked /\ faults' = faults
      \/ /\ nite.date # run[r].date /\ nite.state = "COMPLETE"
         /\ nite' = [nite EXCEPT !.date = run[r].date]
         /\ asked' = run[r].all /\ Goto(r, "state") /\ faults' = faults
  BY DEF Start
<1> QED
  BY <1>3, <1>4, <1>5

LEMMA WriteStateControl ==
  ASSUME Orderly, Control, NEW r \in Run, WriteState(r)
  PROVE  Control'
<1> DEFINE x == [run[r] EXCEPT !.pc = "mkdir"]
<1>1. /\ x \in RunType /\ run' = [run EXCEPT ![r] = x] /\ run'[r] = x /\ run[r].pc = "state"
      /\ x.pc = "mkdir" /\ x.date = run[r].date /\ x.all = run[r].all
  BY DEF WriteState, At, RunType, Pc, Goto, Control, CsarunTypeOK
<1> HIDE DEF x
<1>2. nite' \in NiteType /\ nite'.state = "SETUP" /\ nite'.date = nite.date
  BY NiteFacts DEF WriteState, State
<1>3. /\ RestType' /\ work \in [Date -> DirType] /\ sum \in [Date -> FileType]
      /\ work' = work /\ sum' = sum /\ period' = period /\ asked' = asked
  BY DEF WriteState, history, Control, CsarunTypeOK, RestType
<1>4. RunAt(r)'
  BY <1>1, <1>2, <1>3 DEF RunAt, Inside, StatesAt, Control, OneNight, Dir
<1>5. OneNight'
  BY <1>1, <1>2, <1>3 DEF Control, OneNight, RunAt
<1> QED
  BY <1>1, <1>2, <1>3, <1>4, <1>5, PeriodWaits, RunStep

LEMMA MakeDirControl ==
  ASSUME Orderly, Control, NEW r \in Run, MakeDir(r)
  PROVE  Control'
<1> DEFINE x == [run[r] EXCEPT !.pc = "loop"]
<1>1. /\ x \in RunType /\ run' = [run EXCEPT ![r] = x] /\ run'[r] = x /\ run[r].pc = "mkdir"
      /\ x.pc = "loop" /\ x.date = run[r].date /\ x.all = run[r].all
  BY DEF MakeDir, At, RunType, Pc, Inside, Goto, Control, CsarunTypeOK
<1> HIDE DEF x
<1>2. /\ RestType' /\ work \in [Date -> DirType] /\ sum \in [Date -> FileType]
      /\ sum' = sum /\ period' = period /\ asked' = asked /\ nite' = nite /\ nite' \in NiteType
  BY NiteFacts DEF MakeDir, history, Control, CsarunTypeOK, RestType
<1>3. run[r].date \in Date /\ nite.date = run[r].date
  BY <1>1 DEF Control, RunAt
<1>4. /\ work' \in [Date -> DirType] /\ work'[nite.date] = EmptyDir
      /\ \A d \in Date : d # nite.date => work'[d] = work[d]
  BY <1>2, <1>3, DirFacts DEF MakeDir
<1>5. RunAt(r)'
  BY <1>1, <1>2, <1>3, <1>4, DirFacts DEF RunAt, Inside, StatesAt, Control, Dir
<1>6. OneNight'
  BY <1>1, <1>2, <1>3, <1>4, DirFacts DEF Control, OneNight, RunAt
<1> QED
  BY <1>1, <1>2, <1>4, <1>5, <1>6, PeriodWaits, RunStep

LEMMA RestartControl ==
  ASSUME Orderly, Control, NEW r \in Run, Restart(r)
  PROVE  Control'
<1> DEFINE state == IF run[r].arg # "restart" THEN run[r].arg ELSE nite.state
<1>1. /\ run[r] \in RunType /\ run[r].pc = "args" /\ run[r].arg # "cron" /\ period.pc = "off"
      /\ run[r].date \in Date
      /\ RestType' /\ work \in [Date -> DirType] /\ sum \in [Date -> FileType]
      /\ work' = work /\ sum' = sum /\ period' = period /\ asked' = asked
  BY PeriodWaits DEF Restart, At, history, RestType, Control, RunAt, CsarunTypeOK
<1>2. state \in State /\ (nite.state # "COMPLETE" => state # "COMPLETE") /\ (nite.state = "COMPLETE" => state = nite.state)
  <2>1. run[r].arg \in {"restart", "SETUP", "VERIFY"} /\ (run[r].arg # "restart" => nite.state # "COMPLETE")
    <3>1. run[r].arg \in {"none", "cron", "restart"} \cup Named /\ (run[r].arg \in Named => nite.state # "COMPLETE")
      BY <1>1 DEF RunType, Control, RunAt
    <3> QED
      BY <1>1, <3>1 DEF Orderly, Control, RunAt
  <2> QED
    BY <2>1 DEF State, Control, CsarunTypeOK
<1> HIDE DEF state
<1>3. CASE /\ run' = [run EXCEPT ![r] = Off] /\ nite' = [nite EXCEPT !.lock = FALSE, !.state = state]
  <2>1. nite' \in NiteType /\ nite'.state = state /\ nite'.date = nite.date /\ run'[r] = Off
    BY <1>1, <1>2, <1>3 DEF NiteType, Control, CsarunTypeOK
  <2>2. RunAt(r)'
    BY <2>1 DEF RunAt, Off, Inside, StatesAt
  <2>3. OneNight'
    BY <1>1, <1>2, <2>1 DEF Control, OneNight
  <2> QED
    BY <1>1, <1>3, <2>1, <2>2, <2>3, OffType, RunStep
<1>4. CASE /\ run[r].arg = "restart" => run[r].date = nite.date
           /\ Dir(r).made /\ nite'.state \in {state, "BUILD"}
           /\ nite' = [nite EXCEPT !.state = nite'.state]
           /\ run' = [run EXCEPT ![r] = [run[r] EXCEPT !.pc = "loop", !.arg = "restart"]]
  <2> DEFINE x == [run[r] EXCEPT !.pc = "loop", !.arg = "restart"]
  <2>1. /\ x \in RunType /\ run' = [run EXCEPT ![r] = x] /\ run'[r] = x
        /\ x.pc = "loop" /\ x.date = run[r].date /\ x.all = run[r].all
    BY <1>1, <1>4 DEF RunType, Pc, Inside, Control, CsarunTypeOK
  <2> HIDE DEF x
  <2>2. /\ run[r].date = nite.date /\ nite.state # "COMPLETE" /\ run[r].all = asked
    BY <1>1, <1>4 DEF Control, OneNight, Dir, RunAt
  <2>3. nite' \in NiteType /\ nite'.state # "COMPLETE" /\ nite'.date = nite.date
    BY <1>2, <1>4, <2>2 DEF NiteType, Control, CsarunTypeOK, State
  <2>4. RunAt(r)'
    BY <1>1, <1>4, <2>1, <2>2, <2>3 DEF RunAt, Inside, StatesAt, Dir
  <2>5. OneNight'
    BY <1>1, <2>3 DEF Control, OneNight
  <2> QED
    BY <1>1, <2>1, <2>3, <2>4, <2>5, RunStep
<1>5. CASE ((run[r].arg = "restart" /\ run[r].date # nite.date) \/ ~Dir(r).made)
  BY <1>3, <1>5 DEF Restart, state
<1>6. CASE ~((run[r].arg = "restart" /\ run[r].date # nite.date) \/ ~Dir(r).made)
  <2>1. \/ nite' = [nite EXCEPT !.state = state]
        \/ nite' = [nite EXCEPT !.state = "BUILD"]
    BY <1>6 DEF Restart, state
  <2>2. nite \in NiteType
    BY NiteFacts
  <2>3. nite'.state \in {state, "BUILD"} /\ nite' = [nite EXCEPT !.state = nite'.state]
    BY <2>1, <2>2 DEF NiteType
  <2>4. run' = [run EXCEPT ![r] = [run[r] EXCEPT !.pc = "loop", !.arg = "restart"]]
    BY <1>6 DEF Restart
  <2> QED
    BY <1>4, <1>6, <2>3, <2>4
<1> QED
  BY <1>5, <1>6

PutBad(w, d, f, x, y) == [w EXCEPT ![d].W[f] = x, ![d].bad[f] = y]
PutGood(w, d, f, x, y) == [w EXCEPT ![d].W[f] = x, ![d].edited = y]
PutEdited(w, d, x) == [w EXCEPT ![d].edited = x]
PutSorted(w, d, x) == [w EXCEPT ![d].spacct = x]
PutRecycled(w, d, x) == [w EXCEPT ![d].recycled = x]

(* The changes of two files at once, and of one that has no number.        *)
LEMMA SetBad ==
  ASSUME NEW w \in [Date -> DirType], NEW d \in Date, NEW f \in File, NEW x \in FileType, NEW y \in FileType,
         NEW v, v = PutBad(w, d, f, x, y)
  PROVE  /\ v \in [Date -> DirType] /\ \A e \in Date : e # d => v[e] = w[e]
         /\ v[d].made = w[d].made /\ v[d].spacct = w[d].spacct
         /\ v[d].recycled = w[d].recycled /\ v[d].edited = w[d].edited
         /\ v[d].W[f] = x /\ \A g \in File : g # f => v[d].W[g] = w[d].W[g]
         /\ v[d].bad[f] = y /\ \A g \in File : g # f => v[d].bad[g] = w[d].bad[g]
<1>1. w[d].W \in [File -> FileType] /\ w[d].bad \in [File -> FileType] /\ w[d] \in DirType
  BY DEF DirType
<1>2. [w[d].W EXCEPT ![f] = x] \in [File -> FileType] /\ [w[d].bad EXCEPT ![f] = y] \in [File -> FileType]
  BY <1>1
<1> DEFINE a == [w[d] EXCEPT !.W = [w[d].W EXCEPT ![f] = x], !.bad = [w[d].bad EXCEPT ![f] = y]]
<1>3. /\ a \in DirType /\ a.made = w[d].made /\ a.spacct = w[d].spacct
      /\ a.recycled = w[d].recycled /\ a.edited = w[d].edited
      /\ a.W = [w[d].W EXCEPT ![f] = x] /\ a.bad = [w[d].bad EXCEPT ![f] = y]
  BY <1>1, <1>2 DEF DirType
<1>4. v = [w EXCEPT ![d] = a]
  BY <1>1 DEF DirType, PutBad
<1> HIDE DEF a
<1>5. v[d] = a /\ v \in [Date -> DirType] /\ \A e \in Date : e # d => v[e] = w[e]
  BY <1>3, <1>4
<1> QED
  BY <1>1, <1>3, <1>5

LEMMA SetGood ==
  ASSUME NEW w \in [Date -> DirType], NEW d \in Date, NEW f \in File, NEW x \in FileType, NEW y \in FileType,
         NEW v, v = PutGood(w, d, f, x, y)
  PROVE  /\ v \in [Date -> DirType] /\ \A e \in Date : e # d => v[e] = w[e]
         /\ v[d].made = w[d].made /\ v[d].spacct = w[d].spacct
         /\ v[d].recycled = w[d].recycled /\ v[d].bad = w[d].bad /\ v[d].edited = y
         /\ v[d].W[f] = x /\ \A g \in File : g # f => v[d].W[g] = w[d].W[g]
<1>1. w[d].W \in [File -> FileType] /\ w[d] \in DirType
  BY DEF DirType
<1>2. [w[d].W EXCEPT ![f] = x] \in [File -> FileType]
  BY <1>1
<1> DEFINE a == [w[d] EXCEPT !.W = [w[d].W EXCEPT ![f] = x], !.edited = y]
<1>3. /\ a \in DirType /\ a.made = w[d].made /\ a.spacct = w[d].spacct
      /\ a.recycled = w[d].recycled /\ a.bad = w[d].bad
      /\ a.W = [w[d].W EXCEPT ![f] = x] /\ a.edited = y
  BY <1>1, <1>2 DEF DirType
<1>4. v = [w EXCEPT ![d] = a]
  BY <1>1 DEF DirType, PutGood
<1> HIDE DEF a
<1>5. v[d] = a /\ v \in [Date -> DirType] /\ \A e \in Date : e # d => v[e] = w[e]
  BY <1>3, <1>4
<1> QED
  BY <1>1, <1>3, <1>5

LEMMA SetOne ==
  ASSUME NEW w \in [Date -> DirType], NEW d \in Date, NEW x \in FileType, NEW v
  PROVE  /\ v = PutEdited(w, d, x) =>
              /\ v \in [Date -> DirType] /\ \A e \in Date : e # d => v[e] = w[e]
              /\ v[d].made = w[d].made /\ v[d].W = w[d].W /\ v[d].bad = w[d].bad
              /\ v[d].edited = x /\ v[d].spacct = w[d].spacct /\ v[d].recycled = w[d].recycled
         /\ v = PutSorted(w, d, x) =>
              /\ v \in [Date -> DirType] /\ \A e \in Date : e # d => v[e] = w[e]
              /\ v[d].made = w[d].made /\ v[d].W = w[d].W /\ v[d].bad = w[d].bad
              /\ v[d].edited = w[d].edited /\ v[d].spacct = x /\ v[d].recycled = w[d].recycled
         /\ v = PutRecycled(w, d, x) =>
              /\ v \in [Date -> DirType] /\ \A e \in Date : e # d => v[e] = w[e]
              /\ v[d].made = w[d].made /\ v[d].W = w[d].W /\ v[d].bad = w[d].bad
              /\ v[d].edited = w[d].edited /\ v[d].spacct = w[d].spacct /\ v[d].recycled = x
BY DEF DirType, PutEdited, PutSorted, PutRecycled

LEMMA MinExists ==
  ASSUME NEW S, S \in SUBSET File, S # {}
  PROVE  Min(S) \in S /\ \A f \in S : Min(S) <= f
<1>1. S \in SUBSET Nat
  BY DEF File
<1>2. PICK f \in S : \A g \in S : ~ (<<g, f>> \in OpToRel(<, Nat))
  BY <1>1, NatLessThanWellFounded, WFMin
<1>3. ASSUME NEW g \in S PROVE f <= g
  <2>1. f \in Nat /\ g \in Nat
    BY <1>1
  <2>2. g < f => <<g, f>> \in OpToRel(<, Nat)
    BY <2>1 DEF OpToRel
  <2>3. ~ (g < f)
    BY <1>2, <2>2, Zenon
  <2> QED
    BY <2>1, <2>3
<1> QED
  BY <1>3 DEF Min

LEMMA Within ==
  ASSUME Orderly, Control, NEW r \in Run, run[r].pc \in Inside
  PROVE  /\ run[r] \in RunType /\ run[r].date = nite.date /\ run[r].all = asked
         /\ nite.date \in Date /\ nite.state \in State \ {"COMPLETE"} /\ nite \in NiteType /\ RestType
         /\ work \in [Date -> DirType] /\ sum \in [Date -> FileType] /\ period.pc = "off"
         /\ work[nite.date].made /\ Dir(r) = work[nite.date]
         /\ run[r].pc # "loop" => run[r].at = nite.state /\ run[r].at \in StatesAt(run[r].pc)
         /\ run[r].pc \in {"recy", "mvrecycled"} => ~asked
         /\ run[r].pc \in {"mvbad", "mvgood"} => run[r].todo # {}
<1>1. run[r].pc \notin {"off", "lock", "args", "state", "mkdir", "unlock", "complete"}
  BY DEF Inside
<1>2. run[r].date = nite.date /\ nite.date \in Date /\ run[r].all = asked /\ Dir(r).made
  BY <1>1 DEF Control, RunAt
<1>3. nite.state # "COMPLETE"
  BY <1>2 DEF Control, OneNight, Dir
<1>4. /\ run[r] \in RunType /\ nite.state \in State /\ nite \in NiteType /\ RestType
      /\ work \in [Date -> DirType] /\ sum \in [Date -> FileType]
  BY DEF Control, CsarunTypeOK, NiteType, RestType
<1>5. /\ run[r].pc # "loop" => run[r].at = nite.state /\ run[r].at \in StatesAt(run[r].pc)
      /\ run[r].pc \in {"recy", "mvrecycled"} => ~asked
      /\ run[r].pc \in {"mvbad", "mvgood"} => run[r].todo # {}
  BY <1>1 DEF Control, RunAt
<1>6. period.pc = "off"
  BY <1>1, PeriodWaits
<1> QED
  BY <1>2, <1>3, <1>4, <1>5, <1>6 DEF Dir

(* Where the run is after a command.                                       *)
List(r, pc, t) == run' = [run EXCEPT ![r].pc = pc, ![r].todo = t]
Take(r, t) == run' = [run EXCEPT ![r].todo = t]
Read(r, s, pc, t) == run' = [run EXCEPT ![r].pc = pc, ![r].at = s, ![r].todo = t]
Now(r, x, pc, at, todo) ==
  /\ run' = [run EXCEPT ![r] = x] /\ x.pc = pc /\ x.at = at /\ x.date = run[r].date
  /\ x.all = run[r].all /\ x.todo = todo /\ x.arg = run[r].arg

LEMMA Goes ==
  ASSUME Control, NEW r \in Run, NEW pc \in Pc, Goto(r, pc)
  PROVE  \E x \in RunType : Now(r, x, pc, run[r].at, run[r].todo)
<1> DEFINE x == [run[r] EXCEPT !.pc = pc]
<1>1. run \in [Run -> RunType] /\ run[r] \in RunType
  BY DEF Control, CsarunTypeOK
<1>2. /\ x \in RunType /\ x.pc = pc /\ x.at = run[r].at /\ x.date = run[r].date
      /\ x.all = run[r].all /\ x.todo = run[r].todo /\ x.arg = run[r].arg
  BY <1>1 DEF RunType
<1>3. run' = [run EXCEPT ![r] = x]
  BY <1>1 DEF Goto
<1> QED
  BY <1>2, <1>3 DEF Now

LEMMA Begins ==
  ASSUME Control, NEW r \in Run, NEW pc \in Pc, NEW s \in State \cup {"none"}, Begin(r, s, pc)
  PROVE  \E x \in RunType : Now(r, x, pc, s, run[r].todo)
<1> DEFINE x == [run[r] EXCEPT !.pc = pc, !.at = s]
<1>1. run \in [Run -> RunType] /\ run[r] \in RunType
  BY DEF Control, CsarunTypeOK
<1>2. /\ x \in RunType /\ x.pc = pc /\ x.at = s /\ x.date = run[r].date
      /\ x.all = run[r].all /\ x.todo = run[r].todo /\ x.arg = run[r].arg
  BY <1>1 DEF RunType
<1>3. run' = [run EXCEPT ![r] = x]
  BY <1>1 DEF Begin
<1> QED
  BY <1>2, <1>3 DEF Now

LEMMA Lists ==
  ASSUME Control, NEW r \in Run, NEW pc \in Pc, NEW t \in SUBSET File, List(r, pc, t)
  PROVE  \E x \in RunType : Now(r, x, pc, run[r].at, t)
<1> DEFINE x == [run[r] EXCEPT !.pc = pc, !.todo = t]
<1>1. run \in [Run -> RunType] /\ run[r] \in RunType
  BY DEF Control, CsarunTypeOK
<1>2. /\ x \in RunType /\ x.pc = pc /\ x.at = run[r].at /\ x.date = run[r].date
      /\ x.all = run[r].all /\ x.todo = t /\ x.arg = run[r].arg
  BY <1>1 DEF RunType
<1>3. run' = [run EXCEPT ![r] = x]
  BY <1>1 DEF List
<1> QED
  BY <1>2, <1>3 DEF Now

LEMMA Takes ==
  ASSUME Control, NEW r \in Run, NEW t \in SUBSET File, Take(r, t)
  PROVE  \E x \in RunType : Now(r, x, run[r].pc, run[r].at, t)
<1> DEFINE x == [run[r] EXCEPT !.todo = t]
<1>1. run \in [Run -> RunType] /\ run[r] \in RunType
  BY DEF Control, CsarunTypeOK
<1>2. /\ x \in RunType /\ x.pc = run[r].pc /\ x.at = run[r].at /\ x.date = run[r].date
      /\ x.all = run[r].all /\ x.todo = t /\ x.arg = run[r].arg
  BY <1>1 DEF RunType
<1>3. run' = [run EXCEPT ![r] = x]
  BY <1>1 DEF Take
<1> QED
  BY <1>2, <1>3 DEF Now

LEMMA Reads ==
  ASSUME Control, NEW r \in Run, NEW pc \in Pc, NEW s \in State \cup {"none"}, NEW t \in SUBSET File, Read(r, s, pc, t)
  PROVE  \E x \in RunType : Now(r, x, pc, s, t)
<1> DEFINE x == [run[r] EXCEPT !.pc = pc, !.at = s, !.todo = t]
<1>1. run \in [Run -> RunType] /\ run[r] \in RunType
  BY DEF Control, CsarunTypeOK
<1>2. /\ x \in RunType /\ x.pc = pc /\ x.at = s /\ x.date = run[r].date
      /\ x.all = run[r].all /\ x.todo = t /\ x.arg = run[r].arg
  BY <1>1 DEF RunType
<1>3. run' = [run EXCEPT ![r] = x]
  BY <1>1 DEF Read
<1> QED
  BY <1>2, <1>3 DEF Now

LEMMA InsideIsPc == Inside \subseteq Pc
BY DEF Inside, Pc

LEMMA AdvanceControl ==
  ASSUME Orderly, Control, NEW r \in Run, Advance(r)
  PROVE  Control'
<1>1. run[r].pc \in Inside /\ run[r].pc = "next"
  BY DEF Advance, At, Inside
<1>2. PICK x \in RunType : Now(r, x, "loop", "none", run[r].todo)
  <2>1. Begin(r, "none", "loop")
    BY DEF Advance, Begin
  <2>2. "loop" \in Pc /\ "none" \in State \cup {"none"}
    BY DEF Pc, Inside
  <2> QED
    BY <2>1, <2>2, Begins
<1>3. After(run[r].at) \in State \ {"COMPLETE"}
  <2>1. run[r].at \in State \ {"CLEANUP", "COMPLETE"}
    BY <1>1, Within DEF StatesAt
  <2> QED
    BY <2>1, AfterFacts DEF State
<1>4. nite' \in NiteType /\ nite'.state # "COMPLETE" /\ nite'.date = nite.date
  BY <1>3, NiteFacts DEF Advance
<1>5. work' = work /\ sum' = sum /\ asked' = asked /\ period' = period /\ RestType'
  BY <1>1, Within DEF Advance, history, RestType
<1> QED
  BY <1>1, <1>2, <1>4, <1>5, Within, GoesOn DEF Inside, Now

(* The first number that is free takes pacct.                              *)
LEMMA PutAsideFacts ==
  ASSUME RestType, PutAside
  PROVE  /\ pacct' = {} /\ day' \in [File -> FileType]
         /\ \E f \in File : /\ f > 0 /\ day[f] = None /\ \A g \in File : 0 < g /\ g < f => day[g] # None
                            /\ day'[f] = Holding(pacct) /\ \A g \in File : g # f => day'[g] = day[g]
<1>1. PICK f \in 1..MaxFile : /\ day[f] = None /\ \A g \in 1..(f - 1) : day[g] # None
                              /\ day' = [day EXCEPT ![f] = Holding(pacct)] /\ pacct' = {}
  BY DEF PutAside
<1>2. f \in File /\ f > 0 /\ \A g \in File : 0 < g /\ g < f => g \in 1..(f - 1)
  BY CsarunAssumption DEF File
<1> QED
  BY <1>1, <1>2, FileFacts DEF RestType

(* A step of the night that changes neither the state file nor the run's   *)
(* date and options.                                                       *)
LEMMA SetupControl ==
  ASSUME Orderly, Control, NEW r \in Run, Setup(r)
  PROVE  Control'
<1>1. /\ run[r].pc \in Inside /\ nite.state = "SETUP" /\ run[r].pc # "off"
      /\ work' = work /\ sum' = sum /\ period' = period /\ damaged' = damaged /\ written' = written
      /\ aside' = aside /\ bills' = bills /\ charged' = charged /\ asked' = asked
  BY DEF Setup, In, At, Inside, history
<1>2. CASE Fails(r) /\ pacct' = pacct /\ day' = day
  BY <1>1, <1>2, Within, FailsControl
<1>3. ASSUME NEW pc \in {"ls", "next"}, Begin(r, "SETUP", pc), nite' = nite, faults' = faults,
             PutAside \/ (pacct' = pacct /\ day' = day)
      PROVE  Control'
  <2>1. PICK x \in RunType : Now(r, x, pc, "SETUP", run[r].todo)
    <3>1. pc \in Pc /\ "SETUP" \in State \cup {"none"}
      BY DEF Pc, Inside, State
    <3> QED
      BY <1>3, <3>1, Begins
  <2>2. RestType'
    BY <1>1, <1>3, Within, PutAsideFacts DEF RestType
  <2>3. x.pc \in Inside /\ x.at \in StatesAt(x.pc) /\ x.pc \notin {"recy", "mvrecycled", "mvbad", "mvgood"}
    BY <2>1 DEF Inside, StatesAt, State, Now
  <2> QED
    BY <1>1, <1>3, <2>1, <2>2, <2>3, Within, GoesOn DEF Now
<1> QED
  BY <1>1, <1>2, <1>3 DEF Setup

LEMMA LsControl ==
  ASSUME Orderly, Control, NEW r \in Run, Ls(r)
  PROVE  Control'
<1>1. /\ run[r].pc \in Inside /\ run[r].pc = "ls" /\ nite' = nite /\ faults' = faults
      /\ work' = work /\ sum' = sum /\ period' = period /\ asked' = asked
  BY DEF Ls, nights, history, At, Inside
<1>2. PICK x \in RunType : Now(r, x, "mv", run[r].at, {f \in File : day[f] # None})
  <2>1. "mv" \in Pc /\ {f \in File : day[f] # None} \in SUBSET File
    BY DEF Pc, Inside
  <2>2. List(r, "mv", {f \in File : day[f] # None})
    BY DEF Ls, List
  <2> QED
    BY <2>1, <2>2, Lists
<1>3. RestType'
  BY <1>1, Within DEF Ls, nights, history, RestType
<1>4. x.pc \in Inside /\ x.at \in StatesAt(x.pc) /\ x.at = nite.state /\ x.pc \notin {"recy", "mvrecycled", "mvbad", "mvgood"}
  BY <1>1, <1>2, Within DEF Inside, StatesAt, Now
<1> QED
  BY <1>1, <1>2, <1>3, <1>4, Within, GoesOn DEF Now

LEMMA MvControl ==
  ASSUME Orderly, Control, NEW r \in Run, Mv(r)
  PROVE  Control'
<1>1. /\ run[r].pc \in Inside /\ run[r].pc = "mv" /\ run[r].pc # "off" /\ faults' = faults /\ pacct' = pacct
      /\ sum' = sum /\ period' = period /\ asked' = asked /\ written' = written /\ damaged' = damaged
      /\ aside' = aside /\ bills' = bills /\ charged' = charged
  BY DEF Mv, history, At, Inside
<1>2. CASE ErrorExit(r) /\ day' = day /\ work' = work
  BY <1>1, <1>2, Within, FailsControl
<1>3. ASSUME NEW x \in RunType, run' = [run EXCEPT ![r] = x], x.pc \in {"next", "mv"}, x.at = run[r].at,
             x.date = run[r].date, x.all = run[r].all, nite' = nite, day' \in [File -> FileType],
             work' \in [Date -> DirType], work'[nite.date].made = work[nite.date].made,
             \A e \in Date : e # nite.date => work'[e] = work[e]
      PROVE  Control'
  <2>1. RestType'
    BY <1>1, <1>3, Within DEF RestType
  <2>2. x.pc \in Inside /\ x.at \in StatesAt(x.pc) /\ x.at = nite.state /\ x.pc \notin {"recy", "mvrecycled", "mvbad", "mvgood"}
    BY <1>1, <1>3, Within DEF Inside, StatesAt, State
  <2> QED
    BY <1>1, <1>3, <2>1, <2>2, Within, GoesOn
<1>4. "next" \in Pc /\ run[r].todo \in SUBSET File
  BY <1>1, Within DEF Pc, Inside, RunType
<1>5. CASE run[r].todo = {}
  <2>1. Goto(r, "next") /\ nite' = nite /\ day' = day /\ work' = work
    BY <1>5 DEF Mv
  <2>2. PICK x \in RunType : Now(r, x, "next", run[r].at, run[r].todo)
    BY <1>4, <2>1, Goes
  <2> QED
    BY <1>1, <1>3, <2>1, <2>2, Within DEF RestType, Now
<1>6. CASE run[r].todo # {}
  <2> DEFINE f == Min(run[r].todo)
  <2>1. f \in File /\ day[f] \in FileType
    BY <1>1, <1>4, <1>6, MinExists, Within DEF RestType
  <2>2. CASE Dir(r).W[f] # None
    BY <1>2, <1>6, <2>2 DEF Mv
  <2>3. CASE Dir(r).W[f] = None
    <3>1. /\ work' = PutFile(work, nite.date, f, day[f]) /\ day' = [day EXCEPT ![f] = None]
          /\ Take(r, run[r].todo \ {f}) /\ nite' = nite
      BY <1>1, <1>6, <2>3, Within DEF Mv, Take, PutFile, RunType, Control, CsarunTypeOK
    <3>2. run[r].todo \ {f} \in SUBSET File
      BY <1>4
    <3>3. day' \in [File -> FileType]
      BY <1>1, <2>1, <3>1, Within, FileFacts DEF RestType
    <3>4. PICK x \in RunType : Now(r, x, run[r].pc, run[r].at, run[r].todo \ {f})
      BY <3>1, <3>2, Takes
    <3>5. /\ work' \in [Date -> DirType] /\ \A e \in Date : e # nite.date => work'[e] = work[e]
          /\ work'[nite.date].made = work[nite.date].made
      <4> HIDE DEF f
      <4>1. nite.date \in Date /\ work \in [Date -> DirType]
        BY <1>1, Within
      <4> QED
        BY <2>1, <3>1, <4>1, SetFile
    <3> HIDE DEF f
    <3> QED
      BY <1>1, <1>3, <3>1, <3>3, <3>4, <3>5 DEF Now
  <2> QED
    BY <2>2, <2>3
<1> QED
  BY <1>5, <1>6

LEMMA VerifyControl ==
  ASSUME Orderly, Control, NEW r \in Run, Verify(r)
  PROVE  Control'
<1>1. /\ run[r].pc \in Inside /\ nite.state = "VERIFY" /\ nite' = nite
      /\ work' = work /\ sum' = sum /\ period' = period /\ asked' = asked
  BY DEF Verify, In, nights, history, At, Inside
<1> DEFINE t == {f \in File : Contents(Dir(r).W[f]) # {}}
<1>2. PICK x \in RunType : Now(r, x, "verify", "VERIFY", t)
  <2>1. "verify" \in Pc /\ t \in SUBSET File /\ "VERIFY" \in State \cup {"none"} /\ Read(r, "VERIFY", "verify", t)
    BY DEF Pc, Inside, State, Read, Verify
  <2> HIDE DEF t
  <2> QED
    BY <2>1, Reads
<1>3. RestType'
  BY <1>1, Within DEF Verify, nights, history, RestType
<1>4. x.pc \in Inside /\ x.at \in StatesAt(x.pc) /\ x.pc \notin {"recy", "mvrecycled", "mvbad", "mvgood"}
  BY <1>1, <1>2, Within DEF Inside, StatesAt, Now
<1> QED
  BY <1>1, <1>2, <1>3, <1>4, Within, GoesOn DEF Now

(* A step in the work directory. *)
LEMMA WorkStep ==
  ASSUME Orderly, Control, NEW r \in Run, run[r].pc \in Inside, NEW pc \in Inside \ {"loop"}, NEW t,
         NEW x \in RunType, Now(r, x, pc, nite.state, t), nite.state \in StatesAt(pc),
         pc \in {"recy", "mvrecycled"} => ~asked, pc \in {"mvbad", "mvgood"} => t # {},
         work' \in [Date -> DirType], \A d \in Date : d # nite.date => work'[d] = work[d],
         work'[nite.date].made = work[nite.date].made,
         sum' \in [Date -> FileType], \A d \in Date : d # nite.date => sum'[d] = sum[d],
         day' \in [File -> FileType], aside' \in SUBSET Rec,
         UNCHANGED <<nite, pacct, period, damaged, faults, written, bills, charged, asked>>
  PROVE  Control'
<1>1. RestType'
  BY Within DEF RestType
<1>2. x.pc \in Inside /\ x.date = run[r].date /\ x.all = run[r].all /\ x.at = nite'.state /\ x.at \in StatesAt(x.pc)
      /\ run' = [run EXCEPT ![r] = x] /\ (x.pc \in {"recy", "mvrecycled"} => ~asked) /\ x.pc # "loop"
      /\ (x.pc \in {"mvbad", "mvgood"} => x.todo # {})
  BY DEF Now
<1> QED
  BY <1>1, <1>2, Within, GoesOn

LEMMA VerifyFileControl ==
  ASSUME Orderly, Control, NEW r \in Run, VerifyFile(r)
  PROVE  Control'
<1> DEFINE f == Min(run[r].todo)
           good == Contents(Dir(r).W[f]) \ damaged
<1>1. /\ run[r].pc \in Inside /\ run[r].pc = "verify" /\ run[r].pc # "off"
      /\ sum' = sum /\ period' = period /\ asked' = asked /\ pacct' = pacct /\ day' = day
      /\ damaged' = damaged /\ written' = written /\ aside' = aside /\ bills' = bills /\ charged' = charged
  BY DEF VerifyFile, history, At, Inside
<1>2. /\ run[r].at = nite.state /\ nite.state = "VERIFY" /\ run[r].todo \in SUBSET File
      /\ \A pc \in {"next", "verify", "mvbad"} : pc \in Inside \ {"loop"} /\ nite.state \in StatesAt(pc)
  BY <1>1, Within DEF StatesAt, Inside, State, RunType
<1>3. ASSUME NEW t, NEW pc \in {"next", "verify", "mvbad"}, NEW x \in RunType, Now(r, x, pc, nite.state, t), pc = "mvbad" => t # {},
             nite' = nite, faults' = faults, work' \in [Date -> DirType],
             \A d \in Date : d # nite.date => work'[d] = work[d], work'[nite.date].made = work[nite.date].made
      PROVE  Control'
  <2>1. day' \in [File -> FileType] /\ aside' \in SUBSET Rec
    BY <1>1, Within DEF RestType
  <2>2. pc \notin {"recy", "mvrecycled"} /\ (pc \in {"mvbad", "mvgood"} => t # {})
    BY <1>3
  <2> HIDE DEF f, good
  <2> QED
    BY <1>1, <1>2, <1>3, <2>1, <2>2, Within, WorkStep
<1>4. CASE run[r].todo = {}
  <2>1. Goto(r, "next") /\ nite' = nite /\ work' = work /\ faults' = faults /\ "next" \in Pc
    BY <1>4 DEF VerifyFile, Pc, Inside
  <2>2. PICK x \in RunType : Now(r, x, "next", run[r].at, run[r].todo)
    BY <2>1, Goes
  <2> QED
    BY <1>1, <1>2, <1>3, <2>1, <2>2, Within
<1>5. CASE run[r].todo # {}
  <2>1. f \in File /\ Dir(r).W[f] \in FileType /\ good \in SUBSET Rec
    BY <1>1, <1>2, <1>5, MinExists, Within, FileFacts DEF DirType
  <2>2. CASE (Fails(r) \/ (ErrorExit(r) /\ faults' = faults)) /\ work' = work
    BY <1>1, <2>2, Within, FailsControl
  <2>3. CASE Take(r, run[r].todo \ {f}) /\ nite' = nite /\ work' = work /\ faults' = faults
    <3>1. PICK x \in RunType : Now(r, x, run[r].pc, run[r].at, run[r].todo \ {f})
      BY <1>2, <2>3, Takes
    <3> QED
      BY <1>1, <1>2, <1>3, <2>3, <3>1, Within
  <2>4. CASE work' = PutEdited(work, nite.date, Holding(good)) /\ Goto(r, "mvbad") /\ nite' = nite /\ faults' = faults
    <3>1. PICK x \in RunType : Now(r, x, "mvbad", run[r].at, run[r].todo)
      BY <2>4, Goes DEF Pc, Inside
    <3>2. Holding(good) \in FileType
      BY <2>1, FileFacts
    <3> HIDE DEF good
    <3>3. /\ work' \in [Date -> DirType] /\ work'[nite.date].made = work[nite.date].made
          /\ \A d \in Date : d # nite.date => work'[d] = work[d]
      BY <1>1, <2>4, <3>2, Within, SetOne
    <3> QED
      BY <1>1, <1>2, <1>3, <1>5, <2>4, <3>1, <3>3
  <2>5. \/ Fails(r) /\ work' = work
        \/ Take(r, run[r].todo \ {f}) /\ nite' = nite /\ work' = work /\ faults' = faults
        \/ work' = PutEdited(work, nite.date, Holding(good)) /\ Goto(r, "mvbad") /\ nite' = nite /\ faults' = faults
        \/ ErrorExit(r) /\ work' = work /\ faults' = faults
    <3>1. run[r].date = nite.date
      BY <1>1, Within
    <3> QED
      BY <1>5, <3>1 DEF VerifyFile, Take, PutEdited
  <2> QED
    BY <2>2, <2>3, <2>4, <2>5
<1> QED
  BY <1>4, <1>5

LEMMA MvBadControl ==
  ASSUME Orderly, Control, NEW r \in Run, MvBad(r)
  PROVE  Control'
<1> DEFINE f == Min(run[r].todo)
<1>1. run[r].pc \in Inside /\ run[r].pc = "mvbad" /\ sum' = sum /\ day' = day /\ aside' = aside
  BY DEF MvBad, At, Inside, history
<1>2. /\ run[r].at = nite.state /\ nite.state = "VERIFY" /\ run[r].todo \in SUBSET File /\ run[r].todo # {}
      /\ "mvgood" \in Inside \ {"loop"} /\ nite.state \in StatesAt("mvgood")
  BY <1>1, Within DEF StatesAt, Inside, State, RunType
<1>3. PICK x \in RunType : Now(r, x, "mvgood", run[r].at, run[r].todo)
  <2>1. Goto(r, "mvgood") /\ "mvgood" \in Pc
    BY DEF MvBad, Pc, Inside
  <2> QED
    BY <2>1, Goes
<1>4. f \in File /\ work[nite.date].W[f] \in FileType
  BY <1>1, <1>2, MinExists, Within DEF DirType
<1>5. work' = PutBad(work, nite.date, f, None, work[nite.date].W[f])
  BY <1>1, Within DEF MvBad, PutBad
<1>6. day' \in [File -> FileType] /\ aside' \in SUBSET Rec
  BY <1>1, Within DEF RestType
<1> HIDE DEF f
<1>7. /\ work' \in [Date -> DirType] /\ work'[nite.date].made = work[nite.date].made
      /\ \A d \in Date : d # nite.date => work'[d] = work[d]
  BY <1>1, <1>4, <1>5, Within, SetBad, FileFacts
<1>8. UNCHANGED <<nite, pacct, period, damaged, faults, written, bills, charged, asked>>
  BY DEF MvBad, history
<1> QED
  BY <1>1, <1>2, <1>3, <1>6, <1>7, <1>8, Within, WorkStep

LEMMA MvGoodAside ==
  ASSUME NEW r \in Run, MvGood(r)
  PROVE  aside' = aside \cup (AllOf(Dir(r).bad) \cap damaged)
BY DEF MvGood

LEMMA MvGoodControl ==
  ASSUME Orderly, Control, NEW r \in Run, MvGood(r)
  PROVE  Control'
<1> DEFINE f == Min(run[r].todo)
<1>1. run[r].pc \in Inside /\ run[r].pc = "mvgood" /\ sum' = sum /\ day' = day
  BY DEF MvGood, At, Inside
<1>2. /\ run[r].at = nite.state /\ nite.state = "VERIFY" /\ run[r].todo \in SUBSET File /\ run[r].todo # {}
      /\ "verify" \in Inside \ {"loop"} /\ nite.state \in StatesAt("verify")
  BY <1>1, Within DEF StatesAt, Inside, State, RunType
<1>3. PICK x \in RunType : Now(r, x, "verify", run[r].at, run[r].todo)
  <2>1. Goto(r, "verify") /\ "verify" \in Pc
    BY DEF MvGood, Pc, Inside
  <2> QED
    BY <2>1, Goes
<1>4. f \in File /\ work[nite.date].edited \in FileType
  BY <1>1, <1>2, MinExists, Within DEF DirType
<1>5. work' = PutGood(work, nite.date, f, work[nite.date].edited, None)
  BY <1>1, Within DEF MvGood, PutGood
<1>6. day' \in [File -> FileType] /\ aside' \in SUBSET Rec
  BY <1>1, MvGoodAside, Within DEF RestType
<1> HIDE DEF f
<1>9. nite.date \in Date /\ work \in [Date -> DirType] /\ None \in FileType
  BY <1>1, Within, FileFacts
<1>7. /\ work' \in [Date -> DirType] /\ work'[nite.date].made = work[nite.date].made
      /\ \A d \in Date : d # nite.date => work'[d] = work[d]
  BY <1>4, <1>5, <1>9, SetGood
<1>8. UNCHANGED <<nite, pacct, period, damaged, faults, written, bills, charged, asked>>
  BY DEF MvGood
<1> QED
  BY <1>1, <1>2, <1>3, <1>6, <1>7, <1>8, Within, WorkStep

LEMMA ReadOnlyControl ==
  ASSUME Orderly, Control, NEW r \in Run, ReadOnly(r)
  PROVE  Control'
<1>1. /\ run[r].pc \in Inside /\ run[r].pc # "off"
      /\ nite.state \in {"ARCHIVE1", "ARCHIVE2", "CMS", "DREP", "FEF", "USEREXIT"}
      /\ sum' = sum /\ period' = period /\ asked' = asked /\ pacct' = pacct /\ day' = day /\ work' = work
      /\ damaged' = damaged /\ written' = written /\ aside' = aside /\ bills' = bills /\ charged' = charged
  BY DEF ReadOnly, history, At, Inside
<1>2. CASE Fails(r) \/ (ErrorExit(r) /\ faults' = faults)
  BY <1>1, <1>2, Within, FailsControl
<1>3. CASE Begin(r, nite.state, "next") /\ nite' = nite /\ faults' = faults
  <2>1. PICK x \in RunType : Now(r, x, "next", nite.state, run[r].todo)
    <3>1. "next" \in Pc /\ nite.state \in State \cup {"none"}
      BY <1>1, Within DEF Pc, Inside
    <3> QED
      BY <1>3, <3>1, Begins
  <2>2. "next" \in Inside \ {"loop"} /\ nite.state \in StatesAt("next")
    BY <1>1 DEF Inside, StatesAt, State
  <2>3. day' \in [File -> FileType] /\ aside' \in SUBSET Rec
    BY <1>1, Within DEF RestType
  <2> QED
    BY <1>1, <1>3, <2>1, <2>2, <2>3, Within, WorkStep
<1> QED
  BY <1>2, <1>3 DEF ReadOnly

LEMMA BuildControl ==
  ASSUME Orderly, Control, NEW r \in Run, Build(r)
  PROVE  Control'
<1>1. /\ run[r].pc \in Inside /\ run[r].pc # "off" /\ nite.state = "BUILD"
      /\ sum' = sum /\ period' = period /\ asked' = asked /\ pacct' = pacct /\ day' = day
      /\ damaged' = damaged /\ written' = written /\ aside' = aside /\ bills' = bills /\ charged' = charged
  BY DEF Build, In, history, At, Inside
<1>2. CASE (Fails(r) \/ (ErrorExit(r) /\ faults' = faults)) /\ work' = work
  BY <1>1, <1>2, Within, FailsControl
<1> DEFINE all == UNION {Contents(Dir(r).W[f]) : f \in Reached(Dir(r).W)}
<1>3. all \in SUBSET Rec
  <2>1. Dir(r).W \in [File -> FileType]
    BY <1>1, Within DEF DirType
  <2>2. \A f \in Reached(Dir(r).W) : Contents(Dir(r).W[f]) \subseteq Rec
    BY <2>1, FileFacts DEF Reached
  <2> QED
    BY <2>2
<1>4. CASE work' = PutSorted(work, nite.date, Holding(all)) /\ Begin(r, "BUILD", "next") /\ nite' = nite /\ faults' = faults
  <2>1. PICK x \in RunType : Now(r, x, "next", "BUILD", run[r].todo)
    <3>1. "next" \in Pc /\ "BUILD" \in State \cup {"none"}
      BY DEF Pc, Inside, State
    <3> QED
      BY <1>4, <3>1, Begins
  <2>2. "next" \in Inside \ {"loop"} /\ nite.state \in StatesAt("next")
    BY <1>1 DEF Inside, StatesAt, State
  <2>3. day' \in [File -> FileType] /\ aside' \in SUBSET Rec
    BY <1>1, Within DEF RestType
  <2>4. Holding(all) \in FileType
    BY <1>3, FileFacts
  <2> HIDE DEF all
  <2>5. /\ work' \in [Date -> DirType] /\ work'[nite.date].made = work[nite.date].made
        /\ \A d \in Date : d # nite.date => work'[d] = work[d]
    BY <1>1, <1>4, <2>4, Within, SetOne
  <2> QED
    BY <1>1, <1>4, <2>1, <2>2, <2>3, <2>5, Within, WorkStep
<1>5. \/ Fails(r) /\ work' = work
      \/ ErrorExit(r) /\ work' = work /\ faults' = faults
      \/ work' = PutSorted(work, nite.date, Holding(all)) /\ Begin(r, "BUILD", "next") /\ nite' = nite /\ faults' = faults
  <2>1. run[r].date = nite.date
    BY <1>1, Within
  <2> QED
    BY <2>1, Zenon DEF Build, PutSorted
<1> QED
  BY <1>2, <1>4, <1>5

LEMMA ReportControl ==
  ASSUME Orderly, Control, NEW r \in Run, Report(r)
  PROVE  Control'
<1> DEFINE S == Contents(Dir(r).spacct)
           all == IF run[r].all THEN S ELSE Ended(S)
           pc == IF run[r].all THEN "reports" ELSE "recy"
<1>1. /\ run[r].pc \in Inside /\ run[r].pc # "off" /\ nite.state = "REPORT"
      /\ work' = work /\ period' = period /\ asked' = asked /\ pacct' = pacct /\ day' = day
      /\ damaged' = damaged /\ written' = written /\ aside' = aside /\ bills' = bills /\ charged' = charged
  BY DEF Report, In, history, At, Inside
<1>2. S \in SUBSET Rec /\ all \in SUBSET Rec
  <2>1. S \in SUBSET Rec
    BY <1>1, Within, FileFacts DEF DirType
  <2> QED
    BY <2>1 DEF Ended
<1>3. PICK T \in {Holding({}), Holding(all)} : sum' = [sum EXCEPT ![nite.date] = T]
  <2>1. run[r].date = nite.date
    BY <1>1, Within
  <2> QED
    BY <2>1 DEF Report
<1>4. /\ sum' \in [Date -> FileType] /\ \A d \in Date : d # nite.date => sum'[d] = sum[d]
      /\ \A d \in Date : d > nite.date => sum'[d] = sum[d]
  <2>1. T \in FileType /\ {} \in SUBSET Rec
    BY <1>2, FileFacts
  <2> HIDE DEF all
  <2> QED
    BY <1>1, <1>3, <2>1, Within DEF Date
<1>5. CASE Fails(r) \/ (ErrorExit(r) /\ faults' = faults)
  BY <1>1, <1>4, <1>5, Within, FailsControl
<1>6. CASE Begin(r, "REPORT", pc) /\ nite' = nite /\ faults' = faults
  <2>1. PICK x \in RunType : Now(r, x, pc, "REPORT", run[r].todo)
    <3>1. pc \in Pc /\ "REPORT" \in State \cup {"none"}
      BY DEF Pc, Inside, State
    <3> HIDE DEF pc
    <3> QED
      BY <1>6, <3>1, Begins
  <2>2. /\ pc \in Inside \ {"loop"} /\ nite.state \in StatesAt(pc) /\ pc \notin {"mvbad", "mvgood"}
        /\ pc \in {"recy", "mvrecycled"} => ~asked
    BY <1>1, Within DEF Inside, StatesAt, State
  <2>3. day' \in [File -> FileType] /\ aside' \in SUBSET Rec
    BY <1>1, Within DEF RestType
  <2> HIDE DEF all, pc, S
  <2> QED
    BY <1>1, <1>4, <1>6, <2>1, <2>2, <2>3, Within, WorkStep
<1> QED
  BY <1>5, <1>6 DEF Report

LEMMA RecycleControl ==
  ASSUME Orderly, Control, NEW r \in Run, Recycle(r)
  PROVE  Control'
<1> DEFINE rest == Contents(Dir(r).spacct) \ Ended(Contents(Dir(r).spacct))
<1>1. /\ run[r].pc \in Inside /\ run[r].pc = "recy" /\ sum' = sum /\ day' = day /\ aside' = aside
      /\ UNCHANGED <<nite, pacct, period, damaged, faults, written, bills, charged, asked>>
  BY DEF Recycle, history, At, Inside
<1>2. work' = PutRecycled(work, nite.date, Holding(rest))
  BY <1>1, Within DEF Recycle, PutRecycled, Orderly
<1>3. Holding(rest) \in FileType
  BY <1>1, Within, FileFacts DEF DirType
<1>4. PICK x \in RunType : Now(r, x, "mvrecycled", run[r].at, run[r].todo)
  <2>1. Goto(r, "mvrecycled") /\ "mvrecycled" \in Pc
    BY DEF Recycle, Pc, Inside
  <2> QED
    BY <2>1, Goes
<1>5. /\ run[r].at = nite.state /\ "mvrecycled" \in Inside \ {"loop"} /\ nite.state \in StatesAt("mvrecycled") /\ ~asked
      /\ day' \in [File -> FileType] /\ aside' \in SUBSET Rec
  BY <1>1, Within DEF Inside, StatesAt, RestType
<1> HIDE DEF rest
<1>6. /\ work' \in [Date -> DirType] /\ work'[nite.date].made = work[nite.date].made
      /\ \A d \in Date : d # nite.date => work'[d] = work[d]
  BY <1>1, <1>2, <1>3, Within, SetOne
<1> QED
  BY <1>1, <1>4, <1>5, <1>6, Within, WorkStep

LEMMA MvRecycledControl ==
  ASSUME Orderly, Control, NEW r \in Run, MvRecycled(r)
  PROVE  Control'
<1>1. /\ run[r].pc \in Inside /\ run[r].pc = "mvrecycled" /\ sum' = sum /\ aside' = aside
      /\ UNCHANGED <<nite, pacct, period, damaged, faults, written, bills, charged, asked>>
  BY DEF MvRecycled, history, At, Inside
<1>2. \/ work' = work /\ day' = day
      \/ /\ work' = PutRecycled(work, nite.date, None)
         /\ day' = [day EXCEPT ![0] = work[nite.date].recycled]
  BY <1>1, Within DEF MvRecycled, PutRecycled
<1>3. PICK x \in RunType : Now(r, x, "reports", run[r].at, run[r].todo)
  <2>1. Goto(r, "reports") /\ "reports" \in Pc
    BY DEF MvRecycled, Pc, Inside
  <2> QED
    BY <2>1, Goes
<1>4. /\ run[r].at = nite.state /\ "reports" \in Inside \ {"loop"} /\ nite.state \in StatesAt("reports")
      /\ aside' \in SUBSET Rec /\ nite.date \in Date /\ work \in [Date -> DirType] /\ None \in FileType
      /\ work[nite.date].recycled \in FileType /\ day \in [File -> FileType]
  BY <1>1, Within, FileFacts DEF Inside, StatesAt, RestType, DirType
<1>5. /\ work' \in [Date -> DirType] /\ work'[nite.date].made = work[nite.date].made
      /\ \A d \in Date : d # nite.date => work'[d] = work[d]
  BY <1>2, <1>4, SetOne
<1>6. day' \in [File -> FileType]
  BY <1>2, <1>4
<1> QED
  BY <1>1, <1>3, <1>4, <1>5, <1>6, Within, WorkStep

LEMMA ReportsControl ==
  ASSUME Orderly, Control, NEW r \in Run, Reports(r)
  PROVE  Control'
<1>1. /\ run[r].pc \in Inside /\ run[r].pc = "reports" /\ run[r].pc # "off"
      /\ sum' = sum /\ period' = period /\ asked' = asked /\ pacct' = pacct /\ day' = day /\ work' = work
      /\ damaged' = damaged /\ written' = written /\ aside' = aside /\ bills' = bills /\ charged' = charged
  BY DEF Reports, history, At, Inside
<1>2. CASE Fails(r)
  BY <1>1, <1>2, Within, FailsControl
<1>3. CASE Goto(r, "next") /\ nite' = nite /\ faults' = faults
  <2>1. PICK x \in RunType : Now(r, x, "next", run[r].at, run[r].todo)
    BY <1>3, Goes DEF Pc, Inside
  <2>2. /\ run[r].at = nite.state /\ "next" \in Inside \ {"loop"} /\ nite.state \in StatesAt("next")
        /\ day' \in [File -> FileType] /\ aside' \in SUBSET Rec
    BY <1>1, Within DEF Inside, StatesAt, State, RestType
  <2> QED
    BY <1>1, <1>3, <2>1, <2>2, Within, WorkStep
<1> QED
  BY <1>2, <1>3 DEF Reports

LEMMA RemoveWorkControl ==
  ASSUME Orderly, Control, NEW r \in Run, RemoveWork(r)
  PROVE  Control'
<1>1. /\ run[r].pc \in Inside /\ nite.state = "CLEANUP" /\ nite' = nite /\ sum' = sum /\ period' = period /\ asked' = asked
  BY DEF RemoveWork, In, history, At, Inside
<1>2. PICK x \in RunType : Now(r, x, "unlock", "CLEANUP", run[r].todo)
  <2>1. Begin(r, "CLEANUP", "unlock") /\ "unlock" \in Pc /\ "CLEANUP" \in State \cup {"none"}
    BY DEF RemoveWork, Pc, State
  <2> QED
    BY <2>1, Begins
<1>3. RestType'
  BY <1>1, Within DEF RemoveWork, history, RestType
<1>4. nite.date \in Date /\ work \in [Date -> DirType] /\ run[r].date = nite.date
  BY <1>1, Within
<1>5. /\ work' \in [Date -> DirType] /\ work'[nite.date] = NoDir
      /\ \A d \in Date : d # nite.date => work'[d] = work[d]
  BY <1>4, DirFacts DEF RemoveWork
<1>6. run'[r] = x
  BY <1>2 DEF Now, Control, CsarunTypeOK
<1>7. RunAt(r)'
  <2>1. /\ x.pc = "unlock" /\ x.date = nite.date /\ x.all = asked /\ x.at = "CLEANUP"
    BY <1>1, <1>2, Within DEF Now
  <2> QED
    BY <1>1, <1>4, <1>5, <1>6, <2>1, DirFacts DEF RunAt, Dir, Inside, StatesAt
<1>8. OneNight'
  BY <1>1, <1>4, <1>5, DirFacts DEF Control, OneNight
<1> QED
  BY <1>1, <1>2, <1>3, <1>5, <1>7, <1>8, Within, RunStep DEF Now

LEMMA RemoveLockControl ==
  ASSUME Orderly, Control, NEW r \in Run, RemoveLock(r)
  PROVE  Control'
<1>1. /\ run[r].pc = "unlock" /\ work' = work /\ sum' = sum /\ period' = period /\ asked' = asked
      /\ nite' = [nite EXCEPT !.lock = FALSE]
  BY DEF RemoveLock, history, At
<1>2. PICK x \in RunType : Now(r, x, "complete", run[r].at, run[r].todo)
  <2>1. Goto(r, "complete") /\ "complete" \in Pc
    BY DEF RemoveLock, Pc
  <2> QED
    BY <2>1, Goes
<1>3. RestType' /\ nite' \in NiteType /\ nite'.state = nite.state /\ nite'.date = nite.date
  BY <1>1, NiteFacts DEF RemoveLock, history, RestType
<1>4. work \in [Date -> DirType] /\ sum \in [Date -> FileType] /\ period.pc = "off"
  BY <1>1, PeriodWaits DEF Control, CsarunTypeOK
<1>5. run'[r] = x
  BY <1>2 DEF Now, Control, CsarunTypeOK
<1>6. RunAt(r)'
  BY <1>1, <1>2, <1>3, <1>5 DEF Control, RunAt, Dir, Inside, StatesAt, Now
<1>7. OneNight'
  BY <1>1, <1>3 DEF Control, OneNight
<1> QED
  BY <1>1, <1>2, <1>3, <1>4, <1>6, <1>7, RunStep DEF Now

LEMMA CompleteControl ==
  ASSUME Orderly, Control, NEW r \in Run, Complete(r)
  PROVE  Control'
<1>1. /\ run[r].pc = "complete" /\ work' = work /\ sum' = sum /\ period' = period /\ asked' = asked
      /\ nite' = [nite EXCEPT !.state = "COMPLETE"] /\ run' = [run EXCEPT ![r] = Off]
  BY DEF Complete, At
<1>2. nite' \in NiteType /\ nite'.state = "COMPLETE" /\ nite'.date = nite.date
  BY <1>1, NiteFacts DEF State
<1>3. RestType'
  <2>1. bills' \in [Rec -> Nat]
    BY DEF Complete, Control, CsarunTypeOK
  <2> QED
    BY <2>1, NiteFacts DEF Complete, RestType
<1>4. work \in [Date -> DirType] /\ sum \in [Date -> FileType] /\ period.pc = "off" /\ run'[r] = Off
  BY <1>1, PeriodWaits DEF Control, CsarunTypeOK
<1>5. \A d \in Date : ~work[d].made
  BY <1>1 DEF Control, OneNight, RunAt, Dir
<1>6. RunAt(r)'
  BY <1>4 DEF RunAt, Off, Inside, StatesAt
<1>7. OneNight'
  BY <1>1, <1>2, <1>5 DEF Control, OneNight
<1> QED
  BY <1>1, <1>2, <1>3, <1>4, <1>6, <1>7, OffType, RunStep

LEMMA CrashControl ==
  ASSUME Orderly, Control, NEW r \in Run, Crash(r)
  PROVE  Control'
<1>1. /\ run' = [run EXCEPT ![r] = Off] /\ nite' = nite /\ period' = period /\ faults' \in Nat
      /\ pacct' = pacct /\ day' = day /\ work' = work /\ sum' = sum /\ damaged' = damaged
      /\ written' = written /\ aside' = aside /\ asked' = asked /\ bills' = bills /\ charged' = charged
      /\ sum \in [Date -> FileType]
  BY DEF Crash, nights, history, Control, CsarunTypeOK
<1>2. CASE run[r].pc = "off"
  <2>1. Off \in RunType /\ run \in [Run -> RunType] /\ run'[r] = Off
    BY <1>1, OffType DEF Control, CsarunTypeOK
  <2>2. Run = {r}
    BY Alone
  <2>3. RunAt(r)'
    BY <2>1 DEF RunAt, Off, Inside, StatesAt
  <2>4. CsarunTypeOK'
    BY <1>1, <2>1 DEF Control, CsarunTypeOK
  <2>5. OneNight'
    BY <1>1 DEF Control, OneNight
  <2>6. PeriodAt'
    BY <1>1, <2>1, <2>2 DEF Control, PeriodAt, Open, Off
  <2> QED
    BY <2>2, <2>3, <2>4, <2>5, <2>6 DEF Control
<1>3. CASE run[r].pc # "off"
  BY <1>1, <1>3, NiteFacts, PeriodWaits, RunEnds
<1> QED
  BY <1>2, <1>3

(* A step that is not one of csarun's.                                     *)
LEMMA OtherStep ==
  ASSUME Control, run' = run, work' = work, asked' = asked, nite' \in NiteType,
         nite'.state = nite.state, nite'.date = nite.date, RestType',
         sum' \in [Date -> FileType], \A d \in Date : sum'[d] \in {sum[d], None},
         PeriodAt', period' \in PeriodType
  PROVE  Control'
<1>1. CsarunTypeOK'
  BY DEF Control, CsarunTypeOK, RestType, NiteType
<1>2. \A r \in Run : RunAt(r)'
  BY DEF Control, RunAt, Dir
<1>3. OneNight'
  BY DEF Control, OneNight
<1> QED
  BY <1>1, <1>2, <1>3 DEF Control

LEMMA CsadControl ==
  ASSUME Orderly, Control, (\E rec \in Rec : CsadWrites(rec)) \/ Switch \/ Unlock
  PROVE  Control'
<1>1. /\ run' = run /\ work' = work /\ asked' = asked /\ sum' = sum /\ period' = period
      /\ nite' \in {nite, [nite EXCEPT !.lock = FALSE]}
  BY DEF CsadWrites, Switch, Unlock, history
<1>2. nite' \in NiteType /\ nite'.state = nite.state /\ nite'.date = nite.date
  BY <1>1, NiteFacts
<1>3. RestType'
  <2>0. RestType
    BY NiteFacts
  <2>1. CASE \E rec \in Rec : CsadWrites(rec)
    BY <2>0, <2>1 DEF CsadWrites, RestType
  <2>2. CASE Switch
    BY <2>0, <2>2, PutAsideFacts DEF Switch, RestType, history
  <2>3. CASE Unlock
    BY <2>3, NiteFacts DEF Unlock, RestType, history
  <2> QED
    BY <2>1, <2>2, <2>3
<1>4. PeriodAt' /\ period \in PeriodType /\ sum \in [Date -> FileType]
  BY <1>1, <1>2 DEF Control, PeriodAt, Open, CsarunTypeOK
<1> QED
  BY <1>1, <1>2, <1>3, <1>4, OtherStep

LEMMA PeriodControl ==
  ASSUME Orderly, Control, PeriodStart \/ PeriodList \/ PeriodAdd \/ PeriodRemove
  PROVE  Control'
<1>0. /\ run' = run /\ work' = work /\ asked' = asked /\ nite' = nite
      /\ nite \in NiteType /\ RestType /\ sum \in [Date -> FileType] /\ period \in PeriodType
  BY NiteFacts DEF PeriodStart, PeriodList, PeriodAdd, PeriodRemove, nights, history, Control, CsarunTypeOK
<1> DEFINE data == UNION {{d} \X Contents(sum[d]) : d \in period.list}
<1>4. NoPeriod \in PeriodType /\ NoPeriod.pc = "off" /\ NoPeriod.list = {}
  BY DEF NoPeriod, PeriodType
<1>5. data \in SUBSET (Date \X Rec)
  <2>1. \A d \in period.list : d \in Date /\ Contents(sum[d]) \in SUBSET Rec
    BY <1>0, FileFacts DEF PeriodType
  <2> QED
    BY <2>1
<1>1. CASE PeriodStart
  <2>1. PICK from \in Date, to \in Date :
          /\ from <= to /\ (nite.date \in from..to => nite.state = "COMPLETE")
          /\ period' = [NoPeriod EXCEPT !.pc = "list", !.list = from..to]
    BY <1>1 DEF PeriodStart
  <2>2. period'.pc = "list" /\ period'.list = from..to /\ from..to \in SUBSET Date /\ period' \in PeriodType
    <3>1. from..to \in SUBSET Date
      BY CsarunAssumption DEF Date
    <3>2. \A L \in SUBSET Date :
            LET p == [NoPeriod EXCEPT !.pc = "list", !.list = L]
            IN p \in PeriodType /\ p.pc = "list" /\ p.list = L
      BY <1>4 DEF PeriodType
    <3> QED
      BY <2>1, <3>1, <3>2
  <2>3. \A r \in Run : run[r].pc = "off"
    BY <1>1 DEF PeriodStart, Orderly, Active, At
  <2>4. sum' = sum /\ RestType'
    BY <1>0, <1>1 DEF PeriodStart, nights, history, RestType
  <2>5. PeriodAt'
    BY <1>0, <2>1, <2>2, <2>3, <2>4 DEF PeriodAt, Open
  <2> QED
    BY <1>0, <2>2, <2>4, <2>5, OtherStep
<1>2. CASE PeriodList \/ PeriodAdd
  <2>1. sum' = sum /\ RestType'
    BY <1>0, <1>2 DEF PeriodList, PeriodAdd, nights, history, RestType
  <2>2. /\ period' \in PeriodType /\ period'.list \subseteq period.list /\ period.pc # "off"
        /\ period'.pc = "remove" => period'.data = UNION {{d} \X Contents(sum[d]) : d \in period'.list}
    <3>1. CASE PeriodList
      <4> DEFINE found == {d \in period.list : Contents(sum[d]) # {}}
      <4>1. period' \in {NoPeriod, [period EXCEPT !.pc = "add", !.list = found]} /\ period.pc = "list"
        BY <3>1 DEF PeriodList
      <4>2. found \subseteq period.list
        OBVIOUS
      <4> HIDE DEF found
      <4> QED
        BY <1>0, <1>4, <4>1, <4>2 DEF PeriodType
    <3>2. CASE PeriodAdd
      <4>1. period' \in {NoPeriod, [period EXCEPT !.pc = "remove", !.data = data]} /\ period.pc = "add"
        BY <3>2 DEF PeriodAdd
      <4> HIDE DEF data
      <4>2. CASE period' = NoPeriod
        BY <1>0, <1>4, <4>1, <4>2
      <4>3. CASE period' = [period EXCEPT !.pc = "remove", !.data = data]
        <5>1. period'.list = period.list /\ period'.data = data /\ period' \in PeriodType
          BY <1>0, <1>5, <4>3 DEF PeriodType
        <5> QED
          BY <4>1, <5>1 DEF data
      <4> QED
        BY <4>1, <4>2, <4>3
    <3> QED
      BY <1>2, <3>1, <3>2
  <2>3. PeriodAt'
    BY <1>0, <2>1, <2>2 DEF PeriodAt, Control, Open
  <2> QED
    BY <1>0, <2>1, <2>2, <2>3, OtherStep
<1>3. CASE PeriodRemove
  <2>1. period' \in PeriodType /\ PeriodAt'
    BY <1>3, <1>4 DEF PeriodRemove, PeriodAt
  <2>2. sum' \in [Date -> FileType] /\ \A d \in Date : sum'[d] \in {sum[d], None}
    BY <1>0, <1>3, FileFacts DEF PeriodRemove
  <2> DEFINE n(rec) == Cardinality({d \in Date : <<d, rec>> \in period.data})
  <2>3. \A rec \in Rec : n(rec) \in Nat
    <3>1. IsFiniteSet(Date)
      BY CsarunAssumption, FS_Interval DEF Date
    <3>2. ASSUME NEW rec \in Rec PROVE IsFiniteSet({d \in Date : <<d, rec>> \in period.data})
      BY <3>1, FS_Subset
    <3> QED
      BY <3>2, FS_CardinalityType
  <2>4. charged' \in [Rec -> Nat]
    <3>1. charged' = charged \/ charged' = [rec \in Rec |-> charged[rec] + n(rec)]
      BY <1>3, Zenon DEF PeriodRemove
    <3> HIDE DEF n
    <3> QED
      BY <1>0, <2>3, <3>1 DEF RestType
  <2>5. faults' \in Nat /\ UNCHANGED <<pacct, day, damaged, written, aside, bills, asked>>
    BY <1>0, <1>3 DEF PeriodRemove, RestType
  <2>6. RestType'
    BY <1>0, <2>4, <2>5 DEF RestType
  <2> QED
    BY <1>0, <2>1, <2>2, <2>6, OtherStep
<1> QED
  BY <1>1, <1>2, <1>3

LEMMA InitControl == Init => Control
<1> SUFFICES ASSUME Init PROVE Control
  OBVIOUS
<1>1. Off.pc = "off" /\ NoPeriod.pc = "off" /\ NoPeriod \in PeriodType
  BY DEF Off, NoPeriod, PeriodType
<1>2. CsarunTypeOK
  BY <1>1, OffType, DirFacts, FileFacts, StartAssumption DEF Init, CsarunTypeOK, State
<1>3. \A r \in Run : RunAt(r)
  BY <1>1 DEF Init, RunAt, Off, Inside, StatesAt
<1>4. OneNight /\ PeriodAt
  BY <1>1, DirFacts DEF Init, OneNight, PeriodAt
<1> QED
  BY <1>2, <1>3, <1>4 DEF Control

LEMMA NextControl == Orderly /\ Control /\ [Next]_vars => Control'
<1> SUFFICES ASSUME Orderly, Control, [Next]_vars PROVE Control'
  OBVIOUS
<1>1. CASE UNCHANGED vars
  <2>1. UNCHANGED <<nite, pacct, day, work, sum, run, period, damaged, faults, written, aside, bills, charged, asked>>
    BY <1>1 DEF vars, nights, history
  <2>2. CsarunTypeOK' /\ OneNight' /\ PeriodAt'
    BY <2>1 DEF Control, CsarunTypeOK, OneNight, PeriodAt, Open
  <2>3. \A r \in Run : RunAt(r)'
    BY <2>1 DEF Control, RunAt, Dir
  <2> QED
    BY <2>2, <2>3 DEF Control
<1>2. ASSUME NEW r \in Run, Step(r) PROVE Control'
  BY <1>2, MakeLockControl, StartControl, WriteStateControl, MakeDirControl, RestartControl, AdvanceControl,
     SetupControl, LsControl, MvControl, VerifyControl, VerifyFileControl, MvBadControl, MvGoodControl,
     ReadOnlyControl, BuildControl, ReportControl, RecycleControl, MvRecycledControl, ReportsControl,
     RemoveWorkControl, RemoveLockControl, CompleteControl DEF Step
<1> QED
  BY <1>1, <1>2, InvokeControl, CrashControl, CsadControl, PeriodControl DEF Next

(* The state of csarun and csaperiod is well typed, and no two nights are  *)
(* under way at once.                                                      *)
THEOREM ControlHolds == ASSUME Orderly PROVE Spec => []Control
<1>1. Init => Control
  BY InitControl
<1>2. Control /\ [Next]_vars => Control'
  BY NextControl
<1> QED
  BY <1>1, <1>2, PTL DEF Spec

(***************************************************************************)
(* The numbers of the files                                                *)
(***************************************************************************)
LEMMA NumbersFrame ==
  ASSUME Orderly, Numbers, NEW r \in Run,
         run[r].pc \notin {"mv", "mvgood"}, run'[r].pc \notin {"ls", "mv", "mvbad", "mvgood"},
         run'[r].pc = "loop" => run'[r].arg # "cron" \/ nite'.state # "SETUP",
         \A f \in File : f > 0 => day'[f] = day[f],
         \A d \in Date : work'[d].made => work[d].made /\ \A f \in File : work'[d].W[f] = work[d].W[f]
  PROVE  Numbers'
<1>1. Run = {r}
  BY Alone
<1>2. ~Moving /\ ~Moving' /\ \A f : ~Given(f) /\ ~Given(f)'
  BY <1>1 DEF Moving, Given
<1>3. DayNumbers'
  BY <1>1, <1>2, CsarunAssumption DEF Numbers, DayNumbers, File
<1>4. WorkNumbers'
  BY <1>2 DEF Numbers, WorkNumbers, Gapless
<1>5. Fresh'
  BY <1>1 DEF Fresh
<1> QED
  BY <1>3, <1>4, <1>5 DEF Numbers

(* A run that ends, with its files as they are.                            *)
LEMMA EndNumbers ==
  ASSUME Orderly, Control, Numbers, NEW r \in Run, run' = [run EXCEPT ![r] = Off],
         run[r].pc \notin {"mv", "mvgood"}, day' = day, work' = work
  PROVE  Numbers'
<1>1. run'[r] = Off /\ Off.pc = "off"
  BY DEF Control, CsarunTypeOK, Off
<1> QED
  BY <1>1, NumbersFrame

(* The start of a run, and its end: no file is touched.                    *)
LEMMA StartNumbers ==
  ASSUME Orderly, Control, Numbers, NEW r \in Run,
         Invoke(r) \/ MakeLock(r) \/ Start(r) \/ WriteState(r) \/ RemoveLock(r) \/ Complete(r) \/ Reports(r) \/ Crash(r)
  PROVE  Numbers'
<1>1. day' = day /\ work' = work
  BY DEF Invoke, MakeLock, Start, WriteState, RemoveLock, Complete, Reports, Crash, nights
<1>2. run[r].pc \notin {"mv", "mvgood"}
  <2>1. CASE Crash(r)
    BY <2>1 DEF Crash, Orderly, At
  <2> QED
    BY <2>1 DEF Invoke, MakeLock, Start, WriteState, RemoveLock, Complete, Reports, At
<1>3. \/ run' = [run EXCEPT ![r] = Off]
      \/ \E pc \in {"args", "state", "mkdir", "complete", "next"} : Goto(r, pc)
      \/ \E x : run' = [run EXCEPT ![r] = x] /\ x.pc = "lock"
  <2>1. CASE Invoke(r)
    <3>1. CASE ErrorExit(r)
      BY <3>1 DEF ErrorExit
    <3>2. ASSUME NEW d \in Date, NEW arg \in {"cron", "restart"} \cup Named, NEW all \in BOOLEAN, NEW edit \in BOOLEAN
          PROVE  [Off EXCEPT !.pc = "lock", !.date = d, !.arg = arg, !.all = all, !.edit = edit].pc = "lock"
      BY DEF Off, RunType
    <3>3. \/ ErrorExit(r)
          \/ \E d \in Date, arg \in {"cron", "restart"} \cup Named, all \in BOOLEAN, edit \in BOOLEAN :
               run' = [run EXCEPT ![r] = [Off EXCEPT !.pc = "lock", !.date = d, !.arg = arg, !.all = all, !.edit = edit]]
      BY <2>1, Zenon DEF Invoke
    <3>4. CASE ~ErrorExit(r)
      <4>1. PICK d \in Date, arg \in {"cron", "restart"} \cup Named, all \in BOOLEAN, edit \in BOOLEAN :
               run' = [run EXCEPT ![r] = [Off EXCEPT !.pc = "lock", !.date = d, !.arg = arg, !.all = all, !.edit = edit]]
        BY <3>3, <3>4
      <4> DEFINE x == [Off EXCEPT !.pc = "lock", !.date = d, !.arg = arg, !.all = all, !.edit = edit]
      <4>2. run' = [run EXCEPT ![r] = x] /\ x.pc = "lock"
        BY <3>2, <4>1
      <4> HIDE DEF x
      <4> QED
        BY <4>2
    <3> QED
      BY <3>1, <3>4
  <2> QED
    BY <2>1 DEF MakeLock, Start, WriteState, RemoveLock, Complete, Reports, Crash, ErrorExit, Fails
<1>4. CASE \E pc \in {"args", "state", "mkdir", "complete", "next"} : Goto(r, pc)
  <2>1. run'[r].pc \in {"args", "state", "mkdir", "complete", "next"}
    BY <1>4 DEF Goto, Control, CsarunTypeOK, RunType
  <2> QED
    BY <1>1, <1>2, <2>1, NumbersFrame
<1>5. CASE \E x : run' = [run EXCEPT ![r] = x] /\ x.pc = "lock"
  <2>1. run'[r].pc = "lock"
    BY <1>5 DEF Control, CsarunTypeOK
  <2> QED
    BY <1>1, <1>2, <2>1, NumbersFrame
<1> QED
  BY <1>1, <1>2, <1>3, <1>4, <1>5, EndNumbers

LEMMA MakeDirNumbers ==
  ASSUME Orderly, Control, Numbers, NEW r \in Run, MakeDir(r)
  PROVE  Numbers'
<1>1. Run = {r} /\ run[r].pc = "mkdir" /\ run[r].date \in Date /\ work \in [Date -> DirType] /\ day' = day
  BY Alone DEF MakeDir, At, Control, RunAt, CsarunTypeOK
<1>2. run'[r].pc = "loop" /\ run'[r].date = run[r].date
  BY <1>1 DEF MakeDir, Goto, Control, CsarunTypeOK, RunType
<1>3. work'[run[r].date] = EmptyDir /\ \A d \in Date : d # run[r].date => work'[d] = work[d]
  BY <1>1, DirFacts DEF MakeDir
<1>4. ~Moving /\ ~Moving' /\ \A f : ~Given(f) /\ ~Given(f)'
  BY <1>1, <1>2 DEF Moving, Given
<1>5. DayNumbers'
  BY <1>1, <1>2, <1>4 DEF Numbers, DayNumbers
<1>6. WorkNumbers'
  BY <1>1, <1>3, <1>4, DirFacts DEF Numbers, WorkNumbers, Gapless
<1>7. Fresh'
  BY <1>1, <1>2, <1>3 DEF Fresh, Dir
<1> QED
  BY <1>5, <1>6, <1>7 DEF Numbers

LEMMA RestartNumbers ==
  ASSUME Orderly, Control, Numbers, NEW r \in Run, Restart(r)
  PROVE  Numbers'
<1>1. run[r].pc = "args" /\ day' = day /\ work' = work
  BY DEF Restart, At
<1>2. \/ run' = [run EXCEPT ![r] = Off]
      \/ run' = [run EXCEPT ![r].pc = "loop", ![r].arg = "restart"]
  BY DEF Restart
<1>3. CASE run' = [run EXCEPT ![r].pc = "loop", ![r].arg = "restart"]
  <2>1. run'[r].pc = "loop" /\ run'[r].arg = "restart"
    BY <1>3 DEF Control, CsarunTypeOK, RunType
  <2> QED
    BY <1>1, <2>1, NumbersFrame
<1> QED
  BY <1>1, <1>2, <1>3, EndNumbers

LEMMA AdvanceNumbers ==
  ASSUME Orderly, Control, Numbers, NEW r \in Run, Advance(r)
  PROVE  Numbers'
<1>1. run[r].pc = "next" /\ run[r].pc \in Inside /\ day' = day /\ work' = work
  BY DEF Advance, At, Inside
<1>2. After(run[r].at) \in State \ {"SETUP"}
  <2>1. run[r].at \in State \ {"CLEANUP", "COMPLETE"}
    BY <1>1, Within DEF StatesAt
  <2> QED
    BY <2>1, AfterFacts DEF State
<1>3. nite'.state # "SETUP"
  BY <1>2, NiteFacts DEF Advance
<1>4. run'[r].pc = "loop"
  BY DEF Advance, Control, CsarunTypeOK, RunType
<1> QED
  BY <1>1, <1>3, <1>4, NumbersFrame

(* The first free number leaves no gap.                                    *)
LEMMA PutAsideNumbers ==
  ASSUME Orderly, Control, DayNumbers, ~Moving, PutAside
  PROVE  /\ \A f \in File, g \in File : day'[f] # None /\ 0 < g /\ g <= f => day'[g] # None
         /\ day'[1] # None
<1>1. RestType
  BY NiteFacts
<1>2. PICK f \in File : /\ f > 0 /\ day[f] = None /\ \A g \in File : 0 < g /\ g < f => day[g] # None
                        /\ day'[f] = Holding(pacct) /\ \A g \in File : g # f => day'[g] = day[g]
  BY <1>1, PutAsideFacts
<1>3. day'[f] # None
  BY <1>2, FileFacts
<1>4. \A g \in File, h \in File : day[g] # None /\ 0 < h /\ h <= g => day[h] # None
  BY DEF DayNumbers
<1>5. \A g \in File : 0 < g /\ g <= f => day'[g] # None
  BY <1>2, <1>3 DEF File
<1>6. 1 \in File /\ 0 < 1 /\ 1 <= f
  BY <1>2, CsarunAssumption DEF File
<1>7. ASSUME NEW g \in File, NEW h \in File, day'[g] # None, 0 < h, h <= g PROVE day'[h] # None
  BY <1>2, <1>3, <1>4, <1>5, <1>7 DEF File
<1> QED
  BY <1>5, <1>6, <1>7

LEMMA SetupNumbers ==
  ASSUME Orderly, Control, Numbers, NEW r \in Run, Setup(r)
  PROVE  Numbers'
<1>1. Run = {r} /\ run[r].pc = "loop" /\ run[r].pc \in Inside /\ nite.state = "SETUP" /\ work' = work
  BY Alone DEF Setup, In, At, Inside
<1>2. CASE Fails(r) /\ day' = day
  BY <1>1, <1>2, EndNumbers DEF Fails, ErrorExit
<1>3. CASE Begin(r, "SETUP", "next") /\ day' = day
  <2>1. run'[r].pc = "next"
    BY <1>3 DEF Begin, Control, CsarunTypeOK, RunType
  <2> QED
    BY <1>1, <1>3, <2>1, NumbersFrame
<1>4. CASE run[r].arg = "cron" /\ PutAside /\ Begin(r, "SETUP", "ls")
  <2>1. run'[r].pc = "ls" /\ run'[r].date = run[r].date
    BY <1>4 DEF Begin, Control, CsarunTypeOK, RunType
  <2>2. ~Moving /\ ~Moving' /\ \A f : ~Given(f) /\ ~Given(f)'
    BY <1>1, <2>1 DEF Moving, Given
  <2>3. DayNumbers'
    BY <1>1, <1>4, <2>2, PutAsideNumbers DEF Numbers, DayNumbers
  <2>4. WorkNumbers'
    BY <1>1, <2>2 DEF Numbers, WorkNumbers, Gapless
  <2>5. Fresh'
    BY <1>1, <1>4, <2>1 DEF Numbers, Fresh, Dir
  <2> QED
    BY <2>3, <2>4, <2>5 DEF Numbers
<1> QED
  BY <1>2, <1>3, <1>4 DEF Setup

LEMMA SwitchNumbers ==
  ASSUME Orderly, Control, Numbers, Switch
  PROVE  Numbers'
<1>1. /\ PutAside /\ work' = work /\ run' = run /\ nite' = nite
      /\ \A r \in Run : run[r].pc \notin {"ls", "mv"}
  BY DEF Switch, Orderly
<1>2. ~Moving /\ ~Moving' /\ \A f : Given(f)' = Given(f)
  BY <1>1 DEF Moving, Given
<1>3. DayNumbers'
  BY <1>1, <1>2, PutAsideNumbers DEF Numbers, DayNumbers
<1>4. WorkNumbers'
  BY <1>1, <1>2 DEF Numbers, WorkNumbers, Gapless
<1>5. Fresh'
  BY <1>1 DEF Numbers, Fresh, Dir
<1> QED
  BY <1>3, <1>4, <1>5 DEF Numbers

(* csad, the administrator and csaperiod move no file of the day.          *)
LEMMA OtherNumbers ==
  ASSUME Control, Numbers, run' = run, day' = day, work' = work, nite'.state = nite.state
  PROVE  Numbers'
<1>1. Moving' = Moving /\ \A f : Given(f)' = Given(f)
  BY DEF Moving, Given
<1>2. DayNumbers' /\ WorkNumbers'
  BY <1>1 DEF Numbers, DayNumbers, WorkNumbers, Gapless
<1>3. Fresh'
  BY DEF Numbers, Fresh, Dir
<1> QED
  BY <1>2, <1>3 DEF Numbers

LEMMA LsNumbers ==
  ASSUME Orderly, Control, Numbers, NEW r \in Run, Ls(r)
  PROVE  Numbers'
<1> DEFINE t == {f \in File : day[f] # None}
<1>1. Run = {r} /\ run[r].pc = "ls" /\ run[r].pc \in Inside /\ work' = work /\ day' = day /\ nite' = nite
  BY Alone DEF Ls, At, Inside, nights
<1>2. run'[r].pc = "mv" /\ run'[r].date = run[r].date /\ run'[r].todo = t
  <2>1. run' = [run EXCEPT ![r].pc = "mv", ![r].todo = t]
    BY DEF Ls
  <2> HIDE DEF t
  <2> QED
    BY <2>1 DEF Control, CsarunTypeOK, RunType
<1>3. ~Moving /\ Moving' /\ \A f : ~Given(f) /\ ~Given(f)'
  BY <1>1, <1>2 DEF Moving, Given
<1>4. Dir(r) = EmptyDir /\ day[1] # None /\ run[r].date = nite.date
  BY <1>1, Within DEF Numbers, Fresh, DayNumbers
<1>5. DayNumbers'
  BY <1>1, <1>2, <1>3 DEF DayNumbers
<1>6. \A d \in Date : work[d].made => \A f \in File : work[d].W[f] = None
  <2>1. \A d \in Date : work[d].made => d = nite.date
    BY DEF Control, OneNight
  <2> QED
    BY <1>4, <2>1, DirFacts DEF Dir
<1>7. WorkNumbers'
  <2>1. ASSUME NEW f \in File, NEW g \in File, day[f] # None, g > 0, g = 1 \/ g <= f PROVE day[g] # None
    BY <1>3, <1>4, <2>1 DEF Numbers, DayNumbers
  <2>2. ASSUME NEW d \in Date, work[d].made PROVE Gapless({f \in File : work[d].W[f] # None \/ day[f] # None})
    BY <1>6, <2>1, <2>2 DEF Gapless
  <2> QED
    BY <1>1, <1>3, <1>6, <2>2 DEF WorkNumbers
<1>8. Fresh'
  <2>1. EmptyDir = [EmptyDir EXCEPT !.W = EmptyDir.W]
    BY DEF EmptyDir
  <2>2. Dir(r)' = Dir(r)
    BY <1>1, <1>2 DEF Dir
  <2> QED
    BY <1>1, <1>2, <1>4, <2>1, <2>2 DEF Fresh
<1> QED
  BY <1>5, <1>7, <1>8 DEF Numbers

(* Directories that differ in the numbered files only.                     *)
LEMMA SameButFiles ==
  ASSUME NEW v \in DirType, NEW w \in DirType, v.made = w.made, v.bad = w.bad, v.edited = w.edited,
         v.spacct = w.spacct, v.recycled = w.recycled
  PROVE  v = [w EXCEPT !.W = v.W]
BY DEF DirType

LEMMA MvNumbers ==
  ASSUME Orderly, Control, Numbers, NEW r \in Run, Mv(r)
  PROVE  Numbers'
<1> DEFINE f == Min(run[r].todo)
<1>1. /\ Run = {r} /\ run[r].pc = "mv" /\ run[r].pc \in Inside /\ run[r].todo = {g \in File : day[g] # None}
      /\ run[r].todo \in SUBSET File
  BY Alone DEF Mv, At, Inside, Numbers, Fresh
<1>2. /\ run[r].date = nite.date /\ nite.date \in Date /\ work \in [Date -> DirType] /\ day \in [File -> FileType]
      /\ Dir(r) = work[nite.date] /\ Dir(r).made
  BY <1>1, Within DEF RestType
<1>3. /\ Gapless({g \in File : Dir(r).W[g] # None \/ day[g] # None})
      /\ \A g \in File, h \in File : Dir(r).W[g] # None /\ day[h] # None => g < h
  <2>1. Moving /\ work[nite.date].made
    BY <1>1, <1>2 DEF Moving
  <2>2. /\ Gapless({g \in File : work[nite.date].W[g] # None \/ day[g] # None})
        /\ \A g \in File, h \in File : work[nite.date].W[g] # None /\ day[h] # None => g < h
    BY <1>2, <2>1 DEF Numbers, WorkNumbers
  <2> HIDE DEF f
  <2> QED
    BY <1>2, <2>2, Zenon
<1>4. \A d \in Date : work[d].made => d = nite.date
  BY DEF Control, OneNight
<1>5. CASE run[r].todo = {}
  <2>1. run'[r].pc = "next" /\ day' = day /\ work' = work
    BY <1>5 DEF Mv, Goto, Control, CsarunTypeOK, RunType
  <2>2. ~Moving' /\ \A g : ~Given(g)'
    BY <1>1, <2>1 DEF Moving, Given
  <2>3. \A g \in File : day[g] = None
    BY <1>1, <1>5
  <2>4. DayNumbers'
    BY <1>1, <2>1, <2>3 DEF DayNumbers
  <2>5. {g \in File : Dir(r).W[g] # None \/ day[g] # None} = {g \in File : Dir(r).W[g] # None \/ Given(g)'}
    BY <2>2, <2>3
  <2>6. WorkNumbers'
    BY <1>2, <1>3, <1>4, <2>1, <2>2, <2>3 DEF WorkNumbers, Gapless
  <2>7. Fresh'
    BY <1>1, <2>1 DEF Fresh
  <2> QED
    BY <2>4, <2>6, <2>7 DEF Numbers
<1>6. CASE run[r].todo # {}
  <2>1. f \in File /\ day[f] # None /\ \A g \in File : day[g] # None => f <= g
    BY <1>1, <1>6, MinExists
  <2>2. Dir(r).W[f] = None
    BY <1>3, <2>1 DEF File
  <2>3. /\ work' = PutFile(work, nite.date, f, day[f]) /\ day' = [day EXCEPT ![f] = None]
        /\ Take(r, run[r].todo \ {f})
    BY <1>2, <1>6, <2>2 DEF Mv, PutFile, Take, Control, CsarunTypeOK, RunType
  <2>4. run'[r].pc = "mv" /\ run'[r].date = run[r].date /\ run'[r].todo = run[r].todo \ {f}
    BY <1>1, <2>3 DEF Take, Control, CsarunTypeOK, RunType
  <2>5. day'[f] = None /\ \A g \in File : g # f => day'[g] = day[g]
    BY <1>2, <2>1, <2>3
  <2> HIDE DEF f
  <2>6. /\ work'[nite.date].W[f] = day[f] /\ \A g \in File : g # f => work'[nite.date].W[g] = work[nite.date].W[g]
        /\ \A d \in Date : d # nite.date => work'[d] = work[d]
        /\ work' \in [Date -> DirType] /\ work'[nite.date].made = work[nite.date].made
        /\ work'[nite.date].bad = work[nite.date].bad /\ work'[nite.date].edited = work[nite.date].edited
        /\ work'[nite.date].spacct = work[nite.date].spacct /\ work'[nite.date].recycled = work[nite.date].recycled
    BY <1>2, <2>1, <2>3, SetFile
  <2>7. Moving /\ Moving'
    BY <1>1, <2>4 DEF Moving
  <2>8. DayNumbers'
    BY <1>1, <2>4, <2>7 DEF DayNumbers
  <2>9. /\ \A g \in File : (work'[nite.date].W[g] # None \/ day'[g] # None) <=> (Dir(r).W[g] # None \/ day[g] # None)
        /\ \A g \in File, h \in File : work'[nite.date].W[g] # None /\ day'[h] # None => g < h
    BY <1>2, <1>3, <2>1, <2>2, <2>5, <2>6 DEF File
  <2>10. WorkNumbers'
    BY <1>2, <1>3, <1>4, <2>6, <2>7, <2>9 DEF WorkNumbers, Gapless
  <2>11. Fresh'
    <3>1. run'[r].todo = {g \in File : day'[g] # None}
      BY <1>1, <2>4, <2>5
    <3>2. Dir(r) = [EmptyDir EXCEPT !.W = Dir(r).W]
      BY <1>1 DEF Numbers, Fresh
    <3>3. Dir(r)' = [EmptyDir EXCEPT !.W = Dir(r)'.W]
      <4>1. Dir(r)' = work'[nite.date] /\ Dir(r) = work[nite.date] /\ EmptyDir \in DirType /\ work[nite.date].W \in [File -> FileType]
        BY <1>2, <2>4, DirFacts DEF Dir, DirType
      <4>2. /\ work[nite.date].bad = EmptyDir.bad /\ work[nite.date].edited = EmptyDir.edited /\ work[nite.date].made = EmptyDir.made
            /\ work[nite.date].spacct = EmptyDir.spacct /\ work[nite.date].recycled = EmptyDir.recycled
        BY <3>2, <4>1 DEF DirType
      <4>3. work'[nite.date] \in DirType
        BY <1>2, <2>6
      <4>4. work'[nite.date] = [EmptyDir EXCEPT !.W = work'[nite.date].W]
        BY <2>6, <4>1, <4>2, <4>3, SameButFiles
      <4> QED
        BY <4>1, <4>4
    <3> QED
      BY <1>1, <2>4, <3>1, <3>3 DEF Fresh
  <2> QED
    BY <2>8, <2>10, <2>11 DEF Numbers
<1> QED
  BY <1>5, <1>6

LEMMA ReadNumbers ==
  ASSUME Orderly, Control, Numbers, NEW r \in Run, Verify(r) \/ ReadOnly(r) \/ Report(r)
  PROVE  Numbers'
<1>1. run[r].pc = "loop" /\ run[r].pc \in Inside /\ day' = day /\ work' = work
  BY DEF Verify, ReadOnly, Report, In, At, Inside, nights
<1>2. \/ run' = [run EXCEPT ![r] = Off]
      \/ Verify(r)
      \/ \E s : Begin(r, s, "next") \/ Begin(r, s, "reports") \/ Begin(r, s, "recy")
  BY DEF ReadOnly, Report, Fails, ErrorExit
<1>3. CASE Verify(r)
  <2>1. run'[r].pc = "verify"
    BY <1>3 DEF Verify, Control, CsarunTypeOK, RunType
  <2> QED
    BY <1>1, <2>1, NumbersFrame
<1>4. ASSUME NEW s, Begin(r, s, "next") \/ Begin(r, s, "reports") \/ Begin(r, s, "recy")
      PROVE  Numbers'
  <2>1. run'[r].pc \in {"next", "reports", "recy"}
    BY <1>4 DEF Begin, Control, CsarunTypeOK, RunType
  <2> QED
    BY <1>1, <2>1, NumbersFrame
<1> QED
  BY <1>1, <1>2, <1>3, <1>4, EndNumbers

(***************************************************************************)
(* What the commands do to the work directory                              *)
(***************************************************************************)
(* The run has ended, and its files are as they were. *)
Ends(r) == run' = [run EXCEPT ![r] = Off] /\ run'[r].pc = "off" /\ work' = work
OtherDirs ==
  /\ work' \in [Date -> DirType] /\ work'[nite.date].made
  /\ \A d \in Date : d # nite.date => work'[d] = work[d]

LEMMA EndsFacts ==
  ASSUME Control, NEW r \in Run, run' = [run EXCEPT ![r] = Off]
  PROVE  run'[r].pc = "off"
BY DEF Control, CsarunTypeOK, Off

LEMMA VerifyFileViews ==
  ASSUME Orderly, Control, NEW r \in Run, VerifyFile(r)
  PROVE  LET f == Min(run[r].todo)
             D == work[nite.date]
         IN /\ run[r].todo # {} => f \in run[r].todo /\ \A g \in run[r].todo : f <= g
            /\ \/ Ends(r)
               \/ work' = work /\ run'[r].pc = "next" /\ run[r].todo = {}
               \/ /\ run[r].todo # {} /\ Contents(D.W[f]) \cap damaged = {}
                  /\ work' = work /\ run'[r].pc = "verify" /\ run'[r].todo = run[r].todo \ {f}
               \/ /\ run[r].todo # {} /\ Contents(D.W[f]) \cap damaged # {}
                  /\ run'[r].pc = "mvbad" /\ run'[r].todo = run[r].todo /\ run'[r].date = run[r].date
                  /\ OtherDirs /\ work'[nite.date].W = D.W /\ work'[nite.date].bad = D.bad
                  /\ work'[nite.date].spacct = D.spacct /\ work'[nite.date].recycled = D.recycled
                  /\ work'[nite.date].edited = Holding(Contents(D.W[f]) \ damaged)
<1> DEFINE f == Min(run[r].todo)
           D == work[nite.date]
           good == Contents(D.W[f]) \ damaged
<1>1. run[r].pc \in Inside /\ run[r].pc = "verify"
  BY DEF VerifyFile, At, Inside
<1>2. /\ run[r].todo \in SUBSET File /\ Dir(r) = D /\ run[r].date = nite.date /\ nite.date \in Date
      /\ D \in DirType /\ work \in [Date -> DirType] /\ D.made
  BY <1>1, Within DEF RunType
<1>3. run[r].todo # {} => f \in run[r].todo /\ \A g \in run[r].todo : f <= g
  BY <1>2, MinExists
<1>4. CASE run[r].todo = {}
  <2>1. Goto(r, "next") /\ work' = work
    BY <1>4 DEF VerifyFile
  <2>2. run'[r].pc = "next"
    BY <2>1 DEF Goto, Control, CsarunTypeOK, RunType
  <2> QED
    BY <1>3, <1>4, <2>1, <2>2
<1>5. CASE run[r].todo # {}
  <2>1. \/ run' = [run EXCEPT ![r] = Off] /\ work' = work
        \/ Contents(D.W[f]) = good /\ Take(r, run[r].todo \ {f}) /\ work' = work
        \/ Contents(D.W[f]) # good /\ work' = PutEdited(work, nite.date, Holding(good)) /\ Goto(r, "mvbad")
    BY <1>2, <1>5 DEF VerifyFile, Take, PutEdited, Fails, ErrorExit
  <2>2. Contents(D.W[f]) = good <=> Contents(D.W[f]) \cap damaged = {}
    OBVIOUS
  <2>3. ASSUME Take(r, run[r].todo \ {f})
        PROVE  run'[r].pc = "verify" /\ run'[r].todo = run[r].todo \ {f}
    BY <1>1, <1>2, <2>3 DEF Take, Control, CsarunTypeOK, RunType
  <2>4. ASSUME Goto(r, "mvbad")
        PROVE  run'[r].pc = "mvbad" /\ run'[r].todo = run[r].todo /\ run'[r].date = run[r].date
    BY <1>2, <2>4 DEF Goto, Control, CsarunTypeOK, RunType
  <2>5. ASSUME work' = PutEdited(work, nite.date, Holding(good))
        PROVE  /\ OtherDirs /\ work'[nite.date].W = D.W /\ work'[nite.date].bad = D.bad
               /\ work'[nite.date].spacct = D.spacct /\ work'[nite.date].recycled = D.recycled
               /\ work'[nite.date].edited = Holding(good)
    <3>1. D.W[f] \in FileType
      BY <1>2, <1>3, <1>5 DEF DirType
    <3>2. Holding(good) \in FileType
      BY <3>1, FileFacts
    <3> HIDE DEF good
    <3> QED
      BY <1>2, <2>5, <3>2, SetOne DEF OtherDirs
  <2>6. run' = [run EXCEPT ![r] = Off] => run'[r].pc = "off"
    BY EndsFacts
  <2> HIDE DEF D, f
  <2>7. CASE run' = [run EXCEPT ![r] = Off] /\ work' = work
    BY <1>3, <2>6, <2>7 DEF Ends, f, D
  <2>8. CASE Contents(D.W[f]) = good /\ Take(r, run[r].todo \ {f}) /\ work' = work
    BY <1>3, <1>5, <2>2, <2>3, <2>8 DEF f, D
  <2>9. CASE Contents(D.W[f]) # good /\ work' = PutEdited(work, nite.date, Holding(good)) /\ Goto(r, "mvbad")
    BY <1>3, <1>5, <2>2, <2>4, <2>5, <2>9 DEF f, D
  <2> QED
    BY <2>1, <2>7, <2>8, <2>9
<1> QED
  BY <1>4, <1>5

LEMMA MvBadViews ==
  ASSUME Orderly, Control, NEW r \in Run, MvBad(r)
  PROVE  LET f == Min(run[r].todo)
             D == work[nite.date]
         IN /\ f \in run[r].todo /\ f \in File
            /\ run'[r].pc = "mvgood" /\ run'[r].todo = run[r].todo /\ run'[r].date = run[r].date
            /\ OtherDirs /\ work'[nite.date].edited = D.edited
            /\ work'[nite.date].spacct = D.spacct /\ work'[nite.date].recycled = D.recycled
            /\ work'[nite.date].W[f] = None /\ \A g \in File : g # f => work'[nite.date].W[g] = D.W[g]
            /\ work'[nite.date].bad[f] = D.W[f] /\ \A g \in File : g # f => work'[nite.date].bad[g] = D.bad[g]
<1> DEFINE f == Min(run[r].todo)
           D == work[nite.date]
<1>1. run[r].pc \in Inside /\ run[r].pc = "mvbad"
  BY DEF MvBad, At, Inside
<1>2. /\ run[r].todo \in SUBSET File /\ run[r].todo # {} /\ Dir(r) = D /\ run[r].date = nite.date /\ nite.date \in Date
      /\ D \in DirType /\ work \in [Date -> DirType] /\ D.made /\ None \in FileType
  BY <1>1, Within, FileFacts DEF RunType
<1>3. f \in run[r].todo /\ f \in File
  BY <1>2, MinExists
<1>4. D.W[f] \in FileType
  BY <1>2, <1>3 DEF DirType
<1>5. work' = PutBad(work, nite.date, f, None, D.W[f])
  BY <1>2 DEF MvBad, PutBad
<1>6. run'[r].pc = "mvgood" /\ run'[r].todo = run[r].todo /\ run'[r].date = run[r].date
  BY DEF MvBad, Goto, Control, CsarunTypeOK, RunType
<1> HIDE DEF f, D
<1>7. /\ OtherDirs /\ work'[nite.date].edited = D.edited
      /\ work'[nite.date].spacct = D.spacct /\ work'[nite.date].recycled = D.recycled
      /\ work'[nite.date].W[f] = None /\ \A g \in File : g # f => work'[nite.date].W[g] = D.W[g]
      /\ work'[nite.date].bad[f] = D.W[f] /\ \A g \in File : g # f => work'[nite.date].bad[g] = D.bad[g]
  BY <1>2, <1>3, <1>4, <1>5, SetBad DEF OtherDirs, D
<1> QED
  BY <1>3, <1>6, <1>7 DEF f, D

LEMMA MvGoodViews ==
  ASSUME Orderly, Control, NEW r \in Run, MvGood(r)
  PROVE  LET f == Min(run[r].todo)
             D == work[nite.date]
         IN /\ f \in run[r].todo /\ f \in File
            /\ run'[r].pc = "verify" /\ run'[r].todo = run[r].todo /\ run'[r].date = run[r].date
            /\ OtherDirs /\ work'[nite.date].bad = D.bad /\ work'[nite.date].edited = None
            /\ work'[nite.date].spacct = D.spacct /\ work'[nite.date].recycled = D.recycled
            /\ work'[nite.date].W[f] = D.edited /\ \A g \in File : g # f => work'[nite.date].W[g] = D.W[g]
            /\ aside' = aside \cup (AllOf(D.bad) \cap damaged)
<1> DEFINE f == Min(run[r].todo)
           D == work[nite.date]
<1>1. run[r].pc \in Inside /\ run[r].pc = "mvgood"
  BY DEF MvGood, At, Inside
<1>2. /\ run[r].todo \in SUBSET File /\ run[r].todo # {} /\ Dir(r) = D /\ run[r].date = nite.date /\ nite.date \in Date
      /\ D \in DirType /\ work \in [Date -> DirType] /\ D.made /\ None \in FileType
  BY <1>1, Within, FileFacts DEF RunType
<1>3. f \in run[r].todo /\ f \in File
  BY <1>2, MinExists
<1>4. D.edited \in FileType
  BY <1>2 DEF DirType
<1>5. work' = PutGood(work, nite.date, f, D.edited, None)
  BY <1>2 DEF MvGood, PutGood
<1>6. run'[r].pc = "verify" /\ run'[r].todo = run[r].todo /\ run'[r].date = run[r].date
  BY DEF MvGood, Goto, Control, CsarunTypeOK, RunType
<1>7. aside' = aside \cup (AllOf(D.bad) \cap damaged)
  BY <1>2, MvGoodAside
<1> HIDE DEF f, D
<1>8. /\ OtherDirs /\ work'[nite.date].bad = D.bad /\ work'[nite.date].edited = None
      /\ work'[nite.date].spacct = D.spacct /\ work'[nite.date].recycled = D.recycled
      /\ work'[nite.date].W[f] = D.edited /\ \A g \in File : g # f => work'[nite.date].W[g] = D.W[g]
  BY <1>2, <1>3, <1>4, <1>5, SetGood DEF OtherDirs, D
<1> QED
  BY <1>3, <1>6, <1>7, <1>8 DEF f, D

LEMMA MvViews ==
  ASSUME Orderly, Control, Numbers, NEW r \in Run, Mv(r)
  PROVE  LET f == Min(run[r].todo)
             D == work[nite.date]
         IN \/ (\A g \in File : day[g] = None) /\ day' = day /\ work' = work /\ run'[r].pc = "next"
            \/ /\ f \in File /\ day[f] # None /\ \A g \in File : g < f => day[g] = None
               /\ day'[f] = None /\ \A g \in File : g # f => day'[g] = day[g]
               /\ run'[r].pc = "mv" /\ OtherDirs /\ D.W[f] = None
               /\ work'[nite.date].W[f] = day[f] /\ \A g \in File : g # f => work'[nite.date].W[g] = D.W[g]
               /\ work'[nite.date].bad = D.bad /\ work'[nite.date].edited = D.edited
               /\ work'[nite.date].spacct = D.spacct /\ work'[nite.date].recycled = D.recycled
<1> DEFINE f == Min(run[r].todo)
<1>1. /\ run[r].pc = "mv" /\ run[r].pc \in Inside /\ run[r].todo = {g \in File : day[g] # None}
      /\ run[r].todo \in SUBSET File
  BY DEF Mv, At, Inside, Numbers, Fresh
<1>2. /\ run[r].date = nite.date /\ nite.date \in Date /\ work \in [Date -> DirType] /\ day \in [File -> FileType]
      /\ Dir(r) = work[nite.date] /\ work[nite.date].made
  BY <1>1, Within DEF RestType
<1>3. \A g \in File, h \in File : work[nite.date].W[g] # None /\ day[h] # None => g < h
  <2>1. Moving
    BY <1>1 DEF Moving
  <2> HIDE DEF f
  <2> QED
    BY <1>2, <2>1 DEF Numbers, WorkNumbers
<1>4. CASE run[r].todo = {}
  <2>1. run'[r].pc = "next" /\ day' = day /\ work' = work
    BY <1>4 DEF Mv, Goto, Control, CsarunTypeOK, RunType
  <2>2. \A g \in File : day[g] = None
    BY <1>1, <1>4
  <2> QED
    BY <2>1, <2>2
<1>5. CASE run[r].todo # {}
  <2>1. f \in File /\ day[f] # None /\ \A g \in File : day[g] # None => f <= g
    BY <1>1, <1>5, MinExists
  <2>2. Dir(r).W[f] = None
    BY <1>2, <1>3, <2>1 DEF File
  <2>3. /\ work' = PutFile(work, nite.date, f, day[f]) /\ day' = [day EXCEPT ![f] = None]
        /\ Take(r, run[r].todo \ {f})
    BY <1>2, <1>5, <2>2 DEF Mv, PutFile, Take, Control, CsarunTypeOK, RunType
  <2>4. run'[r].pc = "mv"
    BY <1>1, <2>3 DEF Take, Control, CsarunTypeOK, RunType
  <2>5. day'[f] = None /\ \A g \in File : g # f => day'[g] = day[g]
    BY <1>2, <2>1, <2>3
  <2>6. \A g \in File : g < f => day[g] = None
    BY <2>1 DEF File
  <2> HIDE DEF f
  <2>7. /\ work'[nite.date].W[f] = day[f] /\ \A g \in File : g # f => work'[nite.date].W[g] = work[nite.date].W[g]
        /\ OtherDirs
        /\ work'[nite.date].bad = work[nite.date].bad /\ work'[nite.date].edited = work[nite.date].edited
        /\ work'[nite.date].spacct = work[nite.date].spacct /\ work'[nite.date].recycled = work[nite.date].recycled
    BY <1>2, <2>1, <2>3, SetFile DEF OtherDirs
  <2> QED
    BY <1>2, <2>1, <2>2, <2>4, <2>5, <2>6, <2>7 DEF f
<1> QED
  BY <1>4, <1>5

SortedFile(D) == Holding(UNION {Contents(D.W[f]) : f \in Reached(D.W)})
LEMMA BuildViews ==
  ASSUME Orderly, Control, NEW r \in Run, Build(r)
  PROVE  LET D == work[nite.date]
         IN \/ Ends(r)
            \/ /\ D.W[1] # None /\ run'[r].pc = "next" /\ run'[r].at = "BUILD"
               /\ OtherDirs /\ work'[nite.date].W = D.W /\ work'[nite.date].bad = D.bad
               /\ work'[nite.date].edited = D.edited /\ work'[nite.date].recycled = D.recycled
               /\ work'[nite.date].spacct = Holding(UNION {Contents(D.W[f]) : f \in Reached(D.W)})
<1> DEFINE all == UNION {Contents(work[nite.date].W[f]) : f \in Reached(work[nite.date].W)}
<1>1. run[r].pc \in Inside
  BY DEF Build, In, At, Inside
<1>2. /\ run[r].date = nite.date /\ nite.date \in Date /\ work \in [Date -> DirType]
      /\ Dir(r) = work[nite.date] /\ work[nite.date].made
  BY <1>1, Within
<1>3. Holding(all) \in FileType
  <2>1. work[nite.date].W \in [File -> FileType]
    BY <1>2 DEF DirType
  <2>2. \A f \in Reached(work[nite.date].W) : Contents(work[nite.date].W[f]) \subseteq Rec
    BY <2>1, FileFacts DEF Reached
  <2>3. all \in SUBSET Rec
    BY <2>2
  <2> HIDE DEF all
  <2> QED
    BY <2>3, FileFacts
<1>4. \/ run' = [run EXCEPT ![r] = Off] /\ work' = work
      \/ work[nite.date].W[1] # None /\ work' = PutSorted(work, nite.date, Holding(all)) /\ Begin(r, "BUILD", "next")
  <2>1. \/ (Fails(r) \/ ErrorExit(r)) /\ work' = work
        \/ Dir(r).W[1] # None /\ work' = [work EXCEPT ![run[r].date].spacct = SortedFile(Dir(r))]
             /\ Begin(r, "BUILD", "next")
    BY Zenon DEF Build, SortedFile
  <2>2. \/ (Fails(r) \/ ErrorExit(r)) /\ work' = work
        \/ work[nite.date].W[1] # None /\ work' = [work EXCEPT ![nite.date].spacct = SortedFile(work[nite.date])] /\ Begin(r, "BUILD", "next")
    BY <1>2, <2>1, Zenon
  <2> QED
    BY <2>2, Zenon DEF PutSorted, Fails, ErrorExit, SortedFile
<1>5. CASE run' = [run EXCEPT ![r] = Off] /\ work' = work
  BY <1>5, EndsFacts DEF Ends
<1>6. CASE work[nite.date].W[1] # None /\ work' = PutSorted(work, nite.date, Holding(all)) /\ Begin(r, "BUILD", "next")
  <2>1. run'[r].pc = "next" /\ run'[r].at = "BUILD"
    BY <1>6 DEF Begin, Control, CsarunTypeOK, RunType
  <2> HIDE DEF all
  <2>2. /\ OtherDirs /\ work'[nite.date].W = work[nite.date].W /\ work'[nite.date].bad = work[nite.date].bad
        /\ work'[nite.date].edited = work[nite.date].edited /\ work'[nite.date].recycled = work[nite.date].recycled
        /\ work'[nite.date].spacct = Holding(all)
    BY <1>2, <1>3, <1>6, SetOne DEF OtherDirs
  <2> QED
    BY <1>6, <2>1, <2>2 DEF all
<1> QED
  BY <1>4, <1>5, <1>6

LEMMA ReportViews ==
  ASSUME Orderly, Control, NEW r \in Run, Report(r)
  PROVE  LET D == work[nite.date]
             S == Contents(D.spacct)
         IN /\ work' = work /\ \A d \in Date : d # nite.date => sum'[d] = sum[d]
            /\ \/ Ends(r) /\ Contents(sum'[nite.date]) = {}
               \/ Ends(r) /\ Contents(sum'[nite.date]) = IF asked THEN S ELSE Ended(S)
               \/ /\ D.spacct # None /\ Contents(sum'[nite.date]) = IF asked THEN S ELSE Ended(S)
                  /\ run'[r].pc = IF asked THEN "reports" ELSE "recy"
<1> DEFINE S == Contents(work[nite.date].spacct)
           all == IF asked THEN S ELSE Ended(S)
           pc == IF asked THEN "reports" ELSE "recy"
<1>1. run[r].pc \in Inside /\ work' = work
  BY DEF Report, In, At, Inside
<1>2. /\ run[r].date = nite.date /\ nite.date \in Date /\ run[r].all = asked /\ sum \in [Date -> FileType]
      /\ Dir(r) = work[nite.date]
  BY <1>1, Within
<1>3. \/ run' = [run EXCEPT ![r] = Off] /\ sum' = [sum EXCEPT ![nite.date] = Holding({})]
      \/ /\ sum' = [sum EXCEPT ![nite.date] = Holding(all)]
         /\ \/ run' = [run EXCEPT ![r] = Off]
            \/ work[nite.date].spacct # None /\ Begin(r, "REPORT", pc)
  BY <1>2, Zenon DEF Report, Fails, ErrorExit
<1>4. Contents(Holding({})) = {} /\ Contents(Holding(all)) = all
  BY FileFacts
<1>5. run' = [run EXCEPT ![r] = Off] => Ends(r)
  BY <1>1, EndsFacts DEF Ends
<1>6. Begin(r, "REPORT", pc) => run'[r].pc = pc
  BY DEF Begin, Control, CsarunTypeOK, RunType
<1>7. /\ sum' = [sum EXCEPT ![nite.date] = Holding({})] => sum'[nite.date] = Holding({}) /\ \A d \in Date : d # nite.date => sum'[d] = sum[d]
      /\ sum' = [sum EXCEPT ![nite.date] = Holding(all)] => sum'[nite.date] = Holding(all) /\ \A d \in Date : d # nite.date => sum'[d] = sum[d]
  <2> HIDE DEF all
  <2> QED
    BY <1>2
<1> HIDE DEF S, all, pc
<1>8. /\ work' = work /\ \A d \in Date : d # nite.date => sum'[d] = sum[d]
      /\ \/ Ends(r) /\ Contents(sum'[nite.date]) = {}
         \/ Ends(r) /\ Contents(sum'[nite.date]) = all
         \/ work[nite.date].spacct # None /\ Contents(sum'[nite.date]) = all /\ run'[r].pc = pc
  BY <1>1, <1>3, <1>4, <1>5, <1>6, <1>7
<1> QED
  BY <1>8 DEF S, all, pc

LEMMA RecycleViews ==
  ASSUME Orderly, Control, NEW r \in Run, Recycle(r)
  PROVE  LET D == work[nite.date]
         IN /\ run'[r].pc = "mvrecycled" /\ OtherDirs
            /\ work'[nite.date].W = D.W /\ work'[nite.date].bad = D.bad
            /\ work'[nite.date].edited = D.edited /\ work'[nite.date].spacct = D.spacct
            /\ work'[nite.date].recycled = Holding(NotEnded(Contents(D.spacct)))
<1> DEFINE rest == NotEnded(Contents(work[nite.date].spacct))
<1>1. run[r].pc \in Inside /\ run[r].pc = "recy"
  BY DEF Recycle, At, Inside
<1>2. work' = PutRecycled(work, nite.date, Holding(rest))
  BY <1>1, Within DEF Recycle, PutRecycled, Orderly, NotEnded
<1>3. Holding(rest) \in FileType
  BY <1>1, Within, FileFacts DEF DirType, NotEnded
<1>4. run'[r].pc = "mvrecycled"
  BY DEF Recycle, Goto, Control, CsarunTypeOK, RunType
<1> HIDE DEF rest
<1>5. /\ OtherDirs /\ work'[nite.date].W = work[nite.date].W /\ work'[nite.date].bad = work[nite.date].bad
      /\ work'[nite.date].edited = work[nite.date].edited /\ work'[nite.date].spacct = work[nite.date].spacct
      /\ work'[nite.date].recycled = Holding(rest)
  BY <1>1, <1>2, <1>3, Within, SetOne DEF OtherDirs
<1> QED
  BY <1>4, <1>5 DEF rest

LEMMA MvRecycledViews ==
  ASSUME Orderly, Control, NEW r \in Run, MvRecycled(r)
  PROVE  LET D == work[nite.date]
         IN /\ run'[r].pc = "reports"
            /\ \/ work' = work /\ day' = day /\ Contents(D.recycled) = {}
               \/ /\ OtherDirs /\ work'[nite.date].W = D.W /\ work'[nite.date].bad = D.bad
                  /\ work'[nite.date].edited = D.edited /\ work'[nite.date].spacct = D.spacct
                  /\ work'[nite.date].recycled = None /\ Contents(D.recycled) # {}
                  /\ day'[0] = D.recycled /\ \A g \in File : g # 0 => day'[g] = day[g]
<1>1. run[r].pc \in Inside /\ run[r].pc = "mvrecycled"
  BY DEF MvRecycled, At, Inside
<1>2. \/ work' = work /\ day' = day /\ Contents(work[nite.date].recycled) = {}
      \/ /\ work' = PutRecycled(work, nite.date, None) /\ Contents(work[nite.date].recycled) # {}
         /\ day' = [day EXCEPT ![0] = work[nite.date].recycled]
  BY <1>1, Within DEF MvRecycled, PutRecycled
<1>3. /\ nite.date \in Date /\ work \in [Date -> DirType] /\ None \in FileType /\ day \in [File -> FileType]
      /\ work[nite.date].made /\ 0 \in File
  BY <1>1, Within, FileFacts, CsarunAssumption DEF RestType, File
<1>4. run'[r].pc = "reports"
  BY DEF MvRecycled, Goto, Control, CsarunTypeOK, RunType
<1>5. work' = PutRecycled(work, nite.date, None) =>
      /\ OtherDirs /\ work'[nite.date].W = work[nite.date].W /\ work'[nite.date].bad = work[nite.date].bad
      /\ work'[nite.date].edited = work[nite.date].edited /\ work'[nite.date].spacct = work[nite.date].spacct
      /\ work'[nite.date].recycled = None
  BY <1>3, SetOne DEF OtherDirs
<1>6. day' = [day EXCEPT ![0] = work[nite.date].recycled] =>
        day'[0] = work[nite.date].recycled /\ \A g \in File : g # 0 => day'[g] = day[g]
  BY <1>3
<1> QED
  BY <1>2, <1>4, <1>5, <1>6

LEMMA RemoveWorkViews ==
  ASSUME Orderly, Control, NEW r \in Run, RemoveWork(r)
  PROVE  /\ run'[r].pc = "unlock" /\ nite.date \in Date /\ work'[nite.date] = NoDir
         /\ \A d \in Date : d # nite.date => work'[d] = work[d]
<1>1. run[r].pc \in Inside
  BY DEF RemoveWork, In, At, Inside
<1>2. run'[r].pc = "unlock"
  BY DEF RemoveWork, Begin, Control, CsarunTypeOK, RunType
<1>3. nite.date \in Date /\ run[r].date = nite.date /\ work \in [Date -> DirType]
  BY <1>1, Within
<1> QED
  BY <1>2, <1>3 DEF RemoveWork

LEMMA VerifyFileNumbers ==
  ASSUME Orderly, Control, Numbers, NEW r \in Run, VerifyFile(r)
  PROVE  Numbers'
<1> DEFINE f == Min(run[r].todo)
           D == work[nite.date]
<1>1. /\ Run = {r} /\ run[r].pc = "verify" /\ run[r].pc \in Inside /\ day' = day /\ nite.date \in Date
      /\ run[r].date = nite.date /\ run[r].todo \in SUBSET File
  <2>1. Run = {r} /\ run[r].pc = "verify" /\ run[r].pc \in Inside /\ day' = day
    BY Alone DEF VerifyFile, At, Inside
  <2> QED
    BY <2>1, Within DEF RunType
<1>2. \/ Ends(r)
      \/ work' = work /\ run'[r].pc = "next"
      \/ work' = work /\ run'[r].pc = "verify"
      \/ /\ f \in run[r].todo /\ Contents(D.W[f]) \cap damaged # {}
         /\ run'[r].pc = "mvbad" /\ run'[r].todo = run[r].todo /\ run'[r].date = run[r].date
         /\ OtherDirs /\ work'[nite.date].W = D.W /\ work'[nite.date].edited # None
  BY VerifyFileViews, FileFacts
<1>3. CASE Ends(r)
  BY <1>1, <1>3, EndNumbers DEF Ends
<1>4. CASE work' = work /\ run'[r].pc \in {"next", "verify"}
  BY <1>1, <1>4, NumbersFrame
<1>5. CASE /\ f \in run[r].todo /\ Contents(D.W[f]) \cap damaged # {}
           /\ run'[r].pc = "mvbad" /\ run'[r].todo = run[r].todo /\ run'[r].date = run[r].date
           /\ OtherDirs /\ work'[nite.date].W = D.W /\ work'[nite.date].edited # None
  <2>1. D.W[f] # None
    BY <1>5, FileFacts
  <2>2. ~Moving /\ ~Moving' /\ \A g : ~Given(g) /\ ~Given(g)'
    BY <1>1, <1>5 DEF Moving, Given
  <2>3. DayNumbers'
    BY <1>1, <1>5, <2>2 DEF Numbers, DayNumbers
  <2>4. \A d \in Date : work'[d].made => work[d].made /\ work'[d].W = work[d].W
    BY <1>1, <1>5, Within DEF OtherDirs
  <2>5. WorkNumbers'
    BY <2>2, <2>4 DEF Numbers, WorkNumbers, Gapless
  <2>6. Fresh'
    BY <1>1, <1>5, <2>1 DEF Fresh, Dir
  <2> QED
    BY <2>3, <2>5, <2>6 DEF Numbers
<1> QED
  BY <1>2, <1>3, <1>4, <1>5

LEMMA MvBadNumbers ==
  ASSUME Orderly, Control, Numbers, NEW r \in Run, MvBad(r)
  PROVE  Numbers'
<1> DEFINE f == Min(run[r].todo)
           D == work[nite.date]
<1>1. Run = {r} /\ run[r].pc = "mvbad" /\ run[r].pc \in Inside /\ day' = day
  BY Alone DEF MvBad, At, Inside
<1>2. /\ run[r].date = nite.date /\ nite.date \in Date /\ Dir(r) = D /\ D.made
      /\ f \in File /\ run'[r].pc = "mvgood" /\ run'[r].todo = run[r].todo /\ run'[r].date = run[r].date
      /\ OtherDirs /\ work'[nite.date].edited = D.edited
      /\ work'[nite.date].W[f] = None /\ \A g \in File : g # f => work'[nite.date].W[g] = D.W[g]
  BY <1>1, MvBadViews, Within
<1>3. D.W[f] # None /\ D.edited # None
  BY <1>1, <1>2 DEF Numbers, Fresh
<1>4. ~Moving /\ ~Moving' /\ (\A g : ~Given(g)) /\ \A g : Given(g)' <=> g = f
  BY <1>1, <1>2 DEF Moving, Given
<1>5. DayNumbers'
  BY <1>1, <1>2, <1>4 DEF Numbers, DayNumbers
<1>6. WorkNumbers'
  <2>1. \A d \in Date : work[d].made => d = nite.date
    BY DEF Control, OneNight
  <2>2. \A g \in File : (work'[nite.date].W[g] # None \/ Given(g)') <=> (D.W[g] # None \/ Given(g))
    BY <1>2, <1>3, <1>4
  <2>3. Gapless({g \in File : D.W[g] # None \/ Given(g)})
    BY <1>2, <1>4 DEF Numbers, WorkNumbers
  <2>4. {g \in File : work'[nite.date].W[g] # None \/ Given(g)'} = {g \in File : D.W[g] # None \/ Given(g)}
    BY <2>2
  <2>5. \A d \in Date : work'[d].made => d = nite.date
    BY <1>2, <2>1 DEF OtherDirs
  <2> HIDE DEF D, f
  <2> QED
    BY <1>4, <2>3, <2>4, <2>5, Zenon DEF WorkNumbers
<1>7. Fresh'
  BY <1>1, <1>2, <1>3 DEF Fresh, Dir
<1> QED
  BY <1>5, <1>6, <1>7 DEF Numbers

LEMMA MvGoodNumbers ==
  ASSUME Orderly, Control, Numbers, NEW r \in Run, MvGood(r)
  PROVE  Numbers'
<1> DEFINE f == Min(run[r].todo)
           D == work[nite.date]
<1>1. Run = {r} /\ run[r].pc = "mvgood" /\ run[r].pc \in Inside /\ day' = day
  BY Alone DEF MvGood, At, Inside
<1>2. /\ run[r].date = nite.date /\ nite.date \in Date /\ Dir(r) = D /\ D.made
      /\ f \in File /\ run'[r].pc = "verify"
      /\ OtherDirs
      /\ work'[nite.date].W[f] = D.edited /\ \A g \in File : g # f => work'[nite.date].W[g] = D.W[g]
  BY <1>1, MvGoodViews, Within
<1>3. D.edited # None
  BY <1>1, <1>2 DEF Numbers, Fresh
<1>4. ~Moving /\ ~Moving' /\ (\A g : ~Given(g)') /\ \A g : Given(g) <=> g = f
  BY <1>1, <1>2 DEF Moving, Given
<1>5. DayNumbers'
  BY <1>1, <1>2, <1>4 DEF Numbers, DayNumbers
<1>6. WorkNumbers'
  <2>1. \A d \in Date : work[d].made => d = nite.date
    BY DEF Control, OneNight
  <2>2. \A g \in File : (work'[nite.date].W[g] # None \/ Given(g)') <=> (D.W[g] # None \/ Given(g))
    BY <1>2, <1>3, <1>4
  <2>3. Gapless({g \in File : D.W[g] # None \/ Given(g)})
    BY <1>2, <1>4 DEF Numbers, WorkNumbers
  <2>4. {g \in File : work'[nite.date].W[g] # None \/ Given(g)'} = {g \in File : D.W[g] # None \/ Given(g)}
    BY <2>2
  <2>5. \A d \in Date : work'[d].made => d = nite.date
    BY <1>2, <2>1 DEF OtherDirs
  <2> HIDE DEF D, f
  <2> QED
    BY <1>4, <2>3, <2>4, <2>5, Zenon DEF WorkNumbers
<1>7. Fresh'
  BY <1>1, <1>2 DEF Fresh
<1> QED
  BY <1>5, <1>6, <1>7 DEF Numbers

(* The commands that make or remove a file that has no number.             *)
LEMMA UnnumberedNumbers ==
  ASSUME Orderly, Control, Numbers, NEW r \in Run,
         Build(r) \/ Recycle(r) \/ MvRecycled(r) \/ RemoveWork(r)
  PROVE  Numbers'
<1>1. run[r].pc \in Inside /\ run[r].pc \notin {"mv", "mvgood"}
  BY DEF Build, Recycle, MvRecycled, RemoveWork, In, At, Inside
<1>2. work[nite.date].made /\ nite.date \in Date
  BY <1>1, Within
<1>3. CASE Build(r)
  <2>1. day' = day
    BY <1>3 DEF Build
  <2>2. \/ Ends(r)
        \/ run'[r].pc = "next" /\ OtherDirs /\ work'[nite.date].W = work[nite.date].W
    BY <1>3, BuildViews
  <2>3. CASE Ends(r)
    BY <1>1, <2>1, <2>3, EndNumbers DEF Ends
  <2>4. CASE run'[r].pc = "next" /\ OtherDirs /\ work'[nite.date].W = work[nite.date].W
    BY <1>1, <1>2, <2>1, <2>4, NumbersFrame DEF OtherDirs
  <2> QED
    BY <2>2, <2>3, <2>4
<1>4. CASE Recycle(r)
  BY <1>1, <1>2, <1>4, RecycleViews, NumbersFrame DEF OtherDirs, Recycle
<1>5. CASE MvRecycled(r)
  <2>1. /\ run'[r].pc = "reports" /\ \A g \in File : g > 0 => day'[g] = day[g]
        /\ \A d \in Date : work'[d].made => work[d].made /\ work'[d].W = work[d].W
    BY <1>2, <1>5, MvRecycledViews DEF OtherDirs, File
  <2> QED
    BY <1>1, <2>1, NumbersFrame
<1>6. CASE RemoveWork(r)
  <2>1. run'[r].pc = "unlock" /\ day' = day /\ \A d \in Date : work'[d].made => work'[d] = work[d]
    BY <1>6, RemoveWorkViews, DirFacts DEF RemoveWork
  <2> QED
    BY <1>1, <2>1, NumbersFrame
<1> QED
  BY <1>3, <1>4, <1>5, <1>6

LEMMA InitNumbers == Init => Numbers
<1> SUFFICES ASSUME Init PROVE Numbers
  OBVIOUS
<1>1. /\ \A r \in Run : run[r].pc = "off"
      /\ \A f \in File : day[f] = None
      /\ \A d \in Date : ~work[d].made
  BY DirFacts DEF Init, Off
<1>2. ~Moving
  BY <1>1 DEF Moving
<1> QED
  BY <1>1, <1>2 DEF Numbers, DayNumbers, WorkNumbers, Fresh

LEMMA NextNumbers == Orderly /\ Control /\ Numbers /\ [Next]_vars => Numbers'
<1> SUFFICES ASSUME Orderly, Control, Numbers, [Next]_vars PROVE Numbers'
  OBVIOUS
<1>1. CASE UNCHANGED vars
  BY <1>1, OtherNumbers DEF vars, nights
<1>2. CASE Unlock \/ (\E rec \in Rec : CsadWrites(rec)) \/ PeriodStart \/ PeriodList \/ PeriodAdd \/ PeriodRemove
  <2>1. run' = run /\ day' = day /\ work' = work
    BY <1>2, Zenon DEF Unlock, CsadWrites, PeriodStart, PeriodList, PeriodAdd, PeriodRemove, nights
  <2>2. nite' = nite \/ nite' = [nite EXCEPT !.lock = FALSE]
    BY <1>2, Zenon DEF Unlock, CsadWrites, PeriodStart, PeriodList, PeriodAdd, PeriodRemove, nights
  <2> QED
    BY <2>1, <2>2, NiteFacts, OtherNumbers
<1>3. ASSUME NEW r \in Run, Invoke(r) \/ Crash(r) PROVE Numbers'
  BY <1>3, StartNumbers
<1>4. ASSUME NEW r \in Run, Step(r) PROVE Numbers'
  BY <1>4, StartNumbers, MakeDirNumbers, RestartNumbers, AdvanceNumbers, SetupNumbers, LsNumbers, MvNumbers,
     ReadNumbers, VerifyFileNumbers, MvBadNumbers, MvGoodNumbers, UnnumberedNumbers DEF Step
<1> QED
  BY <1>1, <1>2, <1>3, <1>4, SwitchNumbers DEF Next

(***************************************************************************)
(* What is in a file was written                                           *)
(***************************************************************************)
(* The records of a directory, when one file of it changes.                *)
LEMMA AllOfChange ==
  ASSUME NEW V, NEW W, NEW f \in File, \A g \in File : g # f => V[g] = W[g]
  PROVE  /\ AllOf(V) \subseteq AllOf(W) \cup Contents(V[f]) /\ Contents(V[f]) \subseteq AllOf(V)
         /\ AllOf(W) \subseteq AllOf(V) \cup Contents(W[f]) /\ Contents(W[f]) \subseteq AllOf(W)
BY DEF AllOf

LEMMA AllOfSame ==
  ASSUME NEW V, NEW W, \A g \in File : V[g] = W[g]
  PROVE  AllOf(V) = AllOf(W)
BY DEF AllOf

LEMMA AllOfNone ==
  ASSUME NEW V, \A g \in File : V[g] = None
  PROVE  AllOf(V) = {}
BY FileFacts DEF AllOf

LEMMA EmptyIn ==
  \A D \in {EmptyDir, NoDir} :
    /\ AllOf(D.W) = {} /\ AllOf(D.bad) = {} /\ Contents(D.edited) = {} /\ Contents(D.spacct) = {}
    /\ Contents(D.recycled) = {} /\ InDir(D) = {}
<1> SUFFICES ASSUME NEW D \in {EmptyDir, NoDir}
             PROVE  /\ AllOf(D.W) = {} /\ AllOf(D.bad) = {} /\ Contents(D.edited) = {} /\ Contents(D.spacct) = {}
                    /\ Contents(D.recycled) = {} /\ InDir(D) = {}
  OBVIOUS
<1>1. AllOf(D.W) = {} /\ AllOf(D.bad) = {}
  BY DirFacts, AllOfNone
<1>2. Contents(D.edited) = {} /\ Contents(D.spacct) = {} /\ Contents(D.recycled) = {}
  BY DirFacts, FileFacts
<1> QED
  BY <1>1, <1>2 DEF InDir

(* A step that neither writes nor damages a record: only the files of its  *)
(* night and of the day change.                                            *)
LEMMA WrittenFrame ==
  ASSUME OfWritten, written' = written, damaged' = damaged, pacct' \subseteq written, AllDay' \subseteq written,
         aside' \subseteq damaged,
         \A d \in Date : \/ work'[d] = work[d]
                         \/ InDir(work'[d]) \cup Contents(work'[d].spacct) \subseteq written,
         \A d \in Date : Contents(sum'[d]) \subseteq written
  PROVE  OfWritten'
BY DEF OfWritten

LEMMA DayFrame == ASSUME day' = day PROVE AllDay' = AllDay
BY DEF AllDay

LEMMA PutAsideWritten ==
  ASSUME RestType, PutAside
  PROVE  AllDay' = AllDay \cup pacct /\ pacct' = {} /\ day'[0] = day[0]
<1>1. PICK f \in File : /\ f > 0 /\ day[f] = None
                        /\ day'[f] = Holding(pacct) /\ \A g \in File : g # f => day'[g] = day[g]
  BY PutAsideFacts
<1>2. Contents(day'[f]) = pacct /\ Contents(day[f]) = {}
  BY <1>1, FileFacts
<1>3. AllDay' = AllDay \cup pacct
  BY <1>1, <1>2, AllOfChange DEF AllDay
<1>4. 0 \in File /\ 0 # f
  BY <1>1, CsarunAssumption DEF File
<1> QED
  BY <1>1, <1>3, <1>4, PutAsideFacts

LEMMA CsadWritten ==
  ASSUME Control, OfWritten, NEW rec \in Rec, CsadWrites(rec)
  PROVE  OfWritten'
<1>1. /\ written' = written \cup {rec} /\ pacct' = pacct \cup {rec} /\ damaged' \subseteq damaged \cup {rec}
      /\ damaged \subseteq damaged' /\ day' = day /\ work' = work /\ sum' = sum /\ aside' = aside
  BY DEF CsadWrites
<1> QED
  BY <1>1 DEF OfWritten, AllDay

LEMMA MvWritten ==
  ASSUME Orderly, Control, Numbers, OfWritten, NEW r \in Run, Mv(r)
  PROVE  OfWritten'
<1> DEFINE D == work[nite.date]
           E == work'[nite.date]
<1>1. /\ written' = written /\ damaged' = damaged /\ pacct' = pacct /\ aside' = aside /\ sum' = sum
      /\ run[r].pc \in Inside
  BY DEF Mv, history, At, Inside
<1>2. nite.date \in Date
  BY <1>1, Within
<1>3. \/ day' = day /\ work' = work
      \/ \E f \in File :
           /\ day'[f] = None /\ \A g \in File : g # f => day'[g] = day[g]
           /\ OtherDirs /\ E.W[f] = day[f] /\ \A g \in File : g # f => E.W[g] = D.W[g]
           /\ E.bad = D.bad /\ E.edited = D.edited /\ E.spacct = D.spacct /\ E.recycled = D.recycled
  BY MvViews
<1>4. CASE day' = day /\ work' = work
  BY <1>1, <1>4, DayFrame, WrittenFrame DEF OfWritten
<1>5. ASSUME NEW f \in File, day'[f] = None, \A g \in File : g # f => day'[g] = day[g],
             OtherDirs, E.W[f] = day[f], \A g \in File : g # f => E.W[g] = D.W[g],
             E.bad = D.bad, E.edited = D.edited, E.spacct = D.spacct, E.recycled = D.recycled
      PROVE  OfWritten'
  <2>1. AllOf(E.W) \subseteq AllOf(D.W) \cup AllDay /\ AllDay' \subseteq AllDay
    <3>1. AllOf(E.W) \subseteq AllOf(D.W) \cup Contents(day[f]) /\ Contents(day[f]) \subseteq AllDay
      <4> HIDE DEF D, E
      <4> QED
        BY <1>5, AllOfChange DEF AllDay
    <3>2. AllDay' \subseteq AllDay
      BY <1>5, AllOfChange, FileFacts DEF AllDay
    <3> QED
      BY <3>1, <3>2
  <2>2. InDir(E) \cup Contents(E.spacct) \subseteq written
    BY <1>2, <1>5, <2>1 DEF OfWritten, InDir
  <2>3. \A d \in Date : work'[d] = work[d] \/ InDir(work'[d]) \cup Contents(work'[d].spacct) \subseteq written
    BY <1>5, <2>2 DEF OtherDirs
  <2> QED
    BY <1>1, <2>1, <2>3, WrittenFrame DEF OfWritten
<1> QED
  BY <1>3, <1>4, <1>5

LEMMA VerifyWritten ==
  ASSUME Orderly, Control, OfWritten, NEW r \in Run, VerifyFile(r) \/ MvBad(r) \/ MvGood(r)
  PROVE  OfWritten'
<1> DEFINE D == work[nite.date]
           E == work'[nite.date]
           f == Min(run[r].todo)
<1>1. /\ written' = written /\ damaged' = damaged /\ pacct' = pacct /\ day' = day /\ sum' = sum
      /\ run[r].pc \in Inside
  BY DEF VerifyFile, MvBad, MvGood, history, At, Inside
<1>2. nite.date \in Date /\ run[r].todo \in SUBSET File
  BY <1>1, Within DEF RunType
<1>3. CASE VerifyFile(r)
  <2>1. \/ work' = work
        \/ /\ f \in File /\ OtherDirs /\ E.W = D.W /\ E.bad = D.bad /\ E.spacct = D.spacct /\ E.recycled = D.recycled
           /\ E.edited = Holding(Contents(D.W[f]) \ damaged)
    BY <1>2, <1>3, VerifyFileViews DEF Ends
  <2>2. ASSUME f \in File, E.W = D.W, E.bad = D.bad, E.spacct = D.spacct, E.recycled = D.recycled,
               E.edited = Holding(Contents(D.W[f]) \ damaged)
        PROVE  InDir(E) \cup Contents(E.spacct) \subseteq written
    <3>1. Contents(D.W[f]) \subseteq AllOf(D.W) /\ Contents(E.edited) = Contents(D.W[f]) \ damaged
      BY <2>2, FileFacts DEF AllOf
    <3> HIDE DEF f
    <3> QED
      BY <1>2, <2>2, <3>1 DEF OfWritten, InDir
  <2>3. \A d \in Date : work'[d] = work[d] \/ InDir(work'[d]) \cup Contents(work'[d].spacct) \subseteq written
    BY <2>1, <2>2 DEF OtherDirs
  <2>4. aside' = aside
    BY <1>3 DEF VerifyFile, history
  <2> QED
    BY <1>1, <2>3, <2>4, DayFrame, WrittenFrame DEF OfWritten
<1>4. CASE MvBad(r)
  <2>1. /\ f \in File /\ OtherDirs /\ E.edited = D.edited /\ E.spacct = D.spacct /\ E.recycled = D.recycled
        /\ E.W[f] = None /\ \A g \in File : g # f => E.W[g] = D.W[g]
        /\ E.bad[f] = D.W[f] /\ \A g \in File : g # f => E.bad[g] = D.bad[g]
    BY <1>4, MvBadViews
  <2>2. AllOf(E.W) \subseteq AllOf(D.W) /\ AllOf(E.bad) \subseteq AllOf(D.bad) \cup AllOf(D.W)
    <3>1. Contents(E.W[f]) = {} /\ Contents(D.W[f]) \subseteq AllOf(D.W)
      BY <2>1, FileFacts DEF AllOf
    <3> HIDE DEF D, E, f
    <3>2. AllOf(E.W) \subseteq AllOf(D.W) \cup Contents(E.W[f]) /\ AllOf(E.bad) \subseteq AllOf(D.bad) \cup Contents(E.bad[f])
      BY <2>1, AllOfChange
    <3> QED
      BY <2>1, <3>1, <3>2
  <2>3. InDir(E) \cup Contents(E.spacct) \subseteq written
    <3> HIDE DEF f
    <3> QED
      BY <1>2, <2>1, <2>2 DEF OfWritten, InDir
  <2>4. \A d \in Date : work'[d] = work[d] \/ InDir(work'[d]) \cup Contents(work'[d].spacct) \subseteq written
    BY <2>1, <2>3 DEF OtherDirs
  <2>5. aside' = aside
    BY <1>4 DEF MvBad, history
  <2> QED
    BY <1>1, <2>4, <2>5, DayFrame, WrittenFrame DEF OfWritten
<1>5. CASE MvGood(r)
  <2>1. /\ f \in File /\ OtherDirs /\ E.bad = D.bad /\ E.edited = None /\ E.spacct = D.spacct /\ E.recycled = D.recycled
        /\ E.W[f] = D.edited /\ \A g \in File : g # f => E.W[g] = D.W[g]
        /\ aside' = aside \cup (AllOf(D.bad) \cap damaged)
    BY <1>5, MvGoodViews
  <2>2. AllOf(E.W) \subseteq AllOf(D.W) \cup Contents(D.edited)
    <3> HIDE DEF D, E, f
    <3>1. AllOf(E.W) \subseteq AllOf(D.W) \cup Contents(E.W[f])
      BY <2>1, AllOfChange
    <3> QED
      BY <2>1, <3>1
  <2>3. InDir(E) \cup Contents(E.spacct) \subseteq written
    <3> HIDE DEF f
    <3> QED
      BY <1>2, <2>1, <2>2, FileFacts DEF OfWritten, InDir
  <2>4. \A d \in Date : work'[d] = work[d] \/ InDir(work'[d]) \cup Contents(work'[d].spacct) \subseteq written
    BY <2>1, <2>3 DEF OtherDirs
  <2>5. aside' \subseteq damaged
    BY <2>1 DEF OfWritten
  <2> QED
    BY <1>1, <2>4, <2>5, DayFrame, WrittenFrame DEF OfWritten
<1> QED
  BY <1>3, <1>4, <1>5

LEMMA ReportWritten ==
  ASSUME Orderly, Control, OfWritten, NEW r \in Run, Build(r) \/ Report(r) \/ Recycle(r) \/ MvRecycled(r) \/ RemoveWork(r)
  PROVE  OfWritten'
<1> DEFINE D == work[nite.date]
           E == work'[nite.date]
<1>1. /\ written' = written /\ damaged' = damaged /\ pacct' = pacct /\ aside' = aside
      /\ run[r].pc \in Inside
  BY DEF Build, Report, Recycle, MvRecycled, RemoveWork, In, history, At, Inside
<1>2. nite.date \in Date
  BY <1>1, Within
<1>3. CASE Build(r)
  <2>1. day' = day /\ sum' = sum
    BY <1>3 DEF Build
  <2>2. \/ work' = work
        \/ /\ OtherDirs /\ E.W = D.W /\ E.bad = D.bad /\ E.edited = D.edited /\ E.recycled = D.recycled
           /\ Contents(E.spacct) = UNION {Contents(D.W[f]) : f \in Reached(D.W)}
    BY <1>3, BuildViews, FileFacts DEF Ends
  <2>3. UNION {Contents(D.W[f]) : f \in Reached(D.W)} \subseteq AllOf(D.W)
    BY DEF AllOf, Reached
  <2>4. ASSUME E.W = D.W, E.bad = D.bad, E.edited = D.edited, E.recycled = D.recycled, Contents(E.spacct) \subseteq AllOf(D.W)
        PROVE  InDir(E) \cup Contents(E.spacct) \subseteq written
    BY <1>2, <2>4 DEF OfWritten, InDir
  <2>5. \A d \in Date : work'[d] = work[d] \/ InDir(work'[d]) \cup Contents(work'[d].spacct) \subseteq written
    BY <2>2, <2>3, <2>4 DEF OtherDirs
  <2> QED
    BY <1>1, <2>1, <2>5, DayFrame, WrittenFrame DEF OfWritten
<1>4. CASE Report(r)
  <2>1. day' = day /\ work' = work
    BY <1>4, ReportViews DEF Report
  <2>2. /\ \A d \in Date : d # nite.date => sum'[d] = sum[d]
        /\ Contents(sum'[nite.date]) \subseteq Contents(D.spacct)
    BY <1>4, ReportViews DEF Ended
  <2>3. \A d \in Date : Contents(sum'[d]) \subseteq written
    BY <1>2, <2>2 DEF OfWritten
  <2> QED
    BY <1>1, <2>1, <2>3, DayFrame, WrittenFrame DEF OfWritten
<1>5. CASE Recycle(r)
  <2>1. day' = day /\ sum' = sum
    BY <1>5 DEF Recycle
  <2>2. /\ OtherDirs /\ E.W = D.W /\ E.bad = D.bad /\ E.edited = D.edited /\ E.spacct = D.spacct
        /\ Contents(E.recycled) \subseteq Contents(D.spacct)
    BY <1>5, RecycleViews, FileFacts DEF NotEnded
  <2>3. InDir(E) \cup Contents(E.spacct) \subseteq written
    BY <1>2, <2>2 DEF OfWritten, InDir
  <2>4. \A d \in Date : work'[d] = work[d] \/ InDir(work'[d]) \cup Contents(work'[d].spacct) \subseteq written
    BY <2>2, <2>3 DEF OtherDirs
  <2> QED
    BY <1>1, <2>1, <2>4, DayFrame, WrittenFrame DEF OfWritten
<1>6. CASE MvRecycled(r)
  <2>1. sum' = sum
    BY <1>6 DEF MvRecycled
  <2>2. \/ work' = work /\ day' = day
        \/ /\ OtherDirs /\ E.W = D.W /\ E.bad = D.bad /\ E.edited = D.edited /\ E.spacct = D.spacct /\ E.recycled = None
           /\ day'[0] = D.recycled /\ \A g \in File : g # 0 => day'[g] = day[g]
    BY <1>6, MvRecycledViews
  <2>3. Contents(D.recycled) \subseteq written
    BY <1>2 DEF OfWritten, InDir
  <2>4. AllDay' \subseteq written
    <3>1. CASE day' = day
      BY <3>1, DayFrame DEF OfWritten
    <3>2. CASE day'[0] = D.recycled /\ \A g \in File : g # 0 => day'[g] = day[g]
      <4>1. 0 \in File
        BY CsarunAssumption DEF File
      <4>2. AllOf(day') \subseteq AllOf(day) \cup Contents(day'[0])
        BY <3>2, <4>1, AllOfChange
      <4> QED
        BY <2>3, <3>2, <4>2 DEF AllDay, OfWritten
    <3> QED
      BY <2>2, <3>1, <3>2
  <2>5. ASSUME E.W = D.W, E.bad = D.bad, E.edited = D.edited, E.spacct = D.spacct, E.recycled = None
        PROVE  InDir(E) \cup Contents(E.spacct) \subseteq written
    BY <1>2, <2>5, FileFacts DEF OfWritten, InDir
  <2>6. \A d \in Date : work'[d] = work[d] \/ InDir(work'[d]) \cup Contents(work'[d].spacct) \subseteq written
    BY <2>2, <2>5 DEF OtherDirs
  <2> QED
    BY <1>1, <2>1, <2>4, <2>6, WrittenFrame DEF OfWritten
<1>7. CASE RemoveWork(r)
  <2>1. day' = day /\ sum' = sum
    BY <1>7 DEF RemoveWork
  <2>2. \A d \in Date : work'[d] = work[d] \/ work'[d] = NoDir
    BY <1>7, RemoveWorkViews
  <2>3. \A d \in Date : work'[d] = work[d] \/ InDir(work'[d]) \cup Contents(work'[d].spacct) \subseteq written
    BY <2>2, EmptyIn
  <2> QED
    BY <1>1, <2>1, <2>3, DayFrame, WrittenFrame DEF OfWritten
<1> QED
  BY <1>3, <1>4, <1>5, <1>6, <1>7

LEMMA InitWritten == Init => OfWritten
<1> SUFFICES ASSUME Init PROVE OfWritten
  OBVIOUS
<1>1. AllDay = {}
  BY DirFacts, AllOfNone DEF Init, AllDay
<1>2. \A d \in Date : InDir(work[d]) = {} /\ Contents(work[d].spacct) = {} /\ Contents(sum[d]) = {}
  BY EmptyIn, FileFacts DEF Init
<1> QED
  BY <1>1, <1>2 DEF Init, OfWritten

LEMMA NextWritten == Orderly /\ Control /\ Numbers /\ OfWritten /\ [Next]_vars => OfWritten'
<1> SUFFICES ASSUME Orderly, Control, Numbers, OfWritten, [Next]_vars PROVE OfWritten'
  OBVIOUS
<1>1. ASSUME written' = written, damaged' = damaged, pacct' = pacct, day' = day, work' = work, aside' = aside,
             \A d \in Date : sum'[d] = sum[d] \/ sum'[d] = None
      PROVE  OfWritten'
  BY <1>1, DayFrame, WrittenFrame, FileFacts DEF OfWritten
<1>2. CASE UNCHANGED vars
  BY <1>1, <1>2 DEF vars, nights, history
<1>3. CASE Unlock \/ PeriodStart \/ PeriodList \/ PeriodAdd
  <2>1. UNCHANGED <<written, damaged, pacct, day, work, aside, sum>>
    BY <1>3, Zenon DEF Unlock, PeriodStart, PeriodList, PeriodAdd, nights, history
  <2> QED
    BY <1>1, <2>1
<1>4. CASE PeriodRemove
  <2>1. UNCHANGED <<written, damaged, pacct, day, work, aside>>
    BY <1>4, Zenon DEF PeriodRemove
  <2>2. \A d \in Date : sum'[d] = sum[d] \/ sum'[d] = None
    BY <1>4 DEF PeriodRemove
  <2> QED
    BY <1>1, <2>1, <2>2
<1>5. ASSUME NEW r \in Run,
             \/ Invoke(r) \/ Crash(r) \/ MakeLock(r) \/ Start(r) \/ WriteState(r) \/ Restart(r) \/ Advance(r) \/ Ls(r)
             \/ Verify(r) \/ ReadOnly(r) \/ Reports(r) \/ RemoveLock(r) \/ Complete(r)
      PROVE  OfWritten'
  <2>1. UNCHANGED <<written, damaged, pacct, day, work, aside, sum>>
    BY <1>5, Zenon DEF Invoke, Crash, MakeLock, Start, WriteState, Restart, Advance, Ls, Verify, ReadOnly, Reports,
       RemoveLock, Complete, nights, history
  <2> QED
    BY <1>1, <2>1
<1>6. ASSUME NEW r \in Run, MakeDir(r) PROVE OfWritten'
  <2>1. UNCHANGED <<written, damaged, pacct, day, aside, sum>>
    BY <1>6, Zenon DEF MakeDir, history
  <2>2. \A d \in Date : work'[d] = work[d] \/ work'[d] = EmptyDir
    BY <1>6 DEF MakeDir, Control, CsarunTypeOK
  <2>3. \A d \in Date : work'[d] = work[d] \/ InDir(work'[d]) \cup Contents(work'[d].spacct) \subseteq written
    BY <2>2, EmptyIn
  <2> QED
    BY <2>1, <2>3, DayFrame, WrittenFrame DEF OfWritten
<1>7. ASSUME PutAside, UNCHANGED <<work, sum, damaged, written, aside>> PROVE OfWritten'
  BY <1>7, PutAsideWritten, NiteFacts, WrittenFrame DEF OfWritten
<1>8. CASE Switch
  BY <1>7, <1>8 DEF Switch, history
<1>9. ASSUME NEW r \in Run, Setup(r) PROVE OfWritten'
  <2>1. UNCHANGED <<work, sum, damaged, written, aside>> /\ (PutAside \/ UNCHANGED <<pacct, day>>)
    BY <1>9, Zenon DEF Setup, history
  <2> QED
    BY <1>1, <1>7, <2>1
<1>10. ASSUME NEW r \in Run, Step(r) PROVE OfWritten'
  BY <1>5, <1>6, <1>9, <1>10, MvWritten, VerifyWritten, ReportWritten DEF Step
<1> QED
  BY <1>2, <1>3, <1>4, <1>5, <1>8, <1>10, CsadWritten DEF Next

(***************************************************************************)
(* The files of a night                                                    *)
(***************************************************************************)
LEMMA NoNight == ASSUME \A d \in Date : ~work'[d].made PROVE Nightly'
BY DEF Nightly

LEMMA DoneFacts ==
  ASSUME Orderly, NEW r \in Run
  PROVE  /\ \A s : Done(s) <=> run[r].pc = "next" /\ run[r].at = s
         /\ \A s : Done(s)' <=> run'[r].pc = "next" /\ run'[r].at = s
BY Alone DEF Done

(* The files of the night are as they were, and the run is not at one of   *)
(* the commands that VERIFY and REPORT do one by one.                      *)
LEMMA NightlyFrame ==
  ASSUME Orderly, Nightly, NEW r \in Run,
         \A d \in Date : work'[d].made => work'[d] = work[d] /\ Contents(sum'[d]) = Contents(sum[d]),
         day'[0] = day[0], damaged' = damaged, aside' = aside, asked' = asked,
         run[r].pc # "mvgood", run'[r].pc \notin {"verify", "mvbad", "mvgood", "recy", "mvrecycled"},
         nite'.state \in PastVerify \/ Done("VERIFY")' => nite.state \in PastVerify \/ Done("VERIFY"),
         nite'.state \in PastBuild \/ Done("BUILD")' => nite.state \in PastBuild \/ Done("BUILD")
  PROVE  Nightly'
<1> SUFFICES ASSUME NEW d \in Date, work'[d].made
             PROVE  ((Verified(d) => Whole(d)) /\ Editing(d) /\ Edited(d) /\ Sorted(d))'
  BY DEF Nightly
<1>1. /\ Run = {r} /\ work'[d] = work[d] /\ Contents(sum'[d]) = Contents(sum[d])
      /\ (Verified(d) => Whole(d)) /\ Edited(d) /\ Sorted(d)
  BY Alone DEF Nightly
<1>2. Recycled(d)' <=> Recycled(d)
  BY <1>1 DEF Recycled
<1>3. Verified(d)' => Verified(d)
  BY <1>1, <1>2 DEF Verified
<1>4. Whole(d)' <=> Whole(d)
  BY <1>1 DEF Whole
<1>5. Editing(d)'
  BY <1>1 DEF Editing
<1>6. Edited(d)'
  BY <1>1 DEF Edited
<1>7. Sorted(d)'
  BY <1>1, <1>2 DEF Sorted
<1> QED
  BY <1>1, <1>3, <1>4, <1>5, <1>6, <1>7

(* csaswitch, the administrator and csaperiod.                             *)
LEMMA NightlyOther ==
  ASSUME Nightly, run' = run, nite'.state = nite.state, work' = work, day'[0] = day[0], damaged' = damaged,
         aside' = aside, asked' = asked,
         \A d \in Date : work[d].made => Contents(sum'[d]) = Contents(sum[d])
  PROVE  Nightly'
<1> SUFFICES ASSUME NEW d \in Date, work[d].made
             PROVE  ((Verified(d) => Whole(d)) /\ Editing(d) /\ Edited(d) /\ Sorted(d))'
  BY DEF Nightly
<1>1. (Verified(d) => Whole(d)) /\ Editing(d) /\ Edited(d) /\ Sorted(d) /\ Contents(sum'[d]) = Contents(sum[d])
  BY DEF Nightly
<1>2. /\ Recycled(d)' <=> Recycled(d)
      /\ Whole(d)' <=> Whole(d)
      /\ \A s : Done(s)' <=> Done(s)
  BY DEF Recycled, Whole, Done
<1>3. Verified(d)' <=> Verified(d)
  BY <1>2 DEF Verified
<1>4. Editing(d)'
  BY <1>1, <1>2 DEF Editing
<1>5. Edited(d)'
  BY <1>1 DEF Edited
<1>6. Sorted(d)'
  BY <1>1, <1>2 DEF Sorted
<1> QED
  BY <1>1, <1>2, <1>3, <1>4, <1>5, <1>6

(* A record that is written now is in no file of the night, damaged or not. *)
LEMMA CsadNightly ==
  ASSUME Orderly, Control, OfWritten, Nightly, NEW rec \in Rec, CsadWrites(rec)
  PROVE  Nightly'
<1> SUFFICES ASSUME NEW d \in Date, work[d].made
             PROVE  ((Verified(d) => Whole(d)) /\ Editing(d) /\ Edited(d) /\ Sorted(d))'
  BY DEF Nightly, CsadWrites
<1>1. /\ (Verified(d) => Whole(d)) /\ Editing(d) /\ Edited(d) /\ Sorted(d)
      /\ UNCHANGED <<nite, day, work, sum, run, aside, asked>>
      /\ damaged \subseteq damaged' /\ damaged' \subseteq damaged \cup {rec}
  BY DEF Nightly, CsadWrites
<1>2. \A f \in File : rec \notin Contents(work[d].W[f]) /\ rec \notin Contents(work[d].bad[f])
  BY DEF OfWritten, CsadWrites, InDir, AllOf
<1>3. /\ Recycled(d)' <=> Recycled(d)
      /\ \A s : Done(s)' <=> Done(s)
  BY <1>1 DEF Recycled, Done
<1>4. Whole(d)' <=> Whole(d)
  BY <1>1, <1>2 DEF Whole, AllOf
<1>5. Verified(d)' <=> Verified(d)
  BY <1>1, <1>3 DEF Verified
<1>6. Editing(d)'
  <2> SUFFICES ASSUME NEW r \in Run
               PROVE  LET f == Min(run[r].todo)
                      IN /\ run[r].pc \in {"verify", "mvbad", "mvgood"} =>
                              \A g \in File \ run[r].todo : Contents(work[d].W[g]) \cap damaged' = {}
                         /\ run[r].pc \in {"mvbad", "mvgood"} => work[d].spacct = None /\ ~Recycled(d)
                         /\ run[r].pc = "mvbad" => /\ Contents(work[d].W[f]) \cap damaged' # {}
                                                   /\ work[d].edited = Holding(Contents(work[d].W[f]) \ damaged')
                         /\ run[r].pc = "mvgood" => /\ work[d].W[f] = None /\ day[0] = None
                                                    /\ work[d].edited = Holding(Contents(work[d].bad[f]) \ damaged')
                                                    /\ AllOf(work[d].bad) \subseteq aside \cup damaged' \cup AllOf(work[d].W) \cup Contents(work[d].edited)
    BY <1>1, <1>3, Zenon DEF Editing
  <2> DEFINE f == Min(run[r].todo)
  <2>1. /\ run[r].pc \in {"verify", "mvbad", "mvgood"} =>
              \A g \in File \ run[r].todo : Contents(work[d].W[g]) \cap damaged = {}
        /\ run[r].pc \in {"mvbad", "mvgood"} => work[d].spacct = None /\ ~Recycled(d)
        /\ run[r].pc = "mvbad" => /\ Contents(work[d].W[f]) \cap damaged # {}
                                  /\ work[d].edited = Holding(Contents(work[d].W[f]) \ damaged)
        /\ run[r].pc = "mvgood" => /\ work[d].W[f] = None /\ day[0] = None
                                   /\ work[d].edited = Holding(Contents(work[d].bad[f]) \ damaged)
                                   /\ AllOf(work[d].bad) \subseteq aside \cup damaged \cup AllOf(work[d].W) \cup Contents(work[d].edited)
    BY <1>1, Zenon DEF Editing
  <2> HIDE DEF f
  <2>2. \A g \in File : /\ Contents(work[d].W[g]) \cap damaged' = Contents(work[d].W[g]) \cap damaged
                        /\ Contents(work[d].W[g]) \ damaged' = Contents(work[d].W[g]) \ damaged
                        /\ Contents(work[d].bad[g]) \ damaged' = Contents(work[d].bad[g]) \ damaged
    BY <1>1, <1>2
  <2>3. AllOf(work[d].bad) \subseteq aside \cup damaged \cup AllOf(work[d].W) \cup Contents(work[d].edited)
         => AllOf(work[d].bad) \subseteq aside \cup damaged' \cup AllOf(work[d].W) \cup Contents(work[d].edited)
    BY <1>1
  <2>4. run[r].pc \in {"mvbad", "mvgood"} => f \in File
    <3> SUFFICES ASSUME run[r].pc \in {"mvbad", "mvgood"} PROVE f \in File
      OBVIOUS
    <3>1. run[r].todo # {} /\ run[r].todo \in SUBSET File
      BY Within DEF Inside, RunType
    <3> QED
      BY <3>1, MinExists DEF f
  <2> QED
    BY <2>1, <2>2, <2>3, <2>4 DEF f
<1>7. Edited(d)'
  BY <1>1 DEF Edited
<1>8. Sorted(d)'
  BY <1>1, <1>3 DEF Sorted
<1> QED
  BY <1>1, <1>4, <1>5, <1>6, <1>7, <1>8

LEMMA InvokeLocks ==
  ASSUME NEW r \in Run, Invoke(r), ~ErrorExit(r)
  PROVE  \E x : run' = [run EXCEPT ![r] = x] /\ x.pc = "lock"
<1>1. ASSUME NEW d \in Date, NEW arg \in {"cron", "restart"} \cup Named, NEW all \in BOOLEAN, NEW edit \in BOOLEAN
      PROVE  [Off EXCEPT !.pc = "lock", !.date = d, !.arg = arg, !.all = all, !.edit = edit].pc = "lock"
  BY DEF Off, RunType
<1>2. \/ ErrorExit(r)
      \/ \E d \in Date, arg \in {"cron", "restart"} \cup Named, all \in BOOLEAN, edit \in BOOLEAN :
           run' = [run EXCEPT ![r] = [Off EXCEPT !.pc = "lock", !.date = d, !.arg = arg, !.all = all, !.edit = edit]]
  BY Zenon DEF Invoke
<1>3. PICK d \in Date, arg \in {"cron", "restart"} \cup Named, all \in BOOLEAN, edit \in BOOLEAN :
         run' = [run EXCEPT ![r] = [Off EXCEPT !.pc = "lock", !.date = d, !.arg = arg, !.all = all, !.edit = edit]]
  BY <1>2
<1> DEFINE x == [Off EXCEPT !.pc = "lock", !.date = d, !.arg = arg, !.all = all, !.edit = edit]
<1>4. run' = [run EXCEPT ![r] = x] /\ x.pc = "lock"
  BY <1>1, <1>3
<1> HIDE DEF x
<1> QED
  BY <1>4

(* The start of a run, its end, and the commands that only read.           *)
LEMMA StartNightly ==
  ASSUME Orderly, Control, Control', Nightly, NEW r \in Run,
         \/ Invoke(r) \/ MakeLock(r) \/ Start(r) \/ WriteState(r) \/ MakeDir(r) \/ RemoveWork(r) \/ RemoveLock(r)
         \/ Complete(r) \/ Crash(r) \/ Ls(r) \/ Reports(r) \/ ReadOnly(r)
  PROVE  Nightly'
<1>1. CASE \E d \in Date : work'[d].made
  <2>1. PICK e \in Date : work'[e].made
    BY <1>1
  <2>2. e = nite'.date /\ nite'.state # "COMPLETE" /\ \A d \in Date : work'[d].made => d = e
    BY <2>1 DEF Control, OneNight
  <2>3. CASE MakeDir(r)
    <3>1. run[r].date = nite.date /\ nite.date \in Date /\ nite.state = "SETUP" /\ sum[nite.date] = None
      BY <2>3 DEF MakeDir, At, Control, RunAt
    <3>2. UNCHANGED <<nite, day, damaged, sum>> /\ work'[nite.date] = EmptyDir
      BY <2>3, <3>1 DEF MakeDir, Control, CsarunTypeOK
    <3>3. run'[r].pc = "loop" /\ Run = {r}
      BY <2>3, Alone DEF MakeDir, Goto, Control, CsarunTypeOK, RunType
    <3>4. /\ AllOf(work'[nite.date].W) = {} /\ AllOf(work'[nite.date].bad) = {} /\ Contents(work'[nite.date].edited) = {}
          /\ Contents(work'[nite.date].recycled) = {} /\ work'[nite.date].spacct = None
          /\ Contents(sum'[nite.date]) = {} /\ work'[nite.date].W[1] = None
      BY <3>1, <3>2, EmptyIn, DirFacts, FileFacts, CsarunAssumption DEF File
    <3>5. Whole(nite.date)' /\ Editing(nite.date)' /\ Edited(nite.date)'
      BY <3>2, <3>3, <3>4 DEF Whole, Editing, Edited
    <3>6. Sorted(nite.date)'
      BY <3>1, <3>2, <3>3, <3>4 DEF Sorted, Recycled, Done, PastBuild
    <3> QED
      BY <2>1, <2>2, <3>2, <3>5, <3>6 DEF Nightly
  <2>4. CASE RemoveWork(r)
    <3>1. run[r].pc \in Inside /\ nite' = nite
      BY <2>4 DEF RemoveWork, In, At, Inside
    <3>2. work'[nite.date] = NoDir
      BY <2>4, RemoveWorkViews
    <3> QED
      BY <2>1, <2>2, <3>1, <3>2, DirFacts
  <2>5. CASE ~MakeDir(r) /\ ~RemoveWork(r)
    <3>1. work' = work /\ sum' = sum /\ day' = day /\ damaged' = damaged /\ aside' = aside
      BY <2>5, Zenon DEF Invoke, MakeLock, Start, WriteState, RemoveLock, Complete, Crash, Ls, Reports, ReadOnly, nights, history
    <3>2. nite.state # "COMPLETE" /\ run[r].pc \notin {"state", "mkdir", "unlock", "complete"}
      BY <2>1, <3>1 DEF Control, OneNight, RunAt, Dir
    <3>3. asked' = asked
      <4>1. CASE Start(r)
        BY <3>2, <4>1, Zenon DEF Start
      <4> QED
        BY <2>5, <4>1, Zenon DEF Invoke, MakeLock, WriteState, RemoveLock, Complete, Crash, Ls, Reports, ReadOnly, nights, history
    <3>4. run[r].pc # "mvgood"
      <4>1. CASE Crash(r)
        BY <4>1 DEF Crash, At, Orderly
      <4> QED
        BY <2>5, <4>1 DEF Invoke, MakeLock, Start, WriteState, RemoveLock, Complete, Ls, Reports, ReadOnly, At
    <3>5. nite'.state = nite.state
      <4>1. nite' = nite \/ (\E b \in BOOLEAN : nite' = [nite EXCEPT !.lock = b])
        BY <2>5, <3>2 DEF Invoke, MakeLock, Start, WriteState, RemoveLock, Complete, Crash, Ls, Reports, ReadOnly, nights, ErrorExit, Fails, At
      <4> QED
        BY <4>1, NiteFacts
    <3>6. /\ run'[r].pc \in {"off", "lock", "args", "mv", "next"}
          /\ run'[r].pc = "next" => run'[r].at \notin {"VERIFY", "BUILD"}
      <4>1. CASE run' = [run EXCEPT ![r] = Off]
        BY <4>1, EndsFacts
      <4>2. CASE Invoke(r) /\ ~ErrorExit(r)
        <5>1. PICK x : run' = [run EXCEPT ![r] = x] /\ x.pc = "lock"
          BY <4>2, InvokeLocks
        <5> QED
          BY <5>1 DEF Control, CsarunTypeOK
      <4>3. ASSUME NEW pc \in {"args", "mv"}, Goto(r, pc) \/ (\E t : List(r, pc, t)) PROVE run'[r].pc = pc
        BY <4>3 DEF Goto, List, Control, CsarunTypeOK, RunType
      <4>4. ASSUME Reports(r), Goto(r, "next") PROVE run'[r].pc = "next" /\ run'[r].at = "REPORT"
        <5>1. run[r].pc = "reports" /\ run[r].pc \in Inside
          BY <4>4 DEF Reports, At, Inside
        <5>2. run[r].at = "REPORT" /\ run[r] \in RunType
          BY <5>1, Within DEF StatesAt
        <5> QED
          BY <4>4, <5>2 DEF Goto, Control, CsarunTypeOK, RunType
      <4>5. ASSUME ReadOnly(r), Begin(r, nite.state, "next") PROVE run'[r].pc = "next" /\ run'[r].at \notin {"VERIFY", "BUILD"}
        BY <4>5 DEF ReadOnly, Begin, Control, CsarunTypeOK, RunType
      <4>6. \/ run' = [run EXCEPT ![r] = Off]
            \/ Invoke(r) /\ ~ErrorExit(r)
            \/ \E pc \in {"args", "mv"} : Goto(r, pc) \/ \E t : List(r, pc, t)
            \/ Reports(r) /\ Goto(r, "next")
            \/ ReadOnly(r) /\ Begin(r, nite.state, "next")
        BY <2>5, <3>2 DEF Invoke, MakeLock, Start, WriteState, RemoveLock, Complete, Crash, Ls, Reports, ReadOnly,
           ErrorExit, Fails, List, At
      <4> QED
        BY <4>1, <4>2, <4>3, <4>4, <4>5, <4>6
    <3>7. /\ Done("VERIFY")' => Done("VERIFY")
          /\ Done("BUILD")' => Done("BUILD")
      BY <3>6, DoneFacts
    <3> QED
      BY <3>1, <3>3, <3>4, <3>5, <3>6, <3>7, NightlyFrame
  <2> QED
    BY <2>3, <2>4, <2>5
<1>2. CASE \A d \in Date : ~work'[d].made
  BY <1>2, NoNight
<1> QED
  BY <1>1, <1>2

(* A step inside a night: it is enough to look at that night.              *)
LEMMA InNightly ==
  ASSUME Orderly, Control, NEW r \in Run, run[r].pc \in Inside, nite' = nite, OtherDirs \/ work' = work,
         NEW d \in Date, d = nite.date, ((Verified(d) => Whole(d)) /\ Editing(d) /\ Edited(d) /\ Sorted(d))'
  PROVE  Nightly'
<1>1. \A e \in Date : work'[e].made => e = d
  BY DEF Control, OneNight, OtherDirs
<1> QED
  BY <1>1, Zenon DEF Nightly

LEMMA OthersNightly ==
  ASSUME Orderly, Control, Nightly, Switch \/ Unlock \/ PeriodStart \/ PeriodList \/ PeriodAdd \/ PeriodRemove
  PROVE  Nightly'
<1>1. /\ run' = run /\ work' = work /\ damaged' = damaged /\ aside' = aside /\ asked' = asked
      /\ nite' = nite \/ nite' = [nite EXCEPT !.lock = FALSE]
  BY Zenon DEF Switch, Unlock, PeriodStart, PeriodList, PeriodAdd, PeriodRemove, nights, history
<1>2. nite'.state = nite.state
  BY <1>1, NiteFacts
<1>3. day'[0] = day[0]
  <2>1. CASE Switch
    BY <2>1, NiteFacts, PutAsideWritten DEF Switch
  <2>2. CASE ~Switch
    BY <2>2, Zenon DEF Unlock, PeriodStart, PeriodList, PeriodAdd, PeriodRemove, nights
  <2> QED
    BY <2>1, <2>2
<1>4. \A d \in Date : work[d].made => sum'[d] = sum[d]
  <2>1. CASE PeriodRemove
    <3>1. \A d \in period.list : ~Open(d)
      BY <2>1 DEF PeriodRemove, Control, PeriodAt
    <3>2. \A d \in Date : work[d].made => Open(d)
      BY DEF Control, OneNight, Open
    <3> QED
      BY <2>1, <3>1, <3>2 DEF PeriodRemove
  <2>2. CASE ~PeriodRemove
    BY <2>2, Zenon DEF Switch, Unlock, PeriodStart, PeriodList, PeriodAdd, nights
  <2> QED
    BY <2>1, <2>2
<1> QED
  BY <1>1, <1>2, <1>3, <1>4, NightlyOther

LEMMA AdvanceNightly ==
  ASSUME Orderly, Control, Nightly, NEW r \in Run, Advance(r)
  PROVE  Nightly'
<1>1. /\ run[r].pc = "next" /\ run[r].pc \in Inside /\ day' = day /\ work' = work /\ sum' = sum /\ damaged' = damaged
      /\ aside' = aside /\ asked' = asked
  BY DEF Advance, At, Inside, history
<1>2. run[r].at \in State \ {"CLEANUP", "COMPLETE"} /\ nite.state = run[r].at
  BY <1>1, Within DEF StatesAt
<1>3. nite'.state = After(run[r].at)
  <2>1. After(run[r].at) \in State
    BY <1>2, AfterFacts DEF State
  <2> QED
    BY <2>1, NiteFacts DEF Advance
<1>4. run'[r].pc = "loop"
  BY DEF Advance, Control, CsarunTypeOK, RunType
<1>5. ~Done("VERIFY")' /\ ~Done("BUILD")' /\ (Done(run[r].at))
  BY <1>1, <1>4, DoneFacts
<1>6. /\ nite'.state \in PastVerify => nite.state \in PastVerify \/ Done("VERIFY")
      /\ nite'.state \in PastBuild => nite.state \in PastBuild \/ Done("BUILD")
  BY <1>2, <1>3, <1>5, AfterFacts DEF PastVerify, PastBuild, State
<1> QED
  BY <1>1, <1>4, <1>5, <1>6, NightlyFrame

LEMMA RestartNightly ==
  ASSUME Orderly, Control, Nightly, NEW r \in Run, Restart(r)
  PROVE  Nightly'
<1>1. /\ run[r].pc = "args" /\ day' = day /\ work' = work /\ sum' = sum /\ damaged' = damaged
      /\ aside' = aside /\ asked' = asked
  BY DEF Restart, At, history
<1> DEFINE state == IF run[r].arg # "restart" THEN run[r].arg ELSE nite.state
           again == state \in {"ARCHIVE2", "CMS", "REPORT", "DREP", "FEF"}
<1>2. /\ run[r].arg \in {"none", "cron", "restart"} \cup Named /\ run[r].arg # "none" /\ run[r].arg # "cron"
      /\ Named \subseteq {"SETUP", "VERIFY"} /\ nite.state \in State
  BY <1>1 DEF Restart, Control, CsarunTypeOK, RunType, RunAt, Orderly
<1>3. \/ run' = [run EXCEPT ![r] = Off] /\ nite'.state = state
      \/ /\ run' = [run EXCEPT ![r].pc = "loop", ![r].arg = "restart"]
         /\ Dir(r).made /\ nite'.state = IF again /\ Dir(r).spacct = None THEN "BUILD" ELSE state
  <2>1. state \in State /\ "BUILD" \in State
    BY <1>2 DEF State
  <2>2. \/ run' = [run EXCEPT ![r] = Off] /\ nite' = [nite EXCEPT !.lock = FALSE, !.state = state]
        \/ /\ run' = [run EXCEPT ![r].pc = "loop", ![r].arg = "restart"]
           /\ Dir(r).made /\ nite' = [nite EXCEPT !.state = IF again /\ Dir(r).spacct = None THEN "BUILD" ELSE state]
    BY DEF Restart
  <2> HIDE DEF state, again
  <2>3. nite \in NiteType
    BY NiteFacts
  <2> QED
    BY <2>1, <2>2, <2>3 DEF NiteType
<1>4. run'[r].pc \in {"off", "loop"}
  BY <1>3 DEF Control, CsarunTypeOK, RunType, Off
<1>5. nite.state \in PastBuild => \A d \in Date : work[d].made => work[d].spacct # None
  BY DEF Nightly, Sorted
<1>6. Dir(r).made => run[r].date \in Date
  BY <1>1 DEF Control, RunAt
<1>7. /\ nite'.state \in PastVerify => nite.state \in PastVerify
      /\ nite'.state \in PastBuild => nite.state \in PastBuild
  BY <1>2, <1>3 DEF PastVerify, PastBuild
<1>8. ~Done("VERIFY")' /\ ~Done("BUILD")'
  BY <1>4, DoneFacts
<1> QED
  BY <1>1, <1>4, <1>7, <1>8, NightlyFrame

LEMMA SetupNightly ==
  ASSUME Orderly, Control, Nightly, NEW r \in Run, Setup(r)
  PROVE  Nightly'
<1>1. /\ run[r].pc = "loop" /\ run[r].pc \in Inside /\ work' = work /\ sum' = sum /\ damaged' = damaged
      /\ aside' = aside /\ asked' = asked
  BY DEF Setup, In, At, Inside, history
<1>2. day'[0] = day[0]
  BY PutAsideWritten, NiteFacts DEF Setup
<1>3. nite'.state = nite.state
  BY NiteFacts DEF Setup, Fails, ErrorExit
<1>4. /\ run'[r].pc \in {"off", "next", "ls"} /\ (run'[r].pc = "next" => run'[r].at = "SETUP")
  BY EndsFacts DEF Setup, Fails, ErrorExit, Begin, Control, CsarunTypeOK, RunType
<1>5. ~Done("VERIFY")' /\ ~Done("BUILD")'
  BY <1>4, DoneFacts
<1> QED
  BY <1>1, <1>2, <1>3, <1>4, <1>5, NightlyFrame

LEMMA MvNightly ==
  ASSUME Orderly, Control, Control', Numbers, Nightly, NEW r \in Run, Mv(r)
  PROVE  Nightly'
<1>1. /\ run[r].pc = "mv" /\ run[r].pc \in Inside /\ sum' = sum /\ damaged' = damaged
      /\ aside' = aside /\ asked' = asked /\ Run = {r}
  BY Alone DEF Mv, At, Inside, history
<1>2. PICK d \in Date : d = nite.date
  BY <1>1, Within
<1>3. nite.state = "SETUP" /\ work[d].made
  BY <1>1, <1>2, Within DEF StatesAt
<1>4. /\ work[d].spacct = None /\ work[d].edited = None /\ work[d].recycled = None /\ AllOf(work[d].bad) = {}
  <2>1. work[d] = [EmptyDir EXCEPT !.W = work[d].W]
    BY <1>1, <1>2, Within DEF Numbers, Fresh
  <2>2. /\ work[d].spacct = EmptyDir.spacct /\ work[d].edited = EmptyDir.edited /\ work[d].recycled = EmptyDir.recycled
        /\ work[d].bad = EmptyDir.bad
    BY <2>1 DEF EmptyDir
  <2> QED
    BY <2>2, DirFacts, EmptyIn
<1>5. Contents(sum[d]) = {}
  BY <1>3, <1>4 DEF Nightly, Sorted
<1>6. \/ (\A g \in File : day[g] = None) /\ day' = day /\ work' = work /\ run'[r].pc = "next"
      \/ /\ day'[0] = None
         /\ run'[r].pc = "mv" /\ OtherDirs
         /\ work'[d].bad = work[d].bad /\ work'[d].edited = work[d].edited
         /\ work'[d].spacct = work[d].spacct /\ work'[d].recycled = work[d].recycled
  BY <1>2, MvViews, CsarunAssumption DEF File
<1>7. nite' = nite
  BY <1>6, EndsFacts DEF Mv, ErrorExit
<1>8. day'[0] = None /\ run'[r].pc \in {"next", "mv"}
  BY <1>6, CsarunAssumption DEF File
<1>9. OtherDirs \/ work' = work
  BY <1>6
<1>10. /\ work'[d].spacct = None /\ work'[d].edited = None /\ work'[d].recycled = None /\ AllOf(work'[d].bad) = {}
       /\ Contents(sum'[d]) = {}
  BY <1>1, <1>4, <1>5, <1>6
<1>11. run'[r].pc = "next" => run'[r].at = "SETUP"
  BY <1>3, <1>7 DEF Control, RunAt
<1>12. ~Verified(d)' /\ ~Done("BUILD")' /\ ~Recycled(d)'
  BY <1>3, <1>7, <1>8, <1>10, <1>11, DoneFacts DEF Verified, Recycled, PastVerify
<1>13. Editing(d)' /\ Edited(d)'
  BY <1>1, <1>8, <1>10, FileFacts DEF Editing, Edited
<1>14. Sorted(d)'
  BY <1>1, <1>3, <1>7, <1>8, <1>10, <1>12, FileFacts DEF Sorted, PastBuild
<1> QED
  BY <1>1, <1>2, <1>7, <1>9, <1>12, <1>13, <1>14, InNightly

LEMMA VerifyNightly ==
  ASSUME Orderly, Control, Nightly, NEW r \in Run, Verify(r)
  PROVE  Nightly'
<1>1. /\ run[r].pc = "loop" /\ run[r].pc \in Inside /\ nite' = nite /\ work' = work /\ sum' = sum /\ day' = day
      /\ damaged' = damaged /\ aside' = aside /\ asked' = asked /\ nite.state = "VERIFY" /\ Run = {r}
  BY Alone DEF Verify, In, At, Inside, nights, history
<1>2. PICK d \in Date : d = nite.date
  BY <1>1, Within
<1>3. /\ (Verified(d) => Whole(d)) /\ Editing(d) /\ Edited(d) /\ Sorted(d) /\ Dir(r) = work[d] /\ work[d] \in DirType
  BY <1>1, <1>2, Within DEF Nightly
<1>4. run'[r].pc = "verify" /\ run'[r].todo = {f \in File : Contents(Dir(r).W[f]) # {}}
  <2> DEFINE t == {f \in File : Contents(Dir(r).W[f]) # {}}
  <2>1. run' = [run EXCEPT ![r].pc = "verify", ![r].at = "VERIFY", ![r].todo = t]
    BY DEF Verify
  <2> HIDE DEF t
  <2>2. run'[r].pc = "verify" /\ run'[r].todo = t
    BY <2>1 DEF Control, CsarunTypeOK, RunType
  <2> QED
    BY <2>2 DEF t
<1>5. \A g \in File \ run'[r].todo : Contents(work[d].W[g]) = {}
  BY <1>3, <1>4
<1>6. Recycled(d)' <=> Recycled(d)
  BY <1>1 DEF Recycled
<1>7. Verified(d)' => Verified(d)
  BY <1>1, <1>4, <1>6, DoneFacts DEF Verified
<1>8. Whole(d)' <=> Whole(d)
  BY <1>1 DEF Whole
<1>9. Editing(d)'
  BY <1>1, <1>4, <1>5 DEF Editing
<1>10. Edited(d)'
  BY <1>1, <1>3 DEF Edited
<1>11. Sorted(d)'
  BY <1>1, <1>3, <1>4, <1>6, DoneFacts DEF Sorted
<1> QED
  BY <1>1, <1>2, <1>3, <1>7, <1>8, <1>9, <1>10, <1>11, InNightly

LEMMA VerifyFileNightly ==
  ASSUME Orderly, Control, Control', Nightly, NEW r \in Run, VerifyFile(r)
  PROVE  Nightly'
<1> DEFINE f == Min(run[r].todo)
<1>1. /\ run[r].pc = "verify" /\ run[r].pc \in Inside /\ sum' = sum /\ day' = day /\ damaged' = damaged
      /\ aside' = aside /\ asked' = asked /\ Run = {r}
  BY Alone DEF VerifyFile, At, Inside, history
<1>2. PICK d \in Date : d = nite.date
  BY <1>1, Within
<1>3. /\ (Verified(d) => Whole(d)) /\ Editing(d) /\ Edited(d) /\ Sorted(d) /\ work[d] \in DirType
      /\ nite.state = "VERIFY"
  BY <1>1, <1>2, Within DEF Nightly, StatesAt
<1>4. \A g \in File \ run[r].todo : Contents(work[d].W[g]) \cap damaged = {}
  BY <1>1, <1>3 DEF Editing
<1>5. \/ Ends(r)
      \/ work' = work /\ run'[r].pc = "next" /\ run[r].todo = {}
      \/ /\ Contents(work[d].W[f]) \cap damaged = {}
         /\ work' = work /\ run'[r].pc = "verify" /\ run'[r].todo = run[r].todo \ {f}
      \/ /\ f \in run[r].todo /\ Contents(work[d].W[f]) \cap damaged # {}
         /\ run'[r].pc = "mvbad" /\ run'[r].todo = run[r].todo
         /\ OtherDirs /\ work'[d].W = work[d].W /\ work'[d].bad = work[d].bad
         /\ work'[d].spacct = work[d].spacct /\ work'[d].recycled = work[d].recycled
         /\ work'[d].edited = Holding(Contents(work[d].W[f]) \ damaged)
  BY <1>2, VerifyFileViews
<1>6. run[r].todo \in SUBSET File
  BY <1>1, Within DEF RunType
<1>7. CASE Ends(r)
  <2>1. nite'.state = nite.state
    BY NiteFacts DEF VerifyFile, Fails, ErrorExit
  <2> QED
    BY <1>1, <1>7, <2>1, DoneFacts, NightlyFrame DEF Ends
<1>8. CASE work' = work /\ run'[r].pc = "next" /\ run[r].todo = {}
  <2>1. nite' = nite /\ run'[r].at = "VERIFY"
    BY <1>1, <1>3, <1>8, EndsFacts DEF VerifyFile, Fails, ErrorExit, Control, RunAt, StatesAt
  <2>2. Whole(d)'
    BY <1>1, <1>4, <1>8 DEF Whole, AllOf
  <2>3. Editing(d)' /\ Edited(d)'
    BY <1>1, <1>3, <1>8 DEF Editing, Edited
  <2>4. Recycled(d)' <=> Recycled(d)
    BY <1>1, <1>8 DEF Recycled
  <2>5. Sorted(d)'
    BY <1>1, <1>3, <1>8, <2>1, <2>4, DoneFacts DEF Sorted
  <2> QED
    BY <1>1, <1>2, <1>8, <2>1, <2>2, <2>3, <2>5, InNightly
<1>9. CASE /\ Contents(work[d].W[f]) \cap damaged = {}
           /\ work' = work /\ run'[r].pc = "verify" /\ run'[r].todo = run[r].todo \ {f}
  <2>1. nite' = nite
    BY <1>9, EndsFacts DEF VerifyFile, Fails, ErrorExit
  <2>2. Recycled(d)' <=> Recycled(d)
    BY <1>1, <1>9 DEF Recycled
  <2>3. (Verified(d) => Whole(d))'
    BY <1>1, <1>3, <1>9, <2>1, <2>2, DoneFacts DEF Verified, Whole
  <2>4. \A g \in File \ run'[r].todo : Contents(work[d].W[g]) \cap damaged = {}
    BY <1>4, <1>9
  <2>5. Editing(d)'
    <3> HIDE DEF f
    <3> QED
      BY <1>1, <1>9, <2>4 DEF Editing
  <2>6. Edited(d)'
    BY <1>1, <1>3, <1>9 DEF Edited
  <2>7. Sorted(d)'
    BY <1>1, <1>3, <1>9, <2>1, <2>2, DoneFacts DEF Sorted
  <2> QED
    BY <1>1, <1>2, <1>9, <2>1, <2>3, <2>5, <2>6, <2>7, InNightly
<1>10. CASE /\ f \in run[r].todo /\ Contents(work[d].W[f]) \cap damaged # {}
            /\ run'[r].pc = "mvbad" /\ run'[r].todo = run[r].todo
            /\ OtherDirs /\ work'[d].W = work[d].W /\ work'[d].bad = work[d].bad
            /\ work'[d].spacct = work[d].spacct /\ work'[d].recycled = work[d].recycled
            /\ work'[d].edited = Holding(Contents(work[d].W[f]) \ damaged)
  <2>1. nite' = nite
    BY <1>10, EndsFacts DEF VerifyFile, Fails, ErrorExit
  <2>2. Recycled(d)' <=> Recycled(d)
    BY <1>1, <1>10 DEF Recycled
  <2>3. Contents(work[d].W[f]) \subseteq AllOf(work[d].W)
    <3> HIDE DEF f
    <3> QED
      BY <1>6, <1>10 DEF AllOf
  <2>4. ~Whole(d) /\ ~Verified(d)
    BY <1>3, <1>10, <2>3 DEF Whole
  <2>5. (Verified(d) => Whole(d))'
    BY <1>1, <1>10, <2>1, <2>2, <2>4, DoneFacts DEF Verified
  <2>6. Editing(d)'
    <3>1. Min(run'[r].todo) = f
      BY <1>10
    <3>2. work[d].spacct = None /\ ~Recycled(d)
      BY <2>4 DEF Verified
    <3> HIDE DEF f
    <3> QED
      BY <1>1, <1>4, <1>10, <2>2, <3>1, <3>2 DEF Editing
  <2>7. Edited(d)'
    <3>1. Contents(work'[d].edited) \subseteq AllOf(work'[d].W)
      <4>1. Contents(work'[d].edited) = Contents(work[d].W[f]) \ damaged
        BY <1>10, FileFacts
      <4> HIDE DEF f
      <4> QED
        BY <1>10, <2>3, <4>1
    <3> QED
      BY <1>1, <1>3, <1>10, <3>1 DEF Edited
  <2>8. Sorted(d)'
    BY <1>1, <1>3, <1>10, <2>1, <2>2, DoneFacts DEF Sorted
  <2> QED
    BY <1>1, <1>2, <1>10, <2>1, <2>5, <2>6, <2>7, <2>8, InNightly
<1> QED
  BY <1>5, <1>7, <1>8, <1>9, <1>10

(* csabuild reads all of the files, because their numbers have no gap.     *)
LEMMA GaplessFiles ==
  ASSUME Orderly, Control, Numbers, NEW r \in Run, run[r].pc \notin {"mv", "mvgood"}, NEW d \in Date, work[d].made
  PROVE  /\ \A f \in File, g \in File : work[d].W[f] # None /\ g > 0 /\ (g = 1 \/ g <= f) => work[d].W[g] # None
         /\ UNION {Contents(work[d].W[f]) : f \in Reached(work[d].W)} = AllOf(work[d].W)
<1>1. Gapless({f \in File : work[d].W[f] # None \/ Given(f)}) /\ \A f : ~Given(f)
  BY Alone DEF Numbers, WorkNumbers, Moving, Given
<1>2. \A f \in File, g \in File : work[d].W[f] # None /\ g > 0 /\ (g = 1 \/ g <= f) => work[d].W[g] # None
  BY <1>1 DEF Gapless
<1>3. \A f \in File : Contents(work[d].W[f]) # {} => f \in Reached(work[d].W)
  <2> SUFFICES ASSUME NEW f \in File, work[d].W[f] # None, NEW g \in 1..f PROVE work[d].W[g] # None
    BY FileFacts DEF Reached
  <2>1. g \in File /\ g > 0 /\ g <= f
    BY CsarunAssumption DEF File
  <2> QED
    BY <1>2, <2>1
<1>4. Reached(work[d].W) \subseteq File
  BY DEF Reached
<1> QED
  BY <1>2, <1>3, <1>4 DEF AllOf

LEMMA MvBadNightly ==
  ASSUME Orderly, Control, Numbers, Nightly, NEW r \in Run, MvBad(r)
  PROVE  Nightly'
<1> DEFINE f == Min(run[r].todo)
<1>1. /\ run[r].pc = "mvbad" /\ run[r].pc \in Inside /\ sum' = sum /\ day' = day /\ damaged' = damaged
      /\ aside' = aside /\ asked' = asked /\ nite' = nite /\ Run = {r}
  BY Alone DEF MvBad, At, Inside, history
<1>2. PICK d \in Date : d = nite.date
  BY <1>1, Within
<1>3. /\ (Verified(d) => Whole(d)) /\ Editing(d) /\ Edited(d) /\ Sorted(d) /\ work[d].made
      /\ nite.state = "VERIFY" /\ Dir(r) = work[d]
  BY <1>1, <1>2, Within DEF Nightly, StatesAt
<1>4. /\ f \in run[r].todo /\ f \in File
      /\ run'[r].pc = "mvgood" /\ run'[r].todo = run[r].todo
      /\ OtherDirs /\ work'[d].edited = work[d].edited
      /\ work'[d].spacct = work[d].spacct /\ work'[d].recycled = work[d].recycled
      /\ work'[d].W[f] = None /\ \A g \in File : g # f => work'[d].W[g] = work[d].W[g]
      /\ work'[d].bad[f] = work[d].W[f] /\ \A g \in File : g # f => work'[d].bad[g] = work[d].bad[g]
  BY <1>2, MvBadViews
<1>5. work[d].W[f] # None
  BY <1>1, <1>3 DEF Numbers, Fresh
<1>6. /\ \A g \in File \ run[r].todo : Contents(work[d].W[g]) \cap damaged = {}
      /\ work[d].spacct = None /\ ~Recycled(d)
      /\ work[d].edited = Holding(Contents(work[d].W[f]) \ damaged)
  BY <1>1, <1>3 DEF Editing
<1>7. day[0] = None
  <2>1. 1 \in File
    BY CsarunAssumption DEF File
  <2>2. work[d].W[1] # None
    <3> HIDE DEF f
    <3> QED
      BY <1>1, <1>3, <1>4, <1>5, <2>1, GaplessFiles
  <2> QED
    BY <1>6, <2>2 DEF Recycled
<1>8. /\ Contents(sum[d]) = {} /\ Contents(work[d].recycled) = {}
      /\ AllOf(work[d].bad) \subseteq aside \cup AllOf(work[d].W)
  BY <1>1, <1>3, <1>6 DEF Sorted, Edited
<1>9. Min(run'[r].todo) = f
  BY <1>4
<1> HIDE DEF f
<1>10. /\ AllOf(work[d].W) \subseteq AllOf(work'[d].W) \cup Contents(work[d].W[f])
       /\ AllOf(work'[d].bad) \subseteq AllOf(work[d].bad) \cup Contents(work[d].W[f])
       /\ Contents(work[d].W[f]) \subseteq damaged \cup Contents(work[d].edited)
  <2>1. AllOf(work[d].W) \subseteq AllOf(work'[d].W) \cup Contents(work[d].W[f])
    BY <1>4, AllOfChange
  <2>2. AllOf(work'[d].bad) \subseteq AllOf(work[d].bad) \cup Contents(work'[d].bad[f])
    BY <1>4, AllOfChange
  <2>3. Contents(work[d].edited) = Contents(work[d].W[f]) \ damaged
    BY <1>6, FileFacts
  <2> QED
    BY <1>4, <2>1, <2>2, <2>3
<1>11. ~Verified(d)' /\ ~Done("BUILD")' /\ ~Recycled(d)'
  BY <1>1, <1>3, <1>4, <1>6, <1>7, DoneFacts DEF Verified, Recycled, PastVerify
<1>12. Editing(d)'
  <2>1. \A g \in File \ run[r].todo : Contents(work'[d].W[g]) \cap damaged = {}
    BY <1>4, <1>6
  <2>2. AllOf(work'[d].bad) \subseteq aside \cup damaged \cup AllOf(work'[d].W) \cup Contents(work'[d].edited)
    BY <1>4, <1>8, <1>10
  <2> QED
    BY <1>1, <1>4, <1>6, <1>7, <1>9, <1>11, <2>1, <2>2 DEF Editing
<1>13. Edited(d)'
  BY <1>1, <1>4 DEF Edited
<1>14. Sorted(d)'
  BY <1>1, <1>3, <1>4, <1>6, <1>8, <1>11 DEF Sorted, PastBuild
<1> QED
  BY <1>1, <1>2, <1>4, <1>11, <1>12, <1>13, <1>14, InNightly

LEMMA MvGoodNightly ==
  ASSUME Orderly, Control, Nightly, NEW r \in Run, MvGood(r)
  PROVE  Nightly'
<1> DEFINE f == Min(run[r].todo)
<1>1. /\ run[r].pc = "mvgood" /\ run[r].pc \in Inside /\ sum' = sum /\ day' = day /\ damaged' = damaged
      /\ asked' = asked /\ nite' = nite /\ Run = {r}
  BY Alone DEF MvGood, At, Inside, history
<1>2. PICK d \in Date : d = nite.date
  BY <1>1, Within
<1>3. /\ (Verified(d) => Whole(d)) /\ Editing(d) /\ Edited(d) /\ Sorted(d) /\ work[d].made
      /\ nite.state = "VERIFY" /\ Dir(r) = work[d]
  BY <1>1, <1>2, Within DEF Nightly, StatesAt
<1>4. /\ f \in run[r].todo /\ f \in File
      /\ run'[r].pc = "verify" /\ run'[r].todo = run[r].todo
      /\ OtherDirs /\ work'[d].bad = work[d].bad /\ work'[d].edited = None
      /\ work'[d].spacct = work[d].spacct /\ work'[d].recycled = work[d].recycled
      /\ work'[d].W[f] = work[d].edited /\ \A g \in File : g # f => work'[d].W[g] = work[d].W[g]
      /\ aside' = aside \cup (AllOf(work[d].bad) \cap damaged)
  BY <1>2, MvGoodViews
<1>5. /\ \A g \in File \ run[r].todo : Contents(work[d].W[g]) \cap damaged = {}
      /\ work[d].spacct = None /\ work[d].W[f] = None /\ day[0] = None
      /\ AllOf(work[d].bad) \subseteq aside \cup damaged \cup AllOf(work[d].W) \cup Contents(work[d].edited)
  BY <1>1, <1>3 DEF Editing
<1>6. Contents(sum[d]) = {} /\ Contents(work[d].recycled) = {}
  BY <1>3, <1>5 DEF Sorted
<1> HIDE DEF f
<1>7. AllOf(work[d].W) \cup Contents(work[d].edited) \subseteq AllOf(work'[d].W)
  <2>1. AllOf(work[d].W) \subseteq AllOf(work'[d].W) \cup Contents(work[d].W[f]) /\ Contents(work'[d].W[f]) \subseteq AllOf(work'[d].W)
    BY <1>4, AllOfChange
  <2> QED
    BY <1>4, <1>5, <2>1, FileFacts
<1>8. ~Verified(d)' /\ ~Done("BUILD")' /\ ~Recycled(d)'
  BY <1>1, <1>3, <1>4, <1>5, DoneFacts DEF Verified, Recycled, PastVerify
<1>9. Editing(d)'
  <2>1. \A g \in File \ run[r].todo : Contents(work'[d].W[g]) \cap damaged = {}
    BY <1>4, <1>5
  <2> QED
    BY <1>1, <1>4, <2>1 DEF Editing
<1>10. Edited(d)'
  <2>1. AllOf(work'[d].bad) \subseteq aside' \cup AllOf(work'[d].W)
    BY <1>4, <1>5, <1>7
  <2> QED
    BY <1>4, <2>1, FileFacts DEF Edited
<1>11. Sorted(d)'
  BY <1>1, <1>3, <1>4, <1>5, <1>6, <1>8 DEF Sorted, PastBuild
<1> QED
  BY <1>1, <1>2, <1>4, <1>8, <1>9, <1>10, <1>11, InNightly

LEMMA BuildNightly ==
  ASSUME Orderly, Control, Numbers, Nightly, NEW r \in Run, Build(r)
  PROVE  Nightly'
<1>1. /\ run[r].pc = "loop" /\ run[r].pc \in Inside /\ sum' = sum /\ day' = day /\ damaged' = damaged
      /\ aside' = aside /\ asked' = asked /\ nite.state = "BUILD" /\ Run = {r}
  BY Alone DEF Build, In, At, Inside, history
<1>2. PICK d \in Date : d = nite.date
  BY <1>1, Within
<1>3. /\ (Verified(d) => Whole(d)) /\ Editing(d) /\ Edited(d) /\ Sorted(d) /\ work[d].made
  BY <1>1, <1>2, Within DEF Nightly
<1>4. Whole(d) /\ UNION {Contents(work[d].W[f]) : f \in Reached(work[d].W)} = AllOf(work[d].W)
  BY <1>1, <1>3, GaplessFiles DEF Verified, PastVerify
<1>5. \/ Ends(r)
      \/ /\ work[d].W[1] # None /\ run'[r].pc = "next" /\ run'[r].at = "BUILD"
         /\ OtherDirs /\ work'[d].W = work[d].W /\ work'[d].bad = work[d].bad
         /\ work'[d].edited = work[d].edited /\ work'[d].recycled = work[d].recycled
         /\ work'[d].spacct = Holding(AllOf(work[d].W))
  BY <1>2, <1>4, BuildViews
<1>6. CASE Ends(r)
  <2>1. nite'.state = nite.state
    BY NiteFacts DEF Build, Fails, ErrorExit
  <2> QED
    BY <1>1, <1>6, <2>1, DoneFacts, NightlyFrame DEF Ends
<1>7. CASE /\ work[d].W[1] # None /\ run'[r].pc = "next" /\ run'[r].at = "BUILD"
           /\ OtherDirs /\ work'[d].W = work[d].W /\ work'[d].bad = work[d].bad
           /\ work'[d].edited = work[d].edited /\ work'[d].recycled = work[d].recycled
           /\ work'[d].spacct = Holding(AllOf(work[d].W))
  <2>1. nite' = nite
    BY <1>7, EndsFacts DEF Build, Fails, ErrorExit
  <2>2. Recycled(d)' <=> Recycled(d)
    BY <1>1, <1>7 DEF Recycled
  <2>3. Whole(d)'
    BY <1>1, <1>4, <1>7 DEF Whole
  <2>4. Editing(d)' /\ Edited(d)'
    BY <1>1, <1>3, <1>7 DEF Editing, Edited
  <2>5. work'[d].spacct # None
    BY <1>7, FileFacts
  <2>6. Sorted(d)'
    BY <1>1, <1>3, <1>7, <2>1, <2>2, <2>5 DEF Sorted
  <2> QED
    BY <1>1, <1>2, <1>7, <2>1, <2>3, <2>4, <2>6, InNightly
<1> QED
  BY <1>5, <1>6, <1>7

LEMMA ReportNightly ==
  ASSUME Orderly, Control, Control', Nightly, NEW r \in Run, Report(r)
  PROVE  Nightly'
<1>1. /\ run[r].pc = "loop" /\ run[r].pc \in Inside /\ work' = work /\ day' = day /\ damaged' = damaged
      /\ aside' = aside /\ asked' = asked /\ nite.state = "REPORT" /\ Run = {r}
  BY Alone DEF Report, In, At, Inside, history
<1>2. PICK d \in Date : d = nite.date
  BY <1>1, Within
<1>3. /\ (Verified(d) => Whole(d)) /\ Editing(d) /\ Edited(d) /\ Sorted(d) /\ work[d].made
  BY <1>1, <1>2, Within DEF Nightly
<1>4. work[d].spacct # None /\ Contents(work[d].spacct) = AllOf(work[d].W)
  BY <1>1, <1>3, FileFacts DEF Sorted, PastBuild
<1>5. /\ run'[r].pc \in {"off", "reports", "recy"}
      /\ run'[r].pc = "recy" => Contents(sum'[d]) = Ended(AllOf(work[d].W))
  BY <1>2, <1>4, ReportViews DEF Ends
<1>6. nite'.state = nite.state /\ nite'.date = nite.date
  BY NiteFacts DEF Report, Fails, ErrorExit
<1>7. Recycled(d)' <=> Recycled(d)
  BY <1>1 DEF Recycled
<1>8. Whole(d)'
  BY <1>1, <1>3 DEF Whole, Verified, PastVerify
<1>9. Editing(d)' /\ Edited(d)'
  BY <1>1, <1>3, <1>5 DEF Editing, Edited
<1>10. Sorted(d)'
  BY <1>1, <1>3, <1>4, <1>5, <1>6, <1>7 DEF Sorted
<1>11. \A e \in Date : work'[e].made => e = d
  BY <1>1, <1>2 DEF Control, OneNight
<1> QED
  BY <1>8, <1>9, <1>10, <1>11, Zenon DEF Nightly

LEMMA RecycleNightly ==
  ASSUME Orderly, Control, Nightly, NEW r \in Run, Recycle(r)
  PROVE  Nightly'
<1>1. /\ run[r].pc = "recy" /\ run[r].pc \in Inside /\ sum' = sum /\ day' = day /\ damaged' = damaged
      /\ aside' = aside /\ asked' = asked /\ nite' = nite /\ Run = {r}
  BY Alone DEF Recycle, At, Inside, history
<1>2. PICK d \in Date : d = nite.date
  BY <1>1, Within
<1>3. /\ (Verified(d) => Whole(d)) /\ Editing(d) /\ Edited(d) /\ Sorted(d) /\ work[d].made /\ nite.state = "REPORT"
  BY <1>1, <1>2, Within DEF Nightly, StatesAt
<1>4. work[d].spacct # None /\ Contents(work[d].spacct) = AllOf(work[d].W)
  BY <1>1, <1>3, FileFacts DEF Sorted, PastBuild
<1>5. /\ run'[r].pc = "mvrecycled" /\ OtherDirs
      /\ work'[d].W = work[d].W /\ work'[d].bad = work[d].bad
      /\ work'[d].edited = work[d].edited /\ work'[d].spacct = work[d].spacct
      /\ work'[d].recycled = Holding(NotEnded(AllOf(work[d].W)))
  BY <1>2, <1>4, RecycleViews
<1>6. Recycled(d)' <=> Recycled(d)
  BY <1>1, <1>5 DEF Recycled
<1>7. Whole(d)'
  BY <1>1, <1>3, <1>5 DEF Whole, Verified, PastVerify
<1>8. Editing(d)' /\ Edited(d)'
  BY <1>1, <1>3, <1>5 DEF Editing, Edited
<1>9. Contents(work'[d].recycled) \subseteq AllOf(work'[d].W)
  BY <1>5, FileFacts DEF NotEnded
<1>10. Sorted(d)'
  BY <1>1, <1>3, <1>4, <1>5, <1>6, <1>9 DEF Sorted
<1> QED
  BY <1>1, <1>2, <1>5, <1>7, <1>8, <1>10, InNightly

LEMMA MvRecycledNightly ==
  ASSUME Orderly, Control, Nightly, NEW r \in Run, MvRecycled(r)
  PROVE  Nightly'
<1>1. /\ run[r].pc = "mvrecycled" /\ run[r].pc \in Inside /\ sum' = sum /\ damaged' = damaged
      /\ aside' = aside /\ asked' = asked /\ nite' = nite /\ Run = {r}
  BY Alone DEF MvRecycled, At, Inside, history
<1>2. PICK d \in Date : d = nite.date
  BY <1>1, Within
<1>3. /\ (Verified(d) => Whole(d)) /\ Editing(d) /\ Edited(d) /\ Sorted(d) /\ work[d].made /\ nite.state = "REPORT" /\ ~asked
  BY <1>1, <1>2, Within DEF Nightly, StatesAt
<1>4. work[d].spacct # None /\ Contents(work[d].recycled) = NotEnded(AllOf(work[d].W))
  BY <1>1, <1>3, FileFacts DEF Sorted, PastBuild
<1>5. /\ run'[r].pc = "reports" /\ (OtherDirs \/ work' = work)
      /\ work'[d].W = work[d].W /\ work'[d].bad = work[d].bad
      /\ work'[d].edited = work[d].edited /\ work'[d].spacct = work[d].spacct
      /\ work'[d].recycled \in {None, work[d].recycled}
      /\ day'[0] \in {day[0], work[d].recycled}
  BY <1>2, MvRecycledViews
<1>6. Whole(d)'
  BY <1>1, <1>3, <1>5 DEF Whole, Verified, PastVerify
<1>7. Editing(d)' /\ Edited(d)'
  BY <1>1, <1>3, <1>5 DEF Editing, Edited
<1>8. Contents(work'[d].recycled) \subseteq AllOf(work'[d].W)
  BY <1>3, <1>5, FileFacts DEF Sorted
<1>9. Recycled(d)' => Contents(day'[0]) \subseteq NotEnded(AllOf(work'[d].W))
  <2>1. CASE day'[0] = day[0]
    BY <1>3, <1>5, <2>1 DEF Sorted, Recycled
  <2>2. CASE day'[0] = work[d].recycled
    BY <1>4, <1>5, <2>2
  <2> QED
    BY <1>5, <2>1, <2>2
<1>10. Sorted(d)'
  BY <1>1, <1>3, <1>4, <1>5, <1>8, <1>9 DEF Sorted
<1> QED
  BY <1>1, <1>2, <1>5, <1>6, <1>7, <1>10, InNightly

LEMMA InitNightly == Init => Nightly
BY DirFacts DEF Init, Nightly

LEMMA NextNightly == Orderly /\ Control /\ Control' /\ Numbers /\ OfWritten /\ Nightly /\ [Next]_vars => Nightly'
<1> SUFFICES ASSUME Orderly, Control, Control', Numbers, OfWritten, Nightly, [Next]_vars PROVE Nightly'
  OBVIOUS
<1>1. CASE UNCHANGED vars
  BY <1>1, NightlyOther DEF vars, nights, history
<1>2. ASSUME NEW r \in Run, Invoke(r) \/ Crash(r) \/ Step(r) PROVE Nightly'
  BY <1>2, StartNightly, RestartNightly, AdvanceNightly, SetupNightly, MvNightly, VerifyNightly,
     VerifyFileNightly, MvBadNightly, MvGoodNightly, BuildNightly, ReportNightly, RecycleNightly, MvRecycledNightly DEF Step
<1> QED
  BY <1>1, <1>2, CsadNightly, OthersNightly DEF Next

(***************************************************************************)
(* Where each record is                                                    *)
(***************************************************************************)
(* The files of the day are as they were, and those of the night have no   *)
(* record that they did not have.                                          *)
LEMMA FilesFrame ==
  ASSUME OneFile, BilledGone, pacct' = pacct, day' = day, written' = written, bills' = bills, aside' \cap Billed = {},
         \A d \in Date : work'[d].made =>
           \/ work'[d] = EmptyDir
           \/ /\ work[d].made /\ InNight(d)' \subseteq InNight(d)
              /\ AllOf(work'[d].bad) \subseteq AllOf(work[d].bad) \cup InNight(d)
              /\ work'[d].W[1] = None => work[d].W[1] = None \/ day[0] = None
  PROVE  OneFile' /\ BilledGone'
<1>1. AllDay' = AllDay /\ Billed' = Billed
  BY DayFrame DEF Billed
<1>2. Contents(None) = {}
  BY FileFacts
<1>3. ASSUME NEW d \in Date, work'[d].made, work'[d] = EmptyDir
      PROVE  InNight(d)' = {} /\ AllOf(work'[d].bad) = {}
  BY <1>3, EmptyIn DEF InNight
<1>4. OneFile'
  <2>1. ASSUME NEW d \in Date, work'[d].made
        PROVE  /\ pacct \cap InNight(d)' = {}
               /\ \A f \in File : f # 0 \/ work'[d].W[1] = None => Contents(day[f]) \cap InNight(d)' = {}
    <3>1. CASE work'[d] = EmptyDir
      BY <1>3, <2>1, <3>1
    <3>2. CASE work'[d] # EmptyDir
      <4>1. /\ pacct \cap InNight(d) = {}
            /\ \A f \in File : f # 0 \/ work[d].W[1] = None => Contents(day[f]) \cap InNight(d) = {}
            /\ InNight(d)' \subseteq InNight(d)
            /\ work'[d].W[1] = None => work[d].W[1] = None \/ day[0] = None
        BY <2>1, <3>2 DEF OneFile
      <4> QED
        BY <1>2, <4>1
    <3> QED
      BY <3>1, <3>2
  <2>2. /\ pacct \cap AllDay = {}
        /\ \A f \in File, g \in File : f # g => Contents(day[f]) \cap Contents(day[g]) = {}
    BY DEF OneFile
  <2> QED
    BY <1>1, <2>1, <2>2, Zenon DEF OneFile
<1>5. BilledGone'
  <2>1. ASSUME NEW d \in Date, work'[d].made PROVE Billed \cap (InNight(d)' \cup AllOf(work'[d].bad)) = {}
    <3>1. CASE work'[d] = EmptyDir
      BY <1>3, <2>1, <3>1
    <3>2. CASE work'[d] # EmptyDir
      BY <2>1, <3>2 DEF BilledGone
    <3> QED
      BY <3>1, <3>2
  <2> QED
    BY <1>1, <2>1 DEF BilledGone
<1> QED
  BY <1>4, <1>5

(* The daily files are as they were; and what is new in the files of the   *)
(* day is not in the daily file of the night.                              *)
LEMMA DailyFrame ==
  ASSUME DailyFiles, Once, bills' = bills, charged' = charged,
         \A d \in Date : (Open(d)' <=> Open(d)) /\ Contents(sum'[d]) = Contents(sum[d]),
         \A d \in Date : Open(d) => \A rec \in Contents(sum[d]) :
           rec \in pacct' \cup AllDay' \cup aside' => rec \in pacct \cup AllDay \cup aside
  PROVE  DailyFiles' /\ Once'
<1>1. Billed' = Billed /\ Once'
  BY DEF Billed, Once
<1>2. ASSUME NEW d \in Date, Open(d) PROVE Contents(sum[d]) \cap (pacct' \cup AllDay' \cup aside' \cup Billed) = {}
  BY <1>2 DEF DailyFiles
<1>3. ASSUME NEW d \in Date, ~Open(d)
      PROVE  /\ \A rec \in Contents(sum[d]) : bills[rec] = 1 /\ charged[rec] = 0
             /\ \A e \in Date : ~Open(e) /\ e # d => Contents(sum[d]) \cap Contents(sum[e]) = {}
  BY <1>3 DEF DailyFiles
<1> QED
  BY <1>1, <1>2, <1>3 DEF DailyFiles

LEMMA OpenSame ==
  ASSUME nite'.date = nite.date, (nite'.state = "COMPLETE") <=> (nite.state = "COMPLETE")
  PROVE  \A d : Open(d)' <=> Open(d)
BY DEF Open

(* A step that touches none of the files the properties are about.         *)
LEMMA LocatedFrame ==
  ASSUME Control, Located, pacct' = pacct, day' = day, written' = written, bills' = bills, charged' = charged, aside' = aside,
         \A d \in Date : work'[d].made =>
           \/ work'[d] = EmptyDir
           \/ work[d].made /\ work'[d].W = work[d].W /\ work'[d].bad = work[d].bad /\ work'[d].edited = work[d].edited,
         sum' = sum, \A d \in Date : Open(d)' <=> Open(d)
  PROVE  Located'
<1>1. \A d \in Date : work'[d].made =>
           \/ work'[d] = EmptyDir
           \/ /\ work[d].made /\ InNight(d)' \subseteq InNight(d)
              /\ AllOf(work'[d].bad) \subseteq AllOf(work[d].bad) \cup InNight(d)
              /\ work'[d].W[1] = None => work[d].W[1] = None \/ day[0] = None
  BY DEF InNight
<1>2. aside' \cap Billed = {}
  BY DEF Located, BilledGone
<1>3. OneFile' /\ BilledGone'
  BY <1>1, <1>2, FilesFrame DEF Located
<1>4. DailyFiles' /\ Once'
  BY DayFrame, DailyFrame DEF Located
<1> QED
  BY <1>3, <1>4 DEF Located

(* The first free number takes pacct.                                      *)
LEMMA PutAsideLocated ==
  ASSUME Control, Located, PutAside, written' = written, bills' = bills, charged' = charged, aside' = aside,
         work' = work, sum' = sum, \A d \in Date : Open(d)' <=> Open(d)
  PROVE  Located'
<1>1. AllDay' = AllDay \cup pacct /\ pacct' = {}
  BY NiteFacts, PutAsideWritten
<1>2. PICK f \in File : /\ f > 0 /\ day[f] = None
                        /\ day'[f] = Holding(pacct) /\ \A g \in File : g # f => day'[g] = day[g]
  BY NiteFacts, PutAsideFacts
<1>3. Contents(day'[f]) = pacct /\ \A g \in File : Contents(day[g]) \subseteq AllDay
  BY <1>2, FileFacts DEF AllDay, AllOf
<1>4. OneFile'
  <2>1. ASSUME NEW g \in File, NEW h \in File, g # h PROVE Contents(day'[g]) \cap Contents(day'[h]) = {}
    BY <1>2, <1>3, <2>1 DEF Located, OneFile
  <2>2. ASSUME NEW d \in Date, work[d].made, NEW g \in File, g # 0 \/ work[d].W[1] = None
        PROVE  Contents(day'[g]) \cap InNight(d) = {}
    BY <1>2, <1>3, <2>2 DEF Located, OneFile
  <2> QED
    BY <1>1, <2>1, <2>2 DEF OneFile, InNight
<1>5. BilledGone'
  BY <1>1 DEF Located, BilledGone, Billed, InNight
<1>6. DailyFiles' /\ Once'
  BY <1>1, DailyFrame DEF Located
<1> QED
  BY <1>4, <1>5, <1>6 DEF Located

LEMMA CsadLocated ==
  ASSUME OfWritten, Located, NEW rec \in Rec, CsadWrites(rec)
  PROVE  Located'
<1>1. /\ rec \notin written /\ pacct' = pacct \cup {rec} /\ written' = written \cup {rec}
      /\ UNCHANGED <<nite, day, work, sum, aside, bills, charged>>
  BY DEF CsadWrites
<1>2. /\ rec \notin AllDay /\ rec \notin Billed
      /\ \A d \in Date : /\ rec \notin InNight(d) /\ rec \notin AllOf(work[d].bad) /\ rec \notin Contents(sum[d])
  BY <1>1 DEF OfWritten, Located, BilledGone, InNight, InDir
<1>3. AllDay' = AllDay /\ Billed' = Billed /\ \A d \in Date : (InNight(d)' = InNight(d)) /\ (Open(d)' <=> Open(d))
  BY <1>1, DayFrame DEF Billed, InNight, Open
<1>4. OneFile'
  BY <1>1, <1>2, <1>3 DEF Located, OneFile
<1>5. BilledGone'
  BY <1>1, <1>2, <1>3 DEF Located, BilledGone
<1>6. DailyFiles' /\ Once'
  BY <1>1, <1>2, <1>3, DailyFrame DEF Located
<1> QED
  BY <1>4, <1>5, <1>6 DEF Located

(* A new night has no daily file yet.                                      *)
LEMMA WriteStateLocated ==
  ASSUME Control, OfWritten, Located, NEW r \in Run, WriteState(r)
  PROVE  Located'
<1>1. UNCHANGED <<pacct, day, work, sum, written, aside, bills, charged>>
  BY DEF WriteState, history
<1>2. run[r].pc = "state" /\ run[r].date = nite.date /\ sum[nite.date] = None /\ nite.state = "COMPLETE"
  BY DEF WriteState, At, Control, RunAt
<1>3. nite'.date = nite.date
  BY NiteFacts DEF WriteState, State
<1>4. /\ \A d \in Date : ~Open(d)
      /\ \A d \in Date : Open(d)' => d = nite.date
  BY <1>2, <1>3 DEF Open
<1>5. /\ AllDay' = AllDay /\ Billed' = Billed /\ \A d \in Date : InNight(d)' = InNight(d)
      /\ Contents(sum[nite.date]) = {}
  BY <1>1, <1>2, DayFrame, FileFacts DEF Billed, InNight
<1>6. DailyFiles'
  <2>1. \A d \in Date : /\ \A rec \in Contents(sum[d]) : bills[rec] = 1 /\ charged[rec] = 0
                        /\ \A e \in Date : e # d => Contents(sum[d]) \cap Contents(sum[e]) = {}
    BY <1>4 DEF Located, DailyFiles
  <2> QED
    BY <1>1, <1>4, <1>5, <2>1 DEF DailyFiles
<1>7. OneFile' /\ BilledGone'
  BY <1>1, <1>5 DEF Located, OneFile, BilledGone
<1> QED
  BY <1>1, <1>6, <1>7 DEF Located, Once

LEMMA MvLocated ==
  ASSUME Orderly, Control, Numbers, Located, NEW r \in Run, Mv(r)
  PROVE  Located'
<1>1. /\ run[r].pc = "mv" /\ run[r].pc \in Inside
      /\ UNCHANGED <<pacct, sum, written, aside, bills, charged>>
  BY DEF Mv, At, Inside, history
<1>2. PICK d \in Date : d = nite.date
  BY <1>1, Within
<1>3. work[d].made /\ \A e \in Date : work[e].made => e = d
  BY <1>1, <1>2, Within DEF Control, OneNight
<1>4. \A e \in Date : Open(e)' <=> Open(e)
  BY NiteFacts, OpenSame DEF Mv, ErrorExit
<1>5. \/ day' = day /\ work' = work
      \/ \E f \in File :
           /\ day[f] # None /\ \A g \in File : g < f => day[g] = None
           /\ day'[f] = None /\ \A g \in File : g # f => day'[g] = day[g]
           /\ OtherDirs /\ work[d].W[f] = None
           /\ work'[d].W[f] = day[f] /\ \A g \in File : g # f => work'[d].W[g] = work[d].W[g]
           /\ work'[d].bad = work[d].bad /\ work'[d].edited = work[d].edited
  BY <1>2, MvViews
<1>6. CASE day' = day /\ work' = work
  BY <1>1, <1>4, <1>6, LocatedFrame
<1>7. ASSUME NEW f \in File, day[f] # None, \A g \in File : g < f => day[g] = None,
             day'[f] = None, \A g \in File : g # f => day'[g] = day[g],
             OtherDirs, work[d].W[f] = None,
             work'[d].W[f] = day[f], \A g \in File : g # f => work'[d].W[g] = work[d].W[g],
             work'[d].bad = work[d].bad, work'[d].edited = work[d].edited
      PROVE  Located'
  <2>1. AllDay' \subseteq AllDay /\ Contents(day[f]) \subseteq AllDay /\ Contents(day'[f]) = {}
    BY <1>7, AllOfChange, FileFacts DEF AllDay
  <2>2. InNight(d)' \subseteq InNight(d) \cup Contents(day[f])
    <3>1. AllOf(work'[d].W) \subseteq AllOf(work[d].W) \cup Contents(work'[d].W[f])
      <4>1. \A g \in File : g # f => work'[d].W[g] = work[d].W[g]
        BY <1>7
      <4> QED
        BY <4>1, AllOfChange
    <3> QED
      BY <1>7, <3>1 DEF InNight
  <2>3. \A e \in Date : work'[e].made => e = d
    BY <1>2, <1>3, <1>7 DEF OtherDirs
  <2>4. OneFile'
    <3>1. \A g \in File, h \in File : g # h => Contents(day'[g]) \cap Contents(day'[h]) = {}
      <4>1. \A g \in File : Contents(day'[g]) \subseteq Contents(day[g])
        BY <1>7, <2>1
      <4>2. \A g \in File, h \in File : g # h => Contents(day[g]) \cap Contents(day[h]) = {}
        BY DEF Located, OneFile
      <4> QED
        BY <4>1, <4>2
    <3>2. pacct \cap (InNight(d) \cup Contents(day[f])) = {}
      BY <1>3, <2>1 DEF Located, OneFile
    <3>3. ASSUME NEW g \in File, g # 0 \/ work'[d].W[1] = None
          PROVE  Contents(day'[g]) \cap (InNight(d) \cup Contents(day[f])) = {}
      <4>1. CASE g = f
        BY <2>1, <4>1
      <4>2. CASE g # f /\ g # 0
        BY <1>3, <1>7, <4>2 DEF Located, OneFile
      <4>3. CASE g # f /\ g = 0
        BY <1>7, <4>3, FileFacts DEF File
      <4> QED
        BY <4>1, <4>2, <4>3
    <3> QED
      BY <1>1, <2>1, <2>2, <2>3, <3>1, <3>2, <3>3 DEF Located, OneFile
  <2>5. BilledGone'
    BY <1>1, <1>3, <1>7, <2>1, <2>2, <2>3 DEF Located, BilledGone, Billed
  <2>6. DailyFiles' /\ Once'
    BY <1>1, <1>4, <2>1, DailyFrame DEF Located
  <2> QED
    BY <2>4, <2>5, <2>6 DEF Located
<1> QED
  BY <1>5, <1>6, <1>7

LEMMA VerifyLocated ==
  ASSUME Orderly, Control, OfWritten, Nightly, Nightly', Located, NEW r \in Run, VerifyFile(r) \/ MvBad(r) \/ MvGood(r)
  PROVE  Located'
<1> DEFINE f == Min(run[r].todo)
<1>1. /\ run[r].pc \in Inside /\ UNCHANGED <<pacct, day, sum, written, bills, charged>> /\ Run = {r}
  BY Alone DEF VerifyFile, MvBad, MvGood, At, Inside, history
<1>2. PICK d \in Date : d = nite.date
  BY <1>1, Within
<1>3. /\ work[d].made /\ run[r].todo \in SUBSET File /\ \A e \in Date : work[e].made => e = d
  BY <1>1, <1>2, Within DEF Control, OneNight, RunType
<1>4. \A e \in Date : Open(e)' <=> Open(e)
  BY NiteFacts, OpenSame DEF VerifyFile, MvBad, MvGood, ErrorExit, Fails
<1>5. ASSUME OtherDirs, InNight(d)' \subseteq InNight(d), AllOf(work'[d].bad) \subseteq AllOf(work[d].bad) \cup InNight(d),
             work'[d].W[1] = None => work[d].W[1] = None \/ day[0] = None, aside' \cap Billed = {},
             aside' = aside \/ Contents(sum[d]) = {}
      PROVE  Located'
  <2>1. \A e \in Date : work'[e].made =>
           \/ work'[e] = EmptyDir
           \/ /\ work[e].made /\ InNight(e)' \subseteq InNight(e)
              /\ AllOf(work'[e].bad) \subseteq AllOf(work[e].bad) \cup InNight(e)
              /\ work'[e].W[1] = None => work[e].W[1] = None \/ day[0] = None
    BY <1>2, <1>3, <1>5 DEF OtherDirs
  <2>2. OneFile' /\ BilledGone'
    BY <1>1, <1>5, <2>1, FilesFrame DEF Located
  <2>3. \A e \in Date : Open(e) => e = d
    BY <1>2 DEF Open
  <2>4. DailyFiles' /\ Once'
    BY <1>1, <1>4, <1>5, <2>3, DayFrame, DailyFrame DEF Located
  <2> QED
    BY <2>2, <2>4 DEF Located
<1>6. aside \cap Billed = {}
  BY DEF Located, BilledGone
<1>7. CASE VerifyFile(r)
  <2>1. \/ work' = work
        \/ /\ f \in run[r].todo
           /\ OtherDirs /\ work'[d].W = work[d].W /\ work'[d].bad = work[d].bad
           /\ work'[d].edited = Holding(Contents(work[d].W[f]) \ damaged)
    BY <1>2, <1>7, VerifyFileViews DEF Ends
  <2>2. aside' = aside
    BY <1>7 DEF VerifyFile, history
  <2> HIDE DEF f
  <2>3. CASE work' = work
    BY <1>1, <1>4, <2>2, <2>3, LocatedFrame
  <2>4. CASE /\ f \in run[r].todo
             /\ OtherDirs /\ work'[d].W = work[d].W /\ work'[d].bad = work[d].bad
             /\ work'[d].edited = Holding(Contents(work[d].W[f]) \ damaged)
    <3>1. Contents(work'[d].edited) \subseteq AllOf(work[d].W)
      BY <1>3, <2>4, FileFacts DEF AllOf
    <3>2. InNight(d)' \subseteq InNight(d)
      BY <2>4, <3>1 DEF InNight
    <3> QED
      BY <1>5, <1>6, <2>2, <2>4, <3>2
  <2> QED
    BY <2>1, <2>3, <2>4
<1>8. CASE MvBad(r)
  <2>1. /\ f \in File /\ OtherDirs /\ work'[d].edited = work[d].edited /\ run'[r].pc = "mvgood"
        /\ work'[d].W[f] = None /\ \A g \in File : g # f => work'[d].W[g] = work[d].W[g]
        /\ work'[d].bad[f] = work[d].W[f] /\ \A g \in File : g # f => work'[d].bad[g] = work[d].bad[g]
    BY <1>2, <1>8, MvBadViews
  <2>2. aside' = aside
    BY <1>8 DEF MvBad, history
  <2>3. day'[0] = None
    BY <1>1, <1>2, <2>1 DEF OtherDirs, Nightly, Editing
  <2> HIDE DEF f
  <2>4. InNight(d)' \subseteq InNight(d)
    <3>1. AllOf(work'[d].W) \subseteq AllOf(work[d].W) \cup Contents(work'[d].W[f])
      BY <2>1, AllOfChange
    <3> QED
      BY <2>1, <3>1, FileFacts DEF InNight
  <2>5. AllOf(work'[d].bad) \subseteq AllOf(work[d].bad) \cup InNight(d)
    <3>1. AllOf(work'[d].bad) \subseteq AllOf(work[d].bad) \cup Contents(work'[d].bad[f])
      BY <2>1, AllOfChange
    <3>2. Contents(work[d].W[f]) \subseteq AllOf(work[d].W)
      BY <2>1 DEF AllOf
    <3> QED
      BY <2>1, <3>1, <3>2 DEF InNight
  <2> QED
    BY <1>1, <1>5, <1>6, <2>1, <2>2, <2>3, <2>4, <2>5
<1>9. CASE MvGood(r)
  <2>1. /\ f \in File /\ OtherDirs /\ work'[d].bad = work[d].bad /\ work'[d].edited = None
        /\ work'[d].W[f] = work[d].edited /\ \A g \in File : g # f => work'[d].W[g] = work[d].W[g]
        /\ aside' = aside \cup (AllOf(work[d].bad) \cap damaged)
    BY <1>2, <1>9, MvGoodViews
  <2>2. work[d].spacct = None /\ day[0] = None
    BY <1>1, <1>3, <1>9 DEF Nightly, Editing, MvGood, At
  <2>3. Contents(sum[d]) = {}
    BY <1>3, <2>2 DEF Nightly, Sorted
  <2> HIDE DEF f
  <2>4. InNight(d)' \subseteq InNight(d)
    <3>1. AllOf(work'[d].W) \subseteq AllOf(work[d].W) \cup Contents(work'[d].W[f])
      BY <2>1, AllOfChange
    <3> QED
      BY <2>1, <3>1, FileFacts DEF InNight
  <2>5. aside' \cap Billed = {}
    BY <1>3, <1>6, <2>1 DEF Located, BilledGone
  <2> QED
    BY <1>1, <1>5, <2>1, <2>2, <2>3, <2>4, <2>5
<1> QED
  BY <1>7, <1>8, <1>9

(* What csacon reports is in no file that a later night reads: the damaged *)
(* records were taken out, and csarecy has only the jobs that go on.       *)
LEMMA ReportLocated ==
  ASSUME Orderly, Control, OfWritten, Nightly, Located, NEW r \in Run, Report(r)
  PROVE  Located'
<1>1. /\ run[r].pc \in Inside /\ UNCHANGED <<pacct, day, work, written, aside, bills, charged>> /\ nite.state = "REPORT"
  BY DEF Report, In, At, Inside, history
<1>2. PICK d \in Date : d = nite.date
  BY <1>1, Within
<1>3. work[d].made /\ (Verified(d) => Whole(d)) /\ Sorted(d)
  BY <1>1, <1>2, Within DEF Nightly
<1>4. /\ Contents(work[d].spacct) = AllOf(work[d].W) /\ work[d].W[1] # None /\ AllOf(work[d].W) \cap damaged = {}
      /\ Recycled(d) => ~asked /\ Contents(day[0]) \subseteq NotEnded(AllOf(work[d].W))
  BY <1>1, <1>3, FileFacts DEF Sorted, Verified, PastVerify, PastBuild, Whole
<1>5. \A e \in Date : Open(e)' <=> Open(e)
  BY NiteFacts, OpenSame DEF Report, ErrorExit, Fails
<1>6. \A e \in Date : Open(e) <=> e = d
  BY <1>1, <1>2 DEF Open
<1>7. OneFile' /\ BilledGone'
  <2>1. aside' \cap Billed = {}
    BY <1>1 DEF Located, BilledGone
  <2>2. \A e \in Date : work'[e].made =>
           /\ work[e].made /\ InNight(e)' \subseteq InNight(e)
           /\ AllOf(work'[e].bad) \subseteq AllOf(work[e].bad) \cup InNight(e)
           /\ work'[e].W[1] = None => work[e].W[1] = None \/ day[0] = None
    BY <1>1 DEF InNight
  <2> QED
    BY <1>1, <2>1, <2>2, FilesFrame DEF Located
<1>8. /\ \A e \in Date : e # d => sum'[e] = sum[e]
      /\ Contents(sum'[d]) \subseteq IF asked THEN AllOf(work[d].W) ELSE Ended(AllOf(work[d].W))
  BY <1>2, <1>4, ReportViews
<1>9. Contents(sum'[d]) \cap (pacct \cup AllDay \cup aside \cup Billed) = {}
  <2>1. Contents(sum'[d]) \subseteq AllOf(work[d].W)
    BY <1>8 DEF Ended
  <2>2. AllOf(work[d].W) \cap pacct = {} /\ AllOf(work[d].W) \cap Billed = {}
    BY <1>3 DEF Located, OneFile, BilledGone, InNight
  <2>3. ASSUME NEW g \in File PROVE Contents(sum'[d]) \cap Contents(day[g]) = {}
    <3>1. CASE g # 0
      BY <1>3, <2>1, <3>1 DEF Located, OneFile, InNight
    <3>2. CASE g = 0 /\ day[0] = None
      BY <3>2, FileFacts
    <3>3. CASE g = 0 /\ day[0] # None
      <4>1. Recycled(d)
        BY <1>4, <3>3 DEF Recycled
      <4> QED
        BY <1>4, <1>8, <3>3, <4>1 DEF NotEnded
    <3> QED
      BY <3>1, <3>2, <3>3
  <2>4. Contents(sum'[d]) \cap AllDay = {}
    BY <2>3 DEF AllDay, AllOf
  <2>5. aside \subseteq damaged
    BY DEF OfWritten
  <2> QED
    BY <1>4, <2>1, <2>2, <2>4, <2>5
<1>10. DailyFiles'
  <2>1. AllDay' = AllDay /\ Billed' = Billed
    BY <1>1, DayFrame DEF Billed
  <2>2. \A e \in Date : ~Open(e) =>
          /\ \A rec \in Contents(sum[e]) : bills[rec] = 1 /\ charged[rec] = 0
          /\ \A g \in Date : ~Open(g) /\ g # e => Contents(sum[e]) \cap Contents(sum[g]) = {}
    BY DEF Located, DailyFiles
  <2> QED
    BY <1>1, <1>5, <1>6, <1>8, <1>9, <2>1, <2>2 DEF DailyFiles
<1> QED
  BY <1>1, <1>7, <1>10 DEF Located, Once

LEMMA MvRecycledLocated ==
  ASSUME Orderly, Control, OfWritten, Nightly, Located, NEW r \in Run, MvRecycled(r)
  PROVE  Located'
<1>1. /\ run[r].pc \in Inside /\ run[r].pc = "mvrecycled" /\ Run = {r}
      /\ UNCHANGED <<nite, pacct, sum, written, aside, bills, charged>>
  BY Alone DEF MvRecycled, At, Inside, history
<1>2. PICK d \in Date : d = nite.date
  BY <1>1, Within
<1>3. work[d].made /\ Sorted(d) /\ nite.state = "REPORT" /\ \A e \in Date : work[e].made => e = d
  BY <1>1, <1>2, Within DEF Nightly, StatesAt, Control, OneNight
<1> DEFINE R == Contents(work[d].recycled)
<1>4. /\ work[d].W[1] # None /\ R = NotEnded(AllOf(work[d].W)) /\ Contents(sum[d]) = Ended(AllOf(work[d].W))
  BY <1>1, <1>3, FileFacts DEF Sorted, PastBuild
<1>5. \A e \in Date : Open(e)' <=> Open(e)
  BY <1>1, OpenSame
<1>6. /\ R \subseteq AllOf(work[d].W) /\ R \cap Contents(sum[d]) = {}
      /\ R \cap pacct = {} /\ R \cap Billed = {}
      /\ \A g \in File : g # 0 => R \cap Contents(day[g]) = {}
  <2>1. R \subseteq AllOf(work[d].W) /\ R \cap Contents(sum[d]) = {}
    BY <1>4 DEF NotEnded
  <2> HIDE DEF R
  <2> QED
    BY <1>3, <2>1 DEF Located, OneFile, BilledGone, InNight
<1>7. aside \cap R = {}
  BY <1>3, <1>6 DEF OfWritten, Nightly, Verified, PastVerify, Whole
<1>8. \/ work' = work /\ day' = day
      \/ /\ OtherDirs /\ work'[d].W = work[d].W /\ work'[d].bad = work[d].bad
         /\ work'[d].edited = work[d].edited
         /\ day'[0] = work[d].recycled /\ \A g \in File : g # 0 => day'[g] = day[g]
  BY <1>2, MvRecycledViews
<1>9. CASE work' = work /\ day' = day
  BY <1>1, <1>5, <1>9, LocatedFrame
<1>10. CASE /\ OtherDirs /\ work'[d].W = work[d].W /\ work'[d].bad = work[d].bad
            /\ work'[d].edited = work[d].edited
            /\ day'[0] = work[d].recycled /\ \A g \in File : g # 0 => day'[g] = day[g]
  <2>1. /\ Contents(day'[0]) = R /\ \A g \in File : g # 0 => Contents(day'[g]) = Contents(day[g])
        /\ 0 \in File
    BY <1>10, CsarunAssumption DEF File
  <2>2. AllDay' \subseteq AllDay \cup R
    <3>1. AllOf(day') \subseteq AllOf(day) \cup Contents(day'[0])
      BY <1>10, <2>1, AllOfChange
    <3> QED
      BY <1>10, <3>1 DEF AllDay
  <2>3. \A e \in Date : work'[e].made => e = d
    BY <1>2, <1>3, <1>10 DEF OtherDirs
  <2>4. InNight(d)' = InNight(d) /\ Billed' = Billed
    BY <1>1, <1>10 DEF InNight, Billed
  <2> HIDE DEF R
  <2>5. OneFile'
    <3>1. \A g \in File, h \in File : g # h => Contents(day'[g]) \cap Contents(day'[h]) = {}
      BY <1>6, <2>1 DEF Located, OneFile
    <3>2. \A g \in File : g # 0 => Contents(day'[g]) \cap InNight(d) = {}
      BY <1>3, <2>1 DEF Located, OneFile
    <3>3. pacct \cap AllDay' = {} /\ pacct \cap InNight(d) = {}
      BY <1>3, <1>6, <2>2 DEF Located, OneFile
    <3> QED
      BY <1>1, <1>4, <1>10, <2>3, <2>4, <3>1, <3>2, <3>3 DEF OneFile
  <2>6. BilledGone'
    BY <1>1, <1>3, <1>6, <1>10, <2>2, <2>3, <2>4 DEF Located, BilledGone
  <2>7. DailyFiles' /\ Once'
    <3>1. \A e \in Date : Open(e) => e = d
      BY <1>2 DEF Open
    <3> QED
      BY <1>1, <1>5, <1>6, <2>2, <3>1, DailyFrame DEF Located
  <2> QED
    BY <2>5, <2>6, <2>7 DEF Located
<1> QED
  BY <1>8, <1>9, <1>10

(* The night is billed.                                                    *)
LEMMA CompleteLocated ==
  ASSUME Orderly, Control, OfWritten, Located, NEW r \in Run, Complete(r)
  PROVE  /\ Located'
         /\ Contents(sum[run[r].date]) \subseteq {rec \in written \ aside : bills[rec] = 0}
         /\ bills' = [rec \in Rec |-> IF rec \in Contents(sum[run[r].date]) THEN 1 ELSE bills[rec]]
<1>1. /\ run[r].pc = "complete" /\ UNCHANGED <<pacct, day, work, sum, written, aside, charged>>
      /\ nite'.state = "COMPLETE"
  BY NiteFacts DEF Complete, At, State
<1>2. PICK d \in Date : d = nite.date /\ d = run[r].date
  BY <1>1 DEF Control, RunAt
<1>3. nite.state = "CLEANUP" /\ ~work[d].made
  BY <1>1, <1>2 DEF Control, RunAt, StatesAt, Dir
<1>4. \A e \in Date : ~work[e].made
  BY <1>2, <1>3 DEF Control, OneNight
<1>5. \A e \in Date : (Open(e) <=> e = d) /\ ~Open(e)'
  BY <1>1, <1>2, <1>3 DEF Open
<1> DEFINE S == Contents(sum[d])
<1>6. S \subseteq Rec /\ S \subseteq written /\ S \cap (pacct \cup AllDay \cup aside \cup Billed) = {}
  <2>1. S \subseteq Rec
    BY FileFacts DEF Control, CsarunTypeOK
  <2> QED
    BY <1>5, <2>1 DEF OfWritten, Located, DailyFiles
<1>7. bills' = [rec \in Rec |-> IF rec \in S THEN bills[rec] + 1 ELSE bills[rec]] /\ bills \in [Rec -> Nat] /\ charged \in [Rec -> Nat]
  BY <1>2 DEF Complete, Control, CsarunTypeOK
<1>8. \A rec \in S : bills[rec] = 0 /\ charged[rec] = 0
  BY <1>6, <1>7 DEF Billed, Located, Once
<1> HIDE DEF S
<1>9. \A rec \in Rec : bills'[rec] = IF rec \in S THEN 1 ELSE bills[rec]
  BY <1>7, <1>8
<1>10. Billed' = Billed \cup S
  BY <1>6, <1>9 DEF Billed
<1>11. OneFile' /\ BilledGone'
  BY <1>1, <1>4, <1>6, <1>10, DayFrame DEF Located, OneFile, BilledGone
<1>12. Once'
  BY <1>1, <1>6, <1>8, <1>9 DEF Located, Once
<1>13. DailyFiles'
  <2>1. \A e \in Date : e # d =>
          /\ \A rec \in Contents(sum[e]) : bills[rec] = 1 /\ charged[rec] = 0
          /\ \A g \in Date : g # d /\ g # e => Contents(sum[e]) \cap Contents(sum[g]) = {}
    BY <1>5 DEF Located, DailyFiles
  <2>2. \A e \in Date : Contents(sum[e]) \subseteq Rec
    BY FileFacts DEF Control, CsarunTypeOK
  <2>3. ASSUME NEW e \in Date, e # d PROVE Contents(sum[e]) \cap S = {}
    BY <1>8, <2>1, <2>3
  <2>4. ASSUME NEW e \in Date
        PROVE  /\ \A rec \in Contents(sum[e]) : bills'[rec] = 1 /\ charged[rec] = 0
               /\ \A g \in Date : g # e => Contents(sum[e]) \cap Contents(sum[g]) = {}
    <3>1. CASE e = d
      BY <1>6, <1>8, <1>9, <2>3, <3>1 DEF S
    <3>2. CASE e # d
      BY <1>9, <2>1, <2>2, <2>3, <3>2 DEF S
    <3> QED
      BY <3>1, <3>2
  <2> QED
    BY <1>1, <1>5, <2>4 DEF DailyFiles
<1>14. Located'
  BY <1>11, <1>12, <1>13 DEF Located
<1>15. S \subseteq {rec \in written \ aside : bills[rec] = 0}
  BY <1>6, <1>8
<1>16. bills' = [rec \in Rec |-> IF rec \in S THEN 1 ELSE bills[rec]]
  BY <1>7, <1>8
<1> QED
  BY <1>2, <1>14, <1>15, <1>16 DEF S

Charging(rec) == {d \in Date : <<d, rec>> \in period.data}

(* A record is in the daily file of one night that is complete.            *)
LEMMA ChargedOnce ==
  ASSUME Control, Located, period.pc = "remove", NEW rec \in Rec
  PROVE  /\ Charging(rec) = {} \/ \E e \in period.list : Charging(rec) = {e}
         /\ \A d \in Charging(rec) : d \in period.list /\ rec \in Contents(sum[d])
         /\ \A d \in period.list : d \in Date /\ ~Open(d)
<1>1. /\ \A d \in period.list : d \in Date /\ ~Open(d)
      /\ period.data = UNION {{d} \X Contents(sum[d]) : d \in period.list}
  BY DEF Control, PeriodAt, CsarunTypeOK, PeriodType
<1>2. \A d \in Charging(rec) : d \in period.list /\ rec \in Contents(sum[d])
  BY <1>1 DEF Charging
<1>3. ASSUME NEW d \in Charging(rec), NEW e \in Charging(rec), d # e PROVE FALSE
  <2>1. rec \in Contents(sum[d]) \cap Contents(sum[e]) /\ d \in Date /\ e \in Date /\ ~Open(d) /\ ~Open(e)
    BY <1>1, <1>2, <1>3
  <2> QED
    BY <1>3, <2>1 DEF Located, DailyFiles
<1>4. CASE Charging(rec) # {}
  <2>1. PICK e \in Charging(rec) : TRUE
    BY <1>4
  <2>2. Charging(rec) = {e} /\ e \in period.list
    BY <1>2, <1>3, <2>1
  <2> QED
    BY <1>1, <1>2, <2>2
<1> QED
  BY <1>1, <1>2, <1>4

LEMMA PeriodRemoveLocated ==
  ASSUME Control, Located, PeriodRemove
  PROVE  Located'
<1>1. period.pc = "remove" /\ UNCHANGED <<nite, pacct, day, work, run, written, aside, bills>>
  BY DEF PeriodRemove
<1>2. \A e \in Date : Open(e)' <=> Open(e)
  BY <1>1, OpenSame
<1>3. AllDay' = AllDay /\ Billed' = Billed /\ \A d \in Date : InNight(d)' = InNight(d)
  BY <1>1, DayFrame DEF Billed, InNight
<1>4. OneFile' /\ BilledGone'
  BY <1>1, <1>3 DEF Located, OneFile, BilledGone
<1>5. CASE sum' = sum /\ charged' = charged
  BY <1>1, <1>2, <1>3, <1>4, <1>5, DailyFrame DEF Located
<1>6. CASE /\ sum' = [d \in Date |-> IF d \in period.list THEN None ELSE sum[d]]
           /\ charged' = [rec \in Rec |-> charged[rec] + Cardinality(Charging(rec))]
  <2>1. charged \in [Rec -> Nat] /\ bills \in [Rec -> Nat]
    BY DEF Control, CsarunTypeOK
  <2>2. ASSUME NEW rec \in Rec, Charging(rec) = {} PROVE charged'[rec] = charged[rec]
    <3>1. Cardinality(Charging(rec)) = 0
      BY <2>2, FS_EmptySet
    <3>2. charged'[rec] = charged[rec] + Cardinality(Charging(rec)) /\ charged[rec] \in Nat
      BY <1>6, <2>1
    <3> QED
      BY <3>1, <3>2
  <2>3. ASSUME NEW rec \in Rec, Charging(rec) # {}
        PROVE  charged'[rec] = 1 /\ bills[rec] = 1
    <3>1. PICK e \in period.list : Charging(rec) = {e}
      BY <1>1, <2>3, ChargedOnce
    <3>2. Cardinality(Charging(rec)) = 1
      BY <3>1, FS_Singleton
    <3>3. e \in Date /\ ~Open(e) /\ rec \in Contents(sum[e])
      BY <1>1, <3>1, ChargedOnce
    <3>4. bills[rec] = 1 /\ charged[rec] = 0
      BY <3>3 DEF Located, DailyFiles
    <3> QED
      BY <1>6, <2>1, <3>2, <3>4
  <2>4. Once'
    BY <1>1, <2>1, <2>2, <2>3 DEF Located, Once
  <2>5. \A d \in period.list : d \in Date /\ ~Open(d)
    BY <1>1 DEF Control, PeriodAt, CsarunTypeOK, PeriodType
  <2>6. \A d \in Date : Contents(sum'[d]) = IF d \in period.list THEN {} ELSE Contents(sum[d])
    BY <1>6, FileFacts
  <2>7. ASSUME NEW d \in Date, d \notin period.list, ~Open(d), NEW rec \in Contents(sum[d])
        PROVE  bills[rec] = 1 /\ charged'[rec] = 0
    <3>1. rec \in Rec
      BY FileFacts DEF Control, CsarunTypeOK
    <3>2. ASSUME NEW e \in Charging(rec) PROVE FALSE
      <4>1. e \in Date /\ ~Open(e) /\ rec \in Contents(sum[e]) /\ e # d
        BY <1>1, <2>7, <3>1, <3>2, ChargedOnce
      <4> QED
        BY <2>7, <4>1 DEF Located, DailyFiles
    <3>3. Charging(rec) = {}
      BY <3>2
    <3>4. bills[rec] = 1 /\ charged[rec] = 0
      BY <2>7 DEF Located, DailyFiles
    <3> QED
      BY <2>2, <3>1, <3>3, <3>4
  <2>8. \A d \in Date, e \in Date : ~Open(d) /\ ~Open(e) /\ e # d => Contents(sum'[d]) \cap Contents(sum'[e]) = {}
    BY <2>6 DEF Located, DailyFiles
  <2>9. \A d \in Date : Open(d) => Contents(sum'[d]) \cap (pacct \cup AllDay \cup aside \cup Billed) = {}
    BY <2>6 DEF Located, DailyFiles
  <2>10. DailyFiles'
    BY <1>1, <1>2, <1>3, <2>6, <2>7, <2>8, <2>9 DEF DailyFiles
  <2> QED
    BY <1>4, <2>4, <2>10 DEF Located
<1> QED
  BY <1>5, <1>6, Zenon DEF PeriodRemove, Charging

LEMMA InitLocated == Init => Located
<1> SUFFICES ASSUME Init PROVE Located
  OBVIOUS
<1>1. /\ AllDay = {} /\ \A f \in File : Contents(day[f]) = {}
      /\ \A d \in Date : ~work[d].made /\ Contents(sum[d]) = {}
  BY DirFacts, AllOfNone, FileFacts DEF Init, AllDay
<1>2. Billed = {} /\ \A rec \in Rec : bills[rec] = 0 /\ charged[rec] = 0
  BY DEF Init, Billed
<1> QED
  BY <1>1, <1>2 DEF Init, Located, OneFile, BilledGone, DailyFiles, Once

LEMMA RestartOpen ==
  ASSUME Orderly, Control, NEW r \in Run, Restart(r)
  PROVE  nite'.date = nite.date /\ ((nite'.state = "COMPLETE") <=> (nite.state = "COMPLETE"))
<1> DEFINE state == IF run[r].arg # "restart" THEN run[r].arg ELSE nite.state
           again == state \in {"ARCHIVE2", "CMS", "REPORT", "DREP", "FEF"}
<1>1. /\ run[r].pc = "args" /\ run[r].arg \in {"restart", "SETUP", "VERIFY"} /\ nite \in NiteType
      /\ (run[r].arg # "restart" => nite.state # "COMPLETE")
  <2>1. /\ run[r].pc = "args" /\ run[r].arg \in {"none", "cron", "restart"} \cup Named
        /\ run[r].arg # "none" /\ run[r].arg # "cron"
    BY DEF Restart, At, Control, CsarunTypeOK, RunType, RunAt
  <2> QED
    BY <2>1, NiteFacts DEF Orderly, Control, RunAt
<1>2. state \in State /\ "BUILD" \in State /\ ((state = "COMPLETE") <=> (nite.state = "COMPLETE"))
  BY <1>1 DEF State, NiteType
<1>3. \/ nite' = [nite EXCEPT !.lock = FALSE, !.state = state]
      \/ nite' = [nite EXCEPT !.state = state]
      \/ again /\ Dir(r).made /\ nite' = [nite EXCEPT !.state = "BUILD"]
  BY Zenon DEF Restart
<1>4. Dir(r).made => nite.state # "COMPLETE"
  BY <1>1 DEF Control, RunAt, OneNight, Dir
<1> HIDE DEF state
<1>5. nite'.date = nite.date /\ (nite'.state = state \/ (nite'.state = "BUILD" /\ Dir(r).made))
  BY <1>1, <1>2, <1>3 DEF NiteType
<1> QED
  BY <1>2, <1>4, <1>5

LEMMA NextLocated ==
  Orderly /\ Control /\ Numbers /\ OfWritten /\ Nightly /\ Nightly' /\ Located /\ [Next]_vars => Located'
<1> SUFFICES ASSUME Orderly, Control, Numbers, OfWritten, Nightly, Nightly', Located, [Next]_vars PROVE Located'
  OBVIOUS
<1>1. ASSUME UNCHANGED <<pacct, day, written, bills, charged, aside, work, sum>>,
             \A d \in Date : Open(d)' <=> Open(d)
      PROVE  Located'
  BY <1>1, LocatedFrame DEF Control, OneNight
<1>2. CASE UNCHANGED vars \/ Unlock \/ PeriodStart \/ PeriodList \/ PeriodAdd
  <2>1. /\ UNCHANGED <<pacct, day, written, bills, charged, aside, work, sum>>
        /\ nite' = nite \/ nite' = [nite EXCEPT !.lock = FALSE]
    BY <1>2, Zenon DEF vars, Unlock, PeriodStart, PeriodList, PeriodAdd, nights, history
  <2> QED
    BY <1>1, <2>1, NiteFacts, OpenSame
<1>3. CASE Switch
  BY <1>3, OpenSame, PutAsideLocated DEF Switch, history
<1>4. ASSUME NEW r \in Run,
             Invoke(r) \/ MakeLock(r) \/ Ls(r) \/ Verify(r) \/ ReadOnly(r) \/ Reports(r) \/ RemoveLock(r) \/ Crash(r)
      PROVE  Located'
  <2>1. UNCHANGED <<pacct, day, written, bills, charged, aside, work, sum>>
    BY <1>4, Zenon DEF Invoke, MakeLock, Ls, Verify, ReadOnly, Reports, RemoveLock, Crash, nights, history
  <2>2. nite' = nite \/ \E b \in BOOLEAN : nite' = [nite EXCEPT !.lock = b]
    BY <1>4 DEF Invoke, MakeLock, Ls, Verify, ReadOnly, Reports, RemoveLock, Crash, nights, ErrorExit, Fails
  <2> QED
    BY <1>1, <2>1, <2>2, NiteFacts, OpenSame
<1>5. ASSUME NEW r \in Run, Start(r) PROVE Located'
  <2>1. UNCHANGED <<pacct, day, written, bills, charged, aside, work, sum>>
    BY <1>5, Zenon DEF Start
  <2>2. \/ nite' = [nite EXCEPT !.lock = FALSE]
        \/ nite.state = "COMPLETE" /\ nite' = [nite EXCEPT !.date = run[r].date]
    BY <1>5, Zenon DEF Start, Fails, ErrorExit
  <2>3. CASE nite.state = "COMPLETE" /\ nite' = [nite EXCEPT !.date = run[r].date]
    <3>1. nite'.state = "COMPLETE"
      BY <2>3 DEF Control, CsarunTypeOK
    <3> QED
      BY <1>1, <2>1, <2>3, <3>1 DEF Open
  <2> QED
    BY <1>1, <2>1, <2>2, <2>3, NiteFacts, OpenSame
<1>6. ASSUME NEW r \in Run, Advance(r) PROVE Located'
  <2>1. UNCHANGED <<pacct, day, written, bills, charged, aside, work, sum>>
    BY <1>6, Zenon DEF Advance, history
  <2>2. run[r].pc \in Inside /\ run[r].pc = "next"
    BY <1>6 DEF Advance, At, Inside
  <2>3. run[r].at \in State \ {"CLEANUP", "COMPLETE"} /\ nite.state # "COMPLETE"
    BY <2>2, Within DEF StatesAt
  <2>4. After(run[r].at) \in State \ {"COMPLETE"}
    BY <2>3, AfterFacts DEF State
  <2>5. nite'.state # "COMPLETE" /\ nite'.date = nite.date
    BY <1>6, <2>4, NiteFacts DEF Advance
  <2> QED
    BY <1>1, <2>1, <2>3, <2>5, OpenSame
<1>7. ASSUME NEW r \in Run, Restart(r) PROVE Located'
  <2>1. UNCHANGED <<pacct, day, written, bills, charged, aside, work, sum>>
    BY <1>7, Zenon DEF Restart, history
  <2>2. nite'.date = nite.date /\ ((nite'.state = "COMPLETE") <=> (nite.state = "COMPLETE"))
    BY <1>7, RestartOpen
  <2> QED
    BY <1>1, <2>1, <2>2, OpenSame
<1>8. ASSUME NEW r \in Run, Setup(r) PROVE Located'
  <2>1. UNCHANGED <<written, bills, charged, aside, work, sum>> /\ (PutAside \/ UNCHANGED <<pacct, day>>)
    BY <1>8, Zenon DEF Setup, history
  <2>2. \A d \in Date : Open(d)' <=> Open(d)
    BY <1>8, NiteFacts, OpenSame DEF Setup, Fails, ErrorExit
  <2> QED
    BY <1>1, <2>1, <2>2, PutAsideLocated
<1>9. ASSUME NEW r \in Run, MakeDir(r) PROVE Located'
  <2>1. UNCHANGED <<nite, pacct, day, sum, written, bills, charged, aside>>
    BY <1>9, Zenon DEF MakeDir, history
  <2>2. \A d \in Date : work'[d] = work[d] \/ work'[d] = EmptyDir
    BY <1>9 DEF MakeDir, Control, CsarunTypeOK
  <2>3. \A d \in Date : Open(d)' <=> Open(d)
    BY <2>1, OpenSame
  <2> QED
    BY <2>1, <2>2, <2>3, LocatedFrame
<1>10. ASSUME NEW r \in Run, Build(r) \/ Recycle(r) \/ RemoveWork(r) PROVE Located'
  <2>1. UNCHANGED <<pacct, day, sum, written, bills, charged, aside>> /\ run[r].pc \in Inside
    BY <1>10, Zenon DEF Build, Recycle, RemoveWork, history, In, At, Inside
  <2>2. \A d \in Date : Open(d)' <=> Open(d)
    BY <1>10, NiteFacts, OpenSame DEF Build, Recycle, RemoveWork, ErrorExit, Fails
  <2>3. \A d \in Date : work'[d].made =>
          work[d].made /\ work'[d].W = work[d].W /\ work'[d].bad = work[d].bad /\ work'[d].edited = work[d].edited
    BY <1>10, <2>1, Within, BuildViews, RecycleViews, RemoveWorkViews, DirFacts DEF Ends, OtherDirs
  <2> QED
    BY <2>1, <2>2, <2>3, LocatedFrame
<1>11. ASSUME NEW r \in Run, Step(r) PROVE Located'
  BY <1>4, <1>5, <1>6, <1>7, <1>8, <1>9, <1>10, <1>11, WriteStateLocated, MvLocated, VerifyLocated, ReportLocated,
     MvRecycledLocated, CompleteLocated DEF Step
<1> QED
  BY <1>2, <1>3, <1>4, <1>11, CsadLocated, PeriodRemoveLocated DEF Next

(***************************************************************************)
(* The theorems                                                            *)
(***************************************************************************)
NightsInv == Orderly /\ Control /\ Numbers /\ OfWritten /\ Nightly /\ Located

(* Whatever csad, csarun, its restarts and csaperiod do, in any order, and *)
(* wherever a run dies: one night at a time is in work, its files have no  *)
(* gap in their numbers, and each record is in one of them.                *)
THEOREM NightsInvariant ==
  ASSUME Orderly
  PROVE  Spec => []NightsInv
<1>1. Init => NightsInv
  BY InitControl, InitNumbers, InitWritten, InitNightly, InitLocated DEF NightsInv
<1>2. NightsInv /\ [Next]_vars => NightsInv'
  <2> SUFFICES ASSUME NightsInv, [Next]_vars PROVE NightsInv'
    OBVIOUS
  <2>1. Control' /\ Numbers' /\ OfWritten'
    BY NextControl, NextNumbers, NextWritten DEF NightsInv
  <2>2. Nightly'
    BY <2>1, NextNightly DEF NightsInv
  <2>3. Located'
    BY <2>2, NextLocated DEF NightsInv
  <2> QED
    BY <2>1, <2>2, <2>3 DEF NightsInv, Orderly
<1> QED
  BY <1>1, <1>2, PTL DEF Spec

(* csaperiod charges a record in one period at most, and only after its    *)
(* night was completed: for any number of records, nights and faults.      *)
THEOREM PeriodsFollowNights ==
  ASSUME Orderly
  PROVE  Spec => []PeriodFollowsNights
<1>1. NightsInv => PeriodFollowsNights
  BY DEF NightsInv, Located, Once, PeriodFollowsNights
<1> QED
  BY <1>1, NightsInvariant, PTL

(***************************************************************************)
(* The abstract specification                                              *)
(***************************************************************************)
LEMMA NightsStep ==
  ASSUME NightsInv, [Next]_vars
  PROVE  [Nights!BNext]_(Nights!bvars)
<1> USE DEF Nights!bvars
<1>1. CASE UNCHANGED <<written, bills, aside>>
  BY <1>1
<1>2. ASSUME NEW rec \in Rec, CsadWrites(rec) PROVE [Nights!BNext]_(Nights!bvars)
  <2>1. Nights!Write({rec})
    BY <1>2 DEF CsadWrites, Nights!Write
  <2> QED
    BY <2>1 DEF Nights!BNext
<1>3. ASSUME NEW r \in Run, MvGood(r) PROVE [Nights!BNext]_(Nights!bvars)
  <2>1. PICK d \in Date : d = nite.date /\ d = run[r].date
    BY <1>3 DEF MvGood, At, NightsInv, Control, RunAt
  <2> DEFINE S == (AllOf(work[d].bad) \cap damaged) \ aside
  <2>2. aside' = aside \cup S /\ UNCHANGED <<written, bills>>
    BY <1>3, <2>1 DEF MvGood, Dir
  <2>3. work[d].made
    BY <1>3, <2>1 DEF MvGood, At, NightsInv, Control, RunAt, Inside, Dir
  <2>4. S \subseteq written /\ S \cap Billed = {} /\ written \subseteq Rec
    BY <2>3 DEF NightsInv, OfWritten, Located, BilledGone, Control, CsarunTypeOK
  <2>5. S \cap aside = {}
    OBVIOUS
  <2>6. S \subseteq {rec \in written \ aside : bills[rec] = 0} /\ S \in SUBSET Rec
    <3> HIDE DEF S
    <3>1. \A rec \in Rec : bills[rec] \in Nat
      BY DEF NightsInv, Control, CsarunTypeOK
    <3> QED
      BY <2>4, <2>5, <3>1 DEF Billed
  <2> HIDE DEF S
  <2>7. Nights!SetAside(S)
    BY <2>2, <2>6 DEF Nights!SetAside
  <2> QED
    BY <2>6, <2>7 DEF Nights!BNext
<1>4. ASSUME NEW r \in Run, Complete(r) PROVE [Nights!BNext]_(Nights!bvars)
  <2> DEFINE S == Contents(sum[run[r].date])
  <2>1. /\ S \subseteq {rec \in written \ aside : bills[rec] = 0}
        /\ bills' = [rec \in Rec |-> IF rec \in S THEN 1 ELSE bills[rec]]
    BY <1>4, CompleteLocated DEF NightsInv
  <2>2. UNCHANGED <<written, aside>>
    BY <1>4 DEF Complete
  <2>3. written \subseteq Rec
    BY DEF NightsInv, Control, CsarunTypeOK
  <2> HIDE DEF S
  <2>4. Nights!Bill(S) /\ S \in SUBSET Rec
    BY <2>1, <2>2, <2>3 DEF Nights!Bill
  <2> QED
    BY <2>4 DEF Nights!BNext
<1>5. CASE UNCHANGED vars \/ Switch \/ Unlock \/ PeriodStart \/ PeriodList \/ PeriodAdd \/ PeriodRemove
  BY <1>1, <1>5, Zenon DEF vars, Switch, Unlock, PeriodStart, PeriodList, PeriodAdd, PeriodRemove, history
<1>6. ASSUME NEW r \in Run, Invoke(r) \/ Crash(r) \/ MakeLock(r) \/ Start(r) \/ WriteState(r) \/ MakeDir(r) \/ Restart(r)
      PROVE  UNCHANGED <<written, bills, aside>>
  BY <1>6, Zenon DEF Invoke, Crash, MakeLock, Start, WriteState, MakeDir, Restart, history
<1>7. ASSUME NEW r \in Run, Advance(r) \/ Setup(r) \/ Ls(r) \/ Mv(r) \/ Verify(r) \/ VerifyFile(r) \/ MvBad(r)
      PROVE  UNCHANGED <<written, bills, aside>>
  BY <1>7, Zenon DEF Advance, Setup, Ls, Mv, Verify, VerifyFile, MvBad, history
<1>8. ASSUME NEW r \in Run, ReadOnly(r) \/ Build(r) \/ Report(r) \/ Recycle(r) \/ MvRecycled(r) \/ Reports(r)
                            \/ RemoveWork(r) \/ RemoveLock(r)
      PROVE  UNCHANGED <<written, bills, aside>>
  BY <1>8, Zenon DEF ReadOnly, Build, Report, Recycle, MvRecycled, Reports, RemoveWork, RemoveLock, history
<1> QED
  BY <1>1, <1>2, <1>3, <1>4, <1>5, <1>6, <1>7, <1>8 DEF Next, Step

(* csarun, its restarts, csarecy and csaperiod implement Billing: however  *)
(* many nights, files and records there are, with damaged records taken    *)
(* out and a run dying between any two commands that Orderly allows, no    *)
(* record is reported in two nights, and none that was taken out in one.   *)
THEOREM NoNightBillsTwice ==
  ASSUME Orderly
  PROVE  Spec => BillsOnce
<1>1. Init => Nights!BInit
  BY StartAssumption DEF Init, Nights!BInit
<1>2. NightsInv /\ [Next]_vars => [Nights!BNext]_(Nights!bvars)
  BY NightsStep
<1> QED
  BY <1>1, <1>2, NightsInvariant, PTL DEF Spec, BillsOnce, Nights!BSpec

(***************************************************************************)
(* Every record is kept                                                    *)
(***************************************************************************)
(* After its work directory has gone the night has the daily file only.    *)
Leaving(rec) ==
  \E r \in Run : run[r].pc \in {"unlock", "complete"} /\ rec \in Contents(sum[run[r].date])
Held == \A rec \in written : rec \in Kept \cup aside \cup Billed \/ Leaving(rec)

(* After REPORT each record of the night is reported or recycled.          *)
PastReport == {"DREP", "FEF", "USEREXIT", "CLEANUP"}
Handed ==
  \/ nite.state \in PastReport
  \/ nite.state = "REPORT" /\ \E r \in Run : run[r].pc \in {"reports", "next"}
Reported ==
  \A d \in Date : work[d].made /\ Handed => AllOf(work[d].W) \subseteq Contents(sum[d]) \cup Contents(day[0])

(* The end of a job is in no night before the processes of the job are.    *)
EndLast ==
  \A j \in Ending : <<j, "end">> \in written =>
    /\ <<j, "proc">> \in written
    /\ <<j, "proc">> \in pacct => <<j, "end">> \in pacct
    /\ ~Moving => \A d \in Date : <<j, "end">> \in InNight(d) => <<j, "proc">> \notin AllDay
    /\ \A d \in Date : Open(d) /\ <<j, "end">> \in Contents(sum[d]) =>
         <<j, "proc">> \in Contents(sum[d]) \cup aside \cup Billed

(***************************************************************************)
(* Every record is kept                                                    *)
(***************************************************************************)
LEMMA NotLeaving ==
  ASSUME Orderly, NEW r \in Run, run[r].pc \notin {"unlock", "complete"}
  PROVE  \A rec : ~Leaving(rec)
BY DEF Orderly, Leaving

(* A step that leaves each record in some file of the day or of the night. *)
LEMMA HeldFrame ==
  ASSUME Held, written' = written, bills' = bills, aside \subseteq aside',
         \A rec : Leaving(rec) => Leaving(rec)',
         NEW d \in Date, \A e \in Date : e # d => work'[e] = work[e],
         pacct \cup AllDay \cup InDir(work[d]) \subseteq pacct' \cup AllDay' \cup InDir(work'[d]) \cup aside'
  PROVE  Held'
<1>1. Kept \subseteq Kept' \cup aside'
  <2>1. pacct' \cup AllDay' \cup InDir(work'[d]) \subseteq Kept'
    BY DEF Kept, AllDay
  <2>2. \A e \in Date : e # d => InDir(work[e]) \subseteq Kept'
    BY DEF Kept
  <2> QED
    BY <2>1, <2>2 DEF Kept, AllDay
<1>2. Billed' = Billed
  BY DEF Billed
<1> QED
  BY <1>1, <1>2 DEF Held

LEMMA HeldSame ==
  ASSUME Held, UNCHANGED <<pacct, day, work, written, bills, aside>>, \A rec : Leaving(rec) => Leaving(rec)'
  PROVE  Held'
<1>1. Kept' = Kept /\ Billed' = Billed
  BY DEF Kept, Billed
<1> QED
  BY <1>1 DEF Held

LEMMA PutAsideHeld ==
  ASSUME Control, Held, PutAside, UNCHANGED <<work, written, bills, aside>>, \A rec : Leaving(rec) => Leaving(rec)'
  PROVE  Held'
<1>1. AllDay' = AllDay \cup pacct
  BY PutAsideWritten, NiteFacts
<1>2. Kept \subseteq Kept' /\ Billed' = Billed
  BY <1>1 DEF Kept, AllDay, Billed
<1> QED
  BY <1>2 DEF Held

LEMMA CsadHeld ==
  ASSUME Held, NEW rec \in Rec, CsadWrites(rec)
  PROVE  Held'
<1>1. /\ pacct' = pacct \cup {rec} /\ written' = written \cup {rec}
      /\ UNCHANGED <<day, work, sum, run, bills, aside>>
  BY DEF CsadWrites
<1>2. Kept' = Kept \cup {rec} /\ Billed' = Billed
  BY <1>1 DEF Kept, Billed
<1>3. \A e : Leaving(e)' <=> Leaving(e)
  BY <1>1 DEF Leaving
<1> QED
  BY <1>1, <1>2, <1>3 DEF Held

(* The commands that move no file.                                         *)
LEMMA QuietHeld ==
  ASSUME Orderly, Control, Held, NEW r \in Run,
         \/ Invoke(r) \/ Crash(r) \/ MakeLock(r) \/ Start(r) \/ WriteState(r) \/ Restart(r) \/ Advance(r) \/ Ls(r)
         \/ Verify(r) \/ ReadOnly(r) \/ Report(r) \/ Reports(r) \/ RemoveLock(r)
  PROVE  Held'
<1>1. UNCHANGED <<pacct, day, work, written, bills, aside>>
  BY Zenon DEF Invoke, Crash, MakeLock, Start, WriteState, Restart, Advance, Ls, Verify, ReadOnly, Report, Reports,
     RemoveLock, nights, history
<1>2. CASE RemoveLock(r)
  <2>1. run[r].pc = "unlock" /\ run'[r].pc = "complete" /\ run'[r].date = run[r].date /\ sum' = sum
    BY <1>2 DEF RemoveLock, At, Goto, Control, CsarunTypeOK, RunType
  <2>2. \A rec : Leaving(rec) => Leaving(rec)'
    BY <2>1 DEF Orderly, Leaving
  <2> QED
    BY <1>1, <2>2, HeldSame
<1>3. CASE run[r].pc \notin {"unlock", "complete"}
  BY <1>1, <1>3, NotLeaving, HeldSame
<1>4. CASE Crash(r)
  <2>1. run[r].pc \notin {"unlock", "complete"}
    BY <1>4 DEF Crash, At, Orderly
  <2> QED
    BY <1>3, <2>1
<1>5. ~RemoveLock(r) /\ ~Crash(r) => run[r].pc \notin {"unlock", "complete"}
  BY DEF Invoke, MakeLock, Start, WriteState, Restart, Advance, Ls, Verify, ReadOnly, Report, Reports, At, In
<1> QED
  BY <1>2, <1>3, <1>4, <1>5

LEMMA OthersHeld ==
  ASSUME Orderly, Control, Held, UNCHANGED vars \/ Switch \/ Unlock \/ PeriodStart \/ PeriodList \/ PeriodAdd \/ PeriodRemove
  PROVE  Held'
<1>1. CASE UNCHANGED vars \/ Unlock \/ PeriodStart \/ PeriodList \/ PeriodAdd
  <2>1. UNCHANGED <<pacct, day, work, sum, run, written, bills, aside>>
    BY <1>1, Zenon DEF vars, Unlock, PeriodStart, PeriodList, PeriodAdd, nights, history
  <2>2. \A rec : Leaving(rec)' <=> Leaving(rec)
    BY <2>1 DEF Leaving
  <2> QED
    BY <2>1, <2>2, HeldSame
<1>2. CASE Switch
  <2>1. PutAside /\ UNCHANGED <<work, sum, run, written, bills, aside>>
    BY <1>2 DEF Switch, history
  <2>2. \A rec : Leaving(rec)' <=> Leaving(rec)
    BY <2>1 DEF Leaving
  <2> QED
    BY <2>1, <2>2, PutAsideHeld
<1>3. CASE PeriodRemove
  <2>1. UNCHANGED <<pacct, day, work, written, bills, aside>> /\ period.pc = "remove"
    BY <1>3, Zenon DEF PeriodRemove
  <2>2. \A rec : ~Leaving(rec)
    BY <2>1 DEF Control, PeriodAt, Leaving
  <2> QED
    BY <2>1, <2>2, HeldSame
<1> QED
  BY <1>1, <1>2, <1>3

(* What is in a work directory besides the numbered files was in one of    *)
(* these, or is set aside.                                                 *)
LEMMA DirKept ==
  ASSUME Orderly, Control, Nightly, NEW d \in Date, work[d].made, NEW r \in Run, run[r].pc # "mvgood"
  PROVE  InDir(work[d]) \subseteq AllOf(work[d].W) \cup aside
BY DEF Nightly, Edited, Sorted, InDir, Orderly

LEMMA SetupHeld ==
  ASSUME Orderly, Control, Held, NEW r \in Run, Setup(r) \/ MakeDir(r)
  PROVE  Held'
<1>1. run[r].pc \notin {"unlock", "complete"} /\ UNCHANGED <<written, bills, aside>>
  BY DEF Setup, MakeDir, In, At, history
<1>2. CASE Setup(r)
  <2>1. work' = work /\ (PutAside \/ UNCHANGED <<pacct, day>>)
    BY <1>2, Zenon DEF Setup
  <2> QED
    BY <1>1, <2>1, NotLeaving, HeldSame, PutAsideHeld
<1>3. CASE MakeDir(r)
  <2>1. PICK d \in Date : d = run[r].date
    BY <1>3 DEF MakeDir, At, Control, RunAt
  <2>2. work[d] = NoDir /\ work'[d] = EmptyDir /\ (\A e \in Date : e # d => work'[e] = work[e]) /\ UNCHANGED <<pacct, day>>
    BY <1>3, <2>1 DEF MakeDir, At, Control, RunAt, OneNight, CsarunTypeOK, Dir
  <2>3. InDir(work[d]) = {}
    BY <2>2, EmptyIn
  <2> QED
    BY <1>1, <2>2, <2>3, DayFrame, NotLeaving, HeldFrame
<1> QED
  BY <1>2, <1>3

LEMMA MvHeld ==
  ASSUME Orderly, Control, Numbers, Held, NEW r \in Run, Mv(r)
  PROVE  Held'
<1>1. /\ run[r].pc = "mv" /\ run[r].pc \in Inside /\ run[r].pc \notin {"unlock", "complete"}
      /\ UNCHANGED <<pacct, written, bills, aside>>
  BY DEF Mv, At, Inside, history
<1>2. PICK d \in Date : d = nite.date
  BY <1>1, Within
<1> DEFINE f == Min(run[r].todo)
<1>3. \/ day' = day /\ work' = work
      \/ /\ f \in File /\ day'[f] = None /\ \A g \in File : g # f => day'[g] = day[g]
         /\ OtherDirs /\ work[d].W[f] = None
         /\ work'[d].W[f] = day[f] /\ \A g \in File : g # f => work'[d].W[g] = work[d].W[g]
         /\ work'[d].bad = work[d].bad /\ work'[d].edited = work[d].edited
         /\ work'[d].recycled = work[d].recycled
  BY <1>2, MvViews
<1> HIDE DEF f
<1>4. CASE day' = day /\ work' = work
  BY <1>1, <1>4, NotLeaving, HeldSame
<1>5. CASE /\ f \in File /\ day'[f] = None /\ \A g \in File : g # f => day'[g] = day[g]
           /\ OtherDirs /\ work[d].W[f] = None
           /\ work'[d].W[f] = day[f] /\ \A g \in File : g # f => work'[d].W[g] = work[d].W[g]
           /\ work'[d].bad = work[d].bad /\ work'[d].edited = work[d].edited
           /\ work'[d].recycled = work[d].recycled
  <2>1. AllOf(work[d].W) \subseteq AllOf(work'[d].W) \cup Contents(work[d].W[f]) /\ Contents(work'[d].W[f]) \subseteq AllOf(work'[d].W)
    <3>1. f \in File /\ \A g \in File : g # f => work'[d].W[g] = work[d].W[g]
      BY <1>5
    <3> QED
      BY <3>1, AllOfChange
  <2>2. AllOf(day) \subseteq AllOf(day') \cup Contents(day[f])
    BY <1>5, AllOfChange
  <2>3. AllDay \subseteq AllDay' \cup AllOf(work'[d].W) /\ AllOf(work[d].W) \subseteq AllOf(work'[d].W)
    <3>1. Contents(work'[d].W[f]) = Contents(day[f]) /\ Contents(work[d].W[f]) = {}
      BY <1>5, FileFacts
    <3> QED
      BY <2>1, <2>2, <3>1 DEF AllDay
  <2>4. pacct \cup AllDay \cup InDir(work[d]) \subseteq pacct' \cup AllDay' \cup InDir(work'[d]) \cup aside'
    BY <1>1, <1>5, <2>3 DEF InDir
  <2> QED
    BY <1>1, <1>2, <1>5, <2>4, NotLeaving, HeldFrame DEF OtherDirs
<1> QED
  BY <1>3, <1>4, <1>5

LEMMA VerifyHeld ==
  ASSUME Orderly, Control, Nightly, Held, NEW r \in Run, VerifyFile(r) \/ MvBad(r) \/ MvGood(r)
  PROVE  Held'
<1> DEFINE f == Min(run[r].todo)
<1>1. /\ run[r].pc \in Inside /\ run[r].pc \notin {"unlock", "complete"} /\ UNCHANGED <<pacct, day, written, bills>>
      /\ AllDay' = AllDay
  BY DayFrame DEF VerifyFile, MvBad, MvGood, At, Inside, history
<1>2. PICK d \in Date : d = nite.date
  BY <1>1, Within
<1>3. work[d].made
  BY <1>1, <1>2, Within
<1>4. CASE VerifyFile(r)
  <2>1. aside' = aside /\ run[r].pc # "mvgood"
    BY <1>4 DEF VerifyFile, At, history
  <2>2. work' = work \/ (OtherDirs /\ work'[d].W = work[d].W)
    BY <1>2, <1>4, VerifyFileViews DEF Ends
  <2>3. InDir(work[d]) \subseteq AllOf(work[d].W) \cup aside
    BY <1>3, <2>1, DirKept
  <2>4. CASE OtherDirs /\ work'[d].W = work[d].W
    <3>1. InDir(work[d]) \subseteq InDir(work'[d]) \cup aside'
      BY <2>1, <2>3, <2>4 DEF InDir
    <3> QED
      BY <1>1, <1>2, <2>1, <2>4, <3>1, NotLeaving, HeldFrame DEF OtherDirs
  <2> QED
    BY <1>1, <2>1, <2>2, <2>4, NotLeaving, HeldSame
<1>5. CASE MvBad(r)
  <2>1. /\ f \in File /\ OtherDirs /\ \A g \in File : g # f => work'[d].W[g] = work[d].W[g]
        /\ work'[d].bad[f] = work[d].W[f]
    BY <1>2, <1>5, MvBadViews
  <2>2. aside' = aside /\ run[r].pc # "mvgood"
    BY <1>5 DEF MvBad, At, history
  <2> HIDE DEF f
  <2>3. InDir(work[d]) \subseteq AllOf(work[d].W) \cup aside
    BY <1>3, <2>2, DirKept
  <2>4. AllOf(work[d].W) \subseteq AllOf(work'[d].W) \cup Contents(work[d].W[f])
    BY <2>1, AllOfChange
  <2>5. Contents(work'[d].bad[f]) \subseteq AllOf(work'[d].bad)
    BY <2>1 DEF AllOf
  <2>6. InDir(work[d]) \subseteq InDir(work'[d]) \cup aside'
    BY <2>1, <2>2, <2>3, <2>4, <2>5 DEF InDir
  <2> QED
    BY <1>1, <1>2, <2>1, <2>2, <2>6, NotLeaving, HeldFrame DEF OtherDirs
<1>6. CASE MvGood(r)
  <2>1. /\ f \in File /\ OtherDirs /\ work'[d].bad = work[d].bad /\ work'[d].recycled = work[d].recycled
        /\ work'[d].W[f] = work[d].edited /\ \A g \in File : g # f => work'[d].W[g] = work[d].W[g]
        /\ aside \subseteq aside'
    BY <1>2, <1>6, MvGoodViews
  <2>2. work[d].W[f] = None
    BY <1>3, <1>6 DEF Nightly, Editing, MvGood, At
  <2> HIDE DEF f
  <2>3. AllOf(work[d].W) \cup Contents(work[d].edited) \subseteq AllOf(work'[d].W)
    <3>1. AllOf(work[d].W) \subseteq AllOf(work'[d].W) \cup Contents(work[d].W[f]) /\ Contents(work'[d].W[f]) \subseteq AllOf(work'[d].W)
      BY <2>1, AllOfChange
    <3> QED
      BY <2>1, <2>2, <3>1, FileFacts
  <2>4. InDir(work[d]) \subseteq InDir(work'[d]) \cup aside'
    BY <2>1, <2>3 DEF InDir
  <2> QED
    BY <1>1, <1>2, <2>1, <2>4, NotLeaving, HeldFrame DEF OtherDirs
<1> QED
  BY <1>4, <1>5, <1>6

LEMMA ReportHeld ==
  ASSUME Orderly, Control, Nightly, Held, NEW r \in Run, Build(r) \/ Recycle(r) \/ MvRecycled(r)
  PROVE  Held'
<1>1. /\ run[r].pc \in Inside /\ run[r].pc \notin {"unlock", "complete", "mvgood"} /\ UNCHANGED <<pacct, written, bills, aside>>
  BY DEF Build, Recycle, MvRecycled, In, At, Inside, history
<1>2. PICK d \in Date : d = nite.date
  BY <1>1, Within
<1>3. work[d].made /\ Sorted(d) /\ InDir(work[d]) \subseteq AllOf(work[d].W) \cup aside
  BY <1>1, <1>2, Within, DirKept DEF Nightly
<1>4. \/ work' = work /\ day' = day
      \/ OtherDirs /\ work'[d].W = work[d].W /\ day' = day
      \/ /\ MvRecycled(r) /\ OtherDirs /\ work'[d].W = work[d].W
         /\ day'[0] = work[d].recycled /\ \A g \in File : g # 0 => day'[g] = day[g]
  <2>1. CASE Build(r)
    BY <1>2, <2>1, BuildViews DEF Build, Ends
  <2>2. CASE Recycle(r)
    BY <1>2, <2>2, RecycleViews DEF Recycle
  <2>3. CASE MvRecycled(r)
    BY <1>2, <2>3, MvRecycledViews
  <2> QED
    BY <2>1, <2>2, <2>3
<1>5. CASE work' = work /\ day' = day
  BY <1>1, <1>5, NotLeaving, HeldSame
<1>6. ASSUME OtherDirs, work'[d].W = work[d].W, AllDay \subseteq AllDay' \cup AllOf(work[d].W)
      PROVE  Held'
  <2>1. pacct \cup AllDay \cup InDir(work[d]) \subseteq pacct' \cup AllDay' \cup InDir(work'[d]) \cup aside'
    BY <1>1, <1>3, <1>6 DEF InDir
  <2> QED
    BY <1>1, <1>2, <1>6, <2>1, NotLeaving, HeldFrame DEF OtherDirs
<1>7. CASE /\ MvRecycled(r) /\ OtherDirs /\ work'[d].W = work[d].W
           /\ day'[0] = work[d].recycled /\ \A g \in File : g # 0 => day'[g] = day[g]
  <2>1. AllOf(day) \subseteq AllOf(day') \cup Contents(day[0])
    <3>1. 0 \in File
      BY CsarunAssumption DEF File
    <3> QED
      BY <1>7, <3>1, AllOfChange
  <2>2. nite.state = "REPORT"
    BY <1>1, <1>7, Within DEF MvRecycled, At, StatesAt
  <2>3. work[d].W[1] # None
    BY <1>3, <2>2 DEF Sorted, PastBuild
  <2>4. Contents(day[0]) \subseteq AllOf(work[d].W)
    BY <1>3, <2>3, FileFacts DEF Sorted, Recycled, NotEnded
  <2> QED
    BY <1>6, <1>7, <2>1, <2>4 DEF AllDay
<1> QED
  BY <1>4, <1>5, <1>6, <1>7, DayFrame

(* CLEANUP: what is removed with the work directory was reported or has    *)
(* been recycled.                                                          *)
LEMMA CleanupHeld ==
  ASSUME Orderly, Control, Control', Nightly, Located, Held, Reported, NEW r \in Run, RemoveWork(r) \/ Complete(r)
  PROVE  Held'
<1>1. CASE RemoveWork(r)
  <2>1. /\ run[r].pc \in Inside /\ run[r].pc \notin {"unlock", "complete", "mvgood"} /\ nite.state = "CLEANUP"
        /\ UNCHANGED <<pacct, day, sum, written, bills, aside>> /\ nite' = nite
    BY <1>1 DEF RemoveWork, In, At, Inside, history
  <2>2. PICK d \in Date : d = nite.date
    BY <2>1, Within
  <2>3. work[d].made /\ InDir(work[d]) \subseteq AllOf(work[d].W) \cup aside
    BY <2>1, <2>2, Within, DirKept
  <2>4. run'[r].pc = "unlock" /\ run'[r].date = d /\ \A e \in Date : e # d => work'[e] = work[e]
    BY <1>1, <2>1, <2>2, RemoveWorkViews DEF Control, RunAt
  <2>5. AllOf(work[d].W) \subseteq Contents(sum[d]) \cup AllDay
    <3>1. Contents(day[0]) \subseteq AllDay
      BY CsarunAssumption DEF AllDay, AllOf, File
    <3> QED
      BY <2>1, <2>3, <3>1 DEF Reported, Handed, PastReport
  <2>6. \A rec \in Contents(sum[d]) : Leaving(rec)'
    BY <2>1, <2>4 DEF Leaving
  <2>7. ASSUME NEW rec \in Kept PROVE rec \in Kept' \cup aside' \/ Leaving(rec)'
    <3>1. pacct \subseteq Kept' /\ AllDay \subseteq Kept'
      BY <2>1 DEF Kept, AllDay
    <3>2. \A e \in Date : e # d => InDir(work[e]) \subseteq Kept'
      BY <2>4 DEF Kept
    <3> QED
      BY <2>1, <2>3, <2>5, <2>6, <3>1, <3>2 DEF Kept, AllDay
  <2>8. Billed' = Billed
    BY <2>1 DEF Billed
  <2> QED
    BY <2>1, <2>7, <2>8, NotLeaving DEF Held
<1>2. CASE Complete(r)
  <2>1. UNCHANGED <<pacct, day, work, written, aside>>
    BY <1>2 DEF Complete
  <2>2. Kept' = Kept
    BY <2>1 DEF Kept
  <2>3. /\ bills' = [rec \in Rec |-> IF rec \in Contents(sum[run[r].date]) THEN bills[rec] + 1 ELSE bills[rec]]
        /\ bills \in [Rec -> Nat] /\ written \subseteq Rec
    BY <1>2 DEF Complete, Control, CsarunTypeOK
  <2>4. Billed \subseteq Billed' /\ \A rec \in Rec : rec \in Contents(sum[run[r].date]) => rec \in Billed'
    BY <2>3 DEF Billed
  <2>5. \A rec \in Rec : Leaving(rec) => rec \in Billed'
    BY <2>4 DEF Leaving, Orderly
  <2> QED
    BY <2>1, <2>2, <2>3, <2>4, <2>5 DEF Held
<1> QED
  BY <1>1, <1>2

LEMMA InitHeld == Init => Held
BY DEF Init, Held, Kept

LEMMA NextHeld ==
  Orderly /\ Control /\ Control' /\ Numbers /\ Nightly /\ Located /\ Held /\ Reported /\ [Next]_vars => Held'
<1> SUFFICES ASSUME Orderly, Control, Control', Numbers, Nightly, Located, Held, Reported, [Next]_vars PROVE Held'
  OBVIOUS
<1>1. ASSUME NEW r \in Run, Invoke(r) \/ Crash(r) \/ Step(r) PROVE Held'
  BY <1>1, QuietHeld, SetupHeld, MvHeld, VerifyHeld, ReportHeld, CleanupHeld DEF Step
<1> QED
  BY <1>1, CsadHeld, OthersHeld DEF Next

(***************************************************************************)
(* REPORT leaves no record behind                                          *)
(***************************************************************************)
LEMMA ReportedFrame ==
  ASSUME Reported, Handed' => Handed, \A f \in File : f = 0 => Contents(day'[f]) = Contents(day[f]),
         \A d \in Date : work'[d].made => /\ work[d].made /\ work'[d].W = work[d].W
                                          /\ Contents(sum'[d]) = Contents(sum[d])
  PROVE  Reported'
<1>1. 0 \in File
  BY CsarunAssumption DEF File
<1> QED
  BY <1>1 DEF Reported

LEMMA NotHanded ==
  ASSUME ~Handed'
  PROVE  Reported'
BY DEF Reported

LEMMA HandedFacts ==
  ASSUME Orderly, NEW r \in Run
  PROVE  /\ Handed <=> nite.state \in PastReport \/ (nite.state = "REPORT" /\ run[r].pc \in {"reports", "next"})
         /\ Handed' <=> nite'.state \in PastReport \/ (nite'.state = "REPORT" /\ run'[r].pc \in {"reports", "next"})
BY DEF Orderly, Handed

LEMMA OthersReported ==
  ASSUME Orderly, Control, Reported,
         \/ UNCHANGED vars \/ Switch \/ Unlock \/ PeriodStart \/ PeriodList \/ PeriodAdd \/ PeriodRemove
         \/ \E rec \in Rec : CsadWrites(rec)
  PROVE  Reported'
<1>1. work' = work /\ run' = run /\ (nite' = nite \/ nite' = [nite EXCEPT !.lock = FALSE])
  BY Zenon DEF vars, Switch, Unlock, PeriodStart, PeriodList, PeriodAdd, PeriodRemove, CsadWrites, nights, history
<1>2. Handed' <=> Handed
  BY <1>1, NiteFacts DEF Handed
<1>3. day'[0] = day[0]
  <2>1. CASE Switch
    BY <2>1, PutAsideWritten, NiteFacts DEF Switch
  <2>2. CASE ~Switch
    BY <2>2, Zenon DEF vars, Unlock, PeriodStart, PeriodList, PeriodAdd, PeriodRemove, CsadWrites, nights
  <2> QED
    BY <2>1, <2>2
<1>4. \A d \in Date : work[d].made => Contents(sum'[d]) = Contents(sum[d])
  <2>1. CASE PeriodRemove
    <3>1. period.pc = "remove" /\ \A d \in period.list : ~Open(d)
      BY <2>1 DEF PeriodRemove, Control, PeriodAt
    <3>2. \A d \in Date : work[d].made => Open(d)
      BY DEF Control, OneNight, Open
    <3> QED
      BY <2>1, <3>1, <3>2 DEF PeriodRemove
  <2>2. CASE ~PeriodRemove
    BY <2>2, Zenon DEF vars, Switch, Unlock, PeriodStart, PeriodList, PeriodAdd, CsadWrites, nights
  <2> QED
    BY <2>1, <2>2
<1> QED
  BY <1>1, <1>2, <1>3, <1>4, ReportedFrame

(* The commands that change no numbered file.                              *)
LEMMA QuietReported ==
  ASSUME Orderly, Control, Reported, NEW r \in Run,
         \/ Invoke(r) \/ Crash(r) \/ MakeLock(r) \/ ReadOnly(r) \/ Reports(r) \/ Start(r) \/ RemoveLock(r)
         \/ Advance(r) \/ Restart(r)
  PROVE  Reported'
<1>1. UNCHANGED <<day, work, sum>>
  BY Zenon DEF Invoke, Crash, MakeLock, ReadOnly, Reports, Start, RemoveLock, Advance, Restart, nights, history
<1>2. ASSUME Handed' => Handed PROVE Reported'
  BY <1>1, <1>2, ReportedFrame
<1>3. nite \in NiteType /\ run \in [Run -> RunType]
  BY NiteFacts DEF Control, CsarunTypeOK
<1>4. CASE Invoke(r) \/ Crash(r) \/ MakeLock(r) \/ RemoveLock(r)
  <2>1. nite'.state = nite.state
    BY <1>4, NiteFacts DEF Invoke, Crash, MakeLock, RemoveLock, ErrorExit, nights
  <2>2. run'[r].pc \notin {"reports", "next"}
    <3>1. CASE Invoke(r)
      BY <1>3, <3>1, InvokeLocks, EndsFacts DEF ErrorExit
    <3>2. CASE Crash(r) \/ MakeLock(r) \/ RemoveLock(r)
      BY <1>3, <3>2, EndsFacts DEF Crash, MakeLock, RemoveLock, Goto, RunType
    <3> QED
      BY <1>4, <3>1, <3>2
  <2> QED
    BY <1>2, <2>1, <2>2, HandedFacts
<1>5. CASE Start(r)
  <2>1. nite'.state = nite.state
    BY <1>3, <1>5, NiteFacts DEF Start, Fails, ErrorExit, NiteType
  <2>2. run'[r].pc \in {"off", "state"}
    BY <1>3, <1>5, EndsFacts DEF Start, Fails, ErrorExit, Goto, RunType
  <2> QED
    BY <1>2, <2>1, <2>2, HandedFacts
<1>6. CASE Reports(r)
  <2>1. nite'.state = nite.state /\ run[r].pc = "reports"
    BY <1>6, NiteFacts DEF Reports, Fails, ErrorExit, At
  <2> QED
    BY <1>2, <2>1, HandedFacts
<1>7. CASE ReadOnly(r)
  <2>1. nite'.state = nite.state /\ nite.state # "REPORT"
    BY <1>7, NiteFacts DEF ReadOnly, Fails, ErrorExit
  <2> QED
    BY <1>2, <2>1, HandedFacts
<1>8. CASE Advance(r)
  <2>1. run[r].pc = "next" /\ run[r].at = nite.state /\ run[r].at \in State \ {"CLEANUP", "COMPLETE"}
    BY <1>8, Within DEF Advance, At, Inside, StatesAt
  <2>2. After(run[r].at) \in State
    BY <2>1, AfterFacts DEF State
  <2>3. nite'.state = After(run[r].at) /\ run'[r].pc = "loop"
    BY <1>3, <1>8, <2>2 DEF Advance, NiteType, RunType
  <2>4. nite'.state \in PastReport => nite.state \in PastReport \cup {"REPORT"}
    BY <2>1, <2>3, AfterFacts DEF PastReport, State
  <2> QED
    BY <1>2, <2>1, <2>3, <2>4, HandedFacts
<1>9. CASE Restart(r)
  <2> DEFINE state == IF run[r].arg # "restart" THEN run[r].arg ELSE nite.state
             again == state \in {"ARCHIVE2", "CMS", "REPORT", "DREP", "FEF"}
  <2>1. run[r].arg \in {"restart", "SETUP", "VERIFY"}
    BY <1>3, <1>9 DEF Restart, At, RunType, Control, RunAt, Orderly
  <2>2. \/ run' = [run EXCEPT ![r] = Off] /\ nite' = [nite EXCEPT !.lock = FALSE, !.state = state]
        \/ /\ run' = [run EXCEPT ![r].pc = "loop", ![r].arg = "restart"]
           /\ nite' = [nite EXCEPT !.state = IF again /\ Dir(r).spacct = None THEN "BUILD" ELSE state]
    BY <1>9, Zenon DEF Restart
  <2>3. run'[r].pc \in {"off", "loop"}
    BY <1>3, <2>2, EndsFacts DEF RunType
  <2>4. nite'.state \in {"SETUP", "VERIFY", "BUILD", nite.state}
    BY <1>3, <2>1, <2>2 DEF NiteType
  <2> QED
    BY <1>2, <2>3, <2>4, HandedFacts DEF PastReport
<1> QED
  BY <1>4, <1>5, <1>6, <1>7, <1>8, <1>9

(* Before REPORT there is nothing to hand on.                              *)
LEMMA EarlyReported ==
  ASSUME Orderly, Control, NEW r \in Run,
         \/ WriteState(r) \/ MakeDir(r) \/ Setup(r) \/ Ls(r) \/ Mv(r) \/ Verify(r) \/ VerifyFile(r)
         \/ MvBad(r) \/ MvGood(r) \/ Build(r)
  PROVE  Reported'
<1>1. nite'.state \in {"SETUP", "VERIFY", "BUILD"}
  <2>1. CASE WriteState(r)
    BY <2>1, NiteFacts DEF WriteState, State
  <2>2. CASE MakeDir(r)
    BY <2>2 DEF MakeDir, At, Control, RunAt
  <2>3. CASE Setup(r) \/ Ls(r) \/ Mv(r) \/ Verify(r) \/ VerifyFile(r) \/ MvBad(r) \/ MvGood(r) \/ Build(r)
    <3>1. nite.state \in {"SETUP", "VERIFY", "BUILD"}
      BY <2>3, Within DEF Setup, Ls, Mv, Verify, VerifyFile, MvBad, MvGood, Build, In, At, Inside, StatesAt
    <3>2. nite' = nite \/ nite' = [nite EXCEPT !.lock = FALSE]
      BY <2>3, Zenon DEF Setup, Ls, Mv, Verify, VerifyFile, MvBad, MvGood, Build, Fails, ErrorExit, nights
    <3> QED
      BY <3>1, <3>2, NiteFacts
  <2> QED
    BY <2>1, <2>2, <2>3
<1> QED
  BY <1>1, NotHanded DEF Handed, PastReport

LEMMA ReportReported ==
  ASSUME Orderly, Control, Nightly, NEW r \in Run, Report(r) \/ Recycle(r) \/ MvRecycled(r)
  PROVE  Reported'
<1>1. /\ run[r].pc \in Inside /\ nite.state = "REPORT"
      /\ Report(r) => day' = day
  BY Within DEF Report, Recycle, MvRecycled, In, At, Inside, StatesAt
<1>2. nite'.state = "REPORT"
  BY <1>1, NiteFacts DEF Report, Recycle, MvRecycled, Fails, ErrorExit
<1>3. PICK d \in Date : d = nite.date
  BY <1>1, Within
<1>4. work[d].made /\ Sorted(d) /\ \A e \in Date : work[e].made => e = d
  BY <1>1, <1>3, Within DEF Nightly, Control, OneNight
<1>5. Contents(work[d].spacct) = AllOf(work[d].W)
  BY <1>1, <1>4, FileFacts DEF Sorted, PastBuild
<1>6. CASE Report(r)
  <2>1. work' = work /\ (run'[r].pc \in {"off", "recy"} \/ Contents(sum'[d]) = Contents(work[d].spacct))
    BY <1>3, <1>6, ReportViews DEF Ends
  <2>2. CASE run'[r].pc \in {"off", "recy"}
    BY <1>2, <2>2, HandedFacts, NotHanded DEF PastReport
  <2>3. CASE Contents(sum'[d]) = Contents(work[d].spacct)
    BY <1>4, <1>5, <2>1, <2>3 DEF Reported
  <2> QED
    BY <2>1, <2>2, <2>3
<1>7. CASE Recycle(r)
  BY <1>2, <1>7, RecycleViews, HandedFacts, NotHanded DEF PastReport
<1>8. CASE MvRecycled(r)
  <2>1. sum' = sum /\ run[r].pc = "mvrecycled"
    BY <1>8 DEF MvRecycled, At
  <2>2. /\ Contents(sum[d]) = Ended(AllOf(work[d].W))
        /\ Contents(work[d].recycled) = NotEnded(AllOf(work[d].W))
    BY <1>4, <2>1, FileFacts DEF Sorted
  <2>3. \/ work' = work /\ Contents(work[d].recycled) = {}
        \/ OtherDirs /\ work'[d].W = work[d].W /\ day'[0] = work[d].recycled
    BY <1>3, <1>8, MvRecycledViews
  <2>4. \A e \in Date : work'[e].made => e = d
    BY <1>3, <1>4, <2>3 DEF OtherDirs
  <2>5. AllOf(work'[d].W) \subseteq Contents(sum'[d]) \cup Contents(day'[0])
    BY <2>1, <2>2, <2>3 DEF NotEnded
  <2> QED
    BY <2>4, <2>5 DEF Reported
<1> QED
  BY <1>6, <1>7, <1>8

LEMMA CleanupReported ==
  ASSUME Orderly, Control, Control', NEW r \in Run, RemoveWork(r) \/ Complete(r)
  PROVE  Reported'
<1>1. CASE RemoveWork(r)
  <2>1. run[r].pc \in Inside /\ nite' = nite
    BY <1>1 DEF RemoveWork, In, At, Inside
  <2>2. \A e \in Date : ~work'[e].made
    BY <1>1, <2>1, RemoveWorkViews, DirFacts DEF Control, OneNight
  <2> QED
    BY <2>2 DEF Reported
<1>2. CASE Complete(r)
  <2>1. nite'.state = "COMPLETE"
    BY <1>2, NiteFacts DEF Complete, State
  <2> QED
    BY <2>1, NotHanded DEF Handed, PastReport
<1> QED
  BY <1>1, <1>2

LEMMA InitReported == Init => Reported
BY DirFacts DEF Init, Reported

LEMMA NextReported == Orderly /\ Control /\ Control' /\ Nightly /\ Reported /\ [Next]_vars => Reported'
<1> SUFFICES ASSUME Orderly, Control, Control', Nightly, Reported, [Next]_vars PROVE Reported'
  OBVIOUS
<1>1. ASSUME NEW r \in Run, Invoke(r) \/ Crash(r) \/ Step(r) PROVE Reported'
  BY <1>1, QuietReported, EarlyReported, ReportReported, CleanupReported DEF Step
<1> QED
  BY <1>1, OthersReported DEF Next

(***************************************************************************)
(* A job's end is behind its processes                                     *)
(***************************************************************************)
LEMMA JobEnded ==
  ASSUME NEW j \in Ending, NEW S, <<j, "end">> \in S, <<j, "proc">> \in S
  PROVE  <<j, "proc">> \in Ended(S) /\ <<j, "proc">> \notin NotEnded(S)
<1>1. <<j, "proc">>[1] = j
  OBVIOUS
<1> QED
  BY <1>1 DEF Ended, NotEnded

LEMMA NightMade ==
  ASSUME Control, NEW d \in Date, InNight(d) # {}
  PROVE  work[d].made
BY EmptyIn DEF Control, OneNight, InNight

(* A step that brings no record into the night or among the files of the   *)
(* day, and makes no new daily file.                                       *)
LEMMA EndLastFrame ==
  ASSUME EndLast, written' = written, pacct' = pacct, aside \subseteq aside', Billed \subseteq Billed',
         \/ Moving'
         \/ AllDay' = {}
         \/ ~Moving /\ AllDay' \subseteq AllDay /\ \A d \in Date : InNight(d)' \subseteq InNight(d),
         \A d \in Date : Open(d)' => \/ Contents(sum'[d]) = {}
                                     \/ Open(d) /\ Contents(sum'[d]) = Contents(sum[d])
  PROVE  EndLast'
<1> SUFFICES ASSUME NEW j \in Ending, <<j, "end">> \in written
             PROVE  /\ <<j, "proc">> \in written
                    /\ <<j, "proc">> \in pacct => <<j, "end">> \in pacct
                    /\ ~Moving' => \A d \in Date : <<j, "end">> \in InNight(d)' => <<j, "proc">> \notin AllDay'
                    /\ \A d \in Date : Open(d)' /\ <<j, "end">> \in Contents(sum'[d]) =>
                         <<j, "proc">> \in Contents(sum'[d]) \cup aside' \cup Billed'
  BY DEF EndLast
<1>1. /\ <<j, "proc">> \in written
      /\ <<j, "proc">> \in pacct => <<j, "end">> \in pacct
      /\ ~Moving => \A d \in Date : <<j, "end">> \in InNight(d) => <<j, "proc">> \notin AllDay
      /\ \A d \in Date : Open(d) /\ <<j, "end">> \in Contents(sum[d]) =>
           <<j, "proc">> \in Contents(sum[d]) \cup aside \cup Billed
  BY DEF EndLast
<1> QED
  BY <1>1

LEMMA PutAsideEnd ==
  ASSUME Control, Located, EndLast, PutAside, ~Moving,
         UNCHANGED <<work, sum, written, aside, bills>>, \A d \in Date : Open(d)' <=> Open(d)
  PROVE  EndLast'
<1>1. AllDay' = AllDay \cup pacct /\ pacct' = {}
  BY PutAsideWritten, NiteFacts
<1>2. Billed' = Billed /\ \A d \in Date : InNight(d)' = InNight(d)
  BY DEF Billed, InNight
<1>3. \A d \in Date : pacct \cap InNight(d) = {}
  BY NightMade DEF Located, OneFile
<1> SUFFICES ASSUME NEW j \in Ending, <<j, "end">> \in written
             PROVE  /\ <<j, "proc">> \in written
                    /\ \A d \in Date : <<j, "end">> \in InNight(d) => <<j, "proc">> \notin AllDay'
                    /\ \A d \in Date : Open(d) /\ <<j, "end">> \in Contents(sum[d]) =>
                         <<j, "proc">> \in Contents(sum[d]) \cup aside \cup Billed
  BY <1>1, <1>2 DEF EndLast
<1>4. /\ <<j, "proc">> \in written
      /\ <<j, "proc">> \in pacct => <<j, "end">> \in pacct
      /\ \A d \in Date : <<j, "end">> \in InNight(d) => <<j, "proc">> \notin AllDay
      /\ \A d \in Date : Open(d) /\ <<j, "end">> \in Contents(sum[d]) =>
           <<j, "proc">> \in Contents(sum[d]) \cup aside \cup Billed
  BY DEF EndLast
<1> QED
  BY <1>1, <1>3, <1>4

(* csad writes the end of a job after the ends of its processes.           *)
LEMMA CsadEnd ==
  ASSUME OfWritten, EndLast, NEW rec \in Rec, CsadWrites(rec)
  PROVE  EndLast'
<1>1. /\ rec \notin written /\ (rec[2] = "end" => <<rec[1], "proc">> \in written)
      /\ pacct' = pacct \cup {rec} /\ written' = written \cup {rec}
      /\ UNCHANGED <<nite, day, work, sum, run, aside, bills>>
  BY DEF CsadWrites
<1>2. /\ AllDay' = AllDay /\ Billed' = Billed /\ (Moving' <=> Moving)
      /\ \A d \in Date : InNight(d)' = InNight(d) /\ (Open(d)' <=> Open(d))
  BY <1>1, DayFrame DEF Billed, InNight, Moving, Open
<1>3. \A d \in Date : InNight(d) \cup Contents(sum[d]) \subseteq written
  BY DEF OfWritten, InDir, InNight
<1> SUFFICES ASSUME NEW j \in Ending, <<j, "end">> \in written \cup {rec}
             PROVE  /\ <<j, "proc">> \in written \cup {rec}
                    /\ <<j, "proc">> \in pacct \cup {rec} => <<j, "end">> \in pacct \cup {rec}
                    /\ ~Moving => \A d \in Date : <<j, "end">> \in InNight(d) => <<j, "proc">> \notin AllDay
                    /\ \A d \in Date : Open(d) /\ <<j, "end">> \in Contents(sum[d]) =>
                         <<j, "proc">> \in Contents(sum[d]) \cup aside \cup Billed
  BY <1>1, <1>2 DEF EndLast
<1>4. CASE rec = <<j, "end">>
  <2>1. rec[1] = j /\ rec[2] = "end"
    BY <1>4
  <2>2. <<j, "proc">> \in written
    BY <1>1, <2>1
  <2> QED
    BY <1>1, <1>3, <1>4, <2>2
<1>5. CASE rec # <<j, "end">>
  <2>1. <<j, "end">> \in written
    BY <1>5
  <2>2. /\ <<j, "proc">> \in written
        /\ <<j, "proc">> \in pacct => <<j, "end">> \in pacct
        /\ ~Moving => \A d \in Date : <<j, "end">> \in InNight(d) => <<j, "proc">> \notin AllDay
        /\ \A d \in Date : Open(d) /\ <<j, "end">> \in Contents(sum[d]) =>
             <<j, "proc">> \in Contents(sum[d]) \cup aside \cup Billed
    BY <2>1 DEF EndLast
  <2> QED
    BY <1>1, <2>2
<1> QED
  BY <1>4, <1>5

LEMMA SameBilled ==
  ASSUME bills' = bills
  PROVE  Billed \subseteq Billed'
BY DEF Billed

LEMMA OthersEnd ==
  ASSUME Orderly, Control, Located, EndLast,
         UNCHANGED vars \/ Switch \/ Unlock \/ PeriodStart \/ PeriodList \/ PeriodAdd \/ PeriodRemove
  PROVE  EndLast'
<1>1. /\ UNCHANGED <<work, run, written, aside, bills>> /\ (nite' = nite \/ nite' = [nite EXCEPT !.lock = FALSE])
  BY Zenon DEF vars, Switch, Unlock, PeriodStart, PeriodList, PeriodAdd, PeriodRemove, nights, history
<1>2. (Moving' <=> Moving) /\ \A d \in Date : InNight(d)' = InNight(d) /\ (Open(d)' <=> Open(d))
  BY <1>1, NiteFacts, OpenSame DEF Moving, InNight
<1>3. CASE Switch
  <2>1. ~Moving /\ PutAside /\ sum' = sum
    BY <1>3 DEF Switch, Orderly, Moving
  <2> QED
    BY <1>1, <1>2, <2>1, PutAsideEnd
<1>4. CASE ~Switch
  <2>1. UNCHANGED <<pacct, day>>
    BY <1>4, Zenon DEF vars, Unlock, PeriodStart, PeriodList, PeriodAdd, PeriodRemove, nights
  <2>2. \A d \in Date : Open(d) => sum'[d] = sum[d]
    <3>1. CASE PeriodRemove
      <4>1. \A d \in period.list : ~Open(d)
        BY <3>1 DEF PeriodRemove, Control, PeriodAt
      <4> QED
        BY <3>1, <4>1 DEF PeriodRemove
    <3>2. CASE ~PeriodRemove
      BY <1>4, <3>2, Zenon DEF vars, Unlock, PeriodStart, PeriodList, PeriodAdd, nights
    <3> QED
      BY <3>1, <3>2
  <2> QED
    BY <1>1, <1>2, <2>1, <2>2, DayFrame, SameBilled, EndLastFrame
<1> QED
  BY <1>3, <1>4

(* The commands that move no file.                                         *)
LEMMA QuietEnd ==
  ASSUME Orderly, Control, EndLast, NEW r \in Run,
         \/ Invoke(r) \/ Crash(r) \/ MakeLock(r) \/ Start(r) \/ WriteState(r) \/ Restart(r) \/ Advance(r) \/ Ls(r)
         \/ Verify(r) \/ ReadOnly(r) \/ Reports(r) \/ RemoveLock(r) \/ Complete(r)
  PROVE  EndLast'
<1>1. UNCHANGED <<pacct, day, work, sum, written, aside>>
  BY Zenon DEF Invoke, Crash, MakeLock, Start, WriteState, Restart, Advance, Ls, Verify, ReadOnly, Reports,
     RemoveLock, Complete, nights, history
<1>2. Billed \subseteq Billed'
  <2>1. CASE Complete(r)
    BY <2>1 DEF Complete, Billed, Control, CsarunTypeOK
  <2>2. CASE ~Complete(r)
    <3>1. bills' = bills
      BY <2>2, Zenon DEF Invoke, Crash, MakeLock, Start, WriteState, Restart, Advance, Ls, Verify, ReadOnly, Reports,
         RemoveLock, history
    <3> QED
      BY <3>1, SameBilled
  <2> QED
    BY <2>1, <2>2
<1>3. Moving' \/ ~Moving
  <2>1. run[r].pc # "mv"
    <3>1. CASE Crash(r)
      BY <3>1 DEF Crash, At, Orderly
    <3>2. CASE ~Crash(r)
      BY <3>2 DEF Invoke, MakeLock, Start, WriteState, Restart, Advance, Ls, Verify, ReadOnly, Reports,
         RemoveLock, Complete, In, At
    <3> QED
      BY <3>1, <3>2
  <2> QED
    BY <2>1 DEF Orderly, Moving
<1>4. \A d \in Date : Open(d)' => Contents(sum'[d]) = {} \/ Open(d)
  <2>1. CASE WriteState(r)
    <3>1. run[r].pc = "state" /\ nite' = [nite EXCEPT !.state = "SETUP"]
      BY <2>1 DEF WriteState, At
    <3>2. sum[run[r].date] = None /\ run[r].date = nite.date
      BY <3>1 DEF Control, RunAt
    <3>3. nite'.date = nite.date
      BY <3>1, NiteFacts DEF State
    <3> QED
      BY <1>1, <3>2, <3>3, FileFacts DEF Open
  <2>2. CASE Start(r) \/ Complete(r)
    <3>1. \/ nite'.date = nite.date /\ nite'.state = nite.state
          \/ nite'.state = "COMPLETE"
      BY <2>2, NiteFacts DEF Start, Complete, Fails, ErrorExit, State, NiteType
    <3> QED
      BY <3>1 DEF Open
  <2>3. CASE Restart(r)
    BY <2>3, RestartOpen, OpenSame
  <2>4. CASE Advance(r)
    <3>1. nite.state # "COMPLETE" /\ After(run[r].at) \in State
      <4>1. run[r].at = nite.state /\ run[r].at \in State \ {"CLEANUP", "COMPLETE"}
        BY <2>4, Within DEF Advance, At, Inside, StatesAt
      <4> QED
        BY <4>1, AfterFacts DEF State
    <3>2. nite'.date = nite.date
      BY <2>4, <3>1, NiteFacts DEF Advance
    <3> QED
      BY <3>1, <3>2 DEF Open
  <2>5. CASE Invoke(r) \/ Crash(r) \/ MakeLock(r) \/ Ls(r) \/ Verify(r) \/ ReadOnly(r) \/ Reports(r) \/ RemoveLock(r)
    <3>1. nite' = nite \/ \E b \in BOOLEAN : nite' = [nite EXCEPT !.lock = b]
      BY <2>5 DEF Invoke, Crash, MakeLock, Ls, Verify, ReadOnly, Reports, RemoveLock, nights, ErrorExit, Fails
    <3> QED
      BY <3>1, NiteFacts, OpenSame
  <2> QED
    BY <2>1, <2>2, <2>3, <2>4, <2>5
<1>5. AllDay' = AllDay /\ \A d \in Date : InNight(d)' = InNight(d)
  BY <1>1, DayFrame DEF InNight
<1> QED
  BY <1>1, <1>2, <1>3, <1>4, <1>5, EndLastFrame

(* csaedit brings no record into a file that the night did not have.       *)
LEMMA VerifyNight ==
  ASSUME Orderly, Control, NEW r \in Run, VerifyFile(r) \/ MvBad(r) \/ MvGood(r)
  PROVE  \A d \in Date : InNight(d)' \subseteq InNight(d)
<1> DEFINE f == Min(run[r].todo)
<1>1. run[r].pc \in Inside
  BY DEF VerifyFile, MvBad, MvGood, At, Inside
<1>2. PICK d \in Date : d = nite.date
  BY <1>1, Within
<1>3. run[r].todo \in SUBSET File
  BY <1>1, Within DEF RunType
<1>4. CASE VerifyFile(r)
  <2>1. \/ work' = work
        \/ /\ f \in run[r].todo
           /\ OtherDirs /\ work'[d].W = work[d].W
           /\ work'[d].edited = Holding(Contents(work[d].W[f]) \ damaged)
    BY <1>2, <1>4, VerifyFileViews DEF Ends
  <2> HIDE DEF f
  <2>2. f \in run[r].todo => Contents(work[d].W[f]) \subseteq AllOf(work[d].W)
    BY <1>3 DEF AllOf
  <2> QED
    BY <1>2, <2>1, <2>2, FileFacts DEF OtherDirs, InNight
<1>5. CASE MvBad(r) \/ MvGood(r)
  <2>1. /\ f \in File /\ OtherDirs
        /\ \A g \in File : g # f => work'[d].W[g] = work[d].W[g]
        /\ work'[d].W[f] \in {None, work[d].edited} /\ work'[d].edited \in {None, work[d].edited}
    BY <1>2, <1>5, MvBadViews, MvGoodViews
  <2> HIDE DEF f
  <2>2. AllOf(work'[d].W) \subseteq AllOf(work[d].W) \cup Contents(work'[d].W[f])
    <3>1. f \in File /\ \A g \in File : g # f => work'[d].W[g] = work[d].W[g]
      BY <2>1
    <3> QED
      BY <3>1, AllOfChange
  <2>3. InNight(d)' \subseteq InNight(d)
    BY <2>1, <2>2, FileFacts DEF InNight
  <2> QED
    BY <1>2, <2>1, <2>3 DEF OtherDirs, InNight
<1> QED
  BY <1>4, <1>5

LEMMA FilesEnd ==
  ASSUME Orderly, Control, Numbers, OfWritten, Nightly, Located, EndLast, NEW r \in Run,
         \/ Setup(r) \/ MakeDir(r) \/ Mv(r) \/ VerifyFile(r) \/ MvBad(r) \/ MvGood(r) \/ Build(r) \/ Recycle(r)
         \/ RemoveWork(r)
  PROVE  EndLast'
<1>1. UNCHANGED <<sum, written, bills>> /\ aside \subseteq aside'
  BY DEF Setup, MakeDir, Mv, VerifyFile, MvBad, MvGood, Build, Recycle, RemoveWork, history
<1>2. \A d \in Date : Open(d)' <=> Open(d)
  <2>1. nite' = nite \/ nite' = [nite EXCEPT !.lock = FALSE]
    BY Zenon DEF Setup, MakeDir, Mv, VerifyFile, MvBad, MvGood, Build, Recycle, RemoveWork, Fails, ErrorExit
  <2> QED
    BY <2>1, NiteFacts, OpenSame
<1>3. ASSUME pacct' = pacct, \/ Moving'
                             \/ AllDay' = {}
                             \/ ~Moving /\ AllDay' \subseteq AllDay /\ \A d \in Date : InNight(d)' \subseteq InNight(d)
      PROVE  EndLast'
  BY <1>1, <1>2, <1>3, SameBilled, EndLastFrame
<1>4. CASE Mv(r)
  <2>1. run[r].pc \in Inside
    BY <1>4 DEF Mv, At, Inside
  <2>2. run'[r].pc = "mv" \/ ((\A g \in File : day[g] = None) /\ day' = day)
    BY <1>4, MvViews
  <2>3. (\A g \in File : day[g] = None) => AllDay = {}
    BY AllOfNone DEF AllDay
  <2> QED
    BY <1>3, <1>4, <2>2, <2>3, DayFrame DEF Mv, Moving
<1>5. CASE ~Mv(r)
  <2>1. run[r].pc # "mv"
    BY <1>5 DEF Setup, MakeDir, VerifyFile, MvBad, MvGood, Build, Recycle, RemoveWork, In, At
  <2>2. ~Moving
    BY <2>1 DEF Orderly, Moving
  <2>3. CASE Setup(r)
    <3>1. work' = work /\ (PutAside \/ UNCHANGED <<pacct, day>>) /\ aside' = aside
      BY <2>3, Zenon DEF Setup, history
    <3>2. \A d \in Date : InNight(d)' = InNight(d)
      BY <3>1 DEF InNight
    <3> QED
      BY <1>1, <1>2, <1>3, <2>2, <3>1, <3>2, DayFrame, PutAsideEnd
  <2>4. CASE MakeDir(r)
    <3>1. \A d \in Date : work'[d] = work[d] \/ work'[d] = EmptyDir
      BY <2>4 DEF MakeDir, Control, CsarunTypeOK
    <3>2. \A d \in Date : InNight(d)' \subseteq InNight(d)
      BY <3>1, EmptyIn DEF InNight
    <3> QED
      BY <1>3, <2>2, <2>4, <3>2, DayFrame DEF MakeDir
  <2>5. CASE RemoveWork(r)
    <3>1. run[r].pc \in Inside
      BY <2>5 DEF RemoveWork, In, At, Inside
    <3>2. \A d \in Date : work'[d] = work[d] \/ work'[d] = NoDir
      BY <2>5, RemoveWorkViews
    <3>3. \A d \in Date : InNight(d)' \subseteq InNight(d)
      BY <3>2, EmptyIn DEF InNight
    <3> QED
      BY <1>3, <2>2, <2>5, <3>3, DayFrame DEF RemoveWork
  <2>6. CASE Build(r) \/ Recycle(r)
    <3>1. run[r].pc \in Inside
      BY <2>6 DEF Build, Recycle, In, At, Inside
    <3>2. PICK d \in Date : d = nite.date
      BY <3>1, Within
    <3>3. work' = work \/ (OtherDirs /\ work'[d].W = work[d].W /\ work'[d].edited = work[d].edited)
      BY <2>6, <3>2, BuildViews, RecycleViews DEF Ends
    <3>4. \A e \in Date : InNight(e)' = InNight(e)
      BY <3>2, <3>3 DEF OtherDirs, InNight
    <3> QED
      BY <1>3, <2>2, <2>6, <3>4, DayFrame DEF Build, Recycle
  <2>7. CASE VerifyFile(r) \/ MvBad(r) \/ MvGood(r)
    <3>1. \A d \in Date : InNight(d)' \subseteq InNight(d)
      BY <2>7, VerifyNight
    <3> QED
      BY <1>3, <2>2, <2>7, <3>1, DayFrame DEF VerifyFile, MvBad, MvGood
  <2> QED
    BY <1>5, <2>3, <2>4, <2>5, <2>6, <2>7
<1> QED
  BY <1>4, <1>5

(* The records of a job whose end csacon finds are in the same night, or   *)
(* in one before it: no file of the day has them.                          *)
LEMMA ReportEnd ==
  ASSUME Orderly, Control, OfWritten, Nightly, Located, Held, EndLast, NEW r \in Run, Report(r)
  PROVE  EndLast'
<1>1. /\ run[r].pc \in Inside /\ run[r].pc = "loop" /\ UNCHANGED <<pacct, day, work, written, aside, bills>>
      /\ nite.state = "REPORT"
  BY DEF Report, In, At, Inside, history
<1>2. PICK d \in Date : d = nite.date
  BY <1>1, Within
<1>3. /\ work[d].made /\ Sorted(d) /\ \A e \in Date : work[e].made => e = d
      /\ InDir(work[d]) \subseteq AllOf(work[d].W) \cup aside
  BY <1>1, <1>2, Within, DirKept DEF Nightly, Control, OneNight
<1>4. Contents(work[d].spacct) = AllOf(work[d].W)
  BY <1>1, <1>3, FileFacts DEF Sorted, PastBuild
<1> DEFINE S == AllOf(work[d].W)
<1>5. /\ \A e \in Date : e # d => sum'[e] = sum[e]
      /\ Contents(sum'[d]) = {} \/ Contents(sum'[d]) = S \/ Contents(sum'[d]) = Ended(S)
  BY <1>2, <1>4, ReportViews
<1>6. \A e \in Date : Open(e)' => e = d
  <2>1. nite'.date = nite.date
    BY NiteFacts DEF Report, Fails, ErrorExit
  <2> QED
    BY <1>2, <2>1 DEF Open
<1>7. ~Moving
  BY <1>1 DEF Orderly, Moving
<1>8. /\ AllDay' = AllDay /\ Billed' = Billed /\ \A e \in Date : InNight(e)' = InNight(e)
  BY <1>1, DayFrame DEF Billed, InNight
<1>9. ASSUME NEW j \in Ending, <<j, "end">> \in S
      PROVE  <<j, "proc">> \in S \cup aside \cup Billed
  <2>1. <<j, "end">> \in InNight(d) /\ <<j, "end">> \in written
    BY <1>3, <1>9 DEF OfWritten, InNight, InDir
  <2>2. <<j, "proc">> \in written /\ <<j, "proc">> \notin AllDay /\ (<<j, "proc">> \in pacct => <<j, "end">> \in pacct)
    BY <1>7, <2>1 DEF EndLast
  <2>3. <<j, "proc">> \notin pacct
    BY <1>3, <2>1, <2>2 DEF Located, OneFile
  <2>4. <<j, "proc">> \in Kept \cup aside \cup Billed
    BY <1>1, <2>2, NotLeaving DEF Held
  <2>5. \A e \in Date : e # d => InDir(work[e]) = {}
    BY <1>3, EmptyIn DEF Control, OneNight
  <2>6. Kept \subseteq pacct \cup AllDay \cup S \cup aside
    BY <1>3, <2>5 DEF Kept, AllDay
  <2> QED
    BY <2>2, <2>3, <2>4, <2>6
<1> HIDE DEF S
<1> SUFFICES ASSUME NEW j \in Ending, <<j, "end">> \in written
             PROVE  /\ <<j, "proc">> \in written
                    /\ <<j, "proc">> \in pacct => <<j, "end">> \in pacct
                    /\ ~Moving => \A e \in Date : <<j, "end">> \in InNight(e) => <<j, "proc">> \notin AllDay
                    /\ <<j, "end">> \in Contents(sum'[d]) => <<j, "proc">> \in Contents(sum'[d]) \cup aside \cup Billed
  BY <1>1, <1>6, <1>7, <1>8 DEF EndLast
<1>10. ASSUME <<j, "end">> \in Contents(sum'[d])
       PROVE  <<j, "proc">> \in Contents(sum'[d]) \cup aside \cup Billed
  <2>1. <<j, "end">> \in S
    BY <1>5, <1>10 DEF Ended
  <2> QED
    BY <1>5, <1>9, <1>10, <2>1, JobEnded
<1> QED
  BY <1>10 DEF EndLast

LEMMA MvRecycledEnd ==
  ASSUME Orderly, Control, Nightly, Located, EndLast, NEW r \in Run, MvRecycled(r)
  PROVE  EndLast'
<1>1. /\ run[r].pc \in Inside /\ run[r].pc = "mvrecycled" /\ UNCHANGED <<nite, pacct, sum, written, aside, bills>>
  BY DEF MvRecycled, At, Inside, history
<1>2. PICK d \in Date : d = nite.date
  BY <1>1, Within
<1> DEFINE S == AllOf(work[d].W)
<1>3. /\ work[d].made /\ Sorted(d) /\ \A e \in Date : work[e].made => e = d
      /\ Contents(work[d].edited) \subseteq S
  BY <1>1, <1>2, Within DEF Nightly, Control, OneNight, Edited, Orderly
<1>4. Contents(work[d].recycled) = NotEnded(S)
  BY <1>1, <1>3, FileFacts DEF Sorted
<1>5. ~Moving
  BY <1>1 DEF Orderly, Moving
<1>6. \/ work' = work /\ day' = day
      \/ /\ OtherDirs /\ work'[d].W = work[d].W /\ work'[d].edited = work[d].edited
         /\ day'[0] = work[d].recycled /\ \A g \in File : g # 0 => day'[g] = day[g]
  BY <1>2, MvRecycledViews
<1>7. /\ Billed' = Billed /\ (\A e \in Date : InNight(e)' = InNight(e) /\ (Open(e)' <=> Open(e)))
  BY <1>1, <1>2, <1>6, OpenSame DEF Billed, InNight, OtherDirs
<1>8. AllDay' \subseteq AllDay \cup NotEnded(S)
  <2>1. CASE day' = day
    BY <2>1, DayFrame
  <2>2. CASE day'[0] = work[d].recycled /\ \A g \in File : g # 0 => day'[g] = day[g]
    <3>1. 0 \in File /\ \A g \in File : g # 0 => day'[g] = day[g]
      BY <2>2, CsarunAssumption DEF File
    <3>2. AllOf(day') \subseteq AllOf(day) \cup Contents(day'[0])
      BY <3>1, AllOfChange
    <3> QED
      BY <1>4, <2>2, <3>2 DEF AllDay
  <2> QED
    BY <1>6, <2>1, <2>2
<1>9. \A e \in Date : InNight(e) # {} => e = d
  BY <1>3, NightMade
<1>10. InNight(d) = S
  BY <1>3 DEF InNight
<1> HIDE DEF S
<1> SUFFICES ASSUME NEW j \in Ending, <<j, "end">> \in written
             PROVE  /\ <<j, "proc">> \in written
                    /\ <<j, "proc">> \in pacct => <<j, "end">> \in pacct
                    /\ <<j, "end">> \in S => <<j, "proc">> \notin AllDay'
                    /\ \A e \in Date : Open(e) /\ <<j, "end">> \in Contents(sum[e]) =>
                         <<j, "proc">> \in Contents(sum[e]) \cup aside \cup Billed
  BY <1>1, <1>7, <1>9, <1>10 DEF EndLast
<1>11. /\ <<j, "proc">> \in written
       /\ <<j, "proc">> \in pacct => <<j, "end">> \in pacct
       /\ <<j, "end">> \in S => <<j, "proc">> \notin AllDay
       /\ \A e \in Date : Open(e) /\ <<j, "end">> \in Contents(sum[e]) =>
            <<j, "proc">> \in Contents(sum[e]) \cup aside \cup Billed
  BY <1>2, <1>5, <1>10 DEF EndLast
<1>12. <<j, "end">> \in S => <<j, "proc">> \notin NotEnded(S)
  BY JobEnded DEF NotEnded
<1> QED
  BY <1>8, <1>11, <1>12

LEMMA InitEnd == Init => EndLast
<1> SUFFICES ASSUME Init PROVE EndLast
  OBVIOUS
<1>1. /\ pacct = written /\ ~Moving /\ \A d \in Date : ~Open(d)
      /\ \A d \in Date : InNight(d) = {}
  BY EmptyIn, DirFacts, FileFacts DEF Init, Moving, Off, Open, InNight
<1>2. \A j \in Ending : <<j, "end">> \in written => <<j, "proc">> \in written
  BY StartAssumption DEF Init
<1> QED
  BY <1>1, <1>2 DEF EndLast

LEMMA NextEnd ==
  Orderly /\ Control /\ Numbers /\ OfWritten /\ Nightly /\ Located /\ Held /\ EndLast /\ [Next]_vars => EndLast'
<1> SUFFICES ASSUME Orderly, Control, Numbers, OfWritten, Nightly, Located, Held, EndLast, [Next]_vars PROVE EndLast'
  OBVIOUS
<1>1. ASSUME NEW r \in Run, Invoke(r) \/ Crash(r) \/ Step(r) PROVE EndLast'
  BY <1>1, QuietEnd, FilesEnd, ReportEnd, MvRecycledEnd DEF Step
<1> QED
  BY <1>1, CsadEnd, OthersEnd DEF Next

(***************************************************************************)
(* A job is reported as a whole                                            *)
(***************************************************************************)
LEMMA NextWhole ==
  Control /\ EndLast /\ OfWritten /\ WholeJobs /\ [Next]_vars => WholeJobs'
<1> SUFFICES ASSUME Control, EndLast, OfWritten, WholeJobs, [Next]_vars PROVE WholeJobs'
  OBVIOUS
<1>1. CASE bills' = bills /\ aside \subseteq aside'
  BY <1>1 DEF WholeJobs
<1>2. ASSUME NEW r \in Run, Complete(r) PROVE WholeJobs'
  <2>1. PICK d \in Date : d = run[r].date /\ Open(d)
    BY <1>2 DEF Complete, At, Control, RunAt, StatesAt, Open
  <2>2. /\ aside' = aside /\ bills \in [Rec -> Nat]
        /\ bills' = [rec \in Rec |-> IF rec \in Contents(sum[d]) THEN bills[rec] + 1 ELSE bills[rec]]
    BY <1>2, <2>1 DEF Complete, Control, CsarunTypeOK
  <2> SUFFICES ASSUME NEW j \in Ending, bills'[<<j, "end">>] > 0
               PROVE  bills'[<<j, "proc">>] > 0 \/ <<j, "proc">> \in aside
    BY <2>2 DEF WholeJobs
  <2>3. <<j, "end">> \in Rec /\ <<j, "proc">> \in Rec
    BY CsarunAssumption DEF Rec
  <2>4. CASE <<j, "end">> \in Contents(sum[d])
    <3>1. <<j, "end">> \in written
      BY <2>4 DEF OfWritten
    <3>2. <<j, "proc">> \in Contents(sum[d]) \cup aside \cup Billed
      BY <2>1, <2>4, <3>1 DEF EndLast
    <3> QED
      BY <2>2, <2>3, <3>2 DEF Billed
  <2>5. CASE <<j, "end">> \notin Contents(sum[d])
    <3>1. bills[<<j, "end">>] > 0
      BY <2>2, <2>3, <2>5
    <3>2. bills[<<j, "proc">>] > 0 \/ <<j, "proc">> \in aside
      BY <3>1 DEF WholeJobs
    <3> QED
      BY <2>2, <2>3, <3>2
  <2> QED
    BY <2>4, <2>5
<1>3. CASE UNCHANGED vars \/ Switch \/ Unlock \/ PeriodStart \/ PeriodList \/ PeriodAdd \/ PeriodRemove
  BY <1>1, <1>3, Zenon DEF vars, Switch, Unlock, PeriodStart, PeriodList, PeriodAdd, PeriodRemove, history
<1>4. ASSUME NEW r \in Run, Invoke(r) \/ Crash(r) \/ MakeLock(r) \/ Start(r) \/ WriteState(r) \/ MakeDir(r) \/ Restart(r)
      PROVE  bills' = bills /\ aside' = aside
  BY <1>4, Zenon DEF Invoke, Crash, MakeLock, Start, WriteState, MakeDir, Restart, history
<1>5. ASSUME NEW r \in Run, Advance(r) \/ Setup(r) \/ Ls(r) \/ Mv(r) \/ Verify(r) \/ VerifyFile(r) \/ MvBad(r)
      PROVE  bills' = bills /\ aside' = aside
  BY <1>5, Zenon DEF Advance, Setup, Ls, Mv, Verify, VerifyFile, MvBad, history
<1>6. ASSUME NEW r \in Run, ReadOnly(r) \/ Build(r) \/ Report(r) \/ Recycle(r) \/ MvRecycled(r) \/ Reports(r)
                            \/ RemoveWork(r) \/ RemoveLock(r)
      PROVE  bills' = bills /\ aside' = aside
  BY <1>6, Zenon DEF ReadOnly, Build, Report, Recycle, MvRecycled, Reports, RemoveWork, RemoveLock, history
<1>7. ASSUME NEW r \in Run, MvGood(r) PROVE bills' = bills /\ aside \subseteq aside'
  BY <1>7 DEF MvGood
<1>8. ASSUME NEW rec \in Rec, CsadWrites(rec) PROVE bills' = bills /\ aside' = aside
  BY <1>8 DEF CsadWrites
<1> QED
  BY <1>1, <1>2, <1>3, <1>4, <1>5, <1>6, <1>7, <1>8 DEF Next, Step

(***************************************************************************)
(* The theorems                                                            *)
(***************************************************************************)
KeptInv == NightsInv /\ Held /\ Reported /\ EndLast /\ WholeJobs

(* Wherever a run dies, and whatever it, its restarts and csaperiod do:    *)
(* each record is in a file that a later step reads, reported, or set      *)
(* aside, and the end of a job is behind its processes.                    *)
THEOREM KeptInvariant ==
  ASSUME Orderly
  PROVE  Spec => []KeptInv
<1>1. Init /\ NightsInv => KeptInv
  <2> SUFFICES ASSUME Init, NightsInv PROVE KeptInv
    OBVIOUS
  <2>1. WholeJobs
    BY CsarunAssumption DEF Init, WholeJobs, Rec
  <2> QED
    BY <2>1, InitHeld, InitReported, InitEnd DEF KeptInv
<1>2. KeptInv /\ NightsInv' /\ [Next]_vars => KeptInv'
  <2> SUFFICES ASSUME KeptInv, NightsInv', [Next]_vars PROVE KeptInv'
    OBVIOUS
  <2>1. Held'
    BY NextHeld DEF KeptInv, NightsInv
  <2>2. Reported'
    BY NextReported DEF KeptInv, NightsInv
  <2>3. EndLast'
    BY NextEnd DEF KeptInv, NightsInv
  <2>4. WholeJobs'
    BY NextWhole DEF KeptInv, NightsInv
  <2> QED
    BY <2>1, <2>2, <2>3, <2>4 DEF KeptInv
<1> QED
  BY <1>1, <1>2, NightsInvariant, PTL DEF Spec

(* csarun removes no file that holds the only copy of a record: for any    *)
(* number of nights, files, records and faults, a record that was written  *)
(* is reported, taken out as damaged, or in a file that is read later.     *)
THEOREM NothingLost ==
  ASSUME Orderly
  PROVE  Spec => []NoRecordLost
<1>1. KeptInv => NoRecordLost
  <2> SUFFICES ASSUME KeptInv, NEW rec \in written
               PROVE  \/ rec \in Kept \cup aside \/ bills[rec] > 0
                      \/ \E r \in Run : At(r, "unlock") \/ At(r, "complete")
    BY DEF NoRecordLost
  <2>1. rec \in Kept \cup aside \cup Billed \/ Leaving(rec)
    BY DEF KeptInv, Held
  <2> QED
    BY <2>1 DEF Billed, Leaving, At
<1> QED
  BY <1>1, KeptInvariant, PTL

(* No night reports the end of a job whose processes are still to be       *)
(* reported: csacon, csarecy and the restarts keep a job together.         *)
THEOREM JobsReportedWhole ==
  ASSUME Orderly
  PROVE  Spec => []WholeJobs
<1>1. KeptInv => WholeJobs
  BY DEF KeptInv
<1> QED
  BY <1>1, KeptInvariant, PTL
=============================================================================
