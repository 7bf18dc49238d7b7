------------------------------- MODULE Csarun -------------------------------
(***************************************************************************)
(* The nightly run (csa/cmd/csarun.in) and the periodic run                *)
(* (csaperiod.in) over the files they share: a state file, a lock, the     *)
(* files of the day, a work directory for each run and the daily files of  *)
(* sum.  A file is the set of its records; the programs that csarun calls  *)
(* are what they do to these sets.  A run may die between any two          *)
(* commands, and is restarted in the state it had reached.                 *)
(***************************************************************************)
EXTENDS Naturals, FiniteSets, FiniteSetsExt, SequencesExt

CONSTANTS
  Run,                  \* the invocations of csarun that may be alive at once
  Job, Ending,          \* Ending: the jobs whose end is recorded
  Early,                \* the records that pacct holds at first
  MaxDate,              \* nights
  MaxFile,              \* pacct1 .. pacct<MaxFile>
  MaxBad,               \* bound on the damaged records
  MaxFaults,            \* bound on crashes and on programs that fail
  Named,                \* the states that restarts name
  CrashPoints,          \* where a run may die
  RecyFails,            \* csarecy may fail
  SwitchInSetup,        \* somebody switches pacct while csarun is in SETUP
  OptionsKept,          \* a restart has the options of the run it resumes
  PeriodAlone           \* csaperiod and csarun do not run at the same time

ASSUME CsarunAssumption ==
  /\ Ending \subseteq Job
  /\ MaxDate \in Nat /\ MaxFile \in Nat \ {0} /\ MaxBad \in Nat /\ MaxFaults \in Nat
  /\ \A b \in {RecyFails, SwitchInSetup, OptionsKept, PeriodAlone} : b \in BOOLEAN

Rec == (Job \X {"proc"}) \cup (Ending \X {"end"})   \* an end of process, the end of the job
Date == 1..MaxDate
File == 0..MaxFile                      \* pacct0 is what csarecy left over
None == {}                              \* no such file
Holding(S) == {S}                       \* a file with the records S
Contents(f) == UNION f
AllOf(W) == UNION {Contents(W[f]) : f \in File}

States == <<"SETUP", "VERIFY", "ARCHIVE1", "BUILD", "ARCHIVE2", "CMS", "REPORT",
            "DREP", "FEF", "USEREXIT", "CLEANUP", "COMPLETE">>
Place(s) == CHOOSE i \in DOMAIN States : States[i] = s
(* Mutant: the name of a state that no command writes. *)
AfterMisspelt(s) == IF s = "FEF" THEN "USEREXITS" ELSE States[Place(s) + 1]
After(s) == States[Place(s) + 1]

ASSUME StartAssumption ==
  /\ Early \subseteq Rec /\ \A j \in Ending : <<j, "end">> \in Early => <<j, "proc">> \in Early
  /\ Named \subseteq ToSet(States) \ {"COMPLETE"}

VARIABLES
  nite,         \* the files of nite: lock, statefile (state), clastdate (date)
  pacct,        \* the file csad writes
  day,          \* the files put aside, and pacct0
  work,         \* the work directory of each date
  sum,          \* sum/cacct of each date
  run,          \* each csarun
  period,       \* csaperiod
  damaged,      \* the records csaverify finds fault with
  faults,       \* crashes and failed programs so far
  written, aside, bills, charged,       \* history: see below
  asked                                 \* history: whether -A was given

nights == <<nite, pacct, day, work, sum>>
history == <<written, aside, bills, charged, asked>>
vars == <<nights, run, period, damaged, faults, history>>

(* written: the records so far.  aside: those csaedit took out.  bills: in *)
(* how many completed nights each record was reported.  charged: in how    *)
(* many periods it was.                                                    *)
NoFiles == [f \in File |-> None]
EmptyDir == [made |-> TRUE, W |-> NoFiles, bad |-> NoFiles, edited |-> None, spacct |-> None, recycled |-> None]
NoDir == [EmptyDir EXCEPT !.made = FALSE]
Off == [pc |-> "off", date |-> 0, arg |-> "none", all |-> FALSE, edit |-> TRUE, at |-> "none", todo |-> {}]
NoPeriod == [pc |-> "off", list |-> {}, data |-> {}]

Init ==
  /\ nite = [lock |-> FALSE, state |-> "COMPLETE", date |-> 0]
  /\ pacct = Early /\ day = NoFiles
  /\ work = [d \in Date |-> NoDir] /\ sum = [d \in Date |-> None]
  /\ run = [r \in Run |-> Off] /\ period = NoPeriod
  /\ damaged = {} /\ faults = 0
  /\ written = Early /\ aside = {} /\ asked = FALSE
  /\ bills = [r \in Rec |-> 0] /\ charged = [r \in Rec |-> 0]

At(r, pc) == run[r].pc = pc
Goto(r, pc) == run' = [run EXCEPT ![r].pc = pc]
Dir(r) == work[run[r].date]
Active == {r \in Run : ~At(r, "off")}

(* ERROR_EXIT removes the lock, whoever made it. *)
ErrorExit(r) ==
  /\ run' = [run EXCEPT ![r] = Off]
  /\ nite' = [nite EXCEPT !.lock = FALSE]

(* A command of the script returns an error. *)
Fails(r) ==
  /\ faults < MaxFaults /\ faults' = faults + 1
  /\ ErrorExit(r)

(***************************************************************************)
(* csad and csaswitch                                                      *)
(***************************************************************************)
CsadWrites(rec) ==
  /\ rec \notin written
  /\ rec[2] = "end" => <<rec[1], "proc">> \in written
  /\ pacct' = pacct \cup {rec} /\ written' = written \cup {rec}
  /\ \/ UNCHANGED damaged
     \/ Cardinality(damaged) < MaxBad /\ damaged' = damaged \cup {rec}
  /\ UNCHANGED <<nite, day, work, sum, run, period, faults, aside, bills, charged, asked>>

(* pacct takes the first number that is free. *)
PutAside ==
  \E f \in 1..MaxFile :
    /\ day[f] = None
    /\ \A g \in 1..(f - 1) : day[g] # None
    /\ day' = [day EXCEPT ![f] = Holding(pacct)] /\ pacct' = {}

(* csackpacct, when pacct has grown. *)
Switch ==
  /\ pacct # {}
  /\ SwitchInSetup \/ \A r \in Run : run[r].pc \notin {"ls", "mv"}
  /\ PutAside
  /\ UNCHANGED <<nite, work, sum, run, period, damaged, faults, history>>

(***************************************************************************)
(* csarun: the start                                                       *)
(***************************************************************************)
(* The lock is looked at before it is made.  arg is "cron" without         *)
(* arguments, or the kind of restart; all is -A, edit is not -V 1.         *)
Invoke(r) ==
  /\ At(r, "off") /\ (PeriodAlone => period.pc = "off")
  /\ \E d \in Date \cap {nite.date, nite.date + 1}, arg \in {"cron", "restart"} \cup Named,
        all \in BOOLEAN, edit \in BOOLEAN :
       /\ arg # "cron" => (OptionsKept => all = asked)
       /\ arg \notin {"cron", "restart"} => nite.state # "COMPLETE"
       /\ IF nite.lock THEN ErrorExit(r)
          ELSE /\ run' = [run EXCEPT ![r] = [Off EXCEPT !.pc = "lock", !.date = d, !.arg = arg,
                                                      !.all = all, !.edit = edit]]
               /\ UNCHANGED nite
  /\ UNCHANGED <<pacct, day, work, sum, period, damaged, faults, history>>

MakeLock(r) ==
  /\ At(r, "lock")
  /\ nite' = [nite EXCEPT !.lock = TRUE]
  /\ Goto(r, "args")
  /\ UNCHANGED <<pacct, day, work, sum, period, damaged, faults, history>>

(* Not enough space, or: without arguments the last run must be complete   *)
(* and not of this minute.                                                 *)
Start(r) ==
  /\ At(r, "args") /\ run[r].arg = "cron"
  /\ \/ Fails(r) /\ UNCHANGED asked
     \/ /\ IF nite.date = run[r].date \/ nite.state # "COMPLETE"
           THEN ErrorExit(r) /\ UNCHANGED asked
           ELSE /\ nite' = [nite EXCEPT !.date = run[r].date]
                /\ asked' = run[r].all
                /\ Goto(r, "state")
        /\ UNCHANGED faults
  /\ UNCHANGED <<pacct, day, work, sum, period, damaged, written, aside, bills, charged>>

WriteState(r) ==
  /\ At(r, "state")
  /\ nite' = [nite EXCEPT !.state = "SETUP"]
  /\ Goto(r, "mkdir")
  /\ UNCHANGED <<pacct, day, work, sum, period, damaged, faults, history>>

MakeDir(r) ==
  /\ At(r, "mkdir")
  /\ work' = [work EXCEPT ![run[r].date] = EmptyDir]
  /\ Goto(r, "loop")
  /\ UNCHANGED <<nite, pacct, day, sum, period, damaged, faults, history>>

(* A restart needs the work directory; in the states that read the sorted  *)
(* file it needs that file, or begins again at BUILD.  A state given as    *)
(* the third argument is written to the state file, and its date is taken  *)
(* as it is.                                                               *)
Restart(r) ==
  /\ At(r, "args") /\ run[r].arg # "cron"
  /\ LET given == run[r].arg # "restart"
         state == IF given THEN run[r].arg ELSE nite.state
         again == state \in {"ARCHIVE2", "CMS", "REPORT", "DREP", "FEF"}
     IN IF (~given /\ run[r].date # nite.date) \/ ~Dir(r).made
        THEN /\ run' = [run EXCEPT ![r] = Off]
             /\ nite' = [nite EXCEPT !.lock = FALSE, !.state = state]
        ELSE /\ nite' = [nite EXCEPT !.state = IF again /\ Dir(r).spacct = None THEN "BUILD" ELSE state]
             /\ run' = [run EXCEPT ![r].pc = "loop", ![r].arg = "restart"]
  /\ UNCHANGED <<pacct, day, work, sum, period, damaged, faults, history>>

(***************************************************************************)
(* csarun: the states                                                      *)
(***************************************************************************)
In(r, state) == At(r, "loop") /\ nite.state = state
Begin(r, state, pc) == run' = [run EXCEPT ![r].pc = pc, ![r].at = state]

(* The end of each state writes the next one to the state file. *)
Advance(r) ==
  /\ At(r, "next")
  /\ nite' = [nite EXCEPT !.state = After(run[r].at)]
  /\ run' = [run EXCEPT ![r].pc = "loop", ![r].at = "none"]
  /\ UNCHANGED <<pacct, day, work, sum, period, damaged, faults, history>>

(* SETUP: a restart moves nothing. *)
Setup(r) ==
  /\ In(r, "SETUP")
  /\ IF run[r].arg # "cron" THEN Begin(r, "SETUP", "next") /\ UNCHANGED <<nite, pacct, day, faults>>
     ELSE \/ Fails(r) /\ UNCHANGED <<pacct, day>>
          \/ PutAside /\ Begin(r, "SETUP", "ls") /\ UNCHANGED <<nite, faults>>
  /\ UNCHANGED <<work, sum, period, damaged, history>>

Ls(r) ==
  /\ At(r, "ls")
  /\ run' = [run EXCEPT ![r].pc = "mv", ![r].todo = {f \in File : day[f] # None}]
  /\ UNCHANGED <<nights, period, damaged, faults, history>>

Mv(r) ==
  /\ At(r, "mv")
  /\ IF run[r].todo = {} THEN Goto(r, "next") /\ UNCHANGED <<nite, day, work>>
     ELSE LET f == Min(run[r].todo)
          IN IF Dir(r).W[f] # None THEN ErrorExit(r) /\ UNCHANGED <<day, work>>
             ELSE /\ work' = [work EXCEPT ![run[r].date].W[f] = day[f]]
                  /\ day' = [day EXCEPT ![f] = None]
                  /\ run' = [run EXCEPT ![r].todo = @ \ {f}]
                  /\ UNCHANGED nite
  /\ UNCHANGED <<pacct, sum, period, damaged, faults, history>>

(* VERIFY: the files that are there are verified one by one. *)
Verify(r) ==
  /\ In(r, "VERIFY")
  /\ run' = [run EXCEPT ![r].pc = "verify", ![r].at = "VERIFY",
                        ![r].todo = {f \in File : Contents(Dir(r).W[f]) # {}}]
  /\ UNCHANGED <<nights, period, damaged, faults, history>>

(* CSAVERIFY: csaverify, and csaedit of a file with damaged records.       *)
VerifyFile(r) ==
  /\ At(r, "verify")
  /\ LET f == Min(run[r].todo)
         good == Contents(Dir(r).W[f]) \ damaged
     IN IF run[r].todo = {} THEN Goto(r, "next") /\ UNCHANGED <<nite, work, faults>>
        ELSE \/ Fails(r) /\ UNCHANGED work
             \/ /\ Contents(Dir(r).W[f]) = good
                /\ run' = [run EXCEPT ![r].todo = @ \ {f}]
                /\ UNCHANGED <<nite, work, faults>>
             \/ /\ Contents(Dir(r).W[f]) # good /\ run[r].edit
                /\ work' = [work EXCEPT ![run[r].date].edited = Holding(good)]
                /\ Goto(r, "mvbad")
                /\ UNCHANGED <<nite, faults>>
             \/ /\ Contents(Dir(r).W[f]) # good /\ ~run[r].edit
                /\ ErrorExit(r)
                /\ UNCHANGED <<work, faults>>
  /\ UNCHANGED <<pacct, day, sum, period, damaged, history>>

MvBad(r) ==
  /\ At(r, "mvbad")
  /\ LET f == Min(run[r].todo)
     IN work' = [work EXCEPT ![run[r].date].W[f] = None, ![run[r].date].bad[f] = Dir(r).W[f]]
  /\ Goto(r, "mvgood")
  /\ UNCHANGED <<nite, pacct, day, sum, period, damaged, faults, history>>

MvGood(r) ==
  /\ At(r, "mvgood")
  /\ LET f == Min(run[r].todo)
     IN work' = [work EXCEPT ![run[r].date].W[f] = Dir(r).edited, ![run[r].date].edited = None]
  /\ aside' = aside \cup (AllOf(Dir(r).bad) \cap damaged)
  /\ Goto(r, "verify")
  /\ UNCHANGED <<nite, pacct, day, sum, period, damaged, faults, written, bills, charged, asked>>

(* The states that only read: user exits, and the command summaries and    *)
(* the report of the daemons, which are made from the sorted file.         *)
ReadOnly(r) ==
  /\ At(r, "loop")
  /\ nite.state \in {"ARCHIVE1", "ARCHIVE2", "CMS", "DREP", "FEF", "USEREXIT"}
  /\ \/ Fails(r)
     \/ /\ IF nite.state \in {"CMS", "DREP"} /\ Dir(r).spacct = None THEN ErrorExit(r)
           ELSE Begin(r, nite.state, "next") /\ UNCHANGED nite
        /\ UNCHANGED faults
  /\ UNCHANGED <<pacct, day, work, sum, period, damaged, history>>

(* Mutant: no file after the first. *)
ReachedFirst(W) == {f \in 0..1 : W[f] # None}
(* csabuild reads Wpacct0 and then Wpacct1, Wpacct2, ... up to the first   *)
(* that is missing; there must be a Wpacct1.                               *)
Reached(W) == {f \in File : \A g \in 1..f : W[g] # None}
Build(r) ==
  /\ In(r, "BUILD")
  /\ \/ Fails(r) /\ UNCHANGED work
     \/ /\ IF Dir(r).W[1] = None THEN ErrorExit(r) /\ UNCHANGED work
           ELSE /\ work' = [work EXCEPT ![run[r].date].spacct =
                              Holding(UNION {Contents(Dir(r).W[f]) : f \in Reached(Dir(r).W)})]
                /\ Begin(r, "BUILD", "next") /\ UNCHANGED nite
        /\ UNCHANGED faults
  /\ UNCHANGED <<pacct, day, sum, period, damaged, history>>

(* REPORT: csacon reports the jobs that have ended, or all with -A.        *)
Ended(S) == {rec \in S : <<rec[1], "end">> \in S}
Report(r) ==
  /\ In(r, "REPORT")
  /\ LET S == Contents(Dir(r).spacct)
     IN \/ /\ Fails(r)
           /\ sum' = [sum EXCEPT ![run[r].date] = Holding({})]
        \/ /\ sum' = [sum EXCEPT ![run[r].date] = Holding(IF run[r].all THEN S ELSE Ended(S))]
           /\ IF Dir(r).spacct = None THEN ErrorExit(r)
              ELSE Begin(r, "REPORT", IF run[r].all THEN "reports" ELSE "recy") /\ UNCHANGED nite
           /\ UNCHANGED faults
  /\ UNCHANGED <<pacct, day, work, period, damaged, history>>

(* Mutant: csarecy keeps the jobs that have been reported, too.            *)
RecycleAll(r) ==
  /\ At(r, "recy")
  /\ LET rest == Contents(Dir(r).spacct)
     IN \E kept \in (IF RecyFails THEN {rest, {}} ELSE {rest}) :
          work' = [work EXCEPT ![run[r].date].recycled = Holding(kept)]
  /\ Goto(r, "mvrecycled")
  /\ UNCHANGED <<nite, pacct, day, sum, period, damaged, faults, history>>

(* csarecy keeps the other jobs.  Its exit status is lost, because the     *)
(* line that redirects its errors is a command of its own.                 *)
Recycle(r) ==
  /\ At(r, "recy")
  /\ LET rest == Contents(Dir(r).spacct) \ Ended(Contents(Dir(r).spacct))
     IN \E kept \in (IF RecyFails THEN {rest, {}} ELSE {rest}) :
          work' = [work EXCEPT ![run[r].date].recycled = Holding(kept)]
  /\ Goto(r, "mvrecycled")
  /\ UNCHANGED <<nite, pacct, day, sum, period, damaged, faults, history>>

(* Mutant: an empty file is moved, and no other.                           *)
MvRecycledInverted(r) ==
  /\ At(r, "mvrecycled")
  /\ IF Contents(Dir(r).recycled) # {} THEN UNCHANGED <<day, work>>
     ELSE /\ day' = [day EXCEPT ![0] = Dir(r).recycled]
          /\ work' = [work EXCEPT ![run[r].date].recycled = None]
  /\ Goto(r, "reports")
  /\ UNCHANGED <<nite, pacct, sum, period, damaged, faults, history>>

MvRecycled(r) ==
  /\ At(r, "mvrecycled")
  /\ IF Contents(Dir(r).recycled) = {} THEN UNCHANGED <<day, work>>
     ELSE /\ day' = [day EXCEPT ![0] = Dir(r).recycled]
          /\ work' = [work EXCEPT ![run[r].date].recycled = None]
  /\ Goto(r, "reports")
  /\ UNCHANGED <<nite, pacct, sum, period, damaged, faults, history>>

Reports(r) ==
  /\ At(r, "reports")
  /\ \/ Fails(r)
     \/ Goto(r, "next") /\ UNCHANGED <<nite, faults>>
  /\ UNCHANGED <<pacct, day, work, sum, period, damaged, history>>

(* CLEANUP: the work directory, the lock, the state. *)
RemoveWork(r) ==
  /\ In(r, "CLEANUP")
  /\ work' = [work EXCEPT ![run[r].date] = NoDir]
  /\ Begin(r, "CLEANUP", "unlock")
  /\ UNCHANGED <<nite, pacct, day, sum, period, damaged, faults, history>>

RemoveLock(r) ==
  /\ At(r, "unlock")
  /\ nite' = [nite EXCEPT !.lock = FALSE]
  /\ Goto(r, "complete")
  /\ UNCHANGED <<pacct, day, work, sum, period, damaged, faults, history>>

Complete(r) ==
  /\ At(r, "complete")
  /\ nite' = [nite EXCEPT !.state = "COMPLETE"]
  /\ run' = [run EXCEPT ![r] = Off]
  /\ bills' = [rec \in Rec |-> IF rec \in Contents(sum[run[r].date]) THEN bills[rec] + 1 ELSE bills[rec]]
  /\ UNCHANGED <<pacct, day, work, sum, period, damaged, faults, written, aside, charged, asked>>

(* The machine goes down, or the run is killed: the lock stays. *)
Crash(r) ==
  /\ (IF At(r, "loop") THEN nite.state ELSE run[r].pc) \in CrashPoints
  /\ faults < MaxFaults /\ faults' = faults + 1
  /\ run' = [run EXCEPT ![r] = Off]
  /\ UNCHANGED <<nights, period, damaged, history>>

(* The administrator removes the lock of a run that died. *)
Unlock ==
  /\ nite.lock /\ Active = {}
  /\ nite' = [nite EXCEPT !.lock = FALSE]
  /\ UNCHANGED <<pacct, day, work, sum, run, period, damaged, faults, history>>

(***************************************************************************)
(* csaperiod -r                                                            *)
(***************************************************************************)
(* Mutant: the state file is not looked at. *)
PeriodStartUnchecked ==
  /\ period.pc = "off" /\ (PeriodAlone => Active = {})
  /\ \E from \in Date, to \in Date :
       /\ from <= to
       /\ period' = [NoPeriod EXCEPT !.pc = "list", !.list = from..to]
  /\ UNCHANGED <<nights, run, damaged, faults, history>>

(* A period that has the date of the last run needs that run complete.     *)
PeriodStart ==
  /\ period.pc = "off" /\ (PeriodAlone => Active = {})
  /\ \E from \in Date, to \in Date :
       /\ from <= to
       /\ nite.date \in from..to => nite.state = "COMPLETE"
       /\ period' = [NoPeriod EXCEPT !.pc = "list", !.list = from..to]
  /\ UNCHANGED <<nights, run, damaged, faults, history>>

(* The daily files of the period that are not empty. *)
PeriodList ==
  /\ period.pc = "list"
  /\ LET found == {d \in period.list : Contents(sum[d]) # {}}
     IN period' = IF found = {} THEN NoPeriod ELSE [period EXCEPT !.pc = "add", !.list = found]
  /\ UNCHANGED <<nights, run, damaged, faults, history>>

(* csaaddc adds the daily files up; it stops at one that has gone. *)
PeriodAdd ==
  /\ period.pc = "add"
  /\ period' = IF \E d \in period.list : sum[d] = None THEN NoPeriod
               ELSE [period EXCEPT !.pc = "remove", !.data = UNION {{d} \X Contents(sum[d]) : d \in period.list}]
  /\ UNCHANGED <<nights, run, damaged, faults, history>>

(* The reports, or one of them fails; the daily files are removed. *)
PeriodRemove ==
  /\ period.pc = "remove"
  /\ period' = NoPeriod
  /\ \/ /\ sum' = [d \in Date |-> IF d \in period.list THEN None ELSE sum[d]]
        /\ charged' = [rec \in Rec |-> charged[rec] + Cardinality({d \in Date : <<d, rec>> \in period.data})]
        /\ UNCHANGED faults
     \/ /\ faults < MaxFaults /\ faults' = faults + 1
        /\ UNCHANGED <<sum, charged>>
  /\ UNCHANGED <<nite, pacct, day, work, run, damaged, written, aside, bills, asked>>

Step(r) ==
  \/ MakeLock(r) \/ Start(r) \/ WriteState(r) \/ MakeDir(r) \/ Restart(r) \/ Advance(r)
  \/ Setup(r) \/ Ls(r) \/ Mv(r) \/ Verify(r) \/ VerifyFile(r) \/ MvBad(r) \/ MvGood(r)
  \/ ReadOnly(r) \/ Build(r) \/ Report(r) \/ Recycle(r) \/ MvRecycled(r) \/ Reports(r)
  \/ RemoveWork(r) \/ RemoveLock(r) \/ Complete(r)

Next ==
  \/ \E rec \in Rec : CsadWrites(rec)
  \/ Switch \/ Unlock
  \/ \E r \in Run : Invoke(r) \/ Step(r) \/ Crash(r)
  \/ PeriodStart \/ PeriodList \/ PeriodAdd \/ PeriodRemove

Spec == Init /\ [][Next]_vars

(* csarun and csaperiod go on as long as they are alive, and the           *)
(* administrator restarts a run that stopped, with csaedit allowed.        *)
Resume(r) ==
  /\ nite.state # "COMPLETE" /\ Invoke(r)
  /\ run'[r].pc = "lock" /\ run'[r].arg = "restart" /\ run'[r].date = nite.date /\ run'[r].edit
Fairness ==
  /\ WF_vars(Unlock) /\ WF_vars(PeriodList \/ PeriodAdd \/ PeriodRemove)
  /\ \A r \in Run : WF_vars(Step(r)) /\ SF_vars(Resume(r))
FairSpec == Spec /\ Fairness

(***************************************************************************)
(* Properties                                                              *)
(***************************************************************************)
InDir(w) == AllOf(w.W) \cup AllOf(w.bad) \cup Contents(w.edited) \cup Contents(w.recycled)
Kept == pacct \cup AllOf(day) \cup UNION {InDir(work[d]) : d \in Date}

(* Until a record has been reported or taken out as damaged, it is in a    *)
(* file that a later step of this night or of a later one reads: csarun    *)
(* removes no file that holds the only copy of a record.                   *)
NoRecordLost ==
  \A rec \in written : \/ rec \in Kept \cup aside \/ bills[rec] > 0
                       \/ \E r \in Run : At(r, "unlock") \/ At(r, "complete")

(* A job is reported as a whole: the night that reports its end, or one    *)
(* before it, reports its other records.                                   *)
WholeJobs ==
  \A j \in Ending : bills[<<j, "end">>] > 0 => bills[<<j, "proc">>] > 0 \/ <<j, "proc">> \in aside

(* csaperiod charges a record only after its night was completed, and in   *)
(* one period.                                                             *)
PeriodFollowsNights == \A rec \in Rec : charged[rec] <= bills[rec]

(* Across restarts, recycling and periods no record is reported in two     *)
(* nights.                                                                 *)
Nights == INSTANCE Billing
BillsOnce == Nights!BSpec

(* A night whose files have been moved is completed in the end, wherever   *)
(* it stopped.                                                             *)
NightsComplete ==
  (nite.state \notin {"SETUP", "COMPLETE"} /\ \E d \in Date : d = nite.date /\ work[d].W[1] # None)
    ~> nite.state = "COMPLETE"
=============================================================================
