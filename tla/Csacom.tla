------------------------------- MODULE Csacom -------------------------------
(***************************************************************************)
(* csacom searches pacct files while csad appends to the last of them: it  *)
(* reads forward or backward (acctio.c), chooses records by time, user,    *)
(* job and other conditions, and prints them or copies them to a file.  It *)
(* takes the records to be in the order in which processes end, and stops  *)
(* reading as soon as no later one can be wanted.                          *)
(*                                                                         *)
(* Units are those of Records.  The files hold whole records; local time   *)
(* is universal time.  One condition `fit' stands for -g, -n, -C, -O, -I   *)
(* and -H, which look at the process record alone.                         *)
(***************************************************************************)
EXTENDS Integers, SequencesExt, FiniteSetsExt

CONSTANTS
  Size,                 \* units of a record of each type
  Record,               \* what csad may write
  Arg,                  \* the options csacom may be given
  Day,                  \* length of a day
  MaxRecord, MaxFile    \* bounds on csad and csaswitch

Linked == {"mem", "io", "delay"}
Room == Size["csa"] + Size["mem"] + Size["io"] + Size["delay"]      \* ACCTENTSIZ
NotGiven == -1
Times == {"S", "e", "s", "E"}

ASSUME CsacomAssumption ==
  /\ \A x \in Record : /\ x.type \notin Linked /\ ToSet(x.links) \subseteq Linked
                       /\ x.links # <<>> => x.type = "csa"
                       /\ x.start \in Nat /\ x.end \in Nat
  /\ \A a \in Arg : a.time \in [Times -> Nat \cup {NotGiven}]
  /\ \A x \in Record, a \in Arg, t \in Times : x.start > a.time[t]     \* 1970 is long ago
  /\ Day \in Nat \ {0} /\ MaxRecord \in Nat /\ MaxFile \in Nat

VARIABLES
  rec,          \* every record csad wrote
  pacct,        \* the files: sequences of units
  args, argc,   \* thisApp.args, and how many files were named
  status,       \* idle, open, more, end; aborted
  file, pos,    \* the file being read, and the place in it
  seen,         \* units that were there when it was opened
  base,         \* calcs.current_start
  begin, days,  \* calcs.begin_time, calcs.day_count
  printed,      \* the records chosen
  dates,        \* the lines of -W
  out           \* the file of -o

reader == <<args, argc, status, file, pos, seen, base, begin, days, printed, dates, out>>
vars == <<rec, pacct, reader>>

(***************************************************************************)
(* csad and csaswitch                                                      *)
(***************************************************************************)
RecordUnits(e, type, more) == [k \in 1..Size[type] |-> [e |-> e, type |-> type, more |-> more, k |-> k]]
(* csad says that more follow (AMORE) as it adds the next record. *)
CsadEntry(e, types) == FlattenSeq([p \in DOMAIN types |-> RecordUnits(e, types[p], p + 1 \in DOMAIN types)])

Types(x) == <<x.type>> \o x.links
At(x) == IF x.type \in {"csa", "eoj"} THEN x.end ELSE x.start

CsadWrites ==
  /\ Len(rec) < MaxRecord
  /\ \E x \in Record :
       /\ rec # <<>> => At(x) >= At(Last(rec))
       /\ rec' = Append(rec, x)
       /\ pacct' = [pacct EXCEPT ![Len(pacct)] = @ \o CsadEntry(Len(rec) + 1, Types(x))]
  /\ UNCHANGED reader

CsaswitchMoves ==
  /\ Len(pacct) < MaxFile /\ Last(pacct) # <<>>
  /\ pacct' = Append(pacct, <<>>)
  /\ UNCHANGED <<rec, reader>>

(***************************************************************************)
(* readacctent                                                             *)
(***************************************************************************)
(* VLEN_READ: no more than the buffer holds. *)
ReadPacct(f, q, room) == Min({room, Size[f[q].type]})

(* ret is 0 at the end of the file, -1 for an error; recs are the places   *)
(* of the records read, end is how many units are before the next read.    *)
ReadForward(f, from) ==
  LET Read[p \in 0..Len(f), n \in 0..Room] ==
        IF n = Room THEN [ret |-> -1, recs |-> <<>>, end |-> p]
        ELSE IF p = Len(f) THEN [ret |-> 0, recs |-> <<>>, end |-> p]
        ELSE LET q == p + 1
                 size == ReadPacct(f, q, Room - n)
             IN IF ~f[q].more THEN [ret |-> n + size, recs |-> <<q>>, end |-> p + size]
                ELSE LET rest == Read[p + size, n + size] IN [rest EXCEPT !.recs = <<q>> \o @]
  IN Read[from, 0]

(* stepback: the last header before p; there is none at the beginning. *)
HeadersBefore(f, p) == {q \in 1..p : f[q].k = 1}

(* Having read a record it steps back to its beginning, and then on to the *)
(* one before, which belongs to the entry if it says that more follow.     *)
(* When the buffer is full the step is undone by the length of a header,   *)
(* which leaves the place behind the header of that record.                *)
BackwardFrom(f, from, undone) ==
  LET Read[p \in 0..Len(f), n \in 0..Room] ==
        IF HeadersBefore(f, p) = {} THEN [ret |-> n, recs |-> <<>>, end |-> 0]
        ELSE LET q == Max(HeadersBefore(f, p))
                 size == ReadPacct(f, q, Room - n)
             IN IF n = Room THEN [ret |-> n, recs |-> <<>>, end |-> q - 1 + undone]
                ELSE IF f[q].more /\ n = 0 THEN [ret |-> -1, recs |-> <<>>, end |-> q - 1 + size]
                ELSE IF ~f[q].more /\ n > 0 THEN [ret |-> n, recs |-> <<>>, end |-> q - 1 + size]
                ELSE LET rest == Read[q - 1, n + size] IN [rest EXCEPT !.recs = <<q>> \o @]
  IN Read[from, 0]
(* Mutant: the step is not undone. *)
ReadBackwardLess(f, from) == BackwardFrom(f, from, 0)
ReadBackward(f, from) == BackwardFrom(f, from, 1)

ReadAcctent(f, from, backward) == IF backward THEN ReadBackward(f, from) ELSE ReadForward(f, from)

(* writeacctent: a record is held back until it is known whether another   *)
(* of the entry follows.                                                   *)
WriteAcctent(e, types) == FlattenSeq([p \in DOMAIN types |-> RecordUnits(e, types[p], p < Len(types))])

(* checktype: of two records of a type the later one counts.               *)
Place(f, a) == Max({i \in DOMAIN a.recs : f[a.recs[i]].type \notin Linked})
Entry(f, a) == f[a.recs[Place(f, a)]].e
Shown(f, a) == [file |-> file', e |-> Entry(f, a), parts |-> {<<f[q].e, f[q].type>> : q \in ToSet(a.recs)}]

(***************************************************************************)
(* parse_and_validate_args                                                 *)
(***************************************************************************)
(* -o clears what is to be printed, -T all but -b and -L, -W everything    *)
(* but -L; -b beside -W is complained of only.                             *)
NoTimes == [t \in Times |-> NotGiven]
Validate(a) ==
  CASE a.o -> [a EXCEPT !.b = FALSE, !.L = FALSE, !.T = FALSE, !.W = FALSE]
    [] ~a.o /\ a.T -> [a EXCEPT !.W = FALSE]
    [] ~a.o /\ ~a.T /\ a.W -> [a EXCEPT !.b = FALSE, !.u = "any", !.j = 0, !.fit = FALSE, !.time = NoTimes]
    [] OTHER -> a

Begin ==
  /\ status = "idle"
  /\ \E a \in Arg : args' = Validate(a)
  /\ argc' = Len(pacct) /\ status' = "open"
  /\ UNCHANGED <<rec, pacct, file, pos, seen, base, begin, days, printed, dates, out>>

(***************************************************************************)
(* process_single_record                                                   *)
(***************************************************************************)
Midnight(t) == t - (t % Day)

(* What is left at 0 was not given, or is taken for not given. *)
Relative(t) == IF args.time[t] = NotGiven THEN 0 ELSE args.time[t]
NextDay(t) == IF t = "E" /\ Relative("e") # 0 /\ Relative("E") # 0 /\ Relative("E") < Relative("e") THEN Day ELSE 0
Limit(from, t) == IF Relative(t) = 0 THEN 0 ELSE from + Relative(t) + NextDay(t)

Before(limit, t) == limit # 0 /\ t < limit
Behind(limit, t) == limit # 0 /\ t > limit

JobAsked(x) == args.j \in {0, x.jid}
UserAsked(x) == \/ args.u \in {"any", x.user}
                \/ args.u = "?" /\ x.user = "unknown"
                \/ args.u = "#" /\ (x.type = "csa" => x.su)

EndOfJob(x, d) ==
  /\ args.T /\ JobAsked(x) /\ UserAsked(x)
  /\ ~Before(Limit(d, "s"), x.end) /\ ~Behind(Limit(d, "E"), x.end)
(* The limit of -e is that of the command line, a time of day. *)
StartOfJob(x, d) ==
  /\ args.T /\ JobAsked(x) /\ UserAsked(x)
  /\ ~Before(Limit(d, "S"), x.start) /\ ~Behind(Relative("e"), x.start)
Configuration(x, d) ==
  /\ args.L
  /\ ~Before(Limit(d, "s"), x.start) /\ ~Behind(Limit(d, "E"), x.start)
  /\ ~Before(Limit(d, "S"), x.start) /\ ~Behind(Limit(d, "e"), x.start)
Command(x, d) ==
  /\ ~args.T /\ JobAsked(x) /\ UserAsked(x) /\ (args.fit => x.fit)
  /\ ~Before(Limit(d, "s"), x.end) /\ ~Behind(Limit(d, "E"), x.end)
  /\ ~Before(Limit(d, "S"), x.start) /\ ~Behind(Limit(d, "e"), x.start)

Chosen(x, d) ==
  \/ x.type = "eoj" /\ EndOfJob(x, d)
  \/ x.type = "soj" /\ StartOfJob(x, d)
  \/ x.type = "cfg" /\ Configuration(x, d)
  \/ x.type = "csa" /\ Command(x, d)

(* Mutant: it stops at the first process that began too late. *)
ThatIsAllByStart(x, d) == x.type = "csa" /\ ~args.T /\ Behind(Limit(d, "e"), x.start) /\ ~args.b
(* THAT_IS_ALL *)
ThatIsAll(x, d) ==
  /\ x.type = "csa" /\ ~args.T
  /\ IF Before(Limit(d, "s"), x.end) THEN args.b ELSE Behind(Limit(d, "E"), x.end) /\ ~args.b

Process(f, a, d) ==
  LET x == rec[Entry(f, a)]
  IN /\ printed' = IF Chosen(x, d) THEN Append(printed, Shown(f, a)) ELSE printed
     /\ out' = IF Chosen(x, d) /\ args.o THEN out \o WriteAcctent(Entry(f, a), Types(x)) ELSE out
     /\ UNCHANGED <<begin, days, dates>>

(***************************************************************************)
(* process_input_file                                                      *)
(***************************************************************************)
Line(f, a, n) == [file |-> file', e |-> Entry(f, a), day |-> n]

(* The times asked for count from the day of the first record read. *)
Open ==
  /\ status = "open"
  /\ file' = file + 1
  /\ LET f == pacct[file + 1]
         a == ReadAcctent(f, IF args.b THEN Len(f) ELSE 0, args.b)
     IN IF a.ret <= 0 THEN /\ status' = "aborted"
                           /\ UNCHANGED <<pos, seen, base, begin, days, printed, dates, out>>
        ELSE LET x == rec[Entry(f, a)]
             IN /\ status' = "more" /\ pos' = a.end /\ seen' = Len(f)
                /\ base' = Midnight(IF x.type = "eoj" THEN x.end ELSE x.start)
                /\ IF args.W
                   THEN /\ begin' = base' /\ dates' = Append(dates, Line(f, a, days))
                        /\ printed' = IF args.L /\ x.type = "cfg" THEN Append(printed, Shown(f, a)) ELSE printed
                        /\ UNCHANGED <<days, out>>
                   ELSE Process(f, a, base')
  /\ UNCHANGED <<rec, pacct, args, argc>>

(* -W: the line of a new day, or a configuration record, asked for or not. *)
DateChange(f, a) ==
  LET x == rec[Entry(f, a)]
      later == Midnight(x.start)
  IN /\ UNCHANGED <<status, out>>
     /\ IF x.type # "csa"
        THEN /\ printed' = IF x.type = "cfg" THEN Append(printed, Shown(f, a)) ELSE printed
             /\ UNCHANGED <<begin, days, dates>>
        ELSE /\ UNCHANGED printed
             /\ IF later <= begin THEN UNCHANGED <<begin, days, dates>>
                ELSE /\ days' = days + (later - begin) \div Day /\ begin' = later
                     /\ dates' = Append(dates, Line(f, a, days'))

ReadOn ==
  /\ status = "more" /\ UNCHANGED <<rec, pacct, args, argc, file, seen, base>>
  /\ LET f == pacct[file]
         a == ReadAcctent(f, pos, args.b)
     IN IF a.ret <= 0 THEN status' = "end" /\ UNCHANGED <<pos, begin, days, printed, dates, out>>
        ELSE /\ pos' = a.end
             /\ IF args.W THEN DateChange(f, a)
                ELSE /\ Process(f, a, base)
                     /\ status' = IF ThatIsAll(rec[Entry(f, a)], base) THEN "end" ELSE "more"

NextFile ==
  /\ status = "end" /\ file < argc
  /\ status' = "open"
  /\ UNCHANGED <<rec, pacct, args, argc, file, pos, seen, base, begin, days, printed, dates, out>>

(***************************************************************************)
(* Specification                                                           *)
(***************************************************************************)
Init ==
  /\ rec = <<>> /\ pacct = << <<>> >>
  /\ args = [b |-> FALSE, L |-> FALSE, T |-> FALSE, W |-> FALSE, o |-> FALSE, u |-> "any", j |-> 0,
             fit |-> FALSE, time |-> NoTimes]
  /\ argc = 0 /\ status = "idle" /\ file = 0 /\ pos = 0 /\ seen = 0 /\ base = 0 /\ begin = 0 /\ days = 0
  /\ printed = <<>> /\ dates = <<>> /\ out = <<>>

Next == CsadWrites \/ CsaswitchMoves \/ Begin \/ Open \/ ReadOn \/ NextFile

Spec == Init /\ [][Next]_vars

(***************************************************************************)
(* What the manual page promises                                           *)
(***************************************************************************)
(* "processes existing at or before", "terminating at or before" a time    *)
(* that counts from the day of the first record.                           *)
Allowed(t, d, v) ==
  args.time[t] # NotGiven =>
    IF t \in {"S", "s"} THEN v >= d + args.time[t]
    ELSE v <= d + args.time[t] + NextDay(t)
Asked(x, d) ==
  /\ x.type \in IF args.o THEN {"csa"}
                ELSE (IF args.T THEN {"soj", "eoj"} ELSE {"csa"}) \cup (IF args.L THEN {"cfg"} ELSE {})
  /\ x.type # "cfg" => JobAsked(x) /\ UserAsked(x)
  /\ x.type = "csa" /\ args.fit => x.fit
  /\ x.type # "eoj" => Allowed("S", d, x.start) /\ Allowed("e", d, x.start)
  /\ x.type # "soj" => LET v == IF x.type = "cfg" THEN x.start ELSE x.end IN Allowed("s", d, v) /\ Allowed("E", d, v)

(* The entries of the first n units of a file, and a file's part of the    *)
(* report as it should be.                                                 *)
EntriesOf(f, n) == LET here == {f[q].e : q \in 1..n}
                   IN IF here = {} THEN <<>> ELSE [i \in 1..Cardinality(here) |-> Min(here) + i - 1]
WholeEntry(e) == {<<e, Types(rec[e])[p]>> : p \in DOMAIN Types(rec[e])}
Report(n) ==
  LET es == EntriesOf(pacct[file], n)
  IN SelectSeq(IF args.b THEN Reverse(es) ELSE es, LAMBDA e : Asked(rec[e], base))

Ours == SelectSeq(printed, LAMBDA r : r.file = file)
(* Forward it may have met some of what csad wrote meanwhile. *)
AsAsked ==
  /\ \A i \in DOMAIN printed : printed[i].parts = WholeEntry(printed[i].e)
  /\ \E n \in seen..IF args.b THEN seen ELSE Len(pacct[file]) :
       Report(n) = [i \in DOMAIN Ours |-> Ours[i].e]

ZeroTime == \E t \in Times : args.time[t] = 0
JobsByTime == args.T /\ args.time["e"] # NotGiven

(***************************************************************************)
(* Properties                                                              *)
(***************************************************************************)
(* From each file csacom prints the entries asked for, each whole and      *)
(* once, in the order of the file or, with -b, in the reverse order,       *)
(* although the reader goes back record by record through entries of       *)
(* several, stops at the first that ends outside of the limits, and csad   *)
(* writes on.  Excepted are a time of 0 and -T with -e, where the code     *)
(* does something else (ZeroAsAsked, JobsAsAsked; README, 6).              *)
ChosenAsAsked == status = "end" /\ ~args.W /\ ~ZeroTime /\ ~JobsByTime => AsAsked

(* "The records can be printed to standard output later by providing       *)
(* outfile as files" (csacom(1)): the copy is read to its end in both      *)
(* directions, and gives back the entries chosen, whole.                   *)
CopyEntries(backward) ==
  LET All[p \in 0..Len(out)] ==
        LET a == ReadAcctent(out, p, backward)
        IN IF a.ret <= 0 THEN <<>> ELSE <<{<<out[q].e, out[q].type>> : q \in ToSet(a.recs)}>> \o All[a.end]
  IN All[IF backward THEN Len(out) ELSE 0]
CopyReadable ==
  args.o => LET chosen == [i \in DOMAIN printed |-> WholeEntry(printed[i].e)]
            IN CopyEntries(FALSE) = chosen /\ CopyEntries(TRUE) = Reverse(chosen)

(* "Chooses processes that start at or after starttime", 0 o'clock too     *)
(* (csacom(1)).  The code takes 0 for no option.                           *)
ZeroAsAsked == status = "end" /\ ~args.W /\ ~JobsByTime => AsAsked

(* "Chooses processes existing at or before existtime" (csacom(1)), also   *)
(* when -T asks for the starts of jobs.  The code compares a time of day   *)
(* with the start, so that none is chosen.                                 *)
JobsAsAsked == status = "end" /\ ~args.W /\ ~ZeroTime => AsAsked

(* "The day number of the date change is printed and can be used with the  *)
(* time selects" (csacom(1), -W): days later than the first record of the  *)
(* file.  The code counts on from one file to the next.                    *)
DaysOfFile ==
  status = "more" /\ args.W =>
    \A i \in DOMAIN dates : dates[i].file = file => Midnight(rec[dates[i].e].start) = base + dates[i].day * Day

(* -W "ignores all other print and selection options, except the -L        *)
(* option", which "prints the accounting configuration records"            *)
(* (csacom(1)): without -L it prints none.  The code prints all but the    *)
(* first record of a file.                                                 *)
ConfigurationAsked == args.W /\ ~args.L => printed = <<>>
=============================================================================
