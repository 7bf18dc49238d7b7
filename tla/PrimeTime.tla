----------------------------- MODULE PrimeTime -----------------------------
(***************************************************************************)
(* Prime and non-prime time (csa/lib/peak_offpeak.c): the holidays file    *)
(* says when prime time begins and ends on weekdays, on Saturdays, on      *)
(* Sundays; the time of a process is split second by second.  The time 0   *)
(* is the first midnight of the year.                                      *)
(***************************************************************************)
EXTENDS Integers, FiniteSetsExt, SequencesExt

CONSTANTS
  SecsPerDay,
  Days,                 \* the days of the year are 0 .. Days
  FirstDay,             \* the day of the week of January 1
  PopTimes,             \* the prime time of each kind of day: none, all, or <<from, to>>
  Holidays              \* the days of the year that the file lists

Kind == {"weekday", "saturday", "sunday"}
ASSUME PrimeAssumption ==
  /\ SecsPerDay \in Nat \ {0, 1} /\ Days \in Nat /\ FirstDay \in 0..6
  /\ PopTimes \in [Kind -> {<<"none">>, <<"all">>} \cup {<<"at", f, t>> : f, t \in 0..(SecsPerDay - 1)}]
  /\ Holidays \subseteq 0..(Days - 1)

(***************************************************************************)
(* parse_pop_times, parse_holiday_file                                     *)
(***************************************************************************)
(* all leaves the last second out, as none leaves it non-prime. *)
ParsePopTimes(field) ==
  CASE field[1] = "none" -> [peak |-> SecsPerDay - 1, off |-> SecsPerDay - 1]
    [] field[1] = "all"  -> [peak |-> 0, off |-> SecsPerDay - 1]
    [] OTHER             -> [peak |-> field[2], off |-> field[3]]

Midnight(d) == d * SecsPerDay
Wday(d) == (FirstDay + d) % 7
WeekKind(d) == IF Wday(d) = 0 THEN "sunday" ELSE IF Wday(d) = 6 THEN "saturday" ELSE "weekday"

(* The day number of a holiday counts from 1, the table of days from 0. *)
IsHoliday(d) == d - 1 \in Holidays

DayTimes(d) ==
  LET times == IF IsHoliday(d) THEN [peak |-> SecsPerDay - 1, off |-> SecsPerDay - 1]
               ELSE ParsePopTimes(PopTimes[WeekKind(d)])
  IN [peak |-> Midnight(d) + times.peak, off |-> Midnight(d) + times.off]

(***************************************************************************)
(* pop_calc                                                                *)
(***************************************************************************)
(* The first day is the last whose midnight is before the start: a process *)
(* that starts at midnight begins on the day before.                       *)
DayOf(start) == Max({d \in 0..Days : Midnight(d) < start})

(* Mutant: the next day does not begin. *)
SecondOneDay(pop, j) ==
  IF j >= DayTimes(pop.day).peak /\ j < DayTimes(pop.day).off
  THEN [pop EXCEPT !.prime = @ + 1] ELSE [pop EXCEPT !.nonprime = @ + 1]

(* One second.  Midnight is non-prime, and may be prime besides. *)
Second(pop, j) ==
  LET new == j = Midnight(pop.day) + SecsPerDay
      d == IF new THEN pop.day + 1 ELSE pop.day
      t == DayTimes(d)
      prime == ~(j > Midnight(d) /\ j < t.peak) /\ j >= t.peak /\ j < t.off
      nonprime == \/ j > Midnight(d) /\ j < t.peak
                  \/ ~prime /\ j >= t.off /\ j < Midnight(d) + SecsPerDay
  IN [day |-> d, prime |-> pop.prime + (IF prime THEN 1 ELSE 0),
      nonprime |-> pop.nonprime + (IF new THEN 1 ELSE 0) + (IF nonprime THEN 1 ELSE 0)]

PopCalc(start, duration) ==
  FoldLeftDomain(LAMBDA pop, k : Second(pop, start + k - 1),
                 [day |-> DayOf(start), prime |-> 0, nonprime |-> 0], [k \in 1..duration |-> k])

(***************************************************************************)
(* What pop_calc should give                                               *)
(***************************************************************************)
DayAt(j) == j \div SecsPerDay
PrimeSecond(j) == DayTimes(DayAt(j)).peak <= j /\ j < DayTimes(DayAt(j)).off
(* A midnight that prime or non-prime time begins at. *)
Doubled(j) == j = Midnight(DayAt(j)) /\ j \in {DayTimes(DayAt(j)).peak, DayTimes(DayAt(j)).off}

(* Processes that begin after the first midnight of the year and end       *)
(* within the table of days; pop_calc looks beyond it for others.          *)
InYear(start, duration) ==
  start \in 1..Midnight(Days + 1) /\ duration \in 0..(Midnight(Days + 1) - start)
SplitsRight(start, duration) ==
  LET pop == PopCalc(start, duration)
      seconds == start..(start + duration - 1)
  IN /\ pop.prime = Cardinality({j \in seconds : PrimeSecond(j)})
     /\ pop.prime + pop.nonprime = duration + Cardinality({j \in seconds : Doubled(j)})
=============================================================================
