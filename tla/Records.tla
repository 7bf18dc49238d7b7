------------------------------ MODULE Records ------------------------------
(***************************************************************************)
(* A pacct file from csad to the reports.  csad appends entries, and takes *)
(* a write that was cut short for a whole one (csa.c).  csarun checks the  *)
(* file with csaverify, which notes the places of what it cannot read, and *)
(* takes these out with csaedit until csaverify finds nothing.  All        *)
(* readers share readacctent() (acctio.c) and invalid_pacct() (valid.c).   *)
(*                                                                         *)
(* A file is a sequence of units, of eight bytes: a header is one, every   *)
(* size is a multiple, and a write ends where a block of the disk does.    *)
(* No unit inside a record is taken for a header.                          *)
(***************************************************************************)
EXTENDS Integers, SequencesExt, FiniteSetsExt

CONSTANTS
  Size,                 \* units of a record of each type
  Kind,                 \* the entries csad writes: <<primary, linked, ...>>
  MaxEntry, MaxCut      \* bounds on the entries, and on those cut short

Linked == {"mem", "io", "delay"}
Type == {"csa", "soj", "cfg"} \cup Linked
Room == Size["csa"] + Size["mem"] + Size["io"] + Size["delay"]      \* ACCTENTSIZ

ASSUME RecordsAssumption ==
  /\ \A t \in Type : Size[t] \in Nat \ {0}
  /\ Size["csa"] > 1
  /\ \A k \in Kind : k \in Seq(Type) /\ Len(k) > 0 /\ k[1] \notin Linked
  /\ MaxEntry \in Nat /\ MaxCut \in Nat

VARIABLES
  entry,        \* what csad meant to write: parts, and how many units it got out
  file,         \* the units: <<entry, part, place in the part>>
  phase,        \* write, verify, edit; clean, stopped, aborted
  prev, prevprev,       \* csaverify: where the last two reads began
  bad,          \* the offset file
  curr, out     \* csaedit

vars == <<entry, file, phase, prev, prevprev, bad, curr, out>>

EndOfFile == -1

(***************************************************************************)
(* csa_write                                                               *)
(***************************************************************************)
SizeOf(parts) == FoldLeft(LAMBDA n, t : n + Size[t], 0, parts)
Whole(e, parts) == FlattenSeq([p \in DOMAIN parts |-> [k \in 1..Size[parts[p]] |-> <<e, p, k>>]])
Units(e, parts, n) == SubSeq(Whole(e, parts), 1, n)
Cut(e) == entry[e].n < SizeOf(entry[e].parts)

Write ==
  /\ phase = "write" /\ Len(entry) < MaxEntry
  /\ \E parts \in Kind : \E n \in 1..Len(Whole(Len(entry) + 1, parts)) :
       /\ n < SizeOf(parts) => Cardinality({e \in DOMAIN entry : Cut(e)}) < MaxCut
       /\ entry' = Append(entry, [parts |-> parts, n |-> n])
       /\ file' = file \o Units(Len(entry) + 1, parts, n)
  /\ UNCHANGED <<phase, prev, prevprev, bad, curr, out>>

(***************************************************************************)
(* readpacct, readacctent                                                  *)
(***************************************************************************)
Header(q) == file[q][3] = 1
TypeAt(q) == entry[file[q][1]].parts[file[q][2]]
More(q) == file[q][2] < Len(entry[file[q][1]].parts)            \* AMORE
Primary(q) == Header(q) /\ TypeAt(q) \notin Linked              \* check_primary_hdr
(* The record that begins at q is there and is all its own. *)
Own(q) ==
  /\ q + Size[TypeAt(q)] - 1 <= Len(file)
  /\ \A k \in 1..Size[TypeAt(q)] : file[q + k - 1] = <<file[q][1], file[q][2], k>>

(* VLEN_READ: what the rest of the buffer cannot hold is not read. *)
ReadPacct(q, room) ==
  IF q > Len(file) THEN 0
  ELSE IF ~Header(q) \/ room = 0 THEN -1
  ELSE LET n == Min({room, Size[TypeAt(q)]}) IN IF q + n - 1 > Len(file) THEN -3 ELSE n

(* An entry is read on while its records say there are more.  ret is 0 at  *)
(* the end of the file, also inside an entry, or an error; recs are the    *)
(* places of its records.                                                  *)
ReadAcctent[q \in 1..(Len(file) + 1)] ==
  [n \in 0..Room |->
    LET size == ReadPacct(q, Room - n)
    IN IF size <= 0 THEN [ret |-> size, recs |-> <<>>, end |-> q]
       ELSE IF ~More(q) THEN [ret |-> n + size, recs |-> <<q>>, end |-> q + size]
       ELSE LET rest == ReadAcctent[q + size][n + size]
            IN [ret |-> rest.ret, recs |-> <<q>> \o rest.recs, end |-> rest.end]]
Read(q) == ReadAcctent[q][0]

(* checktype: of two records of a type the later one counts. *)
OfType(a, t) == {q \in ToSet(a.recs) : TypeAt(q) = t}
Pointers(a) == {Max(OfType(a, t)) : t \in {u \in Type : OfType(a, u) # {}}}
Prime(a) == a.recs[1]

(***************************************************************************)
(* invalid_pacct                                                           *)
(***************************************************************************)
(* The second header of a csa record announces the size of what is linked. *)
Announced(q) == SizeOf(Tail(entry[file[q][1]].parts))
Attached(a) == FoldSet(LAMBDA q, n : n + (IF TypeAt(q) \in Linked THEN Size[TypeAt(q)] ELSE 0), 0, Pointers(a))
Header2Wrong(a, q) == \/ file[q + 1] # <<file[q][1], file[q][2], 2>>
                      \/ Announced(q) # Attached(a)
WrongLinks(a) == \E q \in Pointers(a) : TypeAt(q) = "csa" /\ Header2Wrong(a, q)
(* A record that lacks its own end shows the units that follow; its fields *)
(* may look right.  Of linked records only the header is looked at.        *)
Garbled(a) == \E q \in Pointers(a) : TypeAt(q) \notin Linked /\ ~Own(q)

(***************************************************************************)
(* csaverify                                                               *)
(***************************************************************************)
(* err_offset: a second line about the same place replaces the first. *)
Note(loc, len) ==
  LET line == [loc |-> loc, len |-> len]
  IN IF bad # <<>> /\ Last(bad).loc = loc THEN Append(Front(bad), line) ELSE Append(bad, line)
PrimaryFrom(q) == {h \in q..Len(file) : Primary(h)}             \* find_primary_hdr

Quit(loc) == bad' = Note(loc, EndOfFile) /\ phase' = "edit" /\ UNCHANGED <<prev, prevprev>>
Continue(from, q) == prevprev' = from /\ prev' = q /\ UNCHANGED phase

(* Mutant: the search begins after the last place instead of the one before it. *)
CheckLastReadRecOnly ==
  LET found == PrimaryFrom(prev + 1)
      q == Min(found)
  IN IF found = {} THEN Quit(prev) ELSE bad' = Note(prev, q - prev) /\ Continue(prev, q)
CheckLastReadRec ==
  LET found == PrimaryFrom(prevprev + 1)
      q == Min(found)
  IN IF found = {} THEN Quit(prev)
     ELSE LET from == IF q >= prev THEN prev ELSE prevprev
          IN bad' = Note(from, q - from) /\ Continue(from, q)

(* verify_primary, when a csa record has another primary linked to it. *)
IllegallyLinked ==
  LET found == PrimaryFrom(prev + 1)
      q == Min(found)
  IN IF found = {} THEN Quit(prev)
     ELSE bad' = Note(prev, q - prev) /\ Continue(prev, q)

Judge(a) ==
  \/ /\ WrongLinks(a) \/ Garbled(a)                             \* OTHER_ERROR
     /\ bad' = Note(prev, a.end - prev) /\ Continue(prev, a.end)
  \/ /\ ~WrongLinks(a)
     /\ CASE TypeAt(Prime(a)) \in Linked -> CheckLastReadRec
          [] TypeAt(Prime(a)) = "csa" /\ \E q \in Pointers(a) : TypeAt(q) \in {"soj", "cfg"} -> IllegallyLinked
          [] OTHER -> UNCHANGED bad /\ Continue(prev, a.end)

(* The end of the file: csarun goes on, or has csaedit take out what is bad. *)
Verified == phase' = (IF bad = <<>> THEN "clean" ELSE "edit") /\ UNCHANGED <<prev, prevprev, bad>>

(* prc_pacct, one turn of its loop. *)
Verify ==
  /\ phase = "verify"
  /\ LET a == Read(prev)
     IN CASE a.ret = 0 -> Verified
          [] a.ret = -3 -> Quit(prev)
          [] a.ret = -1 -> CheckLastReadRec
          [] OTHER -> Judge(a)
  /\ UNCHANGED <<entry, file, curr, out>>

(* A file that does not begin with a primary record gives an error and no  *)
(* line, and csarun stops.                                                 *)
Begin(f) ==
  IF f # <<>> /\ f[1][3] = 1 /\ entry[f[1][1]].parts[f[1][2]] \notin Linked THEN "verify" ELSE "stopped"
StartVerify ==
  /\ phase = "write" /\ entry # <<>>
  /\ phase' = Begin(file)
  /\ UNCHANGED <<entry, file, prev, prevprev, bad, curr, out>>

(***************************************************************************)
(* csaedit -b                                                              *)
(***************************************************************************)
Replace(f) ==
  /\ file' = f /\ phase' = Begin(f)
  /\ prev' = 1 /\ prevprev' = 1 /\ bad' = <<>> /\ curr' = 1 /\ out' = <<>>
  /\ UNCHANGED entry

Illegal(line) == (line.len <= 0 /\ line.len # EndOfFile) \/ line.loc < curr

(* Mutant: the line is copied as well. *)
EditLineKept ==
  /\ phase = "edit" /\ bad # <<>>
  /\ LET line == Head(bad)
     IN IF Illegal(line) THEN phase' = "aborted" /\ UNCHANGED <<entry, file, prev, prevprev, bad, curr, out>>
        ELSE IF line.len = EndOfFile THEN Replace(out \o SubSeq(file, curr, Len(file)))
        ELSE /\ out' = out \o SubSeq(file, curr, line.loc + line.len - 1)
             /\ curr' = line.loc + line.len /\ bad' = Tail(bad)
             /\ UNCHANGED <<entry, file, phase, prev, prevprev>>
EditLine ==
  /\ phase = "edit" /\ bad # <<>>
  /\ LET line == Head(bad)
         copied == out \o SubSeq(file, curr, line.loc - 1)
     IN IF Illegal(line) THEN phase' = "aborted" /\ UNCHANGED <<entry, file, prev, prevprev, bad, curr, out>>
        ELSE IF line.len = EndOfFile THEN Replace(copied)
        ELSE /\ out' = copied /\ curr' = line.loc + line.len /\ bad' = Tail(bad)
             /\ UNCHANGED <<entry, file, phase, prev, prevprev>>

EditRest ==
  /\ phase = "edit" /\ bad = <<>>
  /\ Replace(out \o SubSeq(file, curr, Len(file)))

(***************************************************************************)
(* Specification                                                           *)
(***************************************************************************)
Init ==
  /\ entry = <<>> /\ file = <<>> /\ phase = "write"
  /\ prev = 1 /\ prevprev = 1 /\ bad = <<>> /\ curr = 1 /\ out = <<>>

Next == Write \/ StartVerify \/ Verify \/ EditLine \/ EditRest

Spec == Init /\ [][Next]_vars

(***************************************************************************)
(* What the readers get                                                    *)
(***************************************************************************)
(* The entries a program reads from q on. *)
EntriesFrom[q \in 1..(Len(file) + 1)] ==
  LET a == Read(q) IN IF a.ret <= 0 THEN <<>> ELSE <<a>> \o EntriesFrom[a.end]

Delivers(a, e) ==
  /\ {file[q][1] : q \in Pointers(a)} = {e} /\ \A q \in Pointers(a) : Own(q)
  /\ Cardinality(Pointers(a)) = Len(entry[e].parts)

Clean == phase = "clean"
Delivered(e) == \E i \in DOMAIN EntriesFrom[1] : Delivers(EntriesFrom[1][i], e)

(* What csad wrote after entry d, and the places there where a record      *)
(* begins, or the file ends.                                               *)
After(d) == FlattenSeq([i \in 1..(Len(entry) - d) |-> Units(d + i, entry[d + i].parts, entry[d + i].n)])
Starts(d) == {k \in 0..Len(After(d)) : k = Len(After(d)) \/ After(d)[k + 1][3] = 1}
(* What the record lacks in which entry d was cut. *)
Lacks(d) ==
  LET u == Last(Units(d, entry[d].parts, entry[d].n)) IN Size[entry[d].parts[u[2]]] - u[3]
(* What follows makes up exactly what the cut took, so that the reader is  *)
(* back at a header, or the file ends before.                              *)
MadeUp(d) == Cut(d) /\ (Lacks(d) \in Starts(d) \/ Lacks(d) > Len(After(d)))

(***************************************************************************)
(* Properties                                                              *)
(***************************************************************************)
(* csarun's loop loses no entry that csad wrote whole, whatever was cut    *)
(* short before it, unless a record was cut so that what follows makes it  *)
(* up: then csaverify takes it with its half records for an entry, or the  *)
(* rest of the file for one.  And csaedit can always use the offset file:  *)
(* its places are in order and none is empty or in another, although       *)
(* csaverify steps back and notes one place twice.                         *)
WholeKept ==
  /\ phase # "aborted"
  /\ Clean => \A e \in DOMAIN entry : Cut(e) \/ Delivered(e) \/ \E d \in 1..(e - 1) : MadeUp(d)

(* What the readers get after csaverify found nothing is what csad meant   *)
(* to write: no entry with the units, or the linked records, of another.   *)
(* The same exception.                                                     *)
OnlyWhole ==
  Clean => \A i \in DOMAIN EntriesFrom[1] :
    LET a == EntriesFrom[1][i]
    IN (\E e \in DOMAIN entry : ~Cut(e) /\ Delivers(a, e)) \/ \E q \in ToSet(a.recs) : MadeUp(file[q][1])

(* Between them, csarun's loop of csaverify and csaedit leaves what csad   *)
(* wrote whole, and nothing else.                                          *)
ExactlyWhole == WholeKept /\ OnlyWhole

(* The loop of csarun comes to an end, although csaverify steps back: a    *)
(* pass goes on from its second to last place, or steps back to a place    *)
(* after it, once; and each edit leaves less.                              *)
LoopEnds ==
  [][/\ phase = "verify" /\ phase' = "verify" =>
          \/ prevprev' > prevprev
          \/ prevprev' = prevprev /\ prev' > prevprev /\ (prev' < prev \/ prev = prevprev)
     /\ phase # "write" /\ file' # file => Len(file') < Len(file)
     /\ phase = "edit" /\ phase' = "verify" => file' # file]_vars
=============================================================================
