----------------------------- MODULE Csaswitch -----------------------------
(***************************************************************************)
(* csaswitch (csa/cmd/csaswitch.c) beside csad and csarun: the accounting  *)
(* file pacct is put aside as pacct1, pacct2, ... while csad writes to it, *)
(* and csarun carries off the files that were put aside.  A name is an     *)
(* entry of the directory day; csad and the entries refer to inodes.       *)
(***************************************************************************)
EXTENDS Naturals, FiniteSets

CONSTANTS
  Switcher,             \* the callers of csaswitch; csarun is one of them
  Csarun,
  MaxFile,              \* pacct1 .. pacct<MaxFile>
  MaxRec,               \* bound on the records csad writes
  Serial,               \* one csaswitch runs at a time, and none while
                        \* csarun carries files off
  LateErrors            \* csad's configuration record may fail to be written

ASSUME SwitchAssumption ==
  /\ Csarun \in Switcher
  /\ MaxFile \in Nat \ {0} /\ MaxRec \in Nat
  /\ Serial \in BOOLEAN /\ LateErrors \in BOOLEAN

Rec == 1..MaxRec
Pacct == 0                       \* the name pacct; n > 0 is the name pacct<n>
Name == 0..MaxFile
Inode == 1..(2 * MaxFile + 2)
None == 0                        \* no such entry, or nothing open

VARIABLES
  csad,         \* [up, on, vp]: csad runs, accounting is on, the file it has open
  dir,          \* the entries of day
  work,         \* the entries of csarun's work directory: Wpacct<n>
  data,         \* the records in each inode
  n,            \* the number of records written
  sw,           \* each csaswitch: where it is, what csad's status said, its new name
  list,         \* the names csarun's ls found
  step,         \* where csarun is
  bills         \* how often csarun has read each record for its report

vars == <<csad, dir, work, data, n, sw, list, step, bills>>
files == <<dir, work, data>>
run == <<list, step, bills>>

Idle == [pc |-> "idle", on |-> FALSE, new |-> None]

(* Accounting is on, or was never switched on and there is no file yet. *)
Init ==
  /\ \E on \in BOOLEAN :
       /\ csad = [up |-> TRUE, on |-> on, vp |-> IF on THEN 1 ELSE None]
       /\ dir = [f \in Name |-> IF on /\ f = Pacct THEN 1 ELSE None]
  /\ work = [f \in Name |-> None]
  /\ data = [i \in Inode |-> {}]
  /\ n = 0
  /\ sw = [s \in Switcher |-> Idle]
  /\ list = {} /\ step = "asleep"
  /\ bills = [r \in Rec |-> 0]

Named == {dir[f] : f \in Name} \cup {work[f] : f \in Name}

(* creat(): the first inode that nothing refers to any more. *)
Fresh(i) == i \notin Named \cup {csad.vp} /\ \A k \in 1..(i - 1) : k \in Named \cup {csad.vp}

(***************************************************************************)
(* csad, as csaswitch and the files see it                                 *)
(***************************************************************************)
(* A record is written to the file that is open.  A write that fails       *)
(* closes the file and turns accounting off.                               *)
CsadWrites ==
  /\ csad.up /\ csad.vp # None /\ n < MaxRec
  /\ \/ /\ n' = n + 1
        /\ data' = [data EXCEPT ![csad.vp] = @ \cup {n + 1}]
        /\ UNCHANGED csad
     \/ /\ csad' = [csad EXCEPT !.on = FALSE, !.vp = None]
        /\ UNCHANGED <<n, data>>
  /\ UNCHANGED <<dir, work, sw, run>>

(* The state of accounting and the open file outlive csad's thread. *)
CsadStopsOrStarts ==
  /\ csad' = [csad EXCEPT !.up = ~@]
  /\ UNCHANGED <<files, n, sw, run>>

(* csaswitch -c halt, or off for everything that is on: one request.       *)
Halt ==
  /\ csad.up /\ csad.vp # None
  /\ csad' = [csad EXCEPT !.on = FALSE, !.vp = None]
  /\ UNCHANGED <<files, n, sw, run>>

(***************************************************************************)
(* csaswitch                                                               *)
(***************************************************************************)
At(s, pc) == sw[s].pc = pc
Goto(s, pc) == sw' = [sw EXCEPT ![s].pc = pc]
Exit(s, rc) ==
  /\ sw' = [sw EXCEPT ![s] = Idle]
  /\ step' = IF s = Csarun THEN (IF rc = 0 THEN "ls" ELSE "asleep") ELSE step

(* A caller runs it: csarun in SETUP, csackpacct or an administrator.      *)
(* csa_kdstat() aborts when csad does not answer.                          *)
Kdstat(s, cmd) ==
  /\ At(s, "idle")
  /\ Serial => step = "asleep" /\ \A o \in Switcher : At(o, "idle")
  /\ s = Csarun => step = "asleep" /\ cmd = "switch"
  /\ csad.up
  /\ sw' = [sw EXCEPT ![s] =
               [pc |-> IF cmd = "on" THEN (IF csad.on THEN "on_start" ELSE "on_file")
                       ELSE IF csad.on \/ dir[Pacct] # None THEN "find" ELSE "file",
                on |-> csad.on, new |-> None]]
  /\ step' = IF s = Csarun THEN "switch" ELSE step
  /\ UNCHANGED <<csad, files, n, list, bills>>

(* move_file(): the first number that is free.                             *)
FindNew(s) ==
  /\ At(s, "find")
  /\ \E f \in 1..MaxFile :
       /\ dir[f] = None
       /\ \A g \in 1..(f - 1) : dir[g] # None
       /\ sw' = [sw EXCEPT ![s] = [pc |-> "link", on |-> sw[s].on, new |-> f]]
  /\ UNCHANGED <<csad, files, n, run>>

(* move_file(): link(pacct, new), which aborts when pacct is gone or new   *)
(* is taken.                                                               *)
LinkNew(s) ==
  /\ At(s, "link")
  /\ IF dir[Pacct] # None /\ dir[sw[s].new] = None
     THEN /\ dir' = [dir EXCEPT ![sw[s].new] = dir[Pacct]]
          /\ Goto(s, "unlink") /\ UNCHANGED step
     ELSE Exit(s, 1) /\ UNCHANGED dir
  /\ UNCHANGED <<csad, work, data, n, list, bills>>

(* move_file(): unlink(pacct) *)
UnlinkOld(s) ==
  /\ At(s, "unlink")
  /\ dir' = [dir EXCEPT ![Pacct] = None]
  /\ IF dir[Pacct] # None THEN Goto(s, "file") /\ UNCHANGED step ELSE Exit(s, 1)
  /\ UNCHANGED <<csad, work, data, n, list, bills>>

(* do_file(): pacct exists afterwards, or owner, group or mode cannot be   *)
(* set and a file that was created is removed again.  next is csa_start()  *)
(* of the command.                                                         *)
MakeFile(s, from, next, failed) ==
  /\ At(s, from)
  /\ \/ /\ IF dir[Pacct] # None THEN UNCHANGED <<dir, data>>
           ELSE \E i \in Inode :
                  /\ Fresh(i)
                  /\ dir' = [dir EXCEPT ![Pacct] = i]
                  /\ data' = [data EXCEPT ![i] = {}]
        /\ Goto(s, next) /\ UNCHANGED step
     \/ /\ UNCHANGED <<dir, data>>
        /\ IF failed = "exit" THEN Exit(s, 1) ELSE Goto(s, failed) /\ UNCHANGED step
  /\ UNCHANGED <<csad, work, n, list, bills>>

(* Mutant: nothing is restored. *)
UndoNever(s) == "exit"
Undo(s) == IF sw[s].new = None THEN "exit" ELSE "undo_unlink"

(* csa_start(): csad opens pacct, if it is there, in the place of the file *)
(* it had.  An error may also come from the configuration record that csad *)
(* writes after that.  A path that cannot be opened is refused, or ignored *)
(* when uninitialised memory looks like a file.  do_start() gives no path  *)
(* when accounting was on.                                                 *)
CsaStart(s, from, failed) ==
  /\ At(s, from)
  /\ \E ok \in BOOLEAN, junk \in BOOLEAN :
       LET path == from = "start" \/ ~sw[s].on
           opened == csad.up /\ path /\ dir[Pacct] # None
           started == opened \/ (csad.up /\ csad.vp # None /\ (junk \/ ~path))
       IN /\ ok \/ LateErrors
          /\ csad' = IF opened THEN [up |-> TRUE, on |-> TRUE, vp |-> dir[Pacct]]
                     ELSE IF started THEN [csad EXCEPT !.on = TRUE] ELSE csad
          /\ IF started /\ ok THEN Exit(s, 0)
             ELSE IF failed = "exit" THEN Exit(s, 1) ELSE Goto(s, failed) /\ UNCHANGED step
  /\ UNCHANGED <<files, n, list, bills>>

(* Mutant: the file that was moved is unlinked. *)
UndoUnlinkNew(s) ==
  /\ At(s, "undo_unlink")
  /\ dir' = [dir EXCEPT ![sw[s].new] = None]
  /\ Goto(s, "undo_link")
  /\ UNCHANGED <<csad, work, data, n, run>>

(* do_switch(): the old file is restored after an error.                   *)
UndoUnlink(s) ==
  /\ At(s, "undo_unlink")
  /\ dir' = [dir EXCEPT ![Pacct] = None]
  /\ Goto(s, "undo_link")
  /\ UNCHANGED <<csad, work, data, n, run>>

UndoLink(s) ==
  /\ At(s, "undo_link")
  /\ IF dir[sw[s].new] # None /\ dir[Pacct] = None
     THEN /\ dir' = [dir EXCEPT ![Pacct] = dir[sw[s].new]]
          /\ Goto(s, "undo_rm") /\ UNCHANGED step
     ELSE Exit(s, 1) /\ UNCHANGED dir
  /\ UNCHANGED <<csad, work, data, n, list, bills>>

(* Mutant: the second name stays. *)
UndoRemoveNot(s) ==
  /\ At(s, "undo_rm")
  /\ Exit(s, 1)
  /\ UNCHANGED <<csad, files, n, list, bills>>

UndoRemove(s) ==
  /\ At(s, "undo_rm")
  /\ dir' = [dir EXCEPT ![sw[s].new] = None]
  /\ Exit(s, 1)
  /\ UNCHANGED <<csad, work, data, n, list, bills>>

DoSwitch(s) ==
  \/ FindNew(s) \/ LinkNew(s) \/ UnlinkOld(s)
  \/ MakeFile(s, "file", "start", Undo(s))
  \/ CsaStart(s, "start", Undo(s))
  \/ UndoUnlink(s) \/ UndoLink(s) \/ UndoRemove(s)

(* do_start(): the path is only given when nothing was on. *)
DoStart(s) ==
  \/ MakeFile(s, "on_file", "on_start", "exit")
  \/ CsaStart(s, "on_start", "exit")

(***************************************************************************)
(* csarun, as the files see it: SETUP moves the files that were put aside, *)
(* BUILD reads them, CLEANUP removes them.                                 *)
(***************************************************************************)
Ls ==
  /\ step = "ls"
  /\ list' = {f \in 1..MaxFile : dir[f] # None}
  /\ step' = "mv"
  /\ UNCHANGED <<csad, files, n, sw, bills>>

Mv ==
  /\ step = "mv"
  /\ \E f \in list :
       /\ \A g \in list : f <= g
       /\ list' = list \ {f}
       /\ work' = [work EXCEPT ![f] = IF dir[f] # None THEN dir[f] ELSE @]
       /\ dir' = [dir EXCEPT ![f] = None]
  /\ UNCHANGED <<csad, data, n, sw, step, bills>>

(* csabuild reads Wpacct1, Wpacct2, ... up to the first that is missing,   *)
(* and aborts when there is none.                                          *)
Reached == {f \in 1..MaxFile : \A g \in 1..f : work[g] # None}
Read ==
  /\ step = "mv" /\ list = {}
  /\ step' = IF Reached = {} THEN "asleep" ELSE "rm"
  /\ bills' = [r \in Rec |-> bills[r] + Cardinality({f \in Reached : r \in data[work[f]]})]
  /\ UNCHANGED <<csad, files, n, sw, list>>

Rm ==
  /\ step = "rm"
  /\ work' = [f \in Name |-> None]
  /\ step' = "asleep"
  /\ UNCHANGED <<csad, dir, data, n, sw, list, bills>>

Next ==
  \/ CsadWrites \/ CsadStopsOrStarts \/ Halt
  \/ \E s \in Switcher :
       \/ \E cmd \in {"switch", "on"} : Kdstat(s, cmd)
       \/ DoSwitch(s) \/ DoStart(s)
  \/ Ls \/ Mv \/ Read \/ Rm

Spec == Init /\ [][Next]_vars

(***************************************************************************)
(* Properties                                                              *)
(***************************************************************************)
(* The types of the variables, and what each place in the code knows: a    *)
(* new name once one was found, and csarun's sleep during its csaswitch.   *)
Place == {"idle", "find", "link", "unlink", "file", "start", "undo_unlink", "undo_link", "undo_rm", "on_file", "on_start"}
HasNew == {"link", "unlink", "undo_unlink", "undo_link", "undo_rm"}
FilesType ==
  /\ csad \in [up : BOOLEAN, on : BOOLEAN, vp : Inode \cup {None}]
  /\ dir \in [Name -> Inode \cup {None}] /\ work \in [Name -> Inode \cup {None}]
  /\ data \in [Inode -> SUBSET Rec] /\ n \in 0..MaxRec
SwitchersType ==
  /\ sw \in [Switcher -> [pc : Place, on : BOOLEAN, new : Name]]
  /\ \A s \in Switcher : sw[s].pc \in HasNew => sw[s].new # None
  /\ step = "switch" <=> ~At(Csarun, "idle")
CsarunType ==
  list \subseteq Name /\ step \in {"asleep", "switch", "ls", "mv", "rm"} /\ bills \in [Rec -> Nat]
SwitchTypeOK == FilesType /\ SwitchersType /\ CsarunType

(* Every record is billed or in a file that has a name, in the directory   *)
(* of the day or in csarun's: moving pacct aside under csad's hands, and   *)
(* putting it back after an error, loses none.                             *)
RecordsKept ==
  \A r \in 1..n : bills[r] > 0 \/ \E i \in Named \ {None} : r \in data[i]

(* When no csaswitch runs, the file csad writes to is the one named pacct, *)
(* so that the next switch moves that file.                                *)
PacctIsCurrent ==
  (\A s \in Switcher : At(s, "idle")) /\ csad.vp # None => dir[Pacct] = csad.vp

(* The files keep what Billing promises: no record is billed twice.        *)
Billed == INSTANCE Billing WITH written <- 1..n, aside <- {}
SwitchBillsOnce == Billed!BSpec
=============================================================================
