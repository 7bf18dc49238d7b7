-------------------------- MODULE CsaswitchProofs --------------------------
(***************************************************************************)
(* csaswitch and csarun bill no record twice and lose none, whatever       *)
(* number of callers, files and records there are, provided that one       *)
(* csaswitch runs at a time and none while csarun carries files off.       *)
(***************************************************************************)
EXTENDS Csaswitch, FiniteSetTheorems, TLAPS

Busy(s) == ~At(s, "idle")

(* At most one csaswitch runs, and none while csarun carries files off.    *)
OneAtATime ==
  /\ \A s, o \in Switcher : Busy(s) /\ Busy(o) => s = o
  /\ step \in {"ls", "mv", "rm"} => \A s \in Switcher : ~Busy(s)

(* A file has one name, or two while it is moved or put back; and csarun's *)
(* files have one name each and none in the directory of the day.          *)
Moving(s) == sw[s].pc \in {"unlink", "undo_rm"}
OneName ==
  /\ \A f, g \in Name : dir[f] = dir[g] /\ dir[f] # None /\ f # g =>
       \E s \in Switcher : Moving(s) /\ f \in {Pacct, sw[s].new} /\ g \in {Pacct, sw[s].new}
  /\ \A f, g \in Name : work[f] = work[g] /\ work[f] # None => f = g
  /\ \A f, g \in Name : work[f] = dir[g] => work[f] = None

(* A record is in one file.  When it has been billed, that file is on its  *)
(* way out: it is not in the directory of the day, and csarun removes it   *)
(* next if it has a name at all.                                           *)
OneFile ==
  /\ \A i \in Inode : data[i] \subseteq 1..n
  /\ \A i, j \in Inode : \A r \in data[i] \cap data[j] : i = j
Billed01 == \A r \in Rec : bills[r] \in {0, 1} /\ (bills[r] = 1 => r \in 1..n)
BilledGone ==
  \A i \in Inode : \A r \in data[i] : bills[r] = 1 =>
    \A f \in Name : dir[f] # i /\ (work[f] = i => step = "rm")

SwitchInv == SwitchTypeOK /\ OneAtATime /\ OneName /\ OneFile /\ Billed01 /\ BilledGone

USE SwitchAssumption DEF Rec, Pacct, Name, Inode, None

(***************************************************************************)
(* Types                                                                   *)
(***************************************************************************)
LEMMA InitType == Init => SwitchTypeOK
<1> SUFFICES ASSUME Init PROVE SwitchTypeOK
  OBVIOUS
<1>1. FilesType
  <2>1. csad \in [up : BOOLEAN, on : BOOLEAN, vp : Inode \cup {None}]
    BY DEF Init
  <2>2. dir \in [Name -> Inode \cup {None}] /\ work \in [Name -> Inode \cup {None}]
    BY DEF Init
  <2>3. data \in [Inode -> SUBSET Rec] /\ n \in 0..MaxRec
    BY DEF Init
  <2> QED
    BY <2>1, <2>2, <2>3 DEF FilesType
<1>2. SwitchersType
  <2>1. Idle \in [pc : Place, on : BOOLEAN, new : Name] /\ Idle.pc = "idle"
    BY DEF Idle, Place
  <2>2. sw = [s \in Switcher |-> Idle] /\ step = "asleep"
    BY DEF Init
  <2>3. \A s \in Switcher : sw[s].pc = "idle"
    BY <2>1, <2>2
  <2> QED
    BY <2>1, <2>2, <2>3 DEF SwitchersType, At, HasNew
<1>3. CsarunType
  BY DEF Init, CsarunType
<1> QED
  BY <1>1, <1>2, <1>3 DEF SwitchTypeOK

(* A csaswitch goes on, or returns. *)
LEMMA GotoOk ==
  ASSUME SwitchersType, NEW s \in Switcher, NEW pc \in Place \ {"idle"}, Busy(s),
         pc \in HasNew => sw[s].new # None, Goto(s, pc), step' = step
  PROVE  /\ SwitchersType'
         /\ \A o \in Switcher : Busy(o)' <=> Busy(o)
         /\ sw'[s].pc = pc /\ \A o \in Switcher : o # s => sw'[o] = sw[o]
         /\ \A o \in Switcher : sw'[o].new = sw[o].new
<1>1. sw[s] \in [pc : Place, on : BOOLEAN, new : Name]
  BY DEF SwitchersType
<1>2. sw' = [sw EXCEPT ![s] = [sw[s] EXCEPT !.pc = pc]]
  BY <1>1 DEF Goto, SwitchersType
<1>3. /\ sw'[s].pc = pc /\ \A o \in Switcher : o # s => sw'[o] = sw[o]
      /\ \A o \in Switcher : sw'[o].new = sw[o].new
  BY <1>1, <1>2 DEF SwitchersType
<1>4. sw' \in [Switcher -> [pc : Place, on : BOOLEAN, new : Name]]
  BY <1>1, <1>2 DEF SwitchersType
<1>5. \A o \in Switcher : Busy(o)' <=> Busy(o)
  BY <1>3 DEF Busy, At
<1> QED
  BY <1>3, <1>4, <1>5 DEF SwitchersType, At, Busy

LEMMA ExitOk ==
  ASSUME SwitchersType, NEW s \in Switcher, NEW rc \in {0, 1}, Busy(s), Exit(s, rc)
  PROVE  /\ SwitchersType'
         /\ \A o \in Switcher : Busy(o)' <=> Busy(o) /\ o # s
         /\ \A o \in Switcher : o # s => sw'[o] = sw[o]
         /\ step' \in {step, "asleep", "ls"} /\ (step' # step => s = Csarun /\ step = "switch")
<1>1. Idle \in [pc : Place, on : BOOLEAN, new : Name] /\ Idle.pc = "idle"
  BY DEF Idle, Place
<1>2. sw' \in [Switcher -> [pc : Place, on : BOOLEAN, new : Name]] /\ sw'[s] = Idle
  BY <1>1 DEF Exit, SwitchersType
<1>3. \A o \in Switcher : o # s => sw'[o] = sw[o]
  BY DEF Exit, SwitchersType
<1>4. \A o \in Switcher : Busy(o)' <=> Busy(o) /\ o # s
  BY <1>1, <1>2, <1>3 DEF Busy, At
<1>5. \A o \in Switcher : sw'[o].pc \in HasNew => sw'[o].new # None
  BY <1>1, <1>2, <1>3 DEF SwitchersType, HasNew
<1>6. step = "switch" <=> Busy(Csarun)
  BY DEF SwitchersType, Busy
<1>7. step' = "switch" <=> Busy(Csarun)'
  BY <1>4, <1>6 DEF Exit
<1> QED
  BY <1>2, <1>3, <1>4, <1>5, <1>6, <1>7 DEF SwitchersType, Exit, Busy

(* A step of a csaswitch that does not begin one.                          *)
Goes(s) == DoSwitch(s) \/ DoStart(s)

LEMMA SwitchersStep ==
  ASSUME SwitchersType, CsarunType, NEW s \in Switcher, Goes(s)
  PROVE  /\ SwitchersType' /\ Busy(s)
         /\ \A o \in Switcher : Busy(o)' => Busy(o)
         /\ \A o \in Switcher : o # s => sw'[o] = sw[o]
         /\ step' \in {step, "asleep", "ls"} /\ (step' # step => s = Csarun /\ step = "switch" /\ ~Busy(Csarun)')
         /\ list' = list /\ bills' = bills /\ work' = work /\ n' = n
<1> USE GotoOk, ExitOk
<1>a. \A pc \in Place : At(s, pc) => (Busy(s) <=> pc # "idle")
  BY DEF Busy, At
<1>b. \A pc \in HasNew : At(s, pc) => sw[s].new # None
  BY DEF At, SwitchersType
<1>1. CASE FindNew(s)
  <2>1. PICK f \in 1..MaxFile : sw' = [sw EXCEPT ![s] = [pc |-> "link", on |-> sw[s].on, new |-> f]]
    BY <1>1 DEF FindNew
  <2>2. sw[s] \in [pc : Place, on : BOOLEAN, new : Name] /\ sw[s].pc = "find"
    BY <1>1 DEF FindNew, At, SwitchersType
  <2>4. /\ sw' \in [Switcher -> [pc : Place, on : BOOLEAN, new : Name]]
        /\ sw'[s].pc = "link" /\ sw'[s].new = f /\ \A o \in Switcher : o # s => sw'[o] = sw[o]
    BY <2>1, <2>2 DEF SwitchersType, Place
  <2>5. \A o \in Switcher : Busy(o)' <=> Busy(o)
    BY <2>2, <2>4 DEF Busy, At
  <2>6. \A o \in Switcher : sw'[o].pc \in HasNew => sw'[o].new # None
    BY <2>2, <2>4 DEF SwitchersType
  <2>7. list' = list /\ step' = step /\ bills' = bills /\ work' = work /\ n' = n
    BY <1>1 DEF FindNew, files, run
  <2>8. SwitchersType'
    BY <2>4, <2>5, <2>6, <2>7 DEF SwitchersType, Busy
  <2>9. Busy(s)
    BY <2>2 DEF Busy, At
  <2> QED
    BY <2>4, <2>5, <2>7, <2>8, <2>9
<1>2. CASE LinkNew(s)
  BY <1>2, <1>a, <1>b DEF LinkNew, Place, HasNew
<1>3. CASE UnlinkOld(s)
  BY <1>3, <1>a, <1>b DEF UnlinkOld, Place, HasNew
<1>4. ASSUME NEW from \in {"file", "on_file"}, NEW next \in {"start", "on_start"}, NEW failed \in {"exit", Undo(s)},
             MakeFile(s, from, next, failed)
      PROVE  /\ SwitchersType' /\ Busy(s)
             /\ \A o \in Switcher : Busy(o)' => Busy(o)
             /\ \A o \in Switcher : o # s => sw'[o] = sw[o]
             /\ step' \in {step, "asleep", "ls"} /\ (step' # step => s = Csarun /\ step = "switch" /\ ~Busy(Csarun)')
  <2>1. Busy(s)
    BY <1>4, <1>a DEF MakeFile, Place
  <2>2. CASE Goto(s, next) /\ UNCHANGED step
    BY <2>1, <2>2 DEF Place, HasNew
  <2>3. CASE Exit(s, 1)
    BY <2>1, <2>3 DEF Place, HasNew
  <2>4. CASE failed # "exit" /\ Goto(s, failed) /\ UNCHANGED step
    BY <2>1, <2>4 DEF Place, HasNew, Undo
  <2> QED
    BY <1>4, <2>1, <2>2, <2>3, <2>4 DEF MakeFile
<1>5. ASSUME NEW from \in {"start", "on_start"}, NEW failed \in {"exit", Undo(s)}, CsaStart(s, from, failed)
      PROVE  /\ SwitchersType' /\ Busy(s)
             /\ \A o \in Switcher : Busy(o)' => Busy(o)
             /\ \A o \in Switcher : o # s => sw'[o] = sw[o]
             /\ step' \in {step, "asleep", "ls"} /\ (step' # step => s = Csarun /\ step = "switch" /\ ~Busy(Csarun)')
  <2>1. Busy(s)
    BY <1>5, <1>a DEF CsaStart, Place
  <2>2. CASE Exit(s, 0) \/ Exit(s, 1)
    BY <2>1, <2>2
  <2>3. CASE failed # "exit" /\ Goto(s, failed) /\ UNCHANGED step
    BY <2>1, <2>3 DEF Place, HasNew, Undo
  <2> QED
    BY <1>5, <2>1, <2>2, <2>3 DEF CsaStart
<1>6. CASE UndoUnlink(s)
  BY <1>6, <1>a, <1>b DEF UndoUnlink, Place, HasNew, run
<1>7. CASE UndoLink(s)
  BY <1>7, <1>a, <1>b DEF UndoLink, Place, HasNew
<1>8. CASE UndoRemove(s)
  BY <1>8, <1>a, <1>b DEF UndoRemove, Place, HasNew
<1>9. ASSUME NEW from, NEW next, NEW failed, MakeFile(s, from, next, failed) \/ CsaStart(s, from, failed)
      PROVE  list' = list /\ bills' = bills /\ work' = work /\ n' = n
  BY <1>9 DEF MakeFile, CsaStart, files
<1> QED
  BY <1>1, <1>2, <1>3, <1>4, <1>5, <1>6, <1>7, <1>8, <1>9 DEF Goes, DoSwitch, DoStart

LEMMA FilesStep ==
  ASSUME SwitchTypeOK, NEW s \in Switcher, Goes(s)
  PROVE  FilesType'
<1> USE DEF SwitchTypeOK, FilesType
<1>1. CASE FindNew(s)
  BY <1>1 DEF FindNew, files
<1>2. CASE LinkNew(s)
  <2>1. sw[s].new \in Name /\ dir[Pacct] \in Inode \cup {None}
    BY DEF SwitchersType
  <2>2. dir' = [dir EXCEPT ![sw[s].new] = dir[Pacct]] \/ dir' = dir
    BY <1>2 DEF LinkNew
  <2> QED
    BY <1>2, <2>1, <2>2 DEF LinkNew
<1>3. CASE UnlinkOld(s) \/ UndoUnlink(s)
  BY <1>3 DEF UnlinkOld, UndoUnlink
<1>4. ASSUME NEW from, NEW next, NEW failed, MakeFile(s, from, next, failed)
      PROVE  FilesType'
  <2>1. CASE UNCHANGED <<dir, data>>
    BY <1>4, <2>1 DEF MakeFile
  <2>2. CASE \E i \in Inode : dir' = [dir EXCEPT ![Pacct] = i] /\ data' = [data EXCEPT ![i] = {}]
    BY <1>4, <2>2 DEF MakeFile
  <2> QED
    BY <1>4, <2>1, <2>2 DEF MakeFile
<1>5. ASSUME NEW from, NEW failed, CsaStart(s, from, failed)
      PROVE  FilesType'
  <2>1. csad' \in {csad, [up |-> TRUE, on |-> TRUE, vp |-> dir[Pacct]], [csad EXCEPT !.on = TRUE]}
    BY <1>5 DEF CsaStart
  <2>2. dir[Pacct] \in Inode \cup {None}
    BY DEF FilesType
  <2>3. csad' \in [up : BOOLEAN, on : BOOLEAN, vp : Inode \cup {None}]
    <3> DEFINE T == [up : BOOLEAN, on : BOOLEAN, vp : Inode \cup {None}]
    <3>1. csad \in T
      BY DEF FilesType
    <3>2. [up |-> TRUE, on |-> TRUE, vp |-> dir[Pacct]] \in T
      BY <2>2
    <3>3. [csad EXCEPT !.on = TRUE] \in T
      BY <3>1
    <3>4. CASE csad' = csad
      BY <3>1, <3>4
    <3>5. CASE csad' = [up |-> TRUE, on |-> TRUE, vp |-> dir[Pacct]]
      BY <3>2, <3>5
    <3>6. CASE csad' = [csad EXCEPT !.on = TRUE]
      BY <3>3, <3>6
    <3> QED
      BY <2>1, <3>4, <3>5, <3>6, Zenon
  <2> QED
    BY <1>5, <2>3 DEF CsaStart, files
<1>6. CASE UndoLink(s)
  BY <1>6 DEF UndoLink, SwitchersType
<1>7. CASE UndoRemove(s)
  BY <1>7 DEF UndoRemove, SwitchersType
<1> QED
  BY <1>1, <1>2, <1>3, <1>4, <1>5, <1>6, <1>7 DEF Goes, DoSwitch, DoStart

LEMMA TypeStep ==
  ASSUME SwitchTypeOK, Serial, OneAtATime, [Next]_vars
  PROVE  SwitchTypeOK' /\ OneAtATime'
<1> USE DEF SwitchTypeOK
<1>0. ASSUME sw' = sw, step' \in {step, "asleep", "mv", "rm"}, step' # step => step \in {"ls", "mv", "rm"}
      PROVE  SwitchersType' /\ OneAtATime'
  BY <1>0 DEF SwitchersType, OneAtATime, Busy, At
<1>1. CASE CsadWrites
  <2>1. CASE n' = n + 1 /\ data' = [data EXCEPT ![csad.vp] = @ \cup {n + 1}] /\ UNCHANGED csad
    <3>1. csad.vp \in Inode /\ n + 1 \in Rec
      BY <1>1 DEF CsadWrites, FilesType
    <3>2. data' \in [Inode -> SUBSET Rec] /\ n' \in 0..MaxRec
      BY <2>1, <3>1 DEF FilesType
    <3> QED
      BY <1>0, <1>1, <2>1, <3>2 DEF CsadWrites, FilesType, CsarunType, run
  <2>2. CASE csad' = [csad EXCEPT !.on = FALSE, !.vp = None] /\ UNCHANGED <<n, data>>
    BY <1>0, <1>1, <2>2 DEF CsadWrites, FilesType, CsarunType, run
  <2> QED
    BY <1>1, <2>1, <2>2 DEF CsadWrites
<1>2. CASE CsadStopsOrStarts \/ Halt
  BY <1>0, <1>2 DEF CsadStopsOrStarts, Halt, FilesType, CsarunType, files, run
<1>3. ASSUME NEW s \in Switcher, NEW cmd \in {"switch", "on"}, Kdstat(s, cmd)
      PROVE  SwitchTypeOK' /\ OneAtATime'
  <2> DEFINE pc == IF cmd = "on" THEN (IF csad.on THEN "on_start" ELSE "on_file")
                   ELSE IF csad.on \/ dir[Pacct] # None THEN "find" ELSE "file"
  <2>0. pc \in Place \ (HasNew \cup {"idle"}) /\ csad.on \in BOOLEAN
    BY DEF FilesType, Place, HasNew
  <2>1. \E r \in [pc : Place \ (HasNew \cup {"idle"}), on : BOOLEAN, new : Name] : sw' = [sw EXCEPT ![s] = r]
    <3>1. sw' = [sw EXCEPT ![s] = [pc |-> pc, on |-> csad.on, new |-> None]]
      BY <1>3 DEF Kdstat
    <3>2. [pc |-> pc, on |-> csad.on, new |-> None] \in [pc : Place \ (HasNew \cup {"idle"}), on : BOOLEAN, new : Name]
      BY <2>0
    <3> HIDE DEF pc
    <3> QED
      BY <3>1, <3>2
  <2>2. PICK r \in [pc : Place \ (HasNew \cup {"idle"}), on : BOOLEAN, new : Name] : sw' = [sw EXCEPT ![s] = r]
    BY <2>1
  <2>3. \A o \in Switcher : Busy(o)' <=> o = s
    BY <1>3, <2>2 DEF Kdstat, SwitchersType, Busy, At
  <2>4. step' = (IF s = Csarun THEN "switch" ELSE step) /\ step = "asleep"
    BY <1>3 DEF Kdstat
  <2>5. step' = "switch" <=> Busy(Csarun)'
    BY <2>3, <2>4
  <2>6. SwitchersType'
    BY <2>2, <2>5 DEF SwitchersType, Busy
  <2>7. OneAtATime'
    BY <2>3, <2>4 DEF OneAtATime
  <2> QED
    BY <1>3, <2>4, <2>6, <2>7 DEF Kdstat, FilesType, CsarunType, files
<1>4. ASSUME NEW s \in Switcher, Goes(s)
      PROVE  SwitchTypeOK' /\ OneAtATime'
  <2>1. FilesType' /\ SwitchersType'
    BY <1>4, FilesStep, SwitchersStep
  <2>2. CsarunType'
    BY <1>4, SwitchersStep DEF CsarunType
  <2>3. \A o \in Switcher : Busy(o) => o = s
    BY <1>4, SwitchersStep DEF OneAtATime
  <2>4. step' \in {"ls", "mv", "rm"} => \A o \in Switcher : ~Busy(o)'
    <3>1. CASE step' = step
      BY <1>4, <3>1, SwitchersStep DEF OneAtATime
    <3>2. CASE step' # step
      BY <1>4, <2>3, <3>2, SwitchersStep
    <3> QED
      BY <3>1, <3>2
  <2>5. OneAtATime'
    BY <1>4, <2>4, SwitchersStep DEF OneAtATime
  <2> QED
    BY <2>1, <2>2, <2>5
<1>5. CASE Ls
  BY <1>0, <1>5 DEF Ls, FilesType, CsarunType, files
<1>6. CASE Mv
  <2>1. PICK f \in list : /\ list' = list \ {f}
                          /\ work' = [work EXCEPT ![f] = IF dir[f] # None THEN dir[f] ELSE @]
                          /\ dir' = [dir EXCEPT ![f] = None]
    BY <1>6 DEF Mv
  <2>2. f \in Name
    BY <2>1 DEF CsarunType
  <2>3. dir' \in [Name -> Inode \cup {None}] /\ work' \in [Name -> Inode \cup {None}] /\ list' \subseteq Name
    BY <2>1, <2>2 DEF FilesType, CsarunType
  <2> QED
    BY <1>0, <1>6, <2>3 DEF Mv, FilesType, CsarunType
<1>7. CASE Read
  <2>1. \A r \in Rec : Cardinality({f \in Reached : r \in data[work[f]]}) \in Nat
    <3>1. IsFiniteSet(1..MaxFile)
      BY FS_Interval
    <3>2. \A r \in Rec : IsFiniteSet({f \in Reached : r \in data[work[f]]})
      BY <3>1, FS_Subset DEF Reached
    <3> QED
      BY <3>2, FS_CardinalityType
  <2>2. bills' \in [Rec -> Nat]
    BY <1>7, <2>1 DEF Read, CsarunType
  <2> QED
    BY <1>0, <1>7, <2>2 DEF Read, FilesType, CsarunType, files
<1>8. CASE Rm
  BY <1>0, <1>8 DEF Rm, FilesType, CsarunType
<1>9. CASE UNCHANGED vars
  BY <1>0, <1>9 DEF vars, FilesType, CsarunType
<1> QED
  BY <1>1, <1>2, <1>3, <1>4, <1>5, <1>6, <1>7, <1>8, <1>9 DEF Next, Goes

(***************************************************************************)
(* Names                                                                   *)
(***************************************************************************)
(* What a step of a csaswitch does to the names: nothing, it removes one,  *)
(* it gives the file of one of its two names the other name, or it creates *)
(* pacct.                                                                  *)
Removes(s, x) ==
  /\ dir' = [dir EXCEPT ![x] = None] /\ data' = data
  /\ Moving(s) => x \in {Pacct, sw[s].new}
Links(s, x, y) ==
  /\ dir' = [dir EXCEPT ![x] = dir[y]] /\ data' = data
  /\ ~Moving(s) /\ Moving(s)' /\ sw'[s].new = sw[s].new
  /\ x \in {Pacct, sw[s].new} /\ y \in {Pacct, sw[s].new}
Creates(s, i) ==
  /\ Fresh(i) /\ ~Moving(s) /\ dir[Pacct] = None
  /\ dir' = [dir EXCEPT ![Pacct] = i] /\ data' = [data EXCEPT ![i] = {}]

LEMMA NamesStep ==
  ASSUME SwitchTypeOK, NEW s \in Switcher, Goes(s)
  PROVE  \/ dir' = dir /\ data' = data /\ ~Moving(s)
         \/ \E x \in Name : Removes(s, x)
         \/ \E x, y \in Name : Links(s, x, y)
         \/ \E i \in Inode : Creates(s, i)
<1>1. sw[s] \in [pc : Place, on : BOOLEAN, new : Name] /\ Pacct \in Name
  BY DEF SwitchTypeOK, SwitchersType
<1>2. \A pc \in Place : At(s, pc) => (Moving(s) <=> pc \in {"unlink", "undo_rm"})
  BY DEF At, Moving
<1>3. \A pc \in Place : Goto(s, pc) => sw'[s].pc = pc /\ sw'[s].new = sw[s].new
  BY <1>1 DEF Goto, SwitchTypeOK, SwitchersType
<1>4. CASE FindNew(s)
  BY <1>2, <1>4 DEF FindNew, files, Place
<1>5. CASE LinkNew(s)
  <2>1. ~Moving(s) /\ data' = data
    BY <1>2, <1>5 DEF LinkNew, Place
  <2>2. CASE dir' = [dir EXCEPT ![sw[s].new] = dir[Pacct]] /\ Goto(s, "unlink")
    <3>1. Links(s, sw[s].new, Pacct)
      BY <1>3, <2>1, <2>2 DEF Links, Moving, Place
    <3> QED
      BY <1>1, <3>1
  <2> QED
    BY <1>5, <2>1, <2>2 DEF LinkNew
<1>6. CASE UnlinkOld(s) \/ UndoUnlink(s)
  <2>1. Removes(s, Pacct)
    BY <1>6 DEF UnlinkOld, UndoUnlink, Removes
  <2> QED
    BY <1>1, <2>1
<1>7. CASE UndoLink(s)
  <2>1. ~Moving(s) /\ data' = data
    BY <1>2, <1>7 DEF UndoLink, Place
  <2>2. CASE dir' = [dir EXCEPT ![Pacct] = dir[sw[s].new]] /\ Goto(s, "undo_rm")
    <3>1. Links(s, Pacct, sw[s].new)
      BY <1>3, <2>1, <2>2 DEF Links, Moving, Place
    <3> QED
      BY <1>1, <3>1
  <2> QED
    BY <1>7, <2>1, <2>2 DEF UndoLink
<1>8. CASE UndoRemove(s)
  <2>1. Removes(s, sw[s].new)
    BY <1>8 DEF UndoRemove, Removes
  <2> QED
    BY <1>1, <2>1
<1>9. ASSUME NEW from \in {"file", "on_file"}, NEW next, NEW failed, MakeFile(s, from, next, failed)
      PROVE  (dir' = dir /\ data' = data /\ ~Moving(s)) \/ \E i \in Inode : Creates(s, i)
  <2>1. ~Moving(s)
    BY <1>2, <1>9 DEF MakeFile, Place
  <2>2. CASE UNCHANGED <<dir, data>>
    BY <2>1, <2>2
  <2>3. CASE /\ dir[Pacct] = None
             /\ \E i \in Inode : Fresh(i) /\ dir' = [dir EXCEPT ![Pacct] = i] /\ data' = [data EXCEPT ![i] = {}]
    BY <2>1, <2>3 DEF Creates
  <2> QED
    BY <1>9, <2>2, <2>3 DEF MakeFile
<1>10. ASSUME NEW from \in {"start", "on_start"}, NEW failed, CsaStart(s, from, failed)
       PROVE  dir' = dir /\ data' = data /\ ~Moving(s)
  BY <1>2, <1>10 DEF CsaStart, files, Place
<1> QED
  BY <1>4, <1>5, <1>6, <1>7, <1>8, <1>9, <1>10 DEF Goes, DoSwitch, DoStart

(* Without a csaswitch between its link and its unlink every file has one  *)
(* name.                                                                   *)
LEMMA OneNameStep ==
  ASSUME SwitchTypeOK, OneAtATime, OneName, NEW s \in Switcher, Goes(s)
  PROVE  OneName'
<1>0. work' = work /\ dir \in [Name -> Inode \cup {None}] /\ work \in [Name -> Inode \cup {None}] /\ sw[s].new \in Name
  BY SwitchersStep DEF SwitchTypeOK, FilesType, SwitchersType
<1>1. \A o \in Switcher : Moving(o) => o = s
  BY SwitchersStep DEF SwitchTypeOK, OneAtATime, Busy, At, Moving
<1>2. \A f, g \in Name : dir[f] = dir[g] /\ dir[f] # None /\ f # g =>
        Moving(s) /\ f \in {Pacct, sw[s].new} /\ g \in {Pacct, sw[s].new}
  BY <1>1 DEF OneName
<1>3. CASE dir' = dir /\ data' = data /\ ~Moving(s)
  BY <1>0, <1>2, <1>3 DEF OneName
<1>4. ASSUME NEW x \in Name, Removes(s, x) PROVE OneName'
  BY <1>0, <1>2, <1>4 DEF OneName, Removes
<1>5. ASSUME NEW x \in Name, NEW y \in Name, Links(s, x, y) PROVE OneName'
  <2>1. \A f, g \in Name : dir'[f] = dir'[g] /\ dir'[f] # None /\ f # g =>
          f \in {Pacct, sw'[s].new} /\ g \in {Pacct, sw'[s].new}
    BY <1>0, <1>2, <1>5 DEF Links
  <2>2. \A f, g \in Name : work'[f] = dir'[g] => work'[f] = None
    BY <1>0, <1>5 DEF Links, OneName
  <2> QED
    BY <1>0, <1>5, <2>1, <2>2 DEF OneName, Links, Moving
<1>6. ASSUME NEW i \in Inode, Creates(s, i) PROVE OneName'
  <2>1. \A f \in Name : dir[f] # i /\ work[f] # i
    BY <1>6 DEF Creates, Fresh, Named
  <2> QED
    BY <1>0, <1>2, <1>6, <2>1 DEF OneName, Creates
<1> QED
  BY <1>3, <1>4, <1>5, <1>6, NamesStep

LEMMA BilledGoneStep ==
  ASSUME SwitchTypeOK, OneFile, BilledGone, NEW s \in Switcher, Goes(s)
  PROVE  OneFile' /\ BilledGone'
<1>0. /\ dir \in [Name -> Inode \cup {None}] /\ data \in [Inode -> SUBSET Rec]
      /\ work' = work /\ bills' = bills /\ n' = n /\ (step' # step => step # "rm")
  BY SwitchersStep DEF SwitchTypeOK, FilesType
<1>1. CASE dir' = dir /\ data' = data
  BY <1>0, <1>1 DEF OneFile, BilledGone
<1>2. ASSUME NEW x \in Name, Removes(s, x) PROVE OneFile' /\ BilledGone'
  BY <1>0, <1>2 DEF OneFile, BilledGone, Removes
<1>3. ASSUME NEW x \in Name, NEW y \in Name, Links(s, x, y) PROVE OneFile' /\ BilledGone'
  BY <1>0, <1>3 DEF OneFile, BilledGone, Links
<1>4. ASSUME NEW i \in Inode, Creates(s, i) PROVE OneFile' /\ BilledGone'
  BY <1>0, <1>4 DEF OneFile, BilledGone, Creates
<1> QED
  BY <1>1, <1>2, <1>3, <1>4, NamesStep

(***************************************************************************)
(* csarun                                                                  *)
(***************************************************************************)
(* csarun moves a file while no csaswitch runs: it had one name, and it    *)
(* has one name afterwards.                                                *)
LEMMA MvStep ==
  ASSUME SwitchInv, Mv
  PROVE  OneName' /\ OneFile' /\ BilledGone'
<1>1. PICK f \in list : /\ work' = [work EXCEPT ![f] = IF dir[f] # None THEN dir[f] ELSE @]
                        /\ dir' = [dir EXCEPT ![f] = None]
  BY DEF Mv
<1>2. /\ f \in Name /\ step = "mv" /\ step' = step /\ data' = data /\ n' = n /\ bills' = bills /\ sw' = sw
      /\ dir \in [Name -> Inode \cup {None}] /\ work \in [Name -> Inode \cup {None}]
  BY <1>1 DEF Mv, SwitchInv, SwitchTypeOK, FilesType, CsarunType
<1>3. \A s \in Switcher : ~Moving(s)
  BY <1>2 DEF SwitchInv, OneAtATime, Busy, At, Moving
<1>4. \A g, h \in Name : dir[g] = dir[h] /\ dir[g] # None => g = h
  BY <1>3 DEF SwitchInv, OneName
<1>5. OneName'
  <2>1. \A g, h \in Name : dir'[g] = dir'[h] /\ dir'[g] # None => g = h
    BY <1>1, <1>2, <1>4
  <2>2. \A g, h \in Name : work'[g] = work'[h] /\ work'[g] # None => g = h
    BY <1>1, <1>2 DEF SwitchInv, OneName
  <2>3. \A g, h \in Name : work'[g] = dir'[h] => work'[g] = None
    BY <1>1, <1>2, <1>4 DEF SwitchInv, OneName
  <2> QED
    BY <2>1, <2>2, <2>3 DEF OneName
<1>6. BilledGone'
  BY <1>1, <1>2 DEF SwitchInv, BilledGone
<1> QED
  BY <1>2, <1>5, <1>6 DEF SwitchInv, OneFile

(* csabuild reads every record at most once, and none that was billed.     *)
ReadNow(r) == \E f \in Reached : r \in data[work[f]]
LEMMA ReadOnce ==
  ASSUME SwitchInv, Read
  PROVE  bills' = [r \in Rec |-> IF ReadNow(r) THEN 1 ELSE bills[r]]
         /\ \A r \in Rec : ReadNow(r) => r \in 1..n /\ bills[r] = 0
<1> DEFINE Files(r) == {f \in Reached : r \in data[work[f]]}
<1>1. /\ step = "mv" /\ bills' = [r \in Rec |-> bills[r] + Cardinality(Files(r))]
      /\ bills \in [Rec -> Nat] /\ \A r \in Rec : bills[r] \in {0, 1}
      /\ work \in [Name -> Inode \cup {None}]
  BY DEF Read, SwitchInv, SwitchTypeOK, FilesType, CsarunType, Billed01
<1>2. \A f \in Reached : f \in Name /\ work[f] \in Inode
  BY <1>1 DEF Reached
<1>3. \A r \in Rec : ReadNow(r) => r \in 1..n /\ bills[r] = 0
  <2> SUFFICES ASSUME NEW r \in Rec, NEW f \in Reached, r \in data[work[f]]
               PROVE  r \in 1..n /\ bills[r] = 0
    BY DEF ReadNow
  <2>1. r \in 1..n
    BY <1>2 DEF SwitchInv, OneFile
  <2>2. bills[r] # 1
    BY <1>1, <1>2 DEF SwitchInv, BilledGone
  <2> QED
    BY <1>1, <2>1, <2>2
<1>4. ASSUME NEW r \in Rec PROVE Cardinality(Files(r)) = IF ReadNow(r) THEN 1 ELSE 0
  <2>1. CASE ~ReadNow(r)
    <3>1. Files(r) = {}
      BY <2>1 DEF ReadNow
    <3> QED
      BY <2>1, <3>1, FS_EmptySet
  <2>2. CASE ReadNow(r)
    <3>1. PICK f \in Reached : r \in data[work[f]]
      BY <2>2 DEF ReadNow
    <3>2. \A g \in Reached : r \in data[work[g]] => g = f
      <4> SUFFICES ASSUME NEW g \in Reached, r \in data[work[g]] PROVE g = f
        OBVIOUS
      <4>1. work[g] = work[f]
        BY <1>2, <3>1 DEF SwitchInv, OneFile
      <4> QED
        BY <1>2, <4>1 DEF SwitchInv, OneName
    <3>3. Files(r) = {f}
      BY <3>1, <3>2
    <3> HIDE DEF Files
    <3> QED
      BY <2>2, <3>3, FS_Singleton
  <2> QED
    BY <2>1, <2>2
<1> HIDE DEF Files
<1>5. \A r \in Rec : bills[r] + Cardinality(Files(r)) = IF ReadNow(r) THEN 1 ELSE bills[r]
  BY <1>1, <1>3, <1>4
<1> QED
  BY <1>1, <1>3, <1>5

LEMMA ReadStep ==
  ASSUME SwitchInv, Read
  PROVE  OneName' /\ OneFile' /\ Billed01' /\ BilledGone'
<1>1. /\ dir' = dir /\ work' = work /\ data' = data /\ n' = n /\ sw' = sw /\ step = "mv"
      /\ step' = IF Reached = {} THEN "asleep" ELSE "rm"
  BY DEF Read, files
<1>2. OneName' /\ OneFile'
  BY <1>1 DEF SwitchInv, OneName, OneFile, Moving
<1>3. Billed01'
  BY <1>1, ReadOnce DEF SwitchInv, Billed01
<1>4. \A f \in Reached : f \in Name /\ work[f] \in Inode
  BY DEF Reached, SwitchInv, SwitchTypeOK, FilesType
<1>5. BilledGone'
  <2> SUFFICES ASSUME NEW i \in Inode, NEW r \in data[i], bills'[r] = 1, NEW f \in Name
               PROVE  dir[f] # i /\ (work[f] = i => step' = "rm")
    BY <1>1 DEF BilledGone
  <2>1. r \in Rec
    BY DEF SwitchInv, SwitchTypeOK, FilesType
  <2>2. CASE ReadNow(r)
    <3>1. PICK g \in Reached : r \in data[work[g]]
      BY <2>2 DEF ReadNow
    <3>2. work[g] = i
      BY <1>4, <3>1 DEF SwitchInv, OneFile
    <3> QED
      BY <1>1, <1>4, <3>1, <3>2 DEF SwitchInv, OneName
  <2>3. CASE ~ReadNow(r)
    <3>1. bills[r] = 1
      BY <2>1, <2>3, ReadOnce
    <3> QED
      BY <1>1, <3>1 DEF SwitchInv, BilledGone
  <2> QED
    BY <2>2, <2>3
<1> QED
  BY <1>2, <1>3, <1>5

(***************************************************************************)
(* The invariant                                                           *)
(***************************************************************************)
LEMMA InitInv == Init => SwitchInv
<1> SUFFICES ASSUME Init PROVE SwitchInv
  OBVIOUS
<1>1. SwitchTypeOK
  BY InitType
<1>2. \A s \in Switcher : ~Busy(s)
  <2>1. Idle.pc = "idle"
    BY DEF Idle
  <2> QED
    BY <2>1 DEF Init, Busy, At
<1>3. OneAtATime
  BY <1>2 DEF Init, OneAtATime
<1>4. OneName
  BY DEF Init, OneName
<1>5. OneFile /\ BilledGone /\ Billed01
  BY DEF Init, OneFile, BilledGone, Billed01
<1> QED
  BY <1>1, <1>3, <1>4, <1>5 DEF SwitchInv

LEMMA InvStep ==
  ASSUME SwitchInv, Serial, [Next]_vars
  PROVE  SwitchInv'
<1>1. SwitchTypeOK' /\ OneAtATime'
  BY TypeStep DEF SwitchInv
<1>2. SUFFICES OneName' /\ OneFile' /\ Billed01' /\ BilledGone'
  BY <1>1 DEF SwitchInv
<1>3. ASSUME dir' = dir, work' = work, data' = data, n' = n, bills' = bills,
             \A s \in Switcher : Moving(s) => sw'[s] = sw[s], step' # step => step # "rm"
      PROVE  OneName' /\ OneFile' /\ Billed01' /\ BilledGone'
  <2>1. OneName'
    BY <1>3 DEF SwitchInv, OneName, Moving
  <2> QED
    BY <1>3, <2>1 DEF SwitchInv, OneFile, Billed01, BilledGone
<1>4. CASE CsadWrites
  <2>1. CASE UNCHANGED <<n, data>>
    BY <1>3, <1>4, <2>1 DEF CsadWrites, run
  <2>2. CASE n' = n + 1 /\ data' = [data EXCEPT ![csad.vp] = @ \cup {n + 1}]
    <3>1. /\ dir' = dir /\ work' = work /\ bills' = bills /\ sw' = sw /\ step' = step
          /\ n + 1 \in Rec /\ n \in Nat /\ csad.vp \in Inode /\ data \in [Inode -> SUBSET Rec]
      BY <1>4 DEF CsadWrites, run, SwitchInv, SwitchTypeOK, FilesType
    <3>2. bills[n + 1] # 1 /\ \A i \in Inode : n + 1 \notin data[i]
      BY <3>1 DEF SwitchInv, Billed01, OneFile
    <3>3. OneName'
      BY <3>1 DEF SwitchInv, OneName, Moving
    <3>4. OneFile'
      BY <2>2, <3>1, <3>2 DEF SwitchInv, OneFile
    <3>5. Billed01' /\ BilledGone'
      BY <2>2, <3>1, <3>2 DEF SwitchInv, Billed01, BilledGone
    <3> QED
      BY <3>3, <3>4, <3>5
  <2> QED
    BY <1>4, <2>1, <2>2 DEF CsadWrites
<1>5. CASE CsadStopsOrStarts \/ Halt
  BY <1>3, <1>5 DEF CsadStopsOrStarts, Halt, files, run
<1>6. ASSUME NEW s \in Switcher, NEW cmd \in {"switch", "on"}, Kdstat(s, cmd)
      PROVE  OneName' /\ OneFile' /\ Billed01' /\ BilledGone'
  <2>1. \A o \in Switcher : ~Moving(o)
    BY <1>6 DEF Kdstat, At, Moving
  <2> QED
    BY <1>3, <1>6, <2>1 DEF Kdstat, files
<1>7. ASSUME NEW s \in Switcher, Goes(s)
      PROVE  OneName' /\ OneFile' /\ Billed01' /\ BilledGone'
  BY <1>7, OneNameStep, BilledGoneStep, SwitchersStep DEF SwitchInv, SwitchTypeOK, Billed01
<1>8. CASE Ls
  BY <1>3, <1>8 DEF Ls, files
<1>9. CASE Mv
  <2>1. bills' = bills /\ n' = n
    BY <1>9 DEF Mv
  <2> QED
    BY <1>9, <2>1, MvStep DEF SwitchInv, Billed01
<1>10. CASE Read
  BY <1>10, ReadStep
<1>11. CASE Rm
  <2>1. /\ dir' = dir /\ work' = [f \in Name |-> None] /\ data' = data /\ n' = n /\ bills' = bills /\ sw' = sw
        /\ None \notin Inode
    BY <1>11 DEF Rm
  <2> QED
    BY <2>1 DEF SwitchInv, OneName, Moving, OneFile, Billed01, BilledGone
<1>12. CASE UNCHANGED vars
  BY <1>3, <1>12 DEF vars
<1> QED
  BY <1>4, <1>5, <1>6, <1>7, <1>8, <1>9, <1>10, <1>11, <1>12 DEF Next, Goes

(* One csaswitch at a time, and one name, one file and one bill for every  *)
(* record: the invariant that csaswitch.c:673-770, csa.c and csarun.in's   *)
(* SETUP keep together.                                                    *)
THEOREM SwitchInvariance ==
  ASSUME Serial
  PROVE  Spec => []SwitchInv
<1>1. SwitchInv /\ [Next]_vars => SwitchInv'
  BY InvStep
<1> QED
  BY InitInv, <1>1, PTL DEF Spec

(***************************************************************************)
(* The abstract specification                                              *)
(***************************************************************************)
LEMMA BillsStep ==
  ASSUME SwitchInv, Serial, [Next]_vars
  PROVE  [Billed!BNext]_(Billed!bvars)
<1> USE DEF Billed!bvars
<1>1. CASE n' = n + 1 /\ n + 1 \in Rec /\ bills' = bills
  <2>1. n \in Nat /\ 1..n' = (1..n) \cup {n + 1} /\ {n + 1} \subseteq Rec \ (1..n)
    BY <1>1 DEF SwitchInv, SwitchTypeOK, FilesType
  <2>2. Billed!Write({n + 1})
    BY <1>1, <2>1 DEF Billed!Write
  <2> QED
    BY <1>1, <2>2 DEF Billed!BNext
<1>2. CASE n' = n /\ bills' = bills
  BY <1>2
<1>3. CASE Read
  <2> DEFINE S == {r \in Rec : ReadNow(r)}
  <2>1. n' = n /\ S \in SUBSET Rec /\ S \subseteq {r \in (1..n) \ {} : bills[r] = 0}
    BY <1>3, ReadOnce DEF Read
  <2>2. bills' = [r \in Rec |-> IF r \in S THEN 1 ELSE bills[r]]
    BY <1>3, ReadOnce
  <2>3. Billed!Bill(S)
    BY <2>1, <2>2 DEF Billed!Bill
  <2> QED
    BY <2>1, <2>3 DEF Billed!BNext
<1>4. CASE CsadWrites
  BY <1>1, <1>2, <1>4 DEF CsadWrites, run, SwitchInv, SwitchTypeOK, FilesType
<1>5. ASSUME NEW s \in Switcher, NEW cmd \in {"switch", "on"}, Kdstat(s, cmd)
      PROVE  n' = n /\ bills' = bills
  BY <1>5 DEF Kdstat
<1>6. ASSUME NEW s \in Switcher, Goes(s)
      PROVE  n' = n /\ bills' = bills
  BY <1>6, SwitchersStep DEF SwitchInv, SwitchTypeOK
<1>7. CASE CsadStopsOrStarts \/ Halt \/ Ls \/ Mv \/ Rm \/ UNCHANGED vars
  BY <1>2, <1>7 DEF CsadStopsOrStarts, Halt, Ls, Mv, Rm, vars, run
<1> QED
  BY <1>2, <1>3, <1>4, <1>5, <1>6, <1>7 DEF Next, Goes

(* csaswitch, csad and csarun's SETUP, BUILD and CLEANUP implement         *)
(* Billing: however many callers, files and records there are, and with    *)
(* csad stopping or failing at any moment, no record is billed twice.      *)
THEOREM NothingBilledTwice ==
  ASSUME Serial
  PROVE  Spec => SwitchBillsOnce
<1>1. Init => Billed!BInit
  <2> SUFFICES ASSUME Init PROVE Billed!BInit
    OBVIOUS
  <2>1. n = 0 /\ 1..n = {} /\ bills = [r \in Rec |-> 0]
    BY DEF Init
  <2> QED
    BY <2>1 DEF Billed!BInit
<1>2. SwitchInv /\ [Next]_vars => [Billed!BNext]_(Billed!bvars)
  BY BillsStep
<1> QED
  BY <1>1, <1>2, SwitchInvariance, PTL DEF Spec, SwitchBillsOnce, Billed!BSpec

(***************************************************************************)
(* csaswitch loses no record and leaves csad on the file named pacct,      *)
(* provided also that csad does not answer an error after it opened the    *)
(* file.                                                                   *)
(***************************************************************************)
(* pacct has been moved aside, or there was none; and a csaswitch has      *)
(* given pacct its second name.                                            *)
Aside(s) == sw[s].pc \in {"file", "start", "undo_unlink", "undo_link"}
Linked(s) ==
  \/ sw[s].pc \in {"unlink", "undo_unlink", "undo_link", "undo_rm"}
  \/ sw[s].pc \in {"file", "start"} /\ sw[s].new # None

(* Where the file is that csad writes to: pacct, or the one moved aside.   *)
FileAt(s) ==
  csad.vp # None =>
    IF Aside(s) THEN sw[s].new # None /\ dir[sw[s].new] = csad.vp ELSE dir[Pacct] = csad.vp
VpPlace ==
  /\ csad.on => csad.vp # None
  /\ PacctIsCurrent
  /\ \A s \in Switcher : Busy(s) => FileAt(s)

(* What a csaswitch has done so far, as the directory shows it: the file   *)
(* moved aside keeps its name, the file created in its place is empty, and *)
(* its number is the last, or the first that is free.                      *)
PartsAt(s) ==
  /\ Linked(s) => dir[sw[s].new] # None
  /\ Moving(s) => dir[Pacct] = dir[sw[s].new]
  /\ sw[s].pc \in {"file", "undo_link"} => dir[Pacct] = None
  /\ sw[s].pc = "start" => dir[Pacct] # None
  /\ sw[s].pc \in {"start", "undo_unlink"} /\ dir[Pacct] # None => data[dir[Pacct]] = {}
  /\ sw[s].new # None =>
       \A f \in 1..MaxFile : (f < sw[s].new => dir[f] # None) /\ (f > sw[s].new => dir[f] = None)
MoveParts == \A s \in Switcher : Busy(s) => PartsAt(s)

(* The numbers have no gap: while csarun carries files off they are those  *)
(* that ls found, otherwise every number up to the last is taken.          *)
NoGap == \A f \in 1..MaxFile : dir[f] # None => \A g \in 1..f : dir[g] # None
Numbers ==
  IF step \in {"mv", "rm"} THEN \A f \in 1..MaxFile : dir[f] # None <=> f \in list ELSE NoGap

(* csarun's directory is empty until ls; then its numbers and those still  *)
(* to move have no gap together, so that csabuild reaches all; and it is   *)
(* removed when every record in it has been billed.                        *)
ToMove ==
  /\ \A f \in list : work[f] = None
  /\ \A f \in 1..MaxFile : f \in list \/ work[f] # None => \A g \in 1..f : g \in list \/ work[g] # None
AllBilled == list = {} /\ \A f \in Name : work[f] # None => \A r \in data[work[f]] : bills[r] > 0
WorkDir ==
  /\ list \subseteq 1..MaxFile /\ work[Pacct] = None
  /\ step \notin {"mv", "rm"} => \A f \in Name : work[f] = None
  /\ step = "mv" => ToMove
  /\ step = "rm" => AllBilled

KeptInv == VpPlace /\ MoveParts /\ Numbers /\ WorkDir /\ RecordsKept

LEMMA KeptInit == Init => KeptInv
<1> SUFFICES ASSUME Init PROVE KeptInv
  OBVIOUS
<1>1. \A s \in Switcher : ~Busy(s)
  <2>1. Idle.pc = "idle"
    BY DEF Idle
  <2> QED
    BY <2>1 DEF Init, Busy, At
<1>2. VpPlace /\ MoveParts
  BY <1>1 DEF Init, VpPlace, PacctIsCurrent, MoveParts
<1>3. Numbers /\ WorkDir /\ RecordsKept
  BY DEF Init, Numbers, NoGap, WorkDir, RecordsKept
<1> QED
  BY <1>2, <1>3 DEF KeptInv

(* No record is lost when a file that holds one keeps a name. *)
LEMMA KeptFiles ==
  ASSUME RecordsKept, n' = n, bills' = bills,
         \A i \in Named \ {None} : data[i] = {} \/ (i \in Named' /\ data'[i] = data[i])
  PROVE  RecordsKept'
BY DEF RecordsKept

(* The file that csad writes to has a name.                                *)
LEMMA VpNamed ==
  ASSUME SwitchInv, KeptInv, csad.vp # None
  PROVE  /\ \E f \in Name : dir[f] = csad.vp
         /\ step \in {"mv", "rm"} => dir[Pacct] = csad.vp
<1>1. CASE \A s \in Switcher : ~Busy(s)
  BY <1>1 DEF KeptInv, VpPlace, PacctIsCurrent, Busy
<1>2. ASSUME NEW s \in Switcher, Busy(s)
      PROVE  (\E f \in Name : dir[f] = csad.vp) /\ step \notin {"mv", "rm"}
  <2>1. FileAt(s) /\ sw[s].new \in Name
    BY <1>2 DEF KeptInv, VpPlace, SwitchInv, SwitchTypeOK, SwitchersType
  <2>2. step \notin {"mv", "rm"}
    BY <1>2 DEF SwitchInv, OneAtATime
  <2> QED
    BY <2>1, <2>2 DEF FileAt
<1> QED
  BY <1>1, <1>2

(***************************************************************************)
(* csad                                                                    *)
(***************************************************************************)
LEMMA CsadKept ==
  ASSUME SwitchInv, KeptInv, CsadWrites \/ CsadStopsOrStarts \/ Halt
  PROVE  KeptInv'
<1>0. /\ dir' = dir /\ work' = work /\ sw' = sw /\ list' = list /\ step' = step /\ bills' = bills
      /\ csad \in [up : BOOLEAN, on : BOOLEAN, vp : Inode \cup {None}]
      /\ dir \in [Name -> Inode \cup {None}] /\ work \in [Name -> Inode \cup {None}]
      /\ data \in [Inode -> SUBSET Rec] /\ n \in 0..MaxRec /\ bills \in [Rec -> Nat]
      /\ sw \in [Switcher -> [pc : Place, on : BOOLEAN, new : Name]]
  BY DEF CsadWrites, CsadStopsOrStarts, Halt, files, run, SwitchInv, SwitchTypeOK, FilesType, SwitchersType, CsarunType
<1>1. VpPlace'
  <2>1. csad'.vp \in {None, csad.vp} /\ (csad'.on => csad'.vp # None)
    BY <1>0 DEF CsadWrites, CsadStopsOrStarts, Halt, KeptInv, VpPlace
  <2> QED
    BY <1>0, <2>1 DEF KeptInv, VpPlace, PacctIsCurrent, FileAt, Aside, Busy, At
<1>2. Numbers'
  BY <1>0 DEF KeptInv, Numbers, NoGap
<1>3. CASE data' = data /\ n' = n
  <2>1. MoveParts'
    BY <1>0, <1>3 DEF KeptInv, MoveParts, PartsAt, Linked, Moving, Busy, At
  <2>2. WorkDir'
    BY <1>0, <1>3 DEF KeptInv, WorkDir, ToMove, AllBilled
  <2>3. RecordsKept'
    BY <1>0, <1>3 DEF KeptInv, RecordsKept, Named
  <2> QED
    BY <1>1, <1>2, <2>1, <2>2, <2>3 DEF KeptInv
<1>4. CASE csad.vp # None /\ n' = n + 1 /\ data' = [data EXCEPT ![csad.vp] = @ \cup {n + 1}]
  <2>1. csad.vp \in Inode
    BY <1>0, <1>4
  <2>2. MoveParts'
    <3> SUFFICES ASSUME NEW s \in Switcher, Busy(s), PartsAt(s), FileAt(s) PROVE PartsAt(s)'
      BY <1>0 DEF KeptInv, MoveParts, VpPlace, Busy, At
    <3>1. sw[s].pc \in {"start", "undo_unlink"} /\ dir[Pacct] # None => dir[Pacct] # csad.vp
      <4> SUFFICES ASSUME sw[s].pc \in {"start", "undo_unlink"}, dir[Pacct] # None, dir[Pacct] = csad.vp PROVE FALSE
        OBVIOUS
      <4>1. sw[s].new \in Name /\ sw[s].new # Pacct /\ dir[sw[s].new] = dir[Pacct]
        BY <1>0, <1>4 DEF FileAt, Aside
      <4>2. \A o \in Switcher : ~Moving(o)
        BY DEF SwitchInv, OneAtATime, Busy, At, Moving
      <4> QED
        BY <4>1, <4>2 DEF SwitchInv, OneName
    <3> QED
      BY <1>0, <1>4, <2>1, <3>1 DEF PartsAt, Linked, Moving
  <2>3. WorkDir'
    <3>1. step = "rm" => \A f \in Name : work[f] # csad.vp
      BY <1>4, VpNamed DEF SwitchInv, OneName
    <3> QED
      BY <1>0, <1>4, <2>1, <3>1 DEF KeptInv, WorkDir, ToMove, AllBilled
  <2>4. RecordsKept'
    <3>1. csad.vp \in Named /\ Named' = Named
      BY <1>0, <1>4, VpNamed DEF Named
    <3>2. \A i \in Named \ {None} : i \in Inode
      BY <1>0 DEF Named
    <3>3. 1..n' = (1..n) \cup {n + 1} /\ n + 1 \in data'[csad.vp]
      BY <1>0, <1>4, <2>1
    <3>4. \A i \in Named \ {None} : data[i] \subseteq data'[i]
      BY <1>0, <1>4, <2>1, <3>2
    <3> QED
      BY <1>0, <1>4, <3>1, <3>3, <3>4 DEF KeptInv, RecordsKept
  <2> QED
    BY <1>1, <1>2, <2>2, <2>3, <2>4 DEF KeptInv
<1> QED
  BY <1>0, <1>3, <1>4 DEF CsadWrites, CsadStopsOrStarts, Halt, files

(***************************************************************************)
(* csaswitch                                                               *)
(***************************************************************************)
(* The csaswitch that runs is alone, and csarun sleeps.                    *)
LEMMA Alone ==
  ASSUME SwitchInv, Serial, NEW s \in Switcher, Goes(s)
  PROVE  /\ Busy(s) /\ \A o \in Switcher : o # s => sw'[o] = sw[o] /\ ~Busy(o)
         /\ step \notin {"mv", "rm"} /\ step' \notin {"mv", "rm"}
         /\ work' = work /\ list' = list /\ n' = n /\ bills' = bills
<1>1. Busy(s)
  BY SwitchersStep DEF SwitchInv, SwitchTypeOK
<1> QED
  BY <1>1, SwitchersStep DEF SwitchInv, SwitchTypeOK, OneAtATime

(* Nothing is lost in a step that leaves the files alone.                  *)
LEMMA FilesStill ==
  ASSUME NoGap, RecordsKept, dir' = dir, data' = data, work' = work, n' = n, bills' = bills
  PROVE  NoGap' /\ RecordsKept'
<1>1. NoGap'
  BY DEF NoGap
<1>2. Named' = Named
  BY DEF Named
<1> QED
  BY <1>1, <1>2 DEF RecordsKept

(* What is left to show of a step of a csaswitch.                          *)
LEMMA GoesKept ==
  ASSUME SwitchInv, KeptInv, Serial, NEW s \in Switcher, Goes(s), csad'.on => csad'.vp # None,
         FileAt(s)', Busy(s)' => PartsAt(s)', NoGap', RecordsKept'
  PROVE  KeptInv'
<1>1. \A o \in Switcher : Busy(o)' => o = s
  BY Alone DEF Busy, At
<1>2. VpPlace'
  <2>1. PacctIsCurrent'
    BY DEF PacctIsCurrent, FileAt, Aside, At
  <2> QED
    BY <1>1, <2>1 DEF VpPlace
<1>3. MoveParts' /\ Numbers'
  BY <1>1, Alone DEF MoveParts, Numbers
<1>4. WorkDir'
  BY Alone DEF KeptInv, WorkDir
<1> QED
  BY <1>2, <1>3, <1>4 DEF KeptInv

(* What a csaswitch knows in its place.                                    *)
LEMMA Here ==
  ASSUME SwitchInv, KeptInv, Serial, NEW s \in Switcher, Goes(s)
  PROVE  /\ FileAt(s) /\ PartsAt(s) /\ NoGap /\ RecordsKept /\ (csad.on => csad.vp # None)
         /\ sw[s] \in [pc : Place, on : BOOLEAN, new : Name]
         /\ sw[s].pc \in HasNew => sw[s].new # None
         /\ dir \in [Name -> Inode \cup {None}] /\ work \in [Name -> Inode \cup {None}]
         /\ data \in [Inode -> SUBSET Rec]
BY Alone DEF KeptInv, VpPlace, MoveParts, Numbers, SwitchInv, SwitchTypeOK, FilesType, SwitchersType

LEMMA Gone ==
  ASSUME SwitchInv, NEW s \in Switcher, NEW pc, Goto(s, pc)
  PROVE  sw'[s].pc = pc /\ sw'[s].new = sw[s].new
BY DEF Goto, SwitchInv, SwitchTypeOK, SwitchersType

LEMMA Exited ==
  ASSUME SwitchInv, NEW s \in Switcher, NEW rc, Exit(s, rc)
  PROVE  sw'[s].pc = "idle" /\ ~Busy(s)'
BY DEF Exit, Idle, SwitchInv, SwitchTypeOK, SwitchersType, Busy, At

LEMMA FindNewKept ==
  ASSUME SwitchInv, KeptInv, Serial, NEW s \in Switcher, FindNew(s)
  PROVE  KeptInv'
<1>1. Goes(s)
  BY DEF Goes, DoSwitch
<1> USE <1>1, Here, Alone
<1>2. PICK f \in 1..MaxFile : /\ dir[f] = None
                              /\ \A g \in 1..(f - 1) : dir[g] # None
                              /\ sw' = [sw EXCEPT ![s] = [pc |-> "link", on |-> sw[s].on, new |-> f]]
  BY DEF FindNew
<1>3. sw'[s].pc = "link" /\ sw'[s].new = f /\ sw[s].pc = "find"
  BY <1>2 DEF FindNew, At, SwitchInv, SwitchTypeOK, SwitchersType
<1>4. csad' = csad /\ dir' = dir /\ data' = data
  BY DEF FindNew, files
<1>5. FileAt(s)'
  BY <1>3, <1>4 DEF FileAt, Aside
<1>6. PartsAt(s)'
  BY <1>2, <1>3, <1>4 DEF PartsAt, Linked, Moving, NoGap
<1>7. NoGap' /\ RecordsKept'
  BY <1>4, FilesStill
<1> QED
  BY <1>4, <1>5, <1>6, <1>7, GoesKept

LEMMA LinkNewKept ==
  ASSUME SwitchInv, KeptInv, Serial, NEW s \in Switcher, LinkNew(s)
  PROVE  KeptInv'
<1>1. Goes(s)
  BY DEF Goes, DoSwitch
<1> USE <1>1, Here, Alone
<1>2. sw[s].pc = "link" /\ sw[s].new \in 1..MaxFile /\ csad' = csad /\ data' = data
  BY DEF LinkNew, At, HasNew
<1>3. CASE dir' = dir /\ Exit(s, 1)
  <2>1. FileAt(s)'
    BY <1>2, <1>3, Exited DEF FileAt, Aside
  <2>2. NoGap' /\ RecordsKept'
    BY <1>2, <1>3, FilesStill
  <2> QED
    BY <1>2, <1>3, <2>1, <2>2, Exited, GoesKept
<1>4. CASE /\ dir[Pacct] # None /\ dir[sw[s].new] = None
           /\ dir' = [dir EXCEPT ![sw[s].new] = dir[Pacct]] /\ Goto(s, "unlink")
  <2>1. sw'[s].pc = "unlink" /\ sw'[s].new = sw[s].new
    BY <1>4, Gone
  <2>2. FileAt(s)'
    BY <1>2, <1>4, <2>1 DEF FileAt, Aside
  <2>3. PartsAt(s)'
    BY <1>2, <1>4, <2>1 DEF PartsAt, Linked, Moving
  <2>4. NoGap'
    <3>1. \A f \in 1..MaxFile : dir'[f] = IF f = sw[s].new THEN dir[Pacct] ELSE dir[f]
      BY <1>2, <1>4
    <3>2. \A f \in 1..MaxFile : dir'[f] # None <=> f <= sw[s].new
      BY <1>2, <1>4, <3>1 DEF PartsAt
    <3> QED
      BY <1>2, <3>2 DEF NoGap
  <2>5. Named \ {None} \subseteq Named'
    BY <1>2, <1>4 DEF Named
  <2>6. RecordsKept'
    BY <1>2, <2>5, KeptFiles
  <2> QED
    BY <1>2, <2>2, <2>3, <2>4, <2>6, GoesKept
<1> QED
  BY <1>3, <1>4 DEF LinkNew

LEMMA UnlinkOldKept ==
  ASSUME SwitchInv, KeptInv, Serial, NEW s \in Switcher, UnlinkOld(s)
  PROVE  KeptInv'
<1>1. Goes(s)
  BY DEF Goes, DoSwitch
<1> USE <1>1, Here, Alone
<1>2. /\ sw[s].pc = "unlink" /\ sw[s].new \in 1..MaxFile /\ csad' = csad /\ data' = data
      /\ dir[Pacct] = dir[sw[s].new] /\ dir[Pacct] # None
  BY DEF UnlinkOld, At, HasNew, PartsAt, Moving, Linked
<1>3. dir' = [dir EXCEPT ![Pacct] = None] /\ sw'[s].pc = "file" /\ sw'[s].new = sw[s].new
  BY <1>2, Gone DEF UnlinkOld
<1>4. FileAt(s)'
  BY <1>2, <1>3 DEF FileAt, Aside
<1>5. PartsAt(s)' /\ NoGap'
  BY <1>2, <1>3 DEF PartsAt, Linked, Moving, NoGap
<1>6. Named \ {None} \subseteq Named'
  BY <1>2, <1>3 DEF Named
<1>7. RecordsKept'
  BY <1>2, <1>6, KeptFiles
<1> QED
  BY <1>2, <1>4, <1>5, <1>7, GoesKept

(* do_file() creates pacct, without a record in it, when there is none.    *)
LEMMA MakeFileKept ==
  ASSUME SwitchInv, KeptInv, Serial, NEW s \in Switcher,
         \/ MakeFile(s, "file", "start", Undo(s))
         \/ MakeFile(s, "on_file", "on_start", "exit")
  PROVE  KeptInv'
<1>1. Goes(s)
  BY DEF Goes, DoSwitch, DoStart
<1> USE <1>1, Here, Alone
<1>2. PICK from \in {"file", "on_file"}, next \in {"start", "on_start"}, failed \in {"exit", "undo_unlink"} :
        /\ MakeFile(s, from, next, failed)
        /\ next = (IF from = "file" THEN "start" ELSE "on_start")
        /\ failed = (IF from = "file" /\ sw[s].new # None THEN "undo_unlink" ELSE "exit")
  <2>1. CASE MakeFile(s, "on_file", "on_start", "exit")
    BY <2>1
  <2>2. CASE MakeFile(s, "file", "start", Undo(s))
    BY <2>2 DEF Undo
  <2> QED
    BY <2>1, <2>2
<1>3. sw[s].pc = from /\ csad' = csad
  BY <1>2 DEF MakeFile, At
<1>4. CASE /\ dir[Pacct] = None /\ Goto(s, next)
           /\ \E i \in Inode : Fresh(i) /\ dir' = [dir EXCEPT ![Pacct] = i] /\ data' = [data EXCEPT ![i] = {}]
  <2>1. PICK i \in Inode : Fresh(i) /\ dir' = [dir EXCEPT ![Pacct] = i] /\ data' = [data EXCEPT ![i] = {}]
    BY <1>4
  <2>2. sw'[s].pc = next /\ sw'[s].new = sw[s].new
    BY <1>4, Gone
  <2>3. FileAt(s)'
    BY <1>2, <1>3, <1>4, <2>1, <2>2 DEF FileAt, Aside
  <2>3a. dir'[Pacct] = i /\ data'[i] = {} /\ \A f \in 1..MaxFile : dir'[f] = dir[f]
    BY <2>1
  <2>4. PartsAt(s)' /\ NoGap'
    <3>1. sw[s].new # None => sw[s].new \in 1..MaxFile
      OBVIOUS
    <3>2. (sw[s].new # None /\ next = "start") => dir[sw[s].new] # None
      BY <1>2, <1>3 DEF PartsAt, Linked
    <3>3. PartsAt(s)'
      <4>1. PartsAt(s)
        OBVIOUS
      <4>2. sw[s].new # None =>
              \A f \in 1..MaxFile : (f < sw[s].new => dir'[f] # None) /\ (f > sw[s].new => dir'[f] = None)
        BY <2>3a, <4>1 DEF PartsAt
      <4>3. (sw[s].new # None /\ next = "start") => dir'[sw[s].new] # None
        BY <2>3a, <3>1, <3>2
      <4>4. dir'[Pacct] # None /\ data'[dir'[Pacct]] = {} /\ next \in {"start", "on_start"}
        BY <1>2, <2>1, <2>3a
      <4> HIDE <1>1, Here, Alone
      <4> QED
        BY <2>2, <4>2, <4>3, <4>4 DEF PartsAt, Linked, Moving
    <3>4. NoGap'
      <4> SUFFICES ASSUME NEW f \in 1..MaxFile, dir'[f] # None, NEW g \in 1..f
                   PROVE  dir'[g] # None
        BY DEF NoGap
      <4>1. g \in 1..MaxFile /\ NoGap
        OBVIOUS
      <4> QED
        BY <2>3a, <4>1 DEF NoGap
    <3> QED
      BY <3>3, <3>4
  <2>5. i \notin Named /\ Named \ {None} \subseteq Named'
    BY <1>4, <2>1 DEF Named, Fresh
  <2>6. RecordsKept'
    <3>1. \A j \in Named \ {None} : j \in Inode
      BY DEF Named
    <3> QED
      BY <2>1, <2>5, <3>1, KeptFiles
  <2>7. csad'.on => csad'.vp # None
    BY <1>3
  <2>8. Busy(s)' => PartsAt(s)'
    BY <2>4
  <2> HIDE Here, Alone
  <2> QED
    BY <1>1, <2>3, <2>4, <2>6, <2>7, <2>8, GoesKept
<1>5. CASE UNCHANGED <<dir, data>>
  <2>1. NoGap' /\ RecordsKept'
    <3>1. NoGap /\ RecordsKept /\ work' = work /\ n' = n /\ bills' = bills
      OBVIOUS
    <3> HIDE Here, Alone
    <3> QED
      BY <1>5, <3>1, FilesStill
  <2>2. CASE Goto(s, next) /\ dir[Pacct] # None
    <3>1. sw'[s].pc = next /\ sw'[s].new = sw[s].new /\ from = "on_file"
      BY <1>2, <1>3, <2>2, Gone DEF PartsAt
    <3>2. FileAt(s)' /\ PartsAt(s)'
      BY <1>2, <1>3, <1>5, <3>1 DEF FileAt, Aside, PartsAt, Linked, Moving
    <3> QED
      BY <1>3, <2>1, <3>2, GoesKept
  <2>3. CASE failed = "undo_unlink" /\ Goto(s, failed)
    <3>1. sw'[s].pc = failed /\ sw'[s].new = sw[s].new
      BY <2>3, Gone
    <3>2. FileAt(s)' /\ PartsAt(s)'
      BY <1>2, <1>3, <1>5, <2>3, <3>1 DEF FileAt, Aside, PartsAt, Linked, Moving
    <3> QED
      BY <1>3, <2>1, <3>2, GoesKept
  <2>4. CASE failed = "exit" /\ Exit(s, 1)
    <3>1. FileAt(s)'
      BY <1>2, <1>3, <1>5, <2>4, Exited DEF FileAt, Aside
    <3> QED
      BY <1>3, <2>1, <2>4, <3>1, Exited, GoesKept
  <2> QED
    BY <1>2, <1>4, <1>5, <2>2, <2>3, <2>4 DEF MakeFile
<1> QED
  BY <1>2, <1>4, <1>5 DEF MakeFile

(* csad opens pacct, unless it has gone away; then the old file comes back.*)
LEMMA CsaStartKept ==
  ASSUME SwitchInv, KeptInv, Serial, ~LateErrors, NEW s \in Switcher,
         CsaStart(s, "start", Undo(s)) \/ CsaStart(s, "on_start", "exit")
  PROVE  KeptInv'
<1>1. Goes(s)
  BY DEF Goes, DoSwitch, DoStart
<1> USE <1>1, Here, Alone
<1>2. /\ dir' = dir /\ data' = data /\ sw[s].pc \in {"start", "on_start"}
      /\ csad \in [up : BOOLEAN, on : BOOLEAN, vp : Inode \cup {None}]
  BY DEF CsaStart, files, At, SwitchInv, SwitchTypeOK, FilesType
<1>3. NoGap' /\ RecordsKept'
  <2>1. NoGap /\ RecordsKept /\ work' = work /\ n' = n /\ bills' = bills
    OBVIOUS
  <2> HIDE Here, Alone
  <2> QED
    BY <1>2, <2>1, FilesStill
<1>4. CASE csad'.vp = dir[Pacct] /\ dir[Pacct] # None /\ Exit(s, 0)
  <2>1. FileAt(s)'
    BY <1>2, <1>4, Exited DEF FileAt, Aside
  <2> QED
    BY <1>3, <1>4, <2>1, Exited, GoesKept
<1>5. CASE sw[s].pc = "on_start" /\ csad' = [csad EXCEPT !.on = TRUE] /\ csad.vp # None /\ Exit(s, 0)
  <2>1. csad'.vp = csad.vp
    BY <1>2, <1>5
  <2>2. FileAt(s)'
    BY <1>2, <1>5, <2>1, Exited DEF FileAt, Aside
  <2> QED
    BY <1>3, <1>5, <2>1, <2>2, Exited, GoesKept
<1>6. CASE csad' = csad /\ Exit(s, 1) /\ (sw[s].pc = "start" => sw[s].new = None)
  <2>1. FileAt(s)'
    BY <1>2, <1>6, Exited DEF FileAt, Aside
  <2> QED
    BY <1>3, <1>6, <2>1, Exited, GoesKept
<1>7. CASE csad' = csad /\ sw[s].pc = "start" /\ sw[s].new # None /\ Goto(s, "undo_unlink")
  <2>1. sw'[s].pc = "undo_unlink" /\ sw'[s].new = sw[s].new
    BY <1>7, Gone
  <2>2. FileAt(s)' /\ PartsAt(s)'
    BY <1>2, <1>7, <2>1 DEF FileAt, Aside, PartsAt, Linked, Moving
  <2> QED
    BY <1>3, <1>7, <2>2, GoesKept
<1>8. CASE CsaStart(s, "start", Undo(s))
  <2>1. sw[s].pc = "start" /\ dir[Pacct] # None
    BY <1>8 DEF CsaStart, At, PartsAt
  <2>2. CASE csad.up
    <3>1. csad' = [up |-> TRUE, on |-> TRUE, vp |-> dir[Pacct]] /\ Exit(s, 0)
      BY <1>8, <2>1, <2>2 DEF CsaStart
    <3> QED
      BY <1>4, <2>1, <3>1
  <2>3. CASE ~csad.up
    <3>1. csad' = csad /\ IF Undo(s) = "exit" THEN Exit(s, 1) ELSE Goto(s, Undo(s))
      BY <1>8, <2>1, <2>3 DEF CsaStart
    <3> QED
      BY <1>6, <1>7, <2>1, <3>1 DEF Undo
  <2> QED
    BY <2>2, <2>3
<1>9. CASE CsaStart(s, "on_start", "exit")
  <2>1. sw[s].pc = "on_start"
    BY <1>9 DEF CsaStart, At
  <2>2. \/ csad' = [up |-> TRUE, on |-> TRUE, vp |-> dir[Pacct]] /\ dir[Pacct] # None /\ Exit(s, 0)
        \/ csad' = [csad EXCEPT !.on = TRUE] /\ csad.vp # None /\ Exit(s, 0)
        \/ csad' = csad /\ Exit(s, 1)
    BY <1>9 DEF CsaStart
  <2> QED
    BY <1>4, <1>5, <1>6, <2>1, <2>2
<1> QED
  BY <1>8, <1>9

LEMMA UndoKept ==
  ASSUME SwitchInv, KeptInv, Serial, NEW s \in Switcher,
         UndoUnlink(s) \/ UndoLink(s) \/ UndoRemove(s)
  PROVE  KeptInv'
<1>1. Goes(s)
  BY DEF Goes, DoSwitch
<1> USE <1>1, Here, Alone
<1>2. /\ csad' = csad /\ data' = data /\ sw[s].new \in 1..MaxFile
      /\ sw[s].pc \in {"undo_unlink", "undo_link", "undo_rm"} /\ dir[sw[s].new] # None
  BY DEF UndoUnlink, UndoLink, UndoRemove, At, HasNew, PartsAt, Linked
<1>3. CASE UndoUnlink(s)
  <2>1. dir' = [dir EXCEPT ![Pacct] = None] /\ sw[s].pc = "undo_unlink" /\ sw'[s].pc = "undo_link" /\ sw'[s].new = sw[s].new
    BY <1>3, Gone DEF UndoUnlink, At
  <2>2. FileAt(s)' /\ NoGap'
    BY <1>2, <2>1 DEF FileAt, Aside, NoGap
  <2>3. PartsAt(s)'
    BY <1>2, <2>1 DEF PartsAt, Linked, Moving
  <2>4. \A i \in Named \ {None} : data[i] = {} \/ i \in Named'
    BY <1>2, <2>1 DEF Named, PartsAt
  <2>5. RecordsKept'
    BY <1>2, <2>4, KeptFiles
  <2> QED
    BY <1>2, <2>2, <2>3, <2>5, GoesKept
<1>4. CASE UndoLink(s)
  <2>1. sw[s].pc = "undo_link" /\ dir[Pacct] = None
    BY <1>4 DEF UndoLink, At, PartsAt
  <2>2. dir' = [dir EXCEPT ![Pacct] = dir[sw[s].new]] /\ sw'[s].pc = "undo_rm" /\ sw'[s].new = sw[s].new
    BY <1>2, <1>4, <2>1, Gone DEF UndoLink
  <2>3. FileAt(s)' /\ NoGap'
    BY <1>2, <2>1, <2>2 DEF FileAt, Aside, NoGap
  <2>4. PartsAt(s)'
    BY <1>2, <2>1, <2>2 DEF PartsAt, Linked, Moving
  <2>5. Named \ {None} \subseteq Named'
    BY <1>2, <2>1, <2>2 DEF Named
  <2>6. RecordsKept'
    BY <1>2, <2>5, KeptFiles
  <2> QED
    BY <1>2, <2>3, <2>4, <2>6, GoesKept
<1>5. CASE UndoRemove(s)
  <2>1. sw[s].pc = "undo_rm" /\ dir[Pacct] = dir[sw[s].new] /\ dir' = [dir EXCEPT ![sw[s].new] = None] /\ Exit(s, 1)
    BY <1>5 DEF UndoRemove, At, PartsAt, Moving
  <2>2. FileAt(s)'
    BY <1>2, <2>1, Exited DEF FileAt, Aside
  <2>3. NoGap'
    <3>0. /\ sw[s].new \in 1..MaxFile /\ dir \in [Name -> Inode \cup {None}]
          /\ \A f \in 1..MaxFile : (f < sw[s].new => dir[f] # None) /\ (f > sw[s].new => dir[f] = None)
      BY <1>2, <2>1 DEF PartsAt
    <3>1. \A f \in 1..MaxFile : dir'[f] # None => f < sw[s].new
      BY <2>1, <3>0
    <3>2. \A f \in 1..MaxFile : f < sw[s].new => dir'[f] # None
      BY <2>1, <3>0
    <3> QED
      BY <1>2, <3>1, <3>2 DEF NoGap
  <2>4. Named \ {None} \subseteq Named'
    BY <1>2, <2>1 DEF Named
  <2>5. RecordsKept'
    BY <1>2, <2>4, KeptFiles
  <2> QED
    BY <1>2, <2>1, <2>2, <2>3, <2>5, Exited, GoesKept
<1> QED
  BY <1>3, <1>4, <1>5

(* A caller runs csaswitch while no other does and csarun sleeps.          *)
LEMMA KdstatKept ==
  ASSUME SwitchInv, KeptInv, Serial, NEW s \in Switcher, NEW cmd \in {"switch", "on"}, Kdstat(s, cmd)
  PROVE  KeptInv'
<1> DEFINE pc == IF cmd = "on" THEN (IF csad.on THEN "on_start" ELSE "on_file")
                 ELSE IF csad.on \/ dir[Pacct] # None THEN "find" ELSE "file"
<1>1. /\ step = "asleep" /\ step' \in {"asleep", "switch"} /\ \A o \in Switcher : ~Busy(o)
      /\ csad' = csad /\ dir' = dir /\ work' = work /\ data' = data /\ n' = n /\ list' = list /\ bills' = bills
  BY DEF Kdstat, files, Busy
<1>2. /\ sw'[s].pc = pc /\ sw'[s].new = None /\ \A o \in Switcher : o # s => sw'[o] = sw[o]
  BY DEF Kdstat, SwitchInv, SwitchTypeOK, SwitchersType
<1>3. csad.vp # None => dir[Pacct] = csad.vp
  BY <1>1 DEF KeptInv, VpPlace, PacctIsCurrent, Busy
<1>4. pc \in {"on_start", "on_file", "find", "file"} /\ (pc = "file" => dir[Pacct] = None)
  OBVIOUS
<1> HIDE DEF pc
<1>5. FileAt(s)' /\ PartsAt(s)'
  BY <1>1, <1>2, <1>3, <1>4 DEF FileAt, Aside, PartsAt, Linked, Moving
<1>6. VpPlace' /\ MoveParts'
  <2>1. \A o \in Switcher : Busy(o)' <=> o = s
    BY <1>1, <1>2, <1>4 DEF Busy, At
  <2> QED
    BY <1>1, <1>5, <2>1 DEF KeptInv, VpPlace, MoveParts, PacctIsCurrent, Busy
<1>7. Numbers' /\ WorkDir'
  BY <1>1 DEF KeptInv, Numbers, NoGap, WorkDir
<1>8. RecordsKept'
  BY <1>1 DEF KeptInv, RecordsKept, Named
<1> QED
  BY <1>6, <1>7, <1>8 DEF KeptInv

(***************************************************************************)
(* csarun                                                                  *)
(***************************************************************************)
(* No csaswitch runs: csad writes to pacct before and after.               *)
LEMMA CsarunQuiet ==
  ASSUME SwitchInv, KeptInv, Ls \/ Mv \/ Read \/ Rm, dir'[Pacct] = dir[Pacct]
  PROVE  VpPlace' /\ MoveParts'
<1>1. csad' = csad /\ sw' = sw /\ \A s \in Switcher : ~Busy(s)
  BY DEF Ls, Mv, Read, Rm, SwitchInv, OneAtATime
<1> QED
  BY <1>1 DEF KeptInv, VpPlace, MoveParts, PacctIsCurrent, Busy, At

LEMMA LsKept ==
  ASSUME SwitchInv, KeptInv, Ls
  PROVE  KeptInv'
<1>1. /\ step = "ls" /\ step' = "mv" /\ list' = {f \in 1..MaxFile : dir[f] # None}
      /\ dir' = dir /\ work' = work /\ data' = data /\ n' = n /\ bills' = bills
      /\ NoGap /\ (\A f \in Name : work[f] = None) /\ RecordsKept
  BY DEF Ls, files, KeptInv, Numbers, WorkDir
<1>2. Numbers' /\ WorkDir'
  <2>1. ToMove'
    BY <1>1 DEF ToMove, NoGap
  <2> QED
    BY <1>1, <2>1 DEF Numbers, WorkDir
<1>3. RecordsKept'
  BY <1>1 DEF RecordsKept, Named
<1> QED
  BY <1>1, <1>2, <1>3, CsarunQuiet DEF KeptInv

LEMMA MvKept ==
  ASSUME SwitchInv, KeptInv, Mv
  PROVE  KeptInv'
<1>1. PICK f \in list : /\ list' = list \ {f}
                        /\ work' = [work EXCEPT ![f] = IF dir[f] # None THEN dir[f] ELSE @]
                        /\ dir' = [dir EXCEPT ![f] = None]
  BY DEF Mv
<1>2. /\ f \in 1..MaxFile /\ list \subseteq 1..MaxFile /\ step = "mv" /\ step' = "mv" /\ data' = data /\ n' = n /\ bills' = bills
      /\ dir \in [Name -> Inode \cup {None}] /\ work \in [Name -> Inode \cup {None}]
      /\ ToMove /\ work[Pacct] = None /\ (\A g \in 1..MaxFile : dir[g] # None <=> g \in list) /\ RecordsKept
  BY <1>1 DEF Mv, KeptInv, Numbers, WorkDir, SwitchInv, SwitchTypeOK, FilesType
<1>3. work[f] = None /\ work' = [work EXCEPT ![f] = dir[f]] /\ dir[f] # None
  BY <1>1, <1>2 DEF ToMove
<1>4. Numbers'
  BY <1>1, <1>2 DEF Numbers
<1>5. ToMove'
  <2>1. \A g \in 1..MaxFile : (g \in list' \/ work'[g] # None) <=> (g \in list \/ work[g] # None)
    BY <1>1, <1>2, <1>3
  <2> QED
    BY <1>1, <1>2, <1>3, <2>1 DEF ToMove
<1>6. WorkDir'
  BY <1>1, <1>2, <1>3, <1>5 DEF WorkDir
<1>7. Named \ {None} \subseteq Named'
  BY <1>1, <1>2, <1>3 DEF Named
<1>8. RecordsKept'
  BY <1>2, <1>7, KeptFiles
<1> QED
  BY <1>1, <1>2, <1>4, <1>6, <1>8, CsarunQuiet DEF KeptInv

(* csabuild reaches every file, so that every record of them is billed.    *)
LEMMA ReadKept ==
  ASSUME SwitchInv, KeptInv, Read
  PROVE  KeptInv'
<1>1. /\ step = "mv" /\ list = {} /\ list' = list /\ step' = IF Reached = {} THEN "asleep" ELSE "rm"
      /\ dir' = dir /\ work' = work /\ data' = data /\ n' = n
      /\ dir \in [Name -> Inode \cup {None}] /\ work \in [Name -> Inode \cup {None}]
      /\ data \in [Inode -> SUBSET Rec] /\ bills \in [Rec -> Nat] /\ n \in 0..MaxRec
      /\ ToMove /\ work[Pacct] = None /\ (\A g \in 1..MaxFile : dir[g] = None) /\ RecordsKept
  BY DEF Read, files, KeptInv, Numbers, WorkDir, SwitchInv, SwitchTypeOK, FilesType, CsarunType
<1>2. \A f \in 1..MaxFile : work[f] # None => f \in Reached
  <2> SUFFICES ASSUME NEW f \in 1..MaxFile, work[f] # None PROVE f \in Reached
    OBVIOUS
  <2>1. f \in list \/ work[f] # None => \A g \in 1..f : g \in list \/ work[g] # None
    BY <1>1 DEF ToMove
  <2>2. \A g : g \notin list
    BY <1>1
  <2>3. \A g \in 1..f : work[g] # None
    BY <2>1, <2>2
  <2> QED
    BY <1>1, <2>3 DEF Reached
<1>3. \A r \in Rec : bills[r] > 0 => bills'[r] > 0
  <2> SUFFICES ASSUME NEW r \in Rec, bills[r] > 0 PROVE bills'[r] > 0
    OBVIOUS
  <2>1. bills'[r] = IF ReadNow(r) THEN 1 ELSE bills[r]
    BY ReadOnce
  <2> QED
    BY <2>1
<1>4. Numbers'
  BY <1>1 DEF Numbers, NoGap
<1>5. WorkDir'
  <2>1. \A f \in Name : work[f] # None => \A r \in data[work[f]] : bills'[r] > 0
    <3> SUFFICES ASSUME NEW f \in Name, work[f] # None, NEW r \in data[work[f]] PROVE bills'[r] > 0
      OBVIOUS
    <3>1. f \in Reached /\ r \in Rec
      BY <1>1, <1>2
    <3>2. ReadNow(r)
      BY <3>1 DEF ReadNow
    <3> QED
      BY <3>1, <3>2, ReadOnce
  <2>2. Reached = {} => \A f \in Name : work[f] = None
    BY <1>1, <1>2
  <2> QED
    BY <1>1, <2>1, <2>2 DEF WorkDir, AllBilled
<1>6. RecordsKept'
  <2>1. \A r \in 1..n : r \in Rec
    BY <1>1
  <2> QED
    BY <1>1, <1>3, <2>1 DEF RecordsKept, Named
<1> QED
  BY <1>1, <1>4, <1>5, <1>6, CsarunQuiet DEF KeptInv

LEMMA RmKept ==
  ASSUME SwitchInv, KeptInv, Rm
  PROVE  KeptInv'
<1>1. /\ step = "rm" /\ step' = "asleep" /\ list' = list /\ work' = [f \in Name |-> None]
      /\ dir' = dir /\ data' = data /\ n' = n /\ bills' = bills
      /\ list = {} /\ AllBilled /\ (\A g \in 1..MaxFile : dir[g] = None) /\ RecordsKept
  BY DEF Rm, KeptInv, Numbers, WorkDir, AllBilled
<1>2. Numbers' /\ WorkDir'
  BY <1>1 DEF Numbers, NoGap, WorkDir
<1>3. RecordsKept'
  <2> SUFFICES ASSUME NEW r \in 1..n, ~(bills[r] > 0) PROVE \E i \in Named' \ {None} : r \in data[i]
    BY <1>1 DEF RecordsKept
  <2>1. PICK i \in Named \ {None} : r \in data[i]
    BY <1>1 DEF RecordsKept
  <2>2. \A f \in Name : work[f] # i
    BY <1>1, <2>1 DEF AllBilled
  <2>3. i \in Named'
    BY <1>1, <2>1, <2>2 DEF Named
  <2> QED
    BY <2>1, <2>3
<1> QED
  BY <1>1, <1>2, <1>3, CsarunQuiet DEF KeptInv

(***************************************************************************)
(* The theorems                                                            *)
(***************************************************************************)
LEMMA KeptStep ==
  ASSUME SwitchInv, KeptInv, Serial, ~LateErrors, [Next]_vars
  PROVE  KeptInv'
<1>1. CASE CsadWrites \/ CsadStopsOrStarts \/ Halt
  BY <1>1, CsadKept
<1>2. ASSUME NEW s \in Switcher, NEW cmd \in {"switch", "on"}, Kdstat(s, cmd) PROVE KeptInv'
  BY <1>2, KdstatKept
<1>3. ASSUME NEW s \in Switcher, DoSwitch(s) PROVE KeptInv'
  BY <1>3, FindNewKept, LinkNewKept, UnlinkOldKept, MakeFileKept, CsaStartKept, UndoKept DEF DoSwitch
<1>4. ASSUME NEW s \in Switcher, DoStart(s) PROVE KeptInv'
  BY <1>4, MakeFileKept, CsaStartKept DEF DoStart
<1>5. CASE Ls \/ Mv \/ Read \/ Rm
  BY <1>5, LsKept, MvKept, ReadKept, RmKept
<1>6. CASE UNCHANGED vars
  <2>1. VpPlace' /\ MoveParts'
    BY <1>6 DEF vars, KeptInv, VpPlace, PacctIsCurrent, FileAt, Aside, MoveParts, PartsAt, Linked, Moving, Busy, At
  <2>2. Numbers' /\ WorkDir' /\ RecordsKept'
    BY <1>6 DEF vars, KeptInv, Numbers, NoGap, WorkDir, ToMove, AllBilled, RecordsKept, Named
  <2> QED
    BY <2>1, <2>2 DEF KeptInv
<1> QED
  BY <1>1, <1>2, <1>3, <1>4, <1>5, <1>6 DEF Next

LEMMA KeptInvariance ==
  ASSUME Serial, ~LateErrors
  PROVE  Spec => [](SwitchInv /\ KeptInv)
<1>1. SwitchInv /\ KeptInv /\ [Next]_vars => (SwitchInv /\ KeptInv)'
  BY InvStep, KeptStep
<1> QED
  BY InitInv, KeptInit, <1>1, PTL DEF Spec

(* No record is lost: what csaswitch.c:673-770 moves aside and puts back   *)
(* while csad writes to it stays in a file that has a name, until csabuild *)
(* has read it (csarun.in's SETUP, BUILD and CLEANUP).                     *)
THEOREM NothingLost ==
  ASSUME Serial, ~LateErrors
  PROVE  Spec => []RecordsKept
<1>1. SwitchInv /\ KeptInv => RecordsKept
  BY DEF KeptInv
<1> QED
  BY <1>1, KeptInvariance, PTL

(* After every csaswitch, whether it succeeded, failed or undid its move,  *)
(* the file csad writes to is the one named pacct (csa.c's AC_START).      *)
THEOREM CsadWritesPacct ==
  ASSUME Serial, ~LateErrors
  PROVE  Spec => []PacctIsCurrent
<1>1. SwitchInv /\ KeptInv => PacctIsCurrent
  BY DEF KeptInv, VpPlace
<1> QED
  BY <1>1, KeptInvariance, PTL
=============================================================================
