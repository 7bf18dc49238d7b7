------------------------------- MODULE Kernel -------------------------------
(***************************************************************************)
(* What jobd and csad see of the Linux kernel: processes that fork, exit   *)
(* and are reaped, the process-events connector that reports each fork and *)
(* each exit to jobd in order, and the per-task accounting records that a  *)
(* listening csad receives at each exit.  External to the repository.      *)
(***************************************************************************)
EXTENDS JobParams

CONSTANTS
  BootPid,     \* the processes that run when the model starts
  EvCap,       \* capacity of a netlink socket, in messages
  Lossy,       \* TRUE: a message that finds its socket full is dropped
  Reuse,       \* TRUE: the pid of a reaped process is given out again
  Zombies      \* TRUE: an exited process stays a zombie until it is reaped

ASSUME KernelAssumption ==
  /\ BootPid \subseteq Pid
  /\ EvCap \in Nat \ {0}
  /\ Lossy \in BOOLEAN /\ Reuse \in BOOLEAN /\ Zombies \in BOOLEAN

VARIABLES
  pstate,      \* [Pid -> {"free", "run", "zombie", "gone"}]
  signalled,   \* the processes with a fatal signal pending
  cnOn,        \* jobd's connector socket is registered: jobd is running
  nlq,         \* connector events not yet read by jobd
  tsOn,        \* csad has registered for task records
  tsq          \* task records not yet read by csad

kvars == <<pstate, signalled, cnOn, nlq, tsOn, tsq>>

Event ==
  {e \in [what : {"FORK", "EXIT"}, pid : Pid, parent : Pid, status : Status] :
     e.what = "FORK" => e.pid # e.parent}
TaskRec == [pid : Pid, status : Status]

ForkEvent(p, c) == [what |-> "FORK", pid |-> c, parent |-> p, status |-> 0]
ExitEvent(p, s) == [what |-> "EXIT", pid |-> p, parent |-> p, status |-> s]

KernelTypeOK ==
  /\ pstate \in [Pid -> {"free", "run", "zombie", "gone"}]
  /\ signalled \subseteq Pid
  /\ cnOn \in BOOLEAN /\ tsOn \in BOOLEAN
  /\ nlq \in Seq(Event)
  /\ tsq \in Seq(TaskRec)

KernelInit ==
  /\ pstate = [p \in Pid |-> IF p \in BootPid THEN "run" ELSE "free"]
  /\ signalled = {}
  /\ cnOn = TRUE
  /\ nlq = <<>>
  /\ tsOn = FALSE
  /\ tsq = <<>>

Running == {p \in Pid : pstate[p] = "run"}

(* The processes for which kill(pid, 0) succeeds: zombies are among them. *)
Existing == {p \in Pid : pstate[p] \in {"run", "zombie"}}

(* q' after the kernel offers message m to a listener's queue q. *)
Deliver(on, q, m) == IF on /\ Len(q) < EvCap THEN Append(q, m) ELSE q

(* Without loss the machine is as slow as its listeners: a step that would *)
(* overrun a queue waits.                                                  *)
HasRoom(on, q) == Lossy \/ ~on \/ Len(q) < EvCap

Fork(p, c) ==
  /\ pstate[p] = "run" /\ p \notin signalled
  /\ pstate[c] = "free"
  /\ HasRoom(cnOn, nlq)
  /\ pstate' = [pstate EXCEPT ![c] = "run"]
  /\ nlq' = Deliver(cnOn, nlq, ForkEvent(p, c))
  /\ UNCHANGED <<signalled, cnOn, tsOn, tsq>>

AfterReap == IF Reuse THEN "free" ELSE "gone"

Exit(p, s) ==
  /\ pstate[p] = "run"
  /\ HasRoom(cnOn, nlq) /\ HasRoom(tsOn, tsq)
  /\ pstate' = [pstate EXCEPT ![p] = IF Zombies THEN "zombie" ELSE AfterReap]
  /\ signalled' = signalled \ {p}
  /\ nlq' = Deliver(cnOn, nlq, ExitEvent(p, s))
  /\ tsq' = Deliver(tsOn, tsq, [pid |-> p, status |-> s])
  /\ UNCHANGED <<cnOn, tsOn>>

Reap(p) ==
  /\ pstate[p] = "zombie"
  /\ pstate' = [pstate EXCEPT ![p] = AfterReap]
  /\ UNCHANGED <<signalled, cnOn, nlq, tsOn, tsq>>
=============================================================================
