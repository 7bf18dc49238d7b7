----------------------------- MODULE JobParams -----------------------------
(***************************************************************************)
(* The parameters shared by the modules of the job daemon: the processes   *)
(* of the machine, the callers of libjob and the shape of a job ID.        *)
(***************************************************************************)
EXTENDS Integers, Sequences, FiniteSets

CONSTANTS
  Pid,         \* the process IDs of the machine
  Status,      \* exit codes a process may report
  Client,      \* callers of libjob, each with its own connection to jobd
  Priv,        \* the callers that hold CAP_SYS_RESOURCE
  User,        \* user IDs
  HidCount,    \* number of host IDs (2^32 in job.h)
  SidCount     \* number of values of the low half of a JID (2^32 in job.h)

ASSUME ParamsAssumption ==
  /\ User \subseteq Nat \ {0}
  /\ Status \subseteq Nat /\ 0 \in Status
  /\ Priv \subseteq Client
  /\ HidCount \in Nat \ {0}
  /\ SidCount \in Nat \ {0}

(* jid_t is the pair (hid, sid) packed in one integer; 0 names no job. *)
MkJid(hid, sid) == hid * SidCount + sid
NoJid == 0
Jid == 1 .. (HidCount * SidCount - 1)
Hid == 0 .. (HidCount - 1)

(* DISABLED, the host ID that tells jobd to go away. *)
DISABLED == HidCount
=============================================================================
