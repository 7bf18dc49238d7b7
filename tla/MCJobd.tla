------------------------------- MODULE MCJobd -------------------------------
(***************************************************************************)
(* Instances of the job daemon for TLC: each configuration picks one of    *)
(* the sets of calls below.                                                *)
(***************************************************************************)
EXTENDS Jobd, TLC

CONSTANTS p1, p2, c1, c2

Creates(pids, jids) == [op : {"CREATE"}, pid : pids, jid : jids, user : {1}]
Waits(jids) == [op : {"WAITJID"}, jid : jids, options : {0}]
Kills(uids) == [op : {"KILLJID"}, jid : {1}, sig : {9}, uid : uids]

(* Logins, which create jobs for themselves; users that wait, kill and ask. *)
LoginCalls ==
  {c1} \X Creates({p1, p2}, {NoJid})
  \cup {c2} \X (Waits({1}) \cup Kills({1})
                \cup [op : {"GETJID"}, pid : {p2}])

(* A single login and a user that waits for its job. *)
OneLoginCalls ==
  {c1} \X Creates({p1}, {NoJid}) \cup {c2} \X Waits({1})

(* A privileged caller that adds processes to a job; a user that waits.    *)
AttachCalls ==
  {c1} \X (Creates({p1}, {NoJid}) \cup [op : {"ATTACHPID"}, pid : {p2}, jid : {1}])
  \cup {c2} \X Waits({1})

(* A single login, a waiter, and the host ID that stops jobd. *)
DisableCalls == OneLoginCalls \cup {c1} \X [op : {"SETHID"}, hid : {DISABLED}]

(* Logins, one of which may bring its own JID, every change of membership  *)
(* the library offers and a user that waits, while the host ID changes.    *)
AdminCalls ==
  {c1} \X (Creates({p1}, {NoJid, 3}) \cup Creates({p2}, {NoJid})
           \cup [op : {"DETACHJID"}, jid : {1, 3}]
           \cup [op : {"DETACHPID"}, pid : {p2}]
           \cup [op : {"ATTACHPID"}, pid : {p2}, jid : {1}]
           \cup [op : {"SETHID"}, hid : Hid])
  \cup {c2} \X Waits({1})
=============================================================================
