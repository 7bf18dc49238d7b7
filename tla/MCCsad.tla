------------------------------- MODULE MCCsad -------------------------------
(***************************************************************************)
(* Instances of jobd with csad for TLC.                                    *)
(***************************************************************************)
EXTENDS MCJobd, Csad

(* A login that may log in again; its child. *)
LoginsOnly == {c1} \X Creates({p1}, {NoJid})

Starts(paths, ons) == [op : {"START"}, priv : {TRUE}, path : paths, on : ons]

(* csaswitch on, off and halt; ja on and off; a record of another daemon.  *)
SwitchCalls ==
  Starts({"good", "none"}, {{"CSA"}}) \cup Starts({"bad"}, {{"WKMG"}})
  \cup [op : {"STOP"}, priv : {TRUE}, off : {{"CSA"}}]
  \cup [op : {"HALT"}, priv : BOOLEAN]
  \cup [op : {"WRACCT"}, priv : {TRUE}, did : {"WKMG"}, jid : {1}]
  \cup [op : {"JASTART"}, pid : {p2}, path : {"good"}]
  \cup [op : {"JASTOP"}, pid : {p2}, path : {"none"}]

(* csad is asked for nothing: what jobd does with csad beside it. *)
NoRequests == {}
=============================================================================
