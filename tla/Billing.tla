------------------------------- MODULE Billing -------------------------------
(***************************************************************************)
(* What the accounting files promise, whichever programs handle them: a    *)
(* record that was written is billed at most once, and a record that was   *)
(* set aside as damaged is not billed.                                     *)
(***************************************************************************)
EXTENDS Naturals

CONSTANT Rec            \* the accounting records

VARIABLES
  written,              \* the records written so far
  bills,                \* how often each record was billed
  aside                 \* the records an editor took out as damaged

bvars == <<written, bills, aside>>

BInit == written \in SUBSET Rec /\ bills = [r \in Rec |-> 0] /\ aside = {}

Write(S) ==
  /\ S \subseteq Rec \ written
  /\ written' = written \cup S
  /\ UNCHANGED <<bills, aside>>

SetAside(S) ==
  /\ S \subseteq {r \in written \ aside : bills[r] = 0}
  /\ aside' = aside \cup S
  /\ UNCHANGED <<written, bills>>

Bill(S) ==
  /\ S \subseteq {r \in written \ aside : bills[r] = 0}
  /\ bills' = [r \in Rec |-> IF r \in S THEN 1 ELSE bills[r]]
  /\ UNCHANGED <<written, aside>>

BNext == \E S \in SUBSET Rec : Write(S) \/ SetAside(S) \/ Bill(S)

BSpec == BInit /\ [][BNext]_bvars
=============================================================================
