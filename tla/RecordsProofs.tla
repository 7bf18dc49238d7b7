--------------------------- MODULE RecordsProofs ---------------------------
(***************************************************************************)
(* Theorems about the check and the repair of a pacct file, whatever csad  *)
(* wrote and however its writes were cut short: the loop of csaverify and  *)
(* csaedit comes to an end, and csaedit can use every offset file.         *)
(***************************************************************************)
EXTENDS Records, TLAPS, SequenceTheorems, FiniteSetTheorems, WellFoundedInduction

(***************************************************************************)
(* Data                                                                    *)
(***************************************************************************)
(* A set of naturals that is not empty has a least element. *)
LEMMA MinExists ==
  ASSUME NEW T \in SUBSET Nat, T # {}
  PROVE \E x \in T : \A y \in T : x <= y
<1>1. \E x \in T : \A y \in T : ~ (<<y, x>> \in OpToRel(<, Nat))
  BY NatLessThanWellFounded, WFMin
<1>2. PICK x \in T : \A y \in T : ~ (<<y, x>> \in OpToRel(<, Nat))
  BY <1>1
<1>3. ASSUME NEW y \in T PROVE x <= y
  <2>1. x \in Nat /\ y \in Nat OBVIOUS
  <2>2. y < x => <<y, x>> \in OpToRel(<, Nat) BY <2>1 DEF OpToRel
  <2>3. ~ (<<y, x>> \in OpToRel(<, Nat)) BY <1>2
  <2>4. ~ (y < x) BY <2>2, <2>3, Zenon
  <2> QED BY <2>1, <2>4
<1> QED BY <1>3

(* Min finds it. *)
LEMMA MinLeast ==
  ASSUME NEW T \in SUBSET Nat, T # {}
  PROVE Min(T) \in T /\ \A y \in T : Min(T) <= y
BY MinExists DEF Min

LEMMA MinOfTwo ==
  ASSUME NEW m \in Nat, NEW n \in Nat
  PROVE Min({m, n}) \in Nat /\ Min({m, n}) \in {m, n} /\ Min({m, n}) <= m /\ Min({m, n}) <= n
<1>1. {m, n} \in SUBSET Nat /\ {m, n} # {} OBVIOUS
<1>2. Min({m, n}) \in {m, n} /\ \A y \in {m, n} : Min({m, n}) <= y BY <1>1, MinLeast
<1> QED BY <1>2

(* A sequence over a set is one over a larger set. *)
LEMMA SeqMonotone ==
  ASSUME NEW A, NEW B, A \subseteq B, NEW s \in Seq(A)
  PROVE s \in Seq(B)
<1>1. Len(s) \in Nat /\ s \in [1..Len(s) -> A] OBVIOUS
<1>2. s \in [1..Len(s) -> B] BY <1>1
<1> QED BY <1>1, <1>2, SeqDef

(* The pieces of a sequence of sequences over R make up one over R. *)
Joined(ss, f, i) == IF i = 1 THEN ss[i] ELSE f[i - 1] \o ss[i]

LEMMA JoinedExists ==
  ASSUME NEW R, NEW ss \in Seq(Seq(R))
  PROVE \E f : f = [i \in 1..Len(ss) |-> Joined(ss, f, i)]
<1> DEFINE P(k) == \E f : f = [i \in 1..k |-> Joined(ss, f, i)]
           T == {k \in 0..Len(ss) : ~P(k)}
<1>0. Len(ss) \in Nat OBVIOUS
<1>1. P(0)
  <2> DEFINE f == [i \in 1..0 |-> ss[i]]
  <2>1. \A i \in 1..0 : ss[i] = Joined(ss, f, i) OBVIOUS
  <2>2. f = [i \in 1..0 |-> Joined(ss, f, i)]
    <3> DEFINE g == [i \in 1..0 |-> Joined(ss, f, i)]
    <3>1. \A i \in 1..0 : f[i] = g[i] BY <2>1
    <3> QED BY <3>1
  <2> QED BY <2>2
<1>2. ASSUME NEW k \in 1..Len(ss), P(k - 1) PROVE P(k)
  <2>1. PICK f : f = [i \in 1..(k - 1) |-> Joined(ss, f, i)] BY <1>2
  <2> DEFINE g == [i \in 1..k |-> IF i = k THEN Joined(ss, f, i) ELSE f[i]]
  <2>2. ASSUME NEW i \in 1..k PROVE g[i] = Joined(ss, g, i)
    <3>1. i # 1 => i - 1 \in 1..(k - 1) BY <1>0
    <3>2. i # 1 => g[i - 1] = f[i - 1] BY <3>1, <1>0
    <3>3. Joined(ss, g, i) = Joined(ss, f, i)
      <4> HIDE DEF g
      <4> QED BY <3>2, Zenon DEF Joined
    <3>4. i # k => i \in 1..(k - 1) BY <1>0
    <3>5. i # k => f[i] = Joined(ss, f, i) BY <3>4, <2>1
    <3> QED BY <3>3, <3>5
  <2>3. g = [i \in 1..k |-> Joined(ss, g, i)] BY <2>2
  <2> QED BY <2>3
<1>3. T = {}
  <2>1. SUFFICES ASSUME T # {} PROVE FALSE OBVIOUS
  <2>2. T \in SUBSET Nat BY <1>0
  <2> HIDE DEF P
  <2>3. PICK k \in T : \A j \in T : k <= j
    <3> HIDE DEF T
    <3> QED BY <2>1, <2>2, MinExists
  <2>4. k \in 0..Len(ss) /\ ~P(k) OBVIOUS
  <2>5. k # 0 BY <1>1, <2>4
  <2>6. k - 1 \in 0..Len(ss) /\ ~(k <= k - 1) /\ k \in 1..Len(ss) BY <1>0, <2>4, <2>5
  <2>7. P(k - 1) BY <2>3, <2>6
  <2> QED BY <1>2, <2>4, <2>6, <2>7
<1>4. Len(ss) \notin T BY <1>3
<1>5. Len(ss) \in 0..Len(ss) BY <1>0
<1> QED BY <1>4, <1>5

LEMMA FlattenType ==
  ASSUME NEW R, NEW ss \in Seq(Seq(R))
  PROVE FlattenSeq(ss) \in Seq(R)
<1> DEFINE f == CHOOSE f : f = [i \in 1..Len(ss) |-> Joined(ss, f, i)]
<1>0. Len(ss) \in Nat OBVIOUS
<1>1. f = [i \in 1..Len(ss) |-> Joined(ss, f, i)] BY JoinedExists
<1>2. FlattenSeq(ss) = IF Len(ss) = 0 THEN ss ELSE f[Len(ss)] BY DEF FlattenSeq, Joined
<1> HIDE DEF f
<1> DEFINE T == {i \in 1..Len(ss) : f[i] \notin Seq(R)}
<1>3. T = {}
  <2>1. SUFFICES ASSUME T # {} PROVE FALSE OBVIOUS
  <2>2. T \in SUBSET Nat BY <1>0
  <2>3. PICK k \in T : \A j \in T : k <= j
    <3> HIDE DEF T
    <3> QED BY <2>1, <2>2, MinExists
  <2>4. k \in 1..Len(ss) /\ f[k] \notin Seq(R) OBVIOUS
  <2>5. f[k] = Joined(ss, f, k) BY <1>1, <2>4
  <2>6. ss[k] \in Seq(R) BY <2>4
  <2>7. k # 1 BY <2>4, <2>5, <2>6 DEF Joined
  <2>8. k - 1 \in 1..Len(ss) /\ ~(k <= k - 1) BY <1>0, <2>4, <2>7
  <2>9. f[k - 1] \in Seq(R) BY <2>3, <2>8
  <2>10. f[k] = f[k - 1] \o ss[k] BY <2>5, <2>7 DEF Joined
  <2> QED BY <2>4, <2>6, <2>9, <2>10, ConcatProperties
<1>4. CASE Len(ss) = 0
  <2>1. ss = << >> BY <1>4, EmptySeq
  <2> QED BY <1>2, <1>4, <2>1
<1>5. CASE Len(ss) # 0
  <2>1. Len(ss) \in 1..Len(ss) BY <1>0, <1>5
  <2> QED BY <1>2, <1>3, <1>5, <2>1
<1> QED BY <1>4, <1>5

(***************************************************************************)
(* Types                                                                   *)
(***************************************************************************)
(* The units of the entries ent: a place in a part that the entry has. *)
UnitOf(ent) == {u \in (DOMAIN ent) \X Nat \X Nat : u[2] \in DOMAIN ent[u[1]].parts}
Written == [parts : Kind, n : Nat]
Line == [loc : Nat, len : Int]

(* The type invariant. *)
RecTypeOK ==
  /\ entry \in Seq(Written)
  /\ file \in Seq(UnitOf(entry)) /\ out \in Seq(UnitOf(entry))
  /\ phase \in {"write", "verify", "edit", "clean", "stopped", "aborted"}
  /\ prev \in Nat \ {0} /\ prevprev \in Nat \ {0} /\ curr \in Nat \ {0}
  /\ bad \in Seq(Line)

LEMMA SizeType ==
  ASSUME NEW t \in Type PROVE Size[t] \in Nat \ {0}
BY RecordsAssumption

LEMMA RoomType == Room \in Nat
<1>1. {"csa", "mem", "io", "delay"} \subseteq Type BY DEF Type, Linked
<1> QED BY <1>1, SizeType DEF Room

LEMMA KindType ==
  ASSUME NEW k \in Kind
  PROVE k \in Seq(Type) /\ Len(k) \in Nat \ {0} /\ DOMAIN k = 1..Len(k)
        /\ \A p \in DOMAIN k : k[p] \in Type /\ Size[k[p]] \in Nat \ {0}
<1>1. k \in Seq(Type) /\ Len(k) > 0 BY RecordsAssumption
<1>2. Len(k) \in Nat \ {0} /\ DOMAIN k = 1..Len(k) BY <1>1
<1>3. ASSUME NEW p \in DOMAIN k PROVE k[p] \in Type BY <1>1
<1> QED BY <1>1, <1>2, <1>3, SizeType

LEMMA UnitOfEarlier ==
  ASSUME NEW ent \in Seq(Written), NEW w \in Written
  PROVE UnitOf(ent) \subseteq UnitOf(Append(ent, w))
<1> DEFINE later == Append(ent, w)
<1>1. DOMAIN ent = 1..Len(ent) /\ Len(ent) \in Nat /\ DOMAIN later = 1..(Len(ent) + 1)
      /\ \A e \in DOMAIN ent : later[e] = ent[e]
  BY AppendProperties
<1> HIDE DEF later
<1>2. ASSUME NEW u \in UnitOf(ent) PROVE u \in UnitOf(later)
  <2>1. u \in (DOMAIN ent) \X Nat \X Nat /\ u[2] \in DOMAIN ent[u[1]].parts BY DEF UnitOf
  <2>2. u[1] \in DOMAIN ent BY <2>1
  <2>3. later[u[1]] = ent[u[1]] BY <1>1, <2>2
  <2>4. DOMAIN ent \subseteq DOMAIN later BY <1>1
  <2>5. u \in (DOMAIN later) \X Nat \X Nat BY <2>1, <2>4
  <2> QED BY <2>1, <2>3, <2>5 DEF UnitOf
<1> QED BY <1>2 DEF later

LEMMA WholeType ==
  ASSUME NEW e \in Nat, NEW parts \in Kind
  PROVE Whole(e, parts) \in Seq({e} \X (DOMAIN parts) \X Nat)
<1> DEFINE R == {e} \X (DOMAIN parts) \X Nat
           piece(p) == [k \in 1..Size[parts[p]] |-> <<e, p, k>>]
           ss == [p \in DOMAIN parts |-> piece(p)]
<1>1. ASSUME NEW p \in DOMAIN parts PROVE piece(p) \in Seq(R)
  <2>1. Size[parts[p]] \in Nat BY KindType
  <2>2. ASSUME NEW k \in 1..Size[parts[p]] PROVE <<e, p, k>> \in R BY <2>1
  <2> DEFINE N == Size[parts[p]]
  <2> HIDE DEF N, R
  <2>3. [k \in 1..N |-> <<e, p, k>>] \in Seq(R) BY <2>1, <2>2 DEF N
  <2> QED BY <2>3 DEF N
<1>2. ss \in Seq(Seq(R))
  <2>1. DOMAIN parts = 1..Len(parts) /\ Len(parts) \in Nat BY KindType
  <2> HIDE DEF piece, R
  <2>2. [p \in 1..Len(parts) |-> piece(p)] \in Seq(Seq(R)) BY <1>1, <2>1
  <2> QED BY <2>1, <2>2
<1>3. Whole(e, parts) = FlattenSeq(ss) BY DEF Whole
<1> HIDE DEF ss, R
<1>4. FlattenSeq(ss) \in Seq(R) BY <1>2, FlattenType
<1> QED BY <1>3, <1>4 DEF R

LEMMA TypeAtType ==
  ASSUME RecTypeOK, NEW q \in 1..Len(file)
  PROVE TypeAt(q) \in Type /\ Size[TypeAt(q)] \in Nat \ {0}
<1>1. file[q] \in UnitOf(entry) BY DEF RecTypeOK
<1>2. file[q][1] \in DOMAIN entry /\ file[q][2] \in DOMAIN entry[file[q][1]].parts BY <1>1 DEF UnitOf
<1>3. entry[file[q][1]] \in Written BY <1>2 DEF RecTypeOK
<1>4. entry[file[q][1]].parts \in Kind BY <1>3 DEF Written
<1> QED BY <1>2, <1>4, KindType DEF TypeAt

(***************************************************************************)
(* Reading                                                                 *)
(***************************************************************************)
(* readpacct() finds the end of the file, an error, or as many units as    *)
(* there are and the buffer holds.                                         *)
LEMMA ReadPacctFacts ==
  ASSUME RecTypeOK, NEW q \in 1..(Len(file) + 1), NEW room \in Nat, NEW n, n = ReadPacct(q, room)
  PROVE /\ n \in {0, -1, -3} \/ (n \in 1..room /\ q + n <= Len(file) + 1)
        /\ n = 0 <=> q = Len(file) + 1
<1>0. Len(file) \in Nat BY DEF RecTypeOK
<1>1. CASE q > Len(file)
  BY <1>0, <1>1 DEF ReadPacct
<1>2. CASE q <= Len(file)
  <2> DEFINE m == Min({room, Size[TypeAt(q)]})
  <2>1. Size[TypeAt(q)] \in Nat \ {0} BY <1>0, <1>2, TypeAtType
  <2>2. room # 0 => m \in 1..room
    <3>1. m \in Nat /\ m \in {room, Size[TypeAt(q)]} /\ m <= room BY <2>1, MinOfTwo
    <3> HIDE DEF m
    <3> QED BY <2>1, <3>1
  <2>3. ReadPacct(q, room) = IF ~Header(q) \/ room = 0 THEN -1 ELSE IF q + m - 1 > Len(file) THEN -3 ELSE m
    BY <1>0, <1>2 DEF ReadPacct
  <2> HIDE DEF m
  <2> QED BY <1>0, <1>2, <2>2, <2>3
<1> QED BY <1>0, <1>1, <1>2

(* One turn of readacctent(), given what the later turns return. *)
ReadTurn(f, q) ==
  [n \in 0..Room |->
    LET size == ReadPacct(q, Room - n)
    IN IF size <= 0 THEN [ret |-> size, recs |-> <<>>, end |-> q]
       ELSE IF ~More(q) THEN [ret |-> n + size, recs |-> <<q>>, end |-> q + size]
       ELSE LET rest == f[q + size][n + size]
            IN [ret |-> rest.ret, recs |-> <<q>> \o rest.recs, end |-> rest.end]]

(* It looks only at what later turns return, so the recursion ends. *)
LEMMA ReadTurnLater ==
  ASSUME RecTypeOK, NEW q \in 1..(Len(file) + 1), NEW f, NEW g,
         \A h \in (q + 1)..(Len(file) + 1) : f[h] = g[h]
  PROVE ReadTurn(f, q) = ReadTurn(g, q)
<1>1. ASSUME NEW n \in 0..Room, ReadPacct(q, Room - n) > 0
      PROVE f[q + ReadPacct(q, Room - n)] = g[q + ReadPacct(q, Room - n)]
  <2>0. Room \in Nat /\ Len(file) \in Nat BY RoomType DEF RecTypeOK
  <2>1. Room - n \in Nat BY <2>0
  <2>2. PICK m : m = ReadPacct(q, Room - n) OBVIOUS
  <2>3. m \in {0, -1, -3} \/ (m \in 1..(Room - n) /\ q + m <= Len(file) + 1) BY <2>1, <2>2, ReadPacctFacts
  <2>4. m > 0 BY <1>1, <2>2
  <2>5. q + m \in (q + 1)..(Len(file) + 1) BY <2>0, <2>1, <2>3, <2>4
  <2> QED BY <2>2, <2>5
<1>2. ASSUME NEW n \in 0..Room PROVE ReadTurn(f, q)[n] = ReadTurn(g, q)[n]
  <2>0. Room \in Nat BY RoomType
  <2> DEFINE size == ReadPacct(q, Room - n)
  <2>1. size > 0 => f[q + size] = g[q + size] BY <1>1
  <2>2. ~(size <= 0) => size > 0
    <3>1. Room - n \in Nat BY <2>0
    <3>2. PICK m : m = ReadPacct(q, Room - n) OBVIOUS
    <3>3. m \in {0, -1, -3} \/ m \in 1..(Room - n) BY <3>1, <3>2, ReadPacctFacts
    <3>4. ~(m <= 0) => m > 0 BY <3>1, <3>3
    <3> QED BY <3>2, <3>4
  <2> DEFINE B(r) == IF size <= 0 THEN [ret |-> size, recs |-> <<>>, end |-> q]
                     ELSE IF ~More(q) THEN [ret |-> n + size, recs |-> <<q>>, end |-> q + size]
                     ELSE LET rest == r[q + size][n + size]
                          IN [ret |-> rest.ret, recs |-> <<q>> \o rest.recs, end |-> rest.end]
  <2>3. ReadTurn(f, q)[n] = B(f) /\ ReadTurn(g, q)[n] = B(g) BY DEF ReadTurn
  <2> HIDE DEF size
  <2>4. B(f) = B(g) BY <2>1, <2>2, Zenon
  <2> QED BY <2>3, <2>4
<1>3. DOMAIN ReadTurn(f, q) = 0..Room /\ DOMAIN ReadTurn(g, q) = 0..Room BY DEF ReadTurn
<1>4. ReadTurn(f, q) = [n \in 0..Room |-> ReadTurn(f, q)[n]] BY DEF ReadTurn
<1>5. ReadTurn(g, q) = [n \in 0..Room |-> ReadTurn(g, q)[n]] BY DEF ReadTurn
<1> QED BY <1>2, <1>4, <1>5

LEMMA ReadExists ==
  ASSUME RecTypeOK
  PROVE \E f : f = [q \in 1..(Len(file) + 1) |-> ReadTurn(f, q)]
<1> DEFINE L == Len(file)
           P(k) == \E f : f = [q \in (L + 2 - k)..(L + 1) |-> ReadTurn(f, q)]
           T == {k \in 0..(L + 1) : ~P(k)}
<1>0. L \in Nat BY DEF RecTypeOK
<1>1. P(0)
  <2> DEFINE f == [q \in (L + 2)..(L + 1) |-> q]
             g == [q \in (L + 2)..(L + 1) |-> ReadTurn(f, q)]
  <2>1. \A q \in (L + 2)..(L + 1) : f[q] = g[q] BY <1>0
  <2>2. f = g BY <2>1
  <2>3. L + 2 - 0 = L + 2 BY <1>0
  <2> QED BY <2>2, <2>3
<1>2. ASSUME NEW k \in 1..(L + 1), P(k - 1) PROVE P(k)
  <2> DEFINE b == L + 2 - k
  <2>0. b \in 1..(L + 1) /\ L + 2 - (k - 1) = b + 1 BY <1>0
  <2>1. PICK f : f = [q \in (b + 1)..(L + 1) |-> ReadTurn(f, q)] BY <1>2, <2>0
  <2> HIDE DEF b
  <2> DEFINE g == [q \in b..(L + 1) |-> IF q = b THEN ReadTurn(f, q) ELSE f[q]]
  <2>2. ASSUME NEW q \in b..(L + 1) PROVE g[q] = ReadTurn(g, q)
    <3>1. ASSUME NEW h \in (q + 1)..(L + 1) PROVE g[h] = f[h]
      <4>1. h \in b..(L + 1) /\ h # b BY <1>0, <2>0
      <4> QED BY <4>1
    <3>2. q \in 1..(L + 1) BY <1>0, <2>0
    <3>3. ReadTurn(g, q) = ReadTurn(f, q)
      <4> HIDE DEF g
      <4> QED BY <3>1, <3>2, ReadTurnLater
    <3>4. q # b => q \in (b + 1)..(L + 1) BY <1>0, <2>0
    <3>5. q # b => f[q] = ReadTurn(f, q) BY <3>4, <2>1
    <3>6. g[q] = IF q = b THEN ReadTurn(f, q) ELSE f[q] OBVIOUS
    <3> QED BY <3>3, <3>5, <3>6
  <2>3. g = [q \in b..(L + 1) |-> ReadTurn(g, q)] BY <2>2
  <2> QED BY <2>3 DEF b
<1>3. T = {}
  <2>1. SUFFICES ASSUME T # {} PROVE FALSE OBVIOUS
  <2>2. T \in SUBSET Nat BY <1>0
  <2> HIDE DEF P
  <2>3. PICK k \in T : \A j \in T : k <= j
    <3> HIDE DEF T
    <3> QED BY <2>1, <2>2, MinExists
  <2>4. k \in 0..(L + 1) /\ ~P(k) OBVIOUS
  <2>5. k # 0 BY <1>1, <2>4
  <2>6. k - 1 \in 0..(L + 1) /\ ~(k <= k - 1) /\ k \in 1..(L + 1) BY <1>0, <2>4, <2>5
  <2>7. P(k - 1) BY <2>3, <2>6
  <2> QED BY <1>2, <2>4, <2>6, <2>7
<1>4. P(L + 1)
  <2> HIDE DEF P
  <2> QED BY <1>0, <1>3
<1>5. L + 2 - (L + 1) = 1 BY <1>0
<1> QED BY <1>4, <1>5

LEMMA ReadAcctentDef ==
  ASSUME RecTypeOK
  PROVE ReadAcctent = [q \in 1..(Len(file) + 1) |-> ReadTurn(ReadAcctent, q)]
<1>1. ReadAcctent = CHOOSE f : f = [q \in 1..(Len(file) + 1) |-> ReadTurn(f, q)]
  BY DEF ReadAcctent, ReadTurn
<1> QED BY <1>1, ReadExists

(* What a read from q returns: the end of the file, an error, or an entry  *)
(* that begins at q, takes at least a unit and lies in the file.           *)
EntryRead(q, a) ==
  /\ a.ret \in Int /\ a.recs \in Seq(Nat)
  /\ a.ret \in {0, -1, -3} \/ a.ret > 0
  /\ a.ret > 0 => a.end \in (q + 1)..(Len(file) + 1) /\ Len(a.recs) > 0 /\ a.recs[1] = q

LEMMA ReadTurnFacts ==
  ASSUME RecTypeOK, NEW q \in 1..(Len(file) + 1), NEW f, NEW n \in 0..Room,
         \A h \in (q + 1)..(Len(file) + 1) : \A m \in 0..Room : EntryRead(h, f[h][m])
  PROVE EntryRead(q, ReadTurn(f, q)[n]) /\ (q = Len(file) + 1 <=> ReadPacct(q, Room - n) = 0)
<1>0. Room \in Nat /\ Len(file) \in Nat /\ Room - n \in Nat BY RoomType DEF RecTypeOK
<1>1. PICK size : size = ReadPacct(q, Room - n) OBVIOUS
<1>2. /\ size \in {0, -1, -3} \/ (size \in 1..(Room - n) /\ q + size <= Len(file) + 1)
      /\ size = 0 <=> q = Len(file) + 1
  BY <1>0, <1>1, ReadPacctFacts
<1>3. ReadTurn(f, q)[n] =
        IF size <= 0 THEN [ret |-> size, recs |-> <<>>, end |-> q]
        ELSE IF ~More(q) THEN [ret |-> n + size, recs |-> <<q>>, end |-> q + size]
        ELSE LET rest == f[q + size][n + size]
             IN [ret |-> rest.ret, recs |-> <<q>> \o rest.recs, end |-> rest.end]
  BY <1>1 DEF ReadTurn
<1>4. CASE size <= 0
  <2>1. ReadTurn(f, q)[n] = [ret |-> size, recs |-> <<>>, end |-> q] BY <1>3, <1>4
  <2>2. size \in {0, -1, -3} BY <1>0, <1>2, <1>4
  <2>3. << >> \in Seq(Nat) OBVIOUS
  <2> QED BY <1>1, <1>2, <2>1, <2>2, <2>3 DEF EntryRead
<1>5. CASE ~(size <= 0) /\ ~More(q)
  <2>1. ReadTurn(f, q)[n] = [ret |-> n + size, recs |-> <<q>>, end |-> q + size] BY <1>3, <1>5
  <2>2. size \in 1..(Room - n) /\ q + size <= Len(file) + 1 BY <1>0, <1>2, <1>5
  <2>3. n + size \in Int /\ n + size > 0 /\ q + size \in (q + 1)..(Len(file) + 1) BY <1>0, <2>2
  <2>4. <<q>> \in Seq(Nat) /\ Len(<<q>>) > 0 /\ <<q>>[1] = q BY <1>0
  <2> QED BY <1>1, <1>2, <2>1, <2>3, <2>4 DEF EntryRead
<1>6. CASE ~(size <= 0) /\ More(q)
  <2>2. size \in 1..(Room - n) /\ q + size <= Len(file) + 1 BY <1>0, <1>2, <1>6
  <2>3. q + size \in (q + 1)..(Len(file) + 1) /\ n + size \in 0..Room BY <1>0, <2>2
  <2>4. PICK rest : rest = f[q + size][n + size] OBVIOUS
  <2>5. EntryRead(q + size, rest) BY <2>3, <2>4
  <2>6. ReadTurn(f, q)[n] = [ret |-> rest.ret, recs |-> <<q>> \o rest.recs, end |-> rest.end]
    BY <1>3, <1>6, <2>4
  <2>7. PICK recs \in Seq(Nat) : recs = rest.recs BY <2>5 DEF EntryRead
  <2>8. <<q>> \in Seq(Nat) /\ Len(<<q>>) = 1 /\ <<q>>[1] = q BY <1>0
  <2>9. <<q>> \o recs \in Seq(Nat) /\ Len(<<q>> \o recs) > 0 /\ (<<q>> \o recs)[1] = q
    BY <2>8, ConcatProperties
  <2>10. rest.ret > 0 => rest.end \in (q + 1)..(Len(file) + 1)
    <3>1. rest.ret > 0 => rest.end \in (q + size + 1)..(Len(file) + 1) BY <2>5 DEF EntryRead
    <3> QED BY <1>0, <2>2, <3>1
  <2>11. rest.ret \in Int /\ (rest.ret \in {0, -1, -3} \/ rest.ret > 0) BY <2>5 DEF EntryRead
  <2>12. PICK a : a = ReadTurn(f, q)[n] OBVIOUS
  <2>13. a.ret = rest.ret /\ a.recs = <<q>> \o recs /\ a.end = rest.end BY <2>6, <2>7, <2>12
  <2>14. EntryRead(q, a) BY <2>9, <2>10, <2>11, <2>13 DEF EntryRead
  <2> QED BY <1>1, <1>2, <2>12, <2>14
<1> QED BY <1>4, <1>5, <1>6

LEMMA ReadAllFacts ==
  ASSUME RecTypeOK, NEW q \in 1..(Len(file) + 1), NEW n \in 0..Room
  PROVE EntryRead(q, ReadAcctent[q][n])
<1> DEFINE L == Len(file)
           P(h) == \A m \in 0..Room : EntryRead(h, ReadAcctent[h][m])
           T == {k \in 0..L : ~P(L + 1 - k)}
<1>0. L \in Nat BY DEF RecTypeOK
<1>1. ASSUME NEW h \in 1..(L + 1), \A i \in (h + 1)..(L + 1) : P(i) PROVE P(h)
  <2>1. ASSUME NEW m \in 0..Room PROVE EntryRead(h, ReadAcctent[h][m])
    <3>1. ReadAcctent[h] = ReadTurn(ReadAcctent, h) BY ReadAcctentDef
    <3>2. EntryRead(h, ReadTurn(ReadAcctent, h)[m]) BY <1>1, ReadTurnFacts
    <3> QED BY <3>1, <3>2
  <2> QED BY <2>1
<1> HIDE DEF P
<1>2. T = {}
  <2>1. SUFFICES ASSUME T # {} PROVE FALSE OBVIOUS
  <2>2. T \in SUBSET Nat BY <1>0
  <2>3. PICK k \in T : \A j \in T : k <= j
    <3> HIDE DEF T
    <3> QED BY <2>1, <2>2, MinExists
  <2>4. k \in 0..L /\ ~P(L + 1 - k) OBVIOUS
  <2>5. ASSUME NEW i \in (L + 1 - k + 1)..(L + 1) PROVE P(i)
    <3>1. L + 1 - i \in 0..L /\ ~(k <= L + 1 - i) /\ L + 1 - (L + 1 - i) = i BY <1>0, <2>4
    <3>2. L + 1 - i \notin T BY <2>3, <3>1
    <3> QED BY <3>1, <3>2
  <2>6. L + 1 - k \in 1..(L + 1) BY <1>0, <2>4
  <2> QED BY <1>1, <2>4, <2>5, <2>6
<1>3. P(q)
  <2>1. L + 1 - q \in 0..L /\ L + 1 - (L + 1 - q) = q BY <1>0
  <2>2. L + 1 - q \notin T BY <1>2
  <2> QED BY <2>1, <2>2
<1> QED BY <1>3 DEF P

(* What csaverify and csaedit go by. *)
LEMMA ReadFacts ==
  ASSUME RecTypeOK, NEW q \in 1..(Len(file) + 1)
  PROVE EntryRead(q, Read(q)) /\ (q = Len(file) + 1 => Read(q).ret = 0)
<1>0. Room \in Nat /\ 0 \in 0..Room /\ Room - 0 = Room BY RoomType
<1>1. EntryRead(q, Read(q)) BY <1>0, ReadAllFacts DEF Read
<1>2. ASSUME q = Len(file) + 1 PROVE Read(q).ret = 0
  <2>1. ReadPacct(q, Room) = 0 BY <1>0, <1>2, ReadPacctFacts
  <2>2. Read(q) = ReadTurn(ReadAcctent, q)[0] BY ReadAcctentDef DEF Read
  <2>3. Read(q) = [ret |-> 0, recs |-> <<>>, end |-> q] BY <1>0, <2>1, <2>2 DEF ReadTurn
  <2> QED BY <2>3
<1> QED BY <1>1, <1>2

(* The file is read alike as long as neither it nor the entries change. *)
LEMMA ReadUnchanged ==
  ASSUME UNCHANGED <<file, entry>>
  PROVE ReadAcctent' = ReadAcctent
BY DEF ReadAcctent, ReadPacct, Header, TypeAt, More

(***************************************************************************)
(* The inductive invariant                                                 *)
(***************************************************************************)
(* The lines of the offset file: each ends before the next, in the file. *)
InOrder(lines) ==
  \A i, k \in DOMAIN lines : i < k => lines[i].len > 0 /\ lines[i].loc + lines[i].len <= lines[k].loc
Placed(lines) == \A i \in DOMAIN lines : lines[i].loc \in 1..Len(file)
LastLine == bad[Len(bad)]

AtStart == prev = 1 /\ prevprev = 1 /\ bad = <<>> /\ curr = 1 /\ out = <<>>

(* csaverify has noted nothing behind the place where it reads.  A line    *)
(* without length is one that the next turn replaces.                      *)
Reading ==
  /\ prevprev <= prev /\ prev <= Len(file) + 1
  /\ curr = 1 /\ out = <<>>
  /\ bad # <<>> =>
       /\ LastLine.len >= 0 /\ LastLine.loc + LastLine.len <= prev
       /\ LastLine.loc = prevprev \/ LastLine.loc + LastLine.len <= prevprev
       /\ LastLine.len = 0 => LastLine.loc = prev /\ prev = prevprev /\ Read(prev).ret = -1

(* csaedit has copied less than it went through, and what remains of the   *)
(* offset file is ahead of it.                                             *)
Editing ==
  /\ curr <= Len(file) + 1 /\ Len(out) <= curr - 1
  /\ bad = <<>> => Len(out) < curr - 1
  /\ \A i \in DOMAIN bad :
       /\ curr <= bad[i].loc
       /\ \/ bad[i].len > 0 /\ bad[i].loc + bad[i].len <= Len(file) + 1
          \/ bad[i].len = EndOfFile /\ i = Len(bad)

RecInv ==
  /\ RecTypeOK
  /\ InOrder(bad) /\ Placed(bad)
  /\ phase = "write" => AtStart
  /\ phase = "verify" => Reading
  /\ phase = "edit" => Editing
  /\ phase # "aborted"

(* What a turn of csaverify does unless it is the last. *)
Onward ==
  \/ prevprev' > prevprev
  \/ prevprev' = prevprev /\ prev' > prevprev /\ (prev' < prev \/ prev = prevprev)

(***************************************************************************)
(* csaverify                                                               *)
(***************************************************************************)
(* A line that is noted replaces the last or comes after it. *)
LEMMA NoteFacts ==
  ASSUME RecTypeOK, InOrder(bad), Placed(bad), NEW loc \in 1..Len(file), NEW len \in Int,
         bad # <<>> /\ LastLine.loc # loc => LastLine.len > 0 /\ LastLine.loc + LastLine.len <= loc,
         NEW w, w = Note(loc, len)
  PROVE /\ w \in Seq(Line) /\ w # <<>> /\ Len(w) \in Nat \ {0} /\ w[Len(w)] = [loc |-> loc, len |-> len]
        /\ InOrder(w) /\ Placed(w)
<1> DEFINE line == [loc |-> loc, len |-> len]
<1>0. bad \in Seq(Line) /\ Len(bad) \in Nat /\ DOMAIN bad = 1..Len(bad) /\ Len(file) \in Nat BY DEF RecTypeOK
<1>1. line \in Line BY <1>0 DEF Line
<1>2. line.loc = loc /\ line.len = len OBVIOUS
<1> HIDE DEF line
<1>3. \A i \in DOMAIN bad : bad[i].loc \in Int /\ bad[i].len \in Int
  <2>1. \A i \in DOMAIN bad : bad[i] \in Line BY <1>0
  <2>2. \A r \in Line : r.loc \in Int /\ r.len \in Int BY DEF Line
  <2> QED BY <2>1, <2>2
<1> DEFINE Kept(f) ==
        /\ w = Append(f, line) /\ Len(f) <= Len(bad)
        /\ \A i \in 1..Len(f) : f[i] = bad[i]
        /\ Len(f) = Len(bad) => bad = <<>> \/ LastLine.loc # loc
        /\ Len(f) < Len(bad) => Len(f) = Len(bad) - 1 /\ LastLine.loc = loc
<1>40. \E front \in Seq(Line) : Kept(front)
  <2>1. CASE bad # <<>> /\ Last(bad).loc = loc
    <3>1. Len(bad) # 0 BY <1>0, <2>1, EmptySeq
    <3>2. Front(bad) = SubSeq(bad, 1, Len(bad) - 1) BY DEF Front
    <3>3. PICK front : front = Front(bad) OBVIOUS
    <3>4. front \in Seq(Line) /\ Len(front) = Len(bad) - 1 /\ \A i \in 1..Len(front) : front[i] = bad[i]
      <4>1. \A i \in 1..(Len(bad) - 1) : bad[i] \in Line BY <1>0
      <4>2. 1 \in 1..(Len(bad) + 1) /\ Len(bad) - 1 \in 0..Len(bad) BY <1>0, <3>1
      <4>3. /\ SubSeq(bad, 1, Len(bad) - 1) \in Seq(Line)
            /\ Len(SubSeq(bad, 1, Len(bad) - 1)) = Len(bad) - 1
            /\ \A i \in 1..(Len(bad) - 1) : SubSeq(bad, 1, Len(bad) - 1)[i] = bad[i]
        BY <1>0, <3>1, <4>2, SubSeqProperties
      <4> QED BY <3>2, <3>3, <4>3
    <3>5. w = Append(front, line) BY <2>1, <3>3 DEF Note, line
    <3>6. LastLine.loc = loc BY <2>1 DEF LastLine, Last
    <3>70. Len(front) = Len(bad) - 1 BY <3>4
    <3>71. Len(bad) \in Nat BY <1>0
    <3>7. Len(front) <= Len(bad) /\ Len(front) # Len(bad) BY <3>70, <3>71
    <3>8. Kept(front) BY <3>4, <3>5, <3>6, <3>7, Zenon
    <3> HIDE DEF Kept
    <3> QED BY <3>4, <3>8
  <2>2. CASE ~(bad # <<>> /\ Last(bad).loc = loc)
    <3>1. w = Append(bad, line) BY <2>2 DEF Note, line
    <3>2. bad = <<>> \/ LastLine.loc # loc BY <2>2 DEF LastLine, Last
    <3>3. Len(bad) <= Len(bad) /\ ~(Len(bad) < Len(bad)) BY <1>0
    <3>4. Kept(bad) BY <3>1, <3>2, <3>3, Zenon
    <3> HIDE DEF Kept
    <3> QED BY <1>0, <3>4
  <2> QED BY <2>1, <2>2
<1>4. PICK front \in Seq(Line) : Kept(front) BY <1>40
<1>41. Len(front) \in Nat /\ Len(front) <= Len(bad) BY <1>4
<1>5. /\ w \in Seq(Line) /\ Len(w) = Len(front) + 1 /\ w[Len(front) + 1] = line
      /\ \A i \in 1..Len(front) : w[i] = front[i]
  BY <1>1, <1>4, AppendProperties
<1>6. Len(front) \in Nat /\ DOMAIN w = 1..(Len(front) + 1) BY <1>5
<1>7. w # <<>> BY <1>5, <1>6, EmptySeq
<1>8. ASSUME NEW i \in 1..Len(front) PROVE i \in DOMAIN bad /\ w[i] = bad[i] /\ bad[i].len > 0 /\ bad[i].loc + bad[i].len <= loc
  <2>0. i \in DOMAIN bad BY <1>0, <1>41
  <2>1. i \in DOMAIN bad /\ w[i] = bad[i] BY <2>0, <1>4, <1>5
  <2>2. bad # <<>> /\ Len(bad) \in DOMAIN bad BY <1>0, <2>1
  <2>3. CASE Len(front) = Len(bad)
    <3>1. LastLine.len > 0 /\ LastLine.loc + LastLine.len <= loc BY <1>4, <2>2, <2>3
    <3>2. i # Len(bad) => bad[i].len > 0 /\ bad[i].loc + bad[i].len <= LastLine.loc
      BY <1>0, <2>1, <2>2 DEF InOrder, LastLine
    <3>3. LastLine.loc \in Int /\ LastLine.len \in Int /\ bad[i].loc \in Int /\ bad[i].len \in Int
      BY <1>3, <2>1, <2>2 DEF LastLine
    <3> QED BY <1>0, <2>1, <3>1, <3>2, <3>3 DEF LastLine
  <2>4. CASE Len(front) < Len(bad)
    <3>1. i < Len(bad) /\ LastLine.loc = loc BY <1>0, <1>4, <1>6, <2>4
    <3> QED BY <2>1, <2>2, <3>1 DEF InOrder, LastLine
  <2>5. Len(front) = Len(bad) \/ Len(front) < Len(bad) BY <1>0, <1>41
  <2> QED BY <2>1, <2>3, <2>4, <2>5
<1>9. InOrder(w)
  <2>1. SUFFICES ASSUME NEW i \in DOMAIN w, NEW k \in DOMAIN w, i < k
                 PROVE w[i].len > 0 /\ w[i].loc + w[i].len <= w[k].loc
    BY Zenon DEF InOrder
  <2>2. i \in 1..Len(front) BY <1>6, <2>1
  <2>3. CASE k \in 1..Len(front)
    <3>1. w[i] = bad[i] /\ w[k] = bad[k] /\ i \in DOMAIN bad /\ k \in DOMAIN bad BY <1>8, <2>2, <2>3
    <3> QED BY <2>1, <3>1 DEF InOrder
  <2>4. CASE k = Len(front) + 1
    BY <1>2, <1>5, <1>8, <2>2, <2>4
  <2> QED BY <1>6, <2>3, <2>4
<1>10. Placed(w)
  <2>1. \A i \in 1..Len(front) : w[i].loc \in 1..Len(file) BY <1>8 DEF Placed
  <2>2. w[Len(front) + 1].loc \in 1..Len(file) BY <1>2, <1>5
  <2> QED BY <1>6, <2>1, <2>2 DEF Placed
<1> QED BY <1>5, <1>6, <1>7, <1>9, <1>10 DEF line

(* The offset file grows by a line: csaverify gives up at prev ... *)
LEMMA QuitKeeps ==
  ASSUME RecInv, phase = "verify", prev <= Len(file), Quit(prev), UNCHANGED <<entry, file, curr, out>>
  PROVE RecInv' /\ phase' = "edit"
<1>0. RecTypeOK /\ InOrder(bad) /\ Placed(bad) /\ Reading /\ Len(file) \in Nat /\ prev \in 1..Len(file)
  BY DEF RecInv, RecTypeOK
<1>1. bad # <<>> /\ LastLine.loc # prev => LastLine.len > 0 /\ LastLine.loc + LastLine.len <= prev
  <2>1. ASSUME bad # <<>> PROVE LastLine.len \in Int
    <3>1. Len(bad) \in DOMAIN bad /\ bad \in Seq(Line) BY <1>0, <2>1, EmptySeq DEF RecTypeOK
    <3>2. LastLine \in Line BY <3>1 DEF LastLine
    <3> QED BY <3>2 DEF Line
  <2> QED BY <1>0, <2>1 DEF Reading
<1>2. PICK w : w = Note(prev, EndOfFile) OBVIOUS
<1>3. bad' = w /\ phase' = "edit" /\ UNCHANGED <<prev, prevprev>> BY <1>2 DEF Quit
<1>4. /\ w \in Seq(Line) /\ w # <<>> /\ Len(w) \in Nat \ {0} /\ w[Len(w)] = [loc |-> prev, len |-> EndOfFile]
      /\ InOrder(w) /\ Placed(w)
  <2>1. EndOfFile \in Int BY DEF EndOfFile
  <2> QED BY <1>0, <1>1, <1>2, <2>1, NoteFacts
<1>5. RecTypeOK' BY <1>0, <1>3, <1>4 DEF RecTypeOK
<1>6. InOrder(bad)' /\ Placed(bad)' BY <1>3, <1>4 DEF InOrder, Placed
<1>7. Editing'
  <2>1. curr = 1 /\ out = <<>> BY <1>0 DEF Reading
  <2>2. curr' = 1 /\ out' = <<>> /\ Len(file') = Len(file) /\ bad' = w BY <1>3, <2>1
  <2>3. ASSUME NEW i \in DOMAIN w
        PROVE /\ 1 <= w[i].loc
              /\ (w[i].len > 0 /\ w[i].loc + w[i].len <= Len(file) + 1) \/ (w[i].len = EndOfFile /\ i = Len(w))
    <3>1. DOMAIN w = 1..Len(w) /\ Len(w) \in DOMAIN w BY <1>4
    <3>2. w[i].loc \in 1..Len(file) /\ w[Len(w)].loc \in 1..Len(file) BY <1>4, <3>1 DEF Placed
    <3>3. CASE i = Len(w) BY <1>4, <3>2, <3>3
    <3>4. CASE i # Len(w)
      <4>1. i < Len(w) BY <1>4, <3>1, <3>4
      <4>2. w[i].len > 0 /\ w[i].loc + w[i].len <= w[Len(w)].loc BY <1>4, <3>1, <4>1 DEF InOrder
      <4>3. w[i] \in Line BY <1>4
      <4>4. w[i].len \in Int /\ w[i].loc \in Int BY <4>3 DEF Line
      <4>5. PICK h : h = w[Len(w)].loc OBVIOUS
      <4>6. h \in 1..Len(file) /\ 1 <= w[i].loc BY <3>2, <4>5
      <4>7. w[i].len > 0 /\ w[i].loc + w[i].len <= h BY <4>2, <4>5
      <4>8. w[i].loc + w[i].len <= Len(file) + 1 BY <1>0, <4>4, <4>6, <4>7
      <4> QED BY <4>6, <4>7, <4>8
    <3> QED BY <3>3, <3>4
  <2>4. Len(<<>>) = 0 OBVIOUS
  <2> QED BY <1>0, <1>4, <2>2, <2>3, <2>4 DEF Editing
<1> QED BY <1>3, <1>5, <1>6, <1>7 DEF RecInv

(* ... or goes on behind what is bad, to q. *)
LEMMA NoteContinue ==
  ASSUME RecInv, phase = "verify", prev <= Len(file), UNCHANGED <<entry, file, curr, out>>,
         NEW from, NEW q \in 1..(Len(file) + 1),
         (from = prev /\ prev <= q) \/ (from = prevprev /\ prevprev < q /\ q < prev),
         q = prev => Read(prev).ret = -1,
         bad' = Note(from, q - from), Continue(from, q)
  PROVE RecInv' /\ phase' = "verify"
<1>0. RecTypeOK /\ InOrder(bad) /\ Placed(bad) /\ Reading /\ Len(file) \in Nat
      /\ prev \in 1..Len(file) /\ prevprev \in 1..Len(file)
  BY DEF RecInv, RecTypeOK, Reading
<1>1. from \in 1..Len(file) /\ q - from \in Nat /\ from <= prev /\ q \in Nat BY <1>0
<1>2. bad # <<>> /\ LastLine.loc # from => LastLine.len > 0 /\ LastLine.loc + LastLine.len <= from
  <2>1. ASSUME bad # <<>> PROVE LastLine.len \in Int
    <3>1. Len(bad) \in DOMAIN bad /\ bad \in Seq(Line) BY <1>0, <2>1, EmptySeq DEF RecTypeOK
    <3>2. LastLine \in Line BY <3>1 DEF LastLine
    <3> QED BY <3>2 DEF Line
  <2>2. bad # <<>> =>
          /\ LastLine.len >= 0 /\ LastLine.loc + LastLine.len <= prev
          /\ LastLine.loc = prevprev \/ LastLine.loc + LastLine.len <= prevprev
          /\ LastLine.len = 0 => LastLine.loc = prev /\ prev = prevprev
    BY <1>0 DEF Reading
  <2> QED BY <1>0, <2>1, <2>2
<1>3. PICK w : w = Note(from, q - from) OBVIOUS
<1>4. bad' = w /\ phase' = "verify" /\ prevprev' = from /\ prev' = q BY <1>3 DEF Continue
<1>5. /\ w \in Seq(Line) /\ w # <<>> /\ Len(w) \in Nat \ {0} /\ w[Len(w)] = [loc |-> from, len |-> q - from]
      /\ InOrder(w) /\ Placed(w)
  <2>1. q - from \in Int BY <1>1
  <2> QED BY <1>0, <1>1, <1>2, <1>3, <2>1, NoteFacts
<1>6. RecTypeOK' BY <1>0, <1>1, <1>4, <1>5 DEF RecTypeOK
<1>7. InOrder(bad)' /\ Placed(bad)' BY <1>4, <1>5 DEF InOrder, Placed
<1>8. Reading'
  <2>1. LastLine' = [loc |-> from, len |-> q - from] BY <1>4, <1>5 DEF LastLine
  <2>2. /\ LastLine'.loc = from /\ LastLine'.len = q - from BY <2>1
  <2>3. ReadAcctent' = ReadAcctent BY ReadUnchanged
  <2>4. Read(prev)' = ReadAcctent'[prev'][0] /\ Read(prev) = ReadAcctent[prev][0] BY DEF Read
  <2>5. q = from => q = prev /\ Read(prev)'.ret = -1 BY <1>0, <1>1, <1>4, <2>3, <2>4
  <2>6. prevprev' <= prev' /\ prev' <= Len(file') + 1 BY <1>1, <1>4
  <2>7. curr' = 1 /\ out' = <<>> BY <1>0 DEF Reading
  <2>8. LastLine'.len >= 0 /\ LastLine'.loc + LastLine'.len <= prev' /\ LastLine'.loc = prevprev'
    BY <1>1, <1>4, <2>2
  <2>9. LastLine'.len = 0 => LastLine'.loc = prev' /\ prev' = prevprev' /\ Read(prev)'.ret = -1
    BY <1>1, <1>4, <2>2, <2>5
  <2> QED BY <2>6, <2>7, <2>8, <2>9 DEF Reading
<1> QED BY <1>4, <1>6, <1>7, <1>8 DEF RecInv

(* Nothing is noted. *)
LEMMA GoOn ==
  ASSUME RecInv, phase = "verify", UNCHANGED <<entry, file, curr, out, bad>>,
         NEW q \in (prev + 1)..(Len(file) + 1), Read(prev).ret # -1, Continue(prev, q)
  PROVE RecInv' /\ phase' = "verify"
<1>0. RecTypeOK /\ InOrder(bad) /\ Placed(bad) /\ Reading /\ Len(file) \in Nat
      /\ prev \in Nat /\ prevprev \in Nat /\ prevprev <= prev
  BY DEF RecInv, RecTypeOK, Reading
<1>1. phase' = "verify" /\ prevprev' = prev /\ prev' = q /\ bad' = bad BY DEF Continue
<1>2. RecTypeOK' BY <1>0, <1>1 DEF RecTypeOK
<1>3. InOrder(bad)' /\ Placed(bad)' BY <1>0, <1>1 DEF InOrder, Placed
<1>4. Reading'
  <2>1. LastLine' = LastLine BY <1>1 DEF LastLine
  <2>2. bad # <<>> =>
          LastLine.len >= 0 /\ LastLine.loc + LastLine.len <= prev /\ LastLine.len # 0
    BY <1>0 DEF Reading
  <2>3. bad # <<>> => LastLine.loc + LastLine.len \in Int
    <3>1. ASSUME bad # <<>> PROVE LastLine \in Line
      <4>1. Len(bad) \in DOMAIN bad /\ bad \in Seq(Line) BY <1>0, <3>1, EmptySeq DEF RecTypeOK
      <4> QED BY <4>1 DEF LastLine
    <3>2. LastLine \in Line => LastLine.loc + LastLine.len \in Int BY DEF Line
    <3> QED BY <3>1, <3>2
  <2>4. bad # <<>> => LastLine.loc + LastLine.len <= q BY <1>0, <2>2, <2>3
  <2>5. prevprev' <= prev' /\ prev' <= Len(file') + 1 BY <1>0, <1>1
  <2>6. curr' = 1 /\ out' = <<>> BY <1>0 DEF Reading
  <2> QED BY <1>1, <2>1, <2>2, <2>4, <2>5, <2>6 DEF Reading
<1> QED BY <1>1, <1>2, <1>3, <1>4 DEF RecInv

LEMMA PrimaryFromFacts ==
  ASSUME RecTypeOK, NEW b \in Nat, PrimaryFrom(b) # {}
  PROVE Min(PrimaryFrom(b)) \in b..Len(file) /\ Primary(Min(PrimaryFrom(b)))
<1>1. Len(file) \in Nat BY DEF RecTypeOK
<1>2. PrimaryFrom(b) \in SUBSET Nat BY <1>1 DEF PrimaryFrom
<1>3. Min(PrimaryFrom(b)) \in PrimaryFrom(b) BY <1>2, MinLeast
<1>4. \A h \in PrimaryFrom(b) : h \in b..Len(file) /\ Primary(h) BY DEF PrimaryFrom
<1> QED BY <1>3, <1>4

(* A turn that does not get beyond prev looks for a header behind the last *)
(* place but one.                                                          *)
LEMMA CheckLastStep ==
  ASSUME RecInv, phase = "verify", prev <= Len(file), CheckLastReadRec, UNCHANGED <<entry, file, curr, out>>,
         Read(prev).ret = -1 \/ ~Primary(prev)
  PROVE RecInv' /\ ((phase' = "verify" /\ Onward) \/ phase' = "edit")
<1>0. RecTypeOK /\ Len(file) \in Nat /\ prev \in 1..Len(file) /\ prevprev \in 1..Len(file) /\ prevprev <= prev
  BY DEF RecInv, RecTypeOK, Reading
<1>1. PICK found : found = PrimaryFrom(prevprev + 1) OBVIOUS
<1>2. CASE found = {}
  <2>1. Quit(prev) BY <1>1, <1>2 DEF CheckLastReadRec
  <2> QED BY <2>1, QuitKeeps
<1>3. CASE found # {}
  <2>1. PICK q : q = Min(found) OBVIOUS
  <2>2. q \in (prevprev + 1)..Len(file) /\ Primary(q) BY <1>0, <1>1, <1>3, <2>1, PrimaryFromFacts
  <2>3. PICK from : from = IF q >= prev THEN prev ELSE prevprev OBVIOUS
  <2>4. bad' = Note(from, q - from) /\ Continue(from, q) BY <1>1, <1>3, <2>1, <2>3 DEF CheckLastReadRec
  <2>5. (from = prev /\ prev <= q) \/ (from = prevprev /\ prevprev < q /\ q < prev)
    <3>1. prevprev < q /\ q \in Int /\ prev \in Int BY <1>0, <2>2
    <3>2. CASE q >= prev
      <4>1. from = prev BY <2>3, <3>2
      <4> QED BY <3>1, <3>2, <4>1
    <3>3. CASE ~(q >= prev)
      <4>1. from = prevprev BY <2>3, <3>3
      <4> QED BY <3>1, <3>3, <4>1
    <3> QED BY <3>2, <3>3
  <2>6. q = prev => Read(prev).ret = -1 BY <2>2
  <2>7. q \in 1..(Len(file) + 1) BY <1>0, <2>2
  <2>8. RecInv' /\ phase' = "verify" BY <2>4, <2>5, <2>6, <2>7, NoteContinue
  <2>9. Onward
    <3>1. prevprev' = from /\ prev' = q BY <2>4 DEF Continue
    <3> QED BY <1>0, <2>2, <2>5, <3>1 DEF Onward
  <2> QED BY <2>8, <2>9
<1> QED BY <1>2, <1>3

LEMMA IllegallyLinkedStep ==
  ASSUME RecInv, phase = "verify", prev <= Len(file), IllegallyLinked, UNCHANGED <<entry, file, curr, out>>
  PROVE RecInv' /\ ((phase' = "verify" /\ Onward) \/ phase' = "edit")
<1>0. RecTypeOK /\ Len(file) \in Nat /\ prev \in 1..Len(file) /\ prevprev \in 1..Len(file) /\ prevprev <= prev
  BY DEF RecInv, RecTypeOK, Reading
<1>1. PICK found : found = PrimaryFrom(prev + 1) OBVIOUS
<1>2. CASE found = {}
  <2>1. Quit(prev) BY <1>1, <1>2 DEF IllegallyLinked
  <2> QED BY <2>1, QuitKeeps
<1>3. CASE found # {}
  <2>1. PICK q : q = Min(found) OBVIOUS
  <2>2. q \in (prev + 1)..Len(file) BY <1>0, <1>1, <1>3, <2>1, PrimaryFromFacts
  <2>3. bad' = Note(prev, q - prev) /\ Continue(prev, q) BY <1>1, <1>3, <2>1 DEF IllegallyLinked
  <2>4. q \in 1..(Len(file) + 1) /\ prev <= q /\ q # prev BY <1>0, <2>2
  <2>5. RecInv' /\ phase' = "verify"
    <3>1. PICK from : from = prev OBVIOUS
    <3>2. bad' = Note(from, q - from) /\ Continue(from, q) BY <2>3, <3>1
    <3>3. (from = prev /\ prev <= q) \/ (from = prevprev /\ prevprev < q /\ q < prev) BY <2>4, <3>1
    <3>4. q = prev => Read(prev).ret = -1 BY <2>4
    <3>5. q \in 1..(Len(file) + 1) BY <2>4
    <3> QED BY <3>2, <3>3, <3>4, <3>5, NoteContinue
  <2>6. Onward
    <3>1. prevprev' = prev /\ prev' = q BY <2>3 DEF Continue
    <3> QED BY <1>0, <2>2, <3>1 DEF Onward
  <2> QED BY <2>5, <2>6
<1> QED BY <1>2, <1>3

(* An entry was read, from prev to a.end. *)
LEMMA JudgeStep ==
  ASSUME RecInv, phase = "verify", NEW a, a = Read(prev), a.ret > 0, Judge(a), UNCHANGED <<entry, file, curr, out>>
  PROVE RecInv' /\ ((phase' = "verify" /\ Onward) \/ phase' = "edit")
<1>0. RecTypeOK /\ Len(file) \in Nat /\ prev \in 1..(Len(file) + 1) /\ prevprev \in Nat /\ prevprev <= prev
  BY DEF RecInv, RecTypeOK, Reading
<1>1. EntryRead(prev, a) /\ (prev = Len(file) + 1 => a.ret = 0) BY <1>0, ReadFacts
<1>2. a.end \in (prev + 1)..(Len(file) + 1) /\ Prime(a) = prev BY <1>1 DEF EntryRead, Prime
<1>3. prev <= Len(file) BY <1>0, <1>1
<1>4. Continue(prev, a.end) => Onward
  <2>1. Continue(prev, a.end) => prevprev' = prev /\ prev' = a.end BY DEF Continue
  <2> QED BY <1>0, <1>2, <2>1 DEF Onward
<1>5. a.end \in 1..(Len(file) + 1) /\ prev <= a.end /\ a.end # prev BY <1>0, <1>2
<1>6. Read(prev).ret # -1 BY <1>1
<1>7. CASE bad' = Note(prev, a.end - prev) /\ Continue(prev, a.end)
  <2>1. PICK q \in 1..(Len(file) + 1) : q = a.end /\ prev <= q /\ q # prev BY <1>5
  <2>2. bad' = Note(prev, q - prev) /\ Continue(prev, q) BY <1>7, <2>1
  <2>3. RecInv' /\ phase' = "verify"
    <3>1. PICK from : from = prev OBVIOUS
    <3>2. bad' = Note(from, q - from) /\ Continue(from, q) BY <2>2, <3>1
    <3>3. (from = prev /\ prev <= q) \/ (from = prevprev /\ prevprev < q /\ q < prev) BY <2>1, <3>1
    <3>4. q = prev => Read(prev).ret = -1 BY <2>1
    <3> QED BY <1>3, <3>2, <3>3, <3>4, NoteContinue
  <2> QED BY <1>4, <1>7, <2>3
<1>8. CASE TypeAt(Prime(a)) \in Linked /\ CheckLastReadRec
  <2>1. ~Primary(prev) BY <1>2, <1>8 DEF Primary
  <2> QED BY <1>3, <1>8, <2>1, CheckLastStep
<1>9. CASE IllegallyLinked
  BY <1>3, <1>9, IllegallyLinkedStep
<1>10. CASE UNCHANGED bad /\ Continue(prev, a.end)
  <2>1. PICK q \in (prev + 1)..(Len(file) + 1) : q = a.end BY <1>2
  <2>2. Continue(prev, q) BY <1>10, <2>1
  <2>3. RecInv' /\ phase' = "verify" BY <1>6, <1>10, <2>2, GoOn
  <2> QED BY <1>4, <1>10, <2>3
<1>11. \/ bad' = Note(prev, a.end - prev) /\ Continue(prev, a.end)
       \/ TypeAt(Prime(a)) \in Linked /\ CheckLastReadRec
       \/ IllegallyLinked
       \/ UNCHANGED bad /\ Continue(prev, a.end)
  BY Zenon DEF Judge
<1> QED BY <1>7, <1>8, <1>9, <1>10, <1>11

(* A turn of prc_pacct(). *)
LEMMA VerifyStep ==
  ASSUME RecInv, Verify
  PROVE RecInv' /\ ((phase' = "verify" /\ Onward) \/ phase' \in {"edit", "clean"})
<1>0. phase = "verify" /\ UNCHANGED <<entry, file, curr, out>> BY DEF Verify
<1>1. RecTypeOK /\ InOrder(bad) /\ Placed(bad) /\ Reading /\ Len(file) \in Nat /\ prev \in 1..(Len(file) + 1)
  BY <1>0 DEF RecInv, RecTypeOK, Reading
<1>2. PICK a : a = Read(prev) OBVIOUS
<1>3. EntryRead(prev, a) /\ (prev = Len(file) + 1 => a.ret = 0) BY <1>1, <1>2, ReadFacts
<1>4. a.ret \in {0, -1, -3} \/ a.ret > 0 BY <1>3 DEF EntryRead
<1>5. a.ret # 0 => prev <= Len(file) BY <1>1, <1>3
<1>6. CASE a.ret = 0
  <2>1. Verified BY <1>0, <1>2, <1>6 DEF Verify
  <2>2. /\ phase' = (IF bad = <<>> THEN "clean" ELSE "edit") /\ UNCHANGED <<prev, prevprev, bad>>
    BY <2>1 DEF Verified
  <2>3. RecTypeOK' BY <1>0, <1>1, <2>2 DEF RecTypeOK
  <2>4. InOrder(bad)' /\ Placed(bad)' BY <1>0, <1>1, <2>2 DEF InOrder, Placed
  <2>5. bad # <<>> => Editing'
    <3>1. SUFFICES ASSUME bad # <<>> PROVE Editing' OBVIOUS
    <3>2. Len(bad) \in Nat /\ DOMAIN bad = 1..Len(bad) /\ bad \in Seq(Line) BY <1>1 DEF RecTypeOK
    <3>3. Len(bad) \in DOMAIN bad BY <3>1, <3>2, EmptySeq
    <3>4. LastLine \in Line BY <3>2, <3>3 DEF LastLine
    <3>5. LastLine.loc \in Nat /\ LastLine.len \in Int BY <3>4 DEF Line
    <3>6. LastLine.len >= 0 /\ LastLine.loc + LastLine.len <= prev /\ LastLine.len # 0
      BY <1>1, <1>2, <1>6, <3>1 DEF Reading
    <3>7. ASSUME NEW i \in DOMAIN bad
          PROVE 1 <= bad[i].loc /\ bad[i].len > 0 /\ bad[i].loc + bad[i].len <= Len(file) + 1
      <4>1. bad[i].loc \in 1..Len(file) /\ LastLine.loc \in 1..Len(file) BY <1>1, <3>3, <3>7 DEF Placed, LastLine
      <4>2. CASE i = Len(bad)
        <5>1. bad[i] = LastLine BY <4>2 DEF LastLine
        <5>2. LastLine.len > 0 /\ LastLine.loc + LastLine.len <= Len(file) + 1 BY <1>1, <3>5, <3>6
        <5> QED BY <4>1, <5>1, <5>2
      <4>3. CASE i # Len(bad)
        <5>1. i < Len(bad) BY <3>2, <3>7, <4>3
        <5>2. bad[i].len > 0 /\ bad[i].loc + bad[i].len <= LastLine.loc BY <1>1, <3>3, <5>1 DEF InOrder, LastLine
        <5>3. bad[i] \in Line BY <3>2
        <5>4. bad[i].len \in Int BY <5>3 DEF Line
        <5> QED BY <1>1, <4>1, <5>2, <5>4
      <4> QED BY <4>2, <4>3
    <3>8. curr' = 1 /\ out' = <<>> /\ bad' = bad /\ file' = file BY <1>0, <1>1, <2>2 DEF Reading
    <3>9. Len(<<>>) = 0 OBVIOUS
    <3> QED BY <1>1, <3>1, <3>7, <3>8, <3>9 DEF Editing
  <2>6. phase' \in {"clean", "edit"} /\ (phase' = "edit" => bad # <<>>) BY <2>2
  <2> QED BY <2>3, <2>4, <2>5, <2>6 DEF RecInv
<1>7. CASE a.ret = -3
  <2>1. Quit(prev) BY <1>0, <1>2, <1>7 DEF Verify
  <2> QED BY <1>0, <1>5, <1>7, <2>1, QuitKeeps
<1>8. CASE a.ret = -1
  <2>1. CheckLastReadRec BY <1>0, <1>2, <1>8 DEF Verify
  <2> QED BY <1>0, <1>2, <1>5, <1>8, <2>1, CheckLastStep
<1>9. CASE a.ret > 0
  <2>1. a.ret # 0 /\ a.ret # -3 /\ a.ret # -1 BY <1>9
  <2>2. Judge(a) BY <1>0, <1>2, <2>1 DEF Verify
  <2> QED BY <1>0, <1>2, <1>9, <2>2, JudgeStep
<1> QED BY <1>4, <1>6, <1>7, <1>8, <1>9

(***************************************************************************)
(* csaedit                                                                 *)
(***************************************************************************)
LEMMA CopiedFacts ==
  ASSUME RecTypeOK, NEW n \in (curr - 1)..Len(file), NEW c, c = out \o SubSeq(file, curr, n)
  PROVE c \in Seq(UnitOf(entry)) /\ Len(c) = Len(out) + n - curr + 1
<1> DEFINE U == UnitOf(entry)
           t == SubSeq(file, curr, n)
<1>1. file \in Seq(U) /\ out \in Seq(U) /\ curr \in Nat \ {0} /\ Len(file) \in Nat BY DEF RecTypeOK
<1> HIDE DEF U
<1>2. n \in Int /\ \A i \in curr..n : file[i] \in U BY <1>1
<1>3. t \in Seq(U) /\ Len(t) = IF curr <= n THEN n - curr + 1 ELSE 0 BY <1>1, <1>2, SubSeqProperties
<1>4. Len(t) = n - curr + 1 BY <1>1, <1>3
<1> HIDE DEF t
<1>5. out \o t \in Seq(U) /\ Len(out \o t) = Len(out) + Len(t) BY <1>1, <1>3, ConcatProperties
<1>6. Len(out) \in Nat BY <1>1
<1>7. c = out \o t BY DEF t
<1> QED BY <1>1, <1>4, <1>5, <1>6, <1>7 DEF U

(* The file is replaced by a shorter one. *)
LEMMA ReplaceKeeps ==
  ASSUME RecInv, NEW f \in Seq(UnitOf(entry)), Len(f) < Len(file), Replace(f)
  PROVE RecInv' /\ phase' \in {"verify", "stopped"} /\ Len(file') < Len(file)
<1>1. /\ file' = f /\ phase' = Begin(f) /\ prev' = 1 /\ prevprev' = 1 /\ bad' = <<>> /\ curr' = 1 /\ out' = <<>>
      /\ entry' = entry
  BY DEF Replace
<1>2. phase' \in {"verify", "stopped"} BY <1>1 DEF Begin
<1>3. RecTypeOK'
  <2>1. entry \in Seq(Written) BY DEF RecInv, RecTypeOK
  <2>2. << >> \in Seq(UnitOf(entry)) /\ << >> \in Seq(Line) OBVIOUS
  <2> QED BY <1>1, <1>2, <2>1, <2>2 DEF RecTypeOK
<1>4. InOrder(bad)' /\ Placed(bad)' BY <1>1 DEF InOrder, Placed
<1>5. Reading'
  <2>1. Len(f) \in Nat OBVIOUS
  <2> QED BY <1>1, <2>1 DEF Reading
<1> QED BY <1>1, <1>2, <1>3, <1>4, <1>5 DEF RecInv

LEMMA EditLineStep ==
  ASSUME RecInv, EditLine
  PROVE RecInv' /\ ((file' = file /\ phase' = "edit") \/ (Len(file') < Len(file) /\ phase' \in {"verify", "stopped"}))
<1>0. phase = "edit" /\ bad # <<>> BY DEF EditLine
<1>1. RecTypeOK /\ InOrder(bad) /\ Placed(bad) /\ Editing BY <1>0 DEF RecInv
<1>2. /\ bad \in Seq(Line) /\ Len(bad) \in Nat \ {0} /\ DOMAIN bad = 1..Len(bad) /\ 1 \in DOMAIN bad
      /\ Len(file) \in Nat /\ curr \in Nat \ {0} /\ Len(out) \in Nat
  BY <1>0, <1>1, EmptySeq DEF RecTypeOK
<1>3. PICK line : line = Head(bad) OBVIOUS
<1>4. line = bad[1] /\ line \in Line BY <1>0, <1>2, <1>3
<1>5. PICK loc, len : loc = line.loc /\ len = line.len OBVIOUS
<1>6. loc \in 1..Len(file) /\ len \in Int
  <2>1. loc \in 1..Len(file) BY <1>1, <1>2, <1>4, <1>5 DEF Placed
  <2>2. line.len \in Int BY <1>4 DEF Line
  <2> QED BY <1>5, <2>1, <2>2
<1>7. curr <= loc /\ ((len > 0 /\ loc + len <= Len(file) + 1) \/ len = EndOfFile)
  BY <1>1, <1>2, <1>4, <1>5 DEF Editing
<1>8. PICK copied : copied = out \o SubSeq(file, curr, loc - 1) OBVIOUS
<1>9. copied \in Seq(UnitOf(entry)) /\ Len(copied) = Len(out) + (loc - curr) /\ Len(copied) <= loc - 1
  <2>1. loc - 1 \in (curr - 1)..Len(file) BY <1>2, <1>6, <1>7
  <2>2. copied \in Seq(UnitOf(entry)) /\ Len(copied) = Len(out) + (loc - 1) - curr + 1
    BY <1>1, <1>8, <2>1, CopiedFacts
  <2>3. Len(out) <= curr - 1 BY <1>1 DEF Editing
  <2>4. Len(copied) = Len(out) + (loc - curr) /\ Len(copied) <= loc - 1 BY <1>2, <1>6, <2>2, <2>3
  <2> QED BY <2>2, <2>4
<1>10. ~Illegal(line)
  <2>1. ~(len <= 0 /\ len # EndOfFile) /\ ~(loc < curr) BY <1>2, <1>6, <1>7
  <2> QED BY <1>5, <2>1 DEF Illegal
<1>11. CASE len = EndOfFile
  <2>1. Replace(copied) BY <1>3, <1>5, <1>8, <1>10, <1>11 DEF EditLine
  <2>2. Len(copied) < Len(file) BY <1>2, <1>6, <1>9
  <2> QED BY <1>9, <2>1, <2>2, ReplaceKeeps
<1>12. CASE len # EndOfFile
  <2>1. /\ out' = copied /\ curr' = loc + len /\ bad' = Tail(bad)
        /\ UNCHANGED <<entry, file, phase, prev, prevprev>>
    BY <1>3, <1>5, <1>8, <1>10, <1>12 DEF EditLine
  <2>2. len > 0 /\ loc + len <= Len(file) + 1 BY <1>7, <1>12
  <2>3. PICK w : w = Tail(bad) OBVIOUS
  <2>4. w \in Seq(Line) /\ Len(w) = Len(bad) - 1 /\ DOMAIN w = 1..Len(w) /\ \A i \in DOMAIN w : w[i] = bad[i + 1]
    <3>1. w \in Seq(Line) /\ Len(w) = Len(bad) - 1 /\ \A i \in 1..Len(w) : w[i] = bad[i + 1]
      BY <1>0, <1>2, <2>3, HeadTailProperties
    <3> QED BY <3>1
  <2>5. \A i \in DOMAIN w : i + 1 \in DOMAIN bad /\ i + 1 # 1 /\ 1 < i + 1 /\ i \in Nat BY <1>2, <2>4
  <2>6. RecTypeOK'
    <3>1. loc + len \in Nat \ {0} BY <1>6, <2>2
    <3> QED BY <1>1, <1>9, <2>1, <2>3, <2>4, <3>1 DEF RecTypeOK
  <2>7. InOrder(w)
    <3>1. SUFFICES ASSUME NEW i \in DOMAIN w, NEW k \in DOMAIN w, i < k
                   PROVE w[i].len > 0 /\ w[i].loc + w[i].len <= w[k].loc
      BY Zenon DEF InOrder
    <3>2. i + 1 < k + 1 BY <2>5, <3>1
    <3>3. bad[i + 1].len > 0 /\ bad[i + 1].loc + bad[i + 1].len <= bad[k + 1].loc
      BY <1>1, <2>5, <3>2 DEF InOrder
    <3> QED BY <2>4, <3>3
  <2>8. InOrder(bad)' BY <2>1, <2>3, <2>7 DEF InOrder
  <2>9. Placed(bad)'
    <3>1. \A i \in DOMAIN w : w[i].loc \in 1..Len(file) BY <1>1, <2>4, <2>5 DEF Placed
    <3> QED BY <2>1, <2>3, <3>1 DEF Placed
  <2>10. Editing'
    <3>1. ASSUME NEW i \in DOMAIN w
          PROVE /\ loc + len <= w[i].loc
                /\ (w[i].len > 0 /\ w[i].loc + w[i].len <= Len(file) + 1) \/ (w[i].len = EndOfFile /\ i = Len(w))
      <4>1. i + 1 \in DOMAIN bad /\ 1 < i + 1 /\ w[i] = bad[i + 1] BY <2>4, <2>5
      <4>2. bad[1].loc + bad[1].len <= bad[i + 1].loc BY <1>1, <1>2, <4>1 DEF InOrder
      <4>3. (bad[i + 1].len > 0 /\ bad[i + 1].loc + bad[i + 1].len <= Len(file) + 1)
            \/ (bad[i + 1].len = EndOfFile /\ i + 1 = Len(bad))
        BY <1>1, <4>1 DEF Editing
      <4>4. i + 1 = Len(bad) => i = Len(w) BY <1>2, <2>4, <2>5
      <4>5. loc + len <= w[i].loc BY <1>4, <1>5, <4>1, <4>2
      <4> QED BY <4>1, <4>3, <4>4, <4>5
    <3>2. Len(copied) < loc + len - 1 /\ Len(copied) <= loc + len - 1 BY <1>2, <1>6, <1>9, <2>2
    <3>3. curr' <= Len(file') + 1 /\ Len(out') <= curr' - 1 /\ Len(out') < curr' - 1
      <4>1. out' = copied /\ curr' = loc + len /\ file' = file BY <2>1
      <4>2. loc + len <= Len(file) + 1 BY <2>2
      <4>3. curr' <= Len(file') + 1 BY <4>1, <4>2
      <4>4. Len(out') = Len(copied) /\ Len(copied) \in Nat /\ curr' \in Int BY <1>6, <1>9, <4>1
      <4>5. Len(out') <= curr' - 1 /\ Len(out') < curr' - 1 BY <1>6, <3>2, <4>1, <4>4
      <4> QED BY <4>3, <4>5
    <3>4. bad' = w /\ curr' = loc + len /\ file' = file BY <2>1, <2>3
    <3>5. ASSUME NEW i \in DOMAIN bad'
          PROVE /\ curr' <= bad'[i].loc
                /\ (bad'[i].len > 0 /\ bad'[i].loc + bad'[i].len <= Len(file') + 1) \/ (bad'[i].len = EndOfFile /\ i = Len(bad'))
      BY <3>1, <3>4
    <3> QED BY <3>3, <3>5 DEF Editing
  <2>11. phase' = "edit" /\ file' = file BY <1>0, <2>1
  <2> QED BY <2>6, <2>8, <2>9, <2>10, <2>11 DEF RecInv
<1> QED BY <1>11, <1>12

LEMMA EditRestStep ==
  ASSUME RecInv, EditRest
  PROVE RecInv' /\ Len(file') < Len(file) /\ phase' \in {"verify", "stopped"}
<1>0. phase = "edit" /\ bad = <<>> BY DEF EditRest
<1>1. RecTypeOK /\ Editing BY <1>0 DEF RecInv
<1>2. Len(file) \in Nat /\ curr \in Nat \ {0} /\ Len(out) \in Nat /\ curr <= Len(file) + 1 /\ Len(out) < curr - 1
  BY <1>0, <1>1 DEF RecTypeOK, Editing
<1>3. PICK copied : copied = out \o SubSeq(file, curr, Len(file)) OBVIOUS
<1>4. Len(file) \in (curr - 1)..Len(file) BY <1>2
<1>5. copied \in Seq(UnitOf(entry)) /\ Len(copied) = Len(out) + Len(file) - curr + 1 BY <1>1, <1>3, <1>4, CopiedFacts
<1>6. Len(copied) < Len(file) BY <1>2, <1>5
<1>7. Replace(copied) BY <1>3 DEF EditRest
<1> QED BY <1>5, <1>6, <1>7, ReplaceKeeps

(***************************************************************************)
(* csad                                                                    *)
(***************************************************************************)
LEMMA WriteStep ==
  ASSUME RecInv, Write
  PROVE RecInv' /\ phase = "write" /\ phase' = "write"
<1>0. phase = "write" /\ UNCHANGED <<phase, prev, prevprev, bad, curr, out>> BY DEF Write
<1>1. RecTypeOK /\ AtStart BY <1>0 DEF RecInv
<1>20. PICK parts \in Kind : \E n \in 1..Len(Whole(Len(entry) + 1, parts)) :
         /\ entry' = Append(entry, [parts |-> parts, n |-> n])
         /\ file' = file \o Units(Len(entry) + 1, parts, n)
  BY DEF Write
<1>2. PICK n \in 1..Len(Whole(Len(entry) + 1, parts)) :
        /\ entry' = Append(entry, [parts |-> parts, n |-> n])
        /\ file' = file \o Units(Len(entry) + 1, parts, n)
  BY <1>20
<1>3. PICK w : w = [parts |-> parts, n |-> n] OBVIOUS
<1>4. PICK e : e = Len(entry) + 1 OBVIOUS
<1>5. entry \in Seq(Written) /\ Len(entry) \in Nat /\ e \in Nat /\ file \in Seq(UnitOf(entry))
  BY <1>1, <1>4 DEF RecTypeOK
<1>6. PICK whole : whole = Whole(e, parts) OBVIOUS
<1> DEFINE R == {e} \X (DOMAIN parts) \X Nat
<1>7. whole \in Seq(R) BY <1>5, <1>6, WholeType
<1>8. Len(whole) \in Nat /\ n \in 1..Len(whole) BY <1>2, <1>4, <1>6, <1>7
<1>9. w \in Written BY <1>3, <1>8 DEF Written
<1>10. /\ entry' \in Seq(Written) /\ Len(entry') = e /\ entry'[e] = w /\ e \in DOMAIN entry'
  BY <1>2, <1>3, <1>4, <1>5, <1>9, AppendProperties
<1>11. R \subseteq UnitOf(entry')
  <2>1. entry'[e].parts = parts BY <1>3, <1>10
  <2>2. DOMAIN parts \subseteq Nat BY KindType
  <2>3. ASSUME NEW u \in R PROVE u \in UnitOf(entry')
    <3>1. u[1] = e /\ u[2] \in DOMAIN parts /\ u \in (DOMAIN entry') \X Nat \X Nat BY <1>10, <2>2
    <3>2. u[2] \in DOMAIN entry'[u[1]].parts BY <2>1, <3>1
    <3> QED BY <3>1, <3>2 DEF UnitOf
  <2> QED BY <2>3
<1>12. UnitOf(entry) \subseteq UnitOf(entry')
  <2>1. entry' = Append(entry, w) BY <1>2, <1>3
  <2> QED BY <1>5, <1>9, <2>1, UnitOfEarlier
<1> HIDE DEF R
<1> DEFINE U == UnitOf(entry')
<1>13. whole \in Seq(U) /\ file \in Seq(U) BY <1>5, <1>7, <1>11, <1>12, SeqMonotone
<1> HIDE DEF U
<1>14. Units(e, parts, n) \in Seq(U)
  <2>1. \A i \in 1..n : whole[i] \in U BY <1>8, <1>13
  <2>2. n \in Int BY <1>8
  <2>3. SubSeq(whole, 1, n) \in Seq(U) BY <2>1, <2>2, SubSeqProperties
  <2> QED BY <1>6, <2>3 DEF Units
<1>15. file' \in Seq(U) BY <1>2, <1>4, <1>13, <1>14, ConcatProperties
<1>16. out' = <<>> /\ << >> \in Seq(U) BY <1>0, <1>1 DEF AtStart
<1>17. RecTypeOK' BY <1>0, <1>1, <1>10, <1>15, <1>16 DEF RecTypeOK, U
<1>18. AtStart' /\ bad' = <<>> BY <1>0, <1>1 DEF AtStart
<1>19. InOrder(bad)' /\ Placed(bad)' BY <1>18 DEF InOrder, Placed
<1> QED BY <1>0, <1>17, <1>18, <1>19 DEF RecInv

LEMMA StartVerifyStep ==
  ASSUME RecInv, StartVerify
  PROVE RecInv' /\ phase = "write" /\ file' = file
<1>0. phase = "write" /\ phase' = Begin(file) /\ UNCHANGED <<entry, file, prev, prevprev, bad, curr, out>>
  BY DEF StartVerify
<1>1. RecTypeOK /\ AtStart /\ InOrder(bad) /\ Placed(bad) BY <1>0 DEF RecInv
<1>2. phase' \in {"verify", "stopped"} BY <1>0 DEF Begin
<1>3. RecTypeOK' BY <1>0, <1>1, <1>2 DEF RecTypeOK
<1>4. InOrder(bad)' /\ Placed(bad)' BY <1>0, <1>1 DEF InOrder, Placed
<1>5. Reading'
  <2>1. Len(file) \in Nat BY <1>1 DEF RecTypeOK
  <2> QED BY <1>0, <1>1, <2>1 DEF Reading, AtStart
<1> QED BY <1>0, <1>2, <1>3, <1>4, <1>5 DEF RecInv

(***************************************************************************)
(* Theorems                                                                *)
(***************************************************************************)
(* What a step of the loop does: the first part of LoopEnds is about a     *)
(* turn of csaverify, the others are about csaedit.                        *)
LoopStep ==
  /\ phase = "verify" /\ phase' = "verify" =>
       \/ prevprev' > prevprev
       \/ prevprev' = prevprev /\ prev' > prevprev /\ (prev' < prev \/ prev = prevprev)
  /\ phase # "write" /\ file' # file => Len(file') < Len(file)
  /\ phase = "edit" /\ phase' = "verify" => file' # file

LEMMA RecInvInit == Init => RecInv
<1>1. SUFFICES ASSUME Init PROVE RecInv OBVIOUS
<1>2. AtStart /\ entry = <<>> /\ file = <<>> /\ phase = "write" BY <1>1 DEF Init, AtStart
<1>3. << >> \in Seq(UnitOf(entry)) /\ << >> \in Seq(Line) /\ << >> \in Seq(Written) OBVIOUS
<1>4. RecTypeOK BY <1>2, <1>3 DEF RecTypeOK, AtStart
<1>5. InOrder(bad) /\ Placed(bad) BY <1>2 DEF InOrder, Placed, AtStart
<1> QED BY <1>2, <1>4, <1>5 DEF RecInv

LEMMA RecInvStep ==
  ASSUME RecInv, [Next]_vars
  PROVE RecInv' /\ (LoopStep \/ UNCHANGED vars)
<1>0. Len(file) < Len(file) <=> FALSE
  <2>1. Len(file) \in Nat BY DEF RecInv, RecTypeOK
  <2> QED BY <2>1
<1>1. CASE Write BY <1>1, WriteStep DEF LoopStep
<1>2. CASE StartVerify BY <1>2, StartVerifyStep DEF LoopStep
<1>3. CASE Verify
  <2>1. phase = "verify" /\ file' = file BY <1>3 DEF Verify
  <2> QED BY <1>3, <2>1, VerifyStep DEF LoopStep, Onward
<1>4. CASE EditLine
  <2>1. phase = "edit" BY <1>4 DEF EditLine
  <2>2. RecInv' /\ ((file' = file /\ phase' = "edit") \/ (Len(file') < Len(file) /\ phase' \in {"verify", "stopped"}))
    BY <1>4, EditLineStep
  <2> QED BY <1>0, <2>1, <2>2 DEF LoopStep
<1>5. CASE EditRest
  <2>1. phase = "edit" BY <1>5 DEF EditRest
  <2>2. RecInv' /\ Len(file') < Len(file) BY <1>5, EditRestStep
  <2> QED BY <1>0, <2>1, <2>2 DEF LoopStep
<1>6. CASE UNCHANGED vars
  <2>1. UNCHANGED <<entry, file, phase, prev, prevprev, bad, curr, out>> BY <1>6 DEF vars
  <2>2. Read(prev)' = Read(prev)
    <3>1. ReadAcctent' = ReadAcctent BY <2>1, ReadUnchanged
    <3> QED BY <2>1, <3>1 DEF Read
  <2>3. RecTypeOK' /\ InOrder(bad)' /\ Placed(bad)'
    BY <2>1 DEF RecInv, RecTypeOK, InOrder, Placed
  <2>4. LastLine' = LastLine BY <2>1 DEF LastLine
  <2>5. Reading' <=> Reading BY <2>1, <2>2, <2>4 DEF Reading
  <2>6. (Editing' <=> Editing) /\ (AtStart' <=> AtStart) BY <2>1 DEF Editing, AtStart
  <2> QED BY <1>6, <2>1, <2>3, <2>5, <2>6 DEF RecInv
<1> QED BY <1>1, <1>2, <1>3, <1>4, <1>5, <1>6 DEF Next

(* csaverify and csaedit keep the invariant, whatever csad wrote. *)
THEOREM RecordsInvariance == Spec => []RecInv
<1>1. RecInv /\ [Next]_vars => RecInv' BY RecInvStep
<1> QED BY RecInvInit, <1>1, PTL DEF Spec

(* csaedit can use every offset file that csaverify makes, although        *)
(* csaverify steps back and notes one place twice: the places are in       *)
(* order and in the file, and none is empty.                               *)
THEOREM OffsetsUsable == Spec => [](phase # "aborted")
<1>1. RecInv => phase # "aborted" BY DEF RecInv
<1> QED BY RecordsInvariance, <1>1, PTL

(* csarun's loop of csaverify and csaedit comes to an end: every turn of   *)
(* csaverify gets further, and every csaedit leaves a shorter file.        *)
THEOREM LoopAlwaysEnds == Spec => LoopEnds
<1>1. RecInv /\ [Next]_vars => [LoopStep]_vars BY RecInvStep
<1> QED BY RecordsInvariance, <1>1, PTL DEF Spec, LoopEnds, LoopStep
=============================================================================
