---------------------------- MODULE ExportProofs ----------------------------
(***************************************************************************)
(* Proofs about Export, for any traces and any number of runs, one after   *)
(* another or at once: OkMeansComplete, AllOrNothing, and that mysql and   *)
(* postgres exports implement AtomicLoad.                                  *)
(*                                                                         *)
(* The argument follows what a run writes.  Text is all of it: the schema, *)
(* the rows of its input, COMMIT.  RunInv says of one run that what it has *)
(* sent is the beginning of its text, that its transaction is the rows     *)
(* executed so far as long as no statement has failed, and that COMMIT is  *)
(* executed when all the text has been (CommitInv); no step of another run *)
(* can disturb that (RunStep).  COMMIT is the last of the text, so the     *)
(* transaction it finds is all the rows, and a server keeps them until it  *)
(* has committed or dropped them, whatever becomes of the client           *)
(* (TxIsRows); a run's rows are in a server's table once it has committed  *)
(* and not before (ServerInv).  csv and sqlite outputs belong to the last  *)
(* run that began (OrderInv, CsvInv, SqliteInv).                           *)
(*                                                                         *)
(* The first part is about Picked: the k-th of a set of positions exists   *)
(* and is unique, which is counting.                                       *)
(***************************************************************************)
EXTENDS Export, SequenceTheorems, FiniteSetTheorems, TLAPS

-----------------------------------------------------------------------------
\* How many of I are up to i, and the k-th of I.
Rank(I, i) == Cardinality({j \in I : j <= i})
Nth(I, k)  == CHOOSE i \in I : Rank(I, i) = k

\* Positions of a sequence are finitely many, and so are those up to one of them.
LEMMA Ranked ==
  ASSUME NEW n \in Nat, NEW I \in SUBSET (1 .. n)
  PROVE  /\ IsFiniteSet(I) /\ Cardinality(I) \in Nat
         /\ \A i \in I : IsFiniteSet({j \in I : j <= i}) /\ Rank(I, i) \in 1 .. Cardinality(I)
<1>1. IsFiniteSet(I)
  <2>1. IsFiniteSet(1 .. n)
    <3>1. 1 \in Int /\ n \in Int
      OBVIOUS
    <3> QED
      BY <3>1, FS_Interval
  <2> QED
    BY <2>1, FS_Subset
<1>2. Cardinality(I) \in Nat
  BY <1>1, FS_CardinalityType
<1>3. ASSUME NEW i \in I PROVE IsFiniteSet({j \in I : j <= i}) /\ Rank(I, i) \in 1 .. Cardinality(I)
  <2> DEFINE T == {j \in I : j <= i}
  <2>1. T \in SUBSET I /\ i \in T
    OBVIOUS
  <2>2. IsFiniteSet(T) /\ Cardinality(T) <= Cardinality(I)
    BY <1>1, <2>1, FS_Subset
  <2>3. Cardinality(T) \in Nat /\ Cardinality(T) # 0
    BY <2>1, <2>2, FS_CardinalityType, FS_EmptySet
  <2> QED
    BY <1>2, <2>2, <2>3 DEF Rank
<1> QED
  BY <1>1, <1>2, <1>3

\* Different positions have different ranks.
LEMMA RankInj ==
  ASSUME NEW n \in Nat, NEW I \in SUBSET (1 .. n), NEW i \in I, NEW j \in I, Rank(I, i) = Rank(I, j)
  PROVE  i = j
<1>1. ASSUME NEW a \in I, NEW b \in I, a < b PROVE Rank(I, a) # Rank(I, b)
  <2> DEFINE A == {x \in I : x <= a}
             B == {x \in I : x <= b}
  <2>0. a \in Nat /\ b \in Nat /\ \A x \in I : x \in Nat
    OBVIOUS
  <2>1. A \in SUBSET B /\ b \in B /\ b \notin A
    <3>1. \A x \in I : x <= a => x <= b
      BY <1>1, <2>0
    <3>2. b <= b /\ ~(b <= a)
      BY <1>1, <2>0
    <3> QED
      BY <3>1, <3>2
  <2>2. IsFiniteSet(B)
    BY Ranked
  <2>3. Cardinality(B) # Cardinality(A)
    BY <2>1, <2>2, FS_Subset
  <2> QED
    BY <2>3 DEF Rank
<1>2. i < j \/ j < i \/ i = j
  OBVIOUS
<1> QED
  BY <1>1, <1>2

\* The position with rank k is the k-th.
LEMMA NthRank ==
  ASSUME NEW n \in Nat, NEW I \in SUBSET (1 .. n), NEW i \in I
  PROVE  Nth(I, Rank(I, i)) = i
<1>1. Nth(I, Rank(I, i)) \in I /\ Rank(I, Nth(I, Rank(I, i))) = Rank(I, i)
  BY DEF Nth
<1> QED
  BY <1>1, RankInj

\* There is a k-th position.
LEMMA NthIn ==
  ASSUME NEW n \in Nat, NEW I \in SUBSET (1 .. n), NEW k \in 1 .. Cardinality(I)
  PROVE  Nth(I, k) \in I
<1> DEFINE c == Cardinality(I)
           f == [i \in I |-> Rank(I, i)]
<1>1. c \in Nat /\ IsFiniteSet(1 .. c) /\ Cardinality(1 .. c) = c
  <2>1. c \in Nat /\ c >= 1
    <3>1. c \in Nat
      BY Ranked
    <3> QED
      BY <3>1
  <2>2. ASSUME NEW m \in Nat, m >= 1 PROVE IsFiniteSet(1 .. m) /\ Cardinality(1 .. m) = m
    <3>1. 1 \in Int /\ m \in Int /\ ~(1 > m) /\ m - 1 + 1 = m
      BY <2>2
    <3> QED
      BY <3>1, FS_Interval
  <2> QED
    BY <2>1, <2>2
<1>2. f \in [I -> 1 .. c]
  BY Ranked
<1>3. \A a, b \in I : f[a] = f[b] => a = b
  BY RankInj
<1>4. f \in Injection(I, 1 .. c)
  BY <1>2, <1>3 DEF Injection, IsInjective
<1>5. f \in Surjection(I, 1 .. c)
  BY <1>1, <1>4, FS_Injection
<1>6. PICK i \in I : f[i] = k
  BY <1>5 DEF Surjection
<1> QED
  BY <1>6 DEF Nth

\* What is picked, position by position.
LEMMA PickedAt ==
  ASSUME NEW s, NEW n \in Nat, NEW I \in SUBSET (1 .. n)
  PROVE  /\ Picked(s, I) = [k \in 1 .. Cardinality(I) |-> s[Nth(I, k)]] /\ Cardinality(I) \in Nat
         /\ \A k \in 1 .. Cardinality(I) : Nth(I, k) \in I
<1>1. Picked(s, I) = [k \in 1 .. Cardinality(I) |-> s[Nth(I, k)]]
  BY DEF Picked, Nth, Rank
<1>2. \A k \in 1 .. Cardinality(I) : Nth(I, k) \in I
  BY NthIn
<1>3. Cardinality(I) \in Nat
  BY Ranked
<1> QED
  BY <1>1, <1>2, <1>3

\* Two sequences one after the other.
LEMMA JoinSeq ==
  ASSUME NEW S, NEW s \in Seq(S), NEW t \in Seq(S)
  PROVE  /\ s \o t \in Seq(S) /\ Len(s \o t) = Len(s) + Len(t)
         /\ Len(s) \in Nat /\ Len(t) \in Nat
         /\ \A k \in 1 .. Len(s) : (s \o t)[k] = s[k]
         /\ \A k \in 1 .. Len(t) : (s \o t)[Len(s) + k] = t[k]
BY ConcatProperties

\* A function on 1 .. m is a sequence.
LEMMA FunSeq ==
  ASSUME NEW S, NEW m \in Nat, NEW g \in [1 .. m -> S]
  PROVE  g \in Seq(S) /\ Len(g) = m
BY IsASeq, LenProperties

-----------------------------------------------------------------------------
\* Lines of a trace file, the statements for them, and the rows of a run.
LineSet   == {"row", "blank", "bad"}
Stmts     == [run : Nat, sql : {"insert", "schema", "commit"}, line : Nat]
RowSet(r) == {t \in Stmts : t.run = r /\ t.sql = "insert"}

\* How many of the first n lines are rows.
RowPlaces(lines, n) == {i \in 1 .. n : lines[i] = "row"}
Count(lines, n)     == Cardinality(RowPlaces(lines, n))

\* Line by line.
LEMMA CountNext ==
  ASSUME NEW lines, NEW n \in Nat
  PROVE  /\ Count(lines, 0) = 0 /\ Count(lines, n) \in Nat
         /\ Count(lines, n + 1) = IF lines[n + 1] = "row" THEN Count(lines, n) + 1 ELSE Count(lines, n)
<1>1. RowPlaces(lines, 0) = {}
  BY DEF RowPlaces
<1>2. RowPlaces(lines, n) \in SUBSET (1 .. n) /\ n + 1 \notin RowPlaces(lines, n)
  BY DEF RowPlaces
<1>3. IsFiniteSet(RowPlaces(lines, n)) /\ Count(lines, n) \in Nat
  BY <1>2, Ranked DEF Count
<1>4. RowPlaces(lines, n + 1)
        = IF lines[n + 1] = "row" THEN RowPlaces(lines, n) \cup {n + 1} ELSE RowPlaces(lines, n)
  <2>1. 1 .. n + 1 = (1 .. n) \cup {n + 1}
    OBVIOUS
  <2> QED
    BY <2>1 DEF RowPlaces
<1>5. Cardinality(RowPlaces(lines, n) \cup {n + 1}) = Count(lines, n) + 1
  BY <1>2, <1>3, FS_AddElement DEF Count
<1> QED
  BY <1>1, <1>3, <1>4, <1>5, FS_EmptySet DEF Count

\* The rows of a trace: as many as it has row lines, the one for a line where it belongs.
LEMMA RowsAt ==
  ASSUME NEW r \in Nat, NEW lines \in Seq(LineSet)
  PROVE  /\ RowsOf(r, lines) \in Seq(RowSet(r)) /\ Len(RowsOf(r, lines)) = Count(lines, Len(lines))
         /\ \A p \in 1 .. Len(lines) : lines[p] = "row" =>
              /\ Count(lines, p) \in 1 .. Len(RowsOf(r, lines))
              /\ RowsOf(r, lines)[Count(lines, p)] = Row(r, p)
<1> DEFINE n == Len(lines)
           I == RowPlaces(lines, n)
           s == [i \in 1 .. n |-> Row(r, i)]
<1>0. n \in Nat /\ DOMAIN lines = 1 .. n
  OBVIOUS
<1>1. RowsOf(r, lines) = Picked(s, I)
  BY <1>0 DEF RowsOf, RowPlaces
<1>2. I \in SUBSET (1 .. n)
  BY DEF RowPlaces
<1>3. \A i \in I : s[i] \in RowSet(r) /\ s[i] = Row(r, i)
  <2>1. \A i \in 1 .. n : Row(r, i) \in RowSet(r)
    BY DEF Row, RowSet, Stmts
  <2> QED
    BY <1>2, <2>1
<1> HIDE DEF s, I
<1>4. /\ Picked(s, I) \in Seq(RowSet(r)) /\ Len(Picked(s, I)) = Cardinality(I)
      /\ \A k \in 1 .. Cardinality(I) : Picked(s, I)[k] = s[Nth(I, k)]
  <2>1. /\ Picked(s, I) = [k \in 1 .. Cardinality(I) |-> s[Nth(I, k)]] /\ Cardinality(I) \in Nat
        /\ \A k \in 1 .. Cardinality(I) : Nth(I, k) \in I
    BY <1>0, <1>2, PickedAt
  <2>2. Picked(s, I) \in [1 .. Cardinality(I) -> RowSet(r)]
    BY <1>3, <2>1
  <2> QED
    BY <2>1, <2>2, FunSeq
<1>5. ASSUME NEW p \in 1 .. n, lines[p] = "row"
      PROVE  /\ Count(lines, p) \in 1 .. Cardinality(I)
             /\ Picked(s, I)[Count(lines, p)] = Row(r, p)
  <2>1. p \in I
    BY <1>5 DEF I, RowPlaces
  <2>2. {j \in I : j <= p} = RowPlaces(lines, p)
    BY <1>0 DEF I, RowPlaces
  <2>3. Count(lines, p) = Rank(I, p)
    BY <2>2 DEF Count, Rank
  <2>4. Rank(I, p) \in 1 .. Cardinality(I) /\ Nth(I, Rank(I, p)) = p
    BY <1>0, <1>2, <2>1, Ranked, NthRank
  <2> QED
    BY <1>3, <1>4, <2>1, <2>3, <2>4
<1>6. Cardinality(I) = Count(lines, n)
  BY DEF Count, I
<1> QED
  BY <1>1, <1>4, <1>5, <1>6

\* Rows of one run appended to a table without any are what is picked for it.
LEMMA PickedNew ==
  ASSUME NEW r, NEW s \in Seq(Stmts), NEW u \in Seq(Stmts),
         \A i \in 1 .. Len(s) : s[i].run # r, \A i \in 1 .. Len(u) : u[i].run = r
  PROVE  Picked(s \o u, {i \in DOMAIN (s \o u) : (s \o u)[i].run = r}) = u
<1> DEFINE n == Len(s)
           m == Len(u)
           t == s \o u
           J == n + 1 .. n + m
<1>0. n \in Nat /\ m \in Nat
  OBVIOUS
<1>1. /\ t \in Seq(Stmts) /\ Len(t) = n + m /\ \A k \in 1 .. n : t[k] = s[k]
      /\ \A k \in 1 .. m : t[n + k] = u[k]
  BY ConcatProperties
<1> HIDE DEF t
<1>2. \A k \in J : k - n \in 1 .. m /\ t[k] = u[k - n]
  <2> SUFFICES ASSUME NEW k \in J PROVE k - n \in 1 .. m /\ t[k] = u[k - n]
    OBVIOUS
  <2>1. k - n \in 1 .. m /\ n + (k - n) = k
    BY <1>0
  <2> QED
    BY <1>1, <2>1
<1>3. {i \in DOMAIN t : t[i].run = r} = J
  <2>1. DOMAIN t = 1 .. n + m
    BY <1>1
  <2>2. \A i \in 1 .. n + m : i \in J \/ i \in 1 .. n
    BY <1>0
  <2>3. J \subseteq 1 .. n + m
    BY <1>0
  <2>4. \A i \in J : t[i].run = r
    BY <1>2
  <2>5. \A i \in 1 .. n : t[i].run # r
    BY <1>1
  <2> HIDE DEF J
  <2> QED
    BY <2>1, <2>2, <2>3, <2>4, <2>5
<1>4. J \in SUBSET (1 .. n + m) /\ n + m \in Nat
  BY <1>0
<1>5. Cardinality(J) = m
  <2>1. n + 1 \in Int /\ n + m \in Int /\ (n + 1 > n + m <=> m = 0) /\ (n + m) - (n + 1) + 1 = m
    BY <1>0
  <2> QED
    BY <2>1, FS_Interval
<1>6. ASSUME NEW k \in 1 .. m PROVE Nth(J, k) = n + k
  <2>1. n + k \in J /\ {j \in J : j <= n + k} = n + 1 .. n + k
    BY <1>0
  <2>2. Cardinality(n + 1 .. n + k) = k
    <3>1. n + 1 \in Int /\ n + k \in Int /\ ~(n + 1 > n + k) /\ (n + k) - (n + 1) + 1 = k
      BY <1>0
    <3> QED
      BY <3>1, FS_Interval
  <2>3. Rank(J, n + k) = k
    BY <2>1, <2>2 DEF Rank
  <2> HIDE DEF J
  <2> QED
    BY <1>4, <2>1, <2>3, NthRank
<1> HIDE DEF J
<1>7. \A i \in J : t[i] \in Stmts
  BY <1>1, <1>4
<1>8. /\ Picked(t, J) \in Seq(Stmts) /\ Len(Picked(t, J)) = m
      /\ \A k \in 1 .. m : Picked(t, J)[k] = t[Nth(J, k)]
  <2>1. /\ Picked(t, J) = [k \in 1 .. m |-> t[Nth(J, k)]]
        /\ \A k \in 1 .. m : Nth(J, k) \in J
    <3>1. ASSUME NEW l \in Nat, J \in SUBSET (1 .. l)
          PROVE  /\ Picked(t, J) = [k \in 1 .. Cardinality(J) |-> t[Nth(J, k)]]
                 /\ \A k \in 1 .. Cardinality(J) : Nth(J, k) \in J
      BY <3>1, PickedAt
    <3> QED
      BY <1>4, <1>5, <3>1
  <2>2. Picked(t, J) \in [1 .. m -> Stmts]
    BY <1>7, <2>1
  <2> QED
    BY <1>0, <2>1, <2>2, FunSeq
<1>9. \A k \in 1 .. m : Picked(t, J)[k] = u[k]
  BY <1>1, <1>6, <1>8
<1>10. ASSUME NEW v \in Seq(Stmts), Len(v) = m, \A k \in 1 .. m : v[k] = u[k] PROVE v = u
  BY <1>10, SeqEqual
<1> QED
  BY <1>3, <1>8, <1>9, <1>10 DEF t

\* Rows of other runs make no difference.
LEMMA PickedOther ==
  ASSUME NEW q, NEW s \in Seq(Stmts), NEW u \in Seq(Stmts), \A i \in 1 .. Len(u) : u[i].run # q
  PROVE  Picked(s \o u, {i \in DOMAIN (s \o u) : (s \o u)[i].run = q})
           = Picked(s, {i \in DOMAIN s : s[i].run = q})
<1> DEFINE n == Len(s)
           m == Len(u)
           t == s \o u
           I == {i \in DOMAIN s : s[i].run = q}
<1>0. n \in Nat /\ m \in Nat /\ DOMAIN s = 1 .. n
  OBVIOUS
<1>1. /\ t \in Seq(Stmts) /\ Len(t) = n + m /\ \A k \in 1 .. n : t[k] = s[k]
      /\ \A k \in 1 .. m : t[n + k] = u[k]
  BY ConcatProperties
<1> HIDE DEF t
<1>2. \A k \in n + 1 .. n + m : t[k].run # q
  <2> SUFFICES ASSUME NEW k \in n + 1 .. n + m PROVE t[k].run # q
    OBVIOUS
  <2>1. k - n \in 1 .. m /\ n + (k - n) = k
    BY <1>0
  <2>2. t[k] = u[k - n]
    BY <1>1, <2>1
  <2> QED
    BY <2>1, <2>2
<1>3. {i \in DOMAIN t : t[i].run = q} = I
  <2>1. DOMAIN t = 1 .. n + m
    BY <1>1
  <2>2. \A i \in 1 .. n + m : i \in n + 1 .. n + m \/ i \in 1 .. n
    BY <1>0
  <2>3. 1 .. n \subseteq 1 .. n + m
    BY <1>0
  <2> QED
    BY <1>0, <1>1, <1>2, <2>1, <2>2, <2>3
<1>4. I \in SUBSET (1 .. n)
  BY <1>0
<1>5. \A i \in I : t[i] = s[i]
  BY <1>1, <1>4
<1> HIDE DEF I
<1>6. \A k \in 1 .. Cardinality(I) : Nth(I, k) \in I
  BY <1>0, <1>4, NthIn
<1>7. Picked(t, I) = [k \in 1 .. Cardinality(I) |-> t[Nth(I, k)]]
        /\ Picked(s, I) = [k \in 1 .. Cardinality(I) |-> s[Nth(I, k)]]
  BY DEF Picked, Nth, Rank
<1>8. Picked(t, I) = Picked(s, I)
  BY <1>5, <1>6, <1>7
<1> QED
  BY <1>3, <1>8 DEF t, I

-----------------------------------------------------------------------------
\* All that an exporter of kind k writes for these lines, if nothing goes wrong.
Text(k, r, lines) ==
  IF k = "csv" THEN RowsOf(r, lines) ELSE <<Schema(r)>> \o RowsOf(r, lines) \o <<Commit(r)>>

\* A sequence between two elements.
LEMMA Framed ==
  ASSUME NEW S, NEW x \in Seq(S), NEW y \in Seq(S), NEW z \in Seq(S), Len(x) = 1, Len(z) = 1
  PROVE  /\ x \o y \o z \in Seq(S) /\ Len(x \o y \o z) = Len(y) + 2
         /\ (x \o y \o z)[1] = x[1] /\ (x \o y \o z)[Len(y) + 2] = z[1]
         /\ \A j \in 1 .. Len(y) : (x \o y \o z)[j + 1] = y[j]
<1>0. x \in Seq(S) /\ y \in Seq(S) /\ z \in Seq(S) /\ Len(y) \in Nat
  OBVIOUS
<1>1. /\ x \o y \in Seq(S) /\ Len(x \o y) = Len(x) + Len(y)
      /\ \A k \in 1 .. Len(x) : (x \o y)[k] = x[k]
      /\ \A k \in 1 .. Len(y) : (x \o y)[Len(x) + k] = y[k]
  BY ONLY <1>0, JoinSeq
<1>2. ASSUME NEW m \in Seq(S), Len(m) = 1 + Len(y), m[1] = x[1], \A k \in 1 .. Len(y) : m[1 + k] = y[k]
      PROVE  /\ m \o z \in Seq(S) /\ Len(m \o z) = Len(y) + 2
             /\ (m \o z)[1] = x[1] /\ (m \o z)[Len(y) + 2] = z[1]
             /\ \A j \in 1 .. Len(y) : (m \o z)[j + 1] = y[j]
  <2>0. m \in Seq(S)
    OBVIOUS
  <2>1. /\ m \o z \in Seq(S) /\ Len(m \o z) = Len(m) + Len(z)
        /\ \A k \in 1 .. Len(m) : (m \o z)[k] = m[k]
        /\ \A k \in 1 .. Len(z) : (m \o z)[Len(m) + k] = z[k]
    BY ONLY <1>0, <2>0, JoinSeq
  <2>2. (m \o z)[Len(m) + 1] = z[1] /\ Len(m) + 1 = Len(y) + 2
    BY <1>0, <1>2, <2>1
  <2>3. (m \o z)[1] = x[1]
    BY <1>0, <1>2, <2>1
  <2>4. ASSUME NEW j \in 1 .. Len(y) PROVE (m \o z)[j + 1] = y[j]
    <3>1. j + 1 \in 1 .. Len(m) /\ j + 1 = 1 + j
      BY <1>0, <1>2
    <3> QED
      BY <1>2, <2>1, <3>1
  <2> QED
    BY <1>0, <1>2, <2>1, <2>2, <2>3, <2>4
<1>3. (x \o y)[1] = x[1] /\ \A k \in 1 .. Len(y) : (x \o y)[1 + k] = y[k]
  BY <1>1
<1> QED
  BY <1>1, <1>2, <1>3

\* It is the statements that make the table, the rows, and COMMIT.
LEMMA TextAt ==
  ASSUME NEW k, NEW r \in Nat, NEW lines \in Seq(LineSet)
  PROVE  /\ Text(k, r, lines) \in Seq(Stmts) /\ Len(RowsOf(r, lines)) \in Nat
         /\ \A j \in 1 .. Len(RowsOf(r, lines)) : RowsOf(r, lines)[j] \in RowSet(r)
         /\ k = "csv" => Text(k, r, lines) = RowsOf(r, lines)
         /\ k # "csv" => /\ Len(Text(k, r, lines)) = Len(RowsOf(r, lines)) + 2
                         /\ Text(k, r, lines)[1] = Schema(r)
                         /\ Text(k, r, lines)[Len(RowsOf(r, lines)) + 2] = Commit(r)
                         /\ \A j \in 1 .. Len(RowsOf(r, lines)) :
                              Text(k, r, lines)[j + 1] = RowsOf(r, lines)[j]
<1>1. RowsOf(r, lines) \in Seq(RowSet(r)) /\ RowSet(r) \subseteq Stmts
  BY RowsAt DEF RowSet
<1>2. Schema(r) \in Stmts /\ Commit(r) \in Stmts
  BY DEF Schema, Commit, Stmts
<1>3. RowsOf(r, lines) \in Seq(Stmts)
  BY <1>1, SeqMonotonic
<1>4. ASSUME NEW rows \in Seq(Stmts), NEW a \in Stmts, NEW b \in Stmts
      PROVE  /\ <<a>> \o rows \o <<b>> \in Seq(Stmts) /\ Len(<<a>> \o rows \o <<b>>) = Len(rows) + 2
             /\ (<<a>> \o rows \o <<b>>)[1] = a /\ (<<a>> \o rows \o <<b>>)[Len(rows) + 2] = b
             /\ \A j \in 1 .. Len(rows) : (<<a>> \o rows \o <<b>>)[j + 1] = rows[j]
  <2>1. /\ <<a>> \in Seq(Stmts) /\ <<b>> \in Seq(Stmts) /\ Len(<<a>>) = 1 /\ Len(<<b>>) = 1
        /\ <<a>>[1] = a /\ <<b>>[1] = b
    OBVIOUS
  <2> QED
    BY <2>1, Framed
<1>5. Len(RowsOf(r, lines)) \in Nat /\ \A j \in 1 .. Len(RowsOf(r, lines)) : RowsOf(r, lines)[j] \in RowSet(r)
  BY <1>1
<1>6. CASE k = "csv"
  BY <1>3, <1>5, <1>6 DEF Text
<1>7. CASE k # "csv"
  <2>1. Text(k, r, lines) = <<Schema(r)>> \o RowsOf(r, lines) \o <<Commit(r)>>
    BY <1>7 DEF Text
  <2> QED
    BY <1>2, <1>3, <1>4, <1>5, <1>7, <2>1
<1> QED
  BY <1>6, <1>7

\* The first is the only one that makes the table, and only the last is COMMIT.
LEMMA TextKinds ==
  ASSUME NEW k, NEW r \in Nat, NEW lines \in Seq(LineSet), k # "csv", NEW i \in 1 .. Len(Text(k, r, lines))
  PROVE  /\ Text(k, r, lines)[i] = Schema(r) <=> i = 1
         /\ Text(k, r, lines)[i] = Commit(r) <=> i = Len(Text(k, r, lines))
<1> DEFINE n == Len(RowsOf(r, lines))
<1>1. /\ n \in Nat /\ Len(Text(k, r, lines)) = n + 2 /\ Text(k, r, lines)[1] = Schema(r)
      /\ Text(k, r, lines)[n + 2] = Commit(r)
      /\ \A j \in 1 .. n : Text(k, r, lines)[j + 1] \in RowSet(r)
  BY TextAt
<1>2. Schema(r) # Commit(r) /\ Schema(r) \notin RowSet(r) /\ Commit(r) \notin RowSet(r)
  BY DEF Schema, Commit, RowSet
<1>3. CASE i = 1 \/ i = n + 2
  BY <1>1, <1>2, <1>3
<1>4. CASE i # 1 /\ i # n + 2
  <2>1. i - 1 \in 1 .. n /\ (i - 1) + 1 = i
    BY <1>1, <1>4
  <2>2. Text(k, r, lines)[i] \in RowSet(r)
    BY <1>1, <2>1
  <2> QED
    BY <1>1, <1>2, <1>4, <2>2
<1> QED
  BY <1>3, <1>4

\* Its two ends.
LEMMA TextEnds ==
  ASSUME NEW k, NEW r \in Nat, NEW lines \in Seq(LineSet)
  PROVE  /\ Text(k, r, lines) \in Seq(Stmts) /\ Len(Text(k, r, lines)) \in Nat
         /\ k = "csv" => Len(Text(k, r, lines)) = Count(lines, Len(lines))
         /\ k # "csv" => /\ Len(Text(k, r, lines)) = Count(lines, Len(lines)) + 2
                         /\ Len(Text(k, r, lines)) >= 2 /\ Text(k, r, lines)[1] = Schema(r)
                         /\ Text(k, r, lines)[Len(Text(k, r, lines))] = Commit(r)
<1>1. Text(k, r, lines) \in Seq(Stmts) /\ Len(Text(k, r, lines)) \in Nat
  <2>1. Text(k, r, lines) \in Seq(Stmts)
    BY TextAt
  <2> QED
    BY <2>1
<1>2. Len(RowsOf(r, lines)) = Count(lines, Len(lines)) /\ Len(RowsOf(r, lines)) \in Nat
  BY RowsAt, TextAt
<1>3. CASE k = "csv"
  <2>1. Text(k, r, lines) = RowsOf(r, lines)
    BY <1>3, TextAt
  <2> QED
    BY <1>1, <1>2, <1>3, <2>1
<1>4. CASE k # "csv"
  <2>1. /\ Len(Text(k, r, lines)) = Len(RowsOf(r, lines)) + 2
        /\ Text(k, r, lines)[1] = Schema(r)
        /\ Text(k, r, lines)[Len(RowsOf(r, lines)) + 2] = Commit(r)
    BY <1>4, TextAt
  <2> QED
    BY <1>1, <1>2, <1>4, <2>1
<1> QED
  BY <1>3, <1>4

-----------------------------------------------------------------------------
\* The records of an exporter and of its client.
Exporters ==
  [pc : {"new", "check", "create", "start", "stream", "wait", "abort", "returned"},
   result : {"none", "ok", "error", "killed"}, trace : Seq(LineSet), input : Seq(LineSet),
   own : BOOLEAN, pos : Nat, sent : Seq(Stmts)]
Clients ==
  [state : {"none", "running", "ok", "failed"}, done : Nat, tx : Seq(Stmts),
   errs : BOOLEAN, auto : BOOLEAN, commit : {"no", "asked", "done", "dropped"}]

\* One run: where its exporter e and client c, of kind k, can be together.
PlaceInv(k, e, c) ==
  /\ e \in Exporters /\ c \in Clients /\ e.pos <= Len(e.input) + 1 /\ e.pos >= 1
  /\ c.done <= Len(e.sent)
  /\ e.pc = "new" => e = NoExporter /\ c = NoClient
  /\ e.pc \in {"check", "create", "start"} =>
       e.sent = <<>> /\ e.pos = 1 /\ e.input = e.trace /\ c = NoClient
  /\ e.result = "none" <=> e.pc # "returned"
  /\ ~e.own => e.input = e.trace
  /\ e.own => k \in {"csv", "sqlite"}
  /\ k = "csv" => c.state = "none" /\ c.errs = FALSE /\ e.pc \notin {"wait", "abort"}
  /\ k # "csv" /\ e.pc \in {"stream", "wait", "abort"} => c.state # "none"
  /\ e.pc = "stream" => c.state # "ok"
  /\ e.result \in {"ok", "error"} => c.state # "running"
  /\ c.state = "ok" => ~c.errs /\ c.done = Len(e.sent)
  /\ e.result = "ok" => c.done = Len(e.sent) /\ (k # "csv" => c.state = "ok")
  /\ ~c.errs => ~c.auto
  /\ k \in {"mysql", "postgres"} /\ c.errs => c.state = "failed"

\* How long the text is before line p.
Reached(k, lines, p) == Count(lines, p - 1) + (IF k = "csv" THEN 0 ELSE 1)

\* What it has sent is the beginning of its text, as far as the stream has come.
SentInv(k, r, e) ==
  /\ Len(e.sent) <= Len(Text(k, r, e.input))
  /\ \A i \in 1 .. Len(e.sent) : e.sent[i] = Text(k, r, e.input)[i]
  /\ e.pc = "stream" => Len(e.sent) = Reached(k, e.input, e.pos)
  /\ e.pc = "wait" \/ e.result = "ok" => Len(e.sent) = Len(Text(k, r, e.input))

\* COMMIT is executed last, and unless a statement has failed it is executed then; only a server
\* can have been asked for one, and it drops one only if the client has died.
CommitInv(k, r, e, c) ==
  /\ c.commit # "no" => k # "csv" /\ c.done = Len(Text(k, r, e.input)) /\ c.state # "none"
  /\ k # "csv" /\ ~c.errs /\ c.done = Len(Text(k, r, e.input)) => c.commit # "no"
  /\ c.commit = "asked" => k \in {"mysql", "postgres"} /\ c.state \in {"running", "failed"}
  /\ c.commit = "dropped" => k \in {"mysql", "postgres"} /\ c.state = "failed"

\* How many of the statements executed are rows.
InTx(c) == IF c.commit = "asked" THEN c.done - 2 ELSE IF c.done = 0 THEN 0 ELSE c.done - 1

\* An open transaction without an error holds the rows executed so far, and keeps them in the
\* server while a COMMIT is on its way, dead client or not.
TxInv(k, r, e, c) ==
  (c.state = "running" /\ ~c.errs /\ c.commit = "no") \/ c.commit = "asked" =>
    /\ Len(c.tx) = InTx(c)
    /\ \A j \in 1 .. Len(c.tx) : c.tx[j] = Text(k, r, e.input)[j + 1]

RunInv(k, r, e, c) == PlaceInv(k, e, c) /\ SentInv(k, r, e) /\ CommitInv(k, r, e, c) /\ TxInv(k, r, e, c)

\* The runs begin in order, and for csv and sqlite one after another.
OrderInv ==
  \A q, r \in Runs : q < r =>
    /\ ~At(r, "new") => ~At(q, "new")
    /\ Replaces /\ Busy(q) => At(r, "new")

\* Of a server, the table holds a run's rows once they have landed and nothing of it before.
ServerInv ==
  Server => \A r \in Runs :
    IF Landed(r) THEN Added(r) = RowsOf(r, ex[r].input)
    ELSE \A i \in 1 .. Len(table) : table[i].run # r

\* A CSV file holds the rows that have spilled, and in the end all of them.
CsvInv ==
  kind = "csv" => \A r \in Runs : ~Overtaken(r) =>
    /\ At(r, "stream") => /\ Len(table) = cl[r].done
                          /\ \A i \in 1 .. Len(table) : table[i] = ex[r].sent[i]
    /\ ex[r].result = "ok" => table = RowsOf(r, ex[r].input)

\* A SQLite file, as long as no statement has failed, nothing until COMMIT.
SqliteInv ==
  kind = "sqlite" => \A r \in Runs : ~Overtaken(r) /\ cl[r].state # "none" /\ ~cl[r].errs =>
    table = IF Landed(r) THEN RowsOf(r, ex[r].input) ELSE <<>>

TableInv == table \in Seq(Stmts) /\ ServerInv /\ CsvInv /\ SqliteInv

BaseInv ==
  /\ kind \in Kinds /\ db \in BOOLEAN
  /\ ex \in [Runs -> Exporters] /\ cl \in [Runs -> Clients]
  /\ \A r \in Runs : RunInv(kind, r, ex[r], cl[r])

IInv == BaseInv /\ OrderInv /\ TableInv

-----------------------------------------------------------------------------
\* Runs are numbered from 1.
LEMMA RunsNat ==
  ASSUME NEW r \in Runs
  PROVE  r \in Nat
BY ExportAssumption DEF Runs

\* What a step of run r does to the records, other runs and the kind being left alone.
Only(r) ==
  /\ kind' = kind
  /\ ex' = [ex EXCEPT ![r] = ex'[r]] /\ cl' = [cl EXCEPT ![r] = cl'[r]]

\* A run begins: nothing is sent.
LEMMA RunBegins ==
  ASSUME BaseInv, NEW r \in Runs, NEW f \in Traces, Begin(r, f)
  PROVE  Only(r) /\ RunInv(kind, r, ex'[r], cl'[r])
<1>1. PICK own \in {FALSE, OwnOutput(f)} :
        ex' = [ex EXCEPT ![r] = [NoExporter EXCEPT
                 !.pc = IF kind = "postgres" THEN "check" ELSE "start",
                 !.trace = f.lines, !.input = f.lines, !.own = own]]
  BY DEF Begin
<1>2. cl' = cl /\ kind' = kind /\ ex[r].pc = "new"
  BY DEF Begin, At
<1>3. cl[r] = NoClient
  BY <1>2 DEF BaseInv, RunInv, PlaceInv
<1>4. f.lines \in Seq(LineSet)
  BY ExportAssumption DEF LineSet
<1>5. ex'[r] = [pc |-> IF kind = "postgres" THEN "check" ELSE "start", result |-> "none",
                trace |-> f.lines, input |-> f.lines, own |-> own, pos |-> 1, sent |-> <<>>]
  BY <1>1 DEF BaseInv, NoExporter
<1>6. own \in BOOLEAN /\ (own => kind \in {"csv", "sqlite"})
  BY DEF OwnOutput, Replaces
<1>7. <<>> \in Seq(Stmts) /\ Len(<<>>) = 0
  BY EmptySeq
<1>8. Only(r)
  BY <1>1, <1>2 DEF Only, BaseInv
<1>9. ex'[r] \in Exporters /\ cl'[r] \in Clients /\ cl'[r] = NoClient
  BY <1>2, <1>3, <1>4, <1>5, <1>6, <1>7 DEF Exporters, BaseInv
<1>10. PlaceInv(kind, ex'[r], cl'[r])
  BY <1>4, <1>5, <1>6, <1>7, <1>9 DEF PlaceInv, NoClient
<1>11. /\ Text(kind, r, f.lines) \in Seq(Stmts)
       /\ kind # "csv" => Len(Text(kind, r, f.lines)) \in Nat /\ Len(Text(kind, r, f.lines)) >= 2
  BY <1>4, RunsNat, TextEnds
<1>12. SentInv(kind, r, ex'[r])
  BY <1>5, <1>7, <1>11 DEF SentInv
<1>13. TxInv(kind, r, ex'[r], cl'[r])
  BY <1>9 DEF TxInv, NoClient
<1>14. CommitInv(kind, r, ex'[r], cl'[r])
  BY <1>5, <1>9, <1>11 DEF CommitInv, NoClient
<1> QED
  BY <1>8, <1>10, <1>12, <1>13, <1>14 DEF RunInv

\* A step that only moves the exporter, or ends it, and leaves what it has sent.
LEMMA RunMoves ==
  ASSUME BaseInv, NEW r \in Runs, Only(r), cl'[r] = cl[r], ex'[r] \in Exporters,
         ex'[r].trace = ex[r].trace, ex'[r].input = ex[r].input, ex'[r].own = ex[r].own,
         ex'[r].pos = ex[r].pos, ex'[r].sent = ex[r].sent,
         \/ /\ ex'[r].pc \in {"create", "start"} /\ ex'[r].result = "none"
            /\ ex[r].pc \in {"check", "create"}
         \/ /\ ex'[r].pc = "abort" /\ ex'[r].result = "none"
            /\ ex[r].pc \in {"stream", "wait"} /\ kind # "csv"
         \/ /\ ex'[r].pc = "returned" /\ ex[r].pc \notin {"new", "returned"} /\ cl[r].state # "running"
            /\ \/ ex'[r].result = "error"
               \/ ex'[r].result = "ok" /\ cl[r].state = "ok" /\ ex[r].pc = "wait"
  PROVE  RunInv(kind, r, ex'[r], cl'[r])
<1>0. /\ PlaceInv(kind, ex[r], cl[r]) /\ SentInv(kind, r, ex[r]) /\ TxInv(kind, r, ex[r], cl[r])
      /\ CommitInv(kind, r, ex[r], cl[r])
  BY DEF BaseInv, RunInv
<1>3. PlaceInv(kind, ex'[r], cl'[r])
  BY <1>0 DEF PlaceInv
<1>4. SentInv(kind, r, ex'[r])
  BY <1>0 DEF SentInv
<1>5. TxInv(kind, r, ex'[r], cl'[r])
  BY <1>0 DEF TxInv
<1>6. CommitInv(kind, r, ex'[r], cl'[r])
  BY <1>0 DEF CommitInv
<1> QED
  BY <1>3, <1>4, <1>5, <1>6 DEF RunInv

\* Goes moves the exporter and Return ends it; nothing else of it changes.
LEMMA MovesOnly ==
  ASSUME BaseInv, NEW r \in Runs, cl' = cl, kind' = kind, ex[r].pc # "returned",
         NEW p \in {"create", "start", "abort", "returned"}, NEW res \in {"none", "ok", "error"},
         (Goes(r, p) /\ res = "none") \/ (Return(r, res) /\ p = "returned")
  PROVE  /\ Only(r) /\ cl'[r] = cl[r] /\ ex'[r] \in Exporters
         /\ ex'[r].trace = ex[r].trace /\ ex'[r].input = ex[r].input /\ ex'[r].own = ex[r].own
         /\ ex'[r].pos = ex[r].pos /\ ex'[r].sent = ex[r].sent
         /\ ex'[r].pc = p /\ ex'[r].result = res
<1>1. ex \in [Runs -> Exporters] /\ cl \in [Runs -> Clients] /\ ex[r] \in Exporters /\ ex[r].result = "none"
  BY DEF BaseInv, RunInv, PlaceInv
<1>2. CASE Goes(r, p) /\ res = "none"
  BY <1>1, <1>2 DEF Goes, Exporters, Only
<1>3. CASE Return(r, res) /\ p = "returned"
  BY <1>1, <1>3 DEF Return, Exporters, Only
<1> QED
  BY <1>2, <1>3

\* The steps that look, give up or report.
LEMMA RunReports ==
  ASSUME BaseInv, NEW r \in Runs,
         \/ Refuse(r) \/ CheckDatabase(r) \/ CreateDatabase(r) \/ StartFails(r) \/ StreamFails(r)
         \/ StreamBreaks(r) \/ FlushFails(r) \/ CloseFails(r) \/ Wait(r) \/ CsvFlushFails(r)
  PROVE  Only(r) /\ RunInv(kind, r, ex'[r], cl'[r])
<1>0. PlaceInv(kind, ex[r], cl[r]) /\ cl' = cl /\ kind' = kind
  BY DEF BaseInv, RunInv, Refuse, CheckDatabase, CreateDatabase, StartFails, StreamFails, StreamBreaks, GiveUp,
         FlushFails, CloseFails, Wait, CsvFlushFails
<1>1. ex[r].pc \in {"check", "create", "start"} => cl[r].state = "none"
  BY <1>0 DEF PlaceInv, NoClient
<1>2. kind = "csv" => cl[r].state = "none"
  BY <1>0 DEF PlaceInv
<1>3. ASSUME Return(r, "error"), ex[r].pc \notin {"new", "returned"}, cl[r].state # "running"
      PROVE  Only(r) /\ RunInv(kind, r, ex'[r], cl'[r])
  BY <1>0, <1>3, MovesOnly, RunMoves
<1>4. ASSUME NEW p, Goes(r, p), ex[r].pc # "returned",
             \/ p \in {"create", "start"} /\ ex[r].pc \in {"check", "create"}
             \/ p = "abort" /\ ex[r].pc \in {"stream", "wait"} /\ kind # "csv"
      PROVE  Only(r) /\ RunInv(kind, r, ex'[r], cl'[r])
  BY <1>0, <1>4, MovesOnly, RunMoves
<1>5. CASE Refuse(r) \/ StartFails(r)
  BY <1>1, <1>3, <1>5 DEF Refuse, StartFails, At
<1>6. CASE CheckDatabase(r)
  BY <1>4, <1>6 DEF CheckDatabase, At
<1>7. CASE CreateDatabase(r)
  BY <1>1, <1>3, <1>4, <1>7 DEF CreateDatabase, At
<1>8. CASE StreamFails(r) \/ StreamBreaks(r)
  BY <1>2, <1>3, <1>4, <1>8 DEF StreamFails, StreamBreaks, GiveUp, At
<1>9. CASE FlushFails(r) \/ CloseFails(r)
  <2>1. kind # "csv"
    BY <1>0, <1>9 DEF FlushFails, CloseFails, At, PlaceInv
  <2> QED
    BY <1>4, <1>9, <2>1 DEF FlushFails, CloseFails, At
<1>10. CASE Wait(r)
  <2>1. ex[r].pc = "wait" /\ cl[r].state # "running"
    BY <1>10 DEF Wait, At, Running
  <2>2. CASE cl[r].state = "ok" /\ Return(r, "ok")
    BY <1>0, <2>1, <2>2, MovesOnly, RunMoves
  <2>3. CASE Return(r, "error")
    BY <1>3, <2>1, <2>3
  <2> QED
    BY <1>10, <2>2, <2>3 DEF Wait
<1>11. CASE CsvFlushFails(r)
  BY <1>2, <1>3, <1>11 DEF CsvFlushFails, At
<1> QED
  BY <1>5, <1>6, <1>7, <1>8, <1>9, <1>10, <1>11

\* The client is started.
LEMMA RunStarts ==
  ASSUME BaseInv, NEW r \in Runs, Start(r)
  PROVE  Only(r) /\ RunInv(kind, r, ex'[r], cl'[r])
<1>0. /\ ex \in [Runs -> Exporters] /\ cl \in [Runs -> Clients] /\ ex[r] \in Exporters
      /\ PlaceInv(kind, ex[r], cl[r]) /\ r \in Nat /\ kind' = kind /\ ex[r].pc = "start"
  BY RunsNat DEF BaseInv, RunInv, Start, At
<1>1. /\ cl[r] = NoClient /\ ex[r].pos = 1 /\ ex[r].result = "none" /\ ex[r].trace \in Seq(LineSet)
      /\ ex[r].own \in BOOLEAN /\ (ex[r].own => kind \in {"csv", "sqlite"})
  BY <1>0 DEF PlaceInv, Exporters
<1>2. PICK lines \in Found(r) :
        ex' = [ex EXCEPT ![r].pc = "stream", ![r].input = lines,
                         ![r].sent = IF kind = "csv" THEN <<>> ELSE <<Schema(r)>>]
  BY DEF Start
<1>3. lines \in Seq(LineSet) /\ (~ex[r].own => lines = ex[r].trace)
  <2>1. <<>> \in Seq(LineSet) /\ <<"bad">> \in Seq(LineSet)
    BY DEF LineSet
  <2> QED
    BY <1>1, <1>2, <2>1 DEF Found
<1> DEFINE first == IF kind = "csv" THEN <<>> ELSE <<Schema(r)>>
<1>4. first \in Seq(Stmts) /\ Len(first) = (IF kind = "csv" THEN 0 ELSE 1) /\ (kind # "csv" => first[1] = Schema(r))
  <2>1. Schema(r) \in Stmts
    BY <1>0 DEF Schema, Stmts
  <2> QED
    BY <2>1
<1> HIDE DEF first
<1>5. /\ ex'[r] \in Exporters /\ ex'[r].pc = "stream" /\ ex'[r].result = "none" /\ ex'[r].trace = ex[r].trace
      /\ ex'[r].input = lines /\ ex'[r].own = ex[r].own /\ ex'[r].pos = 1 /\ ex'[r].sent = first
  BY <1>0, <1>1, <1>2, <1>3, <1>4 DEF Exporters, first
<1>6. /\ cl'[r] \in Clients /\ cl'[r].state = (IF kind = "csv" THEN "none" ELSE "running") /\ cl'[r].done = 0
      /\ cl'[r].tx = <<>> /\ cl'[r].errs = FALSE /\ cl'[r].auto = FALSE /\ cl'[r].commit = "no"
  <2>1. cl' = IF kind = "csv" THEN cl ELSE [cl EXCEPT ![r].state = "running"]
    BY DEF Start
  <2>2. CASE kind = "csv"
    BY <1>0, <1>1, <2>1, <2>2 DEF NoClient
  <2>3. CASE kind # "csv"
    <3>1. cl'[r] = [cl[r] EXCEPT !.state = "running"] /\ cl[r] \in Clients
      BY <1>0, <2>1, <2>3
    <3>2. cl[r].done = 0 /\ cl[r].tx = <<>> /\ cl[r].errs = FALSE /\ cl[r].auto = FALSE /\ cl[r].commit = "no"
      BY <1>1 DEF NoClient
    <3> QED
      BY <2>3, <3>1, <3>2 DEF Clients
  <2> QED
    BY <2>2, <2>3
<1>7. Only(r)
  <2>1. ex' = [ex EXCEPT ![r] = ex'[r]]
    BY <1>0, <1>2
  <2>2. cl' = [cl EXCEPT ![r] = cl'[r]]
    BY <1>0 DEF Start
  <2> QED
    BY <1>0, <2>1, <2>2 DEF Only
<1>8. PlaceInv(kind, ex'[r], cl'[r])
  <2>1. Len(lines) \in Nat /\ Len(first) \in Nat
    BY <1>3, <1>4
  <2> QED
    BY <1>1, <1>3, <1>4, <1>5, <1>6, <2>1 DEF PlaceInv
<1>9. SentInv(kind, r, ex'[r])
  <2>1. Count(lines, 0) = 0 /\ 1 - 1 = 0
    BY CountNext
  <2>2. /\ Text(kind, r, lines) \in Seq(Stmts) /\ Len(Text(kind, r, lines)) \in Nat
        /\ kind # "csv" => Len(Text(kind, r, lines)) >= 2 /\ Text(kind, r, lines)[1] = Schema(r)
    BY <1>0, <1>3, TextEnds
  <2>3. Len(first) <= Len(Text(kind, r, lines)) /\ \A i \in 1 .. Len(first) : first[i] = Text(kind, r, lines)[i]
    <3>1. CASE kind = "csv"
      BY <1>4, <2>2, <3>1
    <3>2. CASE kind # "csv"
      BY <1>4, <2>2, <3>2
    <3> QED
      BY <3>1, <3>2
  <2>4. Len(first) = Reached(kind, lines, 1)
    BY <1>4, <2>1 DEF Reached
  <2> QED
    BY <1>5, <2>3, <2>4 DEF SentInv
<1>10. TxInv(kind, r, ex'[r], cl'[r])
  <2>1. Len(<<>>) = 0
    BY EmptySeq
  <2> QED
    BY <1>5, <1>6, <2>1 DEF TxInv, InTx
<1>11. CommitInv(kind, r, ex'[r], cl'[r])
  <2>1. kind # "csv" => Len(Text(kind, r, lines)) \in Nat /\ Len(Text(kind, r, lines)) >= 2
    BY <1>0, <1>3, TextEnds
  <2> QED
    BY <1>5, <1>6, <2>1 DEF CommitInv
<1> QED
  BY <1>7, <1>8, <1>9, <1>10, <1>11 DEF RunInv

\* The next chunk of a text.
LEMMA TextGrows ==
  ASSUME NEW S, NEW s \in Seq(S), NEW t \in Seq(S), NEW x \in S, Len(s) + 1 <= Len(t),
         \A i \in 1 .. Len(s) : s[i] = t[i], x = t[Len(s) + 1]
  PROVE  /\ Append(s, x) \in Seq(S) /\ Len(Append(s, x)) = Len(s) + 1
         /\ \A i \in 1 .. Len(Append(s, x)) : Append(s, x)[i] = t[i]
<1>1. /\ Append(s, x) \in Seq(S) /\ Len(Append(s, x)) = Len(s) + 1 /\ Len(s) \in Nat
      /\ \A i \in 1 .. Len(s) : Append(s, x)[i] = s[i] /\ Append(s, x)[Len(s) + 1] = x
  BY AppendProperties
<1>2. ASSUME NEW i \in 1 .. Len(s) + 1 PROVE Append(s, x)[i] = t[i]
  <2>1. i \in 1 .. Len(s) \/ i = Len(s) + 1
    BY <1>1
  <2>2. Append(s, x)[Len(s) + 1] = x
    BY <1>1, AppendProperties
  <2> QED
    BY <1>1, <2>1, <2>2
<1> QED
  BY <1>1, <1>2

\* The row for the line the stream is at is the next of the text; after the last line COMMIT is.
LEMMA TextNext ==
  ASSUME NEW k, NEW r \in Nat, NEW lines \in Seq(LineSet), NEW p \in 1 .. Len(lines) + 1
  PROVE  /\ Reached(k, lines, p) \in Nat /\ Row(r, p) \in Stmts /\ Commit(r) \in Stmts
         /\ p <= Len(lines) /\ lines[p] = "row" =>
              /\ Reached(k, lines, p) + 1 <= Len(Text(k, r, lines))
              /\ Text(k, r, lines)[Reached(k, lines, p) + 1] = Row(r, p)
              /\ Reached(k, lines, p + 1) = Reached(k, lines, p) + 1
         /\ p <= Len(lines) /\ lines[p] # "row" => Reached(k, lines, p + 1) = Reached(k, lines, p)
         /\ p = Len(lines) + 1 /\ k # "csv" =>
              /\ Reached(k, lines, p) + 1 = Len(Text(k, r, lines))
              /\ Text(k, r, lines)[Reached(k, lines, p) + 1] = Commit(r)
         /\ p = Len(lines) + 1 /\ k = "csv" => Reached(k, lines, p) = Len(Text(k, r, lines))
<1> DEFINE m == Count(lines, p - 1) + (IF k = "csv" THEN 0 ELSE 1)
           T == Text(k, r, lines)
<1>0. Len(lines) \in Nat /\ p - 1 \in Nat /\ p \in Nat /\ (p - 1) + 1 = p
  OBVIOUS
<1>1. Count(lines, p - 1) \in Nat
  BY <1>0, CountNext
<1>2. Count(lines, p) = IF lines[p] = "row" THEN Count(lines, p - 1) + 1 ELSE Count(lines, p - 1)
  <2>1. Count(lines, (p - 1) + 1)
          = IF lines[(p - 1) + 1] = "row" THEN Count(lines, p - 1) + 1 ELSE Count(lines, p - 1)
    BY <1>0, CountNext
  <2> QED
    BY <1>0, <2>1
<1>3. m \in Nat /\ Row(r, p) \in Stmts /\ Commit(r) \in Stmts
  BY <1>0, <1>1 DEF Row, Commit, Stmts
<1>4. ASSUME p <= Len(lines), lines[p] = "row" PROVE m + 1 <= Len(T) /\ T[m + 1] = Row(r, p)
  <2>1. Count(lines, p) \in 1 .. Len(RowsOf(r, lines)) /\ RowsOf(r, lines)[Count(lines, p)] = Row(r, p)
    <3>1. p \in 1 .. Len(lines)
      BY <1>0, <1>4
    <3> QED
      BY <1>4, <3>1, RowsAt
  <2>2. Len(RowsOf(r, lines)) \in Nat
    BY TextAt
  <2>3. CASE k = "csv"
    <3>1. T = RowsOf(r, lines)
      BY <2>3, TextAt
    <3>2. m + 1 = Count(lines, p)
      BY <1>1, <1>2, <1>4, <2>3
    <3> HIDE DEF T, m
    <3> QED
      BY <2>1, <2>2, <3>1, <3>2
  <2>4. CASE k # "csv"
    <3>1. m + 1 = Count(lines, p) + 1
      BY <1>1, <1>2, <1>4, <2>4
    <3>2. Len(T) = Len(RowsOf(r, lines)) + 2
            /\ \A j \in 1 .. Len(RowsOf(r, lines)) : T[j + 1] = RowsOf(r, lines)[j]
      BY <2>4, TextAt
    <3> HIDE DEF T, m
    <3> QED
      BY <2>1, <2>2, <3>1, <3>2
  <2> QED
    BY <2>3, <2>4
<1>5. ASSUME p = Len(lines) + 1, k # "csv" PROVE m + 1 = Len(T) /\ T[m + 1] = Commit(r)
  <2>1. p - 1 = Len(lines)
    BY <1>0, <1>5
  <2>2. Len(T) = Count(lines, Len(lines)) + 2 /\ T[Len(T)] = Commit(r)
    BY <1>5, TextEnds
  <2>3. m + 1 = Len(T)
    BY <1>1, <1>5, <2>1, <2>2
  <2> QED
    BY <2>2, <2>3
<1>6. ASSUME p = Len(lines) + 1, k = "csv" PROVE m = Len(T)
  <2>1. p - 1 = Len(lines)
    BY <1>0, <1>6
  <2>2. Len(T) = Count(lines, Len(lines))
    BY <1>6, TextEnds
  <2> QED
    BY <1>1, <1>6, <2>1, <2>2
<1>7. (p + 1) - 1 = p /\ Reached(k, lines, p) = m
  BY <1>0 DEF Reached
<1>8. Reached(k, lines, p + 1) = IF lines[p] = "row" THEN m + 1 ELSE m
  BY <1>1, <1>2, <1>7 DEF Reached
<1> HIDE DEF T, m
<1> QED
  BY <1>3, <1>4, <1>5, <1>6, <1>7, <1>8 DEF T

\* Lines are passed over and rows and COMMIT are sent.
LEMMA RunStreams ==
  ASSUME BaseInv, NEW r \in Runs, SkipBlank(r) \/ WriteRow(r) \/ SendCommit(r)
  PROVE  Only(r) /\ RunInv(kind, r, ex'[r], cl'[r])
<1>0. /\ ex \in [Runs -> Exporters] /\ cl \in [Runs -> Clients] /\ ex[r] \in Exporters
      /\ PlaceInv(kind, ex[r], cl[r]) /\ SentInv(kind, r, ex[r]) /\ TxInv(kind, r, ex[r], cl[r])
      /\ CommitInv(kind, r, ex[r], cl[r])
      /\ r \in Nat /\ kind' = kind /\ cl' = cl /\ ex[r].pc = "stream"
  BY RunsNat DEF BaseInv, RunInv, SkipBlank, WriteRow, SendCommit, At
<1> DEFINE lines == ex[r].input
           p == ex[r].pos
           s == ex[r].sent
           T == Text(kind, r, lines)
           m == Reached(kind, lines, p)
<1>1. /\ lines \in Seq(LineSet) /\ p \in Nat /\ s \in Seq(Stmts) /\ Len(lines) \in Nat /\ Len(s) \in Nat
      /\ ex[r].result = "none" /\ cl[r].done \in Nat
  <2>1. lines \in Seq(LineSet) /\ p \in Nat /\ s \in Seq(Stmts)
    BY <1>0 DEF Exporters
  <2>2. ex[r].result = "none" /\ cl[r].done \in Nat
    BY <1>0 DEF PlaceInv, Clients
  <2> QED
    BY <2>1, <2>2
<1>2. p \in 1 .. Len(lines) + 1
  BY <1>0, <1>1 DEF PlaceInv
<1>5. Len(s) <= Len(T) /\ (\A i \in 1 .. Len(s) : s[i] = T[i]) /\ Len(s) = m
  BY <1>0 DEF SentInv
<1> HIDE DEF lines, p, s
<1>3. /\ m \in Nat /\ Row(r, p) \in Stmts /\ Commit(r) \in Stmts
      /\ p <= Len(lines) /\ lines[p] = "row" =>
           m + 1 <= Len(T) /\ T[m + 1] = Row(r, p) /\ Reached(kind, lines, p + 1) = m + 1
      /\ p <= Len(lines) /\ lines[p] # "row" => Reached(kind, lines, p + 1) = m
      /\ p = Len(lines) + 1 /\ kind # "csv" => m + 1 = Len(T) /\ T[m + 1] = Commit(r)
  <2>0. r \in Nat /\ lines \in Seq(LineSet) /\ p \in 1 .. Len(lines) + 1
    BY <1>0, <1>1, <1>2
  <2>1. m \in Nat /\ Row(r, p) \in Stmts /\ Commit(r) \in Stmts
    BY ONLY <2>0, TextNext
  <2>2. p <= Len(lines) /\ lines[p] = "row" =>
          m + 1 <= Len(T) /\ T[m + 1] = Row(r, p) /\ Reached(kind, lines, p + 1) = m + 1
    BY ONLY <2>0, TextNext
  <2>3. p <= Len(lines) /\ lines[p] # "row" => Reached(kind, lines, p + 1) = m
    BY ONLY <2>0, TextNext
  <2>4. p = Len(lines) + 1 /\ kind # "csv" => m + 1 = Len(T) /\ T[m + 1] = Commit(r)
    BY ONLY <2>0, TextNext
  <2> HIDE DEF T, m
  <2> QED
    BY <2>1, <2>2, <2>3, <2>4
<1>4. T \in Seq(Stmts) /\ Len(T) \in Nat
  BY <1>0, <1>1, TextEnds
<1> HIDE DEF T, m
<1>6. CASE SkipBlank(r)
  <2>1. p <= Len(lines) /\ lines[p] # "row" /\ ex' = [ex EXCEPT ![r].pos = @ + 1]
    BY <1>6 DEF SkipBlank, More, NextLine, lines, p
  <2>2. /\ Only(r) /\ ex'[r] \in Exporters /\ ex'[r].pc = "stream" /\ ex'[r].result = "none"
        /\ ex'[r].trace = ex[r].trace /\ ex'[r].input = lines /\ ex'[r].own = ex[r].own
        /\ ex'[r].pos = p + 1 /\ ex'[r].sent = s
    <3>1. Only(r)
      BY <1>0, <2>1 DEF Only
    <3>2. ex'[r] = [ex[r] EXCEPT !.pos = p + 1] /\ p + 1 \in Nat
      BY <1>0, <1>1, <2>1 DEF p
    <3> QED
      BY <1>0, <1>1, <3>1, <3>2 DEF Exporters, lines, s
  <2>4. PlaceInv(kind, ex'[r], cl'[r])
    BY <1>0, <1>1, <2>1, <2>2 DEF PlaceInv, lines, p, s
  <2>5. SentInv(kind, r, ex'[r])
    BY <1>3, <1>5, <2>1, <2>2 DEF SentInv, T
  <2>6. TxInv(kind, r, ex'[r], cl'[r]) /\ CommitInv(kind, r, ex'[r], cl'[r])
    BY <1>0, <2>2 DEF TxInv, CommitInv, lines
  <2> QED
    BY <2>2, <2>4, <2>5, <2>6 DEF RunInv
<1>7. CASE WriteRow(r)
  <2>1. /\ p <= Len(lines) /\ lines[p] = "row"
        /\ ex' = [ex EXCEPT ![r].pos = @ + 1, ![r].sent = Append(@, Row(r, ex[r].pos))]
    BY <1>7 DEF WriteRow, More, NextLine, lines, p
  <2> DEFINE u == Append(s, Row(r, p))
  <2>2. /\ u \in Seq(Stmts) /\ Len(u) = Len(s) + 1 /\ \A i \in 1 .. Len(u) : u[i] = T[i]
    BY <1>1, <1>3, <1>4, <1>5, <2>1, TextGrows
  <2> HIDE DEF u
  <2>3. /\ Only(r) /\ ex'[r] \in Exporters /\ ex'[r].pc = "stream" /\ ex'[r].result = "none"
        /\ ex'[r].trace = ex[r].trace /\ ex'[r].input = lines /\ ex'[r].own = ex[r].own
        /\ ex'[r].pos = p + 1 /\ ex'[r].sent = u
    BY <1>0, <1>1, <2>1, <2>2 DEF Exporters, Only, u, lines, p, s
  <2>5. PlaceInv(kind, ex'[r], cl'[r])
    BY <1>0, <1>1, <2>1, <2>2, <2>3 DEF PlaceInv, lines, p, s
  <2>6. SentInv(kind, r, ex'[r])
    BY <1>3, <1>4, <1>5, <2>1, <2>2, <2>3 DEF SentInv, T
  <2>7. TxInv(kind, r, ex'[r], cl'[r]) /\ CommitInv(kind, r, ex'[r], cl'[r])
    BY <1>0, <2>3 DEF TxInv, CommitInv, lines
  <2> QED
    BY <2>3, <2>5, <2>6, <2>7 DEF RunInv
<1>8. CASE SendCommit(r)
  <2>1. /\ p = Len(lines) + 1 /\ kind # "csv"
        /\ ex' = [ex EXCEPT ![r].pc = "wait", ![r].sent = Append(@, Commit(r))]
    BY <1>1, <1>2, <1>8 DEF SendCommit, More, lines, p
  <2> DEFINE u == Append(s, Commit(r))
  <2>2. /\ u \in Seq(Stmts) /\ Len(u) = Len(s) + 1 /\ \A i \in 1 .. Len(u) : u[i] = T[i]
    BY <1>1, <1>3, <1>4, <1>5, <2>1, TextGrows
  <2> HIDE DEF u
  <2>3. /\ Only(r) /\ ex'[r] \in Exporters /\ ex'[r].pc = "wait" /\ ex'[r].result = "none"
        /\ ex'[r].trace = ex[r].trace /\ ex'[r].input = lines /\ ex'[r].own = ex[r].own
        /\ ex'[r].pos = p /\ ex'[r].sent = u
    BY <1>0, <1>1, <2>1, <2>2 DEF Exporters, Only, u, lines, p, s
  <2>4. PlaceInv(kind, ex'[r], cl'[r])
    BY <1>0, <1>1, <2>1, <2>2, <2>3 DEF PlaceInv, lines, p, s
  <2>5. SentInv(kind, r, ex'[r])
    <3>1. Len(u) = Len(T)
      BY <1>3, <1>4, <1>5, <2>1, <2>2
    <3>2. Text(kind, r, ex'[r].input) = T /\ ex'[r].sent = u /\ ex'[r].pc # "stream" /\ Len(T) <= Len(T)
      BY <1>4, <2>3 DEF T
    <3> QED
      BY <2>2, <3>1, <3>2 DEF SentInv
  <2>6. TxInv(kind, r, ex'[r], cl'[r]) /\ CommitInv(kind, r, ex'[r], cl'[r])
    BY <1>0, <2>3 DEF TxInv, CommitInv, lines
  <2> QED
    BY <2>3, <2>4, <2>5, <2>6 DEF RunInv
<1> QED
  BY <1>6, <1>7, <1>8

\* An exporter gives up on its client, or is killed.
LEMMA RunEnds ==
  ASSUME BaseInv, NEW r \in Runs, Abort(r) \/ Killed(r)
  PROVE  Only(r) /\ RunInv(kind, r, ex'[r], cl'[r])
<1>0. /\ ex \in [Runs -> Exporters] /\ cl \in [Runs -> Clients] /\ ex[r] \in Exporters /\ cl[r] \in Clients
      /\ PlaceInv(kind, ex[r], cl[r]) /\ SentInv(kind, r, ex[r]) /\ TxInv(kind, r, ex[r], cl[r])
      /\ CommitInv(kind, r, ex[r], cl[r]) /\ kind' = kind
  BY DEF BaseInv, RunInv, Abort, Killed
<1>1. <<>> \in Seq(Stmts) /\ Len(<<>>) = 0
  BY EmptySeq
<1>2. CASE Abort(r)
  <2>1. /\ ex[r].pc = "abort" /\ ex' = [ex EXCEPT ![r].pc = "returned", ![r].result = "error"]
        /\ cl' = [cl EXCEPT ![r].state = "failed", ![r].tx = IF Server THEN @ ELSE <<>>]
    BY <1>2 DEF Abort, At, Gone, Return
  <2>2. Only(r)
    BY <1>0, <2>1 DEF Only
  <2>3. /\ ex'[r] \in Exporters /\ ex'[r].pc = "returned" /\ ex'[r].result = "error"
        /\ ex'[r].trace = ex[r].trace /\ ex'[r].input = ex[r].input /\ ex'[r].own = ex[r].own
        /\ ex'[r].pos = ex[r].pos /\ ex'[r].sent = ex[r].sent
    BY <1>0, <2>1 DEF Exporters
  <2>4. /\ cl'[r] \in Clients /\ cl'[r].state = "failed" /\ cl'[r].done = cl[r].done
        /\ cl'[r].tx = (IF Server THEN cl[r].tx ELSE <<>>) /\ cl'[r].commit = cl[r].commit
        /\ cl'[r].errs = cl[r].errs /\ cl'[r].auto = cl[r].auto
    BY <1>0, <1>1, <2>1 DEF Clients
  <2>5. PlaceInv(kind, ex'[r], cl'[r])
    BY <1>0, <2>1, <2>3, <2>4 DEF PlaceInv
  <2>6. SentInv(kind, r, ex'[r])
    BY <1>0, <2>3 DEF SentInv
  <2>7. CommitInv(kind, r, ex'[r], cl'[r])
    BY <1>0, <2>1, <2>3, <2>4 DEF CommitInv, PlaceInv
  <2>8. TxInv(kind, r, ex'[r], cl'[r])
    BY <1>0, <2>3, <2>4 DEF TxInv, InTx, CommitInv, Server
  <2> QED
    BY <2>2, <2>5, <2>6, <2>7, <2>8 DEF RunInv
<1>3. CASE Killed(r)
  <2>1. PICK n \in cl[r].done .. Len(ex[r].sent) :
          ex' = [ex EXCEPT ![r].pc = "returned", ![r].result = "killed", ![r].sent = SubSeq(@, 1, n)]
    BY <1>3 DEF Killed
  <2>2. cl' = cl /\ ex[r].pc \notin {"new", "returned"}
    BY <1>3 DEF Killed
  <2>3. /\ ex[r].sent \in Seq(Stmts) /\ Len(ex[r].sent) \in Nat /\ cl[r].done \in Nat
        /\ n \in Nat /\ n <= Len(ex[r].sent) /\ cl[r].done <= n
    <3>1. ex[r].sent \in Seq(Stmts) /\ cl[r].done \in Nat
      BY <1>0 DEF Exporters, Clients
    <3>2. Len(ex[r].sent) \in Nat
      BY <3>1
    <3> QED
      BY <3>1, <3>2
  <2> DEFINE u == SubSeq(ex[r].sent, 1, n)
  <2>4. u \in Seq(Stmts) /\ Len(u) = n /\ \A i \in 1 .. n : u[i] = ex[r].sent[i]
    <3>1. ASSUME NEW s \in Seq(Stmts), n <= Len(s)
          PROVE  SubSeq(s, 1, n) \in Seq(Stmts) /\ Len(SubSeq(s, 1, n)) = n /\ \A i \in 1 .. n : SubSeq(s, 1, n)[i] = s[i]
      BY <2>3, <3>1
    <3> QED
      BY <2>3, <3>1
  <2> HIDE DEF u
  <2>5. Only(r)
    BY <1>0, <2>1, <2>2 DEF Only
  <2>6. /\ ex'[r] \in Exporters /\ ex'[r].pc = "returned" /\ ex'[r].result = "killed"
        /\ ex'[r].trace = ex[r].trace /\ ex'[r].input = ex[r].input /\ ex'[r].own = ex[r].own
        /\ ex'[r].pos = ex[r].pos /\ ex'[r].sent = u
    BY <1>0, <2>1, <2>4 DEF Exporters, u
  <2>7. PlaceInv(kind, ex'[r], cl'[r])
    BY <1>0, <2>2, <2>3, <2>4, <2>6 DEF PlaceInv
  <2>8. SentInv(kind, r, ex'[r])
    <3>1. Len(Text(kind, r, ex[r].input)) \in Nat
      <4>1. ex[r].input \in Seq(LineSet) /\ r \in Nat
        BY <1>0, RunsNat DEF Exporters
      <4> QED
        BY <4>1, TextEnds
    <3>2. /\ Len(ex[r].sent) <= Len(Text(kind, r, ex[r].input))
          /\ \A i \in 1 .. Len(ex[r].sent) : ex[r].sent[i] = Text(kind, r, ex[r].input)[i]
      BY <1>0 DEF SentInv
    <3>3. Len(u) <= Len(Text(kind, r, ex[r].input)) /\ \A i \in 1 .. Len(u) : u[i] = Text(kind, r, ex[r].input)[i]
      BY <2>3, <2>4, <3>1, <3>2
    <3> QED
      BY <2>6, <3>3 DEF SentInv
  <2>9. TxInv(kind, r, ex'[r], cl'[r]) /\ CommitInv(kind, r, ex'[r], cl'[r])
    BY <1>0, <2>2, <2>6 DEF TxInv, CommitInv
  <2> QED
    BY <2>5, <2>7, <2>8, <2>9 DEF RunInv
<1> QED
  BY <1>2, <1>3

\* The CSV file takes a row, or the rest of them.
LEMMA RunCsv ==
  ASSUME BaseInv, NEW r \in Runs, CsvSpill(r) \/ CsvFlush(r)
  PROVE  Only(r) /\ RunInv(kind, r, ex'[r], cl'[r])
<1>0. /\ ex \in [Runs -> Exporters] /\ cl \in [Runs -> Clients] /\ ex[r] \in Exporters /\ cl[r] \in Clients
      /\ PlaceInv(kind, ex[r], cl[r]) /\ SentInv(kind, r, ex[r]) /\ CommitInv(kind, r, ex[r], cl[r])
      /\ kind' = kind /\ kind = "csv" /\ ex[r].pc = "stream"
  BY DEF BaseInv, RunInv, CsvSpill, CsvFlush, At
<1>1. /\ ex[r].sent \in Seq(Stmts) /\ cl[r].done \in Nat /\ ex[r].input \in Seq(LineSet) /\ ex[r].pos \in Nat
      /\ r \in Nat
  BY <1>0, RunsNat DEF Exporters, Clients
<1>2. Len(ex[r].sent) \in Nat /\ Len(ex[r].input) \in Nat
  BY <1>1
<1>3. CASE CsvSpill(r)
  <2>1. cl[r].done < Len(ex[r].sent) /\ cl' = [cl EXCEPT ![r].done = @ + 1] /\ ex' = ex
    BY <1>3 DEF CsvSpill
  <2>2. Only(r)
    BY <1>0, <2>1 DEF Only
  <2>3. cl'[r] \in Clients /\ cl'[r].done = cl[r].done + 1 /\ cl'[r].state = cl[r].state
          /\ cl'[r].tx = cl[r].tx /\ cl'[r].errs = cl[r].errs /\ cl'[r].auto = cl[r].auto
          /\ cl'[r].commit = cl[r].commit
    <3>1. cl'[r] = [cl[r] EXCEPT !.done = cl[r].done + 1] /\ cl[r].done + 1 \in Nat
      BY <1>0, <1>1, <2>1
    <3> QED
      BY <1>0, <3>1 DEF Clients
  <2>4. PlaceInv(kind, ex'[r], cl'[r])
    BY <1>0, <1>1, <1>2, <2>1, <2>3 DEF PlaceInv
  <2>5. SentInv(kind, r, ex'[r])
    BY <1>0, <2>1
  <2>6. TxInv(kind, r, ex'[r], cl'[r]) /\ CommitInv(kind, r, ex'[r], cl'[r])
    BY <1>0, <2>3 DEF TxInv, CommitInv, PlaceInv
  <2> QED
    BY <2>2, <2>4, <2>5, <2>6 DEF RunInv
<1>4. CASE CsvFlush(r)
  <2>1. /\ ~More(r) /\ cl' = [cl EXCEPT ![r].done = Len(ex[r].sent)]
        /\ ex' = [ex EXCEPT ![r].pc = "returned", ![r].result = "ok"]
    BY <1>4 DEF CsvFlush, Return
  <2>2. Only(r)
    BY <1>0, <2>1 DEF Only
  <2>3. cl'[r] \in Clients /\ cl'[r].done = Len(ex[r].sent) /\ cl'[r].state = cl[r].state
          /\ cl'[r].tx = cl[r].tx /\ cl'[r].errs = cl[r].errs /\ cl'[r].auto = cl[r].auto
          /\ cl'[r].commit = cl[r].commit
    BY <1>0, <1>2, <2>1 DEF Clients
  <2>4. /\ ex'[r] \in Exporters /\ ex'[r].pc = "returned" /\ ex'[r].result = "ok"
        /\ ex'[r].trace = ex[r].trace /\ ex'[r].input = ex[r].input /\ ex'[r].own = ex[r].own
        /\ ex'[r].pos = ex[r].pos /\ ex'[r].sent = ex[r].sent
    BY <1>0, <2>1 DEF Exporters
  <2>5. PlaceInv(kind, ex'[r], cl'[r])
    BY <1>0, <1>2, <2>3, <2>4 DEF PlaceInv
  <2>6. Len(ex[r].sent) = Len(Text(kind, r, ex[r].input))
    <3>1. ex[r].pos = Len(ex[r].input) + 1 /\ ex[r].pos \in 1 .. Len(ex[r].input) + 1
      BY <1>0, <1>1, <1>2, <2>1 DEF More, PlaceInv
    <3>2. Reached(kind, ex[r].input, ex[r].pos) = Len(Text(kind, r, ex[r].input))
      BY <1>0, <1>1, <3>1, TextNext
    <3> QED
      BY <1>0, <3>2 DEF SentInv
  <2>7. SentInv(kind, r, ex'[r])
    BY <1>0, <2>4, <2>6 DEF SentInv
  <2>8. TxInv(kind, r, ex'[r], cl'[r]) /\ CommitInv(kind, r, ex'[r], cl'[r])
    BY <1>0, <2>3 DEF TxInv, CommitInv, PlaceInv
  <2> QED
    BY <2>2, <2>5, <2>7, <2>8 DEF RunInv
<1> QED
  BY <1>3, <1>4

\* The client of run r executes, fails, or ends.
ClientStep(r) ==
  \/ CliSchema(r) \/ CliRow(r) \/ CliCommit(r) \/ CliStops(r) \/ SqliteGoesOn(r) \/ CliEnd(r) \/ CliDies(r)

\* What a step of the client does to its record: one case per action.
ClientMoves(r) ==
  \/ /\ cl'[r].state = "running" /\ cl'[r].done = cl[r].done + 1 /\ cl[r].done < Len(ex[r].sent)
     /\ \/ /\ CliSchema(r) /\ Statement(r) = Schema(r) /\ cl'[r].tx = cl[r].tx
           /\ cl'[r].errs = cl[r].errs /\ cl'[r].auto = cl[r].auto /\ cl'[r].commit = cl[r].commit
        \/ /\ CliRow(r) /\ Statement(r) \notin {Schema(r), Commit(r)}
           /\ cl'[r].tx = IF cl[r].auto THEN cl[r].tx ELSE Append(cl[r].tx, Statement(r))
           /\ cl'[r].errs = cl[r].errs /\ cl'[r].auto = cl[r].auto /\ cl'[r].commit = cl[r].commit
        \/ /\ CliCommit(r) /\ Statement(r) = Commit(r)
           /\ cl'[r].tx = (IF Server THEN cl[r].tx ELSE <<>>)
           /\ cl'[r].commit = (IF Server THEN "asked" ELSE "done")
           /\ cl'[r].errs = cl[r].errs /\ cl'[r].auto = cl[r].auto
        \/ SqliteGoesOn(r) /\ kind = "sqlite" /\ cl'[r].errs = TRUE /\ cl'[r].commit = cl[r].commit
  \/ /\ CliStops(r) /\ kind # "sqlite" /\ cl'[r].state = "failed" /\ cl'[r].tx = cl[r].tx
     /\ cl'[r].done = cl[r].done + 1 /\ cl[r].done < Len(ex[r].sent)
     /\ cl'[r].errs = TRUE /\ cl'[r].auto = cl[r].auto /\ cl'[r].commit = cl[r].commit
  \/ /\ cl'[r].done = cl[r].done /\ cl'[r].errs = cl[r].errs /\ cl'[r].auto = cl[r].auto
     /\ cl'[r].commit = cl[r].commit /\ cl'[r].tx = (IF Server THEN cl[r].tx ELSE <<>>)
     /\ \/ /\ CliEnd(r) /\ cl'[r].state = (IF cl[r].errs THEN "failed" ELSE "ok") /\ cl[r].commit # "asked"
           /\ cl[r].done = Len(ex[r].sent) /\ ex[r].pc \in {"wait", "abort", "returned"}
        \/ CliDies(r) /\ cl'[r].state = "failed"

\* Each action changes the client's record as its case says, and nothing of the exporter.
LEMMA ClientFields ==
  ASSUME BaseInv, NEW r \in Runs, ClientStep(r)
  PROVE  /\ Only(r) /\ ex' = ex /\ cl[r].state = "running" /\ cl'[r] \in Clients
         /\ ClientMoves(r)
<1>0. /\ ex \in [Runs -> Exporters] /\ cl \in [Runs -> Clients] /\ ex[r] \in Exporters /\ cl[r] \in Clients
      /\ kind' = kind /\ ex' = ex /\ cl[r].state = "running"
  BY DEF BaseInv, ClientStep, CliSchema, CliRow, CliCommit, CliStops, SqliteGoesOn, CliEnd, CliDies,
         HasStatement, Running
<1>1. /\ ex[r].sent \in Seq(Stmts) /\ cl[r].done \in Nat /\ cl[r].tx \in Seq(Stmts)
      /\ cl[r].done + 1 \in Nat /\ cl[r].errs \in BOOLEAN /\ cl[r].auto \in BOOLEAN
      /\ cl[r].commit \in {"no", "asked", "done", "dropped"}
  BY <1>0 DEF Exporters, Clients
<1>2. <<>> \in Seq(Stmts)
  BY EmptySeq
<1>3. ASSUME cl[r].done < Len(ex[r].sent) PROVE Statement(r) \in Stmts
  <2>1. Len(ex[r].sent) \in Nat
    BY <1>1
  <2>2. cl[r].done + 1 \in 1 .. Len(ex[r].sent)
    BY <1>1, <1>3, <2>1
  <2> QED
    BY <1>1, <2>2 DEF Statement
<1>4. CASE CliSchema(r)
  <2>1. cl' = [cl EXCEPT ![r].done = @ + 1] /\ cl[r].done < Len(ex[r].sent) /\ Statement(r) = Schema(r)
    BY <1>4 DEF CliSchema, HasStatement
  <2>2. Only(r)
    BY <1>0, <2>1 DEF Only
  <2>3. cl'[r] = [cl[r] EXCEPT !.done = cl[r].done + 1]
    BY <1>0, <2>1
  <2>4. cl'[r] \in Clients /\ cl'[r].state = "running" /\ cl'[r].done = cl[r].done + 1 /\ cl'[r].tx = cl[r].tx
          /\ cl'[r].errs = cl[r].errs /\ cl'[r].auto = cl[r].auto /\ cl'[r].commit = cl[r].commit
    BY <1>0, <1>1, <2>3 DEF Clients
  <2> QED
    BY <1>0, <1>4, <2>1, <2>2, <2>4 DEF ClientMoves
<1>5. CASE CliRow(r)
  <2>1. /\ cl' = IF cl[r].auto THEN [cl EXCEPT ![r].done = @ + 1]
                 ELSE [cl EXCEPT ![r].done = @ + 1, ![r].tx = Append(@, Statement(r))]
        /\ cl[r].done < Len(ex[r].sent) /\ Statement(r) \notin {Schema(r), Commit(r)}
    BY <1>5 DEF CliRow, HasStatement
  <2>2. Only(r)
    BY <1>0, <2>1 DEF Only
  <2> DEFINE new == IF cl[r].auto THEN cl[r].tx ELSE Append(cl[r].tx, Statement(r))
  <2>3. cl'[r] = [cl[r] EXCEPT !.done = cl[r].done + 1, !.tx = new]
    BY <1>0, <2>1 DEF Clients
  <2>4. new \in Seq(Stmts)
    BY <1>1, <1>3, <2>1
  <2> HIDE DEF new
  <2>5. cl'[r] \in Clients /\ cl'[r].state = "running" /\ cl'[r].done = cl[r].done + 1 /\ cl'[r].tx = new
          /\ cl'[r].errs = cl[r].errs /\ cl'[r].auto = cl[r].auto /\ cl'[r].commit = cl[r].commit
    BY <1>0, <1>1, <2>3, <2>4 DEF Clients
  <2> QED
    BY <1>0, <1>5, <2>1, <2>2, <2>5 DEF new, ClientMoves
<1>6. CASE CliCommit(r)
  <2>1. /\ cl' = IF Server THEN [cl EXCEPT ![r].done = @ + 1, ![r].commit = "asked"]
                 ELSE [cl EXCEPT ![r].done = @ + 1, ![r].tx = <<>>, ![r].commit = "done"]
        /\ cl[r].done < Len(ex[r].sent) /\ Statement(r) = Commit(r)
    BY <1>6 DEF CliCommit, HasStatement
  <2>2. Only(r)
    BY <1>0, <2>1 DEF Only
  <2> DEFINE new == IF Server THEN cl[r].tx ELSE <<>>
             com == IF Server THEN "asked" ELSE "done"
  <2>3. cl'[r] = [cl[r] EXCEPT !.done = cl[r].done + 1, !.tx = new, !.commit = com]
    BY <1>0, <2>1 DEF Clients
  <2>4. new \in Seq(Stmts) /\ com \in {"asked", "done"}
    BY <1>1, <1>2
  <2> HIDE DEF new, com
  <2>5. cl'[r] \in Clients /\ cl'[r].state = "running" /\ cl'[r].done = cl[r].done + 1 /\ cl'[r].tx = new
          /\ cl'[r].commit = com /\ cl'[r].errs = cl[r].errs /\ cl'[r].auto = cl[r].auto
    BY <1>0, <1>1, <2>3, <2>4 DEF Clients
  <2> QED
    BY <1>0, <1>6, <2>1, <2>2, <2>5 DEF new, com, ClientMoves
<1>7. CASE CliStops(r)
  <2>1. /\ cl' = [cl EXCEPT ![r].done = @ + 1, ![r].errs = TRUE, ![r].state = "failed"]
        /\ cl[r].done < Len(ex[r].sent) /\ kind # "sqlite"
    BY <1>7 DEF CliStops, HasStatement
  <2>2. Only(r)
    BY <1>0, <2>1 DEF Only
  <2>3. cl'[r] = [cl[r] EXCEPT !.done = cl[r].done + 1, !.errs = TRUE, !.state = "failed"]
    BY <1>0, <2>1
  <2>4. cl'[r] \in Clients /\ cl'[r].state = "failed" /\ cl'[r].done = cl[r].done + 1 /\ cl'[r].tx = cl[r].tx
          /\ cl'[r].errs = TRUE /\ cl'[r].auto = cl[r].auto /\ cl'[r].commit = cl[r].commit
    BY <1>0, <1>1, <2>3 DEF Clients
  <2> QED
    BY <1>0, <1>7, <2>1, <2>2, <2>4 DEF ClientMoves
<1>8. CASE SqliteGoesOn(r)
  <2>1. /\ \/ cl' = [cl EXCEPT ![r].done = @ + 1, ![r].errs = TRUE]
           \/ cl' = [cl EXCEPT ![r].done = @ + 1, ![r].errs = TRUE, ![r].tx = <<>>, ![r].auto = TRUE]
        /\ cl[r].done < Len(ex[r].sent) /\ kind = "sqlite"
    BY <1>8 DEF SqliteGoesOn, HasStatement
  <2>2. Only(r)
    BY <1>0, <2>1 DEF Only
  <2>3. \/ cl'[r] = [cl[r] EXCEPT !.done = cl[r].done + 1, !.errs = TRUE]
        \/ cl'[r] = [cl[r] EXCEPT !.done = cl[r].done + 1, !.errs = TRUE, !.tx = <<>>, !.auto = TRUE]
    BY <1>0, <2>1
  <2>4. cl'[r] \in Clients /\ cl'[r].state = "running" /\ cl'[r].done = cl[r].done + 1 /\ cl'[r].errs = TRUE
          /\ cl'[r].commit = cl[r].commit
    BY <1>0, <1>1, <1>2, <2>3 DEF Clients
  <2> QED
    BY <1>0, <1>8, <2>1, <2>2, <2>4 DEF ClientMoves
<1>9. CASE CliEnd(r) \/ CliDies(r)
  <2> DEFINE new == IF Server THEN cl[r].tx ELSE <<>>
  <2>1. PICK z \in {"ok", "failed"} :
          /\ cl' = [cl EXCEPT ![r].state = z, ![r].tx = IF Server THEN @ ELSE <<>>]
          /\ \/ /\ CliEnd(r) /\ z = (IF cl[r].errs THEN "failed" ELSE "ok") /\ cl[r].commit # "asked"
                /\ cl[r].done = Len(ex[r].sent) /\ ex[r].pc \in {"wait", "abort", "returned"}
             \/ CliDies(r) /\ z = "failed"
    BY <1>9 DEF CliEnd, CliDies, Gone
  <2>2. Only(r)
    BY <1>0, <2>1 DEF Only
  <2>3. cl'[r] = [cl[r] EXCEPT !.state = z, !.tx = new] /\ new \in Seq(Stmts)
    BY <1>0, <1>1, <1>2, <2>1
  <2> HIDE DEF new
  <2>4. cl'[r] \in Clients /\ cl'[r].state = z /\ cl'[r].done = cl[r].done /\ cl'[r].tx = new
          /\ cl'[r].errs = cl[r].errs /\ cl'[r].auto = cl[r].auto /\ cl'[r].commit = cl[r].commit
    BY <1>0, <1>1, <2>3 DEF Clients
  <2> QED
    BY <1>0, <2>1, <2>2, <2>4 DEF new, ClientMoves
<1> QED
  BY <1>4, <1>5, <1>6, <1>7, <1>8, <1>9 DEF ClientStep

\* The statement a client is at, by its place in the text.
LEMMA StatementIs ==
  ASSUME BaseInv, NEW r \in Runs, kind # "csv", cl[r].done < Len(ex[r].sent)
  PROVE  /\ cl[r].done \in Nat /\ Len(Text(kind, r, ex[r].input)) \in Nat /\ Len(Text(kind, r, ex[r].input)) >= 2
         /\ Len(ex[r].sent) \in Nat /\ Len(ex[r].sent) <= Len(Text(kind, r, ex[r].input))
         /\ cl[r].done + 1 <= Len(Text(kind, r, ex[r].input))
         /\ Statement(r) = Text(kind, r, ex[r].input)[cl[r].done + 1] /\ Statement(r) \in Stmts
         /\ Statement(r) = Schema(r) <=> cl[r].done = 0
         /\ Statement(r) = Commit(r) <=> cl[r].done + 1 = Len(Text(kind, r, ex[r].input))
<1>0. /\ ex[r] \in Exporters /\ cl[r] \in Clients /\ SentInv(kind, r, ex[r]) /\ r \in Nat
  BY RunsNat DEF BaseInv, RunInv, PlaceInv
<1>1. ex[r].sent \in Seq(Stmts) /\ ex[r].input \in Seq(LineSet) /\ cl[r].done \in Nat
  BY <1>0 DEF Exporters, Clients
<1> DEFINE T == Text(kind, r, ex[r].input)
           s == ex[r].sent
           d == cl[r].done
<1>2. T \in Seq(Stmts) /\ Len(T) \in Nat /\ Len(T) >= 2
  BY <1>0, <1>1, TextEnds
<1>3. Len(s) <= Len(T) /\ \A i \in 1 .. Len(s) : s[i] = T[i]
  BY <1>0 DEF SentInv
<1>4. d \in Nat /\ d < Len(s) /\ Len(s) \in Nat
  BY <1>1
<1>5. ASSUME NEW i \in 1 .. Len(T) PROVE (T[i] = Schema(r) <=> i = 1) /\ (T[i] = Commit(r) <=> i = Len(T))
  BY <1>0, <1>1, TextKinds
<1>6. Statement(r) = s[d + 1]
  BY DEF Statement
<1> HIDE DEF T, s, d
<1>7. d + 1 \in 1 .. Len(s) /\ d + 1 \in 1 .. Len(T) /\ d + 1 <= Len(T) /\ (d + 1 = 1 <=> d = 0)
  BY <1>2, <1>3, <1>4
<1>8. Statement(r) = T[d + 1]
  BY <1>3, <1>6, <1>7
<1>9. /\ (Statement(r) = Schema(r) <=> d = 0) /\ (Statement(r) = Commit(r) <=> d + 1 = Len(T))
  BY <1>5, <1>7, <1>8
<1>10. Statement(r) \in Stmts
  BY <1>2, <1>7, <1>8
<1> QED
  BY <1>2, <1>3, <1>4, <1>7, <1>8, <1>9, <1>10 DEF T, s, d

\* The client's steps.
LEMMA RunClient ==
  ASSUME BaseInv, NEW r \in Runs, ClientStep(r)
  PROVE  Only(r) /\ RunInv(kind, r, ex'[r], cl'[r])
<1>0. /\ PlaceInv(kind, ex[r], cl[r]) /\ SentInv(kind, r, ex[r]) /\ TxInv(kind, r, ex[r], cl[r])
      /\ CommitInv(kind, r, ex[r], cl[r]) /\ cl[r] \in Clients /\ ex[r] \in Exporters
  BY DEF BaseInv, RunInv, PlaceInv
<1>1. Only(r) /\ ex' = ex /\ cl[r].state = "running" /\ cl'[r] \in Clients /\ ClientMoves(r)
  BY ClientFields
<1>2. /\ kind # "csv" /\ cl[r].done \in Nat /\ Len(ex[r].sent) \in Nat /\ cl[r].done <= Len(ex[r].sent)
      /\ ex[r].pc \notin {"new", "check", "create", "start"} /\ ex[r].result \notin {"ok", "error"}
  <2>1. ex[r].sent \in Seq(Stmts) /\ cl[r].done \in Nat
    BY <1>0 DEF Exporters, Clients
  <2>2. kind # "csv" /\ cl[r].done <= Len(ex[r].sent) /\ ex[r].result \notin {"ok", "error"}
    BY <1>0, <1>1 DEF PlaceInv
  <2>3. ex[r].pc \notin {"new", "check", "create", "start"}
    BY <1>0, <1>1 DEF PlaceInv, NoClient
  <2> QED
    BY <2>1, <2>2, <2>3
<1>3. /\ cl'[r].done \in Nat /\ cl'[r].done <= Len(ex[r].sent) /\ cl'[r].state # "none"
      /\ cl'[r].state = "ok" => ~cl'[r].errs /\ cl'[r].done = Len(ex[r].sent) /\ ex[r].pc # "stream"
      /\ ~cl'[r].errs => ~cl'[r].auto
      /\ kind \in {"mysql", "postgres"} /\ cl'[r].errs => cl'[r].state = "failed"
  <2>1. ~cl[r].errs => ~cl[r].auto
    BY <1>0 DEF PlaceInv
  <2>2. kind \in {"mysql", "postgres"} => ~cl[r].errs
    BY <1>0, <1>1 DEF PlaceInv
  <2> QED
    BY <1>1, <1>2, <2>1, <2>2 DEF ClientMoves
<1>4. PlaceInv(kind, ex'[r], cl'[r])
  BY <1>0, <1>1, <1>2, <1>3 DEF PlaceInv
<1>5. SentInv(kind, r, ex'[r])
  BY <1>0, <1>1
<1> DEFINE n == Len(Text(kind, r, ex[r].input))
<1>8. ASSUME cl[r].done < Len(ex[r].sent)
      PROVE  /\ n \in Nat /\ cl[r].done # n /\ cl[r].commit = "no"
             /\ Statement(r) = Commit(r) <=> cl[r].done + 1 = n
  <2>1. n \in Nat /\ cl[r].done + 1 <= n /\ (Statement(r) = Commit(r) <=> cl[r].done + 1 = n)
    BY <1>2, <1>8, StatementIs
  <2>2. cl[r].done # n
    BY <1>2, <2>1
  <2> QED
    BY <1>0, <2>1, <2>2 DEF CommitInv
<1>9. kind \in {"mysql", "postgres", "sqlite"} /\ (Server <=> kind \in {"mysql", "postgres"})
  BY <1>2, ExportAssumption DEF BaseInv, Server
<1>7. CommitInv(kind, r, ex'[r], cl'[r])
  <2>1. CASE cl'[r].done = cl[r].done /\ cl'[r].errs = cl[r].errs /\ cl'[r].commit = cl[r].commit
    <3>1. cl[r].commit # "dropped"
      BY <1>0, <1>1 DEF CommitInv
    <3>2. cl[r].commit = "asked" => cl'[r].state = "failed"
      BY <1>1, <1>2, <2>1 DEF ClientMoves
    <3> QED
      BY <1>0, <1>1, <1>2, <1>3, <2>1, <3>1, <3>2 DEF CommitInv
  <2>2. CASE /\ cl'[r].done = cl[r].done + 1 /\ cl[r].done < Len(ex[r].sent) /\ cl'[r].commit = cl[r].commit
             /\ Statement(r) # Commit(r) \/ cl'[r].errs = TRUE
    <3>1. cl'[r].commit = "no"
      BY <1>8, <2>2
    <3>2. ~cl'[r].errs => cl'[r].done # n
      BY <1>8, <2>2
    <3> QED
      BY <1>1, <3>1, <3>2 DEF CommitInv
  <2>3. CASE /\ cl'[r].done = cl[r].done + 1 /\ cl[r].done < Len(ex[r].sent) /\ Statement(r) = Commit(r)
             /\ cl'[r].commit = (IF Server THEN "asked" ELSE "done") /\ cl'[r].state = "running"
    <3>1. cl'[r].done = n
      BY <1>8, <2>3
    <3> QED
      BY <1>1, <1>2, <1>9, <2>3, <3>1 DEF CommitInv
  <2>4. Schema(r) # Commit(r)
    BY DEF Schema, Commit
  <2> QED
    BY <1>1, <2>1, <2>2, <2>3, <2>4 DEF ClientMoves
<1> HIDE DEF n
<1>6. TxInv(kind, r, ex'[r], cl'[r])
  <2> DEFINE T == Text(kind, r, ex[r].input)
             d == cl[r].done
             x == cl[r].tx
             y == cl'[r].tx
  <2>0. ASSUME (cl'[r].state = "running" /\ ~cl'[r].errs /\ cl'[r].commit = "no") \/ cl'[r].commit = "asked",
               Len(y) # InTx(cl'[r]) \/ ~\A j \in 1 .. Len(y) : y[j] = T[j + 1]
        PROVE  FALSE
    <3>0. x \in Seq(Stmts) /\ Len(x) \in Nat /\ d \in Nat
      <4>1. x \in Seq(Stmts)
        BY <1>0 DEF Clients
      <4> QED
        BY <1>2, <4>1
    <3>1. CASE cl'[r].done = d /\ cl'[r].commit = cl[r].commit
      <4>1. cl[r].commit = "asked" /\ cl'[r].state # "running" /\ y = x
        BY <1>0, <1>1, <1>2, <1>9, <2>0, <3>1 DEF ClientMoves, CommitInv
      <4> QED
        BY <1>0, <2>0, <3>1, <4>1 DEF TxInv, InTx
    <3>2. CASE cl'[r].done = d + 1 /\ d < Len(ex[r].sent)
      <4>1. /\ ~cl[r].errs /\ ~cl[r].auto /\ cl[r].commit = "no"
            /\ \/ Statement(r) = Schema(r) /\ y = x /\ cl'[r].commit = "no"
               \/ Statement(r) \notin {Schema(r), Commit(r)} /\ y = Append(x, Statement(r)) /\ cl'[r].commit = "no"
               \/ Statement(r) = Commit(r) /\ y = x /\ cl'[r].commit = "asked"
        <5>1. cl[r].commit = "no"
          BY <1>8, <3>2
        <5>2. ~cl'[r].errs
          BY <1>1, <1>3, <1>9, <2>0, <3>2, <5>1 DEF ClientMoves
        <5>3. ~cl[r].errs
          BY <1>1, <2>0, <3>2, <5>1, <5>2 DEF ClientMoves
        <5>4. ~cl[r].auto
          BY <1>0, <5>3 DEF PlaceInv
        <5> QED
          BY <1>1, <2>0, <3>2, <5>1, <5>2, <5>3, <5>4 DEF ClientMoves
      <4>2. /\ Len(T) \in Nat /\ Len(T) >= 2 /\ d + 1 <= Len(T)
            /\ Statement(r) = T[d + 1] /\ Statement(r) \in Stmts
            /\ (Statement(r) = Schema(r) <=> d = 0) /\ (Statement(r) = Commit(r) <=> d + 1 = Len(T))
        BY <1>2, <3>2, StatementIs
      <4>3. Len(x) = (IF d = 0 THEN 0 ELSE d - 1) /\ \A j \in 1 .. Len(x) : x[j] = T[j + 1]
        BY <1>0, <1>1, <4>1 DEF TxInv, InTx
      <4> HIDE DEF T, d, x, y
      <4>4. InTx(cl'[r]) = IF cl'[r].commit = "asked" THEN d - 1 ELSE d
        BY <3>0, <3>2 DEF InTx
      <4>5. CASE Statement(r) = Schema(r) /\ y = x /\ cl'[r].commit = "no"
        BY <2>0, <3>0, <4>2, <4>3, <4>4, <4>5
      <4>6. CASE Statement(r) \notin {Schema(r), Commit(r)} /\ y = Append(x, Statement(r)) /\ cl'[r].commit = "no"
        <5>1. d >= 1 /\ Len(x) = d - 1
          BY <3>0, <4>2, <4>3, <4>6
        <5>2. /\ Len(y) = Len(x) + 1 /\ \A j \in 1 .. Len(x) : y[j] = x[j]
              /\ y[Len(x) + 1] = Statement(r)
          BY <3>0, <4>2, <4>6, AppendProperties
        <5>3. Len(y) = d
          BY <3>0, <5>1, <5>2
        <5>4. ASSUME NEW j \in 1 .. d PROVE y[j] = T[j + 1]
          <6>1. j \in 1 .. Len(x) \/ (j = d /\ Len(x) + 1 = d)
            BY <3>0, <5>1
          <6> QED
            BY <4>2, <4>3, <5>2, <6>1
        <5> QED
          BY <2>0, <4>4, <4>6, <5>3, <5>4
      <4>7. CASE Statement(r) = Commit(r) /\ y = x /\ cl'[r].commit = "asked"
        <5>1. d # 0
          BY <3>0, <4>2, <4>7
        <5> QED
          BY <2>0, <4>3, <4>4, <4>7, <5>1
      <4> QED
        BY <4>1, <4>5, <4>6, <4>7
    <3> QED
      BY <1>1, <3>1, <3>2 DEF ClientMoves
  <2> QED
    BY <1>1, <2>0 DEF TxInv
<1> QED
  BY <1>1, <1>4, <1>5, <1>6, <1>7 DEF RunInv

\* The server commits what it was asked to commit, or drops a dead client's transaction.
LEMMA RunBackend ==
  ASSUME BaseInv, NEW r \in Runs, Backend(r)
  PROVE  /\ Only(r) /\ RunInv(kind, r, ex'[r], cl'[r]) /\ ex' = ex /\ Server
         /\ cl'[r].state = cl[r].state /\ ex[r].pc # "new" /\ ~CliCommit(r)
         /\ \/ /\ cl[r].commit = "asked" /\ cl'[r].commit = "done" /\ table' = table \o cl[r].tx
            \/ /\ cl'[r].commit = (IF cl[r].commit = "asked" THEN "dropped" ELSE cl[r].commit)
               /\ table' = table /\ cl[r].state # "running"
<1>0. /\ ex \in [Runs -> Exporters] /\ cl \in [Runs -> Clients] /\ ex[r] \in Exporters /\ cl[r] \in Clients
      /\ PlaceInv(kind, ex[r], cl[r]) /\ SentInv(kind, r, ex[r]) /\ TxInv(kind, r, ex[r], cl[r])
      /\ CommitInv(kind, r, ex[r], cl[r]) /\ kind' = kind /\ ex' = ex
  BY DEF BaseInv, RunInv, Backend, ServerCommit, ServerDrops
<1>1. PICK z \in {"no", "done", "dropped"} :
        /\ cl' = [cl EXCEPT ![r].tx = <<>>, ![r].commit = z]
        /\ \/ z = "done" /\ cl[r].commit = "asked" /\ table' = table \o cl[r].tx
           \/ /\ z = (IF cl[r].commit = "asked" THEN "dropped" ELSE cl[r].commit)
              /\ Server /\ cl[r].state # "running" /\ table' = table
              /\ cl[r].tx # <<>> \/ cl[r].commit = "asked"
  <2>1. CASE ServerCommit(r)
    BY <2>1 DEF ServerCommit
  <2>2. CASE ServerDrops(r)
    BY <1>0, <2>2 DEF ServerDrops, Running, Clients
  <2> QED
    BY <2>1, <2>2 DEF Backend
<1>2. Only(r)
  BY <1>0, <1>1 DEF Only
<1>3. <<>> \in Seq(Stmts)
  BY EmptySeq
<1>4. /\ cl'[r] \in Clients /\ cl'[r].state = cl[r].state /\ cl'[r].done = cl[r].done /\ cl'[r].tx = <<>>
      /\ cl'[r].errs = cl[r].errs /\ cl'[r].auto = cl[r].auto /\ cl'[r].commit = z
  <2>1. cl'[r] = [cl[r] EXCEPT !.tx = <<>>, !.commit = z]
    BY <1>0, <1>1
  <2> QED
    BY <1>0, <1>3, <2>1 DEF Clients
<1>5. Server
  BY <1>0, <1>1 DEF CommitInv, Server
<1>6. ex[r].pc \notin {"new", "check", "create", "start"}
  <2>1. cl[r] # NoClient
    BY <1>1 DEF NoClient
  <2> QED
    BY <1>0, <2>1 DEF PlaceInv
<1>7. PlaceInv(kind, ex'[r], cl'[r])
  BY <1>0, <1>4, <1>6 DEF PlaceInv
<1>8. CommitInv(kind, r, ex'[r], cl'[r])
  BY <1>0, <1>1, <1>4 DEF CommitInv
<1>9. TxInv(kind, r, ex'[r], cl'[r])
  <2>1. ~(cl'[r].state = "running" /\ cl'[r].commit = "no") /\ cl'[r].commit # "asked"
    BY <1>1, <1>4
  <2> QED
    BY <2>1 DEF TxInv
<1>10. ~CliCommit(r)
  <2>1. cl[r].done \in Nat
    BY <1>0 DEF Clients
  <2> QED
    BY <1>0, <1>4, <2>1 DEF CliCommit, Clients
<1> QED
  BY <1>0, <1>1, <1>2, <1>4, <1>5, <1>6, <1>7, <1>8, <1>9, <1>10 DEF RunInv

\* Every step is a step of one run, which leaves the others as they are and keeps its own invariant.
LEMMA RunStep ==
  ASSUME BaseInv, NEW r \in Runs,
         (\E f \in Traces : Begin(r, f)) \/ Exporter(r) \/ Client(r) \/ Backend(r) \/ Fault(r)
  PROVE  Only(r) /\ RunInv(kind, r, ex'[r], cl'[r])
<1>1. CASE \E f \in Traces : Begin(r, f)
  BY <1>1, RunBegins
<1>2. CASE ClientStep(r)
  BY <1>2, RunClient
<1>3. CASE Abort(r) \/ Killed(r)
  BY <1>3, RunEnds
<1>4. CASE CsvSpill(r) \/ CsvFlush(r)
  BY <1>4, RunCsv
<1>5. CASE SkipBlank(r) \/ WriteRow(r) \/ SendCommit(r)
  BY <1>5, RunStreams
<1>6. CASE Start(r)
  BY <1>6, RunStarts
<1>7. CASE \/ Refuse(r) \/ CheckDatabase(r) \/ CreateDatabase(r) \/ StartFails(r) \/ StreamFails(r)
           \/ StreamBreaks(r) \/ FlushFails(r) \/ CloseFails(r) \/ Wait(r) \/ CsvFlushFails(r)
  BY <1>7, RunReports
<1>8. CASE Backend(r)
  BY <1>8, RunBackend
<1> QED
  BY <1>1, <1>2, <1>3, <1>4, <1>5, <1>6, <1>7, <1>8 DEF Exporter, Client, Fault, ClientStep

\* The types and every run's invariant are kept.
LEMMA BaseStep ==
  ASSUME BaseInv, [Next]_vars
  PROVE  BaseInv'
<1>1. CASE UNCHANGED vars
  BY <1>1 DEF vars, BaseInv, RunInv, PlaceInv, SentInv, CommitInv, TxInv
<1>2. CASE Next
  <2>1. PICK r \in Runs : (\E f \in Traces : Begin(r, f)) \/ Exporter(r) \/ Client(r) \/ Backend(r) \/ Fault(r)
    BY <1>2 DEF Next
  <2>2. Only(r) /\ RunInv(kind, r, ex'[r], cl'[r])
    BY <2>1, RunStep
  <2>3. ex'[r] \in Exporters /\ cl'[r] \in Clients
    BY <2>2 DEF RunInv, PlaceInv
  <2>4. ex' \in [Runs -> Exporters] /\ cl' \in [Runs -> Clients] /\ kind' \in Kinds /\ kind' = kind
    BY <2>2, <2>3 DEF Only, BaseInv
  <2>5. db' \in BOOLEAN
    BY <2>1 DEF BaseInv, Exporter, Client, Fault, Begin, CheckDatabase, CreateDatabase, Start, SkipBlank, WriteRow,
         StreamFails, SendCommit, FlushFails, Wait, Abort, CsvSpill, CsvFlush, CsvFlushFails, CliSchema,
         CliRow, CliCommit, CliEnd, Backend, ServerCommit, ServerDrops, Refuse, StartFails, StreamBreaks, GiveUp,
         CloseFails, Killed, CliStops, SqliteGoesOn, CliDies
  <2>6. ASSUME NEW q \in Runs PROVE RunInv(kind, q, ex'[q], cl'[q])
    <3>1. CASE q = r
      BY <2>2, <3>1
    <3>2. CASE q # r
      <4>1. ex'[q] = ex[q] /\ cl'[q] = cl[q]
        BY <2>2, <3>2 DEF Only, BaseInv
      <4> QED
        BY <4>1 DEF BaseInv
    <3> QED
      BY <3>1, <3>2
  <2> QED
    BY <2>4, <2>5, <2>6 DEF BaseInv
<1> QED
  BY <1>1, <1>2

-----------------------------------------------------------------------------
\* A step of run r's exporter or client other than its beginning.
Later(r) == Exporter(r) \/ Client(r) \/ Fault(r)

\* Only a run that has begun and not ended takes one; it keeps its trace, and after Start its input.
LEMMA LaterRun ==
  ASSUME BaseInv, NEW r \in Runs, Later(r)
  PROVE  /\ Busy(r) /\ ex[r].pc # "new" /\ ex'[r].pc # "new"
         /\ ex'[r].trace = ex[r].trace /\ ex'[r].own = ex[r].own
         /\ ~Start(r) => ex'[r].input = ex[r].input
<1>0. ex \in [Runs -> Exporters] /\ ex[r] \in Exporters /\ PlaceInv(kind, ex[r], cl[r])
  BY DEF BaseInv, RunInv
<1>1. cl[r].state = "running" => ex[r].pc # "new"
  BY <1>0 DEF PlaceInv, NoClient
<1>2. ASSUME ex' = ex, Running(r)
      PROVE  /\ Busy(r) /\ ex[r].pc # "new" /\ ex'[r].pc # "new" /\ ex'[r].trace = ex[r].trace
             /\ ex'[r].own = ex[r].own /\ ex'[r].input = ex[r].input
  BY <1>1, <1>2 DEF Busy, Running
<1>3. CASE ClientStep(r)
  <2>1. ex' = ex /\ Running(r)
    BY <1>3, ClientFields DEF Running
  <2> QED
    BY <1>2, <2>1
<1>4. ASSUME ex[r].pc \notin {"new", "returned"} PROVE Busy(r) /\ ex[r].pc # "new"
  BY <1>4 DEF Busy
<1>5. CASE Abort(r) \/ Killed(r) \/ CsvFlush(r)
  BY <1>0, <1>4, <1>5 DEF Abort, Killed, CsvFlush, Return, At, Exporters
<1>6. CASE CsvSpill(r)
  BY <1>0, <1>4, <1>6 DEF CsvSpill, At
<1>7. CASE SkipBlank(r) \/ WriteRow(r) \/ SendCommit(r)
  BY <1>0, <1>4, <1>7 DEF SkipBlank, WriteRow, SendCommit, At, Exporters
<1>8. CASE Start(r)
  <2>1. ex[r].pc = "start"
    BY <1>8 DEF Start, At
  <2>2. PICK lines \in Found(r) :
          ex' = [ex EXCEPT ![r].pc = "stream", ![r].input = lines,
                           ![r].sent = IF kind = "csv" THEN <<>> ELSE <<Schema(r)>>]
    BY <1>8 DEF Start
  <2>3. ex'[r].pc = "stream" /\ ex'[r].trace = ex[r].trace /\ ex'[r].own = ex[r].own
    BY <1>0, <2>2 DEF Exporters
  <2> QED
    BY <1>4, <1>8, <2>1, <2>3
<1>9. CASE Refuse(r) \/ StartFails(r) \/ Wait(r) \/ CsvFlushFails(r)
  BY <1>0, <1>4, <1>9 DEF Refuse, StartFails, Wait, CsvFlushFails, Return, At, Exporters
<1>10. CASE \/ CheckDatabase(r) \/ CreateDatabase(r) \/ StreamFails(r) \/ StreamBreaks(r) \/ FlushFails(r)
            \/ CloseFails(r)
  BY <1>0, <1>4, <1>10 DEF CheckDatabase, CreateDatabase, StreamFails, StreamBreaks, GiveUp, FlushFails, CloseFails,
     Return, Goes, At, Exporters
<1> QED
  BY <1>3, <1>5, <1>6, <1>7, <1>8, <1>9, <1>10 DEF Later, Exporter, Client, Fault, ClientStep

\* The order of the runs is kept.
LEMMA OrderStep ==
  ASSUME BaseInv, OrderInv, NEW r \in Runs, (\E f \in Traces : Begin(r, f)) \/ Later(r)
  PROVE  OrderInv'
<1>0. Only(r) /\ ex \in [Runs -> Exporters] /\ cl \in [Runs -> Clients]
  BY RunStep DEF BaseInv, Later
<1>1. \A q \in Runs : q # r => ex'[q] = ex[q] /\ cl'[q] = cl[q]
  BY <1>0 DEF Only
<1>2. kind' = kind /\ \A q \in Runs : q \in Nat
  BY <1>0, RunsNat DEF Only
<1> SUFFICES ASSUME NEW q \in Runs, NEW s \in Runs, q < s
             PROVE  /\ ex'[s].pc # "new" => ex'[q].pc # "new"
                    /\ Replaces /\ (ex'[q].pc \notin {"new", "returned"} \/ cl'[q].state = "running")
                         => ex'[s].pc = "new"
  BY <1>2 DEF OrderInv, At, Busy, Running, Replaces
<1>3. /\ ex[s].pc # "new" => ex[q].pc # "new"
      /\ Replaces /\ (ex[q].pc \notin {"new", "returned"} \/ cl[q].state = "running") => ex[s].pc = "new"
  BY DEF OrderInv, At, Busy, Running
<1>4. CASE \E f \in Traces : Begin(r, f)
  <2>1. /\ ex[r].pc = "new" /\ \A x \in 1 .. r - 1 : ex[x].pc # "new"
        /\ Replaces => \A x \in Runs : ex[x].pc \in {"new", "returned"} /\ cl[x].state # "running"
    BY <1>4 DEF Begin, At, Busy, Running
  <2>2. ex'[r].pc # "new"
    <3>1. PICK f \in Traces : Begin(r, f)
      BY <1>4
    <3> QED
      BY <1>0, <3>1 DEF Begin, NoExporter
  <2>3. CASE q # r /\ s # r
    BY <1>1, <1>3, <2>3
  <2>4. CASE s = r
    <3>1. q # r /\ q \in 1 .. r - 1
      BY <1>2, <2>4 DEF Runs
    <3> QED
      BY <1>1, <2>1, <2>4, <3>1
  <2>5. CASE q = r
    <3>1. s # r /\ ex[s].pc = "new"
      BY <1>2, <1>3, <2>1, <2>5
    <3> QED
      BY <1>1, <2>2, <2>5, <3>1
  <2> QED
    BY <2>3, <2>4, <2>5
<1>5. CASE Later(r)
  <2>1. (ex[r].pc \notin {"new", "returned"} \/ cl[r].state = "running") /\ ex[r].pc # "new" /\ ex'[r].pc # "new"
    BY <1>5, LaterRun DEF Busy, Running
  <2> QED
    BY <1>1, <1>2, <1>3, <2>1
<1> QED
  BY <1>4, <1>5

\* For csv and sqlite only the run that takes the step matters to the output.
LEMMA OthersOut ==
  ASSUME BaseInv, OrderInv, NEW r \in Runs, (\E f \in Traces : Begin(r, f)) \/ Later(r), Replaces,
         NEW q \in Runs, q # r
  PROVE  Overtaken(q)' \/ (ex'[q].pc = "new" /\ ex[q].pc = "new" /\ ex'[q] = ex[q] /\ cl'[q] = cl[q])
<1>0. Only(r) /\ ex \in [Runs -> Exporters] /\ cl \in [Runs -> Clients] /\ q \in Nat /\ r \in Nat
  BY RunStep, RunsNat DEF BaseInv, Later
<1>1. ex'[q] = ex[q] /\ cl'[q] = cl[q]
  BY <1>0 DEF Only
<1>2. ex'[r].pc # "new"
  <2>1. CASE Later(r)
    BY <2>1, LaterRun
  <2>2. CASE \E f \in Traces : Begin(r, f)
    <3>1. PICK f \in Traces : Begin(r, f)
      BY <2>2
    <3> QED
      BY <1>0, <3>1 DEF Begin, NoExporter
  <2> QED
    BY <2>1, <2>2
<1>3. CASE q < r
  BY <1>2, <1>3 DEF Overtaken, At
<1>4. CASE r < q
  <2>1. ex[q].pc = "new"
    <3>1. CASE Later(r)
      BY <1>4, <3>1, LaterRun DEF OrderInv, At
    <3>2. CASE \E f \in Traces : Begin(r, f)
      BY <1>4, <3>2 DEF OrderInv, At, Begin
    <3> QED
      BY <3>1, <3>2
  <2> QED
    BY <1>1, <2>1
<1> QED
  BY <1>0, <1>3, <1>4

\* Before its step that run is the last.
LEMMA NotOvertaken ==
  ASSUME BaseInv, OrderInv, NEW r \in Runs, Later(r), Replaces
  PROVE  ~Overtaken(r)
<1>1. Busy(r)
  BY LaterRun
<1> QED
  BY <1>1, RunsNat DEF OrderInv, Overtaken

-----------------------------------------------------------------------------
\* COMMIT is the last statement executed when all of the text has been.
LEMMA LandedIs ==
  ASSUME NEW k, k # "csv", NEW r \in Nat, NEW e, NEW c, RunInv(k, r, e, c)
  PROVE  /\ c.done > 0 /\ e.sent[c.done] = Commit(r) <=> c.done = Len(Text(k, r, e.input))
         /\ c.done \in Nat /\ Len(Text(k, r, e.input)) \in Nat /\ Len(Text(k, r, e.input)) >= 2
<1>0. e \in Exporters /\ c \in Clients /\ c.done <= Len(e.sent) /\ SentInv(k, r, e)
  BY DEF RunInv, PlaceInv
<1>1. e.sent \in Seq(Stmts) /\ e.input \in Seq(LineSet) /\ c.done \in Nat
  BY <1>0 DEF Exporters, Clients
<1> DEFINE T == Text(k, r, e.input)
           s == e.sent
           d == c.done
<1>2. T \in Seq(Stmts) /\ Len(T) \in Nat /\ Len(T) >= 2
  BY <1>1, TextEnds
<1>3. Len(s) <= Len(T) /\ (\A i \in 1 .. Len(s) : s[i] = T[i]) /\ d <= Len(s) /\ d \in Nat /\ Len(s) \in Nat
  <2>1. Len(s) \in Nat
    BY <1>1
  <2> QED
    BY <1>0, <1>1, <2>1 DEF SentInv
<1>4. ASSUME NEW i \in 1 .. Len(T) PROVE T[i] = Commit(r) <=> i = Len(T)
  BY <1>1, TextKinds
<1> HIDE DEF T, s, d
<1>5. ASSUME d > 0 PROVE d \in 1 .. Len(s) /\ d \in 1 .. Len(T)
  BY <1>2, <1>3, <1>5
<1>6. d > 0 => s[d] = T[d] /\ (T[d] = Commit(r) <=> d = Len(T))
  BY <1>3, <1>4, <1>5
<1>7. d > 0 /\ s[d] = Commit(r) <=> d = Len(T)
  BY <1>2, <1>3, <1>6
<1> QED
  BY <1>2, <1>3, <1>7 DEF T, s, d

\* For sqlite it lands by executing COMMIT, once; a server's client only asks.
LEMMA LandedStep ==
  ASSUME BaseInv, NEW r \in Runs, Later(r), kind # "csv"
  PROVE  /\ Landed(r)' <=> Landed(r) \/ (CliCommit(r) /\ ~Server)
         /\ CliCommit(r) => cl[r].commit = "no" /\ cl[r].state = "running" /\ (Server => cl'[r].commit = "asked")
         /\ ~CliCommit(r) => cl'[r].commit = cl[r].commit
         /\ Landed(r) => ex'[r].input = ex[r].input
<1>0. /\ RunInv(kind, r, ex[r], cl[r]) /\ r \in Nat /\ ex \in [Runs -> Exporters] /\ cl \in [Runs -> Clients]
      /\ ex[r] \in Exporters /\ cl[r] \in Clients /\ PlaceInv(kind, ex[r], cl[r])
      /\ CommitInv(kind, r, ex[r], cl[r])
  BY RunsNat DEF BaseInv, RunInv, PlaceInv
<1>1. CASE Start(r)
  <2>1. cl[r] = NoClient /\ kind' = kind /\ cl' = [cl EXCEPT ![r].state = "running"]
    BY <1>0, <1>1 DEF Start, At, PlaceInv
  <2>2. cl[r].commit = "no" /\ cl'[r].commit = "no" /\ cl[r].state = "none"
    BY <1>0, <2>1 DEF NoClient, Clients
  <2>3. ~CliCommit(r)
    BY <2>2 DEF CliCommit, HasStatement, Running
  <2> QED
    BY <2>2, <2>3 DEF Landed
<1>2. ASSUME ~Start(r) PROVE ex'[r].input = ex[r].input
  BY <1>2, LaterRun
<1>3. CASE ClientStep(r)
  <2>1. ClientMoves(r) /\ ex' = ex /\ cl[r].state = "running"
    BY <1>3, ClientFields
  <2>2. CASE CliCommit(r)
    <3>1. cl[r].done < Len(ex[r].sent) /\ cl'[r].commit = (IF Server THEN "asked" ELSE "done")
      BY <1>0, <2>2 DEF CliCommit, HasStatement, Clients
    <3>2. cl[r].done # Len(Text(kind, r, ex[r].input))
      <4>1. /\ cl[r].done \in Nat /\ Len(Text(kind, r, ex[r].input)) \in Nat
            /\ cl[r].done + 1 <= Len(Text(kind, r, ex[r].input))
        BY <3>1, StatementIs
      <4> QED
        BY <4>1
    <3>3. cl[r].commit = "no"
      BY <1>0, <3>2 DEF CommitInv
    <3> QED
      BY <2>1, <2>2, <3>1, <3>3 DEF Landed
  <2>3. CASE ~CliCommit(r)
    <3>1. cl'[r].commit = cl[r].commit
      BY <2>1, <2>3 DEF ClientMoves
    <3> QED
      BY <2>1, <2>3, <3>1 DEF Landed
  <2> QED
    BY <2>2, <2>3
<1>4. CASE ~Start(r) /\ ~ClientStep(r)
  <2>1. cl'[r].commit = cl[r].commit
    BY <1>0, <1>4 DEF Later, Exporter, Client, Fault, ClientStep, CheckDatabase, CreateDatabase, SkipBlank, WriteRow,
       StreamFails, StreamBreaks, GiveUp, SendCommit, FlushFails, CloseFails, Wait, Abort, CsvSpill, CsvFlush,
       CsvFlushFails, Refuse, StartFails, Killed, Gone, Clients
  <2>2. ~CliCommit(r)
    BY <1>4 DEF ClientStep
  <2> QED
    BY <1>2, <1>4, <2>1, <2>2 DEF Landed
<1> QED
  BY <1>1, <1>3, <1>4

\* What COMMIT commits is the rows of the run, whether sqlite3 executes it or a server does.
LEMMA TxIsRows ==
  ASSUME BaseInv, NEW r \in Runs, kind # "csv", (CliCommit(r) /\ ~cl[r].errs) \/ cl[r].commit = "asked"
  PROVE  cl[r].tx = RowsOf(r, ex[r].input) /\ RowsOf(r, ex[r].input) \in Seq(Stmts)
           /\ \A i \in 1 .. Len(RowsOf(r, ex[r].input)) : RowsOf(r, ex[r].input)[i].run = r
<1>0. /\ ex[r] \in Exporters /\ cl[r] \in Clients /\ TxInv(kind, r, ex[r], cl[r]) /\ r \in Nat
      /\ CommitInv(kind, r, ex[r], cl[r])
  BY RunsNat DEF BaseInv, RunInv, PlaceInv
<1>1. ex[r].input \in Seq(LineSet) /\ cl[r].tx \in Seq(Stmts) /\ cl[r].done \in Nat
  BY <1>0 DEF Exporters, Clients
<1> DEFINE T == Text(kind, r, ex[r].input)
           R == RowsOf(r, ex[r].input)
           x == cl[r].tx
           d == cl[r].done
<1>3. Len(T) \in Nat /\ Len(x) = Len(T) - 2 /\ \A j \in 1 .. Len(x) : x[j] = T[j + 1]
  <2>0. Len(T) \in Nat /\ Len(T) >= 2
    BY <1>0, <1>1, TextEnds
  <2>1. CASE cl[r].commit = "asked"
    BY <1>0, <2>0, <2>1 DEF TxInv, InTx, CommitInv
  <2>2. CASE CliCommit(r) /\ ~cl[r].errs /\ cl[r].commit # "asked"
    <3>1. cl[r].state = "running" /\ d < Len(ex[r].sent) /\ Statement(r) = Commit(r)
      BY <2>2 DEF CliCommit, HasStatement, Running
    <3>2. d + 1 = Len(T)
      BY <3>1, StatementIs
    <3>3. d # Len(T) /\ d # 0 /\ d - 1 = Len(T) - 2
      BY <1>1, <2>0, <3>2
    <3>4. cl[r].commit = "no"
      BY <1>0, <3>3 DEF CommitInv
    <3> QED
      BY <1>0, <2>0, <2>2, <3>1, <3>3, <3>4 DEF TxInv, InTx
  <2> QED
    BY <2>1, <2>2
<1>4. R \in Seq(RowSet(r)) /\ RowSet(r) \subseteq Stmts /\ \A t \in RowSet(r) : t.run = r
  BY <1>0, <1>1, RowsAt DEF RowSet
<1>5. R \in Seq(Stmts)
  BY <1>4, SeqMonotonic
<1>6. Len(R) \in Nat /\ Len(T) = Len(R) + 2 /\ \A j \in 1 .. Len(R) : T[j + 1] = R[j]
  BY <1>0, <1>1, TextAt
<1> HIDE DEF T, R, x, d
<1>7. Len(x) = Len(R) /\ x \in Seq(Stmts)
  BY <1>1, <1>3, <1>6 DEF x
<1>8. x = R
  <2>1. \A j \in 1 .. Len(x) : x[j] = R[j]
    BY <1>3, <1>6, <1>7
  <2> QED
    BY <1>5, <1>7, <2>1, SeqEqual
<1>9. \A i \in 1 .. Len(R) : R[i].run = r
  BY <1>4
<1> QED
  BY <1>5, <1>8, <1>9 DEF R, x

-----------------------------------------------------------------------------
\* The table stays a sequence of statements' rows.
LEMMA TableSeq ==
  ASSUME BaseInv, table \in Seq(Stmts), NEW r \in Runs,
         (\E f \in Traces : Begin(r, f)) \/ Later(r) \/ Backend(r)
  PROVE  table' \in Seq(Stmts)
<1>0. ex[r] \in Exporters /\ cl[r] \in Clients /\ PlaceInv(kind, ex[r], cl[r])
  BY DEF BaseInv, RunInv
<1>1. /\ ex[r].sent \in Seq(Stmts) /\ cl[r].done \in Nat /\ cl[r].tx \in Seq(Stmts)
      /\ cl[r].done <= Len(ex[r].sent) /\ <<>> \in Seq(Stmts)
  BY <1>0 DEF Exporters, Clients, PlaceInv
<1>2. Len(ex[r].sent) \in Nat
  BY <1>1
<1>3. ASSUME cl[r].done < Len(ex[r].sent) PROVE ex[r].sent[cl[r].done + 1] \in Stmts
  <2>1. cl[r].done + 1 \in 1 .. Len(ex[r].sent)
    BY <1>1, <1>2, <1>3
  <2> QED
    BY <1>1, <2>1
<1>4. CASE table' = table \/ table' = <<>>
  BY <1>1, <1>4
<1>5. CASE CsvSpill(r)
  <2>1. table' = Append(table, ex[r].sent[cl[r].done + 1]) /\ ex[r].sent[cl[r].done + 1] \in Stmts
    BY <1>3, <1>5 DEF CsvSpill
  <2> QED
    BY <2>1, AppendProperties
<1>6. CASE CsvFlush(r)
  <2>1. table' = table \o Unwritten(r)
    BY <1>6 DEF CsvFlush
  <2>2. Unwritten(r) \in Seq(Stmts)
    <3>1. ASSUME NEW s \in Seq(Stmts), NEW m \in Nat PROVE SubSeq(s, m + 1, Len(s)) \in Seq(Stmts)
      <4>1. Len(s) \in Nat
        OBVIOUS
      <4>2. m + 1 \in Int /\ Len(s) \in Int /\ \A i \in m + 1 .. Len(s) : s[i] \in Stmts
        BY <4>1
      <4> QED
        BY <4>2, SubSeqProperties
    <3> QED
      BY <1>1, <3>1 DEF Unwritten
  <2> QED
    BY <2>1, <2>2, ConcatProperties
<1>7. CASE CliRow(r)
  <2>1. table' = table \/ table' = Append(table, Statement(r))
    BY <1>7 DEF CliRow
  <2>2. Statement(r) \in Stmts
    BY <1>3, <1>7 DEF CliRow, HasStatement, Statement
  <2> QED
    BY <2>1, <2>2, AppendProperties
<1>8. CASE CliCommit(r) \/ Backend(r)
  <2>1. table' = table \/ table' = table \o cl[r].tx
    BY <1>8 DEF CliCommit, Backend, ServerCommit, ServerDrops
  <2> QED
    BY <1>1, <2>1, ConcatProperties
<1>9. CASE ~CsvSpill(r) /\ ~CsvFlush(r) /\ ~CliRow(r) /\ ~CliCommit(r) /\ ~Backend(r)
  <2>1. table' = table \/ table' = <<>>
    BY <1>9 DEF Later, Exporter, Client, Fault, Begin, CheckDatabase, CreateDatabase, Start, SkipBlank, WriteRow,
       StreamFails, StreamBreaks, GiveUp, SendCommit, FlushFails, CloseFails, Wait, Abort, CsvFlushFails, CliSchema,
       CliEnd, Refuse, StartFails, Killed, CliStops, SqliteGoesOn, CliDies, Cleared
  <2> QED
    BY <1>4, <2>1
<1> QED
  BY <1>5, <1>6, <1>7, <1>8, <1>9

\* On a server no exporter and no client changes it.
LEMMA ServerTable ==
  ASSUME BaseInv, NEW r \in Runs, (\E f \in Traces : Begin(r, f)) \/ Later(r), Server
  PROVE  table' = table
<1>1. kind # "csv" /\ kind # "sqlite" /\ ~Replaces
  BY DEF Server, Replaces
<1>2. CASE CliRow(r)
  <2>1. cl[r].state = "running" /\ PlaceInv(kind, ex[r], cl[r])
    BY <1>2 DEF BaseInv, RunInv, CliRow, HasStatement, Running
  <2>2. ~cl[r].auto
    BY <2>1 DEF PlaceInv, Server
  <2> QED
    BY <1>2, <2>2 DEF CliRow
<1>3. CASE ~CliRow(r)
  BY <1>1, <1>3 DEF Later, Exporter, Client, Fault, Begin, CheckDatabase, CreateDatabase, Start, SkipBlank, WriteRow,
       StreamFails, StreamBreaks, GiveUp, SendCommit, FlushFails, CloseFails, Wait, Abort, CsvSpill, CsvFlush,
       CsvFlushFails, CliSchema, CliCommit, CliEnd, Refuse, StartFails, Killed, CliStops, SqliteGoesOn, CliDies, Cleared
<1> QED
  BY <1>2, <1>3

\* A run that has just begun has sent nothing.
LEMMA BeginsFresh ==
  ASSUME BaseInv, NEW r \in Runs, NEW f \in Traces, Begin(r, f)
  PROVE  /\ cl' = cl /\ cl[r] = NoClient /\ table' = table /\ db' = db /\ kind' = kind
         /\ ~Landed(r) /\ ~Landed(r)'
         /\ ex[r] = NoExporter /\ ex'[r].result = "none" /\ ex'[r].pc \in {"check", "start"}
         /\ ex'[r].trace = f.lines /\ ex'[r].sent = <<>>
<1>1. cl' = cl /\ table' = table /\ db' = db /\ kind' = kind /\ ex[r].pc = "new" /\ ex \in [Runs -> Exporters]
        /\ PlaceInv(kind, ex[r], cl[r])
  BY DEF Begin, At, BaseInv, RunInv
<1>2. cl[r] = NoClient /\ ex[r] = NoExporter
  BY <1>1 DEF PlaceInv
<1>3. ~Landed(r) /\ ~Landed(r)'
  BY <1>1, <1>2 DEF Landed, NoClient
<1>4. /\ ex'[r].result = "none" /\ ex'[r].pc \in {"check", "start"} /\ ex'[r].trace = f.lines /\ ex'[r].sent = <<>>
  BY <1>1 DEF Begin, NoExporter
<1> QED
  BY <1>1, <1>2, <1>3, <1>4

\* The invariant of a server's table is kept.
LEMMA ServerStep ==
  ASSUME BaseInv, TableInv, NEW r \in Runs, (\E f \in Traces : Begin(r, f)) \/ Later(r) \/ Backend(r)
  PROVE  ServerInv'
<1>0. /\ Only(r) /\ ex \in [Runs -> Exporters] /\ cl \in [Runs -> Clients] /\ table \in Seq(Stmts)
      /\ kind' = kind /\ ServerInv
  BY RunStep DEF BaseInv, Later, Only, TableInv
<1> SUFFICES ASSUME Server, NEW q \in Runs
             PROVE  IF Landed(q)' THEN Added(q)' = RowsOf(q, ex'[q].input)
                    ELSE \A i \in 1 .. Len(table') : table'[i].run # q
  BY <1>0 DEF ServerInv, Server
<1>1. IF Landed(q) THEN Added(q) = RowsOf(q, ex[q].input) ELSE \A i \in 1 .. Len(table) : table[i].run # q
  BY <1>0 DEF ServerInv
<1>2. kind # "csv"
  BY DEF Server
<1>3. ASSUME q # r PROVE (Landed(q)' <=> Landed(q)) /\ ex'[q] = ex[q]
  BY <1>0, <1>3 DEF Only, Landed
<1>4. ASSUME q = r, ~Backend(r) PROVE (Landed(q)' <=> Landed(q)) /\ (Landed(q) => ex'[q].input = ex[q].input)
  <2>1. CASE Later(r)
    BY <1>2, <1>4, <2>1, LandedStep
  <2>2. CASE \E f \in Traces : Begin(r, f)
    BY <1>4, <2>2, BeginsFresh
  <2> QED
    BY <1>4, <2>1, <2>2
<1>5. CASE ~Backend(r) \/ (Backend(r) /\ table' = table /\ cl'[r].commit # "done" /\ cl[r].commit # "done")
                       \/ (Backend(r) /\ table' = table /\ cl'[r].commit = cl[r].commit)
  <2>1. table' = table
    BY <1>5, ServerTable
  <2>2. (Landed(q)' <=> Landed(q)) /\ (Landed(q) => ex'[q].input = ex[q].input)
    <3>1. CASE Backend(r)
      <4>1. ex' = ex
        BY <3>1, RunBackend
      <4> QED
        BY <1>3, <1>5, <3>1, <4>1 DEF Landed
    <3>2. CASE ~Backend(r)
      BY <1>3, <1>4, <3>2
    <3> QED
      BY <3>1, <3>2
  <2>3. Added(q)' = Added(q)
    BY <2>1 DEF Added
  <2> QED
    BY <1>1, <2>1, <2>2, <2>3
<1>6. CASE Backend(r) /\ cl[r].commit = "asked" /\ cl'[r].commit = "done" /\ table' = table \o cl[r].tx
  <2>1. ex' = ex
    BY <1>6, RunBackend
  <2> DEFINE u == RowsOf(r, ex[r].input)
  <2>2. table' = table \o u /\ u \in Seq(Stmts) /\ \A i \in 1 .. Len(u) : u[i].run = r
    BY <1>2, <1>6, TxIsRows
  <2>3. ~Landed(r) /\ Landed(r)'
    BY <1>6 DEF Landed
  <2>4. Added(q)' = Picked(table \o u, {i \in DOMAIN (table \o u) : (table \o u)[i].run = q})
    BY <2>2 DEF Added
  <2>5. Added(q) = Picked(table, {i \in DOMAIN table : table[i].run = q})
    BY DEF Added
  <2> HIDE DEF u
  <2>6. CASE q = r
    <3>1. \A i \in 1 .. Len(table) : table[i].run # r
      BY <1>1, <2>3, <2>6
    <3>2. Added(q)' = u
      BY <1>0, <2>2, <2>4, <2>6, <3>1, PickedNew
    <3> QED
      BY <2>1, <2>3, <2>6, <3>2 DEF u
  <2>7. CASE q # r
    <3>1. \A i \in 1 .. Len(u) : u[i].run # q
      BY <2>2, <2>7
    <3>2. Added(q)' = Added(q)
      BY <1>0, <2>2, <2>4, <2>5, <3>1, PickedOther
    <3>3. ASSUME \A i \in 1 .. Len(table) : table[i].run # q PROVE \A i \in 1 .. Len(table') : table'[i].run # q
      <4>1. /\ Len(table \o u) = Len(table) + Len(u) /\ Len(table) \in Nat /\ Len(u) \in Nat
            /\ \A k \in 1 .. Len(table) : (table \o u)[k] = table[k]
            /\ \A k \in 1 .. Len(u) : (table \o u)[Len(table) + k] = u[k]
        BY <1>0, <2>2, JoinSeq
      <4>2. ASSUME NEW i \in 1 .. Len(table) + Len(u) PROVE (table \o u)[i].run # q
        <5>1. CASE i \in 1 .. Len(table)
          BY <3>3, <4>1, <5>1
        <5>2. CASE i \notin 1 .. Len(table)
          <6>1. i - Len(table) \in 1 .. Len(u) /\ Len(table) + (i - Len(table)) = i
            BY <4>1, <5>2
          <6> QED
            BY <3>1, <4>1, <6>1
        <5> QED
          BY <5>1, <5>2
      <4> QED
        BY <2>2, <4>1, <4>2
    <3> QED
      BY <1>1, <1>3, <2>7, <3>2, <3>3
  <2> QED
    BY <2>6, <2>7
<1> QED
  BY <1>5, <1>6, RunBackend

\* What has spilled and what is flushed at the end make up what was sent.
LEMMA FlushedAll ==
  ASSUME NEW t \in Seq(Stmts), NEW s \in Seq(Stmts), Len(t) <= Len(s), \A i \in 1 .. Len(t) : t[i] = s[i]
  PROVE  t \o SubSeq(s, Len(t) + 1, Len(s)) = s
<1> DEFINE n == Len(t)
           m == Len(s)
           u == SubSeq(s, n + 1, m)
<1>0. n \in Nat /\ m \in Nat /\ n <= m
  OBVIOUS
<1>1. \A i \in n + 1 .. m : s[i] \in Stmts
  BY <1>0
<1>2. /\ u \in Seq(Stmts) /\ Len(u) = m - n /\ \A i \in 1 .. m - n : u[i] = s[n + i]
  <2>1. n + 1 \in Int /\ m \in Int /\ m - (n + 1) + 1 = m - n
    BY <1>0
  <2>2. /\ u \in Seq(Stmts) /\ Len(u) = (IF n + 1 <= m THEN m - (n + 1) + 1 ELSE 0)
        /\ \A i \in 1 .. m - (n + 1) + 1 : u[i] = s[(n + 1) + i - 1]
    BY <1>1, <2>1, SubSeqProperties
  <2>3. \A i \in 1 .. m - n : (n + 1) + i - 1 = n + i
    BY <1>0
  <2> HIDE DEF u, n, m
  <2>4. Len(u) = m - n
    BY <1>0, <2>1, <2>2
  <2> QED
    BY <2>1, <2>2, <2>3, <2>4
<1> HIDE DEF u
<1>3. /\ t \o u \in Seq(Stmts) /\ Len(t \o u) = n + Len(u)
      /\ \A k \in 1 .. n : (t \o u)[k] = t[k]
      /\ \A k \in 1 .. Len(u) : (t \o u)[n + k] = u[k]
  BY <1>2, JoinSeq
<1>4. Len(t \o u) = m
  BY <1>0, <1>2, <1>3
<1>5. ASSUME NEW i \in 1 .. m PROVE (t \o u)[i] = s[i]
  <2>1. CASE i \in 1 .. n
    BY <1>3, <2>1
  <2>2. CASE i \notin 1 .. n
    <3>1. i - n \in 1 .. m - n /\ n + (i - n) = i
      BY <1>0, <2>2
    <3> QED
      BY <1>2, <1>3, <3>1
  <2> QED
    BY <2>1, <2>2
<1>6. ASSUME NEW v \in Seq(Stmts), Len(v) = m, \A i \in 1 .. m : v[i] = s[i] PROVE v = s
  BY <1>6, SeqEqual
<1>7. t \o u = s
  BY <1>3, <1>4, <1>5, <1>6
<1> QED
  BY <1>7 DEF u

\* The invariant of a CSV file is kept.
LEMMA CsvStep ==
  ASSUME BaseInv, OrderInv, TableInv, NEW r \in Runs, (\E f \in Traces : Begin(r, f)) \/ Later(r)
  PROVE  CsvInv'
<1>0. /\ Only(r) /\ ex \in [Runs -> Exporters] /\ cl \in [Runs -> Clients] /\ table \in Seq(Stmts)
      /\ kind' = kind /\ CsvInv /\ RunInv(kind, r, ex'[r], cl'[r])
  BY RunStep DEF BaseInv, Later, Only, TableInv
<1> SUFFICES ASSUME kind = "csv", NEW q \in Runs, ~Overtaken(q)'
             PROVE  /\ ex'[q].pc = "stream" => /\ Len(table') = cl'[q].done
                                               /\ \A i \in 1 .. Len(table') : table'[i] = ex'[q].sent[i]
                    /\ ex'[q].result = "ok" => table' = RowsOf(q, ex'[q].input)
  BY <1>0 DEF CsvInv, At
<1>1. Replaces
  BY DEF Replaces
<1>2. CASE q # r
  <2>1. ex'[q].pc = "new" /\ ex[q].pc = "new" /\ ex'[q] = ex[q]
    BY <1>1, <1>2, OthersOut
  <2>2. ex[q] = NoExporter
    BY <2>1 DEF BaseInv, RunInv, PlaceInv
  <2> QED
    BY <2>1, <2>2 DEF NoExporter
<1>3. CASE q = r /\ \E f \in Traces : Begin(r, f)
  BY <1>3, BeginsFresh
<1>4. CASE q = r /\ Later(r)
  <2>0. /\ ex[r] \in Exporters /\ cl[r] \in Clients /\ PlaceInv(kind, ex[r], cl[r]) /\ SentInv(kind, r, ex[r])
        /\ cl[r].state = "none" /\ ex[r].pc \notin {"wait", "abort"}
    BY DEF BaseInv, RunInv, PlaceInv
  <2>1. ex[r].pc = "stream" => Len(table) = cl[r].done /\ \A i \in 1 .. Len(table) : table[i] = ex[r].sent[i]
    <3>1. ~Overtaken(r)
      BY <1>1, <1>4, NotOvertaken
    <3> QED
      BY <1>0, <3>1 DEF CsvInv, At
  <2>2. /\ ex[r].sent \in Seq(Stmts) /\ cl[r].done \in Nat /\ ex[r].input \in Seq(LineSet) /\ r \in Nat
        /\ cl[r].done <= Len(ex[r].sent) /\ ex[r].pos \in Nat
    BY <2>0, RunsNat DEF Exporters, Clients, PlaceInv
  <2>3. Len(ex[r].sent) \in Nat /\ Len(table) \in Nat
    BY <1>0, <2>2
  <2>4. ~Client(r) /\ ~CliStops(r) /\ ~SqliteGoesOn(r) /\ ~CliDies(r)
    BY <2>0 DEF Client, CliSchema, CliRow, CliCommit, CliEnd, CliStops, SqliteGoesOn, CliDies, HasStatement, Running
  <2>5. ~SendCommit(r) /\ ~FlushFails(r) /\ ~CloseFails(r) /\ ~Wait(r) /\ ~Abort(r) /\ ~StartFails(r)
    BY <2>0 DEF SendCommit, FlushFails, CloseFails, Wait, Abort, StartFails, At
  <2>6. CASE Start(r)
    <3>1. table' = <<>> /\ cl' = cl /\ cl[r] = NoClient /\ ex[r].pc = "start"
      BY <1>1, <2>0, <2>6 DEF Start, Cleared, At, PlaceInv
    <3>2. Len(table') = 0 /\ cl'[r].done = 0
      BY <3>1 DEF NoClient
    <3>3. ex'[r].pc = "stream"
      BY <1>0, <2>6 DEF Start
    <3>4. ex'[r].result # "ok"
      BY <1>0, <3>3 DEF RunInv, PlaceInv
    <3> QED
      BY <1>4, <3>2, <3>4
  <2>7. CASE SkipBlank(r)
    <3>1. /\ table' = table /\ cl' = cl /\ ex[r].pc = "stream" /\ ex'[r].pc = "stream" /\ ex'[r].sent = ex[r].sent
      BY <1>0, <2>0, <2>7 DEF SkipBlank, At, Exporters
    <3>2. ex'[r].result # "ok"
      BY <1>0, <3>1 DEF RunInv, PlaceInv
    <3> QED
      BY <1>4, <2>1, <3>1, <3>2
  <2>8. CASE WriteRow(r)
    <3>1. /\ table' = table /\ cl' = cl /\ ex[r].pc = "stream" /\ ex'[r].pc = "stream"
          /\ ex'[r].sent = Append(ex[r].sent, Row(r, ex[r].pos))
      BY <1>0, <2>0, <2>8 DEF WriteRow, At, Exporters
    <3>2. ex'[r].result # "ok"
      BY <1>0, <3>1 DEF RunInv, PlaceInv
    <3>3. Row(r, ex[r].pos) \in Stmts
      BY <2>2 DEF Row, Stmts
    <3>4. \A i \in 1 .. Len(ex[r].sent) : ex'[r].sent[i] = ex[r].sent[i]
      BY <2>2, <3>1, <3>3, AppendProperties
    <3>5. \A i \in 1 .. Len(table) : i \in 1 .. Len(ex[r].sent)
      BY <2>1, <2>2, <2>3, <3>1
    <3> QED
      BY <1>4, <2>1, <3>1, <3>2, <3>4, <3>5
  <2>9. CASE CsvSpill(r)
    <3>1. /\ ex' = ex /\ cl'[r].done = cl[r].done + 1 /\ cl[r].done < Len(ex[r].sent) /\ ex[r].pc = "stream"
          /\ table' = Append(table, ex[r].sent[cl[r].done + 1])
      BY <1>0, <2>0, <2>9 DEF CsvSpill, At, Clients
    <3>2. ex'[r].result # "ok"
      BY <1>0, <3>1 DEF RunInv, PlaceInv
    <3>3. ex[r].sent[Len(table) + 1] \in Stmts /\ Len(table) + 1 <= Len(ex[r].sent)
      <4>1. Len(table) = cl[r].done /\ Len(table) + 1 \in 1 .. Len(ex[r].sent)
        BY <2>1, <2>2, <2>3, <3>1
      <4> QED
        BY <2>2, <2>3, <4>1
    <3>4. /\ Len(table') = Len(table) + 1 /\ \A i \in 1 .. Len(table') : table'[i] = ex[r].sent[i]
      BY <1>0, <2>1, <2>2, <3>1, <3>3, TextGrows
    <3> QED
      BY <1>4, <2>1, <3>1, <3>2, <3>4
  <2>10. CASE CsvFlush(r)
    <3>1. /\ table' = table \o SubSeq(ex[r].sent, cl[r].done + 1, Len(ex[r].sent)) /\ ex[r].pc = "stream"
          /\ ex'[r].pc = "returned" /\ ex'[r].sent = ex[r].sent /\ ex'[r].input = ex[r].input
          /\ ex'[r].result = "ok"
      BY <1>0, <2>0, <2>10 DEF CsvFlush, Return, Unwritten, At, Exporters
    <3>2. Len(table) = cl[r].done /\ \A i \in 1 .. Len(table) : table[i] = ex[r].sent[i]
      BY <2>1, <3>1
    <3>3. table' = ex[r].sent
      BY <1>0, <2>2, <3>1, <3>2, FlushedAll
    <3>4. Text(kind, r, ex[r].input) = RowsOf(r, ex[r].input) /\ Text(kind, r, ex[r].input) \in Seq(Stmts)
      BY <2>2, TextEnds DEF Text
    <3>5. /\ Len(ex[r].sent) = Len(Text(kind, r, ex[r].input))
          /\ \A i \in 1 .. Len(ex[r].sent) : ex[r].sent[i] = Text(kind, r, ex[r].input)[i]
      BY <1>0, <3>1 DEF RunInv, SentInv
    <3>6. ex[r].sent = Text(kind, r, ex[r].input)
      BY <2>2, <3>4, <3>5, SeqEqual
    <3> QED
      BY <1>4, <3>1, <3>3, <3>4, <3>6
  <2>11. CASE \/ Refuse(r) \/ CheckDatabase(r) \/ CreateDatabase(r) \/ StreamFails(r) \/ StreamBreaks(r)
              \/ CsvFlushFails(r) \/ Killed(r)
    <3>1. ex'[r].pc # "stream"
      BY <1>0, <2>0, <2>11 DEF Refuse, CheckDatabase, CreateDatabase, StreamFails, StreamBreaks, GiveUp,
           CsvFlushFails, Killed, Return, Goes,
         Exporters
    <3>2. ex[r].result # "ok" /\ ex'[r].result # "ok"
      <4>1. ex[r].result = "none"
        BY <2>0, <2>11 DEF PlaceInv, Refuse, CheckDatabase, CreateDatabase, StreamFails, StreamBreaks, GiveUp,
           CsvFlushFails, Killed, At
      <4>2. CASE Refuse(r) \/ StreamFails(r) \/ StreamBreaks(r) \/ CsvFlushFails(r)
        BY <1>0, <2>0, <4>1, <4>2 DEF Refuse, StreamFails, StreamBreaks, GiveUp, CsvFlushFails, Return, Exporters
      <4>3. CASE Killed(r)
        BY <1>0, <2>0, <4>1, <4>3 DEF Killed, Exporters
      <4>4. CASE CheckDatabase(r) \/ CreateDatabase(r)
        <5>1. \/ ex' = [ex EXCEPT ![r].pc = "start"] \/ ex' = [ex EXCEPT ![r].pc = "create"]
              \/ ex' = [ex EXCEPT ![r].pc = "returned", ![r].result = "error"]
          BY <4>4 DEF CheckDatabase, CreateDatabase, Return, Goes
        <5> QED
          BY <1>0, <2>0, <4>1, <5>1 DEF Exporters
      <4> QED
        BY <2>11, <4>2, <4>3, <4>4
    <3> QED
      BY <1>4, <3>1, <3>2
  <2> QED
    BY <1>4, <2>4, <2>5, <2>6, <2>7, <2>8, <2>9, <2>10, <2>11 DEF Later, Exporter, Fault
<1> QED
  BY <1>2, <1>3, <1>4

\* The invariant of a SQLite file is kept.
LEMMA SqliteStep ==
  ASSUME BaseInv, OrderInv, TableInv, NEW r \in Runs, (\E f \in Traces : Begin(r, f)) \/ Later(r)
  PROVE  SqliteInv'
<1>0. /\ Only(r) /\ ex \in [Runs -> Exporters] /\ cl \in [Runs -> Clients] /\ table \in Seq(Stmts)
      /\ kind' = kind /\ SqliteInv
  BY RunStep DEF BaseInv, Later, Only, TableInv
<1> SUFFICES ASSUME kind = "sqlite", NEW q \in Runs, ~Overtaken(q)', cl'[q].state # "none", ~cl'[q].errs
             PROVE  table' = IF Landed(q)' THEN RowsOf(q, ex'[q].input) ELSE <<>>
  BY <1>0 DEF SqliteInv
<1>1. Replaces
  BY DEF Replaces
<1>2. CASE q # r
  <2>1. ex[q].pc = "new" /\ cl'[q] = cl[q]
    BY <1>1, <1>2, OthersOut
  <2>2. cl[q] = NoClient
    BY <2>1 DEF BaseInv, RunInv, PlaceInv
  <2> QED
    BY <2>1, <2>2 DEF NoClient
<1>3. CASE q = r /\ \E f \in Traces : Begin(r, f)
  BY <1>3, BeginsFresh DEF NoClient
<1>4. CASE q = r /\ Later(r)
  <2>0. ex[r] \in Exporters /\ cl[r] \in Clients /\ PlaceInv(kind, ex[r], cl[r])
    BY DEF BaseInv, RunInv
  <2>1. cl[r].state # "none" /\ ~cl[r].errs => table = IF Landed(r) THEN RowsOf(r, ex[r].input) ELSE <<>>
    <3>1. ~Overtaken(r)
      BY <1>1, <1>4, NotOvertaken
    <3> QED
      BY <1>0, <3>1 DEF SqliteInv
  <2>2. /\ Landed(r)' <=> Landed(r) \/ CliCommit(r)
        /\ CliCommit(r) => ~Landed(r) /\ cl[r].state = "running"
        /\ Landed(r) => ex'[r].input = ex[r].input
    BY <1>4, LandedStep DEF Server, Landed
  <2>3. CASE Start(r)
    <3>1. table' = <<>> /\ cl[r] = NoClient
      BY <1>1, <2>0, <2>3 DEF Start, Cleared, At, PlaceInv
    <3>2. ~Landed(r) /\ ~CliCommit(r)
      BY <3>1 DEF NoClient, Landed, CliCommit, HasStatement, Running
    <3> QED
      BY <1>4, <2>2, <3>1, <3>2
  <2>4. CASE CliCommit(r)
    <3>1. table' = table \o cl[r].tx /\ cl'[r].errs = cl[r].errs /\ ex' = ex
      BY <1>0, <2>0, <2>4 DEF CliCommit, Clients, Server
    <3>2. ~cl[r].errs /\ table = <<>> /\ Landed(r)'
      BY <1>4, <2>1, <2>2, <2>4, <3>1
    <3>3. cl[r].tx = RowsOf(r, ex[r].input) /\ RowsOf(r, ex[r].input) \in Seq(Stmts)
      BY <2>4, <3>2, TxIsRows
    <3>4. ASSUME NEW u \in Seq(Stmts) PROVE <<>> \o u = u
      BY ConcatEmptySeq
    <3>5. table' = RowsOf(r, ex[r].input)
      BY <3>1, <3>2, <3>3, <3>4
    <3> QED
      BY <1>4, <3>1, <3>2, <3>5
  <2>5. CASE ~Start(r) /\ ~CliCommit(r)
    <3>1. cl[r].state # "none" /\ ~cl[r].errs
      <4>1. CASE ClientStep(r)
        BY <1>4, <4>1, ClientFields DEF ClientMoves
      <4>2. CASE ~ClientStep(r)
        <5>1. cl'[r].errs = cl[r].errs
          BY <1>0, <1>4, <2>0, <2>5, <4>2 DEF Later, Exporter, Client, Fault, ClientStep, CheckDatabase, CreateDatabase,
             SkipBlank, WriteRow, StreamFails, StreamBreaks, GiveUp, SendCommit, FlushFails, CloseFails, Wait, Abort,
             CsvSpill, CsvFlush, CsvFlushFails, Refuse, StartFails, Killed, Gone, Clients
        <5>2. Abort(r) \/ cl'[r] = cl[r]
          BY <1>0, <1>4, <2>0, <2>5, <4>2 DEF Later, Exporter, Client, Fault, ClientStep, CheckDatabase, CreateDatabase,
             SkipBlank, WriteRow, StreamFails, StreamBreaks, GiveUp, SendCommit, FlushFails, CloseFails, Wait,
             CsvSpill, CsvFlush, CsvFlushFails, Refuse, StartFails, Killed
        <5>3. Abort(r) => cl[r].state # "none"
          BY <2>0 DEF Abort, At, PlaceInv
        <5> QED
          BY <1>4, <5>1, <5>2, <5>3
      <4> QED
        BY <4>1, <4>2
    <3>2. table' = table
      <4>1. ~cl[r].auto /\ ex[r].pc # "start"
        BY <2>0, <3>1 DEF PlaceInv, NoClient
      <4>2. ~StartFails(r) /\ ~CsvSpill(r) /\ ~CsvFlush(r)
        BY <4>1 DEF StartFails, CsvSpill, CsvFlush, At
      <4> QED
        BY <1>4, <2>5, <4>1, <4>2 DEF Later, Exporter, Client, Fault, CheckDatabase, CreateDatabase, SkipBlank, WriteRow,
           StreamFails, StreamBreaks, GiveUp, SendCommit, FlushFails, CloseFails, Wait, Abort, CsvFlushFails, CliSchema,
           CliRow, CliEnd, Refuse, Killed, CliStops, SqliteGoesOn, CliDies
    <3> QED
      BY <1>4, <2>1, <2>2, <2>5, <3>1, <3>2
  <2> QED
    BY <2>3, <2>4, <2>5
<1> QED
  BY <1>2, <1>3, <1>4

\* A server's own steps are no matter for the order of the runs, and neither CSV nor SQLite has one.
LEMMA BackendAside ==
  ASSUME BaseInv, OrderInv, NEW r \in Runs, Backend(r)
  PROVE  OrderInv' /\ CsvInv' /\ SqliteInv'
<1>0. /\ Only(r) /\ ex' = ex /\ Server /\ kind' = kind /\ cl'[r].state = cl[r].state
      /\ cl \in [Runs -> Clients]
  BY RunBackend DEF Only, BaseInv
<1>1. \A q \in Runs : cl'[q].state = cl[q].state
  BY <1>0 DEF Only
<1>2. OrderInv'
  BY <1>0, <1>1 DEF OrderInv, At, Busy, Running, Replaces
<1>3. kind' # "csv" /\ kind' # "sqlite"
  BY <1>0 DEF Server
<1> QED
  BY <1>2, <1>3 DEF CsvInv, SqliteInv

-----------------------------------------------------------------------------
\* The invariant holds before any export.
LEMMA Initially ==
  ASSUME Init
  PROVE  IInv
<1>0. /\ ex = [r \in Runs |-> NoExporter] /\ cl = [r \in Runs |-> NoClient] /\ table = <<>>
      /\ kind \in Kinds /\ db \in BOOLEAN
  BY DEF Init
<1>1. <<>> \in Seq(Stmts) /\ <<>> \in Seq(LineSet) /\ Len(<<>>) = 0
  BY EmptySeq
<1>2. NoExporter \in Exporters /\ NoClient \in Clients
  BY <1>1 DEF NoExporter, NoClient, Exporters, Clients
<1>3. ASSUME NEW r \in Runs PROVE RunInv(kind, r, ex[r], cl[r])
  <2>1. ex[r] = NoExporter /\ cl[r] = NoClient /\ r \in Nat
    BY <1>0, RunsNat
  <2>2. PlaceInv(kind, NoExporter, NoClient)
    BY <1>1, <1>2 DEF PlaceInv, NoExporter, NoClient
  <2>3. Len(Text(kind, r, <<>>)) \in Nat
    BY <1>1, <2>1, TextEnds
  <2>4. SentInv(kind, r, NoExporter)
    BY <1>1, <2>3 DEF SentInv, NoExporter
  <2>5. TxInv(kind, r, NoExporter, NoClient)
    BY DEF TxInv, NoClient
  <2>6. CommitInv(kind, r, NoExporter, NoClient)
    <3>1. kind # "csv" => Len(Text(kind, r, <<>>)) >= 2
      BY <1>1, <2>1, TextEnds
    <3> QED
      BY <2>3, <3>1 DEF CommitInv, NoExporter, NoClient
  <2> QED
    BY <2>1, <2>2, <2>4, <2>5, <2>6 DEF RunInv
<1>4. BaseInv
  BY <1>0, <1>2, <1>3 DEF BaseInv
<1>5. OrderInv
  BY <1>0 DEF OrderInv, At, Busy, Running, NoExporter, NoClient
<1>6. ServerInv
  BY <1>0, <1>1 DEF ServerInv, Landed, NoClient
<1>7. CsvInv /\ SqliteInv
  BY <1>0 DEF CsvInv, SqliteInv, At, NoExporter, NoClient
<1> QED
  BY <1>0, <1>1, <1>4, <1>5, <1>6, <1>7 DEF IInv, TableInv

\* Every step keeps the invariant.
LEMMA Kept ==
  ASSUME IInv, [Next]_vars
  PROVE  IInv'
<1>1. BaseInv'
  BY BaseStep DEF IInv
<1>2. CASE UNCHANGED vars
  <2>1. OrderInv'
    BY <1>2 DEF vars, IInv, OrderInv, At, Busy, Running, Replaces
  <2>2. table' = table /\ kind' = kind /\ ex' = ex /\ cl' = cl
    BY <1>2 DEF vars
  <2>3. ServerInv'
    BY <2>2 DEF IInv, TableInv, ServerInv, Server, Landed, Added
  <2>4. CsvInv' /\ SqliteInv'
    BY <2>2 DEF IInv, TableInv, CsvInv, SqliteInv, Landed, Overtaken, At
  <2> QED
    BY <1>1, <2>1, <2>2, <2>3, <2>4 DEF IInv, TableInv
<1>3. CASE Next
  <2>1. PICK r \in Runs : (\E f \in Traces : Begin(r, f)) \/ Later(r) \/ Backend(r)
    BY <1>3 DEF Next, Later
  <2>2. BaseInv /\ OrderInv /\ TableInv /\ table \in Seq(Stmts)
    BY DEF IInv, TableInv
  <2>3. table' \in Seq(Stmts)
    BY <2>1, <2>2, TableSeq
  <2>4. ServerInv'
    BY <2>1, <2>2, ServerStep
  <2>5. OrderInv' /\ CsvInv' /\ SqliteInv'
    <3>1. CASE (\E f \in Traces : Begin(r, f)) \/ Later(r)
      BY <2>2, <3>1, OrderStep, CsvStep, SqliteStep
    <3>2. CASE Backend(r)
      BY <2>2, <3>2, BackendAside
    <3> QED
      BY <2>1, <3>1, <3>2
  <2> QED
    BY <1>1, <2>3, <2>4, <2>5 DEF IInv, TableInv
<1> QED
  BY <1>2, <1>3

\* Exports of one kind, interleaved and interrupted in any way, keep the invariant.
THEOREM ExportInvariant == Spec => []IInv
<1>1. Init => IInv
  BY Initially
<1>2. IInv /\ [Next]_vars => IInv'
  BY Kept
<1> QED
  BY <1>1, <1>2, PTL DEF Spec

-----------------------------------------------------------------------------
\* Whatever fails and whenever, the records keep their types and places: no line is read past
\* the end of StreamJSONL's input, and no client executes what was not sent to it.
THEOREM ExportTypes == Spec => []TypeOK
<1>1. IInv => TypeOK
  <2> SUFFICES ASSUME IInv PROVE TypeOK
    OBVIOUS
  <2>1. ASSUME NEW r \in Runs
        PROVE  /\ ex[r].pc \in {"new", "check", "create", "start", "stream", "wait", "abort", "returned"}
               /\ ex[r].result \in {"none", "ok", "error", "killed"}
               /\ ex[r].pos \in 1 .. Len(ex[r].input) + 1
               /\ cl[r].state \in {"none", "running", "ok", "failed"}
               /\ cl[r].done \in 0 .. Len(ex[r].sent)
               /\ cl[r].commit \in {"no", "asked", "done", "dropped"}
    <3>1. ex[r] \in Exporters /\ cl[r] \in Clients /\ PlaceInv(kind, ex[r], cl[r])
      BY DEF IInv, BaseInv, RunInv
    <3>2. ex[r].input \in Seq(LineSet) /\ ex[r].sent \in Seq(Stmts) /\ ex[r].pos \in Nat /\ cl[r].done \in Nat
      BY <3>1 DEF Exporters, Clients
    <3>3. Len(ex[r].input) \in Nat /\ Len(ex[r].sent) \in Nat
      BY <3>2
    <3>4. ex[r].pos \in 1 .. Len(ex[r].input) + 1 /\ cl[r].done \in 0 .. Len(ex[r].sent)
      BY <3>1, <3>2, <3>3 DEF PlaceInv
    <3> QED
      BY <3>1, <3>4 DEF Exporters, Clients
  <2> QED
    BY <2>1 DEF TypeOK, IInv, BaseInv
<1> QED
  BY <1>1, ExportInvariant, PTL

\* A run that reports success into a database has landed.
LEMMA OkLanded ==
  ASSUME NEW k, k # "csv", NEW r \in Nat, NEW e, NEW c, RunInv(k, r, e, c), e.result = "ok"
  PROVE  c.commit = "done"
<1>1. c.state = "ok" /\ ~c.errs /\ c.done = Len(Text(k, r, e.input)) /\ CommitInv(k, r, e, c)
  BY DEF RunInv, PlaceInv, SentInv
<1>2. c.commit \in {"no", "asked", "done", "dropped"}
  BY DEF RunInv, PlaceInv, Clients
<1> QED
  BY <1>1, <1>2 DEF CommitInv

\* An export that reports success has added every record of its trace, once and in order,
\* whatever runs beside it; the CSV or SQLite output then holds nothing else.
THEOREM SuccessComplete == Spec => []OkMeansComplete
<1>1. IInv => OkMeansComplete
  <2> SUFFICES ASSUME IInv, NEW r \in Runs, ex[r].result = "ok", ~ex[r].own
               PROVE  IF Replaces THEN Overtaken(r) \/ table = RowsOf(r, ex[r].trace)
                      ELSE Added(r) = RowsOf(r, ex[r].trace)
    BY DEF OkMeansComplete
  <2>1. /\ RunInv(kind, r, ex[r], cl[r]) /\ PlaceInv(kind, ex[r], cl[r]) /\ r \in Nat
        /\ ServerInv /\ CsvInv /\ SqliteInv /\ kind \in {"csv", "sqlite", "mysql", "postgres"}
    BY RunsNat, ExportAssumption DEF IInv, BaseInv, TableInv, RunInv
  <2>2. ex[r].input = ex[r].trace
    BY <2>1 DEF PlaceInv
  <2>3. CASE kind = "csv"
    BY <2>1, <2>2, <2>3 DEF CsvInv, Replaces
  <2>4. CASE kind # "csv"
    <3>1. Landed(r)
      BY <2>1, <2>4, OkLanded DEF Landed
    <3>2. cl[r].state # "none" /\ ~cl[r].errs
      BY <2>1, <2>4 DEF PlaceInv
    <3> QED
      BY <2>1, <2>2, <2>4, <3>1, <3>2 DEF ServerInv, SqliteInv, Replaces, Server
  <2> QED
    BY <2>3, <2>4
<1> QED
  BY <1>1, ExportInvariant, PTL

\* mysql and postgres hold all the rows of a run or none of them, whatever fails and whenever,
\* and none unless the exporter has got as far as COMMIT.
THEOREM TransactionsAtomic == Spec => []AllOrNothing
<1>1. IInv => AllOrNothing
  <2> SUFFICES ASSUME IInv, Server, NEW r \in Runs
               PROVE  \/ Added(r) = <<>>
                      \/ Added(r) = RowsOf(r, ex[r].trace) /\ Contains(ex[r].sent, Commit(r))
    BY DEF AllOrNothing
  <2>1. /\ PlaceInv(kind, ex[r], cl[r]) /\ ServerInv /\ table \in Seq(Stmts)
        /\ ex[r] \in Exporters /\ cl[r] \in Clients
    BY DEF IInv, BaseInv, TableInv, RunInv
  <2>2. CASE Landed(r)
    <3>1. ex[r].input = ex[r].trace
      <4>1. ~ex[r].own
        BY <2>1 DEF PlaceInv, Server
      <4> QED
        BY <2>1, <4>1 DEF PlaceInv
    <3>2. Added(r) = RowsOf(r, ex[r].trace)
      BY <2>1, <2>2, <3>1 DEF ServerInv
    <3>3. Contains(ex[r].sent, Commit(r))
      <4>0. kind # "csv" /\ r \in Nat /\ RunInv(kind, r, ex[r], cl[r])
        BY RunsNat DEF IInv, BaseInv, Server
      <4>4. cl[r].done = Len(Text(kind, r, ex[r].input))
        BY <2>2, <4>0 DEF RunInv, CommitInv, Landed
      <4>5. cl[r].done > 0 /\ ex[r].sent[cl[r].done] = Commit(r)
        BY <4>0, <4>4, LandedIs
      <4>1. ex[r].sent \in Seq(Stmts) /\ cl[r].done \in Nat /\ cl[r].done <= Len(ex[r].sent) /\ cl[r].done > 0
        BY <2>1, <4>5 DEF Exporters, Clients, PlaceInv
      <4>2. Len(ex[r].sent) \in Nat
        BY <4>1
      <4>3. cl[r].done \in 1 .. Len(ex[r].sent)
        BY <4>1, <4>2
      <4> QED
        BY <4>3, <4>5 DEF Contains
    <3> QED
      BY <3>2, <3>3
  <2>3. CASE ~Landed(r)
    <3>1. {i \in DOMAIN table : table[i].run = r} = {}
      <4>1. DOMAIN table = 1 .. Len(table)
        BY <2>1
      <4> QED
        BY <2>1, <2>3, <4>1 DEF ServerInv
    <3>2. Added(r) = Picked(table, {})
      BY <3>1 DEF Added
    <3>3. Picked(table, {}) = <<>>
      <4>1. Cardinality({}) = 0
        BY FS_EmptySet
      <4>2. Picked(table, {}) = [k \in 1 .. 0 |-> table[Nth({}, k)]]
        BY <4>1 DEF Picked, Nth, Rank
      <4> QED
        BY <4>2
    <3> QED
      BY <3>2, <3>3
  <2> QED
    BY <2>2, <2>3
<1> QED
  BY <1>1, ExportInvariant, PTL

-----------------------------------------------------------------------------
\* A step of one run moves only it.
LEMMA AbsMoves ==
  ASSUME BaseInv, NEW r \in Runs, Only(r)
  PROVE  /\ absStatus' = [absStatus EXCEPT ![r] = absStatus'[r]]
         /\ absWant' = [absWant EXCEPT ![r] = absWant'[r]]
<1>1. kind' = kind /\ \A q \in Runs : q # r => ex'[q] = ex[q] /\ cl'[q] = cl[q]
  BY DEF Only, BaseInv
<1>2. \A q \in Runs : q # r => absStatus'[q] = absStatus[q] /\ absWant'[q] = absWant[q]
  BY <1>1 DEF absStatus, absWant, Server, At, Landed
<1>3. /\ absStatus = [q \in Runs |-> absStatus[q]] /\ absStatus' = [q \in Runs |-> absStatus'[q]]
      /\ absWant = [q \in Runs |-> absWant[q]] /\ absWant' = [q \in Runs |-> absWant'[q]]
  BY DEF absStatus, absWant
<1> HIDE DEF absStatus, absWant
<1> QED
  BY <1>2, <1>3

\* Begin is Begin, CliCommit is Ask, ServerCommit is Load, the two returns are Succeed and Fail;
\* nothing else shows.
LEMMA AbstractStep ==
  ASSUME IInv, NEW r \in Runs, (\E f \in Traces : Begin(r, f)) \/ Later(r) \/ Backend(r), Server
  PROVE  \/ Abstract!Begin(r) \/ Abstract!Ask(r) \/ Abstract!Load(r) \/ Abstract!Succeed(r) \/ Abstract!Fail(r)
         \/ UNCHANGED Abstract!vars
<1>0. /\ BaseInv /\ Only(r) /\ RunInv(kind, r, ex'[r], cl'[r]) /\ PlaceInv(kind, ex[r], cl[r]) /\ r \in Nat
      /\ kind' = kind /\ kind # "csv" /\ Server' /\ ex \in [Runs -> Exporters] /\ cl \in [Runs -> Clients]
      /\ CommitInv(kind, r, ex[r], cl[r])
  BY RunStep, RunsNat DEF IInv, BaseInv, Later, Only, Server, RunInv
<1>1. /\ absStatus' = [absStatus EXCEPT ![r] = absStatus'[r]] /\ absWant' = [absWant EXCEPT ![r] = absWant'[r]]
      /\ absStatus = [q \in Runs |-> absStatus[q]] /\ absWant = [q \in Runs |-> absWant[q]]
  <2>1. absStatus = [q \in Runs |-> absStatus[q]] /\ absWant = [q \in Runs |-> absWant[q]]
    BY DEF absStatus, absWant
  <2> QED
    BY <1>0, <2>1, AbsMoves
<1>2. /\ absStatus[r] = IF ex[r].pc = "new" THEN "new"
                        ELSE IF ex[r].result = "ok" THEN "ok"
                        ELSE IF ex[r].result = "error"
                          THEN IF cl[r].commit \in {"asked", "dropped"} THEN "unknown" ELSE "error"
                        ELSE IF cl[r].commit = "no" THEN "open"
                        ELSE IF cl[r].commit = "done" THEN "loaded" ELSE "asked"
      /\ absWant[r] = IF ex[r].pc = "new" THEN <<>> ELSE RowsOf(r, ex[r].trace)
  BY DEF absStatus, absWant, At, Landed
<1>3. /\ absStatus'[r] = IF ex'[r].pc = "new" THEN "new"
                         ELSE IF ex'[r].result = "ok" THEN "ok"
                         ELSE IF ex'[r].result = "error"
                           THEN IF cl'[r].commit \in {"asked", "dropped"} THEN "unknown" ELSE "error"
                         ELSE IF cl'[r].commit = "no" THEN "open"
                         ELSE IF cl'[r].commit = "done" THEN "loaded" ELSE "asked"
      /\ absWant'[r] = IF ex'[r].pc = "new" THEN <<>> ELSE RowsOf(r, ex'[r].trace)
  BY <1>0 DEF absStatus, absWant, At, Landed
<1>4. cl[r].commit \in {"no", "asked", "done", "dropped"} /\ cl'[r].commit \in {"no", "asked", "done", "dropped"}
  BY <1>0 DEF RunInv, PlaceInv, Clients
<1> HIDE DEF absStatus, absWant
<1>5. ASSUME NEW f \in Traces, Begin(r, f) PROVE Abstract!Begin(r)
  <2>1. /\ ex[r] = NoExporter /\ cl' = cl /\ cl[r] = NoClient /\ ex'[r].result = "none" /\ ex'[r].pc # "new"
        /\ ex'[r].trace = f.lines /\ table' = table
    BY <1>0, <1>5, BeginsFresh
  <2>2. absStatus[r] = "new" /\ absStatus'[r] = "open" /\ absWant'[r] = RowsOf(r, f.lines)
    BY <1>2, <1>3, <2>1 DEF NoExporter, NoClient
  <2>3. RowsOf(r, f.lines) \in {RowsOf(q, g.lines) : q \in Runs, g \in Traces}
    OBVIOUS
  <2> QED
    BY <1>0, <1>1, <2>1, <2>2, <2>3 DEF Abstract!Begin, Abstract!Becomes
<1>6. CASE Backend(r)
  <2>1. /\ ex' = ex /\ ex[r].pc # "new"
        /\ \/ /\ cl[r].commit = "asked" /\ cl'[r].commit = "done" /\ table' = table \o cl[r].tx
           \/ /\ cl'[r].commit = (IF cl[r].commit = "asked" THEN "dropped" ELSE cl[r].commit)
              /\ table' = table
    BY <1>0, <1>6, RunBackend
  <2>2. absWant'[r] = absWant[r] /\ absWant' = absWant
    <3>1. absWant'[r] = absWant[r]
      BY <1>2, <1>3, <2>1
    <3> QED
      BY <1>1, <3>1
  <2>3. CASE cl[r].commit = "asked" /\ cl'[r].commit = "done" /\ table' = table \o cl[r].tx
    <3>1. ex[r].input = ex[r].trace
      BY <1>0 DEF PlaceInv, Server
    <3>2. absWant[r] = cl[r].tx
      BY <1>0, <1>2, <2>1, <2>3, <3>1, TxIsRows
    <3>3. ex[r].result # "ok"
      <4>1. RunInv(kind, r, ex[r], cl[r])
        BY <1>0 DEF BaseInv
      <4> QED
        BY <1>0, <2>3, <4>1, OkLanded
    <3>4. \/ absStatus[r] = "asked" /\ absStatus'[r] = "loaded"
          \/ absStatus[r] = "unknown" /\ absStatus'[r] = "error"
      BY <1>2, <1>3, <2>1, <2>3, <3>3
    <3> QED
      BY <1>0, <1>1, <2>2, <2>3, <3>2, <3>4 DEF Abstract!Load, Abstract!Becomes
  <2>4. CASE cl'[r].commit = (IF cl[r].commit = "asked" THEN "dropped" ELSE cl[r].commit) /\ table' = table
    <3>1. absStatus'[r] = absStatus[r]
      BY <1>2, <1>3, <1>4, <2>1, <2>4
    <3>2. absStatus' = absStatus
      BY <1>1, <3>1
    <3> QED
      BY <1>0, <2>2, <2>4, <3>2 DEF Abstract!vars
  <2> QED
    BY <2>1, <2>3, <2>4
<1>7. CASE Later(r)
  <2>1. /\ ex[r].pc # "new" /\ ex'[r].pc # "new" /\ ex'[r].trace = ex[r].trace
        /\ ex[r].result \notin {"ok", "error"}
    <3>1. Busy(r) /\ ex[r].pc # "new" /\ ex'[r].pc # "new" /\ ex'[r].trace = ex[r].trace
      BY <1>0, <1>7, LaterRun
    <3> QED
      BY <1>0, <3>1 DEF Busy, Running, PlaceInv
  <2>2. /\ CliCommit(r) => cl[r].commit = "no" /\ cl'[r].commit = "asked"
        /\ ~CliCommit(r) => cl'[r].commit = cl[r].commit
    BY <1>0, <1>7, LandedStep
  <2>3. absWant'[r] = absWant[r] /\ absWant' = absWant
    <3>1. absWant'[r] = absWant[r]
      BY <1>2, <1>3, <2>1
    <3> QED
      BY <1>1, <3>1
  <2>4. table' = table
    BY <1>0, <1>7, ServerTable
  <2>5. CASE CliCommit(r)
    <3>1. ex' = ex
      BY <2>5 DEF CliCommit
    <3>2. absStatus[r] = "open" /\ absStatus'[r] = "asked"
      BY <1>2, <1>3, <2>1, <2>2, <2>5, <3>1
    <3> QED
      BY <1>0, <1>1, <2>3, <2>4, <3>2 DEF Abstract!Ask, Abstract!Becomes
  <2>6. CASE ~CliCommit(r)
    <3>1. cl'[r].commit = cl[r].commit
      BY <2>2, <2>6
    <3>2. CASE ex'[r].result = "ok"
      <4>1. cl'[r].commit = "done"
        BY <1>0, <3>2, OkLanded
      <4>2. absStatus[r] = "loaded" /\ absStatus'[r] = "ok"
        BY <1>2, <1>3, <2>1, <3>1, <3>2, <4>1
      <4> QED
        BY <1>0, <1>1, <2>3, <2>4, <4>2 DEF Abstract!Succeed, Abstract!Becomes
    <3>3. CASE ex'[r].result = "error"
      <4>1. \/ absStatus[r] \in {"open", "loaded"} /\ absStatus'[r] = "error"
            \/ absStatus[r] = "asked" /\ absStatus'[r] = "unknown"
        BY <1>2, <1>3, <1>4, <2>1, <3>1, <3>3
      <4> QED
        BY <1>0, <1>1, <2>3, <2>4, <4>1 DEF Abstract!Fail, Abstract!Becomes
    <3>4. CASE ex'[r].result \notin {"ok", "error"}
      <4>1. absStatus'[r] = absStatus[r]
        BY <1>2, <1>3, <2>1, <3>1, <3>4
      <4>2. absStatus' = absStatus
        BY <1>1, <4>1
      <4> QED
        BY <1>0, <2>3, <2>4, <4>2 DEF Abstract!vars
    <3> QED
      BY <3>2, <3>3, <3>4
  <2> QED
    BY <2>5, <2>6
<1> QED
  BY <1>5, <1>6, <1>7

\* Every step is one of AtomicLoad's or is not seen by it; csv and sqlite show nothing.
LEMMA AbstractNext ==
  ASSUME IInv, [Next]_vars
  PROVE  [Abstract!Next]_Abstract!vars
<1>1. CASE UNCHANGED vars
  BY <1>1 DEF vars, Abstract!vars, absStatus, absWant, Server, At, Landed
<1>2. CASE Next
  <2>1. PICK r \in Runs : (\E f \in Traces : Begin(r, f)) \/ Later(r) \/ Backend(r)
    BY <1>2 DEF Next, Later
  <2>2. kind' = kind
    BY <2>1, RunStep DEF Only, IInv, Later
  <2>3. CASE Server
    BY <2>1, <2>3, AbstractStep DEF Abstract!Next
  <2>4. CASE ~Server
    BY <2>2, <2>4 DEF Abstract!vars, absStatus, absWant, Server
  <2> QED
    BY <2>3, <2>4
<1> QED
  BY <1>1, <1>2

\* Before any export AtomicLoad's table is empty and its runs are new.
LEMMA AbstractInit ==
  ASSUME Init
  PROVE  Abstract!Init
<1>1. \A r \in Runs : ex[r].pc = "new"
  BY DEF Init, NoExporter
<1>2. absStatus = [r \in Runs |-> "new"] /\ absWant = [r \in Runs |-> <<>>]
  BY <1>1 DEF absStatus, absWant, At
<1> QED
  BY <1>2 DEF Init, Abstract!Init

\* Exports into mysql and postgres implement AtomicLoad, for every set of traces and any number
\* of runs at the same time: a run's rows appear in one step, before success is reported, and
\* after an error has been reported only if the server had been asked to COMMIT by then.
THEOREM ExportImplementsAtomicLoad == Spec => ImplementsAtomicLoad
<1> SUFFICES Spec => Abstract!Spec
  BY DEF ImplementsAtomicLoad
<1>1. IInv /\ [Next]_vars => IInv'
  BY Kept
<1>2. IInv /\ [Next]_vars => [Abstract!Next]_Abstract!vars
  BY AbstractNext
<1> QED
  BY Initially, AbstractInit, <1>1, <1>2, PTL DEF Spec, Abstract!Spec

=============================================================================
