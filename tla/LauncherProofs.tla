--------------------------- MODULE LauncherProofs ---------------------------
(***************************************************************************)
(* What the launcher promises of the log file, for every number of events, *)
(* runs and chunks in the buffer.                                          *)
(*                                                                         *)
(* The invariant IInv has six parts.  TypeInv types the variables and says *)
(* whose records are where.  LogInv: until a Close takes its first step    *)
(* the engine is alone with the bufio.Writer, so the file grows by         *)
(* prefixes of the target's records.  FatalInv: what an end without Close  *)
(* loses.  PhaseInv: how a connection ends, and that the engine is then    *)
(* back in Accept with an empty buffer.  ParkInv: what a Close then finds, *)
(* and so a second Close, and that the engine does not come back.  CutInv  *)
(* carries the shape of the file from run to run.                          *)
(***************************************************************************)
EXTENDS Launcher, SequenceTheorems, TLAPS

-----------------------------------------------------------------------------
\* The bufio.Writer cuts a sequence in two.
LEMMA CutSeq ==
  ASSUME NEW S, NEW c \in Seq(S), NEW n \in 0 .. Len(c)
  PROVE  /\ Taken(c, n) \in Seq(S) /\ Len(Taken(c, n)) = n
         /\ \A k \in 1 .. n : Taken(c, n)[k] = c[k]
         /\ Rest(c, n) \in Seq(S) /\ Len(Rest(c, n)) = Len(c) - n
         /\ \A k \in 1 .. Len(c) - n : Rest(c, n)[k] = c[n + k]
<1>1. Len(c) \in Nat
  OBVIOUS
<1>2. /\ Taken(c, n) \in Seq(S) /\ Len(Taken(c, n)) = n
      /\ \A k \in 1 .. n : Taken(c, n)[k] = c[k]
  BY <1>1, SubSeqProperties DEF Taken
<1>3. /\ Rest(c, n) \in Seq(S) /\ Len(Rest(c, n)) = Len(c) - n
      /\ \A k \in 1 .. Len(c) - n : Rest(c, n)[k] = c[n + k]
  BY <1>1, SubSeqProperties DEF Rest
<1> QED
  BY <1>2, <1>3

\* Two sequences one after the other.
LEMMA JoinSeq ==
  ASSUME NEW S, NEW s \in Seq(S), NEW t \in Seq(S)
  PROVE  /\ s \o t \in Seq(S) /\ Len(s \o t) = Len(s) + Len(t)
         /\ Len(s) \in Nat /\ Len(t) \in Nat
         /\ \A k \in 1 .. Len(s) : (s \o t)[k] = s[k]
         /\ \A k \in 1 .. Len(t) : (s \o t)[Len(s) + k] = t[k]
BY ConcatProperties

\* Equal element by element.
LEMMA SameSeq ==
  ASSUME NEW S, NEW s \in Seq(S), NEW t \in Seq(S), Len(s) = Len(t),
         \A k \in 1 .. Len(s) : s[k] = t[k]
  PROVE  s = t
BY SeqEqual

\* Cutting loses nothing.
LEMMA CutJoin ==
  ASSUME NEW S, NEW c \in Seq(S), NEW n \in 0 .. Len(c)
  PROVE  Taken(c, n) \o Rest(c, n) = c
<1>1. /\ Taken(c, n) \in Seq(S) /\ Len(Taken(c, n)) = n
      /\ \A k \in 1 .. n : Taken(c, n)[k] = c[k]
      /\ Rest(c, n) \in Seq(S) /\ Len(Rest(c, n)) = Len(c) - n
      /\ \A k \in 1 .. Len(c) - n : Rest(c, n)[k] = c[n + k]
  BY CutSeq
<1>2. ASSUME NEW a \in Seq(S), NEW b \in Seq(S), a = Taken(c, n), b = Rest(c, n)
      PROVE  /\ a \o b \in Seq(S) /\ Len(a \o b) = n + (Len(c) - n)
             /\ \A k \in 1 .. n : (a \o b)[k] = c[k]
             /\ \A k \in 1 .. Len(c) - n : (a \o b)[n + k] = c[n + k]
  <2>1. /\ a \o b \in Seq(S) /\ Len(a \o b) = Len(a) + Len(b)
        /\ \A k \in 1 .. Len(a) : (a \o b)[k] = a[k]
        /\ \A k \in 1 .. Len(b) : (a \o b)[Len(a) + k] = b[k]
    BY JoinSeq
  <2>2. Len(a) = n /\ Len(b) = Len(c) - n
    BY <1>1, <1>2
  <2>3. /\ \A k \in 1 .. n : a[k] = c[k]
        /\ \A k \in 1 .. Len(c) - n : b[k] = c[n + k]
    BY <1>1, <1>2
  <2> QED
    BY <2>1, <2>2, <2>3
<1> DEFINE j == Taken(c, n) \o Rest(c, n)
<1>7. /\ j \in Seq(S) /\ Len(j) = n + (Len(c) - n)
      /\ \A k \in 1 .. n : j[k] = c[k]
      /\ \A k \in 1 .. Len(c) - n : j[n + k] = c[n + k]
  BY <1>1, <1>2
<1>3. Len(c) \in Nat
  OBVIOUS
<1> HIDE DEF j
<1>4. Len(j) = Len(c)
  BY <1>7, <1>3
<1>5. ASSUME NEW k \in 1 .. Len(j) PROVE j[k] = c[k]
  <2>1. CASE k <= n
    BY <1>7, <1>3, <1>4, <2>1
  <2>2. CASE k > n
    <3>1. k - n \in 1 .. Len(c) - n /\ n + (k - n) = k
      BY <1>3, <1>4, <2>2
    <3> QED
      BY <1>7, <3>1
  <2> QED
    BY <1>3, <1>4, <2>1, <2>2
<1>6. j = c
  BY <1>7, <1>4, <1>5, SameSeq
<1> QED
  BY <1>6 DEF j

\* A prefix, element by element.
LEMMA PrefixDef ==
  ASSUME NEW S, NEW s \in Seq(S), NEW t \in Seq(S)
  PROVE  IsPrefix(s, t) <=> Len(s) <= Len(t) /\ \A k \in 1 .. Len(s) : s[k] = t[k]
<1>1. Len(s) \in Nat /\ Len(t) \in Nat
  OBVIOUS
<1>2. SubSeq(s, 1, Len(s)) \in Seq(S) /\ Len(SubSeq(s, 1, Len(s))) = Len(s)
        /\ \A k \in 1 .. Len(s) : SubSeq(s, 1, Len(s))[k] = s[k]
  BY <1>1, SubSeqProperties
<1>3. ASSUME Len(s) <= Len(t)
      PROVE  /\ SubSeq(t, 1, Len(s)) \in Seq(S) /\ Len(SubSeq(t, 1, Len(s))) = Len(s)
             /\ \A k \in 1 .. Len(s) : SubSeq(t, 1, Len(s))[k] = t[k]
  BY <1>1, <1>3, SubSeqProperties
<1>4. ASSUME Len(s) <= Len(t), \A k \in 1 .. Len(s) : s[k] = t[k]
      PROVE  SubSeq(s, 1, Len(s)) = SubSeq(t, 1, Len(s))
  <2>1. \A k \in 1 .. Len(s) : SubSeq(s, 1, Len(s))[k] = SubSeq(t, 1, Len(s))[k]
    BY <1>2, <1>3, <1>4
  <2> QED
    BY <1>2, <1>3, <1>4, <2>1, SameSeq
<1> QED
  BY <1>2, <1>3, <1>4 DEF IsPrefix

\* Prefixes of prefixes, and of what is appended to.
LEMMA PrefixTrans ==
  ASSUME NEW S, NEW s \in Seq(S), NEW t \in Seq(S), NEW u \in Seq(S), IsPrefix(s, t), IsPrefix(t, u)
  PROVE  IsPrefix(s, u)
<1>1. Len(s) \in Nat /\ Len(t) \in Nat /\ Len(u) \in Nat
  OBVIOUS
<1>2. Len(s) <= Len(t) /\ \A k \in 1 .. Len(s) : s[k] = t[k]
  BY PrefixDef
<1>3. Len(t) <= Len(u) /\ \A k \in 1 .. Len(t) : t[k] = u[k]
  BY PrefixDef
<1>4. Len(s) <= Len(u) /\ \A k \in 1 .. Len(s) : s[k] = u[k]
  BY <1>1, <1>2, <1>3
<1> QED
  BY <1>4, PrefixDef

\* A sequence is a prefix of its extensions, and of itself.
LEMMA PrefixJoin ==
  ASSUME NEW S, NEW s \in Seq(S), NEW t \in Seq(S)
  PROVE  IsPrefix(s, s \o t) /\ IsPrefix(s, s)
<1>1. s \o t \in Seq(S) /\ Len(s \o t) = Len(s) + Len(t) /\ Len(s) \in Nat /\ Len(t) \in Nat
        /\ \A k \in 1 .. Len(s) : (s \o t)[k] = s[k]
  BY JoinSeq
<1>2. ASSUME NEW j \in Seq(S), j = s \o t PROVE IsPrefix(s, j)
  <2>1. Len(s) <= Len(j) /\ \A k \in 1 .. Len(s) : s[k] = j[k]
    BY <1>1, <1>2
  <2> QED
    BY <2>1, PrefixDef
<1>3. IsPrefix(s, s)
  BY <1>1, PrefixDef
<1> QED
  BY <1>1, <1>2, <1>3

\* Extending by a prefix gives a prefix.
LEMMA PrefixExtend ==
  ASSUME NEW S, NEW s \in Seq(S), NEW t \in Seq(S), NEW u \in Seq(S), IsPrefix(t, u)
  PROVE  IsPrefix(s \o t, s \o u)
<1>1. Len(t) <= Len(u) /\ \A k \in 1 .. Len(t) : t[k] = u[k]
  BY PrefixDef
<1>2. /\ s \o t \in Seq(S) /\ Len(s \o t) = Len(s) + Len(t)
      /\ \A k \in 1 .. Len(s) : (s \o t)[k] = s[k]
      /\ \A k \in 1 .. Len(t) : (s \o t)[Len(s) + k] = t[k]
  BY JoinSeq
<1>3. /\ s \o u \in Seq(S) /\ Len(s \o u) = Len(s) + Len(u)
      /\ \A k \in 1 .. Len(s) : (s \o u)[k] = s[k]
      /\ \A k \in 1 .. Len(u) : (s \o u)[Len(s) + k] = u[k]
  BY JoinSeq
<1>4. Len(s) \in Nat /\ Len(t) \in Nat /\ Len(u) \in Nat
  OBVIOUS
<1>5. ASSUME NEW k \in 1 .. Len(s) + Len(t) PROVE (s \o t)[k] = (s \o u)[k]
  <2>1. CASE k <= Len(s)
    BY <1>2, <1>3, <1>4, <2>1
  <2>2. CASE k > Len(s)
    <3> DEFINE m == k - Len(s)
    <3>1. m \in 1 .. Len(t) /\ m \in 1 .. Len(u) /\ Len(s) + m = k
      BY <1>1, <1>4, <2>2
    <3> HIDE DEF m
    <3>2. (s \o t)[Len(s) + m] = t[m] /\ (s \o u)[Len(s) + m] = u[m] /\ t[m] = u[m]
      BY <1>1, <1>2, <1>3, <3>1
    <3> QED
      BY <3>1, <3>2
  <2>3. k <= Len(s) \/ k > Len(s)
    BY <1>4
  <2> QED
    BY <2>1, <2>2, <2>3
<1>6. ASSUME NEW a \in Seq(S), NEW b \in Seq(S), a = s \o t, b = s \o u
      PROVE  IsPrefix(a, b)
  <2>1. Len(a) = Len(s) + Len(t) /\ Len(b) = Len(s) + Len(u)
    BY <1>2, <1>3, <1>6
  <2>2. Len(a) <= Len(b) /\ \A k \in 1 .. Len(a) : a[k] = b[k]
    BY <1>1, <1>4, <1>5, <1>6, <2>1
  <2> QED
    BY <2>2, PrefixDef
<1> QED
  BY <1>2, <1>3, <1>6

\* What has been taken is a prefix.
LEMMA PrefixTaken ==
  ASSUME NEW S, NEW c \in Seq(S), NEW n \in 0 .. Len(c)
  PROVE  IsPrefix(Taken(c, n), c)
<1>1. Taken(c, n) \in Seq(S) /\ Rest(c, n) \in Seq(S)
  BY CutSeq
<1>2. ASSUME NEW a \in Seq(S), NEW b \in Seq(S), a \o b = c PROVE IsPrefix(a, c)
  BY <1>2, PrefixJoin
<1> QED
  BY <1>1, <1>2, CutJoin

-----------------------------------------------------------------------------
\* Chunks of runs up to the r-th.
Chunks == [run : Nat, event : Nat, part : {"head", "tail"}]
Upto(r) == {c \in Chunks : c.run <= r}

\* Types, and whose records are in the buffer and in the file.
TypeInv ==
  /\ TypeOK
  /\ buf \in Seq(Upto(run)) /\ file \in Seq(Upto(run)) /\ base \in Seq(Upto(run - 1))
  /\ epc = "write" => seen < mem

\* The file is what the run found and then a prefix of the target's records.
FilePrefix == IsPrefix(base, file) /\ IsPrefix(file, base \o Lines(mem))

\* Until a Close takes its first step the engine is alone with the writer.
LogInv ==
  NoCloseBegun =>
    /\ FilePrefix
    /\ epc = "flush" => ~werr
    /\ Up /\ ~werr => base \o Lines(seen) = IF epc = "reset" THEN file ELSE file \o buf

\* What an end without Close leaves out is what the buffer held.
FatalInv ==
  exited \in {"1", "killed"} /\ NoCloseBegun /\ ~werr =>
    Len(base \o Lines(seen)) <= Len(file) + BufCap

\* The end of a connection: the target is gone, the last scan takes what is there, and the
\* engine goes back to Accept with an empty buffer, for good.
PhaseInv ==
  /\ sock \in {"eof", "done"} => target # "running"
  /\ phase = "final" /\ epc \in {"scan", "write", "flush", "reset", "flushed"} => sock = "eof"
  /\ phase = "final" /\ epc \in {"flush", "reset", "flushed"} => seen = mem
  /\ NoCloseBegun /\ phase = "final" /\ epc = "flushed" => werr \/ buf = <<>>
  /\ sock = "done" /\ Up => epc = "accept" /\ seen = mem
  /\ sock = "done" /\ Up /\ NoCloseBegun => werr \/ buf = <<>>

\* A Close that finds the engine parked has nothing to flush, and neither has a second one.
ParkInv ==
  parked =>
    /\ sock = "done" /\ mpc \notin {"flush", "reset"} /\ spc \notin {"flush", "reset"}
    /\ FilePrefix
    /\ werr \/ (buf = <<>> /\ file = base \o Lines(mem))
    /\ exited # "fault"

\* Every tail follows its head, and a head without its tail is the last chunk of its run.
WellCut(f) ==
  \A i \in DOMAIN f :
    IF f[i].part = "tail" THEN i > 1 /\ f[i - 1] = [f[i] EXCEPT !.part = "head"]
    ELSE (\E j \in i + 1 .. Len(f) : f[j].run = f[i].run)
           => f[i + 1] = [f[i] EXCEPT !.part = "tail"]

\* What the run found in the file is cut as it may be.
CutInv == clean => WellCut(base)

IInv == TypeInv /\ LogInv /\ FatalInv /\ PhaseInv /\ ParkInv /\ CutInv

-----------------------------------------------------------------------------
\* Two chunks to an event.
LEMMA Halves ==
  ASSUME NEW k \in Nat \ {0}
  PROVE  /\ (k + 1) \div 2 \in Nat \ {0} /\ 2 * ((k + 1) \div 2) \in {k, k + 1}
         /\ k % 2 = 1 <=> 2 * ((k + 1) \div 2) = k + 1
OBVIOUS

\* The k-th chunk of a run.
Piece(k) == Chunk((k + 1) \div 2, IF k % 2 = 1 THEN "head" ELSE "tail")

\* The two chunks of the event after the n-th.
LEMMA PieceOf ==
  ASSUME NEW n \in Nat
  PROVE  Piece(2 * n + 1) = Chunk(n + 1, "head") /\ Piece(2 * n + 2) = Chunk(n + 1, "tail")
<1>1. /\ (2 * n + 1 + 1) \div 2 = n + 1 /\ (2 * n + 2 + 1) \div 2 = n + 1
      /\ (2 * n + 1) % 2 = 1 /\ (2 * n + 2) % 2 = 0
  OBVIOUS
<1> QED
  BY <1>1 DEF Piece

\* Two elements appended.
LEMMA JoinTwo ==
  ASSUME NEW S, NEW a \in Seq(S), NEW b \in Seq(S), NEW c \in Seq(S), Len(b) = 2,
         Len(c) = Len(a) + 2, \A k \in 1 .. Len(a) : a[k] = c[k],
         b[1] = c[Len(a) + 1], b[2] = c[Len(a) + 2]
  PROVE  a \o b = c
<1>1. /\ a \o b \in Seq(S) /\ Len(a \o b) = Len(a) + Len(b) /\ Len(a) \in Nat
      /\ \A k \in 1 .. Len(a) : (a \o b)[k] = a[k]
      /\ \A k \in 1 .. Len(b) : (a \o b)[Len(a) + k] = b[k]
  <2>1. a \in Seq(S) /\ b \in Seq(S)
    OBVIOUS
  <2> QED
    BY ONLY <2>1, JoinSeq
<1>2. 1 \in 1 .. Len(b) /\ 2 \in 1 .. Len(b)
  OBVIOUS
<1>3. (a \o b)[Len(a) + 1] = b[1] /\ (a \o b)[Len(a) + 2] = b[2]
  BY <1>1, <1>2
<1>4. ASSUME NEW k \in 1 .. Len(a) + 2 PROVE (a \o b)[k] = c[k]
  <2>1. k \in 1 .. Len(a) \/ k = Len(a) + 1 \/ k = Len(a) + 2
    BY <1>1
  <2> QED
    BY <1>1, <1>3, <2>1
<1> QED
  BY <1>1, <1>4, SameSeq

\* marshalSafeSlotJSONL writes chunks of its own run.
LEMMA ChunkOfRun ==
  ASSUME run \in Nat, NEW e \in Nat, NEW p \in {"head", "tail"}
  PROVE  Chunk(e, p) \in Upto(run) /\ Chunk(e, p).run = run
BY DEF Chunk, Upto, Chunks

\* The records of the first n events.
LEMMA LinesSeq ==
  ASSUME run \in Nat, NEW n \in Nat
  PROVE  /\ Lines(n) \in Seq(Upto(run)) /\ Len(Lines(n)) = 2 * n
         /\ \A k \in 1 .. 2 * n :
              /\ (k + 1) \div 2 \in 1 .. n
              /\ Lines(n)[k] = Piece(k)
<1>1. 2 * n \in Nat
  OBVIOUS
<1>2. ASSUME NEW k \in 1 .. 2 * n PROVE (k + 1) \div 2 \in 1 .. n /\ (k + 1) \div 2 \in Nat
  BY <1>1, Halves
<1>3. ASSUME NEW k \in 1 .. 2 * n
      PROVE  Piece(k) \in Upto(run)
  <2>1. ASSUME NEW e \in Nat PROVE Chunk(e, "head") \in Upto(run) /\ Chunk(e, "tail") \in Upto(run)
    BY ChunkOfRun
  <2> QED
    BY <1>2, <2>1 DEF Piece
<1>4. Lines(n) \in [1 .. 2 * n -> Upto(run)]
  BY <1>3 DEF Lines, Piece
<1>5. Lines(n) \in Seq(Upto(run)) /\ Len(Lines(n)) = 2 * n
  <2>1. ASSUME NEW f \in [1 .. 2 * n -> Upto(run)] PROVE f \in Seq(Upto(run)) /\ Len(f) = 2 * n
    BY <1>1, IsASeq, LenProperties
  <2> QED
    BY <1>4, <2>1
<1>6. \A k \in 1 .. 2 * n : Lines(n)[k] = Piece(k)
  BY DEF Lines, Piece
<1> QED
  BY <1>2, <1>5, <1>6

\* One record, as a sequence.
LEMMA RecordSeq ==
  ASSUME run \in Nat, NEW e \in Nat
  PROVE  /\ Record(e) \in Seq(Upto(run)) /\ Len(Record(e)) = 2
         /\ Record(e)[1] = Chunk(e, "head") /\ Record(e)[2] = Chunk(e, "tail")
<1>1. Chunk(e, "head") \in Upto(run) /\ Chunk(e, "tail") \in Upto(run)
  BY ChunkOfRun
<1> QED
  BY <1>1 DEF Record

\* Record by record.
LEMMA LinesNext ==
  ASSUME run \in Nat, NEW n \in Nat
  PROVE  Lines(n) \o Record(n + 1) = Lines(n + 1)
<1>1. n + 1 \in Nat
  OBVIOUS
<1>2. /\ Lines(n) \in Seq(Upto(run)) /\ Len(Lines(n)) = 2 * n
      /\ \A k \in 1 .. 2 * n : Lines(n)[k] = Piece(k)
  BY <1>1, LinesSeq
<1>3. /\ Lines(n + 1) \in Seq(Upto(run)) /\ Len(Lines(n + 1)) = 2 * (n + 1)
      /\ \A k \in 1 .. 2 * (n + 1) :
           Lines(n + 1)[k] = Piece(k)
  BY <1>1, LinesSeq
<1>4. /\ Record(n + 1) \in Seq(Upto(run)) /\ Len(Record(n + 1)) = 2
      /\ Record(n + 1)[1] = Chunk(n + 1, "head") /\ Record(n + 1)[2] = Chunk(n + 1, "tail")
  BY <1>1, RecordSeq
<1>5. 2 * n \in Nat /\ 2 * (n + 1) = 2 * n + 2
  BY <1>1
<1>6. ASSUME NEW m \in Nat, m = 2 * n PROVE Lines(n) \o Record(n + 1) = Lines(n + 1)
  <2>1. Len(Lines(n)) = m /\ Len(Lines(n + 1)) = m + 2
    BY <1>2, <1>3, <1>5, <1>6
  <2>2. \A k \in 1 .. m : Lines(n)[k] = Lines(n + 1)[k]
    BY <1>2, <1>3, <1>5, <1>6
  <2>3. Lines(n + 1)[m + 1] = Chunk(n + 1, "head") /\ Lines(n + 1)[m + 2] = Chunk(n + 1, "tail")
    <3>1. m + 1 \in 1 .. 2 * (n + 1) /\ m + 2 \in 1 .. 2 * (n + 1)
      BY <1>5, <1>6
    <3>2. Lines(n + 1)[m + 1] = Piece(m + 1) /\ Lines(n + 1)[m + 2] = Piece(m + 2)
      BY <1>3, <3>1
    <3> QED
      BY <1>6, <3>2, PieceOf
  <2> QED
    BY <1>2, <1>3, <1>4, <2>1, <2>2, <2>3, JoinTwo
<1> QED
  BY <1>5, <1>6

\* The records of fewer events are a prefix of those of more.
LEMMA LinesPrefix ==
  ASSUME run \in Nat, NEW m \in Nat, NEW n \in Nat, m <= n
  PROVE  IsPrefix(Lines(m), Lines(n))
<1>1. /\ Lines(m) \in Seq(Upto(run)) /\ Len(Lines(m)) = 2 * m
      /\ \A k \in 1 .. 2 * m : Lines(m)[k] = Piece(k)
  BY LinesSeq
<1>2. /\ Lines(n) \in Seq(Upto(run)) /\ Len(Lines(n)) = 2 * n
      /\ \A k \in 1 .. 2 * n : Lines(n)[k] = Piece(k)
  BY LinesSeq
<1>3. Len(Lines(m)) <= Len(Lines(n)) /\ \A k \in 1 .. Len(Lines(m)) : Lines(m)[k] = Lines(n)[k]
  BY <1>1, <1>2
<1> QED
  BY <1>1, <1>2, <1>3, PrefixDef

\* The records depend on their number alone: a new event changes none that were there.
LEMMA LinesKept ==
  ASSUME UNCHANGED <<run, seen>>
  PROVE  Lines(seen)' = Lines(seen)
BY DEF Lines, Chunk

-----------------------------------------------------------------------------
\* The constants, as the proofs use them.
LEMMA Constants ==
  BufCap \in Nat /\ BufCap >= 2 /\ MaxRuns \in Nat \ {0} /\ MaxEvents \in Nat
BY LauncherAssumption

\* The parts of the type invariant that the writer needs.
LEMMA Typed ==
  ASSUME TypeInv
  PROVE  /\ run \in Nat /\ run >= 1 /\ mem \in Nat /\ seen \in 0 .. mem
         /\ buf \in Seq(Upto(run)) /\ file \in Seq(Upto(run)) /\ base \in Seq(Upto(run))
         /\ Len(buf) \in Nat /\ Len(file) \in Nat /\ Len(base) \in Nat
         /\ Len(buf) <= BufCap /\ werr \in BOOLEAN
         /\ Lines(seen) \in Seq(Upto(run)) /\ Lines(mem) \in Seq(Upto(run))
         /\ IsPrefix(Lines(seen), Lines(mem))
<1>1. run \in 1 .. MaxRuns /\ MaxRuns \in Nat
  BY Constants DEF TypeInv, TypeOK
<1>2. run \in Nat /\ run >= 1 /\ run - 1 <= run
  BY <1>1
<1>3. mem \in Nat /\ seen \in 0 .. mem /\ seen \in Nat /\ seen <= mem
  BY Constants DEF TypeInv, TypeOK
<1>4. Upto(run - 1) \subseteq Upto(run)
  BY <1>2 DEF Upto, Chunks
<1>5. base \in Seq(Upto(run))
  BY <1>4, SeqMonotonic DEF TypeInv
<1>6. buf \in Seq(Upto(run)) /\ file \in Seq(Upto(run)) /\ Len(buf) <= BufCap /\ werr \in BOOLEAN
  BY DEF TypeInv, TypeOK
<1>7. Len(buf) \in Nat /\ Len(file) \in Nat /\ Len(base) \in Nat
  BY <1>5, <1>6
<1>9. Lines(seen) \in Seq(Upto(run)) /\ Lines(mem) \in Seq(Upto(run))
  BY <1>2, <1>3, LinesSeq
<1>10. IsPrefix(Lines(seen), Lines(mem))
  BY <1>2, <1>3, LinesPrefix
<1> QED
  BY <1>2, <1>3, <1>5, <1>6, <1>7, <1>9, <1>10

\* The buffer and a record: what a Write has in hand.
LEMMA InHand ==
  ASSUME TypeInv, seen < mem
  PROVE  /\ buf \o Record(seen + 1) \in Seq(Upto(run))
         /\ Len(buf \o Record(seen + 1)) = Len(buf) + 2
         /\ Record(seen + 1) \in Seq(Upto(run))
         /\ Lines(seen) \o Record(seen + 1) = Lines(seen + 1)
         /\ seen + 1 \in 0 .. mem /\ seen \in Nat
<1>1. seen \in Nat /\ seen + 1 \in 1 .. mem /\ seen + 1 \in 0 .. mem
  BY Typed
<1>2. run \in Nat /\ mem \in Nat /\ buf \in Seq(Upto(run))
  BY Typed
<1>3. Record(seen + 1) \in Seq(Upto(run)) /\ Len(Record(seen + 1)) = 2
  BY <1>1, <1>2, RecordSeq
<1>4. Lines(seen) \o Record(seen + 1) = Lines(seen + 1)
  BY <1>1, <1>2, LinesNext
<1>5. ASSUME NEW r \in Seq(Upto(run)), Len(r) = 2
      PROVE  buf \o r \in Seq(Upto(run)) /\ Len(buf \o r) = Len(buf) + 2
  <2>1. buf \in Seq(Upto(run)) /\ r \in Seq(Upto(run))
    BY <1>2
  <2>2. buf \o r \in Seq(Upto(run)) /\ Len(buf \o r) = Len(buf) + Len(r)
    BY ONLY <2>1, JoinSeq
  <2> QED
    BY <1>5, <2>2
<1> QED
  BY <1>1, <1>3, <1>4, <1>5

\* WriteSafeSlot keeps the buffer within its capacity.
LEMMA WriteTypes ==
  ASSUME TypeInv, seen < mem, WriteSafeSlot(seen + 1)
  PROVE  /\ buf' \in Seq(Upto(run)) /\ Len(buf') <= BufCap /\ file' \in Seq(Upto(run))
         /\ werr' \in BOOLEAN
<1>0. /\ file \in Seq(Upto(run)) /\ buf \in Seq(Upto(run)) /\ Len(buf) <= BufCap
      /\ werr \in BOOLEAN /\ BufCap \in Nat /\ BufCap >= 2 /\ Len(buf) \in Nat
  BY Typed, Constants
<1>1. ASSUME NEW all \in Seq(Upto(run)), all = buf \o Record(seen + 1), Len(all) = Len(buf) + 2
      PROVE  /\ buf' \in Seq(Upto(run)) /\ Len(buf') <= BufCap /\ file' \in Seq(Upto(run))
             /\ werr' \in BOOLEAN
  <2>1. CASE werr /\ UNCHANGED logVars
    BY <1>0, <2>1 DEF logVars
  <2>2. CASE Len(all) <= BufCap /\ buf' = all /\ UNCHANGED <<file, werr>>
    BY <1>0, <2>2
  <2>3. CASE /\ Len(all) > BufCap /\ werr' = werr
             /\ file' = file \o Taken(all, BufCap) /\ buf' = Rest(all, BufCap)
    <3>1. BufCap \in 0 .. Len(all)
      BY <1>0, <1>1, <2>3
    <3>2. Taken(all, BufCap) \in Seq(Upto(run))
      BY <3>1, CutSeq
    <3>3. Rest(all, BufCap) \in Seq(Upto(run)) /\ Len(Rest(all, BufCap)) = Len(all) - BufCap
      BY <3>1, CutSeq
    <3>4. file' \in Seq(Upto(run))
      BY <1>0, <2>3, <3>2, JoinSeq
    <3> QED
      BY <1>0, <1>1, <2>3, <3>3, <3>4
  <2>4. ASSUME NEW n \in 0 .. BufCap - 1, Len(all) > BufCap, werr' = TRUE,
               file' = file \o Taken(all, n), buf' = Rest(Taken(all, BufCap), n)
        PROVE  /\ buf' \in Seq(Upto(run)) /\ Len(buf') <= BufCap /\ file' \in Seq(Upto(run))
               /\ werr' \in BOOLEAN
    <3>1. BufCap \in 0 .. Len(all) /\ n \in 0 .. Len(all) /\ n \in 0 .. BufCap
      BY <1>0, <1>1, <2>4
    <3>2. Taken(all, n) \in Seq(Upto(run))
      BY <3>1, CutSeq
    <3>3. Taken(all, BufCap) \in Seq(Upto(run)) /\ Len(Taken(all, BufCap)) = BufCap
      BY <3>1, CutSeq
    <3>4. ASSUME NEW t \in Seq(Upto(run)), Len(t) = BufCap
          PROVE  Rest(t, n) \in Seq(Upto(run)) /\ Len(Rest(t, n)) = BufCap - n
      BY <3>1, <3>4, CutSeq
    <3>5. file' \in Seq(Upto(run))
      BY <1>0, <2>4, <3>2, JoinSeq
    <3> QED
      BY <1>0, <2>4, <3>1, <3>3, <3>4, <3>5
  <2> QED
    BY <1>1, <2>1, <2>2, <2>3, <2>4 DEF WriteSafeSlot
<1> QED
  BY <1>1, InHand

\* So does Flush.
LEMMA FlushTypes ==
  ASSUME TypeInv, FlushWrite \/ FlushReset
  PROVE  /\ buf' \in Seq(Upto(run)) /\ Len(buf') <= BufCap /\ file' \in Seq(Upto(run))
         /\ werr' \in BOOLEAN
<1>0. /\ file \in Seq(Upto(run)) /\ buf \in Seq(Upto(run)) /\ Len(buf) <= BufCap
      /\ werr \in BOOLEAN /\ BufCap \in Nat /\ BufCap >= 2 /\ Len(buf) \in Nat
  BY Typed, Constants
<1>1. CASE FlushReset
  <2>1. <<>> \in Seq(Upto(run)) /\ Len(<<>>) = 0
    BY EmptySeq
  <2> QED
    BY <1>0, <1>1, <2>1 DEF FlushReset
<1>2. CASE file' = file \o buf /\ UNCHANGED <<buf, werr>>
  BY <1>0, <1>2, JoinSeq
<1>3. ASSUME NEW n \in 0 .. Len(buf), file' = file \o Taken(buf, n), buf' = Rest(buf, n), werr' = TRUE
      PROVE  /\ buf' \in Seq(Upto(run)) /\ Len(buf') <= BufCap /\ file' \in Seq(Upto(run))
             /\ werr' \in BOOLEAN
  <2>1. Taken(buf, n) \in Seq(Upto(run))
    BY <1>0, CutSeq
  <2>2. Rest(buf, n) \in Seq(Upto(run)) /\ Len(Rest(buf, n)) = Len(buf) - n
    BY <1>0, CutSeq
  <2>3. file' \in Seq(Upto(run))
    BY <1>0, <1>3, <2>1, JoinSeq
  <2> QED
    BY <1>0, <1>3, <2>2, <2>3
<1> QED
  BY <1>1, <1>2, <1>3 DEF FlushWrite

\* The program starts with the types.
LEMMA InitTypeInv == Init => TypeInv
<1> SUFFICES ASSUME Init PROVE TypeInv
  OBVIOUS
<1>1. <<>> \in Seq(Upto(run)) /\ <<>> \in Seq(Upto(run - 1)) /\ Len(<<>>) = 0
  BY EmptySeq
<1>2. TypeOK
  <2>1. {wire, werr, fileOpen, mapped, parked, clean} \subseteq BOOLEAN
    BY DEF Init
  <2>2. mem = 0 /\ Len(buf) = 0 /\ run = 1 /\ seen = 0 /\ flag = 0
    BY <1>1 DEF Init
  <2>3. mem <= MaxEvents /\ Len(buf) <= BufCap /\ run \in 1 .. MaxRuns /\ seen \in 0 .. mem
    BY <2>2, Constants
  <2> QED
    BY <2>1, <2>2, <2>3 DEF Init, TypeOK
<1> QED
  BY <1>1, <1>2 DEF Init, TypeInv

\* What a step must keep of the types when it leaves the events alone.
LEMMA TypeStep ==
  ASSUME TypeInv, UNCHANGED <<run, sdk, mem, base, clean>>,
         buf' \in Seq(Upto(run)), Len(buf') <= BufCap, file' \in Seq(Upto(run)), werr' \in BOOLEAN,
         seen' \in 0 .. mem, epc' = "write" => seen' < mem,
         target' \in {"running", "ok", "failed", "sigpipe"},
         sock' \in {"none", "open", "eof", "done"}, tpc' \in {"idle", "check", "wake"},
         flag' \in {0, 1}, wire' \in BOOLEAN,
         epc' \in {"accept", "scan", "write", "flush", "reset", "flushed", "read", "lower", "gone"},
         phase' \in {"hot", "recheck", "found", "final"},
         fileOpen' \in BOOLEAN, mapped' \in BOOLEAN, parked' \in BOOLEAN,
         mpc' \in {"run", "close", "flush", "reset", "fclose", "lclose", "munmap", "exit"},
         spc' \in {"wait", "close", "flush", "reset", "fclose", "lclose", "munmap", "exit"},
         exited' \in {"no", "0", "1", "killed", "fault"}
  PROVE  TypeInv'
<1>1. clean \in BOOLEAN
  BY DEF TypeInv, TypeOK
<1>2. {wire', werr', fileOpen', mapped', parked', clean'} \subseteq BOOLEAN
  BY <1>1
<1>3. TypeOK'
  BY <1>2 DEF TypeInv, TypeOK
<1> QED
  BY <1>3 DEF TypeInv

\* The types, taken apart.
LEMMA TypesApart ==
  ASSUME TypeInv
  PROVE  /\ buf \in Seq(Upto(run)) /\ Len(buf) <= BufCap /\ file \in Seq(Upto(run)) /\ werr \in BOOLEAN
         /\ seen \in 0 .. mem /\ (epc = "write" => seen < mem)
         /\ target \in {"running", "ok", "failed", "sigpipe"}
         /\ sock \in {"none", "open", "eof", "done"} /\ tpc \in {"idle", "check", "wake"}
         /\ flag \in {0, 1} /\ wire \in BOOLEAN
         /\ epc \in {"accept", "scan", "write", "flush", "reset", "flushed", "read", "lower", "gone"}
         /\ phase \in {"hot", "recheck", "found", "final"}
         /\ fileOpen \in BOOLEAN /\ mapped \in BOOLEAN /\ parked \in BOOLEAN
         /\ mpc \in {"run", "close", "flush", "reset", "fclose", "lclose", "munmap", "exit"}
         /\ spc \in {"wait", "close", "flush", "reset", "fclose", "lclose", "munmap", "exit"}
         /\ exited \in {"no", "0", "1", "killed", "fault"} /\ clean \in BOOLEAN
BY DEF TypeInv, TypeOK

\* InWrite is part of what the writer has in hand.
LEMMA InWriteTypes ==
  ASSUME TypeInv, NEW n \in 0 .. Len(InWrite)
  PROVE  /\ InWrite \in Seq(Upto(run)) /\ file \o Taken(InWrite, n) \in Seq(Upto(run))
<1>0. buf \in Seq(Upto(run)) /\ file \in Seq(Upto(run)) /\ BufCap \in Nat /\ Len(buf) \in Nat
  BY Typed, Constants
<1>1. <<>> \in Seq(Upto(run))
  BY EmptySeq
<1>2. ASSUME epc = "write", Len(buf) + 2 > BufCap
      PROVE  Taken(buf \o Record(seen + 1), BufCap) \in Seq(Upto(run))
  <2>1. seen < mem
    BY <1>2 DEF TypeInv
  <2>2. buf \o Record(seen + 1) \in Seq(Upto(run)) /\ Len(buf \o Record(seen + 1)) = Len(buf) + 2
    BY <2>1, InHand
  <2>3. ASSUME NEW all \in Seq(Upto(run)), Len(all) = Len(buf) + 2
        PROVE  Taken(all, BufCap) \in Seq(Upto(run))
    <3>1. BufCap \in 0 .. Len(all)
      BY <1>0, <1>2, <2>3
    <3> QED
      BY <3>1, CutSeq
  <2> QED
    BY <2>2, <2>3
<1>3. InWrite \in Seq(Upto(run))
  BY <1>0, <1>1, <1>2 DEF InWrite
<1>4. ASSUME NEW w \in Seq(Upto(run)), NEW k \in 0 .. Len(w)
      PROVE  file \o Taken(w, k) \in Seq(Upto(run))
  <2>1. Taken(w, k) \in Seq(Upto(run))
    BY CutSeq
  <2> QED
    BY <1>0, <2>1, JoinSeq
<1> QED
  BY <1>3, <1>4

\* Every step keeps the types.
LEMMA NextTypeInv ==
  ASSUME TypeInv, [Next]_vars
  PROVE  TypeInv'
<1> USE DEF static, targetVars, shared, engine, logVars, fds, engineOnly, outside
<1>0. /\ buf \in Seq(Upto(run)) /\ Len(buf) <= BufCap /\ file \in Seq(Upto(run)) /\ werr \in BOOLEAN
      /\ seen \in 0 .. mem /\ (epc = "write" => seen < mem)
      /\ target \in {"running", "ok", "failed", "sigpipe"}
      /\ sock \in {"none", "open", "eof", "done"} /\ tpc \in {"idle", "check", "wake"}
      /\ flag \in {0, 1} /\ wire \in BOOLEAN
      /\ epc \in {"accept", "scan", "write", "flush", "reset", "flushed", "read", "lower", "gone"}
      /\ phase \in {"hot", "recheck", "found", "final"}
      /\ fileOpen \in BOOLEAN /\ mapped \in BOOLEAN /\ parked \in BOOLEAN
      /\ mpc \in {"run", "close", "flush", "reset", "fclose", "lclose", "munmap", "exit"}
      /\ spc \in {"wait", "close", "flush", "reset", "fclose", "lclose", "munmap", "exit"}
      /\ exited \in {"no", "0", "1", "killed", "fault"} /\ clean \in BOOLEAN
  BY TypesApart
<1>1. <<>> \in Seq(Upto(run)) /\ Len(<<>>) = 0 /\ Len(<<>>) <= BufCap
  BY EmptySeq, Constants
<1>2. ASSUME NEW code \in {"0", "1", "killed", "fault"}, Exits(code), file' \in Seq(Upto(run))
      PROVE  TypeInv'
  <2>1. /\ UNCHANGED <<run, sdk, mem, base, clean, target, sock, tpc, flag, seen, werr, mpc, spc, parked>>
        /\ exited' = code /\ epc' = "gone" /\ phase' = "hot" /\ buf' = <<>> /\ wire' = FALSE
        /\ fileOpen' = FALSE /\ mapped' = FALSE
    BY <1>2 DEF Exits
  <2>2. buf' \in Seq(Upto(run)) /\ Len(buf') <= BufCap
    BY <1>1, <2>1
  <2>3. wire' \in BOOLEAN /\ fileOpen' \in BOOLEAN /\ mapped' \in BOOLEAN
    BY <2>1
  <2>4. werr' \in BOOLEAN /\ parked' \in BOOLEAN /\ seen' \in 0 .. mem
    BY <1>0, <2>1
  <2>5. exited' \in {"no", "0", "1", "killed", "fault"} /\ epc' = "gone" /\ phase' = "hot"
    BY <2>1
  <2>6. UNCHANGED <<run, sdk, mem, base, clean, target, sock, tpc, flag, mpc, spc>>
    BY <2>1
  <2> HIDE <2>1
  <2> QED
    BY <1>0, <1>2, <2>2, <2>3, <2>4, <2>5, <2>6, TypeStep
<1>3. CASE NewTracerEngine
  <2>1. /\ run' = run + 1 /\ mem' = 0 /\ base' = file /\ file' = file /\ buf' = <<>> /\ seen' = 0
        /\ run < MaxRuns /\ sdk' = sdk /\ clean' \in BOOLEAN /\ werr' = FALSE
    BY <1>0, <1>3 DEF NewTracerEngine, Started
  <2>2. run' \in 1 .. MaxRuns /\ run' - 1 = run /\ run \in Nat
    BY <2>1, Typed, Constants DEF TypeInv, TypeOK
  <2>3. Upto(run) \subseteq Upto(run')
    BY <2>1, <2>2 DEF Upto, Chunks
  <2>4. file' \in Seq(Upto(run'))
    BY <1>0, <2>1, <2>3, SeqMonotonic
  <2>5. <<>> \in Seq(Upto(run'))
    BY EmptySeq
  <2>6. {wire', werr', fileOpen', mapped', parked', clean'} \subseteq BOOLEAN
    BY <1>3, <2>1 DEF NewTracerEngine, Started
  <2>7. mem' <= MaxEvents /\ seen' \in 0 .. mem' /\ Len(buf') <= BufCap
    BY <1>1, <2>1, Constants
  <2>8. TypeOK'
    BY <1>3, <2>1, <2>2, <2>6, <2>7 DEF NewTracerEngine, Started, TypeInv, TypeOK
  <2>9. epc' # "write"
    BY <1>3 DEF NewTracerEngine, Started
  <2> QED
    BY <1>0, <2>1, <2>2, <2>4, <2>5, <2>8, <2>9 DEF TypeInv
<1>4. CASE Killed
  BY <1>2, <1>4, InWriteTypes DEF Killed
<1>5. CASE Emit
  <2>1. mem \in Nat /\ mem' = mem + 1 /\ run' = run /\ mem < MaxEvents
          /\ mem \in Nat
    BY <1>5, Typed DEF Emit
  <2>2. mem' \in Nat /\ mem' = mem + 1
    BY <2>1
  <2>3. mem' <= MaxEvents /\ seen \in 0 .. mem' /\ (epc = "write" => seen < mem')
    BY <1>0, <2>1, <2>2, Constants
  <2>4. TypeOK'
    BY <1>5, <2>3 DEF Emit, TypeInv, TypeOK
  <2> QED
    BY <1>5, <2>2, <2>3, <2>4 DEF Emit, TypeInv
<1>6. CASE Connect
  BY <1>0, <1>6, TypeStep DEF Connect
<1>7. CASE CheckFlag
  BY <1>0, <1>7, TypeStep DEF CheckFlag
<1>8. CASE trigger_uds_wakeup
  BY <1>0, <1>8, TypeStep DEF trigger_uds_wakeup
<1>9. ASSUME NEW status \in {"ok", "failed"}, TargetExit(status) PROVE TypeInv'
  BY <1>0, <1>9, TypeStep DEF TargetExit
<1>10. CASE EngineAccept \/ EngineDone \/ EngineArm \/ EngineRead \/ EngineLower
  <2>1. CASE EngineAccept
    BY <1>0, <2>1, TypeStep DEF EngineAccept
  <2>2. CASE EngineDone
    BY <1>0, <2>2, TypeStep DEF EngineDone
  <2>3. CASE EngineArm
    BY <1>0, <2>3, TypeStep DEF EngineArm
  <2>4. CASE EngineRead
    <3>1. UNCHANGED <<engineOnly, sock, flag, seen, logVars>>
      BY <2>4 DEF EngineRead
    <3>2. epc' \in {"lower", "scan"} /\ phase' \in {phase, "hot", "final"}
      BY <2>4 DEF EngineRead
    <3>3. wire' \in BOOLEAN
      BY <1>0, <2>4 DEF EngineRead
    <3>4. phase' \in {"hot", "recheck", "found", "final"}
      BY <1>0, <3>2
    <3> QED
      BY <1>0, <3>1, <3>2, <3>3, <3>4, TypeStep
  <2>5. CASE EngineLower
    BY <1>0, <2>5, TypeStep DEF EngineLower
  <2> QED
    BY <1>10, <2>1, <2>2, <2>3, <2>4, <2>5
<1>11. CASE EngineScan
  <2>1. epc' \in {"write", "read", "lower", "flush", "flushed"} /\ (epc' = "write" => seen < mem)
    BY <1>11 DEF EngineScan, AfterScan
  <2> QED
    BY <1>0, <1>11, <2>1, TypeStep DEF EngineScan
<1>12. CASE EngineWrite
  <2>1. seen < mem /\ WriteSafeSlot(seen + 1)
    BY <1>0, <1>12 DEF EngineWrite
  <2>2. /\ buf' \in Seq(Upto(run)) /\ Len(buf') <= BufCap /\ file' \in Seq(Upto(run))
        /\ werr' \in BOOLEAN
    BY <2>1, WriteTypes
  <2>3. seen + 1 \in 0 .. mem
    BY <2>1, InHand
  <2> QED
    BY <1>0, <1>12, <2>2, <2>3, TypeStep DEF EngineWrite
<1>13. CASE EngineFlush \/ EngineReset
  <2>1. FlushWrite \/ FlushReset
    BY <1>13 DEF EngineFlush, EngineReset
  <2>2. /\ buf' \in Seq(Upto(run)) /\ Len(buf') <= BufCap /\ file' \in Seq(Upto(run))
        /\ werr' \in BOOLEAN
    BY <2>1, FlushTypes
  <2> QED
    BY <1>0, <1>13, <2>2, TypeStep DEF EngineFlush, EngineReset
<1>14. CASE EngineFault
  BY <1>0, <1>2, <1>14 DEF EngineFault
<1>15. ASSUME NEW pc, NEW pcn, CloseStep(pc, pcn)
       PROVE  /\ pcn \in {"flush", "fclose", "reset", "lclose", "munmap", "exit"} /\ parked' \in BOOLEAN
              /\ fileOpen' \in BOOLEAN /\ mapped' \in BOOLEAN
              /\ buf' \in Seq(Upto(run)) /\ Len(buf') <= BufCap /\ file' \in Seq(Upto(run))
              /\ werr' \in BOOLEAN
  <2>1. CASE FlushWrite \/ FlushReset
    <3>1. /\ buf' \in Seq(Upto(run)) /\ Len(buf') <= BufCap /\ file' \in Seq(Upto(run))
          /\ werr' \in BOOLEAN
      BY <2>1, FlushTypes
    <3> QED
      BY <1>0, <1>15, <3>1 DEF CloseStep
  <2>2. CASE UNCHANGED logVars
    BY <1>0, <1>15, <2>2 DEF CloseStep
  <2> QED
    BY <1>15, <2>1, <2>2 DEF CloseStep
<1>16. CASE MainClose
  BY <1>0, <1>15, <1>16, TypeStep DEF MainClose
<1>17. CASE SignalClose
  BY <1>0, <1>15, <1>17, TypeStep DEF SignalClose
<1>18. CASE MainRunReturns
  <2>1. CASE Exits("1") /\ UNCHANGED file
    BY <1>0, <1>2, <2>1
  <2>2. CASE mpc' = "close" /\ UNCHANGED <<outside, logVars, fds, spc, exited, parked>>
    BY <1>0, <2>2, TypeStep
  <2> QED
    BY <1>18, <2>1, <2>2 DEF MainRunReturns
<1>19. CASE MainExit \/ SignalExit
  BY <1>0, <1>2, <1>19 DEF MainExit, SignalExit
<1>20. CASE Interrupt
  BY <1>0, <1>20, TypeStep DEF Interrupt
<1>21. CASE UNCHANGED vars
  BY <1>0, <1>21, TypeStep DEF vars
<1> QED
  BY <1>3, <1>4, <1>5, <1>6, <1>7, <1>8, <1>9, <1>10, <1>11, <1>12, <1>13, <1>14, <1>16, <1>17,
     <1>18, <1>19, <1>20, <1>21 DEF Next, EngineStep, MainStep, SignalStep

-----------------------------------------------------------------------------
\* A file that part of w is written to, when all of it would fit the records.
LEMMA GrowPrefix ==
  ASSUME NEW S, NEW f \in Seq(S), NEW b \in Seq(S), NEW w \in Seq(S), NEW l \in Seq(S),
         NEW n \in 0 .. Len(w), IsPrefix(b, f), IsPrefix(f \o w, b \o l)
  PROVE  IsPrefix(b, f \o Taken(w, n)) /\ IsPrefix(f \o Taken(w, n), b \o l)
<1>1. Taken(w, n) \in Seq(S) /\ IsPrefix(Taken(w, n), w)
  BY CutSeq, PrefixTaken
<1>2. ASSUME NEW t \in Seq(S), IsPrefix(t, w)
      PROVE  IsPrefix(b, f \o t) /\ IsPrefix(f \o t, b \o l)
  <2>1. f \o t \in Seq(S) /\ f \o w \in Seq(S) /\ b \o l \in Seq(S)
    BY JoinSeq
  <2>2. IsPrefix(f, f \o t)
    BY PrefixJoin
  <2>3. IsPrefix(f \o t, f \o w)
    BY <1>2, PrefixExtend
  <2>4. ASSUME NEW ft \in Seq(S), NEW fw \in Seq(S), NEW bl \in Seq(S),
               IsPrefix(f, ft), IsPrefix(ft, fw), IsPrefix(fw, bl)
        PROVE  IsPrefix(b, ft) /\ IsPrefix(ft, bl)
    BY <2>4, PrefixTrans
  <2> QED
    BY <2>1, <2>2, <2>3, <2>4
<1> QED
  BY <1>1, <1>2

\* The records of n events after what the run found are a prefix of all of them.
LEMMA BaseLines ==
  ASSUME TypeInv, NEW n \in 0 .. mem
  PROVE  /\ Lines(n) \in Seq(Upto(run)) /\ base \o Lines(n) \in Seq(Upto(run))
         /\ IsPrefix(base \o Lines(n), base \o Lines(mem))
<1>1. /\ run \in Nat /\ mem \in Nat /\ base \in Seq(Upto(run))
      /\ n \in Nat /\ n <= mem /\ Lines(mem) \in Seq(Upto(run))
  BY Typed
<1>2. Lines(n) \in Seq(Upto(run)) /\ IsPrefix(Lines(n), Lines(mem))
  BY <1>1, LinesSeq, LinesPrefix
<1>3. ASSUME NEW a \in Seq(Upto(run)), NEW b \in Seq(Upto(run)), IsPrefix(a, b)
      PROVE  base \o a \in Seq(Upto(run)) /\ IsPrefix(base \o a, base \o b)
  BY <1>1, <1>3, JoinSeq, PrefixExtend
<1> QED
  BY <1>1, <1>2, <1>3

\* Concatenation under a name of its own, which the provers do not take apart.
Cat(s, t) == s \o t

\* Two ways to cut the same sequence, extended.
LEMMA JoinShift ==
  ASSUME NEW S, NEW b \in Seq(S), NEW l \in Seq(S), NEW f \in Seq(S), NEW u \in Seq(S),
         NEW r \in Seq(S), Cat(b, l) = Cat(f, u)
  PROVE  Cat(b, Cat(l, r)) = Cat(f, Cat(u, r))
<1>1. ASSUME NEW x \in Seq(S), NEW y \in Seq(S), NEW z \in Seq(S)
      PROVE  Cat(x, Cat(y, z)) = Cat(Cat(x, y), z)
  BY ONLY x \in Seq(S), y \in Seq(S), z \in Seq(S), SMTT(60) DEF Cat
<1> QED
  BY <1>1

\* With the next record in hand, file and hand are the records of one event more.
LEMMA HandExact ==
  ASSUME TypeInv, seen < mem, base \o Lines(seen) = file \o buf
  PROVE  base \o Lines(seen + 1) = file \o (buf \o Record(seen + 1))
<1>1. /\ base \in Seq(Upto(run)) /\ Lines(seen) \in Seq(Upto(run)) /\ file \in Seq(Upto(run))
      /\ buf \in Seq(Upto(run)) /\ Record(seen + 1) \in Seq(Upto(run))
      /\ Cat(Lines(seen), Record(seen + 1)) = Lines(seen + 1)
  BY Typed, InHand DEF Cat
<1>2. Cat(base, Lines(seen)) = Cat(file, buf)
  BY DEF Cat
<1>3. Cat(base, Cat(Lines(seen), Record(seen + 1))) = Cat(file, Cat(buf, Record(seen + 1)))
  BY <1>1, <1>2, JoinShift
<1>4. Cat(base, Lines(seen + 1)) = Cat(file, Cat(buf, Record(seen + 1)))
  BY <1>1, <1>3
<1> QED
  BY <1>4 DEF Cat

\* WriteSafeSlot, alone with the writer: the file stays a prefix, and without an error file
\* and buffer are the records harvested.
LEMMA WriteLog ==
  ASSUME TypeInv, seen < mem, WriteSafeSlot(seen + 1), FilePrefix,
         ~werr => base \o Lines(seen) = file \o buf
  PROVE  /\ IsPrefix(base, file') /\ IsPrefix(file', base \o Lines(mem))
         /\ ~werr' => base \o Lines(seen + 1) = file' \o buf'
<1>0. /\ file \in Seq(Upto(run)) /\ buf \in Seq(Upto(run)) /\ base \in Seq(Upto(run))
      /\ Lines(mem) \in Seq(Upto(run)) /\ BufCap \in Nat /\ BufCap >= 2 /\ Len(buf) \in Nat
      /\ IsPrefix(base, file) /\ IsPrefix(file, base \o Lines(mem))
  BY Typed, Constants DEF FilePrefix
<1>1. CASE werr
  BY <1>0, <1>1 DEF WriteSafeSlot, logVars
<1>2. CASE ~werr
  <2>1. ASSUME NEW all \in Seq(Upto(run)), all = buf \o Record(seen + 1), Len(all) = Len(buf) + 2,
               base \o Lines(seen + 1) = file \o all,
               IsPrefix(file \o all, base \o Lines(mem))
        PROVE  /\ IsPrefix(base, file') /\ IsPrefix(file', base \o Lines(mem))
               /\ ~werr' => base \o Lines(seen + 1) = file' \o buf'
    <3>1. ASSUME NEW n \in 0 .. Len(all)
          PROVE  /\ IsPrefix(base, file \o Taken(all, n))
                 /\ IsPrefix(file \o Taken(all, n), base \o Lines(mem))
      BY <1>0, <2>1, GrowPrefix
    <3>2. CASE buf' = all /\ UNCHANGED <<file, werr>>
      BY <1>0, <2>1, <3>2
    <3>3. CASE /\ Len(all) > BufCap /\ file' = file \o Taken(all, BufCap) /\ buf' = Rest(all, BufCap)
      <4>1. BufCap \in 0 .. Len(all)
        BY <1>0, <2>1, <3>3
      <4>2. /\ Taken(all, BufCap) \in Seq(Upto(run)) /\ Rest(all, BufCap) \in Seq(Upto(run))
            /\ Taken(all, BufCap) \o Rest(all, BufCap) = all
        BY <4>1, CutSeq, CutJoin
      <4>3. (file \o Taken(all, BufCap)) \o Rest(all, BufCap)
              = file \o (Taken(all, BufCap) \o Rest(all, BufCap))
        <5>1. /\ file \in Seq(Upto(run)) /\ Taken(all, BufCap) \in Seq(Upto(run))
              /\ Rest(all, BufCap) \in Seq(Upto(run))
          BY <1>0, <4>2
        <5> QED
          BY ONLY <5>1, SMTT(60)
      <4> QED
        BY <2>1, <3>1, <3>3, <4>1, <4>2, <4>3
    <3>4. ASSUME NEW n \in 0 .. BufCap - 1, Len(all) > BufCap, werr' = TRUE,
                 file' = file \o Taken(all, n)
          PROVE  /\ IsPrefix(base, file') /\ IsPrefix(file', base \o Lines(mem))
                 /\ ~werr' => base \o Lines(seen + 1) = file' \o buf'
      <4>1. n \in 0 .. Len(all)
        BY <1>0, <2>1, <3>4
      <4> QED
        BY <3>1, <3>4, <4>1
    <3> QED
      BY <1>2, <2>1, <3>2, <3>3, <3>4 DEF WriteSafeSlot
  <2>2. /\ buf \o Record(seen + 1) \in Seq(Upto(run)) /\ Len(buf \o Record(seen + 1)) = Len(buf) + 2
        /\ base \o Lines(seen + 1) = file \o (buf \o Record(seen + 1)) /\ seen + 1 \in 0 .. mem
    BY <1>2, InHand, HandExact
  <2>3. IsPrefix(file \o (buf \o Record(seen + 1)), base \o Lines(mem))
    BY <2>2, BaseLines
  <2> QED
    BY <2>1, <2>2, <2>3
<1> QED
  BY <1>1, <1>2

\* The first half of Flush, alone with the writer.
LEMMA FlushLog ==
  ASSUME TypeInv, FlushWrite, FilePrefix, base \o Lines(seen) = file \o buf, ~werr
  PROVE  /\ IsPrefix(base, file') /\ IsPrefix(file', base \o Lines(mem))
         /\ ~werr' => base \o Lines(seen) = file'
<1>0. /\ file \in Seq(Upto(run)) /\ buf \in Seq(Upto(run)) /\ base \in Seq(Upto(run))
      /\ Lines(mem) \in Seq(Upto(run)) /\ seen \in 0 .. mem
      /\ IsPrefix(base, file) /\ IsPrefix(file, base \o Lines(mem))
  BY Typed DEF FilePrefix
<1>1. IsPrefix(file \o buf, base \o Lines(mem))
  BY <1>0, BaseLines
<1>2. ASSUME NEW n \in 0 .. Len(buf)
      PROVE  /\ IsPrefix(base, file \o Taken(buf, n))
             /\ IsPrefix(file \o Taken(buf, n), base \o Lines(mem))
  BY <1>0, <1>1, GrowPrefix
<1>3. CASE file' = file \o buf /\ UNCHANGED <<buf, werr>>
  <2>1. IsPrefix(file, file \o buf) /\ file \o buf \in Seq(Upto(run))
    BY <1>0, PrefixJoin, JoinSeq
  <2>2. ASSUME NEW fb \in Seq(Upto(run)), IsPrefix(file, fb) PROVE IsPrefix(base, fb)
    BY <1>0, <2>2, PrefixTrans
  <2> QED
    BY <1>1, <1>3, <2>1, <2>2
<1>4. ASSUME NEW n \in 0 .. Len(buf), file' = file \o Taken(buf, n), werr' = TRUE
      PROVE  /\ IsPrefix(base, file') /\ IsPrefix(file', base \o Lines(mem))
             /\ ~werr' => base \o Lines(seen) = file'
  BY <1>2, <1>4
<1> QED
  BY <1>3, <1>4 DEF FlushWrite

-----------------------------------------------------------------------------
\* A step that leaves the log, the events and the program alone.
LogQuiet ==
  /\ UNCHANGED <<run, base, clean, mem, seen, buf, file, werr, exited>>
  /\ epc' = "reset" <=> epc = "reset"
  /\ epc' = "flush" => epc = "flush" \/ ~werr
  /\ NoCloseBegun' => NoCloseBegun

\* The program ends with this file.
Ends == exited' # "no" /\ UNCHANGED <<run, base, clean, mem, seen, werr, mpc, spc, parked, sock, target>>
          /\ epc' = "gone" /\ buf' = <<>> /\ phase' = "hot"

\* The steps that matter to the log while no Close has begun.
LEMMA LogSteps ==
  ASSUME TypeInv, [Next]_vars
  PROVE  \/ LogQuiet
         \/ NewTracerEngine
         \/ Ends /\ (Killed \/ file' = file) /\ Up
         \/ Emit \/ EngineWrite \/ EngineFlush \/ EngineReset
         \/ ~NoCloseBegun' /\ (MainClose \/ SignalClose)
<1> USE DEF static, targetVars, shared, engine, logVars, fds, engineOnly, outside
<1>1. CASE Connect \/ CheckFlag \/ trigger_uds_wakeup \/ UNCHANGED vars
  BY <1>1 DEF Connect, CheckFlag, trigger_uds_wakeup, LogQuiet, NoCloseBegun, vars
<1>2. ASSUME NEW status, TargetExit(status) PROVE LogQuiet
  BY <1>2 DEF TargetExit, LogQuiet, NoCloseBegun
<1>3. CASE EngineAccept \/ EngineDone \/ EngineArm \/ EngineRead \/ EngineLower
  BY <1>3 DEF EngineAccept, EngineDone, EngineArm, EngineRead, EngineLower, LogQuiet, NoCloseBegun
<1>4. CASE EngineScan
  <2>1. epc' \in {"write", "read", "lower", "flush", "flushed"} /\ (epc' = "flush" => ~werr)
          /\ epc = "scan" /\ UNCHANGED <<run, base, clean, mem, seen, buf, file, werr, exited, mpc, spc>>
    BY <1>4 DEF EngineScan, AfterScan, FlushNeeded
  <2> QED
    BY <2>1 DEF LogQuiet, NoCloseBegun
<1>5. CASE Interrupt
  BY <1>5 DEF Interrupt, LogQuiet, NoCloseBegun
<1>6. ASSUME NEW code \in {"0", "1", "killed", "fault"}, Exits(code) PROVE Ends
  BY <1>6 DEF Exits, Ends
<1>7. CASE EngineFault \/ MainExit \/ SignalExit \/ Killed
  BY <1>6, <1>7 DEF EngineFault, MainExit, SignalExit, Killed
<1>8. CASE MainRunReturns
  <2>1. CASE mpc' = "close" /\ UNCHANGED <<outside, logVars, fds, spc, exited, parked>> /\ mpc = "run"
    BY <2>1 DEF LogQuiet, NoCloseBegun
  <2> QED
    BY <1>6, <1>8, <2>1 DEF MainRunReturns
<1>9. CASE MainClose \/ SignalClose
  <2>1. ~NoCloseBegun'
    BY <1>9 DEF MainClose, SignalClose, CloseStep, NoCloseBegun
  <2> QED
    BY <1>9, <2>1
<1> QED
  BY <1>1, <1>2, <1>3, <1>4, <1>5, <1>7, <1>8, <1>9 DEF Next, EngineStep, MainStep, SignalStep

\* A kill in the middle of a write leaves a prefix.
LEMMA KillLog ==
  ASSUME TypeInv, LogInv, NoCloseBegun, Up, NEW n \in 0 .. Len(InWrite)
  PROVE  /\ IsPrefix(base, file \o Taken(InWrite, n))
         /\ IsPrefix(file \o Taken(InWrite, n), base \o Lines(mem))
         /\ Len(file) <= Len(file \o Taken(InWrite, n))
<1>0. /\ file \in Seq(Upto(run)) /\ buf \in Seq(Upto(run)) /\ base \in Seq(Upto(run))
      /\ Lines(mem) \in Seq(Upto(run)) /\ seen \in 0 .. mem /\ BufCap \in Nat
      /\ IsPrefix(base, file) /\ IsPrefix(file, base \o Lines(mem))
      /\ InWrite \in Seq(Upto(run)) /\ Len(buf) \in Nat /\ Len(file) \in Nat
  BY Typed, Constants, InWriteTypes DEF LogInv, FilePrefix
<1>1. IsPrefix(file \o InWrite, base \o Lines(mem))
  <2>1. CASE InWrite = <<>>
    <3>1. file \o <<>> = file
      BY <1>0, ConcatEmptySeq
    <3> QED
      BY <1>0, <2>1, <3>1
  <2>2. CASE InWrite = buf /\ epc = "flush"
    <3>1. base \o Lines(seen) = file \o buf
      BY <2>2 DEF LogInv
    <3> QED
      BY <1>0, <2>2, <3>1, BaseLines
  <2>3. CASE /\ ~werr /\ epc = "write" /\ Len(buf) + 2 > BufCap
             /\ InWrite = Taken(buf \o Record(seen + 1), BufCap)
    <3>1. base \o Lines(seen) = file \o buf /\ seen < mem
      BY <2>3 DEF LogInv, TypeInv
    <3>2. /\ buf \o Record(seen + 1) \in Seq(Upto(run)) /\ Len(buf \o Record(seen + 1)) = Len(buf) + 2
          /\ base \o Lines(seen + 1) = file \o (buf \o Record(seen + 1)) /\ seen + 1 \in 0 .. mem
      BY <3>1, InHand, HandExact
    <3>3. IsPrefix(file \o (buf \o Record(seen + 1)), base \o Lines(mem))
      BY <3>2, BaseLines
    <3>4. ASSUME NEW all \in Seq(Upto(run)), Len(all) = Len(buf) + 2,
                 IsPrefix(file \o all, base \o Lines(mem))
          PROVE  IsPrefix(file \o Taken(all, BufCap), base \o Lines(mem))
      <4>1. BufCap \in 0 .. Len(all)
        BY <1>0, <2>3, <3>4
      <4> QED
        BY <1>0, <3>4, <4>1, GrowPrefix
    <3> QED
      BY <2>3, <3>2, <3>3, <3>4
  <2>4. \/ InWrite = <<>>
        \/ InWrite = buf /\ epc = "flush"
        \/ /\ ~werr /\ epc = "write" /\ Len(buf) + 2 > BufCap
           /\ InWrite = Taken(buf \o Record(seen + 1), BufCap)
    <3>0. mpc # "flush" /\ spc # "flush"
      BY DEF NoCloseBegun
    <3>1. CASE werr \/ ~fileOpen
      BY <3>1 DEF InWrite
    <3>2. CASE ~(werr \/ ~fileOpen) /\ epc = "flush"
      BY <3>2 DEF InWrite
    <3>3. CASE ~(werr \/ ~fileOpen) /\ epc # "flush" /\ epc = "write" /\ Len(buf) + 2 > BufCap
      BY <3>0, <3>3 DEF InWrite
    <3>4. CASE ~(werr \/ ~fileOpen) /\ epc # "flush" /\ ~(epc = "write" /\ Len(buf) + 2 > BufCap)
      BY <3>0, <3>4 DEF InWrite
    <3> QED
      BY <3>1, <3>2, <3>3, <3>4
  <2> QED
    BY <2>1, <2>2, <2>3, <2>4
<1>2. ASSUME NEW w \in Seq(Upto(run)), NEW k \in 0 .. Len(w), IsPrefix(file \o w, base \o Lines(mem))
      PROVE  /\ IsPrefix(base, file \o Taken(w, k))
             /\ IsPrefix(file \o Taken(w, k), base \o Lines(mem))
             /\ Len(file) <= Len(file \o Taken(w, k))
  <2>1. /\ IsPrefix(base, file \o Taken(w, k))
        /\ IsPrefix(file \o Taken(w, k), base \o Lines(mem))
    BY <1>0, <1>2, GrowPrefix
  <2>2. Taken(w, k) \in Seq(Upto(run))
    BY CutSeq
  <2>3. Len(file \o Taken(w, k)) = Len(file) + Len(Taken(w, k)) /\ Len(Taken(w, k)) \in Nat
    BY <1>0, <2>2, JoinSeq
  <2> QED
    BY <1>0, <2>1, <2>3
<1> QED
  BY <1>0, <1>1, <1>2

\* The invariant of the log needs only that its parts keep their values.
LEMMA LogKept ==
  ASSUME UNCHANGED <<run, base, mem>>
  PROVE  /\ Lines(mem)' = Lines(mem)
         /\ FilePrefix' <=> (IsPrefix(base, file') /\ IsPrefix(file', base \o Lines(mem)))
<1>1. Lines(mem)' = Lines(mem)
  BY DEF Lines, Chunk
<1> QED
  BY <1>1 DEF FilePrefix

\* Every step keeps the file a prefix, and the harvested records in file and buffer.
LEMMA NextLogInv ==
  ASSUME TypeInv, LogInv, [Next]_vars
  PROVE  LogInv'
<1> USE DEF static, targetVars, shared, engine, logVars, fds, engineOnly, outside
<1> SUFFICES ASSUME NoCloseBegun'
             PROVE  /\ FilePrefix'
                    /\ epc' = "flush" => ~werr'
                    /\ Up' /\ ~werr' =>
                         base' \o Lines(seen)' = IF epc' = "reset" THEN file' ELSE file' \o buf'
  BY DEF LogInv
<1>1. CASE LogQuiet
  <2>1. UNCHANGED <<run, base, mem, seen, buf, file, werr, exited>> /\ NoCloseBegun
          /\ (epc' = "reset" <=> epc = "reset") /\ (epc' = "flush" => epc = "flush" \/ ~werr)
    BY <1>1 DEF LogQuiet
  <2>2. Lines(seen)' = Lines(seen) /\ FilePrefix'
    BY <2>1, LinesKept, LogKept DEF LogInv, FilePrefix
  <2>3. Up' /\ ~werr' => base' \o Lines(seen)' = IF epc' = "reset" THEN file' ELSE file' \o buf'
    BY <2>1, <2>2 DEF LogInv, Up
  <2> QED
    BY <2>1, <2>2, <2>3 DEF LogInv
<1>2. CASE NewTracerEngine
  <2>1. base' = file /\ file' = file /\ buf' = <<>> /\ mem' = 0 /\ seen' = 0 /\ epc' = "accept"
    BY <1>2 DEF NewTracerEngine, Started
  <2>2. file \in Seq(Upto(run)) /\ Len(<<>>) = 0
    BY Typed, EmptySeq
  <2>3. Lines(seen)' = <<>> /\ Lines(mem)' = <<>>
    <3>1. 1 .. 2 * 0 = {} /\ seen' = 0 /\ mem' = 0
      BY <2>1, <2>2
    <3> QED
      BY <3>1 DEF Lines
  <2>4. file \o <<>> = file
    BY <2>2, ConcatEmptySeq
  <2>5. IsPrefix(file, file)
    BY <2>2, PrefixJoin
  <2> QED
    BY <2>1, <2>3, <2>4, <2>5 DEF FilePrefix
<1>3. CASE Ends /\ (Killed \/ file' = file) /\ Up
  <2>1. NoCloseBegun /\ UNCHANGED <<run, base, mem>> /\ ~Up' /\ epc' = "gone"
    BY <1>3 DEF Ends, NoCloseBegun, Up
  <2>2. IsPrefix(base, file') /\ IsPrefix(file', base \o Lines(mem))
    <3>1. CASE Killed
      <4>1. PICK n \in 0 .. Len(InWrite) : file' = file \o Taken(InWrite, n)
        BY <3>1 DEF Killed
      <4> QED
        BY <1>3, <2>1, <4>1, KillLog
    <3>2. CASE file' = file
      BY <2>1, <3>2 DEF LogInv, FilePrefix
    <3> QED
      BY <1>3, <3>1, <3>2
  <2> QED
    BY <2>1, <2>2, LogKept
<1>4. CASE Emit
  <2>1. /\ UNCHANGED <<run, base, seen, buf, file, werr, exited, epc>> /\ NoCloseBegun
        /\ mem' = mem + 1
    BY <1>4 DEF Emit, NoCloseBegun
  <2>2. run \in Nat /\ mem \in Nat /\ seen \in 0 .. mem
    BY Typed
  <2>3. Lines(seen)' = Lines(seen)
    BY <2>1, LinesKept
  <2>4. Lines(mem)' = Lines(mem + 1)
    BY <2>1 DEF Lines, Chunk
  <2>5. IsPrefix(Lines(mem), Lines(mem)') /\ Lines(mem)' \in Seq(Upto(run))
    <3>1. mem + 1 \in Nat /\ mem <= mem + 1
      BY <2>2
    <3> QED
      BY <2>2, <2>4, <3>1, LinesSeq, LinesPrefix
  <2>6. FilePrefix'
    <3>1. IsPrefix(base, file) /\ IsPrefix(file, base \o Lines(mem))
      BY <2>1 DEF LogInv, FilePrefix
    <3>2. base \in Seq(Upto(run)) /\ file \in Seq(Upto(run)) /\ Lines(mem) \in Seq(Upto(run))
      BY Typed
    <3>3. ASSUME NEW a \in Seq(Upto(run)), NEW b \in Seq(Upto(run)), IsPrefix(a, b),
                 IsPrefix(file, base \o a)
          PROVE  IsPrefix(file, base \o b)
      <4>1. base \o a \in Seq(Upto(run)) /\ base \o b \in Seq(Upto(run))
        BY <3>2, JoinSeq
      <4>2. IsPrefix(base \o a, base \o b)
        BY <3>2, <3>3, PrefixExtend
      <4>3. ASSUME NEW c \in Seq(Upto(run)), NEW d \in Seq(Upto(run)), IsPrefix(file, c), IsPrefix(c, d)
            PROVE  IsPrefix(file, d)
        BY <3>2, <4>3, PrefixTrans
      <4> QED
        BY <3>3, <4>1, <4>2, <4>3
    <3>4. IsPrefix(file, base \o Lines(mem)')
      BY <2>5, <3>1, <3>2, <3>3
    <3> QED
      BY <2>1, <3>1, <3>4 DEF FilePrefix
  <2>7. Up' /\ ~werr' => base' \o Lines(seen)' = IF epc' = "reset" THEN file' ELSE file' \o buf'
    BY <2>1, <2>3 DEF LogInv, Up
  <2> QED
    BY <2>1, <2>6, <2>7 DEF LogInv
<1>5. CASE EngineWrite
  <2>1. /\ UNCHANGED <<run, base, mem, exited, mpc, spc>> /\ epc = "write" /\ epc' = "scan" /\ Up
        /\ seen' = seen + 1 /\ WriteSafeSlot(seen + 1)
    BY <1>5 DEF EngineWrite
  <2>2. NoCloseBegun /\ seen < mem
    BY <2>1 DEF NoCloseBegun, TypeInv
  <2>3. FilePrefix /\ (~werr => base \o Lines(seen) = file \o buf)
    BY <2>1, <2>2 DEF LogInv
  <2>4. /\ IsPrefix(base, file') /\ IsPrefix(file', base \o Lines(mem))
        /\ ~werr' => base \o Lines(seen + 1) = file' \o buf'
    BY <2>1, <2>2, <2>3, WriteLog
  <2>5. Lines(seen)' = Lines(seen + 1)
    BY <2>1 DEF Lines, Chunk
  <2> QED
    BY <2>1, <2>4, <2>5, LogKept
<1>6. CASE EngineFlush
  <2>1. /\ UNCHANGED <<run, base, mem, seen, exited, mpc, spc>> /\ epc = "flush" /\ epc' = "reset" /\ Up
        /\ FlushWrite
    BY <1>6 DEF EngineFlush
  <2>2. NoCloseBegun
    BY <2>1 DEF NoCloseBegun
  <2>3. FilePrefix /\ ~werr /\ base \o Lines(seen) = file \o buf
    BY <2>1, <2>2 DEF LogInv
  <2>4. /\ IsPrefix(base, file') /\ IsPrefix(file', base \o Lines(mem))
        /\ ~werr' => base \o Lines(seen) = file'
    BY <2>1, <2>3, FlushLog
  <2>5. Lines(seen)' = Lines(seen)
    BY <2>1, LinesKept
  <2> QED
    BY <2>1, <2>4, <2>5, LogKept
<1>7. CASE EngineReset
  <2>1. /\ UNCHANGED <<run, base, mem, seen, exited, mpc, spc, file, werr>> /\ epc = "reset"
        /\ epc' = "flushed" /\ Up /\ (~werr => buf' = <<>>)
    BY <1>7 DEF EngineReset, FlushReset
  <2>2. NoCloseBegun
    BY <2>1 DEF NoCloseBegun
  <2>3. FilePrefix /\ (~werr => base \o Lines(seen) = file)
    BY <2>1, <2>2 DEF LogInv
  <2>4. Lines(seen)' = Lines(seen) /\ FilePrefix'
    BY <2>1, <2>3, LinesKept, LogKept DEF FilePrefix
  <2>5. file \o <<>> = file
    BY Typed, ConcatEmptySeq
  <2> QED
    BY <2>1, <2>3, <2>4, <2>5
<1> QED
  BY <1>1, <1>2, <1>3, <1>4, <1>5, <1>6, <1>7, LogSteps

\* An end without Close loses what the buffer held.
LEMMA NextFatalInv ==
  ASSUME TypeInv, LogInv, FatalInv, [Next]_vars
  PROVE  FatalInv'
<1> USE DEF static, targetVars, shared, engine, logVars, fds, engineOnly, outside
<1> SUFFICES ASSUME exited' \in {"1", "killed"}, NoCloseBegun', ~werr'
             PROVE  Len(base' \o Lines(seen)') <= Len(file') + BufCap
  BY DEF FatalInv
<1>1. CASE LogQuiet
  <2>1. UNCHANGED <<run, base, mem, seen, file, werr, exited>> /\ NoCloseBegun
    BY <1>1 DEF LogQuiet
  <2>2. Lines(seen)' = Lines(seen)
    BY <2>1, LinesKept
  <2> QED
    BY <2>1, <2>2 DEF FatalInv
<1>2. CASE Emit
  <2>1. UNCHANGED <<run, base, seen, file, werr, exited>> /\ NoCloseBegun /\ mem' = mem + 1
    BY <1>2 DEF Emit, NoCloseBegun
  <2>2. run \in Nat /\ mem \in Nat /\ seen \in 0 .. mem
    BY Typed
  <2>4. Lines(seen)' = Lines(seen)
    BY <2>1, LinesKept
  <2> QED
    BY <2>1, <2>4 DEF FatalInv
<1>3. CASE Ends /\ (Killed \/ file' = file) /\ Up
  <2>1. NoCloseBegun /\ UNCHANGED <<run, base, mem, seen, werr>> /\ ~werr
    BY <1>3 DEF Ends, NoCloseBegun
  <2>2. Lines(seen)' = Lines(seen)
    BY <2>1, LinesKept
  <2>3. /\ file \in Seq(Upto(run)) /\ buf \in Seq(Upto(run)) /\ Len(file) \in Nat /\ Len(buf) \in Nat
        /\ Len(buf) <= BufCap /\ BufCap \in Nat
    BY Typed, Constants
  <2>4. Len(file \o buf) = Len(file) + Len(buf)
    BY <2>3, JoinSeq
  <2>5. base \o Lines(seen) = file \/ base \o Lines(seen) = file \o buf
    BY <1>3, <2>1 DEF LogInv
  <2>6. Len(base \o Lines(seen)) <= Len(file) + BufCap
    BY <2>3, <2>4, <2>5
  <2>7. Len(file) <= Len(file') /\ Len(file') \in Nat
    <3>0. TypeInv'
      BY NextTypeInv
    <3>1. file' \in Seq(Upto(run'))
      BY <3>0 DEF TypeInv
    <3>2. CASE Killed
      <4>1. PICK n \in 0 .. Len(InWrite) : file' = file \o Taken(InWrite, n)
        BY <3>2 DEF Killed
      <4> QED
        BY <1>3, <2>1, <3>1, <4>1, KillLog
    <3>3. CASE file' = file
      BY <2>3, <3>3
    <3> QED
      BY <1>3, <3>2, <3>3
  <2>8. ASSUME NEW m, m = Len(base \o Lines(seen)), m \in Nat PROVE m <= Len(file') + BufCap
    BY <2>3, <2>6, <2>7, <2>8
  <2>9. Len(base \o Lines(seen)) \in Nat
    BY <2>3, <2>4, <2>5
  <2> QED
    BY <2>1, <2>2, <2>8, <2>9
<1>4. CASE NewTracerEngine \/ EngineWrite \/ EngineFlush \/ EngineReset
  <2>1. exited' = "no"
    BY <1>4 DEF NewTracerEngine, Started, EngineWrite, EngineFlush, EngineReset, Up
  <2> QED
    BY <2>1
<1> QED
  BY <1>1, <1>2, <1>3, <1>4, LogSteps

\* The engine leaves the connection only when all is harvested and flushed.
LEMMA NextPhaseInv ==
  ASSUME TypeInv, LogInv, PhaseInv, [Next]_vars
  PROVE  PhaseInv'
<1> USE DEF static, targetVars, shared, engine, logVars, fds, engineOnly, outside
<1>0. /\ mem \in Nat /\ seen \in 0 .. mem
      /\ target \in {"running", "ok", "failed", "sigpipe"} /\ sock \in {"none", "open", "eof", "done"}
      /\ werr \in BOOLEAN
  BY Typed DEF TypeInv, TypeOK
<1>1. CASE NewTracerEngine
  BY <1>1 DEF NewTracerEngine, Started, PhaseInv
<1>2. ASSUME NEW code, Exits(code), code # "no" PROVE PhaseInv'
  BY <1>2 DEF Exits, PhaseInv, Up
<1>3. CASE Connect
  BY <1>3 DEF Connect, PhaseInv, Up, NoCloseBegun
<1>4. CASE Emit
  BY <1>4 DEF Emit, PhaseInv, Up, NoCloseBegun
<1>5. CASE CheckFlag \/ UNCHANGED vars
  BY <1>5 DEF CheckFlag, PhaseInv, Up, NoCloseBegun, vars
<1>6. CASE trigger_uds_wakeup
  BY <1>6 DEF trigger_uds_wakeup, PhaseInv, Up, NoCloseBegun
<1>7. ASSUME NEW status \in {"ok", "failed"}, TargetExit(status) PROVE PhaseInv'
  BY <1>0, <1>7 DEF TargetExit, PhaseInv, Up, NoCloseBegun
<1>8. CASE EngineAccept
  BY <1>8 DEF EngineAccept, PhaseInv, Up, NoCloseBegun
<1>9. CASE EngineScan
  <2>1. /\ UNCHANGED <<target, sock, phase, seen, mem, werr, buf, exited, mpc, spc>> /\ epc = "scan" /\ Up
        /\ epc' = IF seen < mem THEN "write" ELSE AfterScan
    BY <1>9 DEF EngineScan
  <2>2. CASE epc' = "write"
    BY <2>1, <2>2 DEF PhaseInv, Up, NoCloseBegun
  <2>3. CASE epc' = AfterScan /\ ~(seen < mem)
    <3>1. seen = mem
      BY <1>0, <2>3
    <3>2. phase = "final" => epc' = IF FlushNeeded THEN "flush" ELSE "flushed"
      BY <2>3 DEF AfterScan
    <3>3. epc' = "flushed" /\ phase = "final" => werr \/ buf = <<>>
      BY <3>2 DEF FlushNeeded
    <3> QED
      BY <2>1, <3>1, <3>3 DEF PhaseInv, Up, NoCloseBegun
  <2> QED
    BY <2>1, <2>2, <2>3
<1>10. CASE EngineWrite
  BY <1>10 DEF EngineWrite, PhaseInv, Up, NoCloseBegun
<1>11. CASE EngineFlush
  BY <1>11 DEF EngineFlush, PhaseInv, Up, NoCloseBegun
<1>12. CASE EngineReset
  BY <1>12 DEF EngineReset, FlushReset, PhaseInv, Up, NoCloseBegun
<1>13. CASE EngineDone
  BY <1>13 DEF EngineDone, PhaseInv, Up, NoCloseBegun
<1>14. CASE EngineArm
  BY <1>14 DEF EngineArm, PhaseInv, Up, NoCloseBegun
<1>15. CASE EngineRead
  BY <1>15 DEF EngineRead, PhaseInv, Up, NoCloseBegun
<1>16. CASE EngineLower
  BY <1>16 DEF EngineLower, PhaseInv, Up, NoCloseBegun
<1>17. CASE EngineFault \/ MainExit \/ SignalExit \/ Killed
  BY <1>2, <1>17 DEF EngineFault, MainExit, SignalExit, Killed
<1>18. CASE MainRunReturns
  <2>1. CASE mpc = "run" /\ mpc' = "close" /\ UNCHANGED <<outside, logVars, fds, spc, exited, parked>>
    BY <2>1 DEF PhaseInv, Up, NoCloseBegun
  <2> QED
    BY <1>2, <1>18, <2>1 DEF MainRunReturns
<1>19. CASE Interrupt
  BY <1>19 DEF Interrupt, PhaseInv, Up, NoCloseBegun
<1>20. CASE MainClose \/ SignalClose
  <2>1. ~NoCloseBegun' /\ UNCHANGED <<target, sock, phase, epc, seen, mem, exited>>
    BY <1>20 DEF MainClose, SignalClose, CloseStep, NoCloseBegun
  <2> QED
    BY <2>1 DEF PhaseInv, Up
<1> QED
  BY <1>1, <1>3, <1>4, <1>5, <1>6, <1>7, <1>8, <1>9, <1>10, <1>11, <1>12, <1>13, <1>14, <1>15,
     <1>16, <1>17, <1>18, <1>19, <1>20
  DEF Next, EngineStep, MainStep, SignalStep

\* While the program runs, a parked engine takes no step and hands nothing to the file.
LEMMA ParkedQuiet ==
  ASSUME TypeInv, PhaseInv, ParkInv, parked, Up
  PROVE  ~EngineStep /\ InWrite = <<>> /\ ~FlushNeeded
<1>1. sock = "done" /\ epc = "accept" /\ mpc # "flush" /\ spc # "flush"
  BY DEF ParkInv, PhaseInv
<1>2. InWrite = <<>>
  BY <1>1 DEF InWrite
<1>3. ~EngineStep
  BY <1>1 DEF EngineStep, EngineAccept, EngineScan, EngineWrite, EngineFlush, EngineReset, EngineDone,
              EngineArm, EngineRead, EngineLower, EngineFault
<1>4. ~FlushNeeded
  BY DEF ParkInv, FlushNeeded
<1> QED
  BY <1>2, <1>3, <1>4

\* A Close of a parked tracer, the first one or a later one, leaves the log alone.
LEMMA ParkedClose ==
  ASSUME TypeInv, LogInv, PhaseInv, ParkInv, Up, NEW pc \in {mpc, spc}, NEW pcn, CloseStep(pc, pcn), parked'
  PROVE  /\ UNCHANGED <<buf, file, werr>> /\ pcn \notin {"flush", "reset"} /\ sock = "done"
         /\ FilePrefix /\ (werr \/ (buf = <<>> /\ file = base \o Lines(mem)))
         /\ mpc \notin {"flush", "reset"} /\ spc \notin {"flush", "reset"}
<1> USE DEF logVars, fds
<1>1. CASE parked
  <2>1. pc \notin {"flush", "reset"} /\ ~FlushNeeded
    BY <1>1, ParkedQuiet DEF ParkInv
  <2>2. CASE pc = "close"
    BY <1>1, <2>1, <2>2 DEF CloseStep, ParkInv
  <2>3. CASE pc # "close"
    <3>1. UNCHANGED <<buf, file, werr>>
      BY <2>1, <2>3 DEF CloseStep
    <3>2. pcn \in {"lclose", "munmap", "exit"}
      BY <2>1, <2>3 DEF CloseStep
    <3> QED
      BY <1>1, <3>1, <3>2 DEF ParkInv
  <2> QED
    BY <2>2, <2>3
<1>2. CASE ~parked
  <2>1. pc = "close" /\ NoCloseBegun /\ epc = "accept" /\ sock = "done"
          /\ pcn = (IF FlushNeeded THEN "flush" ELSE "fclose") /\ UNCHANGED <<buf, file, werr>>
    <3>1. parked' # parked
      BY <1>2
    <3>2. /\ pc = "close"
          /\ parked' = IF NoCloseBegun THEN epc = "accept" /\ sock = "done" ELSE parked
          /\ pcn = (IF FlushNeeded THEN "flush" ELSE "fclose") /\ UNCHANGED <<buf, file, werr>>
      BY <3>1 DEF CloseStep
    <3> QED
      BY <3>1, <3>2
  <2>2. seen = mem /\ (werr \/ buf = <<>>)
    BY <2>1 DEF PhaseInv
  <2>3. FilePrefix /\ (~werr => base \o Lines(seen) = file \o buf)
    BY <2>1 DEF LogInv
  <2>4. file \o <<>> = file
    BY Typed, ConcatEmptySeq
  <2>5. werr \/ (buf = <<>> /\ file = base \o Lines(mem))
    BY <2>2, <2>3, <2>4
  <2>6. pcn = "fclose"
    BY <2>1, <2>2 DEF FlushNeeded
  <2> QED
    BY <2>1, <2>3, <2>5, <2>6 DEF NoCloseBegun
<1> QED
  BY <1>1, <1>2

\* Of all steps only the engine's can be a fault, and a parked engine takes none.
LEMMA ParkedFault ==
  ASSUME TypeInv, PhaseInv, ParkInv, [Next]_vars, parked'
  PROVE  exited' # "fault"
<1> USE DEF static, targetVars, shared, engine, logVars, fds, engineOnly, outside
<1>1. CASE EngineStep
  <2>1. parked /\ Up
    BY <1>1 DEF EngineStep, EngineAccept, EngineScan, EngineWrite, EngineFlush, EngineReset, EngineDone,
                EngineArm, EngineRead, EngineLower, EngineFault, Exits
  <2> QED
    BY <1>1, <2>1, ParkedQuiet
<1>2. CASE NewTracerEngine
  BY <1>2 DEF NewTracerEngine, Started
<1>3. CASE UNCHANGED <<exited, parked>>
  BY <1>3 DEF ParkInv
<1>4. CASE Connect \/ Emit \/ CheckFlag \/ trigger_uds_wakeup \/ Interrupt \/ UNCHANGED vars
  BY <1>3, <1>4 DEF Connect, Emit, CheckFlag, trigger_uds_wakeup, Interrupt, vars
<1>5. ASSUME NEW status, TargetExit(status) PROVE exited' # "fault"
  BY <1>3, <1>5 DEF TargetExit
<1>6. CASE MainRunReturns
  BY <1>3, <1>6 DEF MainRunReturns, Exits
<1>7. CASE MainExit \/ SignalExit \/ Killed
  BY <1>7 DEF MainExit, SignalExit, Killed, Exits
<1>8. CASE MainClose \/ SignalClose
  BY <1>8 DEF MainClose, SignalClose, Up
<1> QED
  BY <1>1, <1>2, <1>4, <1>5, <1>6, <1>7, <1>8 DEF Next, MainStep, SignalStep

\* Once parked when the first Close began, the log stays complete.
LEMMA NextParkInv ==
  ASSUME TypeInv, LogInv, PhaseInv, ParkInv, [Next]_vars
  PROVE  ParkInv'
<1> USE DEF static, targetVars, shared, engine, logVars, fds, engineOnly, outside
<1> SUFFICES ASSUME parked'
             PROVE  /\ sock' = "done" /\ mpc' \notin {"flush", "reset"} /\ spc' \notin {"flush", "reset"}
                    /\ FilePrefix'
                    /\ werr' \/ (buf' = <<>> /\ file' = base' \o Lines(mem)')
  BY ParkedFault DEF ParkInv
<1>0. ASSUME UNCHANGED <<run, base, mem, file, sock>>, parked,
             werr' \/ werr = werr', buf' = buf \/ buf' = <<>>,
             mpc' \notin {"flush", "reset"}, spc' \notin {"flush", "reset"}
      PROVE  /\ sock' = "done" /\ mpc' \notin {"flush", "reset"} /\ spc' \notin {"flush", "reset"}
             /\ FilePrefix'
             /\ werr' \/ (buf' = <<>> /\ file' = base' \o Lines(mem)')
  <2>1. Lines(mem)' = Lines(mem) /\ FilePrefix'
    BY <1>0, LogKept DEF ParkInv, FilePrefix
  <2> QED
    BY <1>0, <2>1 DEF ParkInv
<1>1. CASE NewTracerEngine
  BY <1>1 DEF NewTracerEngine, Started
<1>2. CASE Connect \/ Emit
  <2>1. parked /\ sock \in {"none", "open"}
    BY <1>2 DEF Connect, Emit
  <2> QED
    BY <2>1 DEF ParkInv
<1>3. CASE CheckFlag \/ trigger_uds_wakeup \/ Interrupt \/ UNCHANGED vars
  <2>1. UNCHANGED <<run, base, mem, file, sock, parked, werr, buf, mpc>> /\ spc' \in {spc, "close"}
    BY <1>3 DEF CheckFlag, trigger_uds_wakeup, Interrupt, vars
  <2> QED
    BY <1>0, <2>1 DEF ParkInv
<1>4. ASSUME NEW status \in {"ok", "failed"}, TargetExit(status)
      PROVE  UNCHANGED <<run, base, mem, file, sock, parked, werr, buf, mpc, spc>>
  <2>1. UNCHANGED <<run, base, mem, file, parked, werr, buf, mpc, spc>>
          /\ sock' = IF sock = "open" THEN "eof" ELSE sock
    BY <1>4 DEF TargetExit
  <2>2. sock = "done"
    BY <2>1 DEF ParkInv
  <2> QED
    BY <2>1, <2>2
<1>5. ASSUME NEW status \in {"ok", "failed"}, TargetExit(status)
      PROVE  /\ sock' = "done" /\ mpc' \notin {"flush", "reset"} /\ spc' \notin {"flush", "reset"}
             /\ FilePrefix'
             /\ werr' \/ (buf' = <<>> /\ file' = base' \o Lines(mem)')
  BY <1>0, <1>4, <1>5 DEF ParkInv
<1>6. CASE EngineStep
  <2>1. parked /\ Up
    BY <1>6 DEF EngineStep, EngineAccept, EngineScan, EngineWrite, EngineFlush, EngineReset, EngineDone,
                EngineArm, EngineRead, EngineLower, EngineFault, Exits
  <2> QED
    BY <1>6, <2>1, ParkedQuiet
<1>7. ASSUME NEW code, Exits(code), file' = file
      PROVE  /\ sock' = "done" /\ mpc' \notin {"flush", "reset"} /\ spc' \notin {"flush", "reset"}
             /\ FilePrefix'
             /\ werr' \/ (buf' = <<>> /\ file' = base' \o Lines(mem)')
  <2>1. UNCHANGED <<run, base, mem, file, sock, parked, werr, mpc, spc>> /\ buf' = <<>>
    BY <1>7 DEF Exits
  <2> QED
    BY <1>0, <2>1 DEF ParkInv
<1>8. CASE MainExit \/ SignalExit
  BY <1>7, <1>8 DEF MainExit, SignalExit
<1>9. CASE Killed
  <2>1. parked /\ Up /\ Exits("killed")
    BY <1>9 DEF Killed, Exits
  <2>2. InWrite = <<>> /\ file \in Seq(Upto(run))
    BY <2>1, ParkedQuiet, Typed
  <2>3. PICK n \in 0 .. Len(InWrite) : file' = file \o Taken(InWrite, n)
    BY <1>9 DEF Killed
  <2>4. Taken(<<>>, 0) = <<>> /\ n = 0
    <3>1. Len(<<>>) = 0 /\ <<>> \in Seq(Upto(run))
      BY EmptySeq
    <3>2. n = 0
      BY <2>2, <2>3, <3>1
    <3>3. ASSUME NEW e \in Seq(Upto(run)), Len(e) = 0 PROVE Taken(e, 0) = <<>>
      <4>1. 0 \in 0 .. Len(e)
        BY <3>3
      <4>2. Taken(e, 0) \in Seq(Upto(run)) /\ Len(Taken(e, 0)) = 0
        BY <4>1, CutSeq
      <4> QED
        BY <4>2, EmptySeq
    <3> QED
      BY <3>1, <3>2, <3>3
  <2>5. file' = file
    BY <2>2, <2>3, <2>4, ConcatEmptySeq
  <2> QED
    BY <1>7, <2>1, <2>5
<1>10. CASE MainRunReturns
  <2>1. CASE mpc' = "close" /\ UNCHANGED <<outside, logVars, fds, spc, exited, parked>>
    BY <1>0, <2>1 DEF ParkInv
  <2> QED
    BY <1>7, <1>10, <2>1 DEF MainRunReturns
<1>11. CASE MainClose \/ SignalClose
  <2>1. PICK pc \in {mpc, spc} : \E pcn : CloseStep(pc, pcn) /\ mpc' \in {mpc, pcn} /\ spc' \in {spc, pcn}
    BY <1>11 DEF MainClose, SignalClose
  <2>2. PICK pcn : CloseStep(pc, pcn) /\ mpc' \in {mpc, pcn} /\ spc' \in {spc, pcn}
    BY <2>1
  <2>3. Up /\ UNCHANGED <<run, base, mem, sock>>
    BY <1>11 DEF MainClose, SignalClose
  <2>4. /\ UNCHANGED <<buf, file, werr>> /\ pcn \notin {"flush", "reset"} /\ sock = "done"
        /\ FilePrefix /\ (werr \/ (buf = <<>> /\ file = base \o Lines(mem)))
        /\ mpc \notin {"flush", "reset"} /\ spc \notin {"flush", "reset"}
    BY <2>2, <2>3, ParkedClose
  <2>5. Lines(mem)' = Lines(mem) /\ FilePrefix'
    BY <2>3, <2>4, LogKept DEF FilePrefix
  <2> QED
    BY <2>2, <2>3, <2>4, <2>5
<1> QED
  BY <1>1, <1>2, <1>3, <1>5, <1>6, <1>8, <1>9, <1>10, <1>11 DEF Next, MainStep, SignalStep

-----------------------------------------------------------------------------
\* A head is followed by its tail, and a tail follows its head.
LEMMA PieceTwin ==
  ASSUME NEW k \in Nat \ {0}
  PROVE  /\ Piece(k).run = run
         /\ k % 2 = 1 => Piece(k).part = "head" /\ Piece(k + 1) = [Piece(k) EXCEPT !.part = "tail"]
         /\ k % 2 # 1 => /\ Piece(k).part = "tail" /\ k > 1 /\ k - 1 \in Nat \ {0}
                         /\ Piece(k - 1) = [Piece(k) EXCEPT !.part = "head"]
<1>0. ASSUME NEW e
      PROVE  /\ Chunk(e, "head").run = run /\ Chunk(e, "tail").run = run
             /\ Chunk(e, "head").part = "head" /\ Chunk(e, "tail").part = "tail"
             /\ Chunk(e, "tail") = [Chunk(e, "head") EXCEPT !.part = "tail"]
             /\ Chunk(e, "head") = [Chunk(e, "tail") EXCEPT !.part = "head"]
  BY DEF Chunk
<1>1. CASE k % 2 = 1
  <2>1. PICK n \in Nat : k = 2 * n + 1
    <3>1. (k - 1) \div 2 \in Nat /\ k = 2 * ((k - 1) \div 2) + 1
      BY <1>1
    <3> QED
      BY <3>1
  <2>2. Piece(k) = Chunk(n + 1, "head") /\ Piece(k + 1) = Chunk(n + 1, "tail")
    <3>1. k + 1 = 2 * n + 2
      BY <2>1
    <3> QED
      BY <2>1, <3>1, PieceOf
  <2> QED
    BY <1>0, <1>1, <2>2
<1>2. CASE k % 2 # 1
  <2>1. PICK n \in Nat : k = 2 * n + 2
    <3>1. (k - 2) \div 2 \in Nat /\ k = 2 * ((k - 2) \div 2) + 2
      BY <1>2
    <3> QED
      BY <3>1
  <2>2. Piece(k) = Chunk(n + 1, "tail") /\ Piece(k - 1) = Chunk(n + 1, "head") /\ k > 1 /\ k - 1 \in Nat \ {0}
    <3>1. k - 1 = 2 * n + 1
      BY <2>1
    <3> QED
      BY <2>1, <3>1, PieceOf
  <2> QED
    BY <1>0, <1>2, <2>2
<1> QED
  BY <1>1, <1>2

\* Chunk by chunk: what the run found, of earlier runs, and then its own.
LEMMA FileAt ==
  ASSUME TypeInv, FilePrefix, NEW i \in 1 .. Len(file)
  PROVE  /\ Len(base) <= Len(file) /\ Len(base) \in Nat /\ Len(file) \in Nat /\ i \in Nat
         /\ i <= Len(base) => file[i] = base[i] /\ base[i].run < run
         /\ i > Len(base) => file[i] = Piece(i - Len(base)) /\ i - Len(base) \in Nat \ {0}
<1>0. /\ file \in Seq(Upto(run)) /\ base \in Seq(Upto(run)) /\ Lines(mem) \in Seq(Upto(run))
      /\ Len(base) \in Nat /\ Len(file) \in Nat /\ run \in Nat /\ run >= 1 /\ mem \in Nat
  BY Typed
<1>1. Len(base) <= Len(file) /\ \A k \in 1 .. Len(base) : base[k] = file[k]
  BY <1>0, PrefixDef DEF FilePrefix
<1>2. ASSUME i <= Len(base) PROVE file[i] = base[i] /\ base[i].run < run
  <2>1. i \in 1 .. Len(base) /\ base \in Seq(Upto(run - 1))
    BY <1>0, <1>2 DEF TypeInv
  <2>2. base[i] \in Upto(run - 1)
    BY <2>1
  <2>3. base[i].run \in Nat /\ base[i].run <= run - 1
    BY <2>2 DEF Upto, Chunks
  <2> QED
    BY <1>0, <1>1, <2>1, <2>3
<1>3. ASSUME i > Len(base) PROVE file[i] = Piece(i - Len(base)) /\ i - Len(base) \in Nat \ {0}
  <2>1. /\ base \o Lines(mem) \in Seq(Upto(run))
        /\ Len(base \o Lines(mem)) = Len(base) + Len(Lines(mem))
        /\ \A k \in 1 .. Len(Lines(mem)) :
             (base \o Lines(mem))[Len(base) + k] = Lines(mem)[k]
    BY <1>0, JoinSeq
  <2>2. Len(Lines(mem)) = 2 * mem /\ \A k \in 1 .. 2 * mem : Lines(mem)[k] = Piece(k)
    BY <1>0, LinesSeq
  <2>3. ASSUME NEW t \in Seq(Upto(run)), IsPrefix(file, t)
        PROVE  Len(file) <= Len(t) /\ file[i] = t[i]
    BY <1>0, <2>3, PrefixDef
  <2>4. Len(file) <= Len(base) + 2 * mem /\ file[i] = (base \o Lines(mem))[i]
    BY <2>1, <2>2, <2>3 DEF FilePrefix
  <2>5. i - Len(base) \in 1 .. 2 * mem /\ Len(base) + (i - Len(base)) = i /\ i - Len(base) \in Nat \ {0}
    BY <1>0, <1>3, <2>4
  <2>6. (base \o Lines(mem))[Len(base) + (i - Len(base))] = Piece(i - Len(base))
    BY <2>1, <2>2, <2>5
  <2> QED
    BY <2>4, <2>5, <2>6
<1> QED
  BY <1>0, <1>1, <1>2, <1>3

\* A run that writes a prefix of its records leaves at most one cut record of its own.
LEMMA FileWellCut ==
  ASSUME TypeInv, FilePrefix, WellCut(base)
  PROVE  WellCut(file)
<1>0. /\ file \in Seq(Upto(run)) /\ base \in Seq(Upto(run)) /\ Len(base) \in Nat /\ Len(file) \in Nat
      /\ DOMAIN file = 1 .. Len(file) /\ DOMAIN base = 1 .. Len(base) /\ run \in Nat
  BY Typed
<1> DEFINE b == Len(base)
<1> SUFFICES ASSUME NEW i \in 1 .. Len(file)
             PROVE  IF file[i].part = "tail" THEN i > 1 /\ file[i - 1] = [file[i] EXCEPT !.part = "head"]
                    ELSE (\E j \in i + 1 .. Len(file) : file[j].run = file[i].run)
                           => file[i + 1] = [file[i] EXCEPT !.part = "tail"]
  BY <1>0 DEF WellCut
<1>1. CASE i <= b
  <2>1. i \in 1 .. b /\ file[i] = base[i] /\ base[i].run < run /\ b <= Len(file)
    <3>1. b <= Len(file) /\ (i <= Len(base) => file[i] = base[i] /\ base[i].run < run)
      BY FileAt
    <3> QED
      BY <1>0, <1>1, <3>1
  <2>2. IF base[i].part = "tail" THEN i > 1 /\ base[i - 1] = [base[i] EXCEPT !.part = "head"]
        ELSE (\E j \in i + 1 .. Len(base) : base[j].run = base[i].run)
               => base[i + 1] = [base[i] EXCEPT !.part = "tail"]
    BY <1>0, <2>1 DEF WellCut
  <2>3. CASE file[i].part = "tail"
    <3>1. i > 1 /\ base[i - 1] = [file[i] EXCEPT !.part = "head"]
      BY <2>1, <2>2, <2>3
    <3>2. i - 1 \in 1 .. Len(file) /\ i - 1 <= b
      BY <1>0, <1>1, <3>1
    <3>3. file[i - 1] = base[i - 1]
      BY <3>2, FileAt
    <3> QED
      BY <2>3, <3>1, <3>3
  <2>4. CASE file[i].part # "tail"
    <3> SUFFICES ASSUME NEW j \in i + 1 .. Len(file), file[j].run = file[i].run
                 PROVE  file[i + 1] = [file[i] EXCEPT !.part = "tail"]
      BY <2>4
    <3>1. j \in 1 .. Len(file) /\ j \in Nat
      BY <1>0
    <3>2. j <= b
      <4>1. ASSUME j > b PROVE FALSE
        <5>1. file[j] = Piece(j - Len(base)) /\ j - Len(base) \in Nat \ {0}
          BY <3>1, <4>1, FileAt
        <5>2. file[j].run = run
          BY <5>1, PieceTwin
        <5>3. base[i].run = run
          BY <2>1, <5>2
        <5> QED
          BY <1>0, <2>1, <5>3
      <4> QED
        BY <1>0, <3>1, <4>1
    <3>3. file[j] = base[j]
      BY <3>1, <3>2, FileAt
    <3>4. base[i + 1] = [base[i] EXCEPT !.part = "tail"]
      BY <1>0, <2>1, <2>2, <2>4, <3>2, <3>3
    <3>5. i + 1 \in 1 .. Len(file) /\ i + 1 <= b
      BY <1>0, <3>2
    <3>6. file[i + 1] = base[i + 1]
      BY <3>5, FileAt
    <3> QED
      BY <2>1, <3>4, <3>6
  <2> QED
    BY <2>3, <2>4
<1>2. CASE i > b
  <2>1. file[i] = Piece(i - b) /\ i - b \in Nat \ {0}
    BY <1>2, FileAt
  <2>2. CASE (i - b) % 2 = 1
    <3>1. file[i].part = "head" /\ Piece(i - b + 1) = [file[i] EXCEPT !.part = "tail"]
      BY <2>1, <2>2, PieceTwin
    <3>2. ASSUME NEW j \in i + 1 .. Len(file) PROVE file[i + 1] = Piece(i - b + 1)
      <4>1. i + 1 \in 1 .. Len(file) /\ i + 1 > b /\ i + 1 - b = i - b + 1
        BY <1>0, <1>2
      <4> QED
        BY <4>1, FileAt
    <3> QED
      BY <3>1, <3>2
  <2>3. CASE (i - b) % 2 # 1
    <3>1. /\ file[i].part = "tail" /\ i - b > 1
          /\ Piece(i - b - 1) = [file[i] EXCEPT !.part = "head"]
      BY <2>1, <2>3, PieceTwin
    <3>2. i - 1 \in 1 .. Len(file) /\ i - 1 > b /\ i - 1 - b = i - b - 1 /\ i > 1
      BY <1>0, <1>2, <3>1
    <3>3. file[i - 1] = Piece(i - b - 1)
      BY <3>2, FileAt
    <3> QED
      BY <3>1, <3>2, <3>3
  <2> QED
    BY <2>2, <2>3
<1>3. i <= b \/ i > b
  BY <1>0
<1> QED
  BY <1>1, <1>2, <1>3

\* Until a Close has begun, or when it found the engine parked, the file is a prefix.
LEMMA CleanPrefix ==
  ASSUME LogInv, ParkInv, NoClose \/ parked
  PROVE  FilePrefix
BY DEF LogInv, ParkInv, NoClose, NoCloseBegun

\* The next run finds a file that is cut as it may be.
LEMMA NextCutInv ==
  ASSUME TypeInv, LogInv, ParkInv, CutInv, [Next]_vars
  PROVE  CutInv'
<1> USE DEF static, targetVars, shared, engine, logVars, fds, engineOnly, outside
<1>1. CASE NewTracerEngine
  <2>1. base' = file /\ clean' = (clean /\ (NoClose \/ parked))
    BY <1>1 DEF NewTracerEngine
  <2>2. ASSUME clean, NoClose \/ parked PROVE WellCut(file)
    BY <2>2, CleanPrefix, FileWellCut DEF CutInv
  <2>3. clean' => WellCut(file)
    BY <2>1, <2>2
  <2> QED
    BY <2>1, <2>3 DEF CutInv
<1>2. CASE UNCHANGED <<base, clean>>
  BY <1>2 DEF CutInv
<1>3. ASSUME ~NewTracerEngine PROVE UNCHANGED <<base, clean>>
  <2>1. CASE Connect \/ Emit \/ CheckFlag \/ trigger_uds_wakeup \/ Interrupt \/ UNCHANGED vars
    BY <2>1 DEF Connect, Emit, CheckFlag, trigger_uds_wakeup, Interrupt, vars
  <2>2. ASSUME NEW status, TargetExit(status) PROVE UNCHANGED <<base, clean>>
    BY <2>2 DEF TargetExit
  <2>3. CASE EngineStep
    BY <2>3 DEF EngineStep, EngineAccept, EngineScan, EngineWrite, EngineFlush, EngineReset, EngineDone,
                EngineArm, EngineRead, EngineLower, EngineFault, Exits
  <2>4. CASE Killed \/ MainRunReturns \/ MainExit \/ SignalExit
    BY <2>4 DEF Killed, MainRunReturns, MainExit, SignalExit, Exits
  <2>5. CASE MainClose \/ SignalClose
    BY <2>5 DEF MainClose, SignalClose
  <2> QED
    BY <1>3, <2>1, <2>2, <2>3, <2>4, <2>5 DEF Next, MainStep, SignalStep
<1> QED
  BY <1>1, <1>2, <1>3

-----------------------------------------------------------------------------
\* A first start.
LEMMA InitIInv == Init => IInv
<1> SUFFICES ASSUME Init PROVE IInv
  OBVIOUS
<1>1. TypeInv
  BY InitTypeInv
<1>2. /\ mem = 0 /\ seen = 0 /\ buf = <<>> /\ file = <<>> /\ base = <<>> /\ epc = "accept" /\ ~parked
      /\ phase = "hot" /\ sock = "none" /\ exited = "no" /\ werr = FALSE
  BY DEF Init
<1>3. Lines(0) = <<>> /\ Lines(mem) = <<>> /\ Lines(seen) = <<>>
  <2>1. 1 .. 2 * 0 = {} /\ mem = 0
    BY <1>2
  <2> QED
    BY <1>2, <2>1 DEF Lines
<1>4. <<>> \in Seq(Upto(run)) /\ Len(<<>>) = 0
  BY EmptySeq
<1>5. ASSUME NEW e \in Seq(Upto(run)), e = <<>> PROVE e \o <<>> = e /\ IsPrefix(e, e)
  BY <1>5, ConcatEmptySeq, PrefixJoin
<1>6. LogInv
  BY <1>2, <1>3, <1>4, <1>5 DEF LogInv, FilePrefix
<1>7. FatalInv /\ PhaseInv /\ ParkInv
  BY <1>2 DEF FatalInv, PhaseInv, ParkInv
<1>8. CutInv
  <2>1. DOMAIN base = {}
    BY <1>2
  <2> QED
    BY <2>1 DEF CutInv, WellCut
<1> QED
  BY <1>1, <1>6, <1>7, <1>8 DEF IInv

\* The parts of the invariant keep each other.
LEMMA NextIInv == IInv /\ [Next]_vars => IInv'
<1> SUFFICES ASSUME IInv, [Next]_vars PROVE IInv'
  OBVIOUS
<1>1. TypeInv /\ LogInv /\ FatalInv /\ PhaseInv /\ ParkInv /\ CutInv
  BY DEF IInv
<1>2. TypeInv' /\ LogInv'
  BY <1>1, NextTypeInv, NextLogInv
<1>3. FatalInv' /\ PhaseInv'
  BY <1>1, NextFatalInv, NextPhaseInv
<1>4. ParkInv' /\ CutInv'
  BY <1>1, NextParkInv, NextCutInv
<1> QED
  BY <1>2, <1>3, <1>4 DEF IInv

\* The invariant of the launcher.
LEMMA Invariance == Spec => []IInv
BY InitIInv, NextIInv, PTL DEF Spec

\* Every variable keeps its type: the buffer stays within its capacity, and the engine never
\* harvests more than there is, whatever the interleaving of the goroutines, kills and restarts.
THEOREM LauncherTypes == Spec => []TypeOK
<1>1. IInv => TypeOK
  BY DEF IInv, TypeInv
<1> QED
  BY <1>1, Invariance, PTL

\* Until a Close begins the log is exact: what earlier runs left, then a prefix of the target's
\* records in order; unless the disk was full, file and buffer are together the harvested records.
THEOREM LogExact == Spec => []BufferedLogExact
<1>1. IInv => BufferedLogExact
  <2>1. NoClose => NoCloseBegun
    BY DEF NoClose, NoCloseBegun
  <2> QED
    BY <2>1 DEF IInv, LogInv, FilePrefix, BufferedLogExact
<1> QED
  BY <1>1, Invariance, PTL

\* log.Fatalf and a kill lose no more of the harvested records than the bufio.Writer holds.
THEOREM FatalLossBounded == Spec => []FatalLosesAtMostBuffer
<1>1. IInv => FatalLosesAtMostBuffer
  <2>1. NoClose => NoCloseBegun
    BY DEF NoClose, NoCloseBegun
  <2> QED
    BY <2>1 DEF IInv, FatalInv, FatalLosesAtMostBuffer
<1> QED
  BY <1>1, Invariance, PTL

\* When the engine had served the end of the connection before the first Close began, the file is
\* complete, even if both goroutines close the tracer and the program is killed meanwhile.
THEOREM ParkedComplete == Spec => []ParkedCloseComplete
<1>1. IInv => ParkedCloseComplete
  BY DEF IInv, ParkInv, ParkedCloseComplete
<1> QED
  BY <1>1, Invariance, PTL

\* Every run damages at most one record, its last, in a file that any number of runs append to.
THEOREM CutsBounded == Spec => []OneCutPerRun
<1>1. ASSUME IInv PROVE OneCutPerRun
  <2>1. ASSUME clean, NoClose \/ parked PROVE WellCut(file)
    BY <1>1, <2>1, CleanPrefix, FileWellCut DEF IInv, CutInv
  <2> QED
    BY <2>1 DEF OneCutPerRun, WellCut
<1> QED
  BY <1>1, Invariance, PTL

\* A Close that began with the engine back in Accept never unmaps memory the engine still
\* reads or writes, whatever a second Close, a signal or a kill do meanwhile.
THEOREM ParkedSafe == Spec => []ParkedNeverFaults
<1>1. IInv => ParkedNeverFaults
  BY DEF IInv, ParkInv, ParkedNeverFaults
<1> QED
  BY <1>1, Invariance, PTL

=============================================================================
