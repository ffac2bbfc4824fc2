--------------------------- MODULE StationProofs ---------------------------
(***************************************************************************)
(* The seqlock of Station, proved for every ring size and every number of  *)
(* events on a machine that keeps program order (MemoryModel = "TSO").     *)
(* IInv below is the inductive invariant: Untorn speaks of the log only,   *)
(* and nothing about the log can be shown without knowing what the writer  *)
(* has stored and what the reader has loaded at each point of its loop.    *)
(***************************************************************************)
EXTENDS Station, Integers, TLAPS

\* Only the slot being written can be odd.
EvenInv ==
  \A i \in Slots : IsEven(seq[i]) \/ (wpc = "store" /\ i = WriteSlot)

\* write_trace takes its slot from even to odd before it touches the payload.
WriterInv ==
  wpc = "store" =>
    /\ event_count < MaxEvents
    /\ IsEven(old_seq)
    /\ "seq" \in wtodo => wtodo = Accesses /\ seq[WriteSlot] = old_seq
    /\ "seq" \notin wtodo => seq[WriteSlot] = old_seq + 1
    /\ "seq" \notin wtodo =>
         \A f \in Fields \ wtodo : payload[WriteSlot][f] = old_seq + 2

\* A slot at rest holds one complete write.
PayloadInv ==
  \A i \in Slots : IsEven(seq[i]) /\ seq[i] > 0 =>
                     \A f \in Fields : payload[i][f] = seq[i]

\* While the slot still shows seq1, what has been copied is that write.
ReaderInv ==
  rpc = "copy" =>
    /\ IsEven(seq1) /\ lastSeen[ri] < seq1 /\ seq1 <= seq[ri]
    /\ "seq" \in rtodo /\ seq[ri] = seq1 => \A f \in Fields \ rtodo : local[f] = seq1
    /\ "seq" \notin rtodo => rtodo = {}
    /\ "seq" \notin rtodo /\ seq2 = seq1 => \A f \in Fields : local[f] = seq1

\* lastSeen lies between the log and the shared memory.
SeenInv ==
  /\ \A i \in Slots : lastSeen[i] <= seq[i]
  /\ \A k \in DOMAIN log : log[k].seq <= lastSeen[log[k].slot]

\* Sequence numbers count the rounds of the ring, so events bound them.
BoundInv == \A i \in Slots : Published[i] <= 2 * event_count

IInv ==
  /\ TypeOK
  /\ EvenInv /\ WriterInv /\ PayloadInv
  /\ ReaderInv /\ SeenInv /\ BoundInv
  /\ Untorn /\ LogInOrder

-----------------------------------------------------------------------------
\* The cursor of write_trace always names a slot of the ring.
LEMMA WriteSlotInRing == TypeOK => WriteSlot \in Slots
<1> SUFFICES ASSUME TypeOK PROVE WriteSlot \in Slots
  OBVIOUS
<1>1. event_count \in Nat /\ RingSize \in Nat /\ RingSize > 0
  BY StationAssumption DEF TypeOK
<1> QED
  BY <1>1 DEF WriteSlot, Slots

\* A write takes an even number through an odd one to the next even one.
LEMMA Parity ==
  ASSUME NEW n \in Nat, IsEven(n)
  PROVE  ~IsEven(n + 1) /\ IsEven(n + 2)
BY DEF IsEven

\* The loop index of Harvest stays in the ring.
LEMMA NextSlotInRing == ri \in Slots => NextSlot \in Slots
BY StationAssumption DEF NextSlot, Slots

\* Program order on the writer's side: no payload store takes effect before
\* the odd sequence number.
LEMMA OddStoreFirst ==
  ASSUME MemoryModel = "TSO", NEW a \in Fields, a \in Ready(wtodo, StoreRank)
  PROVE  a \in wtodo /\ "seq" \notin wtodo
BY DEF Ready, StoreRank, Fields

\* Program order on the reader's side: the second read of Seq comes last.
LEMMA SecondReadLast ==
  ASSUME MemoryModel = "TSO", rtodo \in SUBSET Accesses,
         "seq" \in Ready(rtodo, LoadRank)
  PROVE  rtodo = {"seq"}
<1>1. "seq" \in rtodo /\ \A b \in rtodo : LoadRank["seq"] <= LoadRank[b]
  BY DEF Ready
<1>2. \A f \in Fields : ~(LoadRank["seq"] <= LoadRank[f])
  BY DEF LoadRank, Fields
<1> QED
  BY <1>1, <1>2 DEF Accesses

LEMMA InitIInv == Init => IInv
<1> SUFFICES ASSUME Init PROVE IInv
  OBVIOUS
<1>1. TypeOK
  BY StationAssumption DEF Init, TypeOK, Slots, Record
<1>2. IsEven(0)
  BY DEF IsEven
<1>3. EvenInv /\ WriterInv /\ PayloadInv /\ ReaderInv
  BY <1>2 DEF Init, EvenInv, WriterInv, PayloadInv, ReaderInv
<1>4. SeenInv /\ BoundInv
  BY <1>2 DEF Init, SeenInv, BoundInv, Published
<1>5. Untorn /\ LogInOrder
  BY DEF Init, Untorn, LogInOrder
<1> QED
  BY <1>1, <1>3, <1>4, <1>5 DEF IInv

LEMMA BeginWriteIInv == IInv /\ BeginWrite => IInv'
<1> SUFFICES ASSUME IInv, BeginWrite PROVE IInv'
  OBVIOUS
<1> USE DEF BeginWrite, readerVars
<1>0. TypeOK /\ WriteSlot \in Slots
  BY WriteSlotInRing DEF IInv
<1>1. TypeOK'
  BY <1>0 DEF TypeOK
<1>2. IsEven(seq[WriteSlot])
  BY <1>0 DEF IInv, EvenInv
<1>3. WriteSlot' = WriteSlot
  BY DEF WriteSlot
<1>4. EvenInv' /\ PayloadInv'
  BY <1>3 DEF IInv, EvenInv, PayloadInv
<1>5. WriterInv'
  BY <1>0, <1>2, <1>3 DEF WriterInv, TypeOK, Accesses
<1>6. ReaderInv' /\ SeenInv' /\ BoundInv'
  BY DEF IInv, ReaderInv, SeenInv, BoundInv, Published
<1>7. Untorn' /\ LogInOrder'
  BY DEF IInv, Untorn, LogInOrder
<1> QED
  BY <1>1, <1>4, <1>5, <1>6, <1>7 DEF IInv

LEMMA StoreSeqIInv == IInv /\ Store("seq") => IInv'
<1> SUFFICES ASSUME IInv, Store("seq") PROVE IInv'
  OBVIOUS
<1>0. TypeOK /\ WriteSlot \in Slots
  BY WriteSlotInRing DEF IInv
<1>1. /\ wpc = "store" /\ "seq" \in wtodo /\ wtodo' = wtodo \ {"seq"}
      /\ seq' = [seq EXCEPT ![WriteSlot] = old_seq + 1]
      /\ UNCHANGED <<payload, event_count, wpc, old_seq, readerVars>>
  BY DEF Store, Ready
<1>2. IsEven(old_seq) /\ wtodo = Accesses /\ seq[WriteSlot] = old_seq /\ old_seq \in Nat
  BY <1>0, <1>1 DEF IInv, WriterInv, TypeOK
<1>3. ~IsEven(old_seq + 1)
  BY <1>2, Parity
<1>4. WriteSlot' = WriteSlot
  BY <1>1 DEF WriteSlot
<1>5. TypeOK'
  BY <1>0, <1>1 DEF TypeOK, readerVars
<1>6. EvenInv' /\ PayloadInv'
  BY <1>0, <1>1, <1>3, <1>4 DEF IInv, EvenInv, PayloadInv, TypeOK
<1>7. WriterInv'
  BY <1>0, <1>1, <1>2, <1>4 DEF IInv, WriterInv, TypeOK, Accesses, Fields
<1>8. ReaderInv'
  BY <1>0, <1>1, <1>2 DEF IInv, ReaderInv, TypeOK, readerVars
<1>9. SeenInv'
  BY <1>0, <1>1, <1>2 DEF IInv, SeenInv, TypeOK, readerVars
<1>10. BoundInv'
  BY <1>0, <1>1, <1>2, <1>3 DEF IInv, BoundInv, Published, TypeOK
<1>11. Untorn' /\ LogInOrder'
  BY <1>1 DEF IInv, Untorn, LogInOrder, readerVars
<1> QED
  BY <1>5, <1>6, <1>7, <1>8, <1>9, <1>10, <1>11 DEF IInv

LEMMA StoreFieldIInv ==
  ASSUME MemoryModel = "TSO", IInv, NEW a \in Fields, Store(a)
  PROVE  IInv'
<1>0. TypeOK /\ WriteSlot \in Slots
  BY WriteSlotInRing DEF IInv
<1>1. /\ wpc = "store" /\ wtodo' = wtodo \ {a}
      /\ payload' = [payload EXCEPT ![WriteSlot][a] = old_seq + 2]
      /\ UNCHANGED <<seq, event_count, wpc, old_seq, readerVars>>
  BY DEF Store, Fields
<1>2. "seq" \notin wtodo
  BY OddStoreFirst DEF Store
<1>3. seq[WriteSlot] = old_seq + 1 /\ IsEven(old_seq) /\ old_seq \in Nat
  BY <1>0, <1>1, <1>2 DEF IInv, WriterInv, TypeOK
<1>4. ~IsEven(seq[WriteSlot])
  BY <1>3, Parity
<1>5. WriteSlot' = WriteSlot
  BY <1>1 DEF WriteSlot
<1>6. TypeOK'
  BY <1>0, <1>1 DEF TypeOK, readerVars
<1>7. EvenInv' /\ PayloadInv'
  BY <1>0, <1>1, <1>4, <1>5 DEF IInv, EvenInv, PayloadInv, TypeOK
<1>8. WriterInv'
  BY <1>0, <1>1, <1>2, <1>5 DEF IInv, WriterInv, TypeOK
<1>9. ReaderInv' /\ SeenInv' /\ BoundInv'
  BY <1>1 DEF IInv, ReaderInv, SeenInv, BoundInv, Published, readerVars
<1>10. Untorn' /\ LogInOrder'
  BY <1>1 DEF IInv, Untorn, LogInOrder, readerVars
<1> QED
  BY <1>6, <1>7, <1>8, <1>9, <1>10 DEF IInv

LEMMA PublishIInv == IInv /\ Publish => IInv'
<1> SUFFICES ASSUME IInv, Publish PROVE IInv'
  OBVIOUS
<1> USE DEF Publish
<1>0. TypeOK /\ WriteSlot \in Slots
  BY WriteSlotInRing DEF IInv
<1>1. /\ event_count < MaxEvents /\ IsEven(old_seq) /\ old_seq \in Nat
      /\ seq[WriteSlot] = old_seq + 1
      /\ \A f \in Fields : payload[WriteSlot][f] = old_seq + 2
  BY <1>0 DEF IInv, WriterInv, TypeOK
<1>2. IsEven(old_seq + 2) /\ ~IsEven(old_seq + 1)
  BY <1>1, Parity
<1>3. \A i \in Slots : seq'[i] = IF i = WriteSlot THEN old_seq + 2 ELSE seq[i]
  BY <1>0 DEF TypeOK
<1>4. TypeOK'
  BY <1>0, <1>1, StationAssumption DEF TypeOK, readerVars
<1>5. EvenInv' /\ PayloadInv'
  BY <1>0, <1>1, <1>2, <1>3 DEF IInv, EvenInv, PayloadInv
<1>6. WriterInv'
  BY DEF WriterInv
<1>7. ReaderInv'
  BY <1>0, <1>1, <1>3 DEF IInv, ReaderInv, readerVars, TypeOK
<1>8. SeenInv'
  BY <1>0, <1>1, <1>3 DEF IInv, SeenInv, readerVars, TypeOK
<1>9. Published[WriteSlot] = old_seq
  BY <1>0, <1>1, <1>2 DEF Published
<1>10. BoundInv'
  <2> SUFFICES ASSUME NEW i \in Slots PROVE Published'[i] <= 2 * (event_count + 1)
    BY DEF BoundInv
  <2>1. Published[i] <= 2 * event_count /\ event_count \in Nat
    BY <1>0 DEF IInv, BoundInv, TypeOK
  <2>2. CASE i = WriteSlot
    BY <1>1, <1>2, <1>3, <1>9, <2>1, <2>2 DEF Published
  <2>3. CASE i # WriteSlot
    <3>1. Published'[i] = Published[i] /\ Published[i] \in Int
      BY <1>0, <1>3, <2>3 DEF Published, TypeOK
    <3> QED
      BY <2>1, <3>1
  <2> QED
    BY <2>2, <2>3
<1>11. Untorn' /\ LogInOrder'
  BY DEF IInv, Untorn, LogInOrder, readerVars
<1> QED
  BY <1>4, <1>5, <1>6, <1>7, <1>8, <1>10, <1>11 DEF IInv

\* The reader leaves the shared memory and the writer alone.
LEMMA ReaderKeepsWriterInv ==
  ASSUME IInv, UNCHANGED <<seq, payload, writerVars>>
  PROVE  EvenInv' /\ WriterInv' /\ PayloadInv' /\ BoundInv'
BY DEF IInv, EvenInv, WriterInv, PayloadInv, BoundInv, Published, WriteSlot, writerVars

LEMMA ReadSeq1IInv == IInv /\ ReadSeq1 => IInv'
<1> SUFFICES ASSUME IInv, ReadSeq1 PROVE IInv'
  OBVIOUS
<1> USE DEF ReadSeq1
<1>0. TypeOK /\ NextSlot \in Slots
  BY NextSlotInRing DEF IInv, TypeOK
<1>1. TypeOK'
  BY <1>0 DEF TypeOK, writerVars
<1>2. EvenInv' /\ WriterInv' /\ PayloadInv' /\ BoundInv'
  BY ReaderKeepsWriterInv
<1>3. ReaderInv'
  BY <1>0 DEF IInv, ReaderInv, TypeOK, Accesses
<1>4. SeenInv' /\ Untorn' /\ LogInOrder'
  BY DEF IInv, SeenInv, Untorn, LogInOrder
<1> QED
  BY <1>1, <1>2, <1>3, <1>4 DEF IInv

LEMMA LoadIInv ==
  ASSUME MemoryModel = "TSO", IInv, NEW a \in Accesses, Load(a)
  PROVE  IInv'
<1> USE DEF Load
<1>0. TypeOK
  BY DEF IInv
<1>1. TypeOK'
  BY <1>0 DEF TypeOK, writerVars, Accesses
<1>2. EvenInv' /\ WriterInv' /\ PayloadInv' /\ BoundInv'
  BY ReaderKeepsWriterInv
<1>3. SeenInv' /\ Untorn' /\ LogInOrder'
  BY DEF IInv, SeenInv, Untorn, LogInOrder
<1>4. ReaderInv'
  <2>1. CASE a = "seq"
    <3>1. rtodo = {"seq"} /\ rtodo' = {} /\ seq2' = seq[ri] /\ UNCHANGED local
      BY <1>0, <2>1, SecondReadLast DEF TypeOK
    <3> QED
      BY <1>0, <3>1 DEF IInv, ReaderInv, TypeOK, Fields
  <2>2. CASE a # "seq"
    <3>1. /\ a \in Fields /\ a \in rtodo /\ rtodo' = rtodo \ {a}
          /\ local' = [local EXCEPT ![a] = payload[ri][a]] /\ seq2' = seq2
      BY <2>2 DEF Accesses, Ready
    <3>2. "seq" \in rtodo
      BY <3>1 DEF IInv, ReaderInv
    <3>3. seq[ri] = seq1 => payload[ri][a] = seq1
      <4>1. IsEven(seq1) /\ lastSeen[ri] < seq1 /\ ri \in Slots
        BY <1>0 DEF IInv, ReaderInv, TypeOK
      <4>2. seq1 > 0
        BY <1>0, <4>1 DEF TypeOK
      <4> QED
        BY <3>1, <4>1, <4>2 DEF IInv, PayloadInv
    <3> QED
      BY <1>0, <2>2, <3>1, <3>2, <3>3 DEF IInv, ReaderInv, TypeOK
  <2> QED
    BY <2>1, <2>2
<1> QED
  BY <1>1, <1>2, <1>3, <1>4 DEF IInv

\* What a passed validation appends.
LEMMA ValidatePass ==
  ASSUME IInv, Validate, seq1 = seq2
  PROVE  /\ log' = Append(log, [slot |-> ri, seq |-> seq1, data |-> local])
         /\ lastSeen' = [lastSeen EXCEPT ![ri] = seq1]
         /\ \A f \in Fields : local[f] = seq1
         /\ IsEven(seq1) /\ lastSeen[ri] < seq1 /\ seq1 <= seq[ri]
BY DEF IInv, ReaderInv, Validate

LEMMA ValidateIInv == IInv /\ Validate => IInv'
<1> SUFFICES ASSUME IInv, Validate PROVE IInv'
  OBVIOUS
<1>0. TypeOK /\ NextSlot \in Slots
  BY NextSlotInRing DEF IInv, TypeOK
<1>2. EvenInv' /\ WriterInv' /\ PayloadInv' /\ BoundInv'
  BY ReaderKeepsWriterInv DEF Validate
<1>3. ReaderInv'
  BY DEF ReaderInv, Validate
<1>4. CASE seq1 # seq2
  <2>1. UNCHANGED <<log, lastSeen>>
    BY <1>4 DEF Validate
  <2>2. TypeOK'
    BY <1>0, <2>1 DEF TypeOK, Validate, writerVars
  <2>3. SeenInv' /\ Untorn' /\ LogInOrder'
    BY <2>1 DEF IInv, SeenInv, Untorn, LogInOrder, Validate
  <2> QED
    BY <1>2, <1>3, <2>2, <2>3 DEF IInv
<1>5. CASE seq1 = seq2
  <2> DEFINE r == [slot |-> ri, seq |-> seq1, data |-> local]
  <2>1. /\ log' = Append(log, r)
        /\ lastSeen' = [lastSeen EXCEPT ![ri] = seq1]
        /\ \A f \in Fields : local[f] = seq1
        /\ lastSeen[ri] < seq1 /\ seq1 <= seq[ri]
    BY <1>5, ValidatePass
  <2>2. r \in Record /\ log \in Seq(Record)
    BY <1>0 DEF TypeOK, Record
  <2>3. TypeOK'
    BY <1>0, <2>1, <2>2 DEF TypeOK, Validate, writerVars
  <2>4. /\ DOMAIN log' = DOMAIN log \cup {Len(log) + 1}
        /\ \A k \in DOMAIN log : k \in Nat /\ k < Len(log) + 1 /\ log'[k] = log[k]
        /\ log'[Len(log) + 1] = r
    BY <2>1, <2>2
  <2>5. \A k \in DOMAIN log : log[k].slot \in Slots /\ log[k].seq \in Nat
    <3>1. \A k \in DOMAIN log : log[k] \in Record
      BY <2>2
    <3> QED
      BY <3>1 DEF Record
  <2>6. SeenInv'
    <3>1. \A i \in Slots : lastSeen'[i] <= seq'[i]
      BY <1>0, <2>1 DEF IInv, SeenInv, TypeOK, Validate
    <3>2. \A k \in DOMAIN log : log[k].seq <= lastSeen'[log[k].slot]
      BY <1>0, <2>1, <2>5 DEF IInv, SeenInv, TypeOK
    <3>3. r.seq <= lastSeen'[r.slot]
      BY <1>0, <2>1 DEF TypeOK
    <3> QED
      BY <2>4, <3>1, <3>2, <3>3 DEF SeenInv
  <2>7. Untorn'
    BY <2>1, <2>4 DEF IInv, Untorn
  <2>8. \A k \in DOMAIN log : log[k].slot = ri => log[k].seq < seq1
    BY <1>0, <2>1, <2>5 DEF IInv, SeenInv, TypeOK
  <2>9. LogInOrder'
    <3> SUFFICES ASSUME NEW j \in DOMAIN log', NEW k \in DOMAIN log',
                        j < k, log'[j].slot = log'[k].slot
                 PROVE  log'[j].seq < log'[k].seq
      BY DEF LogInOrder
    <3>1. j \in DOMAIN log
      BY <2>2, <2>4
    <3>2. CASE k \in DOMAIN log
      BY <2>4, <3>1, <3>2 DEF IInv, LogInOrder
    <3>3. CASE k = Len(log) + 1
      BY <2>4, <2>8, <3>1, <3>3
    <3> QED
      BY <2>4, <3>2, <3>3
  <2> HIDE DEF r
  <2> QED
    BY <1>2, <1>3, <2>3, <2>6, <2>7, <2>9 DEF IInv
<1> QED
  BY <1>4, <1>5

LEMMA NextIInv ==
  ASSUME MemoryModel = "TSO", IInv, [Next]_vars
  PROVE  IInv'
<1>1. CASE write_trace
  <2>1. ASSUME NEW a \in Accesses, Store(a) PROVE IInv'
    BY <2>1, StoreSeqIInv, StoreFieldIInv DEF Accesses
  <2> QED
    BY <1>1, <2>1, BeginWriteIInv, PublishIInv DEF write_trace
<1>2. CASE Harvest
  BY <1>2, ReadSeq1IInv, LoadIInv, ValidateIInv DEF Harvest
<1>3. CASE UNCHANGED vars
  BY <1>3 DEF vars, writerVars, readerVars, IInv, TypeOK, EvenInv, WriterInv,
     PayloadInv, ReaderInv, SeenInv, BoundInv, Published, WriteSlot, Untorn, LogInOrder
<1> QED
  BY <1>1, <1>2, <1>3 DEF Next

\* The seqlock of write_trace and Harvest on a machine that keeps program
\* order: in every reachable state the types hold, no record in the log is
\* torn, and no slot's records are repeated or out of order.
THEOREM SeqlockCorrect ==
  MemoryModel = "TSO" => (Spec => [](TypeOK /\ Untorn /\ LogInOrder))
<1> SUFFICES ASSUME MemoryModel = "TSO"
             PROVE  Spec => [](TypeOK /\ Untorn /\ LogInOrder)
  OBVIOUS
<1>1. IInv /\ [Next]_vars => IInv'
  BY NextIInv
<1>2. IInv => TypeOK /\ Untorn /\ LogInOrder
  BY DEF IInv
<1> QED
  BY InitIInv, <1>1, <1>2, PTL DEF Spec

\* Of one slot, Harvest reports every round of the ring at most once and the rounds
\* in the order write_trace published them (engine.go keeps lastSeen for this).
THEOREM SlotRecordsOrdered == MemoryModel = "TSO" => (Spec => []LogInOrder)
BY SeqlockCorrect, PTL

\* Sequence numbers, cursors and copies stay what write_trace and Harvest take them
\* for, on whichever steps the two meet.
THEOREM SeqlockTypes == MemoryModel = "TSO" => (Spec => []TypeOK)
BY SeqlockCorrect, PTL

-----------------------------------------------------------------------------
(***************************************************************************)
(* Refinement.  Publish is the only step that changes Published, and it    *)
(* changes it as Emit does; a passed Validate is a Report; every other     *)
(* step stutters.                                                          *)
(***************************************************************************)
LEMMA TraceInit == Init => Trace!Init
<1> SUFFICES ASSUME Init PROVE Trace!Init
  OBVIOUS
<1>1. Published = [i \in Slots |-> 0]
  BY DEF Init, Published, IsEven
<1> QED
  BY <1>1 DEF Init, Trace!Init, Trace!Slots, Slots

\* Storing the odd number does not change what is published.
LEMMA StoreStutters ==
  ASSUME MemoryModel = "TSO", IInv, NEW a \in Accesses, Store(a)
  PROVE  UNCHANGED Trace!vars
<1>0. TypeOK /\ WriteSlot \in Slots
  BY WriteSlotInRing DEF IInv
<1>1. event_count' = event_count /\ log' = log
  BY DEF Store, readerVars
<1>2. CASE a = "seq"
  <2>1. IsEven(old_seq) /\ seq[WriteSlot] = old_seq /\ old_seq \in Nat
    BY <1>0, <1>2 DEF IInv, WriterInv, Store, Ready, TypeOK
  <2>2. ~IsEven(old_seq + 1)
    BY <2>1, Parity
  <2>3. \A i \in Slots : seq'[i] = IF i = WriteSlot THEN old_seq + 1 ELSE seq[i]
    BY <1>0, <1>2 DEF Store, TypeOK
  <2>4. Published' = Published
    BY <2>1, <2>2, <2>3 DEF Published
  <2> QED
    BY <1>1, <2>4 DEF Trace!vars
<1>3. CASE a # "seq"
  <2>1. Published' = Published
    BY <1>3 DEF Store, Published
  <2> QED
    BY <1>1, <2>1 DEF Trace!vars
<1> QED
  BY <1>2, <1>3

LEMMA PublishEmits == IInv /\ Publish => Trace!Emit
<1> SUFFICES ASSUME IInv, Publish PROVE Trace!Emit
  OBVIOUS
<1> USE DEF Publish
<1>0. TypeOK /\ WriteSlot \in Slots
  BY WriteSlotInRing DEF IInv
<1>1. /\ event_count < MaxEvents /\ IsEven(old_seq) /\ old_seq \in Nat
      /\ seq[WriteSlot] = old_seq + 1
  BY <1>0 DEF IInv, WriterInv, TypeOK
<1>2. IsEven(old_seq + 2) /\ ~IsEven(old_seq + 1)
  BY <1>1, Parity
<1>3. \A i \in Slots : seq'[i] = IF i = WriteSlot THEN old_seq + 2 ELSE seq[i]
  BY <1>0 DEF TypeOK
<1>4. Published[WriteSlot] = old_seq
  BY <1>0, <1>1, <1>2 DEF Published
<1>5. Published' = [Published EXCEPT ![WriteSlot] = @ + 2]
  <2>1. \A i \in Slots : Published'[i] = IF i = WriteSlot THEN old_seq + 2 ELSE Published[i]
    BY <1>2, <1>3 DEF Published
  <2>2. /\ Published = [i \in Slots |-> Published[i]]
        /\ Published' = [i \in Slots |-> Published'[i]]
    BY DEF Published
  <2> HIDE DEF Publish
  <2> QED
    BY <1>0, <1>4, <2>1, <2>2
<1> QED
  BY <1>1, <1>5 DEF Trace!Emit, WriteSlot, readerVars

LEMMA ValidateReports ==
  ASSUME IInv, Validate, seq1 = seq2
  PROVE  ri \in Trace!Slots /\ seq1 \in Trace!Versions /\ Trace!Report(ri, seq1)
<1>0. TypeOK
  BY DEF IInv
<1>1. /\ log' = Append(log, [slot |-> ri, seq |-> seq1, data |-> local])
      /\ \A f \in Fields : local[f] = seq1
      /\ IsEven(seq1) /\ lastSeen[ri] < seq1 /\ seq1 <= seq[ri]
  BY ValidatePass
<1>2. ri \in Trace!Slots
  BY <1>0 DEF TypeOK, Slots, Trace!Slots
<1>3. local = [f \in Fields |-> seq1]
  BY <1>0, <1>1 DEF TypeOK
<1>4. seq1 \in Nat /\ seq1 > 0 /\ ri \in Slots /\ seq[ri] \in Nat
  BY <1>0, <1>1 DEF TypeOK
<1>5. seq1 <= Published[ri]
  BY <1>1, <1>4 DEF Published, IsEven
<1>6. seq1 <= 2 * MaxEvents
  <2>1. Published[ri] <= 2 * event_count /\ event_count \in 0 .. MaxEvents
    BY <1>0, <1>4 DEF IInv, BoundInv, TypeOK
  <2>2. Published[ri] \in Int
    BY <1>4 DEF Published
  <2> QED
    BY <1>4, <1>5, <2>1, <2>2, StationAssumption
<1>7. seq1 \in Trace!Versions
  <2>1. PICK n \in Nat : seq1 = 2 * n
    <3>1. seq1 = 2 * (seq1 \div 2) /\ seq1 \div 2 \in Nat
      BY <1>1, <1>4 DEF IsEven
    <3> QED
      BY <3>1
  <2>2. n \in 1 .. MaxEvents
    BY <1>4, <1>6, <2>1, StationAssumption
  <2> QED
    BY <2>1, <2>2 DEF Trace!Versions
<1>8. \A k \in DOMAIN log : log[k].slot = ri => log[k].seq < seq1
  <2>1. \A k \in DOMAIN log : log[k] \in Record
    BY <1>0 DEF TypeOK
  <2>2. \A k \in DOMAIN log : log[k].seq \in Nat
    BY <2>1 DEF Record
  <2> QED
    BY <1>0, <1>1, <1>4, <2>2 DEF IInv, SeenInv, TypeOK
<1>9. UNCHANGED <<event_count, Published>>
  BY DEF Validate, writerVars, Published
<1> QED
  BY <1>1, <1>2, <1>3, <1>5, <1>7, <1>8, <1>9 DEF Trace!Report

LEMMA TraceNext ==
  ASSUME MemoryModel = "TSO", IInv, [Next]_vars
  PROVE  [Trace!Next]_Trace!vars
<1>1. CASE BeginWrite
  BY <1>1 DEF BeginWrite, readerVars, Published, Trace!vars
<1>2. ASSUME NEW a \in Accesses, Store(a) PROVE UNCHANGED Trace!vars
  BY <1>2, StoreStutters
<1>3. CASE Publish
  BY <1>3, PublishEmits DEF Trace!Next
<1>4. CASE ReadSeq1
  BY <1>4 DEF ReadSeq1, writerVars, Published, Trace!vars
<1>5. ASSUME NEW a \in Accesses, Load(a) PROVE UNCHANGED Trace!vars
  BY <1>5 DEF Load, writerVars, Published, Trace!vars
<1>6. CASE Validate
  <2>1. CASE seq1 = seq2
    BY <1>6, <2>1, ValidateReports DEF Trace!Next
  <2>2. CASE seq1 # seq2
    BY <1>6, <2>2 DEF Validate, writerVars, Published, Trace!vars
  <2> QED
    BY <2>1, <2>2
<1>7. CASE UNCHANGED vars
  BY <1>7 DEF vars, writerVars, readerVars, Published, Trace!vars
<1> QED
  BY <1>1, <1>2, <1>3, <1>4, <1>5, <1>6, <1>7 DEF Next, write_trace, Harvest

\* The seqlock implements the abstract trace for every ring size: to a reader
\* of the log, write_trace and Harvest are Emit and Report.
THEOREM StationImplementsTraceLog ==
  MemoryModel = "TSO" => (Spec => ImplementsTraceLog)
<1> SUFFICES ASSUME MemoryModel = "TSO" PROVE Spec => Trace!Spec
  BY DEF ImplementsTraceLog
<1>1. IInv /\ [Next]_vars => IInv'
  BY NextIInv
<1>2. IInv /\ [Next]_vars => [Trace!Next]_Trace!vars
  BY TraceNext
<1> QED
  BY InitIInv, TraceInit, <1>1, <1>2, PTL DEF Spec, Trace!Spec
=============================================================================
