------------------------------ MODULE Station ------------------------------
(***************************************************************************)
(* One station of the cTP shared memory: a ring of RingSize epochs that    *)
(* one probe overwrites round after round (write_trace of the C++ and the  *)
(* Rust SDK) while the engine of another process copies it out without a   *)
(* lock (StationData.Harvest).  The grain is the single memory access.     *)
(*                                                                         *)
(* Data abstraction.  A payload field holds the stamp of the write that    *)
(* stored it: the even sequence number that write publishes its slot       *)
(* under.  A slot and a stamp name one write, so a record is untorn iff    *)
(* all of its fields carry the record's own sequence number.               *)
(***************************************************************************)
EXTENDS Naturals, Sequences

CONSTANTS
  RingSize,     \* epochs per station (8 in the code)
  MaxEvents,    \* bound on the events the probe writes
  MemoryModel   \* "TSO": accesses take effect in program order (x86-64)
                \* "ARM": a release store only follows what precedes it,
                \*        an acquire load only precedes what follows it

ASSUME StationAssumption ==
  /\ RingSize \in Nat \ {0}
  /\ MaxEvents \in Nat
  /\ MemoryModel \in {"TSO", "ARM"}

Fields   == {"addr", "tid", "timestamp", "is_active"}
Accesses == Fields \cup {"seq"}
Slots    == 0 .. RingSize - 1

VARIABLES
  seq,          \* Slots -> the shared sequence number of each epoch
  payload,      \* Slots -> Fields -> stamp of the write that stored it
  event_count,  \* the probe's private cursor
  wpc, old_seq, wtodo,           \* write_trace: where it is, its old_seq, and
                                 \* its stores that have not taken effect
  rpc, ri, seq1, seq2, local, rtodo,  \* Harvest: where it is, its loop index,
                                 \* its two reads of Seq, its copies, and its
                                 \* loads that have not been performed
  lastSeen,     \* Slots -> the sequence number harvested last
  log           \* the records given to WriteSafeSlot, oldest first

writerVars == <<event_count, wpc, old_seq, wtodo>>
readerVars == <<rpc, ri, seq1, seq2, local, rtodo, lastSeen, log>>
vars == <<seq, payload, writerVars, readerVars>>

IsEven(n) == n % 2 = 0

Record == [slot : Slots, seq : Nat, data : [Fields -> Nat]]

Init ==
  /\ seq = [i \in Slots |-> 0]
  /\ payload = [i \in Slots |-> [f \in Fields |-> 0]]
  /\ event_count = 0
  /\ wpc = "idle" /\ old_seq = 0 /\ wtodo = {}
  /\ rpc = "scan" /\ ri = 0 /\ seq1 = 0 /\ seq2 = 0
  /\ local = [f \in Fields |-> 0] /\ rtodo = {}
  /\ lastSeen = [i \in Slots |-> 0]
  /\ log = <<>>

(***************************************************************************)
(* Which of the issued accesses may take effect next.  Under TSO it is the *)
(* first one in program order; under ARM any of them, because the release  *)
(* store of the odd seq does not hold back the plain stores after it and   *)
(* the acquire load of seq2 does not wait for the plain loads before it.   *)
(***************************************************************************)
\* Mutant: the odd store comes after the payload stores.
Mutant_StoreRank == [seq |-> 4, addr |-> 0, tid |-> 1, timestamp |-> 2, is_active |-> 3]

StoreRank == [seq |-> 0, addr |-> 1, tid |-> 2, timestamp |-> 3, is_active |-> 4]
LoadRank  == [tid |-> 0, addr |-> 1, is_active |-> 2, timestamp |-> 3, seq |-> 4]

Ready(todo, rank) ==
  {a \in todo : MemoryModel = "ARM" \/ \A b \in todo : rank[a] <= rank[b]}

(***************************************************************************)
(* The probe: write_trace.                                                 *)
(***************************************************************************)
WriteSlot == event_count % RingSize

\* Step A: read the slot's old seq, issue the odd store and the payload stores.
BeginWrite ==
  /\ wpc = "idle"
  /\ event_count < MaxEvents
  /\ wpc' = "store"
  /\ old_seq' = seq[WriteSlot]
  /\ wtodo' = Accesses
  /\ UNCHANGED <<seq, payload, event_count, readerVars>>

\* Step B: one of the issued stores takes effect.
Store(a) ==
  /\ wpc = "store"
  /\ a \in Ready(wtodo, StoreRank)
  /\ wtodo' = wtodo \ {a}
  /\ IF a = "seq"
     THEN /\ seq' = [seq EXCEPT ![WriteSlot] = old_seq + 1]
          /\ UNCHANGED payload
     ELSE /\ payload' = [payload EXCEPT ![WriteSlot][a] = old_seq + 2]
          /\ UNCHANGED seq
  /\ UNCHANGED <<event_count, wpc, old_seq, readerVars>>

\* Step C: the release store of the even seq follows all of them; the cursor
\* is private to the probe and advances with it.
Publish ==
  /\ wpc = "store"
  /\ wtodo = {}
  /\ wpc' = "idle"
  /\ seq' = [seq EXCEPT ![WriteSlot] = old_seq + 2]
  /\ event_count' = event_count + 1
  /\ UNCHANGED <<payload, old_seq, wtodo, readerVars>>

(***************************************************************************)
(* The engine: Harvest, called for this station again and again.           *)
(***************************************************************************)
Mutant_NextSlot == IF ri < RingSize THEN ri + 1 ELSE 0

\* The loop's i++; after the last slot the next call starts at slot 0.
NextSlot == IF ri + 1 < RingSize THEN ri + 1 ELSE 0

\* Mutants: the parity test forgotten; an odd slot waited for, not skipped.
Mutant_ReadSeq1NoParity ==
  /\ rpc = "scan"
  /\ seq1' = seq[ri]
  /\ IF seq[ri] <= lastSeen[ri]
     THEN ri' = NextSlot /\ UNCHANGED <<rpc, rtodo>>
     ELSE rpc' = "copy" /\ rtodo' = Accesses /\ UNCHANGED ri
  /\ UNCHANGED <<seq, payload, writerVars, seq2, local, lastSeen, log>>

Mutant_ReadSeq1Spin ==
  /\ rpc = "scan"
  /\ seq1' = seq[ri]
  /\ IF seq[ri] <= lastSeen[ri] \/ ~IsEven(seq[ri])
     THEN ri' = (IF IsEven(seq[ri]) THEN NextSlot ELSE ri) /\ UNCHANGED <<rpc, rtodo>>
     ELSE rpc' = "copy" /\ rtodo' = Accesses /\ UNCHANGED ri
  /\ UNCHANGED <<seq, payload, writerVars, seq2, local, lastSeen, log>>

\* seq1 and the two conditions that skip the slot.
ReadSeq1 ==
  /\ rpc = "scan"
  /\ seq1' = seq[ri]
  /\ IF seq[ri] <= lastSeen[ri] \/ ~IsEven(seq[ri])
     THEN ri' = NextSlot /\ UNCHANGED <<rpc, rtodo>>
     ELSE rpc' = "copy" /\ rtodo' = Accesses /\ UNCHANGED ri
  /\ UNCHANGED <<seq, payload, writerVars, seq2, local, lastSeen, log>>

\* The field copies and the second read of Seq.
Load(a) ==
  /\ rpc = "copy"
  /\ a \in Ready(rtodo, LoadRank)
  /\ rtodo' = rtodo \ {a}
  /\ IF a = "seq"
     THEN seq2' = seq[ri] /\ UNCHANGED local
     ELSE local' = [local EXCEPT ![a] = payload[ri][a]] /\ UNCHANGED seq2
  /\ UNCHANGED <<seq, payload, writerVars, rpc, ri, seq1, lastSeen, log>>

\* Mutant: the harvested number is not remembered.
Mutant_ValidateForgets ==
  /\ rpc = "copy"
  /\ rtodo = {}
  /\ IF seq1 # seq2
     THEN UNCHANGED log
     ELSE log' = Append(log, [slot |-> ri, seq |-> seq1, data |-> local])
  /\ rpc' = "scan"
  /\ ri' = NextSlot
  /\ UNCHANGED <<seq, payload, writerVars, seq1, seq2, local, rtodo, lastSeen>>

\* seq1 # seq2 discards the copy; otherwise WriteSafeSlot and lastSeen.
Validate ==
  /\ rpc = "copy"
  /\ rtodo = {}
  /\ IF seq1 # seq2
     THEN UNCHANGED <<log, lastSeen>>
     ELSE /\ log' = Append(log, [slot |-> ri, seq |-> seq1, data |-> local])
          /\ lastSeen' = [lastSeen EXCEPT ![ri] = seq1]
  /\ rpc' = "scan"
  /\ ri' = NextSlot
  /\ UNCHANGED <<seq, payload, writerVars, seq1, seq2, local, rtodo>>

write_trace == BeginWrite \/ (\E a \in Accesses : Store(a)) \/ Publish
Harvest     == ReadSeq1 \/ (\E a \in Accesses : Load(a)) \/ Validate

Next == write_trace \/ Harvest

Spec == Init /\ [][Next]_vars

\* The engine keeps scanning while a tracee is connected; the probe may stop,
\* or its process may die, between any two of its stores.
FairSpec == Spec /\ WF_vars(Harvest)

-----------------------------------------------------------------------------
\* Every variable keeps its type; the bounds of ri and event_count are those of
\* the loop in Harvest and of the ring.
TypeOK ==
  /\ seq \in [Slots -> Nat]
  /\ payload \in [Slots -> [Fields -> Nat]]
  /\ event_count \in 0 .. MaxEvents
  /\ wpc \in {"idle", "store"} /\ old_seq \in Nat /\ wtodo \in SUBSET Accesses
  /\ rpc \in {"scan", "copy"} /\ ri \in Slots
  /\ seq1 \in Nat /\ seq2 \in Nat
  /\ local \in [Fields -> Nat] /\ rtodo \in SUBSET Accesses
  /\ lastSeen \in [Slots -> Nat]
  /\ log \in Seq(Record)

\* station.go:80: once seq1 = seq2 the copied fields all come from one complete
\* write, the one that published that sequence number in that slot.
Untorn ==
  \A k \in DOMAIN log : \A f \in Fields : log[k].data[f] = log[k].seq

\* lastSeen lets no write be reported twice, and never an older write of a slot
\* after a newer one, however often the ring wraps while Harvest is reading.
LogInOrder ==
  \A j, k \in DOMAIN log :
    j < k /\ log[j].slot = log[k].slot => log[j].seq < log[k].seq

\* A write that is complete and is not overwritten gets into the log, even when
\* the probe dies in the middle of its next write (an odd seq elsewhere in the
\* ring must not hold up the scan).
QuietSlotHarvested ==
  \A i \in Slots, n \in 1 .. MaxEvents :
    seq[i] = 2 * n ~> (lastSeen[i] >= 2 * n \/ seq[i] > 2 * n)

\* The seqlock implements the abstract trace: a slot counts as published under
\* the last even number it held, and what Harvest writes is what was published.
Published == [i \in Slots |-> IF IsEven(seq[i]) THEN seq[i] ELSE seq[i] - 1]

Trace == INSTANCE TraceLog WITH emitted <- event_count, version <- Published

\* Every step of the two processes is an Emit, a Report or nothing at all to a
\* reader of the trace.
ImplementsTraceLog == Trace!Spec
=============================================================================
