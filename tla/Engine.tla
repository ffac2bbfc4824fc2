------------------------------- MODULE Engine -------------------------------
(***************************************************************************)
(* The whole cTP protocol above the single slot: coroutines of one or more *)
(* tracee processes take stations, write events and wake the tracer, while *)
(* the engine goroutine accepts a tracee, scans every allocated station,   *)
(* arms the tracer_sleeping flag, scans again and blocks on the socket.    *)
(*                                                                         *)
(* A slot is its sequence number here: odd while write_trace is between    *)
(* its two stores, even when it holds a complete event.  Station.tla looks *)
(* inside a slot.  The stores and loads that the wake-up handshake is made *)
(* of are single steps, and the even store may linger in the store buffer  *)
(* of its core until the fence.                                            *)
(***************************************************************************)
EXTENDS Naturals, Sequences

CONSTANTS
  Procs,        \* tracee processes
  Probes,       \* traced coroutines
  Owner,        \* Probes -> the process the coroutine runs in
  Unreachable,  \* processes whose connect to the socket may fail
  MaxStations,  \* -n
  RingSize,     \* epochs per station (8 in the code)
  CountMod,     \* allocated_count wraps here (2^32 in the code)
  SockCap,      \* bytes a socket holds before a non-blocking write fails
  WakeBuf,      \* bytes one Read takes (1024 in the code)
  MaxEvents     \* bound on the events of one coroutine

ASSUME EngineAssumption ==
  /\ Procs # {} /\ Owner \in [Probes -> Procs] /\ Unreachable \subseteq Procs
  /\ CountMod \in Nat \ {0} /\ MaxStations \in 0 .. CountMod - 1
  /\ RingSize \in Nat \ {0}
  /\ SockCap \in Nat \ {0} /\ WakeBuf \in Nat \ {0} /\ MaxEvents \in Nat

Stations == 0 .. MaxStations - 1
Slots    == 0 .. RingSize - 1
IsEven(n) == n % 2 = 0
Least(a, b) == IF a < b THEN a ELSE b

VARIABLES
  \* shared memory
  allocated_count, tracer_sleeping,
  seq,          \* Stations -> Slots -> sequence number
  \* tracee processes and their sockets
  link,         \* none, then nofd or queued, serving, closed
  alive,        \* FALSE once the process has exited or crashed
  wire,         \* wake-up bytes sent and not yet read
  \* probes
  idx,          \* what fetch_add returned; a station if below MaxStations
  event_count, wpc, old_seq,
  buffered,     \* the even store is issued and not yet visible
  \* the engine goroutine
  backlog,      \* connections not yet accepted, oldest first
  cur,          \* the process whose connection hotHarvestLoop serves
  epc, phase,   \* where it is, and which of the three scans it is in
  lim, st, ri, seq1, harvested,   \* locals of doScan and Harvest
  lastSeen,     \* Stations -> Slots -> last number harvested
  flushed       \* lastSeen at the last Flush: what has left the bufio buffer

memVars    == <<allocated_count, tracer_sleeping, seq>>
procVars   == <<link, alive, wire>>
probeVars  == <<idx, event_count, wpc, old_seq, buffered>>
scanVars   == <<lim, st, ri, seq1, harvested>>
engineVars == <<backlog, cur, epc, phase, scanVars, lastSeen, flushed>>
vars == <<memVars, procVars, probeVars, engineVars>>

\* NewTracerEngine: a fresh, zeroed mapping, a listening socket, an empty log.
Init ==
  /\ allocated_count = 0 /\ tracer_sleeping = 0
  /\ seq = [s \in Stations |-> [i \in Slots |-> 0]]
  /\ link = [p \in Procs |-> "none"]
  /\ alive = [p \in Procs |-> TRUE]
  /\ wire = [p \in Procs |-> 0]
  /\ idx = [q \in Probes |-> 0]
  /\ event_count = [q \in Probes |-> 0]
  /\ wpc = [q \in Probes |-> "unborn"]
  /\ old_seq = [q \in Probes |-> 0]
  /\ buffered = [q \in Probes |-> FALSE]
  /\ backlog = <<>> /\ cur \in Procs
  /\ epc = "accept" /\ phase = "hot"
  /\ lim = 0 /\ st = 0 /\ ri = 0 /\ seq1 = 0 /\ harvested = FALSE
  /\ lastSeen = seq /\ flushed = seq

(***************************************************************************)
(* Tracee processes: InitTracer / attach_from_env, and the end of one.     *)
(***************************************************************************)
Running(p) == link[p] # "none" /\ alive[p]

\* The mapping and the connection are both there.
AttachConnected(p) ==
  /\ link[p] = "none"
  /\ link' = [link EXCEPT ![p] = "queued"]
  /\ backlog' = Append(backlog, p)
  /\ UNCHANGED <<memVars, alive, wire, probeVars, cur, epc, phase, scanVars,
                 lastSeen, flushed>>

\* connect failed: the SDK warns, keeps the mapping and traces all the same.
AttachNoFd(p) ==
  /\ link[p] = "none" /\ p \in Unreachable
  /\ link' = [link EXCEPT ![p] = "nofd"]
  /\ UNCHANGED <<memVars, alive, wire, probeVars, engineVars>>

\* The process ends or is killed at any point of any of its threads.  Stores
\* its cores have retired reach memory before the kernel closes its socket.
Exit(p) ==
  /\ Running(p)
  /\ \A q \in Probes : Owner[q] = p => ~buffered[q]
  /\ alive' = [alive EXCEPT ![p] = FALSE]
  /\ wpc' = [q \in Probes |-> IF Owner[q] = p /\ wpc[q] # "unborn" THEN "dead" ELSE wpc[q]]
  /\ UNCHANGED <<memVars, link, wire, idx, event_count, old_seq, buffered,
                 engineVars>>

(***************************************************************************)
(* Probes: PromiseMixin / PollTrace.                                       *)
(***************************************************************************)
HasStation(q) == idx[q] < MaxStations
WriteSlot(q)  == event_count[q] % RingSize

\* Mutant: a ticket past the end reuses a station.
Mutant_Birth(q) ==
  /\ wpc[q] = "unborn" /\ Running(Owner[q])
  /\ idx' = [idx EXCEPT ![q] = allocated_count % MaxStations]
  /\ allocated_count' = (allocated_count + 1) % CountMod
  /\ wpc' = [wpc EXCEPT ![q] = "idle"]
  /\ UNCHANGED <<tracer_sleeping, seq, procVars, event_count, old_seq, buffered,
                 engineVars>>

\* The constructor takes a ticket; tickets past the end leave it untraced.
Birth(q) ==
  /\ wpc[q] = "unborn" /\ Running(Owner[q])
  /\ idx' = [idx EXCEPT ![q] = allocated_count]
  /\ allocated_count' = (allocated_count + 1) % CountMod
  /\ wpc' = [wpc EXCEPT ![q] = "idle"]
  /\ UNCHANGED <<tracer_sleeping, seq, procVars, event_count, old_seq, buffered,
                 engineVars>>

\* The destructor sets is_dead, which nothing in the engine reads.
Die(q) ==
  /\ wpc[q] = "idle"
  /\ wpc' = [wpc EXCEPT ![q] = "dead"]
  /\ UNCHANGED <<memVars, procVars, idx, event_count, old_seq, buffered, engineVars>>

\* write_trace, Step A: the odd store (stores of one thread drain in order).
BeginWrite(q) ==
  /\ wpc[q] = "idle" /\ HasStation(q) /\ ~buffered[q]
  /\ event_count[q] < MaxEvents
  /\ old_seq' = [old_seq EXCEPT ![q] = seq[idx[q]][WriteSlot(q)]]
  /\ seq' = [seq EXCEPT ![idx[q]][WriteSlot(q)] = @ + 1]
  /\ wpc' = [wpc EXCEPT ![q] = "body"]
  /\ UNCHANGED <<allocated_count, tracer_sleeping, procVars, idx, event_count,
                 buffered, engineVars>>

\* Step C: the even store is issued ...
IssueEven(q) ==
  /\ wpc[q] = "body"
  /\ buffered' = [buffered EXCEPT ![q] = TRUE]
  /\ wpc' = [wpc EXCEPT ![q] = "fence"]
  /\ UNCHANGED <<memVars, procVars, idx, event_count, old_seq, engineVars>>

\* ... and becomes visible; the private cursor advances with it.
Publish(q) ==
  /\ buffered[q]
  /\ seq' = [seq EXCEPT ![idx[q]][WriteSlot(q)] = old_seq[q] + 2]
  /\ event_count' = [event_count EXCEPT ![q] = @ + 1]
  /\ buffered' = [buffered EXCEPT ![q] = FALSE]
  /\ UNCHANGED <<allocated_count, tracer_sleeping, procVars, idx, wpc, old_seq,
                 engineVars>>

\* Mutant: no fence, the flag is read while the even store is still buffered.
Mutant_Fence(q) ==
  /\ wpc[q] = "fence"
  /\ wpc' = [wpc EXCEPT ![q] = "check"]
  /\ UNCHANGED <<memVars, procVars, idx, event_count, old_seq, buffered, engineVars>>

\* The seq_cst fence waits for the store buffer.
Fence(q) ==
  /\ wpc[q] = "fence" /\ ~buffered[q]
  /\ wpc' = [wpc EXCEPT ![q] = "check"]
  /\ UNCHANGED <<memVars, procVars, idx, event_count, old_seq, buffered, engineVars>>

CheckFlag(q) ==
  /\ wpc[q] = "check"
  /\ wpc' = [wpc EXCEPT ![q] = IF tracer_sleeping = 1 THEN "cas" ELSE "idle"]
  /\ UNCHANGED <<memVars, procVars, idx, event_count, old_seq, buffered, engineVars>>

\* Of the probes that saw the flag, the one whose compare-exchange wins wakes.
CasFlag(q) ==
  /\ wpc[q] = "cas"
  /\ tracer_sleeping' = 0
  /\ wpc' = [wpc EXCEPT ![q] = IF tracer_sleeping = 1 THEN "wake" ELSE "idle"]
  /\ UNCHANGED <<allocated_count, seq, procVars, idx, event_count, old_seq,
                 buffered, engineVars>>

\* One byte down the socket of its own process; a full socket or a missing one
\* loses it without a sign.
trigger_uds_wakeup(q) ==
  /\ wpc[q] = "wake"
  /\ wpc' = [wpc EXCEPT ![q] = "idle"]
  /\ wire' = [wire EXCEPT ![Owner[q]] =
                IF link[Owner[q]] = "nofd" THEN @ ELSE Least(@ + 1, SockCap)]
  /\ UNCHANGED <<memVars, link, alive, idx, event_count, old_seq, buffered, engineVars>>

\* What a thread does on its own once it is inside write_trace.
write_trace(q) ==
  \/ IssueEven(q) \/ Publish(q) \/ Fence(q)
  \/ CheckFlag(q) \/ CasFlag(q) \/ trigger_uds_wakeup(q)

(***************************************************************************)
(* The engine goroutine: Run, hotHarvestLoop, doScan, Harvest.             *)
(***************************************************************************)
Accept ==
  /\ epc = "accept" /\ backlog # <<>>
  /\ cur' = Head(backlog) /\ backlog' = Tail(backlog)
  /\ link' = [link EXCEPT ![Head(backlog)] = "serving"]
  /\ epc' = "scan" /\ phase' = "hot"
  /\ UNCHANGED <<memVars, alive, wire, probeVars, scanVars, lastSeen, flushed>>

\* Mutant: the station count is not clamped.
Mutant_BeginScan ==
  /\ epc = "scan"
  /\ lim' = allocated_count
  /\ st' = 0 /\ ri' = 0 /\ harvested' = FALSE
  /\ epc' = "slot"
  /\ UNCHANGED <<memVars, procVars, probeVars, backlog, cur, phase, seq1,
                 lastSeen, flushed>>

\* doScan reads how far the stations go once, before its loop.
BeginScan ==
  /\ epc = "scan"
  /\ lim' = Least(allocated_count, MaxStations)
  /\ st' = 0 /\ ri' = 0 /\ harvested' = FALSE
  /\ epc' = "slot"
  /\ UNCHANGED <<memVars, procVars, probeVars, backlog, cur, phase, seq1,
                 lastSeen, flushed>>

\* The loops' increments: the next slot, or the next station's first slot.
Advance ==
  IF ri + 1 < RingSize THEN ri' = ri + 1 /\ st' = st
                       ELSE ri' = 0 /\ st' = st + 1

\* Harvest: the first read of Seq and the conditions that skip the slot.
ReadSeq1 ==
  /\ epc = "slot" /\ st < lim
  /\ seq1' = seq[st][ri]
  /\ IF seq[st][ri] <= lastSeen[st][ri] \/ ~IsEven(seq[st][ri])
     THEN Advance /\ UNCHANGED epc
     ELSE epc' = "validate" /\ UNCHANGED <<st, ri>>
  /\ UNCHANGED <<memVars, procVars, probeVars, backlog, cur, phase, lim,
                 harvested, lastSeen, flushed>>

\* Harvest: the second read; a record is written only if Seq has not moved.
Validate ==
  /\ epc = "validate"
  /\ epc' = "slot" /\ Advance
  /\ IF seq[st][ri] = seq1
     THEN /\ lastSeen' = [lastSeen EXCEPT ![st][ri] = seq1]
          /\ harvested' = TRUE
     ELSE UNCHANGED <<lastSeen, harvested>>
  /\ UNCHANGED <<memVars, procVars, probeVars, backlog, cur, phase, lim, seq1, flushed>>

ScanDone(ph) == epc = "slot" /\ st >= lim /\ phase = ph

\* harvested > 0: continue.
Rescan ==
  /\ ScanDone("hot") /\ harvested
  /\ epc' = "scan"
  /\ UNCHANGED <<memVars, procVars, probeVars, backlog, cur, phase, scanVars,
                 lastSeen, flushed>>

\* Mutants: the flag is not raised; the second look is left out.
Mutant_ArmNoFlag ==
  /\ ScanDone("hot") /\ ~harvested
  /\ flushed' = lastSeen
  /\ epc' = "scan" /\ phase' = "recheck"
  /\ UNCHANGED <<memVars, procVars, probeVars, backlog, cur, scanVars, lastSeen>>

Mutant_ArmNoRecheck ==
  /\ ScanDone("hot") /\ ~harvested
  /\ flushed' = lastSeen
  /\ tracer_sleeping' = 1
  /\ epc' = "read" /\ phase' = "recheck"
  /\ UNCHANGED <<allocated_count, seq, procVars, probeVars, backlog, cur,
                 scanVars, lastSeen>>

\* Nothing new: Flush, raise the flag, and scan once more before sleeping.
Arm ==
  /\ ScanDone("hot") /\ ~harvested
  /\ flushed' = lastSeen
  /\ tracer_sleeping' = 1
  /\ epc' = "scan" /\ phase' = "recheck"
  /\ UNCHANGED <<allocated_count, seq, procVars, probeVars, backlog, cur,
                 scanVars, lastSeen>>

\* The second look found something: lower the flag and stay hot.
Disarm ==
  /\ ScanDone("recheck") /\ harvested
  /\ tracer_sleeping' = 0
  /\ epc' = "scan" /\ phase' = "hot"
  /\ UNCHANGED <<allocated_count, seq, procVars, probeVars, backlog, cur,
                 scanVars, lastSeen, flushed>>

GoToSleep ==
  /\ ScanDone("recheck") /\ ~harvested
  /\ epc' = "read"
  /\ UNCHANGED <<memVars, procVars, probeVars, backlog, cur, phase, scanVars,
                 lastSeen, flushed>>

\* conn.Read returns up to WakeBuf bytes ...
ReadWakeup ==
  /\ epc = "read" /\ wire[cur] > 0
  /\ wire' = [wire EXCEPT ![cur] = @ - Least(@, WakeBuf)]
  /\ epc' = "clear"
  /\ UNCHANGED <<memVars, link, alive, probeVars, backlog, cur, phase, scanVars,
                 lastSeen, flushed>>

\* ... and only then is the flag lowered.
ClearFlag ==
  /\ epc = "clear"
  /\ tracer_sleeping' = 0
  /\ epc' = "scan" /\ phase' = "hot"
  /\ UNCHANGED <<allocated_count, seq, procVars, probeVars, backlog, cur,
                 scanVars, lastSeen, flushed>>

\* Mutant: after the deadline, back to Read without a scan.
Mutant_Timeout ==
  /\ epc = "read"
  /\ UNCHANGED vars

\* The 50 ms deadline passes, bytes or no bytes; the flag stays up.
Timeout ==
  /\ epc = "read"
  /\ epc' = "scan" /\ phase' = "hot"
  /\ UNCHANGED <<memVars, procVars, probeVars, backlog, cur, scanVars, lastSeen,
                 flushed>>

\* Mutant: end of file closes the connection without the last scan.
Mutant_Disconnect ==
  /\ epc = "read" /\ wire[cur] = 0 /\ ~alive[cur]
  /\ flushed' = lastSeen
  /\ link' = [link EXCEPT ![cur] = "closed"]
  /\ epc' = "accept"
  /\ UNCHANGED <<memVars, alive, wire, probeVars, backlog, cur, phase, scanVars,
                 lastSeen>>

\* End of file: one last scan.
Disconnect ==
  /\ epc = "read" /\ wire[cur] = 0 /\ ~alive[cur]
  /\ epc' = "scan" /\ phase' = "final"
  /\ UNCHANGED <<memVars, procVars, probeVars, backlog, cur, scanVars, lastSeen,
                 flushed>>

\* Mutant: the last scan is not flushed.
Mutant_CloseConn ==
  /\ ScanDone("final")
  /\ link' = [link EXCEPT ![cur] = "closed"]
  /\ epc' = "accept"
  /\ UNCHANGED <<memVars, alive, wire, probeVars, backlog, cur, phase, scanVars,
                 lastSeen, flushed>>

\* Flush, return to Run, close the connection, accept the next tracee.
CloseConn ==
  /\ ScanDone("final")
  /\ flushed' = lastSeen
  /\ link' = [link EXCEPT ![cur] = "closed"]
  /\ epc' = "accept"
  /\ UNCHANGED <<memVars, alive, wire, probeVars, backlog, cur, phase, scanVars,
                 lastSeen>>

doScan == BeginScan \/ ReadSeq1 \/ Validate

\* Every engine step but the deadline.
hotHarvestLoop ==
  \/ Accept \/ doScan \/ Rescan \/ Arm \/ Disarm \/ GoToSleep
  \/ ReadWakeup \/ ClearFlag \/ Disconnect \/ CloseConn

Tracee ==
  \/ \E p \in Procs : AttachConnected(p) \/ AttachNoFd(p) \/ Exit(p)
  \/ \E q \in Probes : Birth(q) \/ Die(q) \/ BeginWrite(q) \/ write_trace(q)

Next == Tracee \/ hotHarvestLoop \/ Timeout

Spec == Init /\ [][Next]_vars

\* A thread inside write_trace is scheduled again unless its process ends, and
\* so is the engine goroutine.
Scheduled == (\A q \in Probes : WF_vars(write_trace(q))) /\ WF_vars(hotHarvestLoop)

\* The deadline is not needed for progress here: it may never fire.
UntimedSpec == Spec /\ Scheduled

\* The deadline fires when nothing else ends a Read.
TimedSpec == Spec /\ Scheduled /\ WF_vars(Timeout)

-----------------------------------------------------------------------------
\* Every variable keeps its type.
TypeOK ==
  /\ allocated_count \in 0 .. CountMod - 1 /\ tracer_sleeping \in {0, 1}
  /\ seq \in [Stations -> [Slots -> Nat]]
  /\ link \in [Procs -> {"none", "nofd", "queued", "serving", "closed"}]
  /\ alive \in [Procs -> BOOLEAN]
  /\ wire \in [Procs -> 0 .. SockCap]
  /\ idx \in [Probes -> 0 .. CountMod - 1]
  /\ event_count \in [Probes -> 0 .. MaxEvents]
  /\ wpc \in [Probes -> {"unborn", "idle", "body", "fence", "check", "cas", "wake", "dead"}]
  /\ old_seq \in [Probes -> Nat]
  /\ buffered \in [Probes -> BOOLEAN]
  /\ backlog \in Seq(Procs) /\ cur \in Procs
  /\ epc \in {"accept", "scan", "slot", "validate", "read", "clear"}
  /\ phase \in {"hot", "recheck", "final"}
  /\ lim \in 0 .. MaxStations /\ st \in 0 .. MaxStations /\ ri \in Slots
  /\ seq1 \in Nat /\ harvested \in BOOLEAN
  /\ lastSeen \in [Stations -> [Slots -> Nat]]
  /\ flushed \in [Stations -> [Slots -> Nat]]

\* No probe is between making an event visible and having decided to wake.
NoWakeupPending == \A q \in Probes : wpc[q] \in {"unborn", "idle", "body", "dead"}

\* The engine is blocked and nothing but the deadline will end its Read.
Asleep == epc = "read" /\ wire[cur] = 0 /\ alive[cur]

Drained(s) == \A i \in Slots : IsEven(seq[s][i]) => flushed[s][i] = seq[s][i]

\* coroTracer.h:175 "Fix potential lost wake-up": the engine never sleeps on an
\* event.  When it is blocked in Read and no probe is on its way to wake it,
\* every complete event of every station is in the log file.
NoLostWakeup ==
  Asleep /\ NoWakeupPending => \A s \in Stations : Drained(s)

\* docs/cTP.md:107-108: a probe that finds the flag up sends a byte and the engine
\* is woken by it.  So while the engine is in Read, a flag that a probe has taken
\* down means that a byte is in the socket being read, or about to be.
SignalWakesEngine ==
  epc = "read" /\ tracer_sleeping = 0 =>
    \/ wire[cur] > 0 \/ ~alive[cur]
    \/ \E q \in Probes : Owner[q] = cur /\ wpc[q] = "wake"

\* engine.go:149-152: when the connection of a tracee has been closed, every
\* event its coroutines completed is in the log file, however it ended.
DisconnectDrains ==
  \A q \in Probes :
    link[Owner[q]] = "closed" /\ wpc[q] # "unborn" /\ HasStation(q) => Drained(idx[q])

\* docs/cTP.md:68: a live coroutine has its station to itself.
StationExclusive ==
  \A q, r \in Probes :
    /\ q # r /\ HasStation(q) /\ HasStation(r)
    /\ {wpc[q], wpc[r]} \cap {"unborn", "dead"} = {}
    => idx[q] # idx[r]

\* The station's process has no connection, and neither has any other.
Unserved(s) ==
  /\ \E q \in Probes : wpc[q] # "unborn" /\ idx[q] = s /\ link[Owner[q]] = "nofd"
  /\ \A p \in Procs : link[p] \notin {"queued", "serving"}

\* A complete event that the ring does not overwrite reaches the log file.  For a
\* tracee that failed to connect (coroTracer.h:245 "sleep/wake may not work") this
\* holds as long as some other tracee is connected.
EventuallyDurable ==
  \A s \in Stations, i \in Slots, n \in 1 .. MaxEvents :
    seq[s][i] = 2 * n ~> (flushed[s][i] >= 2 * n \/ seq[s][i] > 2 * n \/ Unserved(s))
=============================================================================
