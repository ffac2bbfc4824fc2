------------------------------- MODULE Tracee -------------------------------
(***************************************************************************)
(* Inside one tracee: the coroutines of a program built with the C++ or    *)
(* the Rust SDK, the threads they migrate between, and the stations they   *)
(* are recorded in.                                                        *)
(*                                                                         *)
(* C++   TracedAwaiter records a suspend before it hands the coroutine to  *)
(*       the inner awaiter, and a resume in await_resume.  Once handed     *)
(*       over, any thread may resume or destroy it.                        *)
(* Rust  TracedFuture::poll records a resume if the last poll was pending, *)
(*       polls, and records a suspend if the inner future is pending.  An  *)
(*       executor polls or drops a future only between two polls.          *)
(*                                                                         *)
(* A station is the sequence of its complete events; between its odd and   *)
(* its even store a thread is "writing".  Station.tla has the ring.        *)
(* Sizes are in KiB: the global header and every station take one.         *)
(***************************************************************************)
EXTENDS Integers, Sequences, FiniteSets

CONSTANTS
  Sdks,         \* a subset of {"cpp", "rust"}
  Threads,      \* threads of the executor
  Coros,        \* coroutines
  Frames,       \* addresses a coroutine frame may be allocated at
  Counts,       \* values of -n
  IntStations,  \* KiB a C++ int can count (2^21 in the code)
  WordMod,      \* 2^32: max_stations and allocated_count are 32 bits wide
  MaxEvents     \* bound on the events of one station

ASSUME TraceeAssumption ==
  /\ Sdks \subseteq {"cpp", "rust"} /\ Frames \subseteq Nat \ {0}
  /\ Counts \subseteq Nat /\ IntStations \in Nat \ {0} /\ MaxEvents \in Nat
  /\ IsFiniteSet(Coros) /\ WordMod \in Nat /\ WordMod > Cardinality(Coros)

VARIABLES
  sdk, n,           \* which SDK the program has, and -n
  process,          \* starting, traced, untraced or fault
  mapLen,           \* stations inside its mapping
  allocated_count, next_probe_id,
  probe_id, is_dead,   \* station headers
  trace,            \* station -> its complete events, oldest first
  life,             \* coroutine: unborn, created, running, parked, returned, gone
  frame, id, idx,   \* its address, its probe_id, and the ticket it drew
  pending,          \* Rust: PollTrace.pending
  threw,            \* history: an await_suspend has thrown since the last event
  job               \* thread -> what it is doing, for which coroutine

shared == <<allocated_count, probe_id, is_dead, trace>>
coro   == <<life, frame, id, idx, pending, threw>>
static == <<sdk, n, mapLen>>
vars   == <<static, process, next_probe_id, shared, coro, job>>

\* Every coroutine draws one ticket.
Stations == 0 .. Cardinality(Coros) - 1
NoTicket == WordMod
Idle     == [pc |-> "idle"]

\* uint32(*n) in the launcher, which does not start with an empty mapping.
max_stations == n % WordMod

Init ==
  /\ sdk \in Sdks /\ n \in Counts /\ max_stations # 0
  /\ process = "starting" /\ mapLen = 0
  /\ allocated_count = 0 /\ next_probe_id = 1
  /\ probe_id = [s \in Stations |-> 0] /\ is_dead = [s \in Stations |-> FALSE]
  /\ trace = [s \in Stations |-> <<>>]
  /\ life = [c \in Coros |-> "unborn"]
  /\ frame = [c \in Coros |-> 0] /\ id = [c \in Coros |-> 0]
  /\ idx = [c \in Coros |-> NoTicket]
  /\ pending = [c \in Coros |-> FALSE] /\ threw = [c \in Coros |-> FALSE]
  /\ job = [t \in Threads |-> Idle]

(***************************************************************************)
(* InitTracer and attach_from_env.                                         *)
(***************************************************************************)
\* 1024 + max_stations * 1024 in a C++ int, in KiB.
WrapInt(k) == ((k + IntStations) % (2 * IntStations)) - IntStations

\* The size asked of mmap: size_t of an int, or a checked usize.
mem_size == IF sdk = "cpp" THEN WrapInt(n + 1) ELSE n + 1

\* Mutant: the result of mmap is not looked at.
Mutant_Attach ==
  /\ process = "starting"
  /\ process' = "traced" /\ mapLen' = mem_size - 1
  /\ UNCHANGED <<sdk, n, next_probe_id, shared, coro, job>>

\* A length of zero is invalid, and one that was negative too large to map.
Attach ==
  /\ process = "starting" /\ mem_size > 0
  /\ process' = "traced" /\ mapLen' = mem_size - 1
  /\ UNCHANGED <<sdk, n, next_probe_id, shared, coro, job>>

\* No environment, no file or no mapping: the program runs untraced.
AttachFails ==
  /\ process = "starting"
  /\ process' = "untraced"
  /\ UNCHANGED <<static, next_probe_id, shared, coro, job>>

Up == process \in {"traced", "untraced"}

Free(t)    == Up /\ job[t] = Idle
At(t, pc)  == Up /\ job[t].pc = pc
Co(t)      == job[t].co
Go(t, pc, c) == job' = [job EXCEPT ![t] = [pc |-> pc, co |-> c]]
Leave(t)   == job' = [job EXCEPT ![t] = Idle]
Live(c, s) == life' = [life EXCEPT ![c] = s]

(***************************************************************************)
(* The constructor of PromiseMixin, PollTrace::new.                        *)
(***************************************************************************)
\* Mutant: the last ticket is one too many.
Mutant_HasStation(c) == idx[c] <= max_stations

HasStation(c) == idx[c] < max_stations

FreeFrames == Frames \ {frame[d] : d \in {e \in Coros : life[e] \notin {"unborn", "gone"}}}

\* Mutant: a ticket past the end goes round to the first station.
Mutant_NewCoroutine(t, c) ==
  /\ Free(t) /\ life[c] = "unborn"
  /\ \E f \in FreeFrames :
       /\ frame' = [frame EXCEPT ![c] = f]
       /\ id' = [id EXCEPT ![c] = IF sdk = "cpp" THEN f ELSE next_probe_id]
  /\ next_probe_id' = next_probe_id + 1
  /\ IF process = "traced"
     THEN /\ idx' = [idx EXCEPT ![c] = allocated_count % max_stations]
          /\ allocated_count' = (allocated_count + 1) % WordMod
     ELSE UNCHANGED <<idx, allocated_count>>
  /\ Live(c, "running") /\ Go(t, "init", c)
  /\ UNCHANGED <<static, process, probe_id, is_dead, trace, pending, threw>>

\* fetch_add on allocated_count draws the ticket.
NewCoroutine(t, c) ==
  /\ Free(t) /\ life[c] = "unborn"
  /\ \E f \in FreeFrames :
       /\ frame' = [frame EXCEPT ![c] = f]
       /\ id' = [id EXCEPT ![c] = IF sdk = "cpp" THEN f ELSE next_probe_id]
  /\ next_probe_id' = next_probe_id + 1
  /\ IF process = "traced"
     THEN /\ idx' = [idx EXCEPT ![c] = allocated_count]
          /\ allocated_count' = (allocated_count + 1) % WordMod
     ELSE UNCHANGED <<idx, allocated_count>>
  /\ Live(c, "running") /\ Go(t, "init", c)
  /\ UNCHANGED <<static, process, probe_id, is_dead, trace, pending, threw>>

\* The station's header, if the ticket is good for one.  Beyond the mapping the
\* first access ends the process ("fault" stands for every outcome of such an
\* access; that the kernel rounds the mapping up to whole pages is left out).
InitHeader(t) ==
  /\ At(t, "init")
  /\ LET c == Co(t) IN
     IF HasStation(c) /\ idx[c] >= mapLen
     THEN process' = "fault" /\ UNCHANGED <<probe_id, is_dead, life, job>>
     ELSE /\ IF HasStation(c)
             THEN /\ probe_id' = [probe_id EXCEPT ![idx[c]] = id[c]]
                  /\ is_dead' = [is_dead EXCEPT ![idx[c]] = FALSE]
             ELSE UNCHANGED <<probe_id, is_dead>>
          /\ Live(c, "created") /\ Leave(t) /\ UNCHANGED process
  /\ UNCHANGED <<static, next_probe_id, allocated_count, trace, frame, id, idx,
                 pending, threw>>

(***************************************************************************)
(* write_trace: without a station it returns at once.                      *)
(***************************************************************************)
Record(t, c, active, then) ==
  /\ HasStation(c) => Len(trace[idx[c]]) < MaxEvents
  /\ job' = [job EXCEPT ![t] =
       IF HasStation(c) THEN [pc |-> "write", co |-> c, is_active |-> active, then |-> then]
                        ELSE [pc |-> then, co |-> c]]

\* The odd store.
BeginWrite(t) ==
  /\ At(t, "write")
  /\ job' = [job EXCEPT ![t].pc = "writing"]
  /\ UNCHANGED <<static, process, next_probe_id, shared, coro>>

\* The payload and the even store.
EndWrite(t) ==
  /\ At(t, "writing")
  /\ LET c == Co(t) IN
     /\ trace' = [trace EXCEPT ![idx[c]] =
                    Append(@, [by |-> c, is_active |-> job[t].is_active])]
     /\ threw' = [threw EXCEPT ![c] = FALSE]
     /\ IF job[t].then = "idle" THEN Leave(t) ELSE Go(t, job[t].then, c)
  /\ UNCHANGED <<static, process, next_probe_id, allocated_count, probe_id,
                 is_dead, life, frame, id, idx, pending>>

(***************************************************************************)
(* C++.  The first resumption follows initial_suspend, which await_transform *)
(* does not wrap.                                                          *)
(***************************************************************************)
inCoro == <<static, process, next_probe_id, shared, frame, id, idx>>

Start(t, c) ==
  /\ sdk = "cpp" /\ Free(t) /\ life[c] = "created"
  /\ Live(c, "running") /\ Go(t, "run", c)
  /\ UNCHANGED <<inCoro, pending, threw>>

\* await_ready is true: await_resume follows, with nothing suspended.
AwaitReady(t) ==
  /\ sdk = "cpp" /\ At(t, "run")
  /\ Record(t, Co(t), TRUE, "run")
  /\ UNCHANGED <<inCoro, life, pending, threw>>

\* Mutant: the inner awaiter has the coroutine before the suspend is recorded.
Mutant_await_suspend(t) ==
  /\ sdk = "cpp" /\ At(t, "run")
  /\ Record(t, Co(t), FALSE, "idle")
  /\ Live(Co(t), "parked")
  /\ UNCHANGED <<inCoro, pending, threw>>

\* TracedAwaiter::await_suspend: first the record ...
await_suspend(t) ==
  /\ sdk = "cpp" /\ At(t, "run")
  /\ Record(t, Co(t), FALSE, "handoff")
  /\ UNCHANGED <<inCoro, life, pending, threw>>

\* ... then inner.await_suspend, which gives the coroutine away, or returns false
\* and await_resume follows at once, or throws into the running coroutine.
HandOff(t) ==
  /\ At(t, "handoff")
  /\ LET c == Co(t) IN
     \/ Live(c, "parked") /\ Leave(t) /\ UNCHANGED threw
     \/ Record(t, c, TRUE, "run") /\ UNCHANGED <<life, threw>>
     \/ /\ threw' = [threw EXCEPT ![c] = HasStation(c)] /\ Go(t, "run", c)
        /\ UNCHANGED life
  /\ UNCHANGED <<inCoro, pending>>

await_resume(t, c) ==
  /\ sdk = "cpp" /\ Free(t) /\ life[c] = "parked"
  /\ Live(c, "running") /\ Record(t, c, TRUE, "run")
  /\ UNCHANGED <<inCoro, pending, threw>>

\* The body ends, by co_return or by an exception, at final_suspend.
Return(t) ==
  /\ sdk = "cpp" /\ At(t, "run")
  /\ Live(Co(t), "returned") /\ Leave(t)
  /\ UNCHANGED <<inCoro, pending, threw>>

(***************************************************************************)
(* Rust: TracedFuture::poll.                                               *)
(***************************************************************************)
\* Mutant: a resume is recorded at every poll.
Mutant_poll(t, c) ==
  /\ sdk = "rust" /\ Free(t) /\ life[c] \in {"created", "parked"}
  /\ Live(c, "running") /\ pending' = [pending EXCEPT ![c] = FALSE]
  /\ Record(t, c, TRUE, "run")
  /\ UNCHANGED <<inCoro, threw>>

\* on_resume.
poll(t, c) ==
  /\ sdk = "rust" /\ Free(t) /\ life[c] \in {"created", "parked"}
  /\ Live(c, "running") /\ pending' = [pending EXCEPT ![c] = FALSE]
  /\ IF pending[c] THEN Record(t, c, TRUE, "run") ELSE Go(t, "run", c)
  /\ UNCHANGED <<inCoro, threw>>

\* The inner poll returned Pending: on_pending_addr records the suspend ...
PollPending(t) ==
  /\ sdk = "rust" /\ At(t, "run")
  /\ Record(t, Co(t), FALSE, "pend")
  /\ UNCHANGED <<inCoro, life, pending, threw>>

\* Mutant: and does not remember it.
Mutant_on_pending_addr(t) ==
  /\ At(t, "pend")
  /\ Live(Co(t), "parked") /\ Leave(t)
  /\ UNCHANGED <<inCoro, pending, threw>>

\* ... and remembers it; poll returns.
on_pending_addr(t) ==
  /\ At(t, "pend")
  /\ pending' = [pending EXCEPT ![Co(t)] = TRUE]
  /\ Live(Co(t), "parked") /\ Leave(t)
  /\ UNCHANGED <<inCoro, threw>>

Bury(c) ==
  is_dead' = IF HasStation(c) THEN [is_dead EXCEPT ![idx[c]] = TRUE] ELSE is_dead

\* The inner poll returned Ready: mark_dead.
on_ready(t) ==
  /\ sdk = "rust" /\ At(t, "run")
  /\ Bury(Co(t)) /\ Live(Co(t), "returned") /\ Leave(t)
  /\ UNCHANGED <<static, process, next_probe_id, allocated_count, probe_id,
                 trace, frame, id, idx, pending, threw>>

\* The inner poll panicked: the executor may only drop the future.
PollPanics(t) ==
  /\ sdk = "rust" /\ At(t, "run")
  /\ Live(Co(t), "returned") /\ Leave(t)
  /\ UNCHANGED <<inCoro, pending, threw>>

\* Mutant: a coroutine destroyed before its end is not marked.
Mutant_Destroy(t, c) ==
  /\ Free(t) /\ life[c] \in {"created", "parked", "returned"}
  /\ IF life[c] = "returned" THEN Bury(c) ELSE UNCHANGED is_dead
  /\ Live(c, "gone") /\ pending' = [pending EXCEPT ![c] = FALSE]
  /\ UNCHANGED <<static, process, next_probe_id, allocated_count, probe_id,
                 trace, frame, id, idx, threw, job>>

\* ~PromiseMixin, drop: finished or cancelled, on any thread; then the frame is
\* free for the next coroutine.
Destroy(t, c) ==
  /\ Free(t) /\ life[c] \in {"created", "parked", "returned"}
  /\ Bury(c) /\ Live(c, "gone") /\ pending' = [pending EXCEPT ![c] = FALSE]
  /\ UNCHANGED <<static, process, next_probe_id, allocated_count, probe_id,
                 trace, frame, id, idx, threw, job>>

Next ==
  \/ Attach \/ AttachFails
  \/ \E t \in Threads :
       \/ InitHeader(t) \/ BeginWrite(t) \/ EndWrite(t)
       \/ AwaitReady(t) \/ await_suspend(t) \/ HandOff(t) \/ Return(t)
       \/ PollPending(t) \/ on_pending_addr(t) \/ on_ready(t) \/ PollPanics(t)
       \/ \E c \in Coros : NewCoroutine(t, c) \/ Start(t, c) \/ await_resume(t, c)
                             \/ poll(t, c) \/ Destroy(t, c)

Spec == Init /\ [][Next]_vars

-----------------------------------------------------------------------------
\* Every variable keeps its type.
TypeOK ==
  /\ process \in {"starting", "traced", "untraced", "fault"}
  /\ mapLen \in Nat /\ allocated_count \in 0 .. WordMod - 1
  /\ next_probe_id \in 1 .. Cardinality(Coros) + 1
  /\ DOMAIN trace = Stations /\ is_dead \in [Stations -> BOOLEAN]
  /\ life \in [Coros -> {"unborn", "created", "running", "parked", "returned", "gone"}]
  /\ idx \in [Coros -> 0 .. NoTicket]
  /\ pending \in [Coros -> BOOLEAN] /\ threw \in [Coros -> BOOLEAN]
  /\ \A t \in Threads :
       job[t].pc \in {"idle", "init", "run", "write", "writing", "handoff", "pend"}

Writes(t, c) == job[t].pc \in {"write", "writing"} /\ Co(t) = c

\* The seqlock is for one writer.  Two threads are never inside write_trace of one
\* station, although a coroutine may be resumed by a second thread before the
\* first has left await_suspend (coroTracer.h:192 records before it hands over).
OneWriter ==
  \A t, u \in Threads, c, d \in Coros :
    t # u /\ Writes(t, c) /\ Writes(u, d) => idx[c] # idx[d]

\* The header is outside the seqlock and is read when the record is written
\* (jsonl.go:24).  Whatever event of a station the engine finds, the probe_id in
\* the header is that of the coroutine that wrote the event.
IdNamesWriter ==
  \A s \in Stations : \A k \in DOMAIN trace[s] : probe_id[s] = id[trace[s][k].by]

\* The C++ SDK takes the address of the promise for probe_id, so an id comes back
\* when a frame is reused.  Then the earlier coroutine's station says is_dead: of
\* the stations with one id at most one belongs to a coroutine that is not over.
IdReusedOnlyByDead ==
  \A s, r \in Stations :
    s # r /\ probe_id[s] # 0 /\ probe_id[s] = probe_id[r] => is_dead[s] \/ is_dead[r]

\* No event is written to a station after its coroutine was declared dead, on
\* whatever thread it was destroyed.
NoPosthumousEvents ==
  [][\A s \in Stations : is_dead[s] => trace'[s] = trace[s]]_vars

\* README.md:90: is_active of the last event says whether the coroutine is
\* active.  With no thread on its way to record, the last event of a coroutine is a
\* suspend if it is parked, and a resume if it runs or has returned, except that
\* in C++ an await_suspend that throws leaves its suspend behind.
StateShown ==
  \A c \in Coros :
    LET last == trace[idx[c]][Len(trace[idx[c]])].is_active IN
    /\ HasStation(c) /\ trace[idx[c]] # <<>>
    /\ \A t \in Threads : job[t] # Idle /\ Co(t) = c => job[t].pc = "run"
    => /\ life[c] = "parked" => ~last
       /\ life[c] \in {"running", "returned"} => last \/ threw[c]

\* lib.rs:220: in Rust suspends and resumes alternate, a suspend first, whatever the
\* polls, cancellations and panics, and however the future migrates.
RustAlternates ==
  sdk = "rust" =>
    \A s \in Stations : \A k \in DOMAIN trace[s] : trace[s][k].is_active = (k % 2 = 0)

\* For every -n below 2^22 a station lies inside the mapping of the coroutine's
\* process.  From 2^21 - 1 on the size overflows in the C++ SDK and attaching
\* fails; from 2^22 on it wraps to a small mapping and the program dies.
AttachSafe == process = "fault" => sdk = "cpp" /\ n >= 2 * IntStations
=============================================================================
