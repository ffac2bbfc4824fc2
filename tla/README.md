# A TLA+ model of coroTracer

coroTracer observes the coroutines of another process. A small SDK (C++ or
Rust) inside the *tracee* writes suspend/resume events into shared memory; a Go
*engine* in the launcher harvests them into a JSONL file; a second mode of the
same program exports such a file into SQLite, MySQL, PostgreSQL or CSV. No lock
is shared between the processes: correctness rests on the order of single
memory accesses, on a one-byte wake-up over a Unix socket, and on who closes
what first. That is what this directory models.

## Inventory

| Part | Source | State | Operations | What is hard |
|---|---|---|---|---|
| Slot protocol | `structure/station.go`, `SDK/c++/coroTracer.h` | per slot: `seq` and four fields; the probe's `event_count`; the engine's `lastSeen` | `write_trace`, `Harvest` | reader and writer overlap at every access; memory order; a writer that dies half-way; ring wrap |
| Allocation | SDKs, `GlobalHeader` | `allocated_count` | `fetch_add` at birth | more coroutines than stations; wrap of the counter |
| Wake-up | SDKs, `engine/engine.go` | `tracer_sleeping`, bytes in the socket | flag check, compare-exchange, one-byte write; arm, second scan, `Read`, clear | lost wake-ups, stale bytes, a full socket, the 50 ms deadline, several processes and one flag |
| Engine | `engine/engine.go` | connection served, scan position, `lastSeen`, log buffer | `Run`, `hotHarvestLoop`, `doScan` | tracees that die at any point, that queue, that cannot connect |
| Log writer | `structure/jsonl.go` | `bufio.Writer`, file | `WriteSafeSlot`, `Flush`, `Close` | records split at the buffer's edge, short writes, sticky errors, a file that earlier runs have cut |
| Launcher | `main.go` | target, mapping, file, three goroutines | start, run the target, deferred `Close`, signal handler, `log.Fatalf` | `Close` against the engine goroutine; two `Close`s; exits that skip it; kills and restarts; a target that outlives it |
| Exporters | `export/*.go`, `main.go` | client process, its stdin, its transaction, the table, the output file | output path, find or create the database, stream, commit, abort, wait | failure of one step of several, ambiguous commit, repeated and simultaneous exports, kills |
| Probe life cycle | SDKs | `pending`, the station header (`probe_id`, `is_dead`), the coroutine's frame | awaiter hooks; `on_resume`, `on_pending_addr`, `on_ready`, `Drop` | a coroutine resumed or destroyed by one thread while another is still inside `await_suspend`; exceptions, panics, cancellation; reused addresses |
| Memory layout | `station.go`, SDKs | size of the mapping | `InitTracer`, `attach_from_env` | integer widths: a Go `uint32`, a C++ `int`, a Rust `usize` compute one size |

Interaction: the launcher starts the engine goroutine and the target; the target
attaches (maps the memory, connects); its coroutines take stations and write;
the engine scans while a connection lasts and sleeps on it; the target's exit
reaches the engine as end of file and the main goroutine as `cmd.Run` returning.

## Modules

| Module | Models |
|---|---|
| `Station` | One station, one step per memory access: `write_trace` against `Harvest`. `MemoryModel` says whether accesses take effect in program order. |
| `TraceLog` | What a station promises: events are published one by one, and the log receives complete events, each at most once, per slot in order. |
| `StationProofs`, `EngineProofs`, `TraceeProofs`, `LauncherProofs`, `ExportProofs` | Proofs about the module in the name, which they extend; see Proofs. |
| `Engine` | Processes, coroutines and the engine: allocation, the wake-up handshake, scans, disconnect. |
| `MCEngine` | Which coroutine runs in which process, for TLC. |
| `Tracee` | Inside one target: coroutines, the threads they migrate between, both SDKs' hooks, station headers, the size of the mapping. |
| `MCTracee` | Symmetry of threads and coroutines, for TLC. |
| `Launcher` | The three goroutines of `main.go`, the log writer, how the program ends, is killed and starts again, and what becomes of its target. |
| `AtomicLoad` | What an export into a database server promises: its rows appear in one step or never, and after an error only if COMMIT was out. |
| `Export`, `MCExport` | Runs of `-export`, one after another or at once: the exporter, its database client and the server; implements `AtomicLoad`. |

`Station` looks inside one slot. `Engine` and `Tracee` both take a slot as a whole
and look at different sides of it: `Engine` at how complete events reach the file,
`Tracee` at which thread writes which event. `Launcher` takes the scan as a whole
and adds the processes around it. What a module takes for granted is checked in
another one: that a station has one writer (`Station`, `Engine`) is
`Tracee!OneWriter` inside one process and `Engine!StationExclusive` across
several; that the engine's scans lose nothing (`Launcher`) is
`Engine!DisconnectDrains` and `EventuallyDurable`.

`Mutant_...` definitions stand next to the definition they are a broken variant
of. They are not used by any specification; each shows that a property can fail.

### Station

`seq` and `payload` are the shared memory of one station. A payload field does
not hold its value but the *stamp* of the write that stored it, the even number
that write publishes: a record is whole iff its four stamps equal its number.
`BeginWrite`, `Store(a)` and `Publish` are steps A, B and C of `write_trace`;
`ReadSeq1`, `Load(a)` and `Validate` are `Harvest`. `Ready` picks which of the
issued accesses takes effect next. Under `"TSO"` it is the first in program
order (x86-64, and a compiler that keeps the order it is given). Under `"ARM"`
it is any of them: a release store does not hold back *later* plain stores and
an acquire load does not wait for *earlier* plain loads. In both, the odd store
and the payload stores precede the even store and all loads follow the first
load of `seq`, as release and acquire say; the fence at the end of
`write_trace` keeps two writes apart.

### Engine

A slot is only its number: odd while it is being written, even when complete.
The steps of the handshake are single steps. The even store may stay in the
store buffer (`buffered`) until the fence; the engine's atomics are sequentially
consistent in Go, so its side has no buffer. `flushed` is `lastSeen` at the last
`Flush`, that is, what is in the file. `Exit` may happen anywhere. The second
`Seq` read of `Harvest` is a step of its own, so a slot can move between the two.
A process in `Unreachable` maps the memory and may fail to connect; then its events
are harvested only while another process is connected (`Unserved`). `is_dead` is
written by `Die` and read by nobody in this module; `Tracee` has it.

`Birth`, `BeginWrite` ... `trigger_uds_wakeup` are mapped to the Rust SDK; the
C++ code is the same statement for statement (`coroTracer.h:91-183`). `Station`
is mapped to the C++ SDK.

### Tracee

`job` says what a thread is doing and for which coroutine; `life` says who may
touch a coroutine. The C++ hooks are `Start`, `AwaitReady`, `await_suspend`,
`HandOff`, `await_resume` and `Return`: `await_suspend` records first, and from the
moment `HandOff` parks the coroutine any other thread may resume or destroy it.
`HandOff` has the three outcomes the inner awaiter has (it keeps the coroutine, it
returns false, it throws). The Rust hooks are `poll`, `PollPending`,
`on_pending_addr`, `on_ready` and `PollPanics`; an executor polls or drops a future
only between polls, which is what `&mut self` enforces. `Destroy` is
`~PromiseMixin` and `Drop`, at the end or as a cancellation.

`frame` is the address of the promise, which is the C++ `probe_id`; there are fewer
frames than coroutines, so addresses come back. Sizes are in KiB, because the
global header and every station take one: an `int` holds 2^31 bytes, that is
`IntStations = 2^21` KiB. The launcher attaches before the first coroutine is born
(`InitTracer` at the start of `main`, as the documents have it). A C++ `int`
overflow is undefined; the model takes the wrapped value, which is what the
supported compilers produce for this expression. Access behind the mapping is
`process = "fault"`; the kernel's rounding up to whole pages, which saves the first
three stations, is left out, so the model faults where the program may not yet.

### Launcher

A record is two chunks, so that a full buffer splits it as `bufio.Writer` does.
`Flush` is two steps, the write and the reset, because a second goroutine may
act between them. `Close` is the same sequence for main and for the signal
goroutine; log, listener and mapping are closed in steps of their own, and nothing
waits for the engine. An access to shared memory after `Munmap` (a scan, the station
header read by `WriteSafeSlot`, a store to the flag) ends the program with
`exited = "fault"`. The scan itself is reduced to "there is a next event or
not"; the flag and the wake-up byte are kept, because a flag left up outlives the
launcher. A closed listener (`Listening`) makes `Accept` fail again and again without
effect.

Faults: `Killed` (SIGKILL, power, out of memory) at any step, in the middle of a
write included (`InWrite`); a disk that fills, which makes a write short and the
writer's error sticky; a target that fails, that ignores the signal, or that goes
on when the launcher is gone. `NewTracerEngine` starts the program again on the
same paths: shared memory anew, the log file with `O_APPEND`. `parked`, `base` and `clean`
are history: whether the engine was back in `Accept` when the first `Close` of the
run began, the file at the start of the run, and whether no earlier `Close` raced with the engine goroutine (after such a race nothing is claimed of the file).
The error of `os.Remove(shmPath)`, which the code ignores, is taken not to happen. So
a target that outlives its launcher keeps a mapping that has no name any more, and is
not followed beyond the next start.

### Export

Every run of `-export` is a record of the exporter and one of its client.
Statements go from the exporter to the client in order, through a `bufio.Writer` and a
pipe that together hold `PipeCap` of them: a write waits while they are full (`Room`).
Any statement may fail, and either of the two may be killed. A killed exporter loses
what its `bufio.Writer` held, and the client reads what had got out and then end of
file. Reading the trace, writing the CSV file and closing the client's stdin may fail
at any point (`StreamBreaks`, `CloseFails`). `mysql` and `psql` (run with
`ON_ERROR_STOP`) stop at the first error, `sqlite3` (run without `-bail`) goes on,
possibly in autocommit mode.

`sqlite3` is the database. Behind `mysql` and `psql` there is a server with steps of
its own: it executes a COMMIT it has received (`ServerCommit`) whether the client still
lives or not, and it finds out in its own time that a client is gone, and then rolls
back (`ServerDrops`), with a COMMIT that was on its way if the connection lost it. So
an export can return an error, because its client died or was killed by `abort`, and
its rows can come later. In PostgreSQL `CREATE INDEX` waits for the open transactions
that have inserted into the table, those of dead clients included until the server
drops them. These behaviours of the clients and servers are external to the
repository.

`OwnOutput` is `deriveOutputPath`: it replaces the extension, so a trace whose
extension is that of the output is its own output. `CheckDatabase` and
`CreateDatabase` are two clients one after the other, with room for another export
between them. Exports into one CSV or SQLite file are taken not to overlap: the
second truncates or removes the file under the first, and nothing useful is
promised of that.

## Runs

| Run | Bounds | Shows |
|---|---|---|
| `station` | ring of 2, 5 events | `Untorn`, `LogInOrder`, `ImplementsTraceLog`, and `QuietSlotHarvested` (liveness). The ring wraps twice, so a slot can change once or twice during one copy. |
| `station_arm` (violation) | ring of 2, 3 events | On a weakly ordered machine `Untorn` fails: see findings. |
| `engine_wakeup` | 1 process, 3 coroutines, 2 stations, ring of 2, 3 events each, socket of 1 byte | `NoLostWakeup`, `SignalWakesEngine`, `DisconnectDrains`, `StationExclusive`. Two coroutines with a station are two contenders at the compare-exchange, the third has none and makes the count run past the scan's clamp; the one-byte socket makes full sockets common. |
| `engine_progress` | 1 process, 2 coroutines, ring of 1, 2 events each | `EventuallyDurable` without fairness of the deadline. |
| `engine_two` | 2 processes, one of which may fail to connect, 1 event each | `EventuallyDurable` and `DisconnectDrains` when the deadline is fair. |
| `engine_two_signal` (violation) | 2 processes | `SignalWakesEngine` fails. |
| `tracee` | 2 threads, 3 coroutines, 2 frames, 3 events per station, `-n` 1, 2, 3, 7, 8 with an `int` of 4 KiB | `OneWriter`, `NoPosthumousEvents`, `StateShown`, `RustAlternates`, `IdNamesWriter`, `IdReusedOnlyByDead`, `AttachSafe`. Three events are suspend, resume, suspend; with three coroutines one can be given the frame of a dead one beside a live one; the values of `-n` lie below the number of coroutines, at it, and on both sides of twice the `int` (7 overflows to a length that cannot be mapped, 8 wraps to a small one). |
| `launcher` | 2 runs, 2 events, buffer of 3 chunks, at most 2 chunks in the file at a restart | what the file holds in every way the program ends, also after a restart; `ParkedNeverFaults`; `InterruptExits`. Two records fill the buffer of three chunks in the middle of the second; two chunks at a restart are one record, or half of one. |
| `launcher_writer`, `launcher_tail` (violations) | 2 events | `SingleWriter` and `TraceComplete` fail. |
| `launcher_sigpipe` (violation) | 1 event, both SDKs | `FailedWakeupIgnored` fails for C++. |
| `export` | 2 runs of one kind, 5 trace files of up to 3 lines, a pipe of 2 statements | `OkMeansComplete`, `AllOrNothing`, `ImplementsAtomicLoad`, `ExportReturns`. Two runs are enough for a stale output, a repeated load, two openers of one database and a transaction that waits for another. The longest text has 4 statements, so the pipe fills before it ends. |

Deadlock is checked in the `Station` runs. The others switch it off because the
program may stop: the engine waits in `Accept` once every tracee is gone, the
coroutines are gone, the launcher exits, the last export returns.

Symmetry is used in `engine_wakeup` (coroutines of one process) and in `tracee`
(threads, coroutines). Neither has a liveness property; `NoPosthumousEvents` is an
action property in which no thread or coroutine is named.

### Fairness

- `Station`: weak fairness of `Harvest` only. The engine scans as long as a
  tracee is connected; the probe may stop between any two stores.
- `Engine`: weak fairness of each thread inside `write_trace` (the operating
  system schedules it; `Exit` ends it) and of the engine's steps. `UntimedSpec`
  gives `Timeout` none, so `engine_progress` rests on the handshake alone.
  `TimedSpec` adds it: a deadline on a blocked `Read` fires.
- `Tracee`: none; a coroutine may stay parked for ever.
- `Launcher`: weak fairness of the three goroutines. The target need not exit, and
  nothing need be killed.
- `Export`: weak fairness of every exporter, every client and every server connection.
  Nothing need fail. A client that never reads again without dying would block the
  exporter for ever: the code has no timeout, and the model rules it out. A client that waits for another's transaction is not enabled meanwhile; that the
  wait ends is part of what `ExportReturns` shows.

## Findings

1. **Torn records on weakly ordered machines** (`station_arm`). The odd store is
   a release store, which does not keep the payload stores behind it, and the
   second load of `seq` does not wait for the copies. `station.go:80` promises
   "100% from a complete, clean C++ write". A fence after the odd store and one
   before the second load would restore the order the proof assumes.
2. **One flag, several sockets** (`engine_two_signal`). With two processes the
   wake-up can go to a connection nobody reads; the 50 ms deadline repairs it.
3. **Two goroutines in the log writer** (`launcher_writer`), against the comment
   at `jsonl.go:50-51`.
4. **The last events of a successful run can be missing** (`launcher_tail`): the
   deferred `Close` does not wait for the engine's last scan.

5. **A failed wake-up is not ignored in C++** (`launcher_sigpipe`). A target that
   outlives a launcher which left the flag up is killed by SIGPIPE at its next event.
   `docs/cTP.md:107` says that "failures are directly ignored". `MSG_NOSIGNAL`, or a
   final store of 0 to the flag, would do; the Rust runtime ignores the signal.

Seen while modelling, without a run:

- The record's `seq` is per slot, not per station, so `docs/cTP.md:87`
  (`Slots[seq % 8]`) does not describe the code.
- `StationExclusive` fails once `allocated_count` has wrapped (set `CountMod` to at
  most the number of coroutines); `EventuallyDurable` needs its last disjunct when
  the only tracee failed to connect.
- `probe_id` is unique among the coroutines that are alive, not in the trace
  (`README.md:86`): C++ takes the address of the promise, which comes back
  (`IdReusedOnlyByDead`), and Rust counts from 1 in every process.
- An `await_suspend` of the inner awaiter that throws leaves a suspend as the last
  event of a running coroutine (`threw`).
- From `-n 4194304` on, the size of the C++ mapping wraps to a small one and the
  target dies at the first station behind it (`AttachSafe` without its exception);
  from `-n 2097151` on it cannot be mapped and the target runs untraced. `-n 0` makes
  the launcher index an empty slice (`engine.go:66`).
- After a run that was cut in the middle of a line, the next run's first record is on
  that line (`OneCutPerRun`), and `StreamJSONL` rejects the file as a whole.
- Exporting `x.csv` as CSV without `-csv-out` empties the trace and reports success
  (`OkMeansComplete` without its exception); the documents say `<input>.csv`.
- Of two PostgreSQL exports that both miss the database one fails
  (`CreateDatabase`). It leaves nothing behind and may be repeated.

## Proofs

Every safety property the passing runs check, the action property
`NoPosthumousEvents` and both refinements are also theorems: for any number of
processes, threads, coroutines, stations, slots, events, chunks, runs and lines,
where the runs have two or three of each. The assumptions on the constants are the
ones named `...Assumption` in the modules. Three theorem groups have a hypothesis
besides; each is needed, and a run or a configuration shows why.

| Module | Theorems (property) | Hypothesis |
|---|---|---|
| `StationProofs` | `SeqlockCorrect` (`Untorn`, with the next two), `SlotRecordsOrdered` (`LogInOrder`), `SeqlockTypes` (`TypeOK`), `StationImplementsTraceLog` | `MemoryModel = "TSO"`: false on weakly ordered machines, run `station_arm` |
| `TraceeProofs` | `SingleWriter` (`OneWriter`), `RecordsNamed` (`IdNamesWriter`), `ReusedIdsDead` (`IdReusedOnlyByDead`), `DeadStaysSilent` (`NoPosthumousEvents`), `LastEventRight` (`StateShown`), `RustEventsAlternate` (`RustAlternates`), `MappingHolds` (`AttachSafe`), `TypesKept` (`TypeOK`) | none |
| `EngineProofs` | `EngineTypes` (`TypeOK`) | none |
| | `StationsExclusive` (`StationExclusive`), `DisconnectsDrain` (`DisconnectDrains`) | `NoWrap`: fewer coroutines are born than `allocated_count` can count (2^32) |
| | `SignalsWake` (`SignalWakesEngine`) | `OneProc`: one tracee process; false with two, run `engine_two_signal` |
| | `NoWakeupLost` (`NoLostWakeup`) | both |
| `LauncherProofs` | `LogExact` (`BufferedLogExact`), `FatalLossBounded` (`FatalLosesAtMostBuffer`), `ParkedComplete` (`ParkedCloseComplete`), `CutsBounded` (`OneCutPerRun`), `ParkedSafe` (`ParkedNeverFaults`), `LauncherTypes` (`TypeOK`) | none |
| `ExportProofs` | `SuccessComplete` (`OkMeansComplete`), `TransactionsAtomic` (`AllOrNothing`), `ExportImplementsAtomicLoad` (`ImplementsAtomicLoad`), `ExportTypes` (`TypeOK`) | none |

`OneProc` is what one launch of `main.go` starts, unless the target forks. That
`Tracee` needs no `NoWrap` is because `TraceeAssumption` has it (`WordMod` above the
number of coroutines); a `-n` at which `int` arithmetic wraps is not excluded.

All proofs have one shape: an inductive invariant, initially true and kept by each
action, from which the property follows. Every invariant was checked with TLC on
the configuration of a run before it was proved.

**Station.** `Untorn` is not inductive: a record is appended from the reader's local
copies, so one has to know what those are.

- `EvenInv`, `WriterInv`: only the slot being written is odd, and it is odd before
  the first payload store (`OddStoreFirst`, where program order enters);
- `PayloadInv`: an even slot holds one whole write;
- `ReaderInv`: as long as the slot still shows `seq1`, everything copied so far
  belongs to `seq1`, and the second load comes last (`SecondReadLast`);
- `SeenInv`: log <= `lastSeen` <= shared memory, per slot, which gives the order;
- `BoundInv`: numbers grow with the events, for the refinement's finite range.

The refinement maps a slot to the last even number it held. `Publish` is `Emit`,
a passed `Validate` is `Report`, everything else stutters.

**Tracee.** `HoldInv` carries the rest: a running coroutine is in the hands of exactly
one thread, which `HandOff` and the end of a poll give up before anyone else can take
it. With distinct tickets (`TicketInv`) a station has one writer. Ids: an address is
free again only when its coroutine is gone (`IdInv`), and the header of a station is
that of the ticket's coroutine (`HeaderInv`, `EventInv`). `CtlInv` says what the last
event must be for every place at which thread and coroutine can be.

**Engine.** `SeqInv` says who may write a slot and what `Harvest` has read of it.
`FlagInv`: while the flag is armed it is up, or a byte for this `Read` is coming.
`WakeInv`: once the flag is up, an event that the second scan will no longer see has a
coroutine that has yet to look at the flag, or a byte is coming. Where this is shown is
where the store buffer and the fence matter: an event becomes visible before its
writer looks. `FinalInv` and `ClosedInv` do the same for the scan after end of file,
which begins only when its process is dead (`ServeInv`, `DeadInv`).

**Launcher.** `LogInv`: until a `Close` takes its first step, file and buffer are the
records the engine has seen, cut anywhere (lemmas about cutting a sequence in two and
joining it again). `PhaseInv` and `ParkInv`: when the target is gone and the engine
is back in `Accept` the buffer is empty for good, so neither `Close` has anything to
write, and the engine does not come back to the memory they unmap: its one connection
has been served, so `Accept` does not return. `CutInv` carries the shape of the file from run to run.

**Export.** `Text` is all that a run would write: the schema, its rows, COMMIT.
`RunInv` says of one run that what it has sent is the beginning of its text, as far
as the stream has come, and that its client's transaction holds the rows executed so
far unless a statement has failed; no other run disturbs it. COMMIT is the last of
the text, so a COMMIT finds all the rows in the transaction (`TxIsRows`), and `TxInv`
keeps them there until the server executes or drops it, whatever becomes of the client
meanwhile. A server's table has the rows of a run once its COMMIT has been executed and
none before (`ServerInv`). A CSV or SQLite file belongs to the last run that began
(`OrderInv`, `CsvInv`, `SqliteInv`). `CommitInv`: COMMIT is asked for only
when all the text before it has been executed, and a client that ends well has had the
answer. In
the refinement `Begin` is `Begin`, `CliCommit` is `Ask`, `ServerCommit` is `Load`, a
return is `Succeed` or `Fail`, and everything else stutters; `Load` after `Fail` is the
server executing a COMMIT whose client is gone.

Two definitions were changed because of the proofs. The cases of `Launcher!InWrite`
overlapped, which leaves open which one is meant (TLC takes the first); they are now a
chain. `Export!RowsOf` and `Added` were recursive filters; they are now stated with
`Picked`, by position, and TLC finds them equal to the filters on bounded inputs.

Model-checked only: liveness (`QuietSlotHarvested`, `EventuallyDurable`,
`InterruptExits`, `ExportReturns`), because the proof system does not do fairness,
and the five violations, which are counterexamples.

## Not modelled

- JSON and SQL text, escaping, time stamps and thread ids: no property depends on
  them. The parsing of the flags, and their errors, come before any state exists.
- `ExportMySQLSchemaScript` and `ExportPostgreSQLSchemaScript`, which write a constant
  text to a file and are called by nothing.
- Field offsets of the shared structures: static, and compared by static assertions
  and tests in all three languages. The sizes are in `Tracee`.
- The Lean proof (`proof/proof.lean`), which is a development of its own, and the
  Rust test tracee, which is a workload.
- The wrap of 64-bit sequence numbers, which takes centuries. `next_probe_id` is not
  wrapped either.
- Two exports into one CSV or SQLite file at the same time, see `Export`; two launchers
  on the same paths at the same time; an `os.Remove` of the old shared memory file that
  fails, and an old target after the launcher is started again; a client that hangs for
  ever without dying; a target whose coroutines are born before
  `InitTracer`.

## Plan

1. Done: `Station`, `TraceLog`, `Engine`, `Tracee`, `Launcher`, `Export`,
   `AtomicLoad`; their runs; proofs of all safety properties of the passing runs and
   of both refinements.
2. Open: `AttachSafe` and `StationExclusive` are about one module each; a theorem that
   combines them, that the stations `Engine` hands out are those `Tracee` writes, would
   close the gap between the two views of a station. What a second process changes
   in `NoLostWakeup`, as a weaker invariant that holds without `OneProc` (the engine
   sleeps on an event only until its deadline). Monotonicity as action properties: no
   step takes a record out of the log (`Station`, `Launcher`) or a committed row out of
   a server's table (`Export`).
