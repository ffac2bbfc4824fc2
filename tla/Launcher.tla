------------------------------ MODULE Launcher ------------------------------
(***************************************************************************)
(* main.go in trace mode: three goroutines and the tracee share the log    *)
(* writer, the mapping and the exit of the program.                        *)
(*                                                                         *)
(*   engine  harvests and writes records through a bufio.Writer            *)
(*   main    waits for the target, then runs the deferred tracer.Close     *)
(*   signal  on SIGINT or SIGTERM runs tracer.Close and os.Exit(0)         *)
(*                                                                         *)
(* Nothing orders the engine goroutine and a Close.  The launcher may also *)
(* be killed at any point, the disk may be full, and the program may be    *)
(* started again with the same paths: the log file is opened with O_APPEND *)
(* and so keeps what earlier runs left.  The target may outlive it.        *)
(*                                                                         *)
(* How the engine scans and is woken is Engine.tla's subject: here a scan  *)
(* finds the next event or none.  A record is two chunks, so that a full   *)
(* buffer can split it.                                                    *)
(***************************************************************************)
EXTENDS Naturals, Sequences, SequencesExt

CONSTANTS
  Sdks,        \* a subset of {"cpp", "rust"}
  MaxEvents,   \* bound on the events of the target
  BufCap,      \* chunks the bufio.Writer holds (128 KiB in the code)
  MaxRuns,     \* bound on the times coroTracer is started
  MaxBase      \* bound on the chunks in the log file when it is started again

ASSUME LauncherAssumption ==
  /\ Sdks \subseteq {"cpp", "rust"} /\ MaxEvents \in Nat
  /\ BufCap \in Nat \ {0, 1} /\ MaxRuns \in Nat \ {0} /\ MaxBase \in Nat

VARIABLES
  run,         \* which start of the program this is
  sdk,
  target,      \* running, ok (exit status 0), failed, or sigpipe
  sock,        \* the target's connection: none, open, eof, done
  tpc,         \* the probe, after an event: idle, check, wake
  mem,         \* number of complete events in shared memory
  flag, wire,  \* tracer_sleeping; a wake-up byte in the socket
  epc, phase,  \* the engine goroutine, and which of its scans it is in
  seen,        \* events harvested
  buf, file,   \* chunks in the bufio.Writer and in the log file
  werr,        \* the bufio.Writer's sticky error
  fileOpen, mapped,
  mpc, spc,    \* the main and the signal goroutine
  exited,      \* no, 0, 1, killed, or fault: touched memory after Munmap
  base,        \* history: the log file when the run began
  parked,      \* history: the engine was back in Accept when the first Close began
  clean        \* history: so it was in every earlier run that came to a Close

targetVars == <<target, sock, tpc>>
shared     == <<mem, flag, wire>>
engine     == <<epc, phase, seen>>
logVars    == <<buf, file, werr>>
fds        == <<fileOpen, mapped>>
static     == <<run, sdk, base, clean>>
vars == <<static, targetVars, shared, engine, logVars, fds, mpc, spc, exited, parked>>

Up == exited = "no"

\* The process ends: its goroutines, buffer, descriptors and mapping are gone.
Exits(code) ==
  /\ exited' = code
  /\ epc' = "gone" /\ phase' = "hot" /\ buf' = <<>> /\ wire' = FALSE
  /\ fileOpen' = FALSE /\ mapped' = FALSE
  /\ UNCHANGED <<static, targetVars, mem, flag, seen, werr, mpc, spc, parked>>

\* marshalSafeSlotJSONL, in two chunks; the records of events 1 to n.
Chunk(e, part) == [run |-> run, event |-> e, part |-> part]
Record(e) == << Chunk(e, "head"), Chunk(e, "tail") >>
Lines(n)  == [k \in 1 .. 2 * n |->
                Chunk((k + 1) \div 2, IF k % 2 = 1 THEN "head" ELSE "tail")]

(***************************************************************************)
(* The start of the program.                                               *)
(***************************************************************************)
\* What main and NewTracerEngine leave behind before the target runs.
Started ==
  /\ target' = "running" /\ sock' = "none" /\ tpc' = "idle"
  /\ flag' = 0 /\ wire' = FALSE
  /\ epc' = "accept" /\ phase' = "hot" /\ seen' = 0
  /\ buf' = <<>> /\ werr' = FALSE /\ fileOpen' = TRUE /\ mapped' = TRUE
  /\ mpc' = "run" /\ spc' = "wait" /\ exited' = "no" /\ parked' = FALSE

Init ==
  /\ run = 1 /\ sdk \in Sdks
  /\ target = "running" /\ sock = "none" /\ tpc = "idle"
  /\ mem = 0 /\ flag = 0 /\ wire = FALSE
  /\ epc = "accept" /\ phase = "hot" /\ seen = 0
  /\ buf = <<>> /\ file = <<>> /\ werr = FALSE
  /\ fileOpen = TRUE /\ mapped = TRUE
  /\ mpc = "run" /\ spc = "wait" /\ exited = "no"
  /\ base = <<>> /\ parked = FALSE /\ clean = TRUE

NoClose == mpc = "run" /\ spc = "wait"

\* coroTracer is started again.  The shared memory file is removed, which is taken
\* to succeed (the code ignores an error of os.Remove), and made afresh: a target
\* that outlived its launcher keeps the old mapping, and is not followed further.
\* The log file is opened for appending.
NewTracerEngine ==
  /\ ~Up /\ run < MaxRuns /\ Len(file) <= MaxBase
  /\ run' = run + 1 /\ UNCHANGED <<sdk, file>>
  /\ mem' = 0
  /\ base' = file /\ clean' = (clean /\ (NoClose \/ parked))
  /\ Started

(***************************************************************************)
(* The target: sh -c cmd, with the SDK inside.                             *)
(***************************************************************************)
Connect ==
  /\ Up /\ target = "running" /\ sock = "none"
  /\ sock' = "open"
  /\ UNCHANGED <<static, target, tpc, shared, engine, logVars, fds, mpc, spc,
                 exited, parked>>

\* An event becomes visible ...
Emit ==
  /\ target = "running" /\ sock = "open" /\ tpc = "idle" /\ mem < MaxEvents
  /\ mem' = mem + 1 /\ tpc' = "check"
  /\ UNCHANGED <<static, target, sock, flag, wire, engine, logVars, fds, mpc,
                 spc, exited, parked>>

\* ... its probe takes the flag down if it is up ...
CheckFlag ==
  /\ target = "running" /\ tpc = "check"
  /\ tpc' = IF flag = 1 THEN "wake" ELSE "idle"
  /\ flag' = 0
  /\ UNCHANGED <<static, target, sock, mem, wire, engine, logVars, fds, mpc, spc,
                 exited, parked>>

\* ... and sends a byte.  When the other end is gone the write fails with EPIPE,
\* and with a signal that ends a program which does not ignore it.  The Rust
\* runtime ignores it, C++ does not.
trigger_uds_wakeup ==
  /\ target = "running" /\ tpc = "wake" /\ tpc' = "idle"
  /\ wire' = (wire \/ Up)
  /\ target' = IF ~Up /\ sdk = "cpp" THEN "sigpipe" ELSE target
  /\ UNCHANGED <<static, sock, mem, flag, engine, logVars, fds, mpc, spc, exited,
                 parked>>

\* It ends by itself or by a signal; the kernel closes its socket.
TargetExit(status) ==
  /\ target = "running"
  /\ target' = status /\ tpc' = "idle"
  /\ sock' = IF sock = "open" THEN "eof" ELSE sock
  /\ UNCHANGED <<static, shared, engine, logVars, fds, mpc, spc, exited, parked>>

(***************************************************************************)
(* The bufio.Writer over the log file.                                     *)
(***************************************************************************)
\* The first n chunks of what is to be written.
Taken(chunks, n) == SubSeq(chunks, 1, n)
Rest(chunks, n)  == SubSeq(chunks, n + 1, Len(chunks))

\* Mutants: a buffer one chunk too large; the rest of a split record dropped.
Mutant_WriteLarge(e) ==
  LET all == buf \o Record(e) IN
  IF Len(all) <= BufCap + 1 THEN buf' = all /\ UNCHANGED <<file, werr>>
  ELSE file' = file \o Taken(all, BufCap) /\ buf' = Rest(all, BufCap) /\ UNCHANGED werr

Mutant_WriteSplit(e) ==
  LET all == buf \o Record(e) IN
  IF Len(all) <= BufCap THEN buf' = all /\ UNCHANGED <<file, werr>>
  ELSE file' = file \o Taken(all, BufCap) /\ buf' = <<>> /\ UNCHANGED werr

\* Write: what does not fit flushes a full buffer, in the middle of a record if
\* need be.  After an error nothing reaches the file; an error is remembered,
\* and WriteSafeSlot's caller ignores it.
WriteSafeSlot(e) ==
  LET all == buf \o Record(e) IN
  \/ werr /\ UNCHANGED logVars
  \/ ~werr /\ Len(all) <= BufCap /\ buf' = all /\ UNCHANGED <<file, werr>>
  \/ /\ ~werr /\ Len(all) > BufCap
     /\ \/ /\ fileOpen
           /\ file' = file \o Taken(all, BufCap) /\ buf' = Rest(all, BufCap)
           /\ UNCHANGED werr
        \/ \E n \in 0 .. BufCap - 1 :     \* closed, or a short write
             /\ fileOpen \/ n = 0
             /\ file' = file \o Taken(all, n) /\ buf' = Rest(Taken(all, BufCap), n)
             /\ werr' = TRUE

FlushNeeded == buf # <<>> /\ ~werr

\* Mutants: a flush starts the file afresh (no O_APPEND); a short write is tried
\* again from the start of the buffer.
Mutant_FlushWrite ==
  /\ IF fileOpen THEN file' = buf /\ UNCHANGED werr
                 ELSE werr' = TRUE /\ UNCHANGED file
  /\ UNCHANGED buf

Mutant_FlushRetry ==
  /\ \/ fileOpen /\ file' = file \o buf /\ UNCHANGED werr
     \/ \E n \in 0 .. Len(buf) - 1 : fileOpen /\ file' = file \o Taken(buf, n) \o buf /\ UNCHANGED werr
     \/ ~fileOpen /\ werr' = TRUE /\ UNCHANGED file
  /\ UNCHANGED buf

\* Flush hands the buffer to the file, then (a step later) empties it.  On a full
\* disk part of it is written; the rest stays in the buffer for good.
FlushWrite ==
  \/ fileOpen /\ file' = file \o buf /\ UNCHANGED <<buf, werr>>
  \/ \E n \in 0 .. Len(buf) :
       /\ IF fileOpen THEN n < Len(buf) ELSE n = 0
       /\ file' = file \o Taken(buf, n) /\ buf' = Rest(buf, n) /\ werr' = TRUE

FlushReset ==
  /\ buf' = IF werr THEN buf ELSE <<>>
  /\ UNCHANGED <<file, werr>>

(***************************************************************************)
(* The engine goroutine: Run and hotHarvestLoop.                           *)
(***************************************************************************)
engineOnly == <<static, target, tpc, mem, fds, mpc, spc, exited, parked>>

\* The listener is open until a Close has closed it.
Listening == {mpc, spc} \cap {"munmap", "exit"} = {}

\* Mutant: an error of Accept does not start the loop again.
Mutant_EngineAccept ==
  /\ Up /\ epc = "accept" /\ (sock \in {"open", "eof"} \/ ~Listening)
  /\ epc' = "scan" /\ phase' = "hot"
  /\ UNCHANGED <<engineOnly, sock, flag, wire, seen, logVars>>

\* A closed listener makes Accept fail and the loop try again: no step.
EngineAccept ==
  /\ Up /\ epc = "accept" /\ sock \in {"open", "eof"} /\ Listening
  /\ epc' = "scan" /\ phase' = "hot"
  /\ UNCHANGED <<engineOnly, sock, flag, wire, seen, logVars>>

\* Mutant: the last scan is not followed by a flush.
Mutant_AfterScan ==
  CASE phase = "recheck" -> "read"
    [] phase = "found"   -> "lower"
    [] phase = "final"   -> "flushed"
    [] OTHER             -> IF FlushNeeded THEN "flush" ELSE "flushed"

\* What follows a scan that has come to its end.
AfterScan ==
  CASE phase = "recheck" -> "read"
    [] phase = "found"   -> "lower"
    [] OTHER             -> IF FlushNeeded THEN "flush" ELSE "flushed"

\* doScan finds the next event, or comes to its end.
EngineScan ==
  /\ Up /\ epc = "scan" /\ mapped
  /\ epc' = IF seen < mem THEN "write" ELSE AfterScan
  /\ UNCHANGED <<engineOnly, sock, flag, wire, phase, seen, logVars>>

\* WriteSafeSlot also reads the station's header, in the mapping.
EngineWrite ==
  /\ Up /\ epc = "write" /\ mapped
  /\ WriteSafeSlot(seen + 1)
  /\ seen' = seen + 1
  /\ epc' = "scan" /\ phase' = IF phase = "recheck" THEN "found" ELSE phase
  /\ UNCHANGED <<engineOnly, sock, flag, wire>>

EngineFlush ==
  /\ Up /\ epc = "flush"
  /\ FlushWrite
  /\ epc' = "reset"
  /\ UNCHANGED <<engineOnly, sock, flag, wire, phase, seen>>

EngineReset ==
  /\ Up /\ epc = "reset"
  /\ FlushReset
  /\ epc' = "flushed"
  /\ UNCHANGED <<engineOnly, sock, flag, wire, phase, seen>>

\* After the last flush, back to Accept.
EngineDone ==
  /\ Up /\ epc = "flushed" /\ phase = "final"
  /\ epc' = "accept" /\ sock' = "done"
  /\ UNCHANGED <<engineOnly, flag, wire, phase, seen, logVars>>

\* After any other, raise the flag and scan once more.
EngineArm ==
  /\ Up /\ epc = "flushed" /\ phase # "final" /\ mapped
  /\ flag' = 1 /\ epc' = "scan" /\ phase' = "recheck"
  /\ UNCHANGED <<engineOnly, sock, wire, seen, logVars>>

\* Read returns a byte, the deadline passes, or end of file.
EngineRead ==
  /\ Up /\ epc = "read"
  /\ \/ wire /\ wire' = FALSE /\ epc' = "lower" /\ UNCHANGED phase
     \/ epc' = "scan" /\ phase' = "hot" /\ UNCHANGED wire
     \/ ~wire /\ sock = "eof" /\ epc' = "scan" /\ phase' = "final" /\ UNCHANGED wire
  /\ UNCHANGED <<engineOnly, sock, flag, seen, logVars>>

EngineLower ==
  /\ Up /\ epc = "lower" /\ mapped
  /\ flag' = 0 /\ epc' = "scan" /\ phase' = "hot"
  /\ UNCHANGED <<engineOnly, sock, wire, seen, logVars>>

\* After Munmap any of these accesses to shared memory is a fault.
EngineFault ==
  /\ Up /\ ~mapped
  /\ epc \in {"scan", "write", "lower"} \/ (epc = "flushed" /\ phase # "final")
  /\ Exits("fault") /\ UNCHANGED file

EngineStep ==
  \/ EngineAccept \/ EngineScan \/ EngineWrite \/ EngineFlush \/ EngineReset
  \/ EngineDone \/ EngineArm \/ EngineRead \/ EngineLower \/ EngineFault

(***************************************************************************)
(* tracer.Close, run by the main goroutine and by the signal goroutine.    *)
(* Its steps: flush, reset, fclose (the log), lclose (the listener),       *)
(* munmap.                                                                 *)
(***************************************************************************)
NoCloseBegun == mpc \in {"run", "close"} /\ spc \in {"wait", "close"}

CloseStep(pc, pcNext) ==
  \/ /\ pc = "close"
     /\ parked' = IF NoCloseBegun THEN epc = "accept" /\ sock = "done" ELSE parked
     /\ pcNext = IF FlushNeeded THEN "flush" ELSE "fclose"
     /\ UNCHANGED <<logVars, fds>>
  \/ /\ pc = "flush" /\ FlushWrite /\ pcNext = "reset"
     /\ UNCHANGED <<fds, parked>>
  \/ /\ pc = "reset" /\ FlushReset /\ pcNext = "fclose"
     /\ UNCHANGED <<fds, parked>>
  \/ /\ pc = "fclose" /\ fileOpen' = FALSE /\ pcNext = "lclose"
     /\ UNCHANGED <<logVars, mapped, parked>>
  \/ /\ pc = "lclose" /\ pcNext = "munmap"
     /\ UNCHANGED <<logVars, fds, parked>>
  \/ /\ pc = "munmap" /\ mapped' = FALSE /\ pcNext = "exit"
     /\ UNCHANGED <<logVars, fileOpen, parked>>

outside == <<static, targetVars, shared, engine>>

\* cmd.Run returns: log.Fatalf skips the deferred Close, success runs it.
MainRunReturns ==
  /\ Up /\ mpc = "run" /\ target # "running"
  /\ \/ /\ target = "ok" /\ mpc' = "close"
        /\ UNCHANGED <<outside, logVars, fds, spc, exited, parked>>
     \/ target = "failed" /\ Exits("1") /\ UNCHANGED file

MainClose ==
  /\ Up /\ CloseStep(mpc, mpc')
  /\ UNCHANGED <<outside, spc, exited>>

MainExit == Up /\ mpc = "exit" /\ Exits("0") /\ UNCHANGED file

\* The signal arrives and is passed on to the target, which may ignore it.
Interrupt ==
  /\ Up /\ spc = "wait"
  /\ spc' = "close"
  /\ UNCHANGED <<outside, logVars, fds, mpc, exited, parked>>

SignalClose ==
  /\ Up /\ CloseStep(spc, spc')
  /\ UNCHANGED <<outside, mpc, exited>>

\* Mutant: the signal goroutine leaves the exit to the main goroutine.
Mutant_SignalExit == Up /\ spc = "exit" /\ mpc = "exit" /\ Exits("0") /\ UNCHANGED file

SignalExit == Up /\ spc = "exit" /\ Exits("0") /\ UNCHANGED file

\* What a goroutine may be handing to the file at this moment.
InWrite ==
  IF werr \/ ~fileOpen THEN <<>>
  ELSE IF "flush" \in {epc, mpc, spc} THEN buf
  ELSE IF epc = "write" /\ Len(buf) + 2 > BufCap THEN Taken(buf \o Record(seen + 1), BufCap)
  ELSE <<>>

\* The launcher is killed, possibly in the middle of a write.
Killed ==
  /\ Up /\ Exits("killed")
  /\ \E n \in 0 .. Len(InWrite) : file' = file \o Taken(InWrite, n)

MainStep   == MainRunReturns \/ MainClose \/ MainExit
SignalStep == SignalClose \/ SignalExit

Next ==
  \/ NewTracerEngine \/ Killed
  \/ Connect \/ Emit \/ CheckFlag \/ trigger_uds_wakeup
  \/ \E status \in {"ok", "failed"} : TargetExit(status)
  \/ EngineStep \/ MainStep \/ Interrupt \/ SignalStep

\* The Go scheduler runs every goroutine that can run.  The target need not
\* exit, and no signal need arrive.
Spec == Init /\ [][Next]_vars
          /\ WF_vars(EngineStep) /\ WF_vars(MainStep) /\ WF_vars(SignalStep)

-----------------------------------------------------------------------------
\* Every variable keeps its type.
TypeOK ==
  /\ run \in 1 .. MaxRuns /\ sdk \in Sdks
  /\ target \in {"running", "ok", "failed", "sigpipe"}
  /\ sock \in {"none", "open", "eof", "done"} /\ tpc \in {"idle", "check", "wake"}
  /\ mem \in 0 .. MaxEvents /\ seen \in 0 .. mem /\ flag \in {0, 1}
  /\ epc \in {"accept", "scan", "write", "flush", "reset", "flushed", "read", "lower", "gone"}
  /\ phase \in {"hot", "recheck", "found", "final"}
  /\ {wire, werr, fileOpen, mapped, parked, clean} \subseteq BOOLEAN
  /\ Len(buf) <= BufCap
  /\ mpc \in {"run", "close", "flush", "reset", "fclose", "lclose", "munmap", "exit"}
  /\ spc \in {"wait", "close", "flush", "reset", "fclose", "lclose", "munmap", "exit"}
  /\ exited \in {"no", "0", "1", "killed", "fault"}

\* Until a Close begins, the file is what it was when the run began and, after
\* that, a prefix of the target's records, in order; and unless the disk was full,
\* the file followed by the buffer is exactly the records harvested, however the
\* buffer's edge splits them (between the halves of a Flush, the file alone).
BufferedLogExact ==
  NoClose =>
    /\ IsPrefix(base, file) /\ IsPrefix(file, base \o Lines(mem))
    /\ Up /\ ~werr => base \o Lines(seen) = IF epc = "reset" THEN file ELSE file \o buf

\* main.go:122-124: a failing target, or a kill, ends the program without Close.
\* With the disk not full, what is lost of the harvested records fits in the buffer.
FatalLosesAtMostBuffer ==
  exited \in {"1", "killed"} /\ NoClose /\ ~werr =>
    Len(base \o Lines(seen)) <= Len(file) + BufCap

\* engine.go:149-152: if the engine had served the end of the target's connection
\* before the first Close began, the file is complete, even when the main and the
\* signal goroutine close the tracer at the same time and the program is killed.
ParkedCloseComplete ==
  parked /\ ~werr => file = base \o Lines(mem)

\* A line that was cut off, by a kill, a failing target or a full disk, is the last
\* of its run, so the file has at most one damaged record per run.  (O_APPEND,
\* jsonl.go:60, puts the next run's first record on the same line.)
OneCutPerRun ==
  clean /\ (NoClose \/ parked) =>
    \A i \in DOMAIN file :
      LET c == file[i] IN
      IF c.part = "tail" THEN i > 1 /\ file[i - 1] = [c EXCEPT !.part = "head"]
      ELSE (\E j \in i + 1 .. Len(file) : file[j].run = c.run)
             => file[i + 1] = [c EXCEPT !.part = "tail"]

\* engine.go:172-174: Close unmaps the memory without waiting for the engine.  If the
\* engine had served the end of the connection before the first Close began, nothing
\* that happens until the program ends brings it back to the memory: not a second
\* Close, nor the closed listener.
ParkedNeverFaults == parked => exited # "fault"

\* main.go:107: after an interrupt the program ends, whatever the target does.
InterruptExits == spc = "close" ~> exited # "no"

\* README.md:200: tracing a target writes its trace into the file.  So when the
\* target has finished successfully and coroTracer has too, no event is missing.
TraceComplete ==
  exited = "0" /\ target = "ok" /\ spc = "wait" /\ ~werr =>
    file = base \o Lines(mem)

\* jsonl.go:50-51: only one goroutine operates the writer.
SingleWriter ==
  LET inside == {"write", "flush", "reset"} IN
  /\ epc \in inside => mpc \notin inside /\ spc \notin inside
  /\ mpc \in inside => spc \notin inside

\* docs/cTP.md:107: a wake-up that cannot be sent is ignored, so the tracer going
\* away does nothing to the target.
FailedWakeupIgnored == target # "sigpipe"
=============================================================================
