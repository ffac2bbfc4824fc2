---------------------------- MODULE TraceeProofs ----------------------------
(***************************************************************************)
(* The safety properties of Tracee, proved for every number of threads,    *)
(* coroutines, frames and stations, every -n, and both SDKs.               *)
(*                                                                         *)
(* IInv, at the end, is the inductive invariant.  Its parts, in the order  *)
(* in which each is shown to be kept with the help of those before it:     *)
(*   TypeInv    types                                                      *)
(*   HoldInv    a running coroutine is held by exactly one thread          *)
(*   TicketInv  no two coroutines have one ticket                          *)
(*   AttachInv  stations lie in the mapping until its size wraps round     *)
(*   IdInv      an id is reused only after its coroutine is gone           *)
(*   HeaderInv  probe_id and is_dead are those of the ticket's coroutine   *)
(*   EventInv   events lie in the station of their coroutine               *)
(*   CtlInv     the last event agrees with the place of thread and         *)
(*              coroutine in the SDK's code                                *)
(***************************************************************************)
EXTENDS Tracee, FiniteSetTheorems, SequenceTheorems, TLAPS

\* What a thread is at, and whether a coroutine exists.
Working(t) == job[t].pc # "idle"
InWrite(t) == job[t].pc \in {"write", "writing"}
Born(c)    == life[c] # "unborn"

\* What job[t] can be; a record that is written is followed by one of three steps.
Jobs ==
  {Idle} \cup [pc : {"init", "run", "handoff", "pend"}, co : Coros]
    \cup [pc : {"write", "writing"}, co : Coros, is_active : BOOLEAN,
          then : {"run", "handoff", "pend"}]

\* The lives of a coroutine.
Lives == {"unborn", "created", "running", "parked", "returned", "gone"}

\* Types, in the detail the proofs need: TypeOK follows.
TypeInv ==
  /\ sdk \in {"cpp", "rust"} /\ n \in Nat
  /\ process \in {"starting", "traced", "untraced", "fault"} /\ mapLen \in Nat
  /\ allocated_count \in 0 .. WordMod - 1 /\ next_probe_id \in Nat
  /\ probe_id \in [Stations -> Nat] /\ is_dead \in [Stations -> BOOLEAN]
  /\ trace \in [Stations -> Seq([by : Coros, is_active : BOOLEAN])]
  /\ life \in [Coros -> Lives]
  /\ frame \in [Coros -> Nat] /\ id \in [Coros -> Nat]
  /\ idx \in [Coros -> 0 .. NoTicket]
  /\ pending \in [Coros -> BOOLEAN] /\ threw \in [Coros -> BOOLEAN]
  /\ job \in [Threads -> Jobs]

\* The coroutines that exist or have existed.
BornSet == {c \in Coros : Born(c)}

\* Tickets are drawn once and in order, and every ticket before allocated_count that a
\* coroutine has is its own.  The count of the coroutines keeps it from wrapping.
TicketInv ==
  /\ next_probe_id = Cardinality(BornSet) + 1
  /\ allocated_count < next_probe_id
  /\ \A c \in Coros : ~Born(c) => idx[c] = NoTicket
  /\ \A c \in Coros : idx[c] # NoTicket => idx[c] < allocated_count
  /\ \A c, d \in Coros : idx[c] = idx[d] /\ idx[c] # NoTicket => c = d

\* The constants, as the proofs use them.
LEMMA Constants == 
  /\ Cardinality(Coros) \in Nat /\ IsFiniteSet(Coros) /\ WordMod \in Nat
  /\ Cardinality(Coros) < WordMod /\ WordMod > 0 /\ IntStations \in Nat \ {0}
BY TraceeAssumption, FS_CardinalityType

\* The fields of a job.
LEMMA JobFields ==
  ASSUME NEW j \in Jobs
  PROVE  /\ j.pc \in {"idle", "init", "run", "handoff", "pend", "write", "writing"}
         /\ j.pc = "idle" <=> j = Idle
         /\ j.pc # "idle" => j.co \in Coros
         /\ j.pc \in {"write", "writing"} =>
              /\ j \in [pc : {"write", "writing"}, co : Coros, is_active : BOOLEAN,
                        then : {"run", "handoff", "pend"}]
              /\ j.is_active \in BOOLEAN /\ j.then \in {"run", "handoff", "pend"}
BY DEF Jobs, Idle

\* Arithmetic of the widths.
LEMMA ModBounds ==
  ASSUME NEW m \in Nat \ {0}, NEW a \in Nat
  PROVE  a % m \in 0 .. m - 1 /\ a % m <= a
OBVIOUS

\* A value that fits is not changed by the width.
LEMMA ModSmall ==
  ASSUME NEW m \in Nat \ {0}, NEW a \in 0 .. m - 1
  PROVE  a % m = a
OBVIOUS

\* uint32(n) is at most n.
LEMMA MaxStations == TypeInv => max_stations \in 0 .. WordMod - 1 /\ max_stations <= n
<1> SUFFICES ASSUME TypeInv PROVE max_stations \in 0 .. WordMod - 1 /\ max_stations <= n
  OBVIOUS
<1>1. WordMod \in Nat \ {0} /\ n \in Nat
  BY Constants DEF TypeInv
<1> QED
  BY <1>1, ModBounds DEF max_stations

\* There are at most as many tickets as coroutines.
LEMMA BornCount == IsFiniteSet(BornSet) /\ Cardinality(BornSet) \in 0 .. Cardinality(Coros)
<1>1. BornSet \in SUBSET Coros
  BY DEF BornSet
<1> QED
  BY <1>1, Constants, FS_Subset, FS_CardinalityType

\* Creating a coroutine adds one.
LEMMA OneMore ==
  ASSUME TypeInv, NEW c \in Coros, ~Born(c), Live(c, "running")
  PROVE  /\ Cardinality(BornSet') = Cardinality(BornSet) + 1
         /\ Cardinality(BornSet) < Cardinality(Coros)
<1>1. BornSet' = BornSet \cup {c} /\ c \notin BornSet
  BY DEF BornSet, Born, Live, TypeInv
<1>2. Cardinality(BornSet') = Cardinality(BornSet) + 1
  BY <1>1, BornCount, FS_AddElement
<1>3. BornSet' \in SUBSET Coros
  BY DEF BornSet
<1>4. Cardinality(BornSet') <= Cardinality(Coros)
  BY <1>3, Constants, FS_Subset
<1> QED
  BY <1>2, <1>4, BornCount, Constants

\* A ticket below max_stations is a station, and its coroutine exists.
LEMMA InStations ==
  ASSUME TypeInv, TicketInv, NEW c \in Coros, HasStation(c)
  PROVE  idx[c] \in Stations /\ idx[c] # NoTicket /\ Born(c)
<1>1. idx[c] \in Nat /\ idx[c] < WordMod /\ idx[c] # NoTicket
  <2>1. max_stations \in 0 .. WordMod - 1 /\ idx[c] \in 0 .. WordMod /\ WordMod \in Nat
    BY MaxStations, Constants DEF TypeInv, NoTicket
  <2>2. idx[c] < max_stations
    BY DEF HasStation
  <2> QED
    BY <2>1, <2>2 DEF NoTicket
<1>2. idx[c] < Cardinality(Coros)
  BY <1>1, BornCount, Constants DEF TypeInv, TicketInv
<1> QED
  BY <1>1, <1>2, Constants DEF TicketInv, Stations

\* An event added to one station.
LEMMA TraceAppend ==
  ASSUME TypeInv, NEW s, NEW e \in [by : Coros, is_active : BOOLEAN],
         trace' = [trace EXCEPT ![s] = Append(@, e)]
  PROVE  /\ trace' \in [Stations -> Seq([by : Coros, is_active : BOOLEAN])]
         /\ \A r \in Stations : trace'[r] = IF r = s THEN Append(trace[r], e) ELSE trace[r]
<1> DEFINE Event == [by : Coros, is_active : BOOLEAN]
<1>1. e \in Event /\ trace \in [Stations -> Seq(Event)]
  BY DEF TypeInv
<1> HIDE DEF Event
<1>2. \A r \in Stations : Append(trace[r], e) \in Seq(Event)
  BY <1>1
<1>3. trace' \in [Stations -> Seq(Event)]
  BY <1>1, <1>2
<1> QED
  BY <1>1, <1>3 DEF Event

\* The job of a thread that calls write_trace.
LEMMA RecordJob ==
  ASSUME TypeInv, NEW t \in Threads, NEW c \in Coros, NEW a \in BOOLEAN,
         NEW then \in {"run", "handoff", "pend"}, Record(t, c, a, then)
  PROVE  /\ job' \in [Threads -> Jobs]
         /\ \A u \in Threads \ {t} : job'[u] = job[u]
         /\ job'[t].co = c
         /\ IF HasStation(c)
            THEN job'[t].pc = "write" /\ job'[t].is_active = a /\ job'[t].then = then
            ELSE job'[t].pc = then
BY DEF Record, TypeInv, Jobs

\* The job of a thread that goes on without a record.
LEMMA GoJob ==
  ASSUME TypeInv, NEW t \in Threads, NEW c \in Coros,
         NEW pc \in {"init", "run", "handoff", "pend"}, Go(t, pc, c)
  PROVE  /\ job' \in [Threads -> Jobs]
         /\ \A u \in Threads \ {t} : job'[u] = job[u]
         /\ job'[t].co = c /\ job'[t].pc = pc
BY DEF Go, TypeInv, Jobs

\* The job of a thread that lets go of its coroutine.
LEMMA LeaveJob ==
  ASSUME TypeInv, NEW t \in Threads, Leave(t)
  PROVE  /\ job' \in [Threads -> Jobs]
         /\ \A u \in Threads \ {t} : job'[u] = job[u]
         /\ job'[t].pc = "idle"
BY DEF Leave, TypeInv, Jobs, Idle

\* The odd store changes nothing but the thread's place.
LEMMA BeginWriteJob ==
  ASSUME TypeInv, NEW t \in Threads, BeginWrite(t)
  PROVE  /\ job' \in [Threads -> Jobs]
         /\ \A u \in Threads \ {t} : job'[u] = job[u]
         /\ job[t].pc = "write" /\ job'[t].pc = "writing" /\ job'[t].co = job[t].co
         /\ job'[t].is_active = job[t].is_active /\ job'[t].then = job[t].then
<1>1. job[t] \in [pc : {"write", "writing"}, co : Coros, is_active : BOOLEAN,
                  then : {"run", "handoff", "pend"}] /\ job[t].pc = "write"
  BY JobFields DEF BeginWrite, At, TypeInv
<1>2. job' = [job EXCEPT ![t] = [job[t] EXCEPT !.pc = "writing"]]
  BY DEF BeginWrite
<1>3. [job[t] EXCEPT !.pc = "writing"] \in
         [pc : {"write", "writing"}, co : Coros, is_active : BOOLEAN,
          then : {"run", "handoff", "pend"}]
  BY <1>1
<1> QED
  BY <1>1, <1>2, <1>3 DEF TypeInv, Jobs

\* Types hold at the start.
LEMMA InitTypeInv == Init => TypeInv
BY Constants, TraceeAssumption DEF Init, TypeInv, Jobs, Lives, Idle, NoTicket

\* Every step keeps the types.
LEMMA NextTypeInv == TypeInv /\ TicketInv /\ [Next]_vars => TypeInv'
<1> SUFFICES ASSUME TypeInv, TicketInv, [Next]_vars PROVE TypeInv'
  OBVIOUS
<1> USE DEF TypeInv, static, shared, coro, inCoro, Lives
<1>1. CASE Attach
  <2>1. mem_size \in Int
    <3>1. IntStations \in Nat \ {0} /\ n + 1 \in Nat
      BY Constants
    <3> QED
      BY <3>1 DEF mem_size, WrapInt
  <2>2. mapLen' \in Nat
    BY <1>1, <2>1 DEF Attach
  <2> QED
    BY <1>1, <2>2 DEF Attach
<1>2. CASE AttachFails
  BY <1>2 DEF AttachFails
<1>3. ASSUME NEW t \in Threads, InitHeader(t) PROVE TypeInv'
  <2>1. job[t].co \in Coros
    BY <1>3, JobFields DEF InitHeader, At
  <2>2. job' \in [Threads -> Jobs]
    BY <1>3, LeaveJob DEF InitHeader
  <2>3. probe_id' \in [Stations -> Nat] /\ is_dead' \in [Stations -> BOOLEAN]
    BY <1>3, <2>1 DEF InitHeader, Co
  <2>4. life' \in [Coros -> Lives]
    BY <1>3, <2>1 DEF InitHeader, Co, Live
  <2> QED
    BY <1>3, <2>2, <2>3, <2>4 DEF InitHeader
<1>4. ASSUME NEW t \in Threads, BeginWrite(t) PROVE TypeInv'
  BY <1>4, BeginWriteJob DEF BeginWrite
<1>5. ASSUME NEW t \in Threads, EndWrite(t) PROVE TypeInv'
  <2>1. job[t].co \in Coros /\ job[t].is_active \in BOOLEAN
          /\ job[t].then \in {"run", "handoff", "pend"}
    BY <1>5, JobFields DEF EndWrite, At
  <2>2. trace' \in [Stations -> Seq([by : Coros, is_active : BOOLEAN])]
    <3>1. [by |-> job[t].co, is_active |-> job[t].is_active] \in [by : Coros, is_active : BOOLEAN]
      BY <2>1
    <3>2. trace' = [trace EXCEPT ![idx[job[t].co]] =
                      Append(@, [by |-> job[t].co, is_active |-> job[t].is_active])]
      BY <1>5 DEF EndWrite, Co
    <3> QED
      BY <3>1, <3>2, TraceAppend
  <2>3. job' \in [Threads -> Jobs]
    BY <1>5, <2>1, GoJob DEF EndWrite, Co
  <2> QED
    BY <1>5, <2>1, <2>2, <2>3 DEF EndWrite, Co
<1>6. ASSUME NEW t \in Threads, AwaitReady(t) PROVE TypeInv'
  BY <1>6, JobFields, RecordJob DEF AwaitReady, At, Co
<1>7. ASSUME NEW t \in Threads, await_suspend(t) PROVE TypeInv'
  BY <1>7, JobFields, RecordJob DEF await_suspend, At, Co
<1>8. ASSUME NEW t \in Threads, HandOff(t) PROVE TypeInv'
  <2>1. job[t].co \in Coros
    BY <1>8, JobFields DEF HandOff, At
  <2>2. job' \in [Threads -> Jobs]
    BY <1>8, <2>1, LeaveJob, RecordJob, GoJob DEF HandOff, Co
  <2>3. HasStation(job[t].co) \in BOOLEAN
    BY DEF HasStation
  <2>4. threw' \in [Coros -> BOOLEAN] /\ life' \in [Coros -> Lives]
    BY <1>8, <2>1, <2>3 DEF HandOff, Co, Live
  <2> QED
    BY <1>8, <2>2, <2>4 DEF HandOff
<1>9. ASSUME NEW t \in Threads, Return(t) PROVE TypeInv'
  BY <1>9, JobFields, LeaveJob DEF Return, At, Co, Live
<1>10. ASSUME NEW t \in Threads, PollPending(t) PROVE TypeInv'
  BY <1>10, JobFields, RecordJob DEF PollPending, At, Co
<1>11. ASSUME NEW t \in Threads, on_pending_addr(t) PROVE TypeInv'
  BY <1>11, JobFields, LeaveJob DEF on_pending_addr, At, Co, Live
<1>12. ASSUME NEW t \in Threads, on_ready(t) PROVE TypeInv'
  BY <1>12, JobFields, LeaveJob, InStations DEF on_ready, Bury, At, Co, Live
<1>13. ASSUME NEW t \in Threads, PollPanics(t) PROVE TypeInv'
  BY <1>13, JobFields, LeaveJob DEF PollPanics, At, Co, Live
<1>14. ASSUME NEW t \in Threads, NEW c \in Coros, NewCoroutine(t, c) PROVE TypeInv'
  <2>1. job' \in [Threads -> Jobs]
    BY <1>14, GoJob DEF NewCoroutine
  <2>2. allocated_count' \in 0 .. WordMod - 1 /\ idx' \in [Coros -> 0 .. NoTicket]
    <3>1. WordMod \in Nat \ {0} /\ allocated_count + 1 \in Nat
      BY Constants
    <3>2. (allocated_count + 1) % WordMod \in 0 .. WordMod - 1
      BY <3>1, ModBounds
    <3>3. allocated_count \in 0 .. WordMod
      BY <3>1
    <3> QED
      BY <1>14, <3>2, <3>3 DEF NewCoroutine, NoTicket
  <2>3. frame' \in [Coros -> Nat] /\ id' \in [Coros -> Nat]
    <3>1. PICK f \in Frames : /\ frame' = [frame EXCEPT ![c] = f]
                              /\ id' = [id EXCEPT ![c] = IF sdk = "cpp" THEN f ELSE next_probe_id]
      BY <1>14 DEF NewCoroutine, FreeFrames
    <3>2. f \in Nat
      BY TraceeAssumption
    <3> QED
      BY <3>1, <3>2
  <2> QED
    BY <1>14, <2>1, <2>2, <2>3 DEF NewCoroutine, Live
<1>15. ASSUME NEW t \in Threads, NEW c \in Coros, Start(t, c) PROVE TypeInv'
  BY <1>15, GoJob DEF Start, Live
<1>16. ASSUME NEW t \in Threads, NEW c \in Coros, await_resume(t, c) PROVE TypeInv'
  BY <1>16, RecordJob DEF await_resume, Live
<1>17. ASSUME NEW t \in Threads, NEW c \in Coros, poll(t, c) PROVE TypeInv'
  BY <1>17, RecordJob, GoJob DEF poll, Live
<1>18. ASSUME NEW t \in Threads, NEW c \in Coros, Destroy(t, c) PROVE TypeInv'
  BY <1>18, InStations DEF Destroy, Bury, Live
<1>19. CASE UNCHANGED vars
  BY <1>19 DEF vars
<1> QED
  BY <1>1, <1>2, <1>3, <1>4, <1>5, <1>6, <1>7, <1>8, <1>9, <1>10, <1>11, <1>12,
     <1>13, <1>14, <1>15, <1>16, <1>17, <1>18, <1>19 DEF Next

\* A running coroutine is in the hands of exactly one thread.
HoldInv ==
  /\ \A t \in Threads : Working(t) => life[Co(t)] = "running"
  /\ \A t, u \in Threads : Working(t) /\ Working(u) /\ Co(t) = Co(u) => t = u
  /\ \A c \in Coros : life[c] = "running" => \E t \in Threads : Working(t) /\ Co(t) = c

\* A thread that goes on with the coroutine it holds, or takes up one that nobody
\* holds.
LEMMA HoldOn ==
  ASSUME TypeInv, HoldInv, NEW t \in Threads, NEW c \in Coros,
         job' \in [Threads -> Jobs], \A u \in Threads \ {t} : job'[u] = job[u],
         job'[t].pc # "idle", job'[t].co = c,
         \/ Working(t) /\ Co(t) = c /\ life' = life
         \/ ~Working(t) /\ life[c] # "running" /\ life' = [life EXCEPT ![c] = "running"]
  PROVE  HoldInv'
<1> USE DEF Working, Co
<1>1. life \in [Coros -> Lives] /\ \A u \in Threads : Working(u) => Co(u) \in Coros
  BY JobFields DEF TypeInv
<1>2. \A u \in Threads : Working(u)' => life[Co(u)]' = "running"
  BY <1>1 DEF HoldInv
<1>3. \A u, v \in Threads : Working(u)' /\ Working(v)' /\ Co(u)' = Co(v)' => u = v
  BY <1>1 DEF HoldInv
<1>4. \A d \in Coros : life'[d] = "running" => \E u \in Threads : Working(u)' /\ Co(u)' = d
  BY <1>1 DEF HoldInv
<1> QED
  BY <1>2, <1>3, <1>4 DEF HoldInv

\* A thread that lets go of the coroutine it holds.
LEMMA LetGo ==
  ASSUME TypeInv, HoldInv, NEW t \in Threads, NEW c \in Coros, NEW v \in Lives \ {"running"},
         job' \in [Threads -> Jobs], \A u \in Threads \ {t} : job'[u] = job[u],
         job'[t].pc = "idle", Working(t), Co(t) = c, life' = [life EXCEPT ![c] = v]
  PROVE  HoldInv'
<1> USE DEF Working, Co
<1>1. life \in [Coros -> Lives] /\ \A u \in Threads : Working(u) => Co(u) \in Coros
  BY JobFields DEF TypeInv
<1>2. \A u \in Threads : Working(u)' => life[Co(u)]' = "running"
  BY <1>1 DEF HoldInv
<1>3. \A u, w \in Threads : Working(u)' /\ Working(w)' /\ Co(u)' = Co(w)' => u = w
  BY <1>1 DEF HoldInv
<1>4. \A d \in Coros : life'[d] = "running" => \E u \in Threads : Working(u)' /\ Co(u)' = d
  BY <1>1 DEF HoldInv
<1> QED
  BY <1>2, <1>3, <1>4 DEF HoldInv

\* Nothing runs at the start.
LEMMA InitHoldInv == Init => HoldInv
BY DEF Init, HoldInv, Working, Idle

\* Every step keeps one thread per running coroutine.
LEMMA NextHoldInv == TypeInv /\ HoldInv /\ [Next]_vars => HoldInv'
<1> SUFFICES ASSUME TypeInv, HoldInv, [Next]_vars PROVE HoldInv'
  OBVIOUS
<1> USE DEF coro, inCoro
<1>1. CASE Attach \/ AttachFails \/ UNCHANGED vars
  BY <1>1 DEF Attach, AttachFails, vars, HoldInv, Working, Co
<1>0. ASSUME NEW t \in Threads, Free(t) PROVE ~Working(t)
  BY <1>0 DEF Free, Idle, Working
<1>2. ASSUME NEW t \in Threads, Working(t) PROVE Co(t) \in Coros
  BY <1>2, JobFields DEF TypeInv, Working, Co
<1>3. ASSUME NEW t \in Threads, InitHeader(t) PROVE HoldInv'
  <2>1. Working(t) /\ Co(t) \in Coros
    BY <1>2, <1>3 DEF InitHeader, At, Working
  <2>2. CASE Leave(t) /\ Live(Co(t), "created")
    BY <2>1, <2>2, LeaveJob, LetGo DEF Live, Lives
  <2>3. CASE UNCHANGED <<life, job>>
    BY <2>3 DEF HoldInv, Working, Co
  <2> QED
    BY <1>3, <2>2, <2>3 DEF InitHeader
<1>4. ASSUME NEW t \in Threads, BeginWrite(t) PROVE HoldInv'
  BY <1>2, <1>4, BeginWriteJob, HoldOn DEF BeginWrite, Working, Co
<1>5. ASSUME NEW t \in Threads, EndWrite(t) PROVE HoldInv'
  <2>1. Working(t) /\ Co(t) \in Coros /\ job[t].then \in {"run", "handoff", "pend"}
    BY <1>2, <1>5, JobFields DEF EndWrite, At, Working, TypeInv
  <2>2. Go(t, job[t].then, Co(t)) /\ life' = life
    BY <1>5, <2>1 DEF EndWrite
  <2> QED
    BY <2>1, <2>2, GoJob, HoldOn
<1>6. ASSUME NEW t \in Threads, AwaitReady(t) PROVE HoldInv'
  BY <1>2, <1>6, RecordJob, HoldOn DEF AwaitReady, At, Working
<1>7. ASSUME NEW t \in Threads, await_suspend(t) PROVE HoldInv'
  BY <1>2, <1>7, RecordJob, HoldOn DEF await_suspend, At, Working
<1>8. ASSUME NEW t \in Threads, HandOff(t) PROVE HoldInv'
  <2>1. Working(t) /\ Co(t) \in Coros
    BY <1>2, <1>8 DEF HandOff, At, Working
  <2>2. CASE Live(Co(t), "parked") /\ Leave(t)
    BY <2>1, <2>2, LeaveJob, LetGo DEF Live, Lives
  <2>3. CASE Record(t, Co(t), TRUE, "run") /\ life' = life
    BY <2>1, <2>3, RecordJob, HoldOn
  <2>4. CASE Go(t, "run", Co(t)) /\ life' = life
    BY <2>1, <2>4, GoJob, HoldOn
  <2> QED
    BY <1>8, <2>2, <2>3, <2>4 DEF HandOff
<1>9. ASSUME NEW t \in Threads, Return(t) PROVE HoldInv'
  BY <1>2, <1>9, LeaveJob, LetGo DEF Return, At, Working, Live, Lives
<1>10. ASSUME NEW t \in Threads, PollPending(t) PROVE HoldInv'
  BY <1>2, <1>10, RecordJob, HoldOn DEF PollPending, At, Working
<1>11. ASSUME NEW t \in Threads, on_pending_addr(t) PROVE HoldInv'
  BY <1>2, <1>11, LeaveJob, LetGo DEF on_pending_addr, At, Working, Live, Lives
<1>12. ASSUME NEW t \in Threads, on_ready(t) PROVE HoldInv'
  BY <1>2, <1>12, LeaveJob, LetGo DEF on_ready, At, Working, Live, Lives
<1>13. ASSUME NEW t \in Threads, PollPanics(t) PROVE HoldInv'
  BY <1>2, <1>13, LeaveJob, LetGo DEF PollPanics, At, Working, Live, Lives
<1>14. ASSUME NEW t \in Threads, NEW c \in Coros, NewCoroutine(t, c) PROVE HoldInv'
  <2>1. ~Working(t) /\ life[c] # "running" /\ life' = [life EXCEPT ![c] = "running"]
    BY <1>0, <1>14 DEF NewCoroutine, Live
  <2> QED
    BY <1>14, <2>1, GoJob, HoldOn DEF NewCoroutine
<1>15. ASSUME NEW t \in Threads, NEW c \in Coros, Start(t, c) PROVE HoldInv'
  <2>1. ~Working(t) /\ life[c] # "running" /\ life' = [life EXCEPT ![c] = "running"]
    BY <1>0, <1>15 DEF Start, Live
  <2> QED
    BY <1>15, <2>1, GoJob, HoldOn DEF Start
<1>16. ASSUME NEW t \in Threads, NEW c \in Coros, await_resume(t, c) PROVE HoldInv'
  <2>1. ~Working(t) /\ life[c] # "running" /\ life' = [life EXCEPT ![c] = "running"]
    BY <1>0, <1>16 DEF await_resume, Live
  <2> QED
    BY <1>16, <2>1, RecordJob, HoldOn DEF await_resume
<1>17. ASSUME NEW t \in Threads, NEW c \in Coros, poll(t, c) PROVE HoldInv'
  <2>1. ~Working(t) /\ life[c] # "running" /\ life' = [life EXCEPT ![c] = "running"]
    BY <1>0, <1>17 DEF poll, Live
  <2> QED
    BY <1>17, <2>1, GoJob, RecordJob, HoldOn DEF poll
<1>18. ASSUME NEW t \in Threads, NEW c \in Coros, Destroy(t, c) PROVE HoldInv'
  <2>1. life' = [life EXCEPT ![c] = "gone"] /\ job' = job /\ life[c] # "running"
    BY <1>18 DEF Destroy, Live
  <2> QED
    BY <1>2, <2>1 DEF HoldInv, Working, Co, TypeInv
<1> QED
  BY <1>1, <1>3, <1>4, <1>5, <1>6, <1>7, <1>8, <1>9, <1>10, <1>11, <1>12,
     <1>13, <1>14, <1>15, <1>16, <1>17, <1>18 DEF Next

\* A working thread has a running coroutine.
LEMMA HoldsCoro ==
  ASSUME TypeInv, HoldInv, NEW t \in Threads, Working(t)
  PROVE  Co(t) \in Coros /\ life[Co(t)] = "running"
BY JobFields DEF TypeInv, HoldInv, Working, Co

\* Only NewCoroutine draws tickets.
LEMMA OldTickets ==
  ASSUME TypeInv, HoldInv, [Next]_vars,
         \A t \in Threads, c \in Coros : ~NewCoroutine(t, c)
  PROVE  /\ UNCHANGED <<sdk, n, next_probe_id, allocated_count, idx, id, frame>>
         /\ \A c \in Coros : (Born(c)' <=> Born(c))
<1> USE DEF static, shared, coro, inCoro
<1>1. ASSUME NEW c \in Coros, NEW v \in Lives \ {"unborn"}, Live(c, v), Born(c)
      PROVE  \A d \in Coros : (Born(d)' <=> Born(d))
  BY <1>1 DEF Live, Born, TypeInv
<1>2. ASSUME NEW t \in Threads, Working(t), NEW v \in Lives \ {"unborn"}, Live(Co(t), v)
      PROVE  \A d \in Coros : (Born(d)' <=> Born(d))
  BY <1>1, <1>2, HoldsCoro DEF Born
<1>3. CASE Attach \/ AttachFails \/ UNCHANGED vars
  BY <1>3 DEF Attach, AttachFails, vars, Born
<1>4. ASSUME NEW t \in Threads,
             \/ BeginWrite(t) \/ EndWrite(t) \/ AwaitReady(t) \/ await_suspend(t)
             \/ PollPending(t)
      PROVE  UNCHANGED <<sdk, n, next_probe_id, allocated_count, idx, id, frame, life>>
  BY <1>4 DEF BeginWrite, EndWrite, AwaitReady, await_suspend, PollPending
<1>5. ASSUME NEW t \in Threads,
             \/ InitHeader(t) \/ HandOff(t) \/ Return(t) \/ on_pending_addr(t)
             \/ on_ready(t) \/ PollPanics(t)
      PROVE  /\ UNCHANGED <<sdk, n, next_probe_id, allocated_count, idx, id, frame>>
             /\ Working(t)
             /\ life' = life \/ \E v \in Lives \ {"unborn"} : Live(Co(t), v)
  BY <1>5 DEF InitHeader, HandOff, Return, on_pending_addr, on_ready, PollPanics,
              At, Working, Lives
<1>6. ASSUME NEW t \in Threads, NEW c \in Coros,
             Start(t, c) \/ await_resume(t, c) \/ poll(t, c) \/ Destroy(t, c)
      PROVE  /\ UNCHANGED <<sdk, n, next_probe_id, allocated_count, idx, id, frame>>
             /\ Born(c) /\ \E v \in Lives \ {"unborn"} : Live(c, v)
  BY <1>6 DEF Start, await_resume, poll, Destroy, Born, Lives
<1>7. (\A c \in Coros : (Born(c)' <=> Born(c))) \/ life' # life
  BY DEF Born
<1> QED
  BY <1>1, <1>2, <1>3, <1>4, <1>5, <1>6, <1>7 DEF Next

\* No ticket is drawn at the start.
LEMMA InitTicketInv == Init => TicketInv
<1> SUFFICES ASSUME Init PROVE TicketInv
  OBVIOUS
<1>1. BornSet = {}
  BY DEF Init, BornSet, Born
<1>2. Cardinality(BornSet) = 0
  BY <1>1, FS_EmptySet
<1> QED
  BY <1>2 DEF Init, TicketInv

\* There is a station for the next ticket while a coroutine is still to come.
LEMMA FreshTicket ==
  ASSUME TypeInv, TicketInv, NEW t \in Threads, NEW c \in Coros, NewCoroutine(t, c)
  PROVE  allocated_count < Cardinality(Coros) /\ allocated_count \in Stations
<1>1. Cardinality(BornSet) < Cardinality(Coros)
  BY OneMore DEF NewCoroutine, Born
<1>2. allocated_count \in Nat /\ allocated_count < Cardinality(BornSet) + 1
  BY Constants DEF TicketInv, TypeInv
<1> QED
  BY <1>1, <1>2, BornCount, Constants DEF Stations

\* Every step keeps the tickets unique.
LEMMA NextTicketInv == TypeInv /\ HoldInv /\ TicketInv /\ [Next]_vars => TicketInv'
<1> SUFFICES ASSUME TypeInv, HoldInv, TicketInv, [Next]_vars PROVE TicketInv'
  OBVIOUS
<1>1. CASE \A t \in Threads, c \in Coros : ~NewCoroutine(t, c)
  <2>1. BornSet' = BornSet
    BY <1>1, OldTickets DEF BornSet
  <2> QED
    BY <1>1, <2>1, OldTickets DEF TicketInv, NoTicket
<1>2. ASSUME NEW t \in Threads, NEW c \in Coros, NewCoroutine(t, c) PROVE TicketInv'
  <2>1. ~Born(c) /\ Live(c, "running") /\ next_probe_id' = next_probe_id + 1
    BY <1>2 DEF NewCoroutine, Born
  <2>2. next_probe_id' = Cardinality(BornSet') + 1
    BY <2>1, OneMore, BornCount DEF TicketInv
  <2>3. allocated_count < Cardinality(Coros)
    BY <1>2, FreshTicket
  <2>4. (allocated_count + 1) % WordMod = allocated_count + 1
    <3>1. WordMod \in Nat \ {0} /\ allocated_count + 1 \in 0 .. WordMod - 1
      BY <2>3, Constants DEF TypeInv
    <3> QED
      BY <3>1, ModSmall
  <2>5. CASE process = "traced"
    <3>1. idx' = [idx EXCEPT ![c] = allocated_count] /\ allocated_count' = allocated_count + 1
      BY <1>2, <2>4, <2>5 DEF NewCoroutine
    <3>2. allocated_count' < next_probe_id'
      BY <2>1, <3>1 DEF TicketInv, TypeInv
    <3>3. \A d \in Coros : ~Born(d)' => idx'[d] = NoTicket
      BY <2>1, <3>1 DEF TicketInv, TypeInv, Born, Live
    <3>4. \A d \in Coros : idx'[d] # NoTicket => idx'[d] < allocated_count'
      BY <3>1, Constants DEF TicketInv, TypeInv, NoTicket
    <3>5. \A d, e \in Coros : idx'[d] = idx'[e] /\ idx'[d] # NoTicket => d = e
      <4>1. \A d \in Coros : idx[d] # NoTicket => idx[d] # allocated_count
        BY Constants DEF TicketInv, TypeInv, NoTicket
      <4>2. \A d \in Coros : idx'[d] = IF d = c THEN allocated_count ELSE idx[d]
        BY <3>1 DEF TypeInv
      <4> QED
        BY <4>1, <4>2 DEF TicketInv
    <3> QED
      BY <2>2, <3>2, <3>3, <3>4, <3>5 DEF TicketInv, NoTicket
  <2>6. CASE process # "traced"
    <3>1. UNCHANGED <<idx, allocated_count>>
      BY <1>2, <2>6 DEF NewCoroutine
    <3>2. \A d \in Coros : ~Born(d)' => idx'[d] = NoTicket
      BY <2>1, <3>1 DEF TicketInv, TypeInv, Born, Live
    <3> QED
      BY <2>1, <2>2, <3>1, <3>2, BornCount, Constants DEF TicketInv, TypeInv, NoTicket
  <2> QED
    BY <2>5, <2>6
<1> QED
  BY <1>1, <1>2

\* A thread is about to write the header of the coroutine's station.
Initing(c) == \E t \in Threads : job[t].pc = "init" /\ job[t].co = c

\* What the mapping holds, and that only a traced process draws tickets.
AttachInv ==
  /\ process \in {"traced", "fault"} => mem_size > 0 /\ mapLen = mem_size - 1
  /\ process \notin {"traced", "fault"} => \A c \in Coros : idx[c] = NoTicket
  /\ AttachSafe

\* An id comes back only when its coroutine is gone, and in Rust never.
IdInv ==
  /\ \A c \in Coros : Born(c) =>
       /\ id[c] # 0
       /\ IF sdk = "cpp" THEN id[c] = frame[c] ELSE id[c] < next_probe_id
  /\ \A c, d \in Coros : c # d /\ Born(c) /\ Born(d) /\ id[c] = id[d] =>
       sdk = "cpp" /\ "gone" \in {life[c], life[d]}

\* Headers belong to the coroutine with the station's ticket.
HeaderInv ==
  /\ \A s \in Stations : probe_id[s] # 0 =>
       \E c \in Coros : HasStation(c) /\ idx[c] = s /\ id[c] = probe_id[s]
  /\ \A s \in Stations : is_dead[s] =>
       \E c \in Coros : idx[c] = s /\ life[c] \in {"returned", "gone"}
  /\ \A c \in Coros : HasStation(c) /\ life[c] = "gone" => is_dead[idx[c]]
  /\ \A c \in Coros : HasStation(c) /\ ~Initing(c) => probe_id[idx[c]] = id[c]

\* Events lie in their coroutine's station, under its probe_id.
EventInv ==
  /\ \A s \in Stations : \A k \in DOMAIN trace[s] : idx[trace[s][k].by] = s
  /\ IdNamesWriter

\* A step that touches no header, no event, no ticket, and no end of a coroutine.
Quiet ==
  /\ UNCHANGED <<sdk, n, next_probe_id, probe_id, is_dead, trace, idx, id, frame>>
  /\ \A c \in Coros :
       /\ Born(c)' <=> Born(c)
       /\ life'[c] = "gone" <=> life[c] = "gone"
       /\ life[c] = "returned" => life'[c] = "returned"
       /\ Initing(c)' <=> Initing(c)

\* The steps that matter to headers and events are five; the others are quiet.
LEMMA NextShape ==
  ASSUME TypeInv, HoldInv, [Next]_vars
  PROVE  \/ Quiet
         \/ \E t \in Threads : InitHeader(t) \/ EndWrite(t) \/ on_ready(t)
         \/ \E t \in Threads, c \in Coros : NewCoroutine(t, c) \/ Destroy(t, c)
<1> USE DEF static, shared, coro, inCoro
<1>0. ASSUME NEW t \in Threads, Free(t) PROVE job[t].pc = "idle"
  BY <1>0 DEF Free, Idle
<1>1. ASSUME UNCHANGED <<sdk, n, next_probe_id, probe_id, is_dead, trace, idx, id, frame>>,
             UNCHANGED <<life, job>>
      PROVE  Quiet
  BY <1>1 DEF Quiet, Born, Initing
<1>2. ASSUME UNCHANGED <<sdk, n, next_probe_id, probe_id, is_dead, trace, idx, id, frame>>,
             NEW t \in Threads, job[t].pc # "init", job'[t].pc # "init",
             \A u \in Threads \ {t} : job'[u] = job[u],
             \/ life' = life
             \/ \E c \in Coros, v \in Lives \ {"unborn", "gone"} :
                  Live(c, v) /\ life[c] \notin {"unborn", "gone", "returned"}
      PROVE  Quiet
  <2>1. \A c \in Coros : (Initing(c)' <=> Initing(c))
    BY <1>2 DEF Initing
  <2>2. \A c \in Coros : /\ (Born(c)' <=> Born(c))
                         /\ (life'[c] = "gone" <=> life[c] = "gone")
                         /\ (life[c] = "returned" => life'[c] = "returned")
    BY <1>2 DEF Born, Live, TypeInv
  <2> QED
    BY <1>2, <2>1, <2>2 DEF Quiet
<1>3. CASE Attach \/ AttachFails \/ UNCHANGED vars
  BY <1>1, <1>3 DEF Attach, AttachFails, vars
<1>4. ASSUME NEW t \in Threads, BeginWrite(t) PROVE Quiet
  BY <1>2, <1>4, BeginWriteJob DEF BeginWrite
<1>5. ASSUME NEW t \in Threads, AwaitReady(t) \/ await_suspend(t) \/ PollPending(t)
      PROVE  Quiet
  <2>1. job[t].pc = "run" /\ Co(t) \in Coros
    BY <1>5, HoldsCoro DEF AwaitReady, await_suspend, PollPending, At, Working
  <2>2. job'[t].pc # "init" /\ \A u \in Threads \ {t} : job'[u] = job[u]
    BY <1>5, <2>1, RecordJob DEF AwaitReady, await_suspend, PollPending
  <2> QED
    BY <1>2, <1>5, <2>1, <2>2 DEF AwaitReady, await_suspend, PollPending
<1>6. ASSUME NEW t \in Threads, HandOff(t) PROVE Quiet
  <2>1. job[t].pc = "handoff" /\ Co(t) \in Coros /\ life[Co(t)] = "running"
    BY <1>6, HoldsCoro DEF HandOff, At, Working
  <2>2. job'[t].pc # "init" /\ \A u \in Threads \ {t} : job'[u] = job[u]
    BY <1>6, <2>1, RecordJob, GoJob, LeaveJob DEF HandOff
  <2>3. life' = life \/ Live(Co(t), "parked")
    BY <1>6 DEF HandOff
  <2> QED
    BY <1>2, <1>6, <2>1, <2>2, <2>3 DEF HandOff, Lives
<1>7. ASSUME NEW t \in Threads, Return(t) \/ on_pending_addr(t) \/ PollPanics(t)
      PROVE  Quiet
  <2>1. job[t].pc \in {"run", "pend"} /\ Co(t) \in Coros /\ life[Co(t)] = "running"
    BY <1>7, HoldsCoro DEF Return, on_pending_addr, PollPanics, At, Working
  <2>2. job'[t].pc # "init" /\ \A u \in Threads \ {t} : job'[u] = job[u]
    BY <1>7, LeaveJob DEF Return, on_pending_addr, PollPanics
  <2>3. Live(Co(t), "returned") \/ Live(Co(t), "parked")
    BY <1>7 DEF Return, on_pending_addr, PollPanics
  <2> QED
    BY <1>2, <1>7, <2>1, <2>2, <2>3 DEF Return, on_pending_addr, PollPanics, Lives
<1>8. ASSUME NEW t \in Threads, NEW c \in Coros,
             Start(t, c) \/ await_resume(t, c) \/ poll(t, c)
      PROVE  Quiet
  <2>1. job[t].pc = "idle" /\ life[c] \in {"created", "parked"} /\ Live(c, "running")
    BY <1>0, <1>8 DEF Start, await_resume, poll
  <2>2. job'[t].pc # "init" /\ \A u \in Threads \ {t} : job'[u] = job[u]
    BY <1>8, GoJob, RecordJob DEF Start, await_resume, poll
  <2> QED
    BY <1>2, <1>8, <2>1, <2>2 DEF Start, await_resume, poll, Lives
<1> QED
  BY <1>3, <1>4, <1>5, <1>6, <1>7, <1>8 DEF Next

\* One overflow subtracts the modulus.
LEMMA ModOne ==
  ASSUME NEW m \in Nat \ {0}, NEW a \in m .. 2 * m - 1
  PROVE  a % m = a - m
OBVIOUS

\* The C++ size is right or not positive, up to 2^22 KiB.
LEMMA WrapIntExact ==
  ASSUME NEW k \in Nat, k <= 2 * IntStations, WrapInt(k) > 0
  PROVE  WrapInt(k) = k
<1>1. IntStations \in Nat \ {0}
  BY Constants
<1> DEFINE m == 2 * IntStations
<1>2. m \in Nat \ {0} /\ m = IntStations + IntStations /\ k <= m
  BY <1>1
<1>3. WrapInt(k) = ((k + IntStations) % m) - IntStations
  BY DEF WrapInt
<1> HIDE DEF m
<1>4. CASE k < IntStations
  <2>1. k + IntStations \in 0 .. m - 1
    BY <1>1, <1>2, <1>4
  <2> QED
    BY <1>1, <1>2, <1>3, <2>1, ModSmall
<1>5. CASE k >= IntStations
  <2>1. k + IntStations \in m .. 2 * m - 1
    BY <1>1, <1>2, <1>5
  <2>2. \A a \in m .. 2 * m - 1 : a % m = a - m
    BY <1>2, ModOne
  <2>3. (k + IntStations) % m = k + IntStations - m
    BY <1>1, <1>2, <2>1, <2>2
  <2> QED
    BY <1>1, <1>2, <1>3, <1>5, <2>3
<1> QED
  BY <1>1, <1>4, <1>5

\* Stations lie inside the mapping below the second overflow.
LEMMA InMapping ==
  ASSUME TypeInv, mem_size > 0, mapLen = mem_size - 1,
         NEW c \in Coros, HasStation(c), idx[c] >= mapLen
  PROVE  sdk = "cpp" /\ n >= 2 * IntStations
<1>1. idx[c] \in Nat /\ idx[c] < n /\ n \in Nat /\ mapLen \in Nat
  <2>1. /\ max_stations \in 0 .. WordMod - 1 /\ max_stations <= n
        /\ idx[c] \in 0 .. WordMod /\ WordMod \in Nat /\ n \in Nat /\ mapLen \in Nat
    BY MaxStations, Constants DEF TypeInv, NoTicket
  <2>2. idx[c] < max_stations
    BY DEF HasStation
  <2> QED
    BY <2>1, <2>2
<1>2. sdk = "cpp"
  BY <1>1 DEF mem_size, TypeInv
<1>3. ASSUME n < 2 * IntStations PROVE FALSE
  <2>1. n + 1 \in Nat /\ n + 1 <= 2 * IntStations /\ WrapInt(n + 1) > 0
    BY <1>1, <1>2, <1>3, Constants DEF mem_size
  <2>2. mem_size = n + 1
    BY <1>2, <2>1, WrapIntExact DEF mem_size
  <2> QED
    BY <1>1, <2>2
<1> QED
  BY <1>1, <1>2, <1>3, Constants

\* There is no mapping at the start.
LEMMA InitAttachInv == Init => AttachInv
BY DEF Init, AttachInv, AttachSafe

\* A fault needs a size that has wrapped round.
LEMMA NextAttachInv == TypeInv /\ HoldInv /\ TicketInv /\ AttachInv /\ [Next]_vars => AttachInv'
<1> SUFFICES ASSUME TypeInv, HoldInv, TicketInv, AttachInv, [Next]_vars PROVE AttachInv'
  OBVIOUS
<1> USE DEF static, shared, coro, inCoro
<1>1. CASE Attach
  BY <1>1 DEF Attach, AttachInv, AttachSafe, mem_size, NoTicket
<1>2. CASE AttachFails
  BY <1>2 DEF AttachFails, AttachInv, AttachSafe, NoTicket
<1>3. ASSUME NEW t \in Threads, NEW c \in Coros, NewCoroutine(t, c) PROVE AttachInv'
  BY <1>3 DEF NewCoroutine, AttachInv, AttachSafe, mem_size, NoTicket
<1>4. ASSUME UNCHANGED <<sdk, n, process, mapLen, idx>> PROVE AttachInv'
  BY <1>4 DEF AttachInv, AttachSafe, mem_size, NoTicket
<1>5. ASSUME NEW t \in Threads, InitHeader(t) PROVE AttachInv'
  <2>1. Co(t) \in Coros
    BY <1>5, HoldsCoro DEF InitHeader, At, Working
  <2>2. CASE HasStation(Co(t)) /\ idx[Co(t)] >= mapLen
    <3>1. process' = "fault" /\ UNCHANGED <<sdk, n, mapLen, idx>> /\ Up
      BY <1>5, <2>2 DEF InitHeader, At
    <3>2. idx[Co(t)] # NoTicket
      BY <2>1, <2>2, InStations
    <3>3. process \in {"traced", "fault"}
      BY <2>1, <3>2 DEF AttachInv
    <3>4. sdk = "cpp" /\ n >= 2 * IntStations
      BY <2>1, <2>2, <3>3, InMapping DEF AttachInv
    <3> QED
      BY <3>1, <3>3, <3>4 DEF AttachInv, AttachSafe, mem_size
  <2>3. CASE ~(HasStation(Co(t)) /\ idx[Co(t)] >= mapLen)
    BY <1>4, <1>5, <2>3 DEF InitHeader
  <2> QED
    BY <2>2, <2>3
<1>6. ASSUME NEW t \in Threads,
             \/ BeginWrite(t) \/ EndWrite(t) \/ AwaitReady(t) \/ await_suspend(t)
             \/ HandOff(t) \/ Return(t) \/ PollPending(t) \/ on_pending_addr(t)
             \/ on_ready(t) \/ PollPanics(t)
      PROVE  AttachInv'
  BY <1>4, <1>6 DEF BeginWrite, EndWrite, AwaitReady, await_suspend, HandOff, Return,
                    PollPending, on_pending_addr, on_ready, PollPanics
<1>7. ASSUME NEW t \in Threads, NEW c \in Coros,
             Start(t, c) \/ await_resume(t, c) \/ poll(t, c) \/ Destroy(t, c)
      PROVE  AttachInv'
  BY <1>4, <1>7 DEF Start, await_resume, poll, Destroy
<1> QED
  BY <1>1, <1>2, <1>3, <1>4, <1>5, <1>6, <1>7 DEF Next, vars

\* The stations are those that tickets are good for.
LEMMA NoTicketStation == NoTicket \notin Stations
BY Constants DEF NoTicket, Stations

\* What NewCoroutine does to the identities.
LEMMA NewIds ==
  ASSUME TypeInv, TicketInv, NEW t \in Threads, NEW c \in Coros, NewCoroutine(t, c)
  PROVE  /\ life[c] = "unborn" /\ idx[c] = NoTicket /\ ~Working(t) /\ Up
         /\ UNCHANGED <<sdk, n, probe_id, is_dead, trace, pending, threw>>
         /\ life' = [life EXCEPT ![c] = "running"] /\ life'[c] = "running"
         /\ next_probe_id' = next_probe_id + 1
         /\ idx'[c] \in {NoTicket, allocated_count}
         /\ \A d \in Coros \ {c} : /\ idx'[d] = idx[d] /\ id'[d] = id[d]
                                 /\ frame'[d] = frame[d] /\ life'[d] = life[d]
         /\ \A u \in Threads \ {t} : job'[u] = job[u]
         /\ job' \in [Threads -> Jobs] /\ job'[t].pc = "init" /\ job'[t].co = c
         /\ id'[c] = IF sdk = "cpp" THEN frame'[c] ELSE next_probe_id
         /\ frame'[c] \in FreeFrames
<1>1. PICK f \in FreeFrames :
        /\ frame' = [frame EXCEPT ![c] = f]
        /\ id' = [id EXCEPT ![c] = IF sdk = "cpp" THEN f ELSE next_probe_id]
  BY DEF NewCoroutine
<1>2. frame'[c] = f /\ id'[c] = IF sdk = "cpp" THEN f ELSE next_probe_id
  BY <1>1 DEF TypeInv
<1>3. \A d \in Coros \ {c} : id'[d] = id[d] /\ frame'[d] = frame[d]
  BY <1>1 DEF TypeInv
<1>4. idx'[c] \in {NoTicket, allocated_count} /\ \A d \in Coros \ {c} : idx'[d] = idx[d]
  BY DEF NewCoroutine, TypeInv, TicketInv, Born
<1>5. life[c] = "unborn" /\ idx[c] = NoTicket /\ ~Working(t) /\ Up
  BY DEF NewCoroutine, TicketInv, Born, Free, Working, Idle
<1>6. life' = [life EXCEPT ![c] = "running"] /\ life'[c] = "running"
        /\ \A d \in Coros \ {c} : life'[d] = life[d]
  BY DEF NewCoroutine, Live, TypeInv
<1>7. /\ \A u \in Threads \ {t} : job'[u] = job[u]
      /\ job' \in [Threads -> Jobs] /\ job'[t].pc = "init" /\ job'[t].co = c
  BY GoJob DEF NewCoroutine
<1>8. /\ UNCHANGED <<sdk, n, probe_id, is_dead, trace, pending, threw>>
      /\ next_probe_id' = next_probe_id + 1
  BY DEF NewCoroutine, static
<1> QED
  BY <1>1, <1>2, <1>3, <1>4, <1>5, <1>6, <1>7, <1>8

\* There are no ids at the start.
LEMMA InitIdInv == Init => IdInv
BY DEF Init, IdInv, Born

\* Identities only change in NewCoroutine, and gone stays gone.
LEMMA IdsKept ==
  ASSUME TypeInv, IdInv, UNCHANGED <<sdk, next_probe_id, id, frame>>,
         \A c \in Coros : (Born(c)' <=> Born(c)) /\ (life[c] = "gone" => life'[c] = "gone")
  PROVE  IdInv'
BY DEF IdInv

\* A frame is free, and so its id, only when its coroutine is gone.
LEMMA NextIdInv == TypeInv /\ HoldInv /\ TicketInv /\ IdInv /\ [Next]_vars => IdInv'
<1> SUFFICES ASSUME TypeInv, HoldInv, TicketInv, IdInv, [Next]_vars PROVE IdInv'
  OBVIOUS
<1> USE DEF static, shared, coro, inCoro
<1>1. CASE Quiet
  BY <1>1, IdsKept DEF Quiet
<1>2. CASE \A t \in Threads, c \in Coros : ~NewCoroutine(t, c)
  <2>1. \A c \in Coros : life[c] = "gone" => life'[c] = "gone"
    <3>1. ASSUME NEW t \in Threads, InitHeader(t) \/ EndWrite(t) \/ on_ready(t)
          PROVE  /\ Co(t) \in Coros /\ life[Co(t)] # "gone"
                 /\ life' = life \/ \E v \in Lives : Live(Co(t), v)
      BY <3>1, HoldsCoro DEF InitHeader, EndWrite, on_ready, At, Working, Lives
    <3>2. ASSUME NEW t \in Threads, NEW c \in Coros, Destroy(t, c)
          PROVE  Live(c, "gone")
      BY <3>2 DEF Destroy
    <3> QED
      BY <1>2, <3>1, <3>2, NextShape DEF Quiet, Live, TypeInv
  <2> QED
    BY <1>2, <2>1, OldTickets, IdsKept
<1>3. ASSUME NEW t \in Threads, NEW c \in Coros, NewCoroutine(t, c) PROVE IdInv'
  <2>1. /\ sdk' = sdk /\ next_probe_id' = next_probe_id + 1 /\ life'[c] = "running"
        /\ \A d \in Coros \ {c} : id'[d] = id[d] /\ frame'[d] = frame[d] /\ life'[d] = life[d]
        /\ id'[c] = IF sdk = "cpp" THEN frame'[c] ELSE next_probe_id
    BY <1>3, NewIds
  <2>2. frame'[c] \in Nat \ {0} /\ next_probe_id \in Nat \ {0}
    <3>1. frame'[c] \in Frames
      BY <1>3, NewIds DEF FreeFrames
    <3>2. next_probe_id \in Nat \ {0}
      BY BornCount, Constants DEF TicketInv
    <3> QED
      BY <3>1, <3>2, TraceeAssumption
  <2>3. \A d \in Coros \ {c} : Born(d) => life[d] = "gone" \/ frame[d] # frame'[c]
    BY <1>3, NewIds DEF FreeFrames, Born
  <2>4. \A d \in Coros : Born(d)' =>
          id'[d] # 0 /\ IF sdk' = "cpp" THEN id'[d] = frame'[d] ELSE id'[d] < next_probe_id'
    <3> SUFFICES ASSUME NEW d \in Coros, Born(d)'
                 PROVE  /\ id'[d] # 0
                        /\ IF sdk' = "cpp" THEN id'[d] = frame'[d] ELSE id'[d] < next_probe_id'
      OBVIOUS
    <3>1. CASE d = c
      BY <2>1, <2>2, <3>1
    <3>2. CASE d # c
      <4>1. Born(d) /\ id'[d] = id[d] /\ frame'[d] = frame[d] /\ id[d] \in Nat
        BY <2>1, <3>2 DEF Born, TypeInv
      <4> QED
        BY <2>1, <2>2, <4>1 DEF IdInv
    <3> QED
      BY <3>1, <3>2
  <2>5. \A d \in Coros \ {c} : Born(d)' /\ id'[d] = id'[c] =>
          sdk' = "cpp" /\ life'[d] = "gone"
    <3> SUFFICES ASSUME NEW d \in Coros \ {c}, Born(d), id[d] = id'[c]
                 PROVE  sdk = "cpp" /\ life[d] = "gone"
      BY <2>1 DEF Born
    <3>1. sdk = "cpp"
      BY <2>1, <2>2 DEF IdInv, TypeInv
    <3> QED
      BY <2>1, <2>3, <3>1 DEF IdInv
  <2>6. \A d, e \in Coros : d # e /\ Born(d)' /\ Born(e)' /\ id'[d] = id'[e] =>
          sdk' = "cpp" /\ "gone" \in {life'[d], life'[e]}
    <3> SUFFICES ASSUME NEW d \in Coros, NEW e \in Coros, d # e, Born(d)', Born(e)',
                        id'[d] = id'[e]
                 PROVE  sdk' = "cpp" /\ "gone" \in {life'[d], life'[e]}
      OBVIOUS
    <3>1. CASE d = c \/ e = c
      BY <2>5, <3>1
    <3>2. CASE d # c /\ e # c
      BY <2>1, <3>2 DEF IdInv, Born
    <3> QED
      BY <3>1, <3>2
  <2> QED
    BY <2>4, <2>6 DEF IdInv
<1> QED
  BY <1>2, <1>3

-----------------------------------------------------------------------------
\* Headers and stations are empty at the start.
LEMMA InitHeaderInv == Init => HeaderInv /\ EventInv
<1> SUFFICES ASSUME Init PROVE HeaderInv /\ EventInv
  OBVIOUS
<1>1. TypeInv /\ TicketInv
  BY InitTypeInv, InitTicketInv
<1>2. \A c \in Coros : ~HasStation(c)
  BY <1>1, InStations DEF Init
<1> QED
  BY <1>2 DEF Init, HeaderInv, EventInv, IdNamesWriter

\* A step that leaves headers, tickets and the phase of every coroutine alone.
LEMMA HeaderKept ==
  ASSUME TypeInv, HeaderInv, UNCHANGED <<n, probe_id, is_dead, idx, id>>,
         \A c \in Coros :
           /\ life'[c] = "gone" <=> life[c] = "gone"
           /\ life[c] = "returned" => life'[c] = "returned"
           /\ HasStation(c) => (Initing(c)' <=> Initing(c))
  PROVE  HeaderInv'
<1>1. \A c \in Coros : (HasStation(c)' <=> HasStation(c))
  BY DEF HasStation, max_stations
<1>2. \A s \in Stations : probe_id'[s] # 0 =>
        \E c \in Coros : HasStation(c)' /\ idx'[c] = s /\ id'[c] = probe_id'[s]
  BY <1>1 DEF HeaderInv
<1>3. \A s \in Stations : is_dead'[s] =>
        \E c \in Coros : idx'[c] = s /\ life'[c] \in {"returned", "gone"}
  BY DEF HeaderInv
<1>4. \A c \in Coros : HasStation(c)' /\ life'[c] = "gone" => is_dead'[idx'[c]]
  BY <1>1 DEF HeaderInv
<1>5. \A c \in Coros : HasStation(c)' /\ ~Initing(c)' => probe_id'[idx'[c]] = id'[c]
  BY <1>1 DEF HeaderInv
<1> QED
  BY <1>2, <1>3, <1>4, <1>5 DEF HeaderInv

\* mark_dead: the header of a coroutine's own station, as the coroutine ends.
LEMMA HeaderBuried ==
  ASSUME TypeInv, TicketInv, HeaderInv, UNCHANGED <<n, probe_id, idx, id>>,
         NEW c \in Coros, NEW v \in {"returned", "gone"}, Bury(c), Live(c, v),
         \A d \in Coros : (Initing(d)' <=> Initing(d))
  PROVE  HeaderInv'
<1>1. \A d \in Coros : (HasStation(d)' <=> HasStation(d))
  BY DEF HasStation, max_stations
<1>2. \A s \in Stations : probe_id'[s] # 0 =>
        \E d \in Coros : HasStation(d)' /\ idx'[d] = s /\ id'[d] = probe_id'[s]
  BY <1>1 DEF HeaderInv
<1>3. \A s \in Stations : is_dead[s] => is_dead'[s]
  BY DEF Bury, TypeInv
<1>4. \A s \in Stations : is_dead'[s] => is_dead[s] \/ s = idx[c]
  BY DEF Bury, TypeInv
<1>5. \A d \in Coros : life'[d] = IF d = c THEN v ELSE life[d]
  BY DEF Live, TypeInv
<1>6. \A s \in Stations : is_dead'[s] =>
        \E d \in Coros : idx'[d] = s /\ life'[d] \in {"returned", "gone"}
  BY <1>4, <1>5 DEF HeaderInv
<1>7. \A d \in Coros : HasStation(d)' /\ life'[d] = "gone" => is_dead'[idx'[d]]
  <2> SUFFICES ASSUME NEW d \in Coros, HasStation(d), life'[d] = "gone"
               PROVE  is_dead'[idx[d]]
    BY <1>1
  <2>1. idx[d] \in Stations
    BY InStations
  <2>2. CASE d = c
    BY <2>1, <2>2 DEF Bury, TypeInv
  <2>3. CASE d # c
    BY <1>3, <1>5, <2>1, <2>3 DEF HeaderInv
  <2> QED
    BY <2>2, <2>3
<1>8. \A d \in Coros : HasStation(d)' /\ ~Initing(d)' => probe_id'[idx'[d]] = id'[d]
  BY <1>1 DEF HeaderInv
<1> QED
  BY <1>2, <1>6, <1>7, <1>8 DEF HeaderInv

\* A coroutine's own header, written by the thread that creates it.
LEMMA HeaderWritten ==
  ASSUME TypeInv, TicketInv, HoldInv, HeaderInv, NEW t \in Threads, InitHeader(t),
         HasStation(Co(t)), process' # "fault"
  PROVE  HeaderInv'
<1> DEFINE c == Co(t)
<1>0. c \in Coros /\ life[c] = "running" /\ Working(t) /\ HasStation(c)
  BY HoldsCoro DEF InitHeader, At, Working
<1>1. /\ probe_id' = [probe_id EXCEPT ![idx[c]] = id[c]]
      /\ is_dead' = [is_dead EXCEPT ![idx[c]] = FALSE]
      /\ Live(c, "created") /\ Leave(t) /\ UNCHANGED <<n, idx, id>>
  BY DEF InitHeader, static
<1> HIDE DEF c
<1>2. \A d \in Coros : (HasStation(d)' <=> HasStation(d))
  BY <1>1 DEF HasStation, max_stations
<1>3. \A d \in Coros : d # c => (Initing(d)' <=> Initing(d))
  BY <1>1, LeaveJob DEF Initing, c, Co
<1>4. \A d \in Coros : life'[d] = IF d = c THEN "created" ELSE life[d]
  BY <1>1 DEF Live, TypeInv
<1>5. idx[c] \in Stations /\ idx[c] # NoTicket
  BY <1>0, InStations
<1>6. /\ \A s \in Stations : probe_id'[s] = IF s = idx[c] THEN id[c] ELSE probe_id[s]
      /\ \A s \in Stations : is_dead'[s] = IF s = idx[c] THEN FALSE ELSE is_dead[s]
  BY <1>1 DEF TypeInv
<1>7. \A s \in Stations : probe_id'[s] # 0 =>
        \E d \in Coros : HasStation(d)' /\ idx'[d] = s /\ id'[d] = probe_id'[s]
  BY <1>0, <1>1, <1>2, <1>6 DEF HeaderInv
<1>8. \A s \in Stations : is_dead'[s] =>
        \E d \in Coros : idx'[d] = s /\ life'[d] \in {"returned", "gone"}
  BY <1>0, <1>1, <1>4, <1>6 DEF HeaderInv
<1>9. \A d \in Coros : HasStation(d) /\ d # c => idx[d] \in Stations /\ idx[d] # idx[c]
  BY <1>0, <1>5, InStations DEF TicketInv
<1>10. \A d \in Coros : HasStation(d)' /\ life'[d] = "gone" => is_dead'[idx'[d]]
  BY <1>1, <1>2, <1>4, <1>6, <1>9 DEF HeaderInv
<1>11. \A d \in Coros : HasStation(d)' /\ ~Initing(d)' => probe_id'[idx'[d]] = id'[d]
  BY <1>1, <1>2, <1>3, <1>5, <1>6, <1>9 DEF HeaderInv
<1> QED
  BY <1>7, <1>8, <1>10, <1>11 DEF HeaderInv

\* A new coroutine's ticket is new, and the thread is on its way to the header.
LEMMA HeaderOfNew ==
  ASSUME TypeInv, TicketInv, HoldInv, HeaderInv,
         NEW t \in Threads, NEW c \in Coros, NewCoroutine(t, c)
  PROVE  HeaderInv'
<1>1. UNCHANGED <<n, probe_id, is_dead>> /\ idx[c] = NoTicket /\ life'[c] = "running"
  BY NewIds
<1>2. \A d \in Coros \ {c} : idx'[d] = idx[d] /\ id'[d] = id[d] /\ life'[d] = life[d]
  BY NewIds
<1>3. \A d \in Coros \ {c} : (HasStation(d)' <=> HasStation(d))
  BY <1>1, <1>2 DEF HasStation, max_stations
<1>4. /\ \A u \in Threads \ {t} : job'[u] = job[u]
      /\ ~Working(t) /\ job'[t].pc = "init" /\ job'[t].co = c
  BY NewIds
<1>5. Initing(c)' /\ \A d \in Coros \ {c} : (Initing(d)' <=> Initing(d))
  BY <1>4 DEF Initing, Working
<1>6. ~HasStation(c) /\ idx[c] \notin Stations
  BY <1>1, InStations, NoTicketStation
<1>7. \A s \in Stations : probe_id'[s] # 0 =>
        \E d \in Coros : HasStation(d)' /\ idx'[d] = s /\ id'[d] = probe_id'[s]
  BY <1>1, <1>2, <1>3, <1>6 DEF HeaderInv
<1>8. \A s \in Stations : is_dead'[s] =>
        \E d \in Coros : idx'[d] = s /\ life'[d] \in {"returned", "gone"}
  BY <1>1, <1>2, <1>6 DEF HeaderInv
<1>9. \A d \in Coros : HasStation(d)' /\ life'[d] = "gone" => is_dead'[idx'[d]]
  BY <1>1, <1>2, <1>3 DEF HeaderInv
<1>10. \A d \in Coros : HasStation(d)' /\ ~Initing(d)' => probe_id'[idx'[d]] = id'[d]
  BY <1>1, <1>2, <1>3, <1>5 DEF HeaderInv
<1> QED
  BY <1>7, <1>8, <1>9, <1>10 DEF HeaderInv

\* Every step keeps the headers with their coroutines.
LEMMA NextHeaderInv ==
  TypeInv /\ HoldInv /\ TicketInv /\ HeaderInv /\ [Next]_vars => HeaderInv'
<1> SUFFICES ASSUME TypeInv, HoldInv, TicketInv, HeaderInv, [Next]_vars PROVE HeaderInv'
  OBVIOUS
<1>1. CASE Quiet
  BY <1>1, HeaderKept DEF Quiet
<1>2. ASSUME NEW t \in Threads, InitHeader(t) PROVE HeaderInv'
  <2>1. Co(t) \in Coros /\ life[Co(t)] = "running"
    BY <1>2, HoldsCoro DEF InitHeader, At, Working
  <2>2. CASE process' = "fault"
    <3>1. UNCHANGED <<n, probe_id, is_dead, idx, id, life, job>>
      BY <1>2, <2>2 DEF InitHeader, static, At, Up
    <3> QED
      BY <3>1, HeaderKept DEF Initing
  <2>3. CASE ~HasStation(Co(t))
    <3>1. UNCHANGED <<n, probe_id, is_dead, idx, id>> /\ Live(Co(t), "created") /\ Leave(t)
      BY <1>2, <2>3 DEF InitHeader, static
    <3>2. \A d \in Coros : HasStation(d) => (Initing(d)' <=> Initing(d))
      BY <2>3, <3>1, LeaveJob DEF Initing, Co
    <3>3. \A d \in Coros : life'[d] = IF d = Co(t) THEN "created" ELSE life[d]
      BY <2>1, <3>1 DEF Live, TypeInv
    <3> QED
      BY <2>1, <3>1, <3>2, <3>3, HeaderKept
  <2> QED
    BY <1>2, <2>2, <2>3, HeaderWritten
<1>3. ASSUME NEW t \in Threads, EndWrite(t) PROVE HeaderInv'
  <2>1. UNCHANGED <<n, probe_id, is_dead, idx, id, life>> /\ job[t].pc = "writing"
    BY <1>3 DEF EndWrite, static, At
  <2>2. Co(t) \in Coros /\ job[t].then \in {"run", "handoff", "pend"}
    BY <2>1, JobFields DEF TypeInv, Co
  <2>3. job'[t].pc # "init" /\ \A u \in Threads \ {t} : job'[u] = job[u]
    BY <1>3, <2>2, GoJob DEF EndWrite
  <2>4. \A d \in Coros : (Initing(d)' <=> Initing(d))
    BY <2>1, <2>3 DEF Initing
  <2> QED
    BY <2>1, <2>4, HeaderKept
<1>4. ASSUME NEW t \in Threads, on_ready(t) PROVE HeaderInv'
  <2>1. /\ UNCHANGED <<n, probe_id, idx, id>> /\ job[t].pc = "run"
        /\ Bury(Co(t)) /\ Live(Co(t), "returned") /\ Leave(t)
    BY <1>4 DEF on_ready, static, At
  <2>2. Co(t) \in Coros
    BY <2>1, HoldsCoro DEF Working
  <2>3. \A d \in Coros : (Initing(d)' <=> Initing(d))
    BY <2>1, LeaveJob DEF Initing
  <2> QED
    BY <2>1, <2>2, <2>3, HeaderBuried
<1>5. ASSUME NEW t \in Threads, NEW c \in Coros, Destroy(t, c) PROVE HeaderInv'
  <2>1. UNCHANGED <<n, probe_id, idx, id, job>> /\ Bury(c) /\ Live(c, "gone")
    BY <1>5 DEF Destroy, static
  <2> QED
    BY <2>1, HeaderBuried DEF Initing
<1> QED
  BY <1>1, <1>2, <1>3, <1>4, <1>5, HeaderOfNew, NextShape

-----------------------------------------------------------------------------
\* What the last event of a coroutine's station says: nothing yet, a suspend, or a
\* resume (or a suspend left by an await_suspend that threw).
Last(c)      == trace[idx[c]][Len(trace[idx[c]])].is_active
Fresh(c)     == HasStation(c) => trace[idx[c]] = <<>>
Suspended(c) == HasStation(c) => trace[idx[c]] # <<>> /\ ~Last(c)
Active(c)    == HasStation(c) => trace[idx[c]] = <<>> \/ Last(c) \/ threw[c]

\* What a thread may rely on about its coroutine's last event, at every point.
JobOK(t) ==
  /\ job[t].pc = "init" => Fresh(Co(t))
  /\ job[t].pc = "run" => Active(Co(t))
  /\ job[t].pc \in {"handoff", "pend"} => Suspended(Co(t))
  /\ job[t].pc = "handoff" => sdk = "cpp"
  /\ InWrite(t) =>
       /\ HasStation(Co(t))
       /\ job[t].then = "run" <=> job[t].is_active
       /\ job[t].then = "handoff" => sdk = "cpp"
       /\ sdk = "rust" => IF job[t].is_active THEN Suspended(Co(t)) ELSE Active(Co(t))

\* What the life of a coroutine says about its last event.
LifeOK(c) ==
  /\ life[c] = "created" => Fresh(c)
  /\ life[c] = "parked" => Suspended(c)
  /\ life[c] = "returned" => Active(c)
  /\ sdk = "rust" => ~threw[c] /\ (pending[c] <=> life[c] = "parked")

\* The control of the SDKs and the events agree.
CtlInv ==
  /\ \A t \in Threads : JobOK(t)
  /\ \A c \in Coros : LifeOK(c)
  /\ RustAlternates

\* A step that does not change what c's station says.
SameView(c) ==
  /\ HasStation(c)' <=> HasStation(c)
  /\ Fresh(c)' <=> Fresh(c)
  /\ Suspended(c)' <=> Suspended(c)
  /\ Active(c)' <=> Active(c)

\* A station's view changes only with the events, the tickets or threw.
LEMMA ViewKept ==
  ASSUME UNCHANGED <<n, idx, trace>>, NEW c \in Coros, threw'[c] = threw[c]
  PROVE  SameView(c)
<1>1. HasStation(c)' <=> HasStation(c)
  BY DEF HasStation, max_stations
<1>2. trace'[idx'[c]] = trace[idx[c]] /\ (Last(c)' <=> Last(c))
  BY DEF Last
<1> QED
  BY <1>1, <1>2 DEF SameView, Fresh, Suspended, Active

\* A step of thread t that touches no coroutine but c.
LEMMA CtlFrame ==
  ASSUME TypeInv, CtlInv, sdk' = sdk, NEW t \in Threads, NEW c \in Coros,
         \A u \in Threads \ {t} : job'[u] = job[u] /\ (Working(u) => Co(u) \in Coros \ {c}),
         \A d \in Coros \ {c} : /\ life'[d] = life[d] /\ pending'[d] = pending[d]
                               /\ threw'[d] = threw[d] /\ SameView(d),
         JobOK(t)', LifeOK(c)', RustAlternates'
  PROVE  CtlInv'
<1>1. ASSUME NEW u \in Threads \ {t} PROVE JobOK(u)'
  <2>1. CASE Working(u)
    <3>1. SameView(Co(u)) /\ Co(u)' = Co(u) /\ JobOK(u) /\ job'[u] = job[u]
      BY <1>1, <2>1 DEF CtlInv, Co
    <3> QED
      BY <3>1 DEF SameView, JobOK, InWrite
  <2>2. CASE ~Working(u)
    BY <1>1, <2>2 DEF JobOK, InWrite, Working
  <2> QED
    BY <2>1, <2>2
<1>2. ASSUME NEW d \in Coros \ {c} PROVE LifeOK(d)'
  BY <1>2 DEF LifeOK, SameView, CtlInv
<1> QED
  BY <1>1, <1>2 DEF CtlInv

\* The thread that holds a coroutine is the only one.
LEMMA OthersElsewhere ==
  ASSUME TypeInv, HoldInv, NEW t \in Threads, NEW c \in Coros,
         (Working(t) /\ Co(t) = c) \/ life[c] # "running"
  PROVE  \A u \in Threads \ {t} : Working(u) => Co(u) \in Coros \ {c}
BY HoldsCoro DEF HoldInv

\* A sequence that is not empty has a first and a last element.
LEMMA NotEmpty ==
  ASSUME NEW S, NEW q \in Seq(S), q # <<>>
  PROVE  /\ Len(q) \in Nat \ {0} /\ DOMAIN q = 1 .. Len(q)
         /\ q[1] \in S /\ q[Len(q)] \in S
<1>1. Len(q) \in Nat /\ DOMAIN q = 1 .. Len(q) /\ q \in [1 .. Len(q) -> S]
  OBVIOUS
<1>2. Len(q) # 0
  BY EmptySeq
<1> QED
  BY <1>1, <1>2

\* The ticket a new coroutine draws is for a station nobody wrote in.
LEMMA NewStationEmpty ==
  ASSUME TypeInv, TicketInv, EventInv, NEW c \in Coros, ~Born(c)
  PROVE  allocated_count \in Stations => trace[allocated_count] = <<>>
<1> SUFFICES ASSUME allocated_count \in Stations, trace[allocated_count] # <<>>
             PROVE  FALSE
  OBVIOUS
<1> DEFINE Event == [by : Coros, is_active : BOOLEAN]
<1>1. trace[allocated_count] \in Seq(Event)
  BY DEF TypeInv
<1> HIDE DEF Event
<1>2. 1 \in DOMAIN trace[allocated_count] /\ trace[allocated_count][1] \in Event
  BY <1>1, NotEmpty
<1>3. PICK d \in Coros : idx[d] = allocated_count
  BY <1>2 DEF EventInv, Event
<1>4. allocated_count # NoTicket /\ allocated_count \in Nat
  BY NoTicketStation, Constants DEF Stations
<1> QED
  BY <1>3, <1>4 DEF TicketInv

\* Nothing is recorded at the start.
LEMMA InitCtlInv == Init => CtlInv
<1> SUFFICES ASSUME Init PROVE CtlInv
  OBVIOUS
<1>1. \A t \in Threads : JobOK(t)
  BY DEF Init, JobOK, InWrite, Idle
<1>2. \A c \in Coros : LifeOK(c)
  BY DEF Init, LifeOK
<1>3. RustAlternates
  BY DEF Init, RustAlternates
<1> QED
  BY <1>1, <1>2, <1>3 DEF CtlInv

\* The station a thread is writing in, and the event it adds.
LEMMA EndWriteTrace ==
  ASSUME TypeInv, HoldInv, TicketInv, CtlInv, NEW t \in Threads, EndWrite(t)
  PROVE  /\ Working(t) /\ Co(t) \in Coros /\ life[Co(t)] = "running" /\ HasStation(Co(t))
         /\ idx[Co(t)] \in Stations /\ job[t].pc = "writing"
         /\ job[t].is_active \in BOOLEAN /\ job[t].then \in {"run", "handoff", "pend"}
         /\ trace[idx[Co(t)]] \in Seq([by : Coros, is_active : BOOLEAN])
         /\ \A r \in Stations : trace'[r] =
              IF r = idx[Co(t)]
              THEN Append(trace[r], [by |-> Co(t), is_active |-> job[t].is_active])
              ELSE trace[r]
<1>1. job[t].pc = "writing" /\ Working(t) /\ InWrite(t)
  BY DEF EndWrite, At, Working, InWrite
<1>2. Co(t) \in Coros /\ life[Co(t)] = "running"
  BY <1>1, HoldsCoro
<1>3. job[t].is_active \in BOOLEAN /\ job[t].then \in {"run", "handoff", "pend"}
  BY <1>1, JobFields DEF TypeInv
<1>4. HasStation(Co(t))
  BY <1>1 DEF CtlInv, JobOK
<1>5. idx[Co(t)] \in Stations
  BY <1>2, <1>4, InStations
<1>6. [by |-> Co(t), is_active |-> job[t].is_active] \in [by : Coros, is_active : BOOLEAN]
  BY <1>2, <1>3
<1>7. trace' = [trace EXCEPT ![idx[Co(t)]] =
                  Append(@, [by |-> Co(t), is_active |-> job[t].is_active])]
  BY DEF EndWrite
<1>8. \A r \in Stations : trace'[r] =
        IF r = idx[Co(t)]
        THEN Append(trace[r], [by |-> Co(t), is_active |-> job[t].is_active])
        ELSE trace[r]
  BY <1>6, <1>7, TraceAppend
<1>9. trace[idx[Co(t)]] \in Seq([by : Coros, is_active : BOOLEAN])
  BY <1>5 DEF TypeInv
<1> QED
  BY <1>1, <1>2, <1>3, <1>4, <1>5, <1>8, <1>9

\* What Append does.
LEMMA Appended ==
  ASSUME NEW S, NEW q \in Seq(S), NEW e \in S
  PROVE  /\ Len(Append(q, e)) = Len(q) + 1 /\ Len(q) \in Nat /\ Append(q, e) # <<>>
         /\ DOMAIN Append(q, e) = 1 .. Len(q) + 1 /\ DOMAIN q = 1 .. Len(q)
         /\ \A k \in 1 .. Len(q) : Append(q, e)[k] = q[k]
         /\ Append(q, e)[Len(q) + 1] = e
BY AppendProperties

\* Events stay right while ids and headers stay.
LEMMA EventsKept ==
  ASSUME TypeInv, EventInv, UNCHANGED <<probe_id, trace, idx, id>>
  PROVE  EventInv'
BY DEF EventInv, IdNamesWriter

\* A new event is in its coroutine's station, which has the coroutine's probe_id.
LEMMA EventAdded ==
  ASSUME TypeInv, HoldInv, TicketInv, HeaderInv, EventInv, CtlInv,
         NEW t \in Threads, EndWrite(t)
  PROVE  EventInv'
<1> DEFINE Event == [by : Coros, is_active : BOOLEAN]
           s == idx[Co(t)]
           e == [by |-> Co(t), is_active |-> job[t].is_active]
<1>1. /\ Co(t) \in Coros /\ HasStation(Co(t)) /\ s \in Stations /\ job[t].pc = "writing"
      /\ trace[s] \in Seq(Event) /\ e \in Event
      /\ \A r \in Stations : trace'[r] = IF r = s THEN Append(trace[r], e) ELSE trace[r]
  BY EndWriteTrace
<1>2. UNCHANGED <<probe_id, idx, id>>
  BY DEF EndWrite
<1>3. ~Initing(Co(t))
  BY <1>1 DEF Initing, HoldInv, Working, Co
<1>4. probe_id[s] = id[Co(t)]
  BY <1>1, <1>3 DEF HeaderInv
<1>5. e.by = Co(t)
  OBVIOUS
<1> HIDE DEF e, s, Event
<1>6. /\ DOMAIN Append(trace[s], e) = 1 .. Len(trace[s]) + 1 /\ Len(trace[s]) \in Nat
      /\ DOMAIN trace[s] = 1 .. Len(trace[s])
      /\ \A k \in 1 .. Len(trace[s]) : Append(trace[s], e)[k] = trace[s][k]
      /\ Append(trace[s], e)[Len(trace[s]) + 1] = e
  BY <1>1, Appended
<1>7. trace'[s] = Append(trace[s], e)
  BY <1>1
<1>8. ASSUME NEW r \in Stations, NEW k \in DOMAIN trace'[r]
      PROVE  idx[trace'[r][k].by] = r /\ probe_id[r] = id[trace'[r][k].by]
  <2>1. CASE r # s
    BY <1>1, <1>8, <2>1 DEF EventInv, IdNamesWriter
  <2>2. CASE r = s /\ k # Len(trace[s]) + 1
    <3>1. k \in DOMAIN trace[s] /\ trace'[s][k] = trace[s][k]
      BY <1>8, <1>6, <1>7, <2>2
    <3> QED
      BY <2>2, <3>1 DEF EventInv, IdNamesWriter
  <2>3. CASE r = s /\ k = Len(trace[s]) + 1
    <3>1. trace'[s][k] = e
      BY <1>6, <1>7, <2>3
    <3> QED
      BY <1>4, <1>5, <2>3, <3>1 DEF s
  <2> QED
    BY <2>1, <2>2, <2>3
<1> QED
  BY <1>2, <1>8 DEF EventInv, IdNamesWriter

\* Every step keeps events under the id of their writer.
LEMMA NextEventInv ==
  /\ TypeInv /\ HoldInv /\ TicketInv /\ HeaderInv /\ CtlInv
  /\ EventInv /\ [Next]_vars
  => EventInv'
<1> SUFFICES ASSUME TypeInv, HoldInv, TicketInv, HeaderInv, CtlInv, EventInv, [Next]_vars
             PROVE  EventInv'
  OBVIOUS
<1>0. \A s \in Stations : \A k \in DOMAIN trace[s] : trace[s][k].by \in Coros
  <2> DEFINE Event == [by : Coros, is_active : BOOLEAN]
  <2>1. \A s \in Stations : trace[s] \in Seq(Event)
    BY DEF TypeInv
  <2>2. \A e \in Event : e.by \in Coros
    OBVIOUS
  <2> HIDE DEF Event
  <2>3. \A s \in Stations : \A k \in DOMAIN trace[s] : trace[s][k] \in Event
    BY <2>1
  <2> QED
    BY <2>2, <2>3
<1>1. CASE Quiet
  BY <1>1, EventsKept DEF Quiet
<1>2. ASSUME NEW t \in Threads, InitHeader(t) PROVE EventInv'
  <2>1. Co(t) \in Coros
    BY <1>2, HoldsCoro DEF InitHeader, At, Working
  <2>2. UNCHANGED <<trace, idx, id>>
    BY <1>2 DEF InitHeader
  <2>3. CASE UNCHANGED probe_id
    BY <2>2, <2>3, EventsKept
  <2>4. CASE HasStation(Co(t)) /\ probe_id' = [probe_id EXCEPT ![idx[Co(t)]] = id[Co(t)]]
    <3>1. idx[Co(t)] \in Stations /\ idx[Co(t)] # NoTicket
      BY <2>1, <2>4, InStations
    <3>2. \A s \in Stations : probe_id'[s] = IF s = idx[Co(t)] THEN id[Co(t)] ELSE probe_id[s]
      BY <2>4 DEF TypeInv
    <3>3. \A c \in Coros : idx[c] = idx[Co(t)] => c = Co(t)
      BY <2>1, <3>1 DEF TicketInv
    <3>4. \A s \in Stations : \A k \in DOMAIN trace[s] : probe_id'[s] = id[trace[s][k].by]
      BY <1>0, <3>2, <3>3 DEF EventInv, IdNamesWriter
    <3> QED
      BY <2>2, <3>4 DEF EventInv, IdNamesWriter
  <2> QED
    BY <1>2, <2>3, <2>4 DEF InitHeader
<1>3. ASSUME NEW t \in Threads, on_ready(t) PROVE EventInv'
  BY <1>3, EventsKept DEF on_ready
<1>4. ASSUME NEW t \in Threads, NEW c \in Coros, Destroy(t, c) PROVE EventInv'
  BY <1>4, EventsKept DEF Destroy
<1>5. ASSUME NEW t \in Threads, NEW c \in Coros, NewCoroutine(t, c) PROVE EventInv'
  <2>1. /\ UNCHANGED <<probe_id, trace>> /\ idx[c] = NoTicket
        /\ \A d \in Coros \ {c} : idx'[d] = idx[d] /\ id'[d] = id[d]
    BY <1>5, NewIds
  <2>2. \A s \in Stations : \A k \in DOMAIN trace[s] : trace[s][k].by \in Coros \ {c}
    BY <1>0, <2>1, NoTicketStation DEF EventInv
  <2> QED
    BY <2>1, <2>2 DEF EventInv, IdNamesWriter
<1> QED
  BY <1>1, <1>2, <1>3, <1>4, <1>5, EventAdded, NextShape

\* A step of the process itself.
LEMMA CtlKept ==
  ASSUME TypeInv, HoldInv, CtlInv, UNCHANGED <<sdk, n, idx, trace, life, pending, threw, job>>
  PROVE  CtlInv'
<1>1. \A c \in Coros : SameView(c)
  BY ViewKept
<1>2. ASSUME NEW t \in Threads PROVE JobOK(t)'
  <2>1. CASE Working(t)
    <3>1. Co(t) \in Coros
      BY <2>1, HoldsCoro
    <3> QED
      BY <1>1, <2>1, <3>1 DEF CtlInv, JobOK, SameView, InWrite, Co
  <2>2. CASE ~Working(t)
    BY <2>2 DEF JobOK, InWrite, Working
  <2> QED
    BY <2>1, <2>2
<1>3. \A c \in Coros : LifeOK(c)'
  BY <1>1 DEF CtlInv, LifeOK, SameView
<1>4. RustAlternates'
  BY DEF CtlInv, RustAlternates
<1> QED
  BY <1>2, <1>3, <1>4 DEF CtlInv

\* Every step but EndWrite leaves the events alone, and every step but NewCoroutine
\* the tickets: what is left is the thread's new job and its coroutine's new phase.
LEMMA CtlMove ==
  ASSUME TypeInv, HoldInv, CtlInv, UNCHANGED <<sdk, n, idx, trace>>,
         NEW t \in Threads, NEW c \in Coros,
         (Working(t) /\ Co(t) = c) \/ life[c] # "running",
         \A u \in Threads \ {t} : job'[u] = job[u],
         \A d \in Coros \ {c} : /\ life'[d] = life[d] /\ pending'[d] = pending[d]
                               /\ threw'[d] = threw[d],
         JobOK(t)', LifeOK(c)'
  PROVE  CtlInv'
<1>1. \A d \in Coros \ {c} : SameView(d)
  BY ViewKept
<1>2. RustAlternates'
  BY DEF CtlInv, RustAlternates
<1> QED
  BY <1>1, <1>2, OthersElsewhere, CtlFrame

\* EndWrite: the last event is the one the thread was to record.
LEMMA CtlWritten ==
  ASSUME TypeInv, HoldInv, TicketInv, CtlInv, NEW t \in Threads, EndWrite(t),
         NEW c \in Coros, Co(t) = c
  PROVE  CtlInv'
<1> DEFINE Event == [by : Coros, is_active : BOOLEAN]
           s == idx[c]
           q == trace[s]
           e == [by |-> c, is_active |-> job[t].is_active]
<1>1. /\ Working(t) /\ c \in Coros /\ life[c] = "running" /\ HasStation(c)
      /\ s \in Stations /\ job[t].pc = "writing" /\ q \in Seq(Event) /\ e \in Event
      /\ job[t].is_active \in BOOLEAN /\ job[t].then \in {"run", "handoff", "pend"}
      /\ \A r \in Stations : trace'[r] = IF r = s THEN Append(trace[r], e) ELSE trace[r]
  BY EndWriteTrace
<1>2. /\ UNCHANGED <<sdk, n, idx, life, pending>> /\ threw' = [threw EXCEPT ![c] = FALSE]
      /\ Go(t, job[t].then, c)
  BY <1>1 DEF EndWrite, static
<1>3. e.is_active = job[t].is_active
  OBVIOUS
<1>4. /\ job[t].then = "run" <=> job[t].is_active
      /\ job[t].then = "handoff" => sdk = "cpp"
      /\ sdk = "rust" => IF job[t].is_active THEN Suspended(c) ELSE Active(c)
  BY <1>1 DEF CtlInv, JobOK, InWrite
<1> HIDE DEF s, q, e, Event
<1>5. /\ Len(Append(q, e)) = Len(q) + 1 /\ Len(q) \in Nat /\ Append(q, e) # <<>>
      /\ DOMAIN Append(q, e) = 1 .. Len(q) + 1 /\ DOMAIN q = 1 .. Len(q)
      /\ \A k \in 1 .. Len(q) : Append(q, e)[k] = q[k]
      /\ Append(q, e)[Len(q) + 1] = e
  BY <1>1, Appended
<1>6. trace'[s] = Append(q, e)
  BY <1>1 DEF q
<1>7. \A d \in Coros : (HasStation(d)' <=> HasStation(d))
  BY <1>2 DEF HasStation, max_stations
<1>8. trace'[idx'[c]] # <<>> /\ (Last(c)' <=> job[t].is_active) /\ ~threw'[c]
  BY <1>1, <1>2, <1>3, <1>5, <1>6 DEF Last, s, TypeInv
<1>9. /\ \A u \in Threads \ {t} : job'[u] = job[u] /\ (Working(u) => Co(u) \in Coros \ {c})
      /\ job'[t].pc = job[t].then /\ Co(t)' = c
  <2>1. \A u \in Threads \ {t} : Working(u) => Co(u) \in Coros \ {c}
    BY <1>1, OthersElsewhere
  <2>2. (\A u \in Threads \ {t} : job'[u] = job[u]) /\ job'[t].pc = job[t].then /\ job'[t].co = c
    BY <1>1, <1>2, GoJob
  <2> QED
    BY <2>1, <2>2 DEF Co
<1>10. JobOK(t)'
  <2>1. Active(c)' <=> (job[t].is_active \/ ~HasStation(c))
    BY <1>7, <1>8 DEF Active
  <2>2. Suspended(c)' <=> (~job[t].is_active \/ ~HasStation(c))
    BY <1>7, <1>8 DEF Suspended
  <2> QED
    BY <1>1, <1>2, <1>4, <1>9, <2>1, <2>2 DEF JobOK, InWrite
<1>11. LifeOK(c)'
  BY <1>1, <1>2, <1>8 DEF LifeOK, CtlInv
<1>12. ASSUME NEW d \in Coros \ {c}
       PROVE  life'[d] = life[d] /\ pending'[d] = pending[d] /\ threw'[d] = threw[d] /\ SameView(d)
  <2>1. life'[d] = life[d] /\ pending'[d] = pending[d] /\ threw'[d] = threw[d]
    BY <1>2, <1>12 DEF TypeInv
  <2>2. CASE HasStation(d)
    <3>1. idx[d] \in Stations /\ idx[d] # s
      BY <1>1, <1>12, <2>2, InStations DEF TicketInv, s
    <3>2. trace'[idx'[d]] = trace[idx[d]] /\ (Last(d)' <=> Last(d))
      BY <1>1, <1>2, <3>1 DEF Last
    <3> QED
      BY <1>7, <2>1, <3>2 DEF SameView, Fresh, Suspended, Active
  <2>3. CASE ~HasStation(d)
    BY <1>7, <2>1, <2>3 DEF SameView, Fresh, Suspended, Active
  <2> QED
    BY <2>1, <2>2, <2>3
<1>13. RustAlternates'
  <2> SUFFICES ASSUME sdk = "rust", NEW r \in Stations, NEW k \in DOMAIN trace'[r]
               PROVE  trace'[r][k].is_active = (k % 2 = 0)
    BY <1>2 DEF RustAlternates
  <2>1. CASE r # s
    BY <1>1, <2>1 DEF CtlInv, RustAlternates
  <2>2. CASE r = s /\ k # Len(q) + 1
    <3>1. k \in DOMAIN trace[s] /\ trace'[s][k] = trace[s][k]
      BY <1>5, <1>6, <2>2 DEF q
    <3> QED
      BY <1>1, <2>2, <3>1 DEF CtlInv, RustAlternates
  <2>3. CASE r = s /\ k = Len(q) + 1
    <3>1. trace'[r][k].is_active = job[t].is_active
      BY <1>3, <1>5, <1>6, <2>3
    <3>2. CASE q = <<>>
      <4>1. ~job[t].is_active
        BY <1>1, <1>4, <3>2 DEF Suspended, q, s
      <4>2. k = 1
        BY <2>3, <3>2
      <4> QED
        BY <1>1, <3>1, <4>1, <4>2
    <3>3. CASE q # <<>>
      <4>1. Len(q) \in DOMAIN q
        BY <1>1, <3>3, NotEmpty
      <4>2. Last(c) = (Len(q) % 2 = 0)
        BY <1>1, <4>1 DEF CtlInv, RustAlternates, Last, q, s
      <4>3. job[t].is_active <=> ~Last(c)
        BY <1>1, <1>4, <3>3 DEF Suspended, Active, CtlInv, LifeOK, q, s
      <4>4. (Len(q) % 2 = 0) <=> ~((Len(q) + 1) % 2 = 0)
        BY <1>5
      <4> QED
        BY <1>1, <2>3, <3>1, <4>2, <4>3, <4>4
    <3> QED
      BY <3>2, <3>3
  <2> QED
    BY <2>1, <2>2, <2>3
<1> QED
  BY <1>1, <1>2, <1>9, <1>10, <1>11, <1>12, <1>13, CtlFrame

\* A thread that enters write_trace, or passes by it without a station.
LEMMA RecordOK ==
  ASSUME TypeInv, UNCHANGED <<sdk, n, idx, trace>>, NEW t \in Threads, NEW c \in Coros,
         threw'[c] = threw[c], NEW a \in BOOLEAN, NEW then \in {"run", "handoff", "pend"},
         Record(t, c, a, then), then = "run" <=> a, then = "handoff" => sdk = "cpp",
         sdk = "rust" => IF a THEN Suspended(c) ELSE Active(c)
  PROVE  JobOK(t)' /\ \A u \in Threads \ {t} : job'[u] = job[u]
<1>1. SameView(c)
  BY ViewKept
<1>2. /\ job'[t].co = c
      /\ IF HasStation(c)
         THEN job'[t].pc = "write" /\ job'[t].is_active = a /\ job'[t].then = then
         ELSE job'[t].pc = then
      /\ \A u \in Threads \ {t} : job'[u] = job[u]
  BY RecordJob
<1>3. CASE HasStation(c)
  BY <1>1, <1>2, <1>3 DEF JobOK, InWrite, SameView, Co
<1>4. CASE ~HasStation(c)
  <2>1. Active(c)' /\ Suspended(c)'
    BY <1>1, <1>4 DEF Active, Suspended, SameView
  <2> QED
    BY <1>2, <1>4, <2>1 DEF JobOK, InWrite, Co
<1> QED
  BY <1>3, <1>4

\* Every step keeps events and control in agreement.
LEMMA NextCtlInv ==
  /\ TypeInv /\ HoldInv /\ TicketInv /\ EventInv /\ CtlInv /\ [Next]_vars
  => CtlInv'
<1> SUFFICES ASSUME TypeInv, HoldInv, TicketInv, EventInv, CtlInv, [Next]_vars
             PROVE  CtlInv'
  OBVIOUS
<1> USE DEF static, shared, coro, inCoro
<1>1. CASE Attach \/ AttachFails \/ UNCHANGED vars
  BY <1>1, CtlKept DEF Attach, AttachFails, vars
<1>2. ASSUME NEW t \in Threads, job'[t].pc = "idle" PROVE JobOK(t)'
  BY <1>2 DEF JobOK, InWrite
<1>3. ASSUME NEW c \in Coros, NEW v \in Lives, Live(c, v)
      PROVE  life'[c] = v /\ \A d \in Coros \ {c} : life'[d] = life[d]
  BY <1>3 DEF Live, TypeInv
<1>4. ASSUME NEW t \in Threads, Working(t)
      PROVE  Co(t) \in Coros /\ life[Co(t)] = "running" /\ JobOK(t) /\ LifeOK(Co(t))
  BY <1>4, HoldsCoro DEF CtlInv
<1>5. \A t \in Threads : Free(t) => job[t].pc = "idle" /\ ~Working(t)
  BY DEF Free, Idle, Working
<1>6. ASSUME NEW t \in Threads, InitHeader(t), NEW c \in Coros, Co(t) = c PROVE CtlInv'
  <2>1. Working(t) /\ job[t].pc = "init" /\ UNCHANGED <<sdk, n, idx, trace, pending, threw>>
    BY <1>6 DEF InitHeader, At, Working
  <2>2. CASE UNCHANGED <<life, job>>
    BY <2>1, <2>2, CtlKept
  <2>3. CASE Live(c, "created") /\ Leave(t)
    <3>1. SameView(c)
      BY <2>1, ViewKept
    <3>2. LifeOK(c)'
      <4>1. life'[c] = "created" /\ Fresh(c) /\ LifeOK(c) /\ life[c] = "running"
        BY <1>3, <1>4, <1>6, <2>1, <2>3 DEF Lives, JobOK
      <4> QED
        BY <2>1, <3>1, <4>1 DEF LifeOK, SameView
    <3> QED
      BY <1>2, <1>3, <1>6, <2>1, <2>3, <3>2, LeaveJob, CtlMove DEF Lives
  <2> QED
    BY <1>6, <2>2, <2>3 DEF InitHeader
<1>7. ASSUME NEW t \in Threads, BeginWrite(t), NEW c \in Coros, Co(t) = c PROVE CtlInv'
  <2>1. Working(t) /\ UNCHANGED <<sdk, n, idx, trace, life, pending, threw>>
    BY <1>7 DEF BeginWrite, At, Working
  <2>2. SameView(c)
    BY <2>1, ViewKept
  <2>3. JobOK(t)' /\ \A u \in Threads \ {t} : job'[u] = job[u]
    BY <1>4, <1>7, <2>1, <2>2, BeginWriteJob DEF JobOK, InWrite, SameView, Co
  <2>4. LifeOK(c)'
    BY <1>4, <1>7, <2>1, <2>2 DEF LifeOK, SameView
  <2> QED
    BY <1>7, <2>1, <2>3, <2>4, CtlMove
<1>8. ASSUME NEW t \in Threads, AwaitReady(t) \/ await_suspend(t) \/ PollPending(t),
             NEW c \in Coros, Co(t) = c
      PROVE  CtlInv'
  <2>1. /\ Working(t) /\ UNCHANGED <<sdk, n, idx, trace, life, pending, threw>>
        /\ job[t].pc = "run"
    BY <1>8 DEF AwaitReady, await_suspend, PollPending, At, Working
  <2>2. SameView(c) /\ Active(c)
    BY <1>4, <1>8, <2>1, ViewKept DEF JobOK
  <2>3. \/ sdk = "cpp" /\ Record(t, c, TRUE, "run")
        \/ sdk = "cpp" /\ Record(t, c, FALSE, "handoff")
        \/ Record(t, c, FALSE, "pend")
    BY <1>8 DEF AwaitReady, await_suspend, PollPending
  <2>4. JobOK(t)' /\ \A u \in Threads \ {t} : job'[u] = job[u]
    BY <2>1, <2>2, <2>3, RecordOK
  <2>5. LifeOK(c)'
    BY <1>4, <1>8, <2>1, <2>2 DEF LifeOK, SameView
  <2> QED
    BY <1>8, <2>1, <2>4, <2>5, CtlMove
<1>9. ASSUME NEW t \in Threads, HandOff(t), NEW c \in Coros, Co(t) = c PROVE CtlInv'
  <2>1. /\ Working(t) /\ UNCHANGED <<sdk, n, idx, trace, pending>>
        /\ job[t].pc = "handoff"
    BY <1>9 DEF HandOff, At, Working
  <2>2. sdk = "cpp" /\ Suspended(c) /\ LifeOK(c) /\ life[c] = "running"
    BY <1>4, <1>9, <2>1 DEF JobOK
  <2>3. CASE Live(c, "parked") /\ Leave(t) /\ UNCHANGED threw
    <3>1. SameView(c) /\ life'[c] = "parked" /\ \A d \in Coros \ {c} : life'[d] = life[d]
      BY <1>3, <2>1, <2>3, ViewKept DEF Lives
    <3>2. LifeOK(c)'
      BY <2>1, <2>2, <3>1 DEF LifeOK, SameView, TypeInv
    <3> QED
      BY <1>2, <1>9, <2>1, <2>3, <3>1, <3>2, LeaveJob, CtlMove
  <2>4. CASE Record(t, c, TRUE, "run") /\ UNCHANGED <<life, threw>>
    <3>1. JobOK(t)' /\ \A u \in Threads \ {t} : job'[u] = job[u]
      BY <2>1, <2>2, <2>4, RecordOK
    <3>2. LifeOK(c)'
      BY <2>1, <2>2, <2>4 DEF LifeOK
    <3> QED
      BY <1>9, <2>1, <2>4, <3>1, <3>2, CtlMove
  <2>5. CASE threw' = [threw EXCEPT ![c] = HasStation(c)] /\ Go(t, "run", c) /\ UNCHANGED life
    <3>1. /\ \A u \in Threads \ {t} : job'[u] = job[u]
          /\ job'[t].co = c /\ job'[t].pc = "run"
      BY <2>5, GoJob
    <3>2. \A d \in Coros \ {c} : threw'[d] = threw[d]
      BY <2>5 DEF TypeInv
    <3>3. threw'[c] <=> HasStation(c)
      BY <2>5 DEF TypeInv
    <3>4. HasStation(c)' <=> HasStation(c)
      BY <2>1 DEF HasStation, max_stations
    <3>5. JobOK(t)'
      BY <3>1, <3>3, <3>4 DEF JobOK, Active, InWrite, Co
    <3>6. LifeOK(c)'
      BY <2>1, <2>2, <2>5 DEF LifeOK
    <3> QED
      BY <1>9, <2>1, <2>5, <3>1, <3>2, <3>5, <3>6, CtlMove
  <2> QED
    BY <1>9, <2>3, <2>4, <2>5 DEF HandOff
<1>10. ASSUME NEW t \in Threads, Return(t) \/ on_ready(t) \/ PollPanics(t),
              NEW c \in Coros, Co(t) = c
       PROVE  CtlInv'
  <2>1. /\ Working(t) /\ UNCHANGED <<sdk, n, idx, trace, pending, threw>>
        /\ job[t].pc = "run" /\ Live(c, "returned") /\ Leave(t)
    BY <1>10 DEF Return, on_ready, PollPanics, At, Working
  <2>2. SameView(c) /\ Active(c) /\ LifeOK(c) /\ life[c] = "running"
    BY <1>4, <1>10, <2>1, ViewKept DEF JobOK
  <2>3. life'[c] = "returned" /\ \A d \in Coros \ {c} : life'[d] = life[d]
    BY <1>3, <2>1 DEF Lives
  <2>4. LifeOK(c)'
    BY <2>1, <2>2, <2>3 DEF LifeOK, SameView
  <2> QED
    BY <1>2, <1>10, <2>1, <2>3, <2>4, LeaveJob, CtlMove
<1>11. ASSUME NEW t \in Threads, on_pending_addr(t), NEW c \in Coros, Co(t) = c PROVE CtlInv'
  <2>1. /\ Working(t) /\ UNCHANGED <<sdk, n, idx, trace, threw>> /\ job[t].pc = "pend"
        /\ pending' = [pending EXCEPT ![c] = TRUE] /\ Live(c, "parked") /\ Leave(t)
    BY <1>11 DEF on_pending_addr, At, Working
  <2>2. SameView(c) /\ Suspended(c) /\ LifeOK(c)
    BY <1>4, <1>11, <2>1, ViewKept DEF JobOK
  <2>3. /\ life'[c] = "parked" /\ \A d \in Coros \ {c} : life'[d] = life[d]
        /\ pending'[c] /\ \A d \in Coros \ {c} : pending'[d] = pending[d]
    BY <1>3, <2>1 DEF Lives, TypeInv
  <2>4. LifeOK(c)'
    BY <2>1, <2>2, <2>3 DEF LifeOK, SameView
  <2> QED
    BY <1>2, <1>11, <2>1, <2>3, <2>4, LeaveJob, CtlMove
<1>12. ASSUME NEW t \in Threads, NEW c \in Coros, NewCoroutine(t, c) PROVE CtlInv'
  <2>1. /\ life[c] = "unborn" /\ ~Born(c) /\ UNCHANGED <<sdk, n, trace, pending, threw>>
        /\ idx'[c] \in {NoTicket, allocated_count} /\ life'[c] = "running"
        /\ \A d \in Coros \ {c} : idx'[d] = idx[d] /\ life'[d] = life[d]
        /\ \A u \in Threads \ {t} : job'[u] = job[u]
        /\ job'[t].pc = "init" /\ job'[t].co = c
    BY <1>12, NewIds DEF Born
  <2>2. \A d \in Coros \ {c} : SameView(d)
    BY <2>1 DEF SameView, Fresh, Suspended, Active, Last, HasStation, max_stations
  <2>3. Fresh(c)'
    <3> SUFFICES ASSUME HasStation(c)' PROVE trace[idx'[c]] = <<>>
      BY <2>1 DEF Fresh
    <3>1. max_stations \in 0 .. WordMod - 1 /\ max_stations' = max_stations /\ WordMod \in Nat
      BY <2>1, MaxStations, Constants DEF max_stations
    <3>2. idx'[c] # NoTicket
      BY <3>1 DEF HasStation, NoTicket
    <3>3. allocated_count \in Stations
      BY <1>12, <2>1, FreshTicket
    <3> QED
      BY <2>1, <3>2, <3>3, NewStationEmpty
  <2>4. JobOK(t)'
    BY <2>1, <2>3 DEF JobOK, InWrite, Co
  <2>5. LifeOK(c)'
    BY <2>1 DEF LifeOK, CtlInv
  <2>6. RustAlternates'
    BY <2>1 DEF CtlInv, RustAlternates
  <2> QED
    BY <2>1, <2>2, <2>4, <2>5, <2>6, OthersElsewhere, CtlFrame
<1>13. ASSUME NEW t \in Threads, NEW c \in Coros,
              Start(t, c) \/ await_resume(t, c) \/ poll(t, c)
       PROVE  CtlInv'
  <2>1. /\ UNCHANGED <<sdk, n, idx, trace, threw>> /\ Live(c, "running")
        /\ life[c] \in {"created", "parked"} /\ LifeOK(c)
    BY <1>13 DEF Start, await_resume, poll, CtlInv
  <2>2. SameView(c) /\ life'[c] = "running" /\ \A d \in Coros \ {c} : life'[d] = life[d]
    BY <1>3, <2>1, ViewKept DEF Lives
  <2>3. /\ \A d \in Coros \ {c} : pending'[d] = pending[d]
        /\ sdk = "rust" => ~pending'[c]
    BY <1>13 DEF Start, await_resume, poll, TypeInv
  <2>4. \/ sdk = "cpp" /\ Record(t, c, TRUE, "run")
        \/ pending[c] /\ sdk = "rust" /\ Record(t, c, TRUE, "run")
        \/ (life[c] = "created" \/ (sdk = "rust" /\ ~pending[c])) /\ Go(t, "run", c)
    BY <1>13 DEF Start, await_resume, poll
  <2>5. JobOK(t)' /\ \A u \in Threads \ {t} : job'[u] = job[u]
    <3>1. CASE Record(t, c, TRUE, "run") /\ (sdk = "cpp" \/ pending[c])
      <4>1. sdk = "rust" => Suspended(c)
        BY <2>1, <3>1 DEF LifeOK
      <4> QED
        BY <2>1, <3>1, <4>1, RecordOK
    <3>2. CASE (life[c] = "created" \/ (sdk = "rust" /\ ~pending[c])) /\ Go(t, "run", c)
      <4>1. Active(c)'
        BY <2>1, <2>2, <3>2 DEF LifeOK, Fresh, Active, SameView
      <4>2. job'[t].co = c /\ job'[t].pc = "run" /\ \A u \in Threads \ {t} : job'[u] = job[u]
        BY <3>2, GoJob
      <4> QED
        BY <4>1, <4>2 DEF JobOK, InWrite, Co
    <3> QED
      BY <2>4, <3>1, <3>2
  <2>6. LifeOK(c)'
    BY <2>1, <2>2, <2>3 DEF LifeOK
  <2> QED
    BY <2>1, <2>2, <2>3, <2>5, <2>6, CtlMove
<1>14. ASSUME NEW t \in Threads, NEW c \in Coros, Destroy(t, c) PROVE CtlInv'
  <2>1. /\ UNCHANGED <<sdk, n, idx, trace, threw, job>> /\ Live(c, "gone")
        /\ life[c] # "running" /\ LifeOK(c) /\ job[t].pc = "idle"
        /\ pending' = [pending EXCEPT ![c] = FALSE]
    BY <1>5, <1>14 DEF Destroy, CtlInv
  <2>2. life'[c] = "gone" /\ \A d \in Coros \ {c} : life'[d] = life[d]
    BY <1>3, <2>1 DEF Lives
  <2>3. ~pending'[c] /\ \A d \in Coros \ {c} : pending'[d] = pending[d]
    BY <2>1 DEF TypeInv
  <2>4. LifeOK(c)' /\ JobOK(t)'
    BY <1>2, <2>1, <2>2, <2>3 DEF LifeOK
  <2> QED
    BY <2>1, <2>2, <2>3, <2>4, CtlMove
<1>15. ASSUME NEW t \in Threads, EndWrite(t), NEW c \in Coros, Co(t) = c PROVE CtlInv'
  BY <1>15, CtlWritten
<1>16. ASSUME NEW t \in Threads,
              \/ InitHeader(t) \/ BeginWrite(t) \/ EndWrite(t) \/ AwaitReady(t)
              \/ await_suspend(t) \/ HandOff(t) \/ Return(t) \/ PollPending(t)
              \/ on_pending_addr(t) \/ on_ready(t) \/ PollPanics(t)
       PROVE  Co(t) \in Coros
  BY <1>4, <1>16 DEF InitHeader, BeginWrite, EndWrite, AwaitReady, await_suspend, HandOff,
                     Return, PollPending, on_pending_addr, on_ready, PollPanics, At, Working
<1> QED
  BY <1>1, <1>6, <1>7, <1>8, <1>9, <1>10, <1>11, <1>12, <1>13, <1>14, <1>15, <1>16 DEF Next

-----------------------------------------------------------------------------
\* The inductive invariant.
IInv ==
  TypeInv /\ HoldInv /\ TicketInv /\ AttachInv /\ IdInv /\ HeaderInv /\ EventInv /\ CtlInv

\* It holds at the start, every step keeps it, and so it holds for good.
LEMMA Inductive == Spec => []IInv
<1>1. Init => IInv
  BY InitTypeInv, InitHoldInv, InitTicketInv, InitAttachInv, InitIdInv, InitHeaderInv,
     InitCtlInv DEF IInv
<1>2. IInv /\ [Next]_vars => IInv'
  BY NextTypeInv, NextHoldInv, NextTicketInv, NextAttachInv, NextIdInv, NextHeaderInv,
     NextEventInv, NextCtlInv DEF IInv
<1> QED
  BY <1>1, <1>2, PTL DEF Spec

\* Every variable keeps its type: allocated_count its 32 bits, next_probe_id at most
\* one more than the coroutines.
THEOREM TypesKept == Spec => []TypeOK
<1>1. IInv => TypeOK
  <2> SUFFICES ASSUME IInv PROVE TypeOK
    OBVIOUS
  <2> USE DEF IInv
  <2>1. next_probe_id \in 1 .. Cardinality(Coros) + 1
    BY BornCount, Constants DEF TicketInv
  <2>2. \A t \in Threads :
          job[t].pc \in {"idle", "init", "run", "write", "writing", "handoff", "pend"}
    BY JobFields DEF TypeInv
  <2> QED
    BY <2>1, <2>2 DEF TypeInv, TypeOK, Lives
<1> QED
  BY <1>1, Inductive, PTL

\* The seqlock has one writer: the coroutine a thread writes for is the thread's own
\* (HoldInv), it has a station (CtlInv), and no other has that ticket (TicketInv).
THEOREM SingleWriter == Spec => []OneWriter
<1>1. IInv => OneWriter
  <2> SUFFICES ASSUME IInv, NEW t \in Threads, NEW u \in Threads, NEW c \in Coros,
                      NEW d \in Coros, t # u, Writes(t, c), Writes(u, d), idx[c] = idx[d]
               PROVE  FALSE
    BY DEF OneWriter
  <2> USE DEF IInv
  <2>1. Working(t) /\ Co(t) = c /\ InWrite(t) /\ Working(u) /\ Co(u) = d
    BY DEF Writes, Working, InWrite
  <2>2. HasStation(c)
    BY <2>1 DEF CtlInv, JobOK
  <2>3. c = d
    BY <2>2, InStations DEF TicketInv
  <2> QED
    BY <2>1, <2>3 DEF HoldInv
<1> QED
  BY <1>1, Inductive, PTL

\* The probe_id a record is given is that of the coroutine that wrote the event.
THEOREM RecordsNamed == Spec => []IdNamesWriter
<1>1. IInv => IdNamesWriter
  BY DEF IInv, EventInv
<1> QED
  BY <1>1, Inductive, PTL

\* Two stations with one probe_id: one of them says is_dead.
THEOREM ReusedIdsDead == Spec => []IdReusedOnlyByDead
<1>1. IInv => IdReusedOnlyByDead
  <2> SUFFICES ASSUME IInv, NEW s \in Stations, NEW r \in Stations, s # r,
                      probe_id[s] # 0, probe_id[s] = probe_id[r]
               PROVE  is_dead[s] \/ is_dead[r]
    BY DEF IdReusedOnlyByDead
  <2> USE DEF IInv
  <2>1. PICK c \in Coros : HasStation(c) /\ idx[c] = s /\ id[c] = probe_id[s]
    BY DEF HeaderInv
  <2>2. PICK d \in Coros : HasStation(d) /\ idx[d] = r /\ id[d] = probe_id[r]
    BY DEF HeaderInv
  <2>3. Born(c) /\ Born(d) /\ c # d
    BY <2>1, <2>2, InStations
  <2>4. life[c] = "gone" \/ life[d] = "gone"
    BY <2>1, <2>2, <2>3 DEF IdInv
  <2> QED
    BY <2>1, <2>2, <2>4 DEF HeaderInv
<1> QED
  BY <1>1, Inductive, PTL

\* Once a station says is_dead, no event is written to it: the thread that writes
\* holds a running coroutine, and the one with this ticket has returned or is gone.
THEOREM DeadStaysSilent == Spec => NoPosthumousEvents
<1>1. IInv /\ [Next]_vars => \A s \in Stations : is_dead[s] => trace'[s] = trace[s]
  <2> SUFFICES ASSUME IInv, [Next]_vars, NEW s \in Stations, is_dead[s]
               PROVE  trace'[s] = trace[s]
    OBVIOUS
  <2> USE DEF IInv
  <2>1. CASE UNCHANGED trace
    BY <2>1
  <2>2. ASSUME NEW t \in Threads, EndWrite(t) PROVE trace'[s] = trace[s]
    <3>1. PICK c \in Coros : idx[c] = s /\ life[c] \in {"returned", "gone"}
      BY DEF HeaderInv
    <3>2. Co(t) \in Coros /\ life[Co(t)] = "running" /\ HasStation(Co(t))
      BY <2>2, EndWriteTrace
    <3>3. idx[Co(t)] # s
      BY <3>1, <3>2, InStations DEF TicketInv
    <3> QED
      BY <2>2, <3>3, EndWriteTrace
  <2>3. ASSUME NEW t \in Threads, InitHeader(t) \/ on_ready(t) PROVE UNCHANGED trace
    BY <2>3 DEF InitHeader, on_ready
  <2>4. ASSUME NEW t \in Threads, NEW c \in Coros, NewCoroutine(t, c) \/ Destroy(t, c)
        PROVE  UNCHANGED trace
    BY <2>4 DEF NewCoroutine, Destroy
  <2> QED
    BY <2>1, <2>2, <2>3, <2>4, NextShape DEF Quiet
<1> QED
  BY <1>1, Inductive, PTL DEF Spec, NoPosthumousEvents

\* The last event says what the coroutine does, but for an await_suspend that threw.
THEOREM LastEventRight == Spec => []StateShown
<1>1. IInv => StateShown
  <2> SUFFICES ASSUME IInv, NEW c \in Coros, HasStation(c), trace[idx[c]] # <<>>,
                      \A t \in Threads : job[t] # Idle /\ Co(t) = c => job[t].pc = "run"
               PROVE  /\ life[c] = "parked" => ~Last(c)
                      /\ life[c] \in {"running", "returned"} => Last(c) \/ threw[c]
    BY DEF StateShown, Last
  <2> USE DEF IInv
  <2>1. LifeOK(c)
    BY DEF CtlInv
  <2>2. CASE life[c] = "running"
    <3>1. PICK t \in Threads : Working(t) /\ Co(t) = c
      BY <2>2 DEF HoldInv
    <3>2. job[t].pc = "run"
      BY <3>1 DEF Working, Idle
    <3> QED
      BY <2>2, <3>1, <3>2 DEF CtlInv, JobOK, Active
  <2>3. CASE life[c] # "running"
    BY <2>1, <2>3 DEF LifeOK, Active, Suspended
  <2> QED
    BY <2>2, <2>3
<1> QED
  BY <1>1, Inductive, PTL

\* In Rust the events of a station are a suspend, a resume, a suspend ...
THEOREM RustEventsAlternate == Spec => []RustAlternates
<1>1. IInv => RustAlternates
  BY DEF IInv, CtlInv
<1> QED
  BY <1>1, Inductive, PTL

\* No access outside the mapping for any -n below 2^22.
THEOREM MappingHolds == Spec => []AttachSafe
<1>1. IInv => AttachSafe
  BY DEF IInv, AttachInv
<1> QED
  BY <1>1, Inductive, PTL
=============================================================================
