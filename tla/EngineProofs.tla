---------------------------- MODULE EngineProofs ----------------------------
(***************************************************************************)
(* The safety properties of Engine, proved for every number of processes,  *)
(* coroutines, stations, slots and events, and every socket buffer.        *)
(*                                                                         *)
(* Two hypotheses, each where it is needed and nowhere else:               *)
(*   NoWrap   fewer coroutines are born than allocated_count can count     *)
(*   OneProc  one tracee process (with two, EngineTwoSignal.cfg shows a    *)
(*            signal that wakes nobody)                                    *)
(*                                                                         *)
(* The invariants, in the order in which each is shown to be kept with the *)
(* help of those before it:                                                *)
(*   TypeInv    types                                                      *)
(*   TicketInv  no two coroutines have one ticket             (NoWrap)     *)
(*   ServeInv, QueueInv, DeadInv   connections and processes               *)
(*   SeqInv     who may write a slot, and what Harvest has read            *)
(*   FlagInv    a flag taken down wakes this Read             (OneProc)    *)
(*   IdleInv    nothing is harvested between Arm and Read                  *)
(*   WakeInv    no event is left behind the second scan       (OneProc)    *)
(*   FinalInv, ClosedInv   the last scan drains its process                *)
(***************************************************************************)
EXTENDS Engine, Integers, FiniteSetTheorems, SequenceTheorems, TLAPS

\* write_trace is between its odd and its even store.
Writing(q) == wpc[q] = "body" \/ buffered[q]

\* Types, and what keeps the counters within them.
TypeInv ==
  /\ TypeOK
  /\ \A q \in Probes : buffered[q] => wpc[q] = "fence"
  /\ \A q \in Probes : Writing(q) => HasStation(q) /\ event_count[q] < MaxEvents
  /\ epc = "validate" => st < lim

\* A remainder is below its modulus.
LEMMA ModBounds ==
  ASSUME NEW m \in Nat \ {0}, NEW a \in Nat
  PROVE  a % m \in 0 .. m - 1 /\ a % m <= a
OBVIOUS

\* The modulus leaves what is below it alone.
LEMMA ModSmall ==
  ASSUME NEW m \in Nat \ {0}, NEW a \in 0 .. m - 1
  PROVE  a % m = a
OBVIOUS

\* The constants, as the proofs use them.
LEMMA Constants ==
  /\ CountMod \in Nat \ {0} /\ MaxStations \in Nat /\ MaxStations < CountMod
  /\ RingSize \in Nat \ {0} /\ SockCap \in Nat \ {0} /\ WakeBuf \in Nat \ {0}
  /\ MaxEvents \in Nat /\ Owner \in [Probes -> Procs]
BY EngineAssumption

\* write_trace indexes the ring inside the ring.
LEMMA SlotOfRing ==
  ASSUME TypeOK, NEW q \in Probes
  PROVE  WriteSlot(q) \in Slots
<1>1. RingSize \in Nat \ {0} /\ event_count[q] \in Nat
  BY Constants DEF TypeOK
<1> QED
  BY <1>1, ModBounds DEF WriteSlot, Slots

\* A ticket below MaxStations names a station of the mapping.
LEMMA StationOf ==
  ASSUME TypeOK, NEW q \in Probes, HasStation(q)
  PROVE  idx[q] \in Stations
BY Constants DEF TypeOK, HasStation, Stations

\* A store to one slot.
LEMMA StoreSeq ==
  ASSUME TypeOK, NEW s, NEW i, NEW v \in Nat, seq' = [seq EXCEPT ![s][i] = v]
  PROVE  /\ seq' \in [Stations -> [Slots -> Nat]]
         /\ \A r \in Stations, j \in Slots :
              seq'[r][j] = IF r = s /\ j = i THEN v ELSE seq[r][j]
BY DEF TypeOK

\* The cursor of doScan after a slot.
LEMMA AdvanceBounds ==
  ASSUME TypeOK, st < lim, Advance
  PROVE  st' \in 0 .. MaxStations /\ ri' \in Slots
<1>1. RingSize \in Nat \ {0} /\ MaxStations \in Nat
  BY Constants
<1> QED
  BY <1>1 DEF TypeOK, Advance, Slots

\* A fresh engine has the types.
LEMMA InitTypeInv == Init => TypeInv
<1> SUFFICES ASSUME Init PROVE TypeInv
  OBVIOUS
<1>1. 0 \in Slots /\ 0 \in 0 .. MaxStations /\ 0 \in 0 .. CountMod - 1 /\ 0 \in 0 .. SockCap
        /\ 0 \in 0 .. MaxEvents
  BY Constants DEF Slots
<1>2. seq \in [Stations -> [Slots -> Nat]] /\ lastSeen = seq /\ flushed = seq
  BY DEF Init
<1>3. backlog \in Seq(Procs)
  BY EmptySeq DEF Init
<1>4. TypeOK
  BY <1>1, <1>2, <1>3 DEF Init, TypeOK
<1> QED
  BY <1>4 DEF Init, TypeInv, Writing

\* Every step keeps the types: one step per action.
LEMMA NextTypeInv == TypeInv /\ [Next]_vars => TypeInv'
<1> SUFFICES ASSUME TypeInv, [Next]_vars PROVE TypeInv'
  OBVIOUS
<1> USE DEF memVars, procVars, probeVars, scanVars, engineVars
<1>0. TypeOK
  BY DEF TypeInv
<1>1. ASSUME TypeOK', UNCHANGED <<probeVars, epc, st, lim>> PROVE TypeInv'
  BY <1>1 DEF TypeInv, Writing, HasStation
<1>2. ASSUME NEW p \in Procs, AttachConnected(p) PROVE TypeInv'
  <2>1. TypeOK'
    BY <1>0, <1>2 DEF AttachConnected, TypeOK
  <2> QED
    BY <1>1, <1>2, <2>1 DEF AttachConnected
<1>3. ASSUME NEW p \in Procs, AttachNoFd(p) PROVE TypeInv'
  <2>1. TypeOK'
    BY <1>0, <1>3 DEF AttachNoFd, TypeOK
  <2> QED
    BY <1>1, <1>3, <2>1 DEF AttachNoFd
<1>4. ASSUME NEW p \in Procs, Exit(p) PROVE TypeInv'
  <2>1. TypeOK'
    BY <1>0, <1>4 DEF Exit, TypeOK
  <2>2. \A q \in Probes : wpc'[q] \in {wpc[q], "dead"} /\ (buffered[q] => wpc'[q] = wpc[q])
    BY <1>4 DEF Exit
  <2> QED
    BY <1>4, <2>1, <2>2 DEF Exit, TypeInv, Writing, HasStation
<1>5. ASSUME NEW q \in Probes, Birth(q) PROVE TypeInv'
  <2>1. CountMod \in Nat \ {0} /\ allocated_count + 1 \in Nat
    BY <1>0, Constants DEF TypeOK
  <2>2. allocated_count' \in 0 .. CountMod - 1
    BY <1>5, <2>1, ModBounds DEF Birth
  <2>3. TypeOK'
    BY <1>0, <1>5, <2>2 DEF Birth, TypeOK
  <2>4. ~buffered[q] /\ wpc'[q] = "idle" /\ buffered' = buffered
    BY <1>0, <1>5 DEF Birth, TypeInv, TypeOK
  <2>5. \A r \in Probes \ {q} : wpc'[r] = wpc[r] /\ idx'[r] = idx[r]
    BY <1>0, <1>5 DEF Birth, TypeOK
  <2> QED
    BY <1>5, <2>3, <2>4, <2>5 DEF Birth, TypeInv, Writing, HasStation
<1>6. ASSUME NEW q \in Probes, NEW v \in {"idle", "check", "cas", "wake", "dead"},
             wpc[q] \in {"idle", "fence", "check", "cas", "wake"}, ~buffered[q],
             wpc' = [wpc EXCEPT ![q] = v], UNCHANGED <<idx, event_count, buffered, epc, st, lim>>,
             TypeOK'
      PROVE  TypeInv'
  BY <1>0, <1>6 DEF TypeInv, TypeOK, Writing, HasStation
<1>7. ASSUME NEW q \in Probes, Die(q) PROVE TypeInv'
  BY <1>0, <1>6, <1>7 DEF Die, TypeOK, TypeInv
<1>8. ASSUME NEW q \in Probes, BeginWrite(q) PROVE TypeInv'
  <2>1. idx[q] \in Stations /\ WriteSlot(q) \in Slots
    BY <1>0, <1>8, SlotOfRing, StationOf DEF BeginWrite
  <2>2. seq[idx[q]][WriteSlot(q)] + 1 \in Nat /\ old_seq' \in [Probes -> Nat]
    BY <1>0, <1>8, <2>1 DEF BeginWrite, TypeOK
  <2>3. seq' \in [Stations -> [Slots -> Nat]]
    BY <1>0, <1>8, <2>2, StoreSeq DEF BeginWrite
  <2>4. TypeOK'
    BY <1>0, <1>8, <2>2, <2>3 DEF BeginWrite, TypeOK
  <2> QED
    BY <1>0, <1>8, <2>4 DEF BeginWrite, TypeInv, TypeOK, Writing, HasStation
<1>9. ASSUME NEW q \in Probes, IssueEven(q) PROVE TypeInv'
  <2>1. TypeOK'
    BY <1>0, <1>9 DEF IssueEven, TypeOK
  <2> QED
    BY <1>0, <1>9, <2>1 DEF IssueEven, TypeInv, TypeOK, Writing, HasStation
<1>10. ASSUME NEW q \in Probes, Publish(q) PROVE TypeInv'
  <2>1. event_count[q] < MaxEvents /\ old_seq[q] + 2 \in Nat
    BY <1>0, <1>10 DEF Publish, TypeInv, TypeOK, Writing
  <2>2. seq' \in [Stations -> [Slots -> Nat]]
    BY <1>0, <1>10, <2>1, StoreSeq DEF Publish
  <2>3. event_count' \in [Probes -> 0 .. MaxEvents]
    BY <1>0, <1>10, <2>1, Constants DEF Publish, TypeOK
  <2>4. TypeOK'
    BY <1>0, <1>10, <2>2, <2>3 DEF Publish, TypeOK
  <2>5. wpc[q] = "fence"
    BY <1>10 DEF Publish, TypeInv
  <2> QED
    BY <1>0, <1>10, <2>4, <2>5 DEF Publish, TypeInv, TypeOK, Writing, HasStation
<1>11. ASSUME NEW q \in Probes, Fence(q) PROVE TypeInv'
  BY <1>0, <1>6, <1>11 DEF Fence, TypeOK
<1>12. ASSUME NEW q \in Probes, CheckFlag(q) PROVE TypeInv'
  BY <1>0, <1>6, <1>12 DEF CheckFlag, TypeOK, TypeInv
<1>13. ASSUME NEW q \in Probes, CasFlag(q) PROVE TypeInv'
  BY <1>0, <1>6, <1>13 DEF CasFlag, TypeOK, TypeInv
<1>14. ASSUME NEW q \in Probes, trigger_uds_wakeup(q) PROVE TypeInv'
  <2>1. wire' \in [Procs -> 0 .. SockCap]
    <3>1. SockCap \in Nat \ {0} /\ wire \in [Procs -> 0 .. SockCap] /\ Owner[q] \in Procs
      BY <1>0, Constants DEF TypeOK
    <3>2. Least(wire[Owner[q]] + 1, SockCap) \in 0 .. SockCap
      BY <3>1 DEF Least
    <3> QED
      BY <1>14, <3>1, <3>2 DEF trigger_uds_wakeup
  <2> QED
    BY <1>0, <1>6, <1>14, <2>1 DEF trigger_uds_wakeup, TypeOK, TypeInv
<1>15. CASE Accept
  <2>1. Head(backlog) \in Procs /\ Tail(backlog) \in Seq(Procs)
    BY <1>0, <1>15 DEF Accept, TypeOK
  <2>2. TypeOK'
    BY <1>0, <1>15, <2>1 DEF Accept, TypeOK
  <2> QED
    BY <1>15, <2>2 DEF Accept, TypeInv, Writing, HasStation
<1>16. CASE BeginScan
  <2>1. lim' \in 0 .. MaxStations /\ st' \in 0 .. MaxStations /\ ri' \in Slots
    BY <1>0, <1>16, Constants DEF BeginScan, TypeOK, Least, Slots
  <2>2. TypeOK'
    BY <1>0, <1>16, <2>1 DEF BeginScan, TypeOK
  <2> QED
    BY <1>16, <2>2 DEF BeginScan, TypeInv, Writing, HasStation
<1>17. CASE ReadSeq1
  <2>1. st \in Stations /\ ri \in Slots /\ st < lim
    BY <1>0, <1>17, Constants DEF ReadSeq1, TypeOK, Stations
  <2>2. seq1' \in Nat
    BY <1>0, <1>17, <2>1 DEF ReadSeq1, TypeOK
  <2>3. st' \in 0 .. MaxStations /\ ri' \in Slots
    BY <1>0, <1>17, <2>1, AdvanceBounds DEF ReadSeq1, TypeOK
  <2>4. epc' \in {"slot", "validate"} /\ (epc' = "validate" => st' = st) /\ lim' = lim
    BY <1>17 DEF ReadSeq1
  <2>5. TypeOK'
    BY <1>0, <1>17, <2>2, <2>3, <2>4 DEF ReadSeq1, TypeOK
  <2> QED
    BY <1>17, <2>1, <2>4, <2>5 DEF ReadSeq1, TypeInv, Writing, HasStation
<1>18. CASE Validate
  <2>1. st < lim
    BY <1>18 DEF Validate, TypeInv
  <2>2. st' \in 0 .. MaxStations /\ ri' \in Slots
    BY <1>0, <1>18, <2>1, AdvanceBounds DEF Validate
  <2>3. lastSeen' \in [Stations -> [Slots -> Nat]] /\ harvested' \in BOOLEAN
    <3>1. lastSeen \in [Stations -> [Slots -> Nat]] /\ harvested \in BOOLEAN /\ seq1 \in Nat
      BY <1>0 DEF TypeOK
    <3>2. \/ lastSeen' = [lastSeen EXCEPT ![st][ri] = seq1] /\ harvested' = TRUE
          \/ UNCHANGED <<lastSeen, harvested>>
      BY <1>18 DEF Validate
    <3>3. ASSUME lastSeen' = [lastSeen EXCEPT ![st][ri] = seq1]
          PROVE  lastSeen' \in [Stations -> [Slots -> Nat]]
      BY <3>1, <3>3
    <3> QED
      BY <3>1, <3>2, <3>3
  <2>4. TypeOK'
    BY <1>0, <1>18, <2>2, <2>3 DEF Validate, TypeOK
  <2> QED
    BY <1>18, <2>4 DEF Validate, TypeInv, Writing, HasStation
<1>19. CASE Rescan \/ Arm \/ Disarm \/ GoToSleep
  <2>1. TypeOK'
    BY <1>0, <1>19 DEF Rescan, Arm, Disarm, GoToSleep, TypeOK
  <2> QED
    BY <1>19, <2>1 DEF Rescan, Arm, Disarm, GoToSleep, TypeInv, Writing, HasStation
<1>20. CASE ReadWakeup
  <2>1. wire' \in [Procs -> 0 .. SockCap]
    BY <1>0, <1>20, Constants DEF ReadWakeup, TypeOK, Least
  <2>2. TypeOK'
    BY <1>0, <1>20, <2>1 DEF ReadWakeup, TypeOK
  <2> QED
    BY <1>20, <2>2 DEF ReadWakeup, TypeInv, Writing, HasStation
<1>21. CASE ClearFlag \/ Timeout \/ Disconnect \/ CloseConn
  <2>1. TypeOK'
    BY <1>0, <1>21 DEF ClearFlag, Timeout, Disconnect, CloseConn, TypeOK
  <2> QED
    BY <1>21, <2>1 DEF ClearFlag, Timeout, Disconnect, CloseConn, TypeInv, Writing, HasStation
<1>22. CASE UNCHANGED vars
  BY <1>0, <1>1, <1>22 DEF vars, TypeOK
<1> QED
  BY <1>2, <1>3, <1>4, <1>5, <1>7, <1>8, <1>9, <1>10, <1>11, <1>12, <1>13, <1>14, <1>15,
     <1>16, <1>17, <1>18, <1>19, <1>20, <1>21, <1>22
     DEF Next, Tracee, write_trace, hotHarvestLoop, doScan

-----------------------------------------------------------------------------
\* allocated_count does not wrap: there are fewer coroutines than its 32 bits count.
NoWrap == IsFiniteSet(Probes) /\ Cardinality(Probes) < CountMod

\* The constructor has run.
Born(q) == wpc[q] # "unborn"
BornSet == {q \in Probes : Born(q)}

\* Every coroutine draws a ticket of its own.
TicketInv ==
  /\ allocated_count = Cardinality(BornSet)
  /\ \A q \in Probes : Born(q) => idx[q] < allocated_count
  /\ \A q, r \in Probes : Born(q) /\ Born(r) /\ idx[q] = idx[r] => q = r

\* A coroutine that exists is past its birth for good, and only Birth draws tickets.
LEMMA OldTickets ==
  ASSUME TypeInv, [Next]_vars, \A q \in Probes : ~Birth(q)
  PROVE  UNCHANGED <<allocated_count, idx>> /\ \A q \in Probes : (Born(q)' <=> Born(q))
<1> USE DEF memVars, procVars, probeVars, scanVars, engineVars
<1>1. ASSUME UNCHANGED <<allocated_count, idx, wpc>>
      PROVE  UNCHANGED <<allocated_count, idx>> /\ \A q \in Probes : (Born(q)' <=> Born(q))
  BY <1>1 DEF Born
<1>2. ASSUME NEW q \in Probes, UNCHANGED <<allocated_count, idx>>, Born(q), NEW v,
             v # "unborn", wpc' = [wpc EXCEPT ![q] = v]
      PROVE  UNCHANGED <<allocated_count, idx>> /\ \A r \in Probes : (Born(r)' <=> Born(r))
  BY <1>2 DEF Born, TypeInv, TypeOK
<1>3. ASSUME NEW p \in Procs, AttachConnected(p) \/ AttachNoFd(p)
      PROVE  UNCHANGED <<allocated_count, idx, wpc>>
  BY <1>3 DEF AttachConnected, AttachNoFd
<1>4. ASSUME NEW p \in Procs, Exit(p)
      PROVE  UNCHANGED <<allocated_count, idx>> /\ \A q \in Probes : (Born(q)' <=> Born(q))
  BY <1>4 DEF Exit, Born
<1>5. ASSUME NEW q \in Probes, Die(q) \/ BeginWrite(q) \/ IssueEven(q) \/ Fence(q)
                                \/ CheckFlag(q) \/ CasFlag(q) \/ trigger_uds_wakeup(q)
      PROVE  /\ UNCHANGED <<allocated_count, idx>> /\ Born(q)
             /\ \E v \in {"idle", "body", "fence", "check", "cas", "wake", "dead"} :
                  wpc' = [wpc EXCEPT ![q] = v]
  BY <1>5 DEF Die, BeginWrite, IssueEven, Fence, CheckFlag, CasFlag, trigger_uds_wakeup, Born
<1>6. ASSUME NEW q \in Probes, Publish(q) PROVE UNCHANGED <<allocated_count, idx, wpc>>
  BY <1>6 DEF Publish
<1>7. ASSUME hotHarvestLoop \/ Timeout \/ UNCHANGED vars
      PROVE  UNCHANGED <<allocated_count, idx, wpc>>
  BY <1>7 DEF hotHarvestLoop, Accept, doScan, BeginScan, ReadSeq1, Validate, Rescan, Arm,
              Disarm, GoToSleep, ReadWakeup, ClearFlag, Disconnect, CloseConn, Timeout, vars
<1> QED
  BY <1>1, <1>2, <1>3, <1>4, <1>5, <1>6, <1>7 DEF Next, Tracee, write_trace

\* Finitely many coroutines have been born.
LEMMA BornCount ==
  ASSUME NoWrap
  PROVE  IsFiniteSet(BornSet) /\ Cardinality(BornSet) \in 0 .. Cardinality(Probes)
           /\ Cardinality(Probes) \in Nat
<1>1. BornSet \in SUBSET Probes
  BY DEF BornSet
<1> QED
  BY <1>1, FS_Subset, FS_CardinalityType DEF NoWrap

\* Birth takes the next ticket, and allocated_count does not wrap.
LEMMA BirthTicket ==
  ASSUME NoWrap, TypeInv, TicketInv, NEW q \in Probes, Birth(q)
  PROVE  /\ ~Born(q) /\ wpc'[q] = "idle" /\ idx'[q] = allocated_count
         /\ allocated_count' = allocated_count + 1
         /\ allocated_count' = Cardinality(BornSet')
         /\ \A r \in Probes \ {q} : wpc'[r] = wpc[r] /\ idx'[r] = idx[r]
<1>1. ~Born(q) /\ wpc' = [wpc EXCEPT ![q] = "idle"] /\ idx' = [idx EXCEPT ![q] = allocated_count]
  BY DEF Birth, Born
<1>2. BornSet' = BornSet \cup {q} /\ q \notin BornSet
  BY <1>1 DEF BornSet, Born, TypeInv, TypeOK
<1>3. Cardinality(BornSet') = Cardinality(BornSet) + 1
  BY <1>2, BornCount, FS_AddElement
<1>4. Cardinality(BornSet') <= Cardinality(Probes)
  <2>1. BornSet' \in SUBSET Probes
    BY DEF BornSet
  <2> QED
    BY <2>1, FS_Subset DEF NoWrap
<1>5. CountMod \in Nat \ {0} /\ allocated_count + 1 \in 0 .. CountMod - 1
  BY <1>3, <1>4, BornCount, Constants DEF TicketInv, NoWrap
<1>6. allocated_count' = allocated_count + 1
  BY <1>5, ModSmall DEF Birth
<1> QED
  BY <1>1, <1>3, <1>6 DEF TicketInv, TypeInv, TypeOK

\* No ticket is out when the engine starts.
LEMMA InitTicketInv == Init => TicketInv
<1> SUFFICES ASSUME Init PROVE TicketInv
  OBVIOUS
<1>1. BornSet = {}
  BY DEF Init, BornSet, Born
<1>2. Cardinality(BornSet) = 0
  BY <1>1, FS_EmptySet
<1> QED
  BY <1>2 DEF Init, TicketInv, Born

\* Every step keeps the tickets apart; only Birth draws one.
LEMMA NextTicketInv ==
  ASSUME NoWrap, TypeInv, TicketInv, [Next]_vars
  PROVE  TicketInv'
<1>1. CASE \A q \in Probes : ~Birth(q)
  <2>1. BornSet' = BornSet
    BY <1>1, OldTickets DEF BornSet
  <2> QED
    BY <1>1, <2>1, OldTickets DEF TicketInv
<1>2. ASSUME NEW q \in Probes, Birth(q) PROVE TicketInv'
  <2>1. /\ ~Born(q) /\ idx'[q] = allocated_count /\ allocated_count' = allocated_count + 1
        /\ allocated_count' = Cardinality(BornSet') /\ allocated_count \in Nat
        /\ \A r \in Probes \ {q} : wpc'[r] = wpc[r] /\ idx'[r] = idx[r]
    BY <1>2, BirthTicket DEF TypeInv, TypeOK
  <2>2. \A r \in Probes \ {q} : (Born(r)' <=> Born(r)) /\ (Born(r) => idx[r] < allocated_count)
    BY <2>1 DEF Born, TicketInv
  <2>3. \A r \in Probes : idx[r] \in Nat
    BY DEF TypeInv, TypeOK
  <2>4. \A r \in Probes : Born(r)' => idx'[r] < allocated_count'
    BY <2>1, <2>2, <2>3
  <2>5. \A r, u \in Probes : Born(r)' /\ Born(u)' /\ idx'[r] = idx'[u] => r = u
    BY <2>1, <2>2, <2>3 DEF TicketInv
  <2> QED
    BY <2>1, <2>4, <2>5 DEF TicketInv
<1> QED
  BY <1>1, <1>2

-----------------------------------------------------------------------------
\* hotHarvestLoop serves one connection, and its process is dead before the last scan.
ServeInv ==
  epc # "accept" => link[cur] = "serving" /\ (phase = "final" => ~alive[cur])

\* Every connection waits for Accept once.
QueueInv ==
  /\ \A k \in DOMAIN backlog : link[backlog[k]] = "queued"
  /\ \A j, k \in DOMAIN backlog : backlog[j] = backlog[k] => j = k

\* A process that has ended has no coroutine that runs and no store on its way.
DeadInv ==
  /\ \A p \in Procs : link[p] = "closed" => ~alive[p]
  /\ \A q \in Probes : Born(q) => link[Owner[q]] # "none"
  /\ \A q \in Probes : ~alive[Owner[q]] => wpc[q] \in {"unborn", "dead"} /\ ~buffered[q]

\* No connection is there when the engine starts.
LEMMA InitLinkInv == Init => ServeInv /\ QueueInv /\ DeadInv
<1> SUFFICES ASSUME Init PROVE ServeInv /\ QueueInv /\ DeadInv
  OBVIOUS
<1>1. ServeInv
  BY DEF Init, ServeInv
<1>2. QueueInv
  BY DEF Init, QueueInv
<1>3. DeadInv
  BY Constants DEF Init, DeadInv, Born
<1> QED
  BY <1>1, <1>2, <1>3

\* The steps that touch connections.
LEMMA LinkSteps ==
  ASSUME TypeInv, [Next]_vars
  PROVE  \/ UNCHANGED <<link, backlog>>
         \/ \E p \in Procs : AttachConnected(p) \/ AttachNoFd(p)
         \/ Accept \/ CloseConn
<1> USE DEF memVars, procVars, probeVars, scanVars, engineVars
<1>1. ASSUME NEW q \in Probes, Birth(q) \/ Die(q) \/ BeginWrite(q) \/ write_trace(q)
      PROVE  UNCHANGED <<link, backlog>>
  BY <1>1 DEF Birth, Die, BeginWrite, write_trace, IssueEven, Publish, Fence, CheckFlag,
              CasFlag, trigger_uds_wakeup
<1>2. ASSUME NEW p \in Procs, Exit(p) PROVE UNCHANGED <<link, backlog>>
  BY <1>2 DEF Exit
<1>3. ASSUME doScan \/ Rescan \/ Arm \/ Disarm \/ GoToSleep \/ ReadWakeup \/ ClearFlag
               \/ Disconnect \/ Timeout \/ UNCHANGED vars
      PROVE  UNCHANGED <<link, backlog>>
  BY <1>3 DEF doScan, BeginScan, ReadSeq1, Validate, Rescan, Arm, Disarm, GoToSleep,
              ReadWakeup, ClearFlag, Disconnect, Timeout, vars
<1> QED
  BY <1>1, <1>2, <1>3 DEF Next, Tracee, hotHarvestLoop

\* A connection enters the backlog once and leaves it in Accept.
LEMMA NextQueueInv ==
  ASSUME TypeInv, ServeInv, QueueInv, [Next]_vars
  PROVE  QueueInv'
<1>0. backlog \in Seq(Procs) /\ cur \in Procs /\ DOMAIN link = Procs
  BY DEF TypeInv, TypeOK
<1>1. CASE UNCHANGED <<link, backlog>>
  BY <1>1 DEF QueueInv
<1>2. ASSUME NEW p \in Procs, AttachConnected(p) PROVE QueueInv'
  <2>1. /\ link[p] = "none" /\ backlog' = Append(backlog, p)
        /\ link' = [link EXCEPT ![p] = "queued"]
    BY <1>2 DEF AttachConnected
  <2>2. /\ Len(backlog) \in Nat /\ DOMAIN backlog = 1 .. Len(backlog)
        /\ DOMAIN backlog' = 1 .. Len(backlog) + 1 /\ backlog'[Len(backlog) + 1] = p
        /\ \A k \in 1 .. Len(backlog) : backlog'[k] = backlog[k] /\ backlog[k] \in Procs \ {p}
    BY <1>0, <2>1 DEF QueueInv
  <2> QED
    BY <1>0, <2>1, <2>2 DEF QueueInv
<1>3. ASSUME NEW p \in Procs, AttachNoFd(p) PROVE QueueInv'
  BY <1>0, <1>3 DEF AttachNoFd, QueueInv, engineVars
<1>4. CASE Accept
  <2>1. /\ backlog # <<>> /\ backlog' = Tail(backlog)
        /\ link' = [link EXCEPT ![Head(backlog)] = "serving"]
    BY <1>4 DEF Accept
  <2>2. /\ Len(backlog) \in Nat \ {0} /\ DOMAIN backlog = 1 .. Len(backlog)
        /\ Head(backlog) = backlog[1] /\ DOMAIN backlog' = 1 .. Len(backlog) - 1
        /\ \A k \in 1 .. Len(backlog) - 1 : backlog'[k] = backlog[k + 1]
    <3>1. Len(backlog) \in Nat \ {0} /\ DOMAIN backlog = 1 .. Len(backlog)
      BY <1>0, <2>1, EmptySeq
    <3> QED
      BY <1>0, <2>1, <3>1
  <2>3. \A k \in 1 .. Len(backlog) - 1 :
          /\ k + 1 \in DOMAIN backlog /\ backlog[k + 1] \in Procs
          /\ backlog[k + 1] # backlog[1] /\ 1 \in DOMAIN backlog
    BY <1>0, <2>2 DEF QueueInv
  <2>4. \A k \in DOMAIN backlog' : link'[backlog'[k]] = "queued"
    BY <1>0, <2>1, <2>2, <2>3 DEF QueueInv
  <2>5. \A j, k \in DOMAIN backlog' : backlog'[j] = backlog'[k] => j = k
    BY <2>2, <2>3 DEF QueueInv
  <2> QED
    BY <2>4, <2>5 DEF QueueInv
<1>5. CASE CloseConn
  BY <1>0, <1>5 DEF CloseConn, ScanDone, ServeInv, QueueInv
<1> QED
  BY <1>1, <1>2, <1>3, <1>4, <1>5, LinkSteps

\* Run serves one connection at a time, to its end.
LEMMA NextServeInv ==
  ASSUME TypeInv, ServeInv, QueueInv, [Next]_vars
  PROVE  ServeInv'
<1> USE DEF memVars, procVars, probeVars, scanVars, engineVars
<1>0. cur \in Procs /\ DOMAIN link = Procs /\ DOMAIN alive = Procs
  BY DEF TypeInv, TypeOK
<1>1. ASSUME NEW p \in Procs, AttachConnected(p) \/ AttachNoFd(p) PROVE ServeInv'
  <2>1. UNCHANGED <<epc, phase, cur, alive>> /\ link[p] = "none"
          /\ \A r \in Procs \ {p} : link'[r] = link[r]
    BY <1>0, <1>1 DEF AttachConnected, AttachNoFd
  <2> QED
    BY <1>0, <2>1 DEF ServeInv
<1>2. ASSUME NEW p \in Procs, Exit(p) PROVE ServeInv'
  <2>1. UNCHANGED <<epc, phase, cur, link>> /\ \A r \in Procs : alive'[r] => alive[r]
    BY <1>0, <1>2 DEF Exit
  <2> QED
    BY <1>0, <2>1 DEF ServeInv
<1>3. ASSUME UNCHANGED <<epc, phase, cur, link, alive>> PROVE ServeInv'
  BY <1>3 DEF ServeInv
<1>4. ASSUME NEW q \in Probes, Birth(q) \/ Die(q) \/ BeginWrite(q) \/ write_trace(q)
      PROVE  UNCHANGED <<epc, phase, cur, link, alive>>
  BY <1>4 DEF Birth, Die, BeginWrite, write_trace, IssueEven, Publish, Fence, CheckFlag,
              CasFlag, trigger_uds_wakeup
<1>5. CASE Accept
  <2>1. backlog # <<>> /\ backlog \in Seq(Procs)
    BY <1>5 DEF Accept, TypeInv, TypeOK
  <2>2. Head(backlog) \in Procs
    BY <2>1
  <2> QED
    BY <1>0, <1>5, <2>2 DEF Accept, ServeInv
<1>6. CASE doScan \/ Rescan \/ ReadWakeup \/ GoToSleep
  BY <1>6 DEF doScan, BeginScan, ReadSeq1, Validate, Rescan, ReadWakeup, GoToSleep,
              ScanDone, ServeInv
<1>7. CASE Arm \/ Disarm \/ ClearFlag \/ Timeout \/ Disconnect
  BY <1>7 DEF Arm, Disarm, ClearFlag, Timeout, Disconnect, ScanDone, ServeInv
<1>8. CASE CloseConn
  BY <1>8 DEF CloseConn, ServeInv
<1> QED
  BY <1>1, <1>2, <1>3, <1>4, <1>5, <1>6, <1>7, <1>8 DEF Next, Tracee, hotHarvestLoop, vars

\* Exit stops the coroutines of its process for good.
LEMMA NextDeadInv ==
  ASSUME TypeInv, ServeInv, QueueInv, DeadInv, [Next]_vars
  PROVE  DeadInv'
<1> USE DEF memVars, procVars, probeVars, scanVars, engineVars
<1>0. /\ cur \in Procs /\ DOMAIN link = Procs /\ alive \in [Procs -> BOOLEAN]
      /\ \A q \in Probes : Owner[q] \in Procs
  BY Constants DEF TypeInv, TypeOK
<1>1. ASSUME NEW p \in Procs, AttachConnected(p) \/ AttachNoFd(p) PROVE DeadInv'
  <2>1. /\ UNCHANGED <<wpc, buffered, alive>> /\ link'[p] \in {"queued", "nofd"}
        /\ \A r \in Procs \ {p} : link'[r] = link[r]
    BY <1>0, <1>1 DEF AttachConnected, AttachNoFd
  <2> QED
    BY <1>0, <2>1 DEF DeadInv, Born
<1>2. ASSUME NEW p \in Procs, Exit(p) PROVE DeadInv'
  <2>1. /\ UNCHANGED <<link, buffered>> /\ \A r \in Procs : alive'[r] <=> (alive[r] /\ r # p)
        /\ \A q \in Probes : Owner[q] = p => ~buffered[q]
        /\ \A q \in Probes : wpc'[q] = IF Owner[q] = p /\ wpc[q] # "unborn" THEN "dead" ELSE wpc[q]
    BY <1>0, <1>2 DEF Exit
  <2> QED
    BY <1>0, <2>1 DEF DeadInv, Born
<1>3. ASSUME UNCHANGED <<wpc, buffered, link, alive>> PROVE DeadInv'
  BY <1>3 DEF DeadInv, Born
<1>4. ASSUME NEW q \in Probes, UNCHANGED <<link, alive>>, alive[Owner[q]], link[Owner[q]] # "none",
             \A r \in Probes \ {q} : wpc'[r] = wpc[r] /\ buffered'[r] = buffered[r]
      PROVE  DeadInv'
  BY <1>0, <1>4 DEF DeadInv, Born
<1>5. ASSUME NEW q \in Probes, Birth(q) PROVE DeadInv'
  BY <1>4, <1>5 DEF Birth, Running, TypeInv, TypeOK
<1>6. ASSUME NEW q \in Probes, wpc[q] \notin {"unborn", "dead"} \/ buffered[q]
      PROVE  alive[Owner[q]] /\ link[Owner[q]] # "none"
  BY <1>6 DEF DeadInv, Born, TypeInv
<1>7. ASSUME NEW q \in Probes, Die(q) \/ BeginWrite(q) \/ write_trace(q) PROVE DeadInv'
  <2>1. /\ UNCHANGED <<link, alive>> /\ (wpc[q] \notin {"unborn", "dead"} \/ buffered[q])
        /\ \A r \in Probes \ {q} : wpc'[r] = wpc[r] /\ buffered'[r] = buffered[r]
    BY <1>7 DEF Die, BeginWrite, write_trace, IssueEven, Publish, Fence, CheckFlag,
                CasFlag, trigger_uds_wakeup, TypeInv, TypeOK
  <2> QED
    BY <1>4, <1>6, <2>1
<1>8. CASE Accept
  <2>1. backlog # <<>> /\ backlog \in Seq(Procs)
    BY <1>8 DEF Accept, TypeInv, TypeOK
  <2>2. Head(backlog) \in Procs
    BY <2>1
  <2> QED
    BY <1>0, <1>8, <2>2 DEF Accept, DeadInv, Born
<1>9. CASE CloseConn
  BY <1>0, <1>9 DEF CloseConn, ScanDone, ServeInv, DeadInv, Born
<1>10. ASSUME doScan \/ Rescan \/ Arm \/ Disarm \/ GoToSleep \/ ReadWakeup \/ ClearFlag
               \/ Disconnect \/ Timeout \/ UNCHANGED vars
       PROVE  UNCHANGED <<wpc, buffered, link, alive>>
  BY <1>10 DEF doScan, BeginScan, ReadSeq1, Validate, Rescan, Arm, Disarm, GoToSleep,
               ReadWakeup, ClearFlag, Disconnect, Timeout, vars
<1> QED
  BY <1>1, <1>2, <1>3, <1>5, <1>7, <1>8, <1>9, <1>10 DEF Next, Tracee, hotHarvestLoop

-----------------------------------------------------------------------------
\* Harvest is never ahead of the station.
SeenInv == \A s \in Stations, i \in Slots : lastSeen[s][i] <= seq[s][i]

\* Only a coroutine with the ticket writes in a station.
OwnedInv ==
  \A s \in Stations, i \in Slots :
    seq[s][i] # 0 => \E q \in Probes : Born(q) /\ idx[q] = s

\* The slots of a coroutine are even but for the one it is writing.
WriterInv ==
  \A q \in Probes :
    /\ Writing(q) => IsEven(old_seq[q]) /\ seq[idx[q]][WriteSlot(q)] = old_seq[q] + 1
    /\ wpc[q] \notin {"unborn", "dead"} /\ HasStation(q) =>
         \A i \in Slots : IsEven(seq[idx[q]][i]) \/ (Writing(q) /\ i = WriteSlot(q))

\* What Harvest has read first was new, and was there.
ReaderInv ==
  epc = "validate" => IsEven(seq1) /\ lastSeen[st][ri] < seq1 /\ seq1 <= seq[st][ri]

SeqInv == SeenInv /\ OwnedInv /\ WriterInv /\ ReaderInv

\* A step that writes no slot, harvests none, and draws no ticket.
SeqQuiet ==
  /\ UNCHANGED <<seq, lastSeen, idx, event_count, old_seq>>
  /\ \A q \in Probes :
       /\ Born(q)' <=> Born(q)
       /\ Writing(q)' => Writing(q)
       /\ wpc'[q] # "dead" => wpc[q] # "dead" /\ (Writing(q)' <=> Writing(q))
  /\ epc' = "validate" => epc = "validate" /\ UNCHANGED <<st, ri, seq1>>

\* The steps that touch a slot, harvest one, or draw a ticket.
LEMMA SeqSteps ==
  ASSUME TypeInv, [Next]_vars
  PROVE  \/ SeqQuiet
         \/ \E q \in Probes : Birth(q) \/ BeginWrite(q) \/ Publish(q)
         \/ ReadSeq1 \/ Validate
<1> USE DEF memVars, procVars, probeVars, scanVars, engineVars
<1>1. ASSUME UNCHANGED <<seq, lastSeen, idx, event_count, old_seq, wpc, buffered>>,
             epc' = "validate" => epc = "validate" /\ UNCHANGED <<st, ri, seq1>>
      PROVE  SeqQuiet
  BY <1>1 DEF SeqQuiet, Born, Writing
<1>2. ASSUME NEW p \in Procs, AttachConnected(p) \/ AttachNoFd(p) PROVE SeqQuiet
  BY <1>1, <1>2 DEF AttachConnected, AttachNoFd
<1>3. ASSUME NEW p \in Procs, Exit(p) PROVE SeqQuiet
  <2>1. \A q \in Probes : wpc'[q] = wpc[q] \/ (wpc'[q] = "dead" /\ wpc[q] # "unborn" /\ ~buffered[q])
    BY <1>3 DEF Exit
  <2>2. UNCHANGED <<seq, lastSeen, idx, event_count, old_seq, buffered, epc, st, ri, seq1>>
    BY <1>3 DEF Exit
  <2> QED
    BY <2>1, <2>2 DEF SeqQuiet, Born, Writing
<1>4. ASSUME NEW q \in Probes, NEW v,
             v \notin {"unborn", "body"}, wpc[q] \notin {"unborn", "body", "dead"},
             wpc' = [wpc EXCEPT ![q] = v],
             UNCHANGED <<seq, lastSeen, idx, event_count, old_seq, buffered, epc, st, ri, seq1>>
      PROVE  SeqQuiet
  <2>1. \A r \in Probes \ {q} : wpc'[r] = wpc[r]
    BY <1>4 DEF TypeInv, TypeOK
  <2>2. wpc'[q] = v
    BY <1>4 DEF TypeInv, TypeOK
  <2> QED
    BY <1>4, <2>1, <2>2 DEF SeqQuiet, Born, Writing
<1>5. ASSUME NEW q \in Probes, Die(q) \/ Fence(q) \/ CheckFlag(q) \/ CasFlag(q)
                                \/ trigger_uds_wakeup(q)
      PROVE  SeqQuiet
  BY <1>4, <1>5 DEF Die, Fence, CheckFlag, CasFlag, trigger_uds_wakeup
<1>6. ASSUME NEW q \in Probes, IssueEven(q) PROVE SeqQuiet
  <2>1. UNCHANGED <<seq, lastSeen, idx, event_count, old_seq, epc, st, ri, seq1>>
    BY <1>6 DEF IssueEven
  <2>2. /\ wpc[q] = "body" /\ wpc'[q] = "fence" /\ buffered'[q]
        /\ \A r \in Probes \ {q} : wpc'[r] = wpc[r] /\ buffered'[r] = buffered[r]
    BY <1>6 DEF IssueEven, TypeInv, TypeOK
  <2> QED
    BY <2>1, <2>2 DEF SeqQuiet, Born, Writing
<1>7. ASSUME Accept \/ BeginScan \/ Rescan \/ Arm \/ Disarm \/ GoToSleep \/ ReadWakeup
               \/ ClearFlag \/ Disconnect \/ CloseConn \/ Timeout \/ UNCHANGED vars
      PROVE  SeqQuiet
  BY <1>1, <1>7 DEF Accept, BeginScan, Rescan, Arm, Disarm, GoToSleep, ReadWakeup, ClearFlag,
                    Disconnect, CloseConn, Timeout, vars
<1> QED
  BY <1>2, <1>3, <1>5, <1>6, <1>7 DEF Next, Tracee, write_trace, hotHarvestLoop, doScan

\* The others keep the invariant of the slots.
LEMMA SeqKept ==
  ASSUME TypeInv, SeqInv, SeqQuiet
  PROVE  SeqInv'
<1>1. SeenInv'
  BY DEF SeqInv, SeenInv, SeqQuiet
<1>2. OwnedInv'
  BY DEF SeqInv, OwnedInv, SeqQuiet
<1>3. WriterInv'
  <2> SUFFICES ASSUME NEW q \in Probes
               PROVE  /\ Writing(q)' => IsEven(old_seq[q]) /\ seq[idx[q]][WriteSlot(q)] = old_seq[q] + 1
                      /\ wpc'[q] \notin {"unborn", "dead"} /\ HasStation(q) =>
                           \A i \in Slots : IsEven(seq[idx[q]][i]) \/ (Writing(q)' /\ i = WriteSlot(q))
    BY DEF WriterInv, WriteSlot, HasStation, SeqQuiet
  <2> QED
    BY DEF SeqInv, WriterInv, SeqQuiet, Born
<1>4. ReaderInv'
  BY DEF SeqInv, ReaderInv, SeqQuiet
<1> QED
  BY <1>1, <1>2, <1>3, <1>4 DEF SeqInv

\* A new coroutine finds its station as NewTracerEngine left it.
LEMMA SeqBirth ==
  ASSUME NoWrap, TypeInv, TicketInv, SeqInv, NEW q \in Probes, Birth(q)
  PROVE  SeqInv'
<1>1. /\ ~Born(q) /\ wpc'[q] = "idle" /\ idx'[q] = allocated_count
      /\ \A r \in Probes \ {q} : wpc'[r] = wpc[r] /\ idx'[r] = idx[r]
  BY BirthTicket
<1>2. UNCHANGED <<seq, lastSeen, event_count, old_seq, buffered, epc, st, ri, seq1>>
  BY DEF Birth, engineVars, scanVars
<1>3. \A i \in Slots : allocated_count \in Stations => seq[allocated_count][i] = 0
  BY DEF SeqInv, OwnedInv, TicketInv, TypeInv, TypeOK
<1>4. ~Writing(q)' /\ ~buffered[q]
  BY <1>1, <1>2 DEF Writing, TypeInv, Born
<1>5. SeenInv'
  BY <1>2 DEF SeqInv, SeenInv
<1>6. OwnedInv'
  BY <1>1, <1>2 DEF SeqInv, OwnedInv, Born
<1>7. ReaderInv'
  BY <1>2 DEF SeqInv, ReaderInv
<1>8. ASSUME NEW r \in Probes \ {q}
      PROVE  /\ Writing(r)' => IsEven(old_seq'[r]) /\ seq'[idx'[r]][WriteSlot(r)'] = old_seq'[r] + 1
             /\ wpc'[r] \notin {"unborn", "dead"} /\ HasStation(r)' =>
                  \A i \in Slots : IsEven(seq'[idx'[r]][i]) \/ (Writing(r)' /\ i = WriteSlot(r)')
  <2>1. (Writing(r)' <=> Writing(r)) /\ WriteSlot(r)' = WriteSlot(r) /\ (HasStation(r)' <=> HasStation(r))
    BY <1>1, <1>2 DEF Writing, WriteSlot, HasStation
  <2> QED
    BY <1>1, <1>2, <2>1 DEF SeqInv, WriterInv
<1>9. ASSUME HasStation(q)', NEW i \in Slots PROVE IsEven(seq'[idx'[q]][i])
  <2>1. allocated_count \in Stations
    BY <1>1, <1>9, Constants DEF HasStation, Stations, TypeInv, TypeOK
  <2> QED
    BY <1>1, <1>2, <1>3, <2>1 DEF IsEven
<1>10. WriterInv'
  BY <1>4, <1>8, <1>9 DEF WriterInv
<1> QED
  BY <1>5, <1>6, <1>7, <1>10 DEF SeqInv

\* Two coroutines write in two stations.
LEMMA Apart ==
  ASSUME TypeInv, TicketInv, NEW q \in Probes, NEW r \in Probes, q # r, Born(q), Born(r)
  PROVE  idx[q] # idx[r]
BY DEF TicketInv

\* What a store to a slot of one's own station keeps.
LEMMA SeqStored ==
  ASSUME TypeInv, TicketInv, SeqInv, NEW q \in Probes, Born(q), HasStation(q),
         NEW v \in Nat, seq[idx[q]][WriteSlot(q)] <= v,
         seq' = [seq EXCEPT ![idx[q]][WriteSlot(q)] = v],
         UNCHANGED <<lastSeen, idx, epc, st, ri, seq1>>,
         \A r \in Probes \ {q} : /\ wpc'[r] = wpc[r] /\ buffered'[r] = buffered[r]
                                /\ old_seq'[r] = old_seq[r] /\ event_count'[r] = event_count[r],
         Born(q)',
         Writing(q)' => IsEven(old_seq'[q]) /\ v = old_seq'[q] + 1 /\ WriteSlot(q)' = WriteSlot(q),
         ~Writing(q)' => IsEven(v),
         \A i \in Slots : i = WriteSlot(q) \/ IsEven(seq[idx[q]][i])
  PROVE  SeqInv'
<1>1. /\ idx[q] \in Stations /\ WriteSlot(q) \in Slots
      /\ \A s \in Stations, j \in Slots : seq[s][j] \in Nat /\ lastSeen[s][j] \in Nat
  BY SlotOfRing, StationOf DEF TypeInv, TypeOK
<1>2. \A s \in Stations, j \in Slots :
        seq'[s][j] = IF s = idx[q] /\ j = WriteSlot(q) THEN v ELSE seq[s][j]
  BY StoreSeq DEF TypeInv
<1>3. SeenInv'
  <2> SUFFICES ASSUME NEW s \in Stations, NEW j \in Slots PROVE lastSeen[s][j] <= seq'[s][j]
    BY DEF SeenInv
  <2>1. lastSeen[s][j] <= seq[s][j]
    BY DEF SeqInv, SeenInv
  <2> QED
    BY <1>1, <1>2, <2>1
<1>4. OwnedInv'
  <2> SUFFICES ASSUME NEW s \in Stations, NEW j \in Slots, seq'[s][j] # 0
               PROVE  \E r \in Probes : Born(r)' /\ idx[r] = s
    BY DEF OwnedInv
  <2>1. CASE s = idx[q]
    BY <2>1
  <2>2. CASE s # idx[q]
    <3>1. PICK r \in Probes : Born(r) /\ idx[r] = s
      BY <1>2, <2>2 DEF SeqInv, OwnedInv
    <3> QED
      BY <2>2, <3>1 DEF Born
  <2> QED
    BY <2>1, <2>2
<1>5. ASSUME NEW r \in Probes \ {q}
      PROVE  /\ Writing(r)' => IsEven(old_seq'[r]) /\ seq'[idx'[r]][WriteSlot(r)'] = old_seq'[r] + 1
             /\ wpc'[r] \notin {"unborn", "dead"} /\ HasStation(r)' =>
                  \A i \in Slots : IsEven(seq'[idx'[r]][i]) \/ (Writing(r)' /\ i = WriteSlot(r)')
  <2>1. /\ (Writing(r)' <=> Writing(r)) /\ WriteSlot(r)' = WriteSlot(r)
        /\ (HasStation(r)' <=> HasStation(r))
    BY <1>5 DEF Writing, WriteSlot, HasStation
  <2>2. ASSUME Born(r), HasStation(r) PROVE \A i \in Slots : seq'[idx[r]][i] = seq[idx[r]][i]
    <3>1. idx[r] \in Stations /\ idx[r] # idx[q]
      BY <1>5, <2>2, StationOf, Apart DEF TypeInv
    <3> QED
      BY <1>2, <3>1
  <2>3. Writing(r) => Born(r) /\ HasStation(r) /\ WriteSlot(r) \in Slots
    BY <1>5, SlotOfRing DEF TypeInv, Writing, Born
  <2> QED
    BY <1>5, <2>1, <2>2, <2>3 DEF SeqInv, WriterInv, Born
<1>6. /\ Writing(q)' => IsEven(old_seq'[q]) /\ seq'[idx'[q]][WriteSlot(q)'] = old_seq'[q] + 1
      /\ \A i \in Slots : IsEven(seq'[idx'[q]][i]) \/ (Writing(q)' /\ i = WriteSlot(q)')
  BY <1>1, <1>2
<1>7. WriterInv'
  BY <1>5, <1>6 DEF WriterInv
<1>8. ReaderInv'
  <2> SUFFICES ASSUME epc = "validate" PROVE seq1 <= seq'[st][ri]
    BY DEF ReaderInv, SeqInv
  <2>1. st \in Stations /\ ri \in Slots /\ seq1 \in Nat
    BY Constants DEF TypeInv, TypeOK, Stations
  <2>2. seq1 <= seq[st][ri]
    BY DEF SeqInv, ReaderInv
  <2> QED
    BY <1>1, <1>2, <2>1, <2>2
<1> QED
  BY <1>3, <1>4, <1>7, <1>8 DEF SeqInv

\* Every step keeps the invariant of the slots.
LEMMA NextSeqInv ==
  ASSUME NoWrap, TypeInv, TicketInv, SeqInv, [Next]_vars
  PROVE  SeqInv'
<1> USE DEF memVars, procVars, probeVars, scanVars, engineVars
<1>1. ASSUME NEW q \in Probes, BeginWrite(q) PROVE SeqInv'
  <2>1. /\ wpc[q] = "idle" /\ HasStation(q) /\ ~buffered[q] /\ Born(q) /\ ~Writing(q)
        /\ UNCHANGED <<lastSeen, idx, epc, st, ri, seq1, event_count, buffered>>
    BY <1>1 DEF BeginWrite, Born, Writing
  <2>2. idx[q] \in Stations /\ WriteSlot(q) \in Slots
    BY <2>1, SlotOfRing, StationOf DEF TypeInv
  <2>3. \A i \in Slots : IsEven(seq[idx[q]][i])
    BY <2>1 DEF SeqInv, WriterInv
  <2>4. seq[idx[q]][WriteSlot(q)] \in Nat
    BY <2>2 DEF TypeInv, TypeOK
  <2>5. seq' = [seq EXCEPT ![idx[q]][WriteSlot(q)] = seq[idx[q]][WriteSlot(q)] + 1]
    BY <1>1, <2>2 DEF BeginWrite, TypeInv, TypeOK
  <2>6. /\ old_seq'[q] = seq[idx[q]][WriteSlot(q)] /\ wpc'[q] = "body"
        /\ \A r \in Probes \ {q} : wpc'[r] = wpc[r] /\ old_seq'[r] = old_seq[r]
    BY <1>1 DEF BeginWrite, TypeInv, TypeOK
  <2>7. Writing(q)' /\ Born(q)' /\ WriteSlot(q)' = WriteSlot(q)
    BY <2>1, <2>6 DEF Writing, Born, WriteSlot
  <2>8. \A r \in Probes \ {q} : /\ wpc'[r] = wpc[r] /\ buffered'[r] = buffered[r]
                                /\ old_seq'[r] = old_seq[r] /\ event_count'[r] = event_count[r]
    BY <2>1, <2>6
  <2>9. ASSUME NEW v \in Nat, v = seq[idx[q]][WriteSlot(q)] + 1 PROVE SeqInv'
    <3>1. seq' = [seq EXCEPT ![idx[q]][WriteSlot(q)] = v]
      BY <2>5, <2>9
    <3>2. seq[idx[q]][WriteSlot(q)] <= v
      BY <2>4, <2>9
    <3>3. IsEven(old_seq'[q]) /\ v = old_seq'[q] + 1
      BY <2>2, <2>3, <2>6, <2>9
    <3>4. \A i \in Slots : i = WriteSlot(q) \/ IsEven(seq[idx[q]][i])
      BY <2>3
    <3> QED
      BY <2>1, <2>7, <2>8, <3>1, <3>2, <3>3, <3>4, SeqStored
  <2> QED
    BY <2>4, <2>9
<1>2. ASSUME NEW q \in Probes, Publish(q) PROVE SeqInv'
  <2>1. /\ wpc[q] = "fence" /\ buffered[q] /\ HasStation(q) /\ Born(q) /\ Writing(q)
        /\ UNCHANGED <<lastSeen, idx, epc, st, ri, seq1, old_seq, wpc>>
    BY <1>2 DEF Publish, Born, Writing, TypeInv
  <2>2. /\ \A i \in Slots : i = WriteSlot(q) \/ IsEven(seq[idx[q]][i])
        /\ seq[idx[q]][WriteSlot(q)] = old_seq[q] + 1 /\ IsEven(old_seq[q])
    BY <2>1 DEF SeqInv, WriterInv
  <2>3. old_seq[q] \in Nat /\ old_seq[q] + 2 \in Nat /\ IsEven(old_seq[q] + 2)
    BY <2>2 DEF TypeInv, TypeOK, IsEven
  <2>4. seq' = [seq EXCEPT ![idx[q]][WriteSlot(q)] = old_seq[q] + 2]
    BY <1>2 DEF Publish
  <2>5. /\ ~buffered'[q] /\ \A r \in Probes \ {q} : /\ buffered'[r] = buffered[r]
                                                /\ event_count'[r] = event_count[r]
    BY <1>2 DEF Publish, TypeInv, TypeOK
  <2>6. ~Writing(q)' /\ Born(q)'
    BY <2>1, <2>5 DEF Writing, Born
  <2>7. \A r \in Probes \ {q} : /\ wpc'[r] = wpc[r] /\ buffered'[r] = buffered[r]
                                /\ old_seq'[r] = old_seq[r] /\ event_count'[r] = event_count[r]
    BY <2>1, <2>5
  <2>8. ASSUME NEW v \in Nat, v = old_seq[q] + 2 PROVE SeqInv'
    <3>1. seq' = [seq EXCEPT ![idx[q]][WriteSlot(q)] = v]
      BY <2>4, <2>8
    <3>2. seq[idx[q]][WriteSlot(q)] <= v /\ IsEven(v)
      BY <2>2, <2>3, <2>8
    <3> QED
      BY <2>1, <2>2, <2>6, <2>7, <3>1, <3>2, SeqStored
  <2> QED
    BY <2>3, <2>8
<1>3. ASSUME ReadSeq1 \/ Validate, SeenInv', ReaderInv' PROVE SeqInv'
  <2>1. UNCHANGED <<seq, idx, event_count, old_seq, wpc, buffered>>
    BY <1>3 DEF ReadSeq1, Validate
  <2>2. OwnedInv'
    BY <2>1 DEF SeqInv, OwnedInv, Born
  <2>3. WriterInv'
    BY <2>1 DEF SeqInv, WriterInv, Writing, WriteSlot, HasStation
  <2> QED
    BY <1>3, <2>2, <2>3 DEF SeqInv
<1>4. CASE ReadSeq1
  <2>1. st \in Stations /\ ri \in Slots
    BY <1>4, Constants DEF ReadSeq1, TypeInv, TypeOK, Stations
  <2>2. seq[st][ri] \in Nat /\ lastSeen[st][ri] \in Nat
    BY <2>1 DEF TypeInv, TypeOK
  <2>3. ReaderInv'
    BY <1>4, <2>1, <2>2 DEF ReadSeq1, ReaderInv
  <2>4. SeenInv'
    BY <1>4 DEF ReadSeq1, SeqInv, SeenInv
  <2> QED
    BY <1>3, <1>4, <2>3, <2>4
<1>5. CASE Validate
  <2>1. ReaderInv'
    BY <1>5 DEF Validate, ReaderInv
  <2>2. CASE UNCHANGED lastSeen
    <3>1. SeenInv'
      BY <1>5, <2>2 DEF Validate, SeqInv, SeenInv
    <3> QED
      BY <1>3, <1>5, <2>1, <3>1
  <2>3. CASE seq[st][ri] = seq1 /\ lastSeen' = [lastSeen EXCEPT ![st][ri] = seq1]
    <3>1. \A s \in Stations, i \in Slots :
            lastSeen'[s][i] = IF s = st /\ i = ri THEN seq1 ELSE lastSeen[s][i]
      BY <2>3 DEF TypeInv, TypeOK
    <3>2. seq' = seq /\ seq1 \in Nat
      BY <1>5 DEF Validate, TypeInv, TypeOK
    <3>3. SeenInv'
      BY <2>3, <3>1, <3>2 DEF SeqInv, SeenInv
    <3> QED
      BY <1>3, <1>5, <2>1, <3>3
  <2> QED
    BY <1>5, <2>2, <2>3 DEF Validate
<1> QED
  BY <1>1, <1>2, <1>4, <1>5, SeqSteps, SeqKept, SeqBirth

\* The mapping starts zeroed and nothing has been harvested.
LEMMA InitSeqInv == Init => SeqInv
<1> SUFFICES ASSUME Init PROVE SeqInv
  OBVIOUS
<1>1. \A s \in Stations, i \in Slots : seq[s][i] = 0 /\ lastSeen[s][i] = 0
  BY DEF Init
<1>2. \A q \in Probes : wpc[q] = "unborn" /\ ~Writing(q)
  BY DEF Init, Writing
<1> QED
  BY <1>1, <1>2 DEF Init, SeqInv, SeenInv, OwnedInv, WriterInv, ReaderInv

-----------------------------------------------------------------------------
\* A complete event that Harvest has not taken.
Late(s, i) == IsEven(seq[s][i]) /\ lastSeen[s][i] # seq[s][i]

\* The cursor of doScan has not passed the slot.
Ahead(s, i) == s < lim /\ (st < s \/ (st = s /\ ri <= i))

\* The scan under way will take what is in the slot, unless it is written again.
NotYet(s, i) ==
  \/ epc = "scan"
  \/ epc = "slot" /\ Ahead(s, i)
  \/ epc = "validate" /\ Ahead(s, i) /\ (s = st /\ i = ri => seq[s][i] = seq1)

\* hotHarvestLoop has raised the flag and is in its second scan, or in Read.
Armed == epc = "read" \/ (phase = "recheck" /\ epc \in {"scan", "slot", "validate"})

\* Something ends the Read, or is about to.
Signalled ==
  \/ wire[cur] > 0 \/ ~alive[cur]
  \/ \E q \in Probes : Owner[q] = cur /\ wpc[q] = "wake"

\* Some coroutine has still to look at the flag, or to take it down.
Pending == \E q \in Probes : wpc[q] \in {"fence", "check", "cas"}

\* One tracee process, which is what one launch of main.go starts.
OneProc == \A p, r \in Procs : p = r

\* A flag that is down was taken down by a coroutine that wakes this Read.
FlagInv == Armed => tracer_sleeping = 1 \/ Signalled

\* The second scan begins with nothing harvested, and Read begins with nothing
\* harvested; until it harvests, the file has what Harvest has.
IdleInv ==
  /\ epc = "read" \/ (phase = "recheck" /\ epc = "scan") => ~harvested
  /\ Armed /\ ~harvested => lastSeen = flushed

\* Once the flag is up, an event that the second scan will not see has a coroutine
\* that will find the flag up, or a wake-up already on its way.
WakeInv ==
  Armed /\ ~harvested =>
    \A s \in Stations, i \in Slots : Late(s, i) => NotYet(s, i) \/ Pending \/ Signalled

\* The last scan of a connection misses no event of its process ...
FinalInv ==
  phase = "final" /\ epc \in {"scan", "slot", "validate"} =>
    \A q \in Probes : Owner[q] = cur /\ Born(q) /\ HasStation(q) =>
      \A i \in Slots : Late(idx[q], i) => NotYet(idx[q], i)

\* ... so a closed one leaves nothing behind.
ClosedInv ==
  \A q \in Probes : link[Owner[q]] = "closed" /\ Born(q) /\ HasStation(q) =>
    \A i \in Slots : IsEven(seq[idx[q]][i]) =>
      lastSeen[idx[q]][i] = seq[idx[q]][i] /\ flushed[idx[q]][i] = seq[idx[q]][i]

\* A step of the tracees as doScan sees it: a slot is left alone, begun, or completed by a
\* coroutine that has still to look at the flag.
LEMMA TraceeSlots ==
  ASSUME TypeInv, TicketInv, SeqInv, Tracee, NEW s \in Stations, NEW i \in Slots
  PROVE  /\ UNCHANGED <<epc, phase, lim, st, ri, seq1, harvested, lastSeen, flushed, cur>>
         /\ \/ seq'[s][i] = seq[s][i]
            \/ ~IsEven(seq'[s][i])
            \/ Pending'
<1> USE DEF memVars, procVars, probeVars, scanVars, engineVars
<1>1. ASSUME NEW p \in Procs, AttachConnected(p) \/ AttachNoFd(p) \/ Exit(p)
      PROVE  UNCHANGED <<epc, phase, lim, st, ri, seq1, harvested, lastSeen, flushed, cur, seq>>
  BY <1>1 DEF AttachConnected, AttachNoFd, Exit
<1>2. ASSUME NEW q \in Probes, Birth(q) \/ Die(q) \/ IssueEven(q) \/ Fence(q) \/ CheckFlag(q)
                                \/ CasFlag(q) \/ trigger_uds_wakeup(q)
      PROVE  UNCHANGED <<epc, phase, lim, st, ri, seq1, harvested, lastSeen, flushed, cur, seq>>
  BY <1>2 DEF Birth, Die, IssueEven, Fence, CheckFlag, CasFlag, trigger_uds_wakeup
<1>3. ASSUME NEW q \in Probes, BeginWrite(q)
      PROVE  /\ UNCHANGED <<epc, phase, lim, st, ri, seq1, harvested, lastSeen, flushed, cur>>
             /\ seq'[s][i] = seq[s][i] \/ ~IsEven(seq'[s][i])
  <2>1. wpc[q] = "idle" /\ HasStation(q) /\ ~Writing(q)
    BY <1>3 DEF BeginWrite, Writing
  <2>2. idx[q] \in Stations /\ WriteSlot(q) \in Slots
    BY <2>1, SlotOfRing, StationOf DEF TypeInv
  <2>3. seq[idx[q]][WriteSlot(q)] \in Nat /\ IsEven(seq[idx[q]][WriteSlot(q)])
    BY <2>1, <2>2 DEF TypeInv, TypeOK, SeqInv, WriterInv
  <2>4. ~IsEven(seq[idx[q]][WriteSlot(q)] + 1)
    BY <2>3 DEF IsEven
  <2>5. seq'[s][i] = IF s = idx[q] /\ i = WriteSlot(q) THEN seq[idx[q]][WriteSlot(q)] + 1
                     ELSE seq[s][i]
    BY <1>3, <2>2, <2>3 DEF BeginWrite, TypeInv, TypeOK
  <2>6. UNCHANGED <<epc, phase, lim, st, ri, seq1, harvested, lastSeen, flushed, cur>>
    BY <1>3 DEF BeginWrite
  <2> QED
    BY <2>4, <2>5, <2>6
<1>4. ASSUME NEW q \in Probes, Publish(q)
      PROVE  /\ UNCHANGED <<epc, phase, lim, st, ri, seq1, harvested, lastSeen, flushed, cur>>
             /\ Pending'
  BY <1>4 DEF Publish, Pending, TypeInv
<1> QED
  BY <1>1, <1>2, <1>3, <1>4 DEF Tracee, write_trace

\* The slot and the cursor decide whether it is late, and whether the scan comes to it.
LEMMA SlotKept ==
  ASSUME NEW s, NEW i, seq'[s][i] = seq[s][i], lastSeen'[s][i] = lastSeen[s][i],
         UNCHANGED <<epc, lim, st, ri, seq1>>
  PROVE  (Late(s, i)' <=> Late(s, i)) /\ (NotYet(s, i)' <=> NotYet(s, i))
BY DEF Late, NotYet, Ahead

\* The order in which doScan visits the slots.
LEMMA AdvanceAhead ==
  ASSUME TypeInv, st < lim, Advance, NEW s \in Stations, NEW i \in Slots, Ahead(s, i),
         s # st \/ i # ri, lim' = lim
  PROVE  Ahead(s, i)'
<1>1. /\ st \in Nat /\ ri \in Nat /\ lim \in Nat /\ s \in Nat /\ i \in Nat /\ RingSize \in Nat
      /\ i < RingSize /\ ri < RingSize
  BY Constants DEF TypeInv, TypeOK, Stations, Slots
<1> QED
  BY <1>1 DEF Advance, Ahead

\* A late slot is owned, so doScan's limit is beyond it.
LEMMA LateOwned ==
  ASSUME TypeInv, TicketInv, SeqInv, NEW s \in Stations, NEW i \in Slots, Late(s, i)
  PROVE  s < Least(allocated_count, MaxStations) /\ lastSeen[s][i] < seq[s][i]
<1>1. seq[s][i] \in Nat /\ lastSeen[s][i] \in Nat /\ lastSeen[s][i] <= seq[s][i]
  BY DEF TypeInv, TypeOK, SeqInv, SeenInv
<1>2. lastSeen[s][i] < seq[s][i] /\ seq[s][i] # 0
  BY <1>1 DEF Late
<1>3. PICK q \in Probes : Born(q) /\ idx[q] = s
  BY <1>2 DEF SeqInv, OwnedInv
<1>4. s < allocated_count
  BY <1>3 DEF TicketInv
<1>5. s < MaxStations
  BY Constants DEF Stations
<1> QED
  BY <1>2, <1>4, <1>5 DEF Least

\* A step of doScan takes a late slot or leaves it ahead.
LEMMA ScanKeeps ==
  ASSUME TypeInv, TicketInv, SeqInv, doScan, NEW s \in Stations, NEW i \in Slots,
         Late(s, i) => NotYet(s, i)
  PROVE  Late(s, i)' => NotYet(s, i)'
<1> USE DEF memVars, procVars, probeVars, scanVars
<1>1. CASE BeginScan
  <2>1. seq' = seq /\ lastSeen' = lastSeen /\ st' = 0 /\ ri' = 0 /\ epc' = "slot"
          /\ lim' = Least(allocated_count, MaxStations)
    BY <1>1 DEF BeginScan
  <2>2. Late(s, i)' => Late(s, i)
    BY <2>1 DEF Late
  <2>3. s \in Nat /\ i \in Nat
    BY Constants DEF Stations, Slots
  <2> QED
    BY <2>1, <2>2, <2>3, LateOwned DEF NotYet, Ahead
<1>2. CASE ReadSeq1
  <2>1. UNCHANGED <<seq, lastSeen, lim>> /\ epc = "slot" /\ st < lim /\ seq1' = seq[st][ri]
    BY <1>2 DEF ReadSeq1
  <2>2. Late(s, i)' => Late(s, i) /\ Ahead(s, i)
    BY <2>1 DEF Late, NotYet
  <2>3. CASE epc' = "validate" /\ UNCHANGED <<st, ri>>
    BY <2>1, <2>2, <2>3 DEF NotYet, Ahead
  <2>4. CASE (seq[st][ri] <= lastSeen[st][ri] \/ ~IsEven(seq[st][ri])) /\ Advance /\ epc' = epc
    <3>1. Late(s, i) => s # st \/ i # ri
      <4>1. Late(s, i) => lastSeen[s][i] < seq[s][i] /\ IsEven(seq[s][i])
        BY LateOwned DEF Late
      <4>2. seq[s][i] \in Nat /\ lastSeen[s][i] \in Nat
        BY DEF TypeInv, TypeOK
      <4> QED
        BY <2>4, <4>1, <4>2
    <3> QED
      BY <2>1, <2>2, <2>4, <3>1, AdvanceAhead DEF NotYet
  <2> QED
    BY <1>2, <2>3, <2>4 DEF ReadSeq1
<1>3. CASE Validate
  <2>1. seq' = seq /\ lim' = lim /\ epc = "validate" /\ epc' = "slot" /\ Advance /\ st < lim
    BY <1>3 DEF Validate, TypeInv
  <2>2. lastSeen'[s][i] = lastSeen[s][i] \/ (s = st /\ i = ri)
    <3>1. CASE lastSeen' = lastSeen
      BY <3>1
    <3>2. CASE lastSeen' = [lastSeen EXCEPT ![st][ri] = seq1]
      BY <3>2 DEF TypeInv, TypeOK
    <3> QED
      BY <1>3, <3>1, <3>2 DEF Validate
  <2>3. CASE s = st /\ i = ri
    <3>1. CASE seq[st][ri] = seq1
      <4>1. lastSeen'[s][i] = seq1
        BY <1>3, <2>3, <3>1 DEF Validate, TypeInv, TypeOK
      <4> QED
        BY <2>1, <2>3, <3>1, <4>1 DEF Late
    <3>2. CASE seq[st][ri] # seq1
      <4>1. lastSeen' = lastSeen
        BY <1>3, <3>2 DEF Validate
      <4> QED
        BY <2>1, <2>3, <3>2, <4>1 DEF Late, NotYet
    <3> QED
      BY <3>1, <3>2
  <2>4. CASE s # st \/ i # ri
    <3>1. Late(s, i)' => Ahead(s, i)
      BY <2>1, <2>2, <2>4 DEF Late, NotYet
    <3> QED
      BY <2>1, <2>4, <3>1, AdvanceAhead DEF NotYet
  <2> QED
    BY <2>3, <2>4
<1> QED
  BY <1>1, <1>2, <1>3 DEF doScan

-----------------------------------------------------------------------------
\* What the steps of the tracees do to the flag and to the wake-up.
LEMMA TraceeSignals ==
  ASSUME OneProc, TypeInv, ServeInv, epc # "accept", Tracee
  PROVE  /\ Signalled => Signalled'
         /\ tracer_sleeping' = tracer_sleeping \/ Signalled' \/ tracer_sleeping = 0
         /\ Pending => Pending' \/ Signalled' \/ tracer_sleeping = 0
<1> USE DEF memVars, procVars, probeVars, scanVars, engineVars
<1>0. /\ cur \in Procs /\ \A q \in Probes : Owner[q] = cur
      /\ wire[cur] \in Nat /\ SockCap \in Nat \ {0}
  BY Constants DEF OneProc, TypeInv, TypeOK
<1>1. ASSUME NEW p \in Procs, AttachConnected(p) \/ AttachNoFd(p)
      PROVE  UNCHANGED <<wire, alive, wpc, cur, tracer_sleeping>>
  BY <1>1 DEF AttachConnected, AttachNoFd
<1>2. ASSUME NEW p \in Procs, Exit(p) PROVE Signalled'
  BY <1>0, <1>2 DEF Exit, OneProc, Signalled, TypeInv, TypeOK
<1>3. ASSUME NEW q \in Probes, NEW v, wpc' = [wpc EXCEPT ![q] = v], wpc[q] # "wake",
             UNCHANGED <<wire, alive, cur>>
      PROVE  Signalled => Signalled'
  BY <1>0, <1>3 DEF Signalled, TypeInv, TypeOK
<1>4. ASSUME NEW q \in Probes, NEW v, wpc' = [wpc EXCEPT ![q] = v],
             wpc[q] \notin {"fence", "check", "cas"} \/ v \in {"fence", "check", "cas"}
      PROVE  Pending => Pending'
  <2>1. wpc'[q] = v /\ \A r \in Probes \ {q} : wpc'[r] = wpc[r]
    BY <1>4 DEF TypeInv, TypeOK
  <2> QED
    BY <1>4, <2>1 DEF Pending
<1>5. ASSUME NEW q \in Probes, Birth(q) \/ Die(q) \/ BeginWrite(q) \/ IssueEven(q) \/ Fence(q)
      PROVE  /\ Signalled => Signalled'
             /\ tracer_sleeping' = tracer_sleeping
             /\ Pending => Pending'
  BY <1>3, <1>4, <1>5 DEF Birth, Die, BeginWrite, IssueEven, Fence
<1>6. ASSUME NEW q \in Probes, Publish(q) PROVE UNCHANGED <<wire, alive, wpc, cur, tracer_sleeping>>
  BY <1>6 DEF Publish
<1>7. ASSUME NEW q \in Probes, CheckFlag(q)
      PROVE  /\ Signalled => Signalled'
             /\ tracer_sleeping' = tracer_sleeping
             /\ Pending => Pending' \/ tracer_sleeping = 0
  <2>1. /\ wpc[q] = "check" /\ UNCHANGED <<wire, alive, cur, tracer_sleeping>>
        /\ wpc' = [wpc EXCEPT ![q] = IF tracer_sleeping = 1 THEN "cas" ELSE "idle"]
    BY <1>7 DEF CheckFlag
  <2>2. Signalled => Signalled'
    BY <1>3, <2>1
  <2>3. CASE tracer_sleeping = 1
    BY <1>4, <2>1, <2>2, <2>3
  <2> QED
    BY <2>1, <2>2, <2>3 DEF TypeInv, TypeOK
<1>8. ASSUME NEW q \in Probes, CasFlag(q)
      PROVE  (Signalled => Signalled') /\ (Signalled' \/ tracer_sleeping = 0)
  <2>1. /\ wpc[q] = "cas" /\ UNCHANGED <<wire, alive, cur>>
        /\ wpc' = [wpc EXCEPT ![q] = IF tracer_sleeping = 1 THEN "wake" ELSE "idle"]
    BY <1>8 DEF CasFlag
  <2>2. Signalled => Signalled'
    BY <1>3, <2>1
  <2>3. CASE tracer_sleeping = 1
    <3>1. wpc'[q] = "wake"
      BY <2>1, <2>3 DEF TypeInv, TypeOK
    <3> QED
      BY <1>0, <2>1, <2>2, <3>1 DEF Signalled
  <2> QED
    BY <2>2, <2>3 DEF TypeInv, TypeOK
<1>9. ASSUME NEW q \in Probes, trigger_uds_wakeup(q) PROVE Signalled'
  <2>1. link[cur] = "serving" /\ cur' = cur
    BY <1>9 DEF ServeInv, trigger_uds_wakeup
  <2>2. wire' = [wire EXCEPT ![cur] = Least(wire[cur] + 1, SockCap)]
    BY <1>0, <1>9, <2>1 DEF trigger_uds_wakeup
  <2>3. wire'[cur] = Least(wire[cur] + 1, SockCap)
    BY <1>0, <2>2 DEF TypeInv, TypeOK
  <2>4. wire'[cur] > 0
    BY <1>0, <2>3 DEF Least
  <2> QED
    BY <2>1, <2>4 DEF Signalled
<1>10. ASSUME UNCHANGED <<wire, alive, wpc, cur, tracer_sleeping>>
       PROVE  (Signalled => Signalled') /\ (Pending => Pending')
  BY <1>10 DEF Signalled, Pending
<1> QED
  BY <1>1, <1>2, <1>5, <1>6, <1>7, <1>8, <1>9, <1>10 DEF Tracee, write_trace

\* What the steps of the engine do to the state of the second scan.
LEMMA ArmedSteps ==
  ASSUME TypeInv, [Next]_vars, Armed'
  PROVE  \/ Tracee
         \/ Arm
         \/ doScan /\ Armed
         \/ GoToSleep
         \/ UNCHANGED vars
<1> USE DEF memVars, procVars, probeVars, scanVars, engineVars
<1>1. ASSUME Accept \/ Rescan \/ Disarm \/ ReadWakeup \/ ClearFlag \/ Disconnect \/ CloseConn \/ Timeout
      PROVE  FALSE
  BY <1>1 DEF Accept, Rescan, Disarm, ReadWakeup, ClearFlag, Disconnect, CloseConn, Timeout,
              ScanDone, Armed
<1>2. ASSUME doScan PROVE Armed
  BY <1>2 DEF doScan, BeginScan, ReadSeq1, Validate, Armed
<1> QED
  BY <1>1, <1>2 DEF Next, hotHarvestLoop

\* The engine's own steps leave the wake-up and the flag as they are.
LEMMA EngineQuiet ==
  ASSUME doScan \/ GoToSleep \/ UNCHANGED vars
  PROVE  /\ UNCHANGED <<tracer_sleeping, wire, alive, wpc, cur, seq>>
         /\ Signalled' <=> Signalled
         /\ Pending' <=> Pending
<1>1. UNCHANGED <<tracer_sleeping, wire, alive, wpc, cur, seq>>
  BY DEF doScan, BeginScan, ReadSeq1, Validate, GoToSleep, vars, memVars, procVars, probeVars,
         engineVars
<1> QED
  BY <1>1 DEF Signalled, Pending

\* Only a coroutine that then wakes this Read takes the flag down while it is armed.
LEMMA NextFlagInv ==
  ASSUME OneProc, TypeInv, ServeInv, FlagInv, [Next]_vars
  PROVE  FlagInv'
<1> SUFFICES ASSUME Armed' PROVE tracer_sleeping' = 1 \/ Signalled'
  BY DEF FlagInv
<1>1. CASE Tracee
  <2>1. UNCHANGED <<epc, phase>>
    BY <1>1 DEF Tracee, AttachConnected, AttachNoFd, Exit, Birth, Die, BeginWrite, write_trace,
                IssueEven, Publish, Fence, CheckFlag, CasFlag, trigger_uds_wakeup, engineVars
  <2>2. Armed /\ epc # "accept"
    BY <2>1 DEF Armed
  <2> QED
    BY <1>1, <2>2, TraceeSignals DEF FlagInv
<1>2. CASE Arm
  BY <1>2 DEF Arm
<1>3. CASE doScan /\ Armed
  BY <1>3, EngineQuiet DEF FlagInv
<1>4. CASE GoToSleep
  BY <1>4, EngineQuiet DEF FlagInv, Armed, GoToSleep, ScanDone
<1>5. CASE UNCHANGED vars
  BY <1>5 DEF FlagInv, Armed, Signalled, vars, memVars, procVars, probeVars, engineVars
<1> QED
  BY <1>1, <1>2, <1>3, <1>4, <1>5, ArmedSteps

\* What is harvested after Arm is not forgotten: it leads to Disarm.
LEMMA NextIdleInv ==
  ASSUME TypeInv, IdleInv, [Next]_vars
  PROVE  IdleInv'
<1> USE DEF memVars, procVars, probeVars, scanVars, engineVars
<1>1. ASSUME UNCHANGED <<epc, phase, harvested, lastSeen, flushed>> PROVE IdleInv'
  BY <1>1 DEF IdleInv, Armed
<1>2. CASE Tracee \/ UNCHANGED vars
  <2>1. UNCHANGED <<epc, phase, harvested, lastSeen, flushed>>
    BY <1>2 DEF Tracee, AttachConnected, AttachNoFd, Exit, Birth, Die, BeginWrite, write_trace,
                IssueEven, Publish, Fence, CheckFlag, CasFlag, trigger_uds_wakeup, vars
  <2> QED
    BY <1>1, <2>1
<1>3. CASE ~Armed' /\ (Rescan \/ Accept \/ Disarm \/ ReadWakeup \/ ClearFlag \/ Disconnect
                        \/ CloseConn \/ Timeout)
  BY <1>3 DEF IdleInv, Armed, Rescan, Accept, Disarm, ReadWakeup, ClearFlag, Disconnect, CloseConn,
              Timeout, ScanDone
<1>4. CASE Arm
  BY <1>4 DEF Arm, IdleInv, Armed, ScanDone
<1>5. CASE BeginScan
  BY <1>5 DEF BeginScan, IdleInv, Armed
<1>6. CASE ReadSeq1
  BY <1>6 DEF ReadSeq1, IdleInv, Armed
<1>7. CASE Validate
  BY <1>7 DEF Validate, IdleInv, Armed
<1>8. CASE GoToSleep
  BY <1>8 DEF GoToSleep, ScanDone, IdleInv, Armed
<1>9. ASSUME Armed' PROVE Tracee \/ Arm \/ doScan \/ GoToSleep \/ UNCHANGED vars
  BY <1>9, ArmedSteps
<1> QED
  BY <1>2, <1>3, <1>4, <1>5, <1>6, <1>7, <1>8, <1>9 DEF Next, hotHarvestLoop, doScan

\* The handshake: an event completed behind the second scan belongs to a coroutine that
\* has still to look at the flag; it finds it up, or down with a wake-up on its way.
LEMMA NextWakeInv ==
  ASSUME OneProc, TypeInv, TicketInv, ServeInv, SeqInv, FlagInv, IdleInv, WakeInv, [Next]_vars
  PROVE  WakeInv'
<1> SUFFICES ASSUME Armed', ~harvested', NEW s \in Stations, NEW i \in Slots, Late(s, i)',
                    ~Pending', ~Signalled'
             PROVE  NotYet(s, i)'
  BY DEF WakeInv
<1>1. CASE Tracee
  <2>1. /\ UNCHANGED <<epc, phase, lim, st, ri, seq1, harvested, lastSeen>>
        /\ seq'[s][i] = seq[s][i] \/ ~IsEven(seq'[s][i])
    BY <1>1, TraceeSlots
  <2>2. seq'[s][i] = seq[s][i]
    BY <2>1 DEF Late
  <2>3. (Late(s, i)' <=> Late(s, i)) /\ (NotYet(s, i)' <=> NotYet(s, i))
    BY <2>1, <2>2, SlotKept
  <2>4. Armed /\ ~harvested /\ epc # "accept"
    BY <2>1 DEF Armed
  <2>5. ~Signalled /\ ~Pending
    BY <1>1, <2>4, TraceeSignals DEF FlagInv
  <2> QED
    BY <2>3, <2>4, <2>5 DEF WakeInv
<1>2. CASE Arm
  BY <1>2 DEF Arm, NotYet
<1>3. CASE doScan /\ Armed
  <2>1. ~Pending /\ ~Signalled
    BY <1>3, EngineQuiet
  <2>2. ~harvested
    BY <1>3 DEF doScan, BeginScan, ReadSeq1, Validate, IdleInv, Armed, TypeInv, TypeOK
  <2>3. Late(s, i) => NotYet(s, i)
    BY <1>3, <2>1, <2>2 DEF WakeInv
  <2> QED
    BY <1>3, <2>3, ScanKeeps
<1>4. CASE GoToSleep
  <2>1. ~Pending /\ ~Signalled /\ seq' = seq
    BY <1>4, EngineQuiet
  <2>2. /\ lastSeen' = lastSeen /\ Armed /\ ~harvested /\ epc = "slot" /\ st >= lim
    BY <1>4 DEF GoToSleep, ScanDone, Armed
  <2>3. Late(s, i) => NotYet(s, i)
    BY <2>1, <2>2 DEF WakeInv
  <2>4. ~NotYet(s, i)
    BY <2>2, Constants DEF NotYet, Ahead, TypeInv, TypeOK, Stations
  <2> QED
    BY <2>1, <2>2, <2>3, <2>4 DEF Late
<1>5. CASE UNCHANGED vars
  BY <1>5 DEF WakeInv, Armed, Late, NotYet, Ahead, Pending, Signalled, vars, memVars, procVars,
              probeVars, engineVars, scanVars
<1> QED
  BY <1>1, <1>2, <1>3, <1>4, <1>5, ArmedSteps

-----------------------------------------------------------------------------
\* The stations of a process that has ended are not written any more.
LEMMA DeadFrozen ==
  ASSUME TypeInv, TicketInv, DeadInv, [Next]_vars,
         NEW q \in Probes, Born(q)', HasStation(q)', ~alive[Owner[q]]
  PROVE  /\ Born(q) /\ HasStation(q) /\ idx'[q] = idx[q] /\ idx[q] \in Stations
         /\ \A i \in Slots : seq'[idx[q]][i] = seq[idx[q]][i]
<1> USE DEF memVars, procVars, probeVars, scanVars, engineVars
<1>1. ASSUME NEW r \in Probes, Birth(r)
      PROVE  seq' = seq /\ idx'[q] = idx[q] /\ wpc'[q] = wpc[q]
  <2>1. r # q
    BY <1>1 DEF Birth, Running
  <2> QED
    BY <1>1, <2>1 DEF Birth, TypeInv, TypeOK
<1>2. ASSUME NEW r \in Probes, BeginWrite(r) \/ Publish(r)
      PROVE  /\ idx' = idx /\ (Born(q)' <=> Born(q)) /\ r # q /\ Born(r) /\ HasStation(r)
             /\ \E v \in Nat : seq' = [seq EXCEPT ![idx[r]][WriteSlot(r)] = v]
  <2>1. idx' = idx /\ Born(r) /\ HasStation(r) /\ r # q
    BY <1>2 DEF BeginWrite, Publish, Born, TypeInv, Writing, DeadInv
  <2>2. Born(q)' <=> Born(q)
    BY <1>2, <2>1 DEF BeginWrite, Publish, Born, TypeInv, TypeOK
  <2>3. idx[r] \in Stations /\ WriteSlot(r) \in Slots
    BY <2>1, SlotOfRing, StationOf DEF TypeInv
  <2>4. seq[idx[r]][WriteSlot(r)] + 1 \in Nat /\ old_seq[r] + 2 \in Nat
    <3>1. seq[idx[r]][WriteSlot(r)] \in Nat
      BY <2>3 DEF TypeInv, TypeOK
    <3>2. old_seq[r] \in Nat
      BY DEF TypeInv, TypeOK
    <3> QED
      BY <3>1, <3>2
  <2>5. \/ seq' = [seq EXCEPT ![idx[r]][WriteSlot(r)] = old_seq[r] + 2]
        \/ seq' = [seq EXCEPT ![idx[r]][WriteSlot(r)] = seq[idx[r]][WriteSlot(r)] + 1]
    BY <1>2, <2>3 DEF BeginWrite, Publish, TypeInv, TypeOK
  <2> QED
    BY <2>1, <2>2, <2>4, <2>5
<1>3. CASE \A r \in Probes : ~Birth(r) /\ ~BeginWrite(r) /\ ~Publish(r)
  <2>1. seq' = seq /\ idx' = idx /\ (Born(q)' <=> Born(q))
    <3>1. CASE SeqQuiet
      BY <3>1 DEF SeqQuiet
    <3>2. CASE ReadSeq1 \/ Validate
      BY <3>2 DEF ReadSeq1, Validate, Born
    <3> QED
      BY <1>3, <3>1, <3>2, SeqSteps
  <2> QED
    BY <2>1, StationOf DEF HasStation, TypeInv
<1>4. ASSUME NEW r \in Probes, BeginWrite(r) \/ Publish(r)
      PROVE  /\ Born(q) /\ HasStation(q) /\ idx'[q] = idx[q] /\ idx[q] \in Stations
             /\ \A i \in Slots : seq'[idx[q]][i] = seq[idx[q]][i]
  <2>1. /\ idx' = idx /\ Born(q) /\ r # q /\ Born(r) /\ HasStation(q)
    BY <1>2, <1>4 DEF HasStation
  <2>2. idx[q] \in Stations /\ idx[q] # idx[r]
    BY <2>1, StationOf, Apart DEF TypeInv
  <2>3. PICK v \in Nat : seq' = [seq EXCEPT ![idx[r]][WriteSlot(r)] = v]
    BY <1>2, <1>4
  <2>4. \A i \in Slots : seq'[idx[q]][i] = seq[idx[q]][i]
    BY <2>2, <2>3 DEF TypeInv, TypeOK
  <2> QED
    BY <2>1, <2>2, <2>4
<1>5. ASSUME NEW r \in Probes, Birth(r)
      PROVE  /\ Born(q) /\ HasStation(q) /\ idx'[q] = idx[q] /\ idx[q] \in Stations
             /\ \A i \in Slots : seq'[idx[q]][i] = seq[idx[q]][i]
  BY <1>1, <1>5, StationOf DEF Born, HasStation, TypeInv
<1> QED
  BY <1>3, <1>4, <1>5

\* The last scan of a connection: its stations are frozen, so its cursor misses nothing.
LEMMA NextFinalInv ==
  ASSUME TypeInv, TicketInv, ServeInv, DeadInv, SeqInv, FinalInv, [Next]_vars
  PROVE  FinalInv'
<1> USE DEF memVars, procVars, probeVars, scanVars, engineVars
<1> SUFFICES ASSUME phase' = "final", epc' \in {"scan", "slot", "validate"}, NEW q \in Probes,
                    Owner[q] = cur', Born(q)', HasStation(q)', NEW i \in Slots, Late(idx[q], i)',
                    idx'[q] = idx[q]
             PROVE  NotYet(idx[q], i)'
  <2>1. ASSUME phase' = "final", epc' \in {"scan", "slot", "validate"}, NEW q \in Probes, Born(q)',
               Owner[q] = cur', HasStation(q)'
        PROVE  idx'[q] = idx[q]
    <3>1. Disconnect \/ (phase = "final" /\ cur' = cur /\ epc # "accept")
      BY <2>1 DEF Next, Tracee, AttachConnected, AttachNoFd, Exit, Birth, Die, BeginWrite,
                  write_trace, IssueEven, Publish, Fence, CheckFlag, CasFlag, trigger_uds_wakeup,
                  hotHarvestLoop, doScan, BeginScan, ReadSeq1, Validate, Rescan, Arm, Disarm,
                  GoToSleep, ReadWakeup, ClearFlag, CloseConn, Accept, Timeout, ScanDone, vars
    <3>2. CASE Disconnect
      BY <3>2 DEF Disconnect
    <3>3. CASE phase = "final" /\ cur' = cur /\ epc # "accept"
      BY <2>1, <3>3, DeadFrozen DEF ServeInv
    <3> QED
      BY <3>1, <3>2, <3>3
  <2> QED
    BY <2>1 DEF FinalInv, Late, NotYet, Ahead
<1>1. CASE Disconnect
  BY <1>1 DEF Disconnect, NotYet
<1>2. ASSUME phase = "final", epc \in {"scan", "slot", "validate"}, cur' = cur
      PROVE  /\ idx[q] \in Stations /\ seq'[idx[q]][i] = seq[idx[q]][i]
             /\ Late(idx[q], i) => NotYet(idx[q], i)
  <2>1. ~alive[Owner[q]]
    BY <1>2 DEF ServeInv
  <2>2. Born(q) /\ HasStation(q) /\ idx[q] \in Stations /\ seq'[idx[q]][i] = seq[idx[q]][i]
    BY <2>1, DeadFrozen
  <2> QED
    BY <1>2, <2>2 DEF FinalInv
<1>3. CASE Tracee \/ UNCHANGED vars
  <2>1. UNCHANGED <<epc, phase, lim, st, ri, seq1, lastSeen, cur>>
    BY <1>3 DEF Tracee, AttachConnected, AttachNoFd, Exit, Birth, Die, BeginWrite, write_trace,
                IssueEven, Publish, Fence, CheckFlag, CasFlag, trigger_uds_wakeup, vars
  <2>2. seq'[idx[q]][i] = seq[idx[q]][i] /\ (Late(idx[q], i) => NotYet(idx[q], i))
    BY <1>2, <2>1
  <2>3. ASSUME NEW s, s = idx[q] PROVE NotYet(s, i)'
    <3>1. seq'[s][i] = seq[s][i] /\ (Late(s, i) => NotYet(s, i)) /\ Late(s, i)'
      BY <2>2, <2>3 DEF Late
    <3> QED
      BY <2>1, <3>1, SlotKept
  <2> QED
    BY <2>3 DEF NotYet, Ahead
<1>4. CASE doScan
  <2>1. phase = "final" /\ epc \in {"scan", "slot", "validate"} /\ cur' = cur
    BY <1>4 DEF doScan, BeginScan, ReadSeq1, Validate
  <2>2. ASSUME NEW s \in Stations, s = idx[q] PROVE NotYet(s, i)'
    <3>1. (Late(s, i) => NotYet(s, i)) /\ Late(s, i)'
      BY <1>2, <2>1, <2>2 DEF Late
    <3> QED
      BY <1>4, <3>1, ScanKeeps
  <2> QED
    BY <1>2, <2>1, <2>2 DEF NotYet, Ahead
<1>5. Tracee \/ UNCHANGED vars \/ doScan \/ Disconnect
  BY DEF Next, hotHarvestLoop, Accept, Rescan, Arm, Disarm, GoToSleep, ReadWakeup, ClearFlag,
         CloseConn, Timeout, ScanDone
<1> QED
  BY <1>1, <1>3, <1>4, <1>5

\* After CloseConn the stations of the process stay drained.
LEMMA NextClosedInv ==
  ASSUME TypeInv, TicketInv, ServeInv, QueueInv, DeadInv, SeqInv, FinalInv, ClosedInv, [Next]_vars
  PROVE  ClosedInv'
<1> USE DEF memVars, procVars, probeVars, scanVars, engineVars
<1> SUFFICES ASSUME NEW q \in Probes, link'[Owner[q]] = "closed", Born(q)', HasStation(q)',
                    NEW i \in Slots, IsEven(seq'[idx'[q]][i])
             PROVE  /\ lastSeen'[idx'[q]][i] = seq'[idx'[q]][i]
                    /\ flushed'[idx'[q]][i] = seq'[idx'[q]][i]
  BY DEF ClosedInv
<1>1. Owner[q] \in Procs /\ cur \in Procs
  BY Constants DEF TypeInv, TypeOK
<1>2. CASE CloseConn /\ Owner[q] = cur
  <2>1. /\ UNCHANGED <<seq, idx, wpc, lastSeen>> /\ flushed' = lastSeen
        /\ epc = "slot" /\ st >= lim /\ phase = "final"
    BY <1>2 DEF CloseConn, ScanDone
  <2>2. Born(q) /\ HasStation(q)
    BY <2>1 DEF Born, HasStation
  <2>3. idx[q] \in Stations
    BY <2>2, StationOf DEF TypeInv
  <2>4. ~NotYet(idx[q], i)
    <3>1. st \in Nat /\ lim \in Nat /\ idx[q] \in Nat
      BY <2>3, Constants DEF TypeInv, TypeOK, Stations
    <3>2. ~Ahead(idx[q], i)
      BY <2>1, <3>1 DEF Ahead
    <3> QED
      BY <2>1, <3>2 DEF NotYet
  <2>5. ~Late(idx[q], i)
    BY <1>2, <2>1, <2>2, <2>4 DEF FinalInv
  <2> QED
    BY <2>1, <2>5 DEF Late
<1>3. CASE link[Owner[q]] = "closed"
  <2>1. ~alive[Owner[q]]
    BY <1>1, <1>3 DEF DeadInv
  <2>2. /\ Born(q) /\ HasStation(q) /\ idx'[q] = idx[q] /\ idx[q] \in Stations
        /\ seq'[idx[q]][i] = seq[idx[q]][i]
    BY <2>1, DeadFrozen
  <2>3. lastSeen[idx[q]][i] = seq[idx[q]][i] /\ flushed[idx[q]][i] = seq[idx[q]][i]
    BY <1>3, <2>2 DEF ClosedInv
  <2>4. lastSeen'[idx[q]][i] = lastSeen[idx[q]][i]
    <3>1. CASE lastSeen' = lastSeen
      BY <3>1
    <3>2. CASE Validate /\ lastSeen' = [lastSeen EXCEPT ![st][ri] = seq1] /\ seq[st][ri] = seq1
      <4>1. lastSeen[st][ri] < seq1 /\ st \in Stations /\ ri \in Slots
        BY <3>2, Constants DEF Validate, SeqInv, ReaderInv, TypeInv, TypeOK, Stations
      <4>2. lastSeen[st][ri] \in Nat /\ seq1 \in Nat
        BY <4>1 DEF TypeInv, TypeOK
      <4>3. idx[q] # st \/ i # ri
        BY <2>3, <3>2, <4>1, <4>2
      <4> QED
        BY <2>2, <3>2, <4>3 DEF TypeInv, TypeOK
    <3>3. lastSeen' = lastSeen \/ Validate
      BY SeqSteps DEF SeqQuiet, ReadSeq1, Birth, BeginWrite, Publish
    <3> QED
      BY <3>1, <3>2, <3>3 DEF Validate
  <2>5. flushed' = flushed \/ flushed' = lastSeen
    BY DEF Next, Tracee, AttachConnected, AttachNoFd, Exit, Birth, Die, BeginWrite, write_trace,
           IssueEven, Publish, Fence, CheckFlag, CasFlag, trigger_uds_wakeup, hotHarvestLoop,
           doScan, BeginScan, ReadSeq1, Validate, Rescan, Arm, Disarm, GoToSleep, ReadWakeup,
           ClearFlag, CloseConn, Accept, Timeout, Disconnect, vars
  <2> QED
    BY <2>2, <2>3, <2>4, <2>5
<1>4. link[Owner[q]] = "closed" \/ (CloseConn /\ Owner[q] = cur)
  <2>1. CASE UNCHANGED <<link, backlog>>
    BY <2>1
  <2>2. ASSUME NEW p \in Procs, AttachConnected(p) \/ AttachNoFd(p) PROVE link[Owner[q]] = "closed"
    BY <1>1, <2>2 DEF AttachConnected, AttachNoFd, TypeInv, TypeOK
  <2>3. CASE Accept
    <3>1. link' = [link EXCEPT ![Head(backlog)] = "serving"]
      BY <2>3 DEF Accept
    <3> QED
      BY <1>1, <3>1 DEF TypeInv, TypeOK
  <2>4. CASE CloseConn
    BY <1>1, <2>4 DEF CloseConn, TypeInv, TypeOK
  <2> QED
    BY <2>1, <2>2, <2>3, <2>4, LinkSteps
<1> QED
  BY <1>2, <1>3, <1>4

-----------------------------------------------------------------------------
\* Whatever the number of processes, coroutines and stations, every variable of the
\* protocol keeps its type: allocated_count wraps and is clamped, doScan's cursor stays
\* inside the mapping, the socket holds what it can.
THEOREM EngineTypes == Spec => []TypeOK
<1>1. TypeInv => TypeOK
  BY DEF TypeInv
<1> QED
  BY InitTypeInv, NextTypeInv, <1>1, PTL DEF Spec

\* The inductive invariant of the stations: tickets, connections, slots.
StationInv == TypeInv /\ TicketInv /\ ServeInv /\ QueueInv /\ DeadInv /\ SeqInv

\* The engine starts in the invariant of the stations.
LEMMA InitStationInv == Init => StationInv
BY InitTypeInv, InitTicketInv, InitLinkInv, InitSeqInv DEF StationInv

\* Every step keeps it.
LEMMA NextStationInv ==
  ASSUME NoWrap, StationInv, [Next]_vars
  PROVE  StationInv'
BY NextTypeInv, NextTicketInv, NextServeInv, NextQueueInv, NextDeadInv, NextSeqInv DEF StationInv

\* While fewer coroutines are born than allocated_count can count, two of them that are
\* alive never write in the same station, whichever processes they run in.
THEOREM StationsExclusive ==
  ASSUME NoWrap
  PROVE  Spec => []StationExclusive
<1>1. StationInv /\ [Next]_vars => StationInv'
  BY NextStationInv
<1>2. StationInv => StationExclusive
  <2> SUFFICES ASSUME StationInv, NEW q \in Probes, NEW r \in Probes, q # r,
                      {wpc[q], wpc[r]} \cap {"unborn", "dead"} = {}
               PROVE  idx[q] # idx[r]
    BY DEF StationExclusive
  <2>1. Born(q) /\ Born(r)
    BY DEF Born
  <2> QED
    BY <2>1, Apart DEF StationInv
<1> QED
  BY InitStationInv, <1>1, <1>2, PTL DEF Spec

\* When the connection of a tracee has been closed, every event its coroutines completed is
\* in the log file: hotHarvestLoop's last scan misses none, because the end of file comes
\* after the last store of the process.
THEOREM DisconnectsDrain ==
  ASSUME NoWrap
  PROVE  Spec => []DisconnectDrains
<1> DEFINE I == StationInv /\ FinalInv /\ ClosedInv
<1>1. Init => I
  <2> SUFFICES ASSUME Init PROVE FinalInv /\ ClosedInv
    BY InitStationInv
  <2>1. FinalInv
    BY DEF Init, FinalInv
  <2>2. ClosedInv
    BY DEF Init, ClosedInv, Born
  <2> QED
    BY <2>1, <2>2
<1>2. I /\ [Next]_vars => I'
  <2> SUFFICES ASSUME StationInv, FinalInv, ClosedInv, [Next]_vars
               PROVE  StationInv' /\ FinalInv' /\ ClosedInv'
    OBVIOUS
  <2>1. StationInv'
    BY NextStationInv
  <2>2. FinalInv'
    BY NextFinalInv DEF StationInv
  <2>3. ClosedInv'
    BY NextClosedInv DEF StationInv
  <2> QED
    BY <2>1, <2>2, <2>3
<1>3. I => DisconnectDrains
  BY DEF ClosedInv, DisconnectDrains, Drained, Born
<1> QED
  BY <1>1, <1>2, <1>3, PTL DEF Spec

\* The invariant of the wake-up handshake that needs no station.
SignalInv == TypeInv /\ ServeInv /\ QueueInv /\ FlagInv

\* The engine starts with the flag down and not armed.
LEMMA InitSignalInv == Init => SignalInv
<1>1. Init => FlagInv
  BY DEF Init, FlagInv, Armed
<1> QED
  BY <1>1, InitTypeInv, InitLinkInv DEF SignalInv

\* Every step keeps the invariant of the flag.
LEMMA NextSignalInv ==
  ASSUME OneProc, SignalInv, [Next]_vars
  PROVE  SignalInv'
BY NextTypeInv, NextServeInv, NextQueueInv, NextFlagInv DEF SignalInv

\* With one tracee process, however many coroutines it has and however small its socket
\* buffer: while the engine is in Read, a flag that is down was taken down by a coroutine
\* whose byte is in the socket or about to be.
THEOREM SignalsWake ==
  ASSUME OneProc
  PROVE  Spec => []SignalWakesEngine
<1>1. SignalInv /\ [Next]_vars => SignalInv'
  BY NextSignalInv
<1>2. SignalInv => SignalWakesEngine
  BY DEF SignalInv, FlagInv, Armed, Signalled, SignalWakesEngine
<1> QED
  BY InitSignalInv, <1>1, <1>2, PTL DEF Spec

\* With one tracee process the engine never sleeps on an event: the fence before the flag is
\* read, and the second scan after it is raised, leave no order of steps that loses a
\* wake-up.
THEOREM NoWakeupLost ==
  ASSUME NoWrap, OneProc
  PROVE  Spec => []NoLostWakeup
<1> DEFINE I == StationInv /\ FlagInv /\ IdleInv /\ WakeInv
<1>1. Init => I
  <2> SUFFICES ASSUME Init PROVE FlagInv /\ IdleInv /\ WakeInv
    BY InitStationInv
  <2>1. FlagInv
    BY DEF Init, FlagInv, Armed
  <2>2. IdleInv
    BY DEF Init, IdleInv, Armed
  <2>3. WakeInv
    BY DEF Init, WakeInv, Armed
  <2> QED
    BY <2>1, <2>2, <2>3
<1>2. I /\ [Next]_vars => I'
  <2> SUFFICES ASSUME StationInv, FlagInv, IdleInv, WakeInv, [Next]_vars
               PROVE  StationInv' /\ FlagInv' /\ IdleInv' /\ WakeInv'
    OBVIOUS
  <2>1. StationInv'
    BY NextStationInv
  <2>2. FlagInv'
    BY NextFlagInv DEF StationInv
  <2>3. IdleInv'
    BY NextIdleInv DEF StationInv
  <2>4. WakeInv'
    BY NextWakeInv DEF StationInv
  <2> QED
    BY <2>1, <2>2, <2>3, <2>4
<1>3. I => NoLostWakeup
  <2> SUFFICES ASSUME StationInv, IdleInv, WakeInv, Asleep, NoWakeupPending,
                      NEW s \in Stations, NEW i \in Slots, IsEven(seq[s][i])
               PROVE  flushed[s][i] = seq[s][i]
    BY DEF NoLostWakeup, Drained
  <2>1. Armed /\ ~harvested /\ lastSeen = flushed
    BY DEF Asleep, Armed, IdleInv
  <2>2. ~Pending /\ ~Signalled
    <3>1. ~Pending
      BY DEF Pending, NoWakeupPending
    <3>2. wire[cur] = 0 /\ alive[cur] /\ \A q \in Probes : wpc[q] # "wake"
      BY DEF NoWakeupPending, Asleep
    <3> QED
      BY <3>1, <3>2 DEF Signalled
  <2>3. ~NotYet(s, i)
    BY DEF NotYet, Asleep
  <2>4. ~Late(s, i)
    BY <2>1, <2>2, <2>3 DEF WakeInv
  <2> QED
    BY <2>1, <2>4 DEF Late
<1> QED
  BY <1>1, <1>2, <1>3, PTL DEF Spec
=============================================================================
