\* One tracee process, three coroutines for two stations, rings that wrap.
CONSTANTS
  Procs = {p1}
  Probes = {q1, q2, q3}
  Owner <- OneProcess
  Unreachable = {}
  MaxStations = 2
  RingSize = 2
  CountMod = 8
  SockCap = 1
  WakeBuf = 1
  MaxEvents = 3
SPECIFICATION Spec
SYMMETRY ProbeSymmetry
\* The engine waits in Accept for ever once the last tracee is gone.
CHECK_DEADLOCK FALSE
INVARIANT TypeOK
INVARIANT NoLostWakeup
INVARIANT SignalWakesEngine
INVARIANT DisconnectDrains
INVARIANT StationExclusive
