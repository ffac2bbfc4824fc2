\* Two tracee processes at once share one flag.
CONSTANTS
  Procs = {p1, p2}
  Probes = {q1, q2}
  Owner <- EachProcess
  Unreachable = {}
  MaxStations = 2
  RingSize = 1
  CountMod = 8
  SockCap = 1
  WakeBuf = 1
  MaxEvents = 1
SPECIFICATION Spec
\* The engine waits in Accept for ever once the last tracee is gone.
CHECK_DEADLOCK FALSE
INVARIANT SignalWakesEngine
