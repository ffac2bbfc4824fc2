\* One tracee process; the 50 ms deadline may never fire.
CONSTANTS
  Procs = {p1}
  Probes = {q1, q2}
  Owner <- OneProcess
  Unreachable = {}
  MaxStations = 2
  RingSize = 1
  CountMod = 8
  SockCap = 1
  WakeBuf = 1
  MaxEvents = 2
SPECIFICATION UntimedSpec
\* The engine waits in Accept for ever once the last tracee is gone.
CHECK_DEADLOCK FALSE
PROPERTY EventuallyDurable
