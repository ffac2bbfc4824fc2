\* The launcher, its target, kills, a full disk and a second run.
CONSTANTS
  Sdks = {"cpp"}
  MaxEvents = 2
  BufCap = 3
  MaxRuns = 2
  MaxBase = 2
SPECIFICATION Spec
\* The program ends.
CHECK_DEADLOCK FALSE
INVARIANT TypeOK
INVARIANT BufferedLogExact
INVARIANT FatalLosesAtMostBuffer
INVARIANT ParkedCloseComplete
INVARIANT OneCutPerRun
 
PROPERTY InterruptExits
