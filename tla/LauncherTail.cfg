\* What the file holds when target and launcher end well.
CONSTANTS
  Sdks = {"cpp"}
  MaxEvents = 2
  BufCap = 3
  MaxRuns = 1
  MaxBase = 0
SPECIFICATION Spec
\* The program ends.
CHECK_DEADLOCK FALSE
INVARIANT TraceComplete
