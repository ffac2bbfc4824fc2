\* Who is inside the log writer when the tracer is closed.
CONSTANTS
  Sdks = {"cpp"}
  MaxEvents = 2
  BufCap = 3
  MaxRuns = 1
  MaxBase = 0
SPECIFICATION Spec
\* The program ends.
CHECK_DEADLOCK FALSE
INVARIANT SingleWriter
