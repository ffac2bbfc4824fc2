\* What a target that outlives the launcher is in for.
CONSTANTS
  Sdks = {"cpp", "rust"}
  MaxEvents = 1
  BufCap = 3
  MaxRuns = 1
  MaxBase = 0
SPECIFICATION Spec
\* The program ends.
CHECK_DEADLOCK FALSE
INVARIANT FailedWakeupIgnored
