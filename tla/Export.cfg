\* Two exports of one kind, one after the other or at once.
CONSTANTS
  Kinds = {"csv", "sqlite", "mysql", "postgres"}
  Traces <- TraceFiles
  MaxRuns = 2
  PipeCap = 2
SPECIFICATION Spec
\* The last export has returned.
CHECK_DEADLOCK FALSE
INVARIANT TypeOK
INVARIANT OkMeansComplete
INVARIANT AllOrNothing
PROPERTY ImplementsAtomicLoad
PROPERTY ExportReturns
