\* Two threads, three coroutines in two frames; -n on both sides of an overflow.
CONSTANTS
  Sdks = {"cpp", "rust"}
  Threads = {t1, t2}
  Coros = {c1, c2, c3}
  Frames = {1, 2}
  Counts = {1, 2, 3, 7, 8}
  IntStations = 4
  WordMod = 16
  MaxEvents = 3
SPECIFICATION Spec
SYMMETRY TraceeSymmetry
\* Every coroutine is gone, or the process is.
CHECK_DEADLOCK FALSE
INVARIANT TypeOK
INVARIANT OneWriter
INVARIANT IdNamesWriter
INVARIANT IdReusedOnlyByDead
INVARIANT StateShown
INVARIANT RustAlternates
INVARIANT AttachSafe
PROPERTY NoPosthumousEvents
