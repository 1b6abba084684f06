SPECIFICATION Spec
CONSTANTS
  Cells = {c1, c2}
  Preparers = {c2}
  Polls = {p1}
  Restarters = {}
  Interrupters = {i1, i2}
  Prelaunchers = {l1}
  Closers = {}
  NoOp = NoOp
  MaxLaunches = 2
  MaxGeneration = 0
  HasStartup = FALSE
  UsesR = TRUE
  Retirements <- OnlyClean
  Contending = {{c2, l1, i1}, {c2, p1, i1}, {l1, i1, i2}, {c1, p1, l1}}
CONSTRAINT Contention
INVARIANTS
  HandleMatchesWorker
  InitializesOnce
  UnusedIsUntouched
  FailureReportedFirst
PROPERTIES
  WithheldNeverRuns
