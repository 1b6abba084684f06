SPECIFICATION Spec
CONSTANTS
  Cells = {c1, c2}
  Preparers = {c2, r1}
  Polls = {}
  Restarters = {r1}
  Interrupters = {}
  Prelaunchers = {}
  Closers = {}
  NoOp = NoOp
  Contending = {}
  MaxLaunches = 3
  MaxGeneration = 1
  HasStartup = FALSE
  UsesR = FALSE
  Retirements <- OnlyClean
INVARIANTS
  PreparationWaitsForNoCell
CHECK_DEADLOCK FALSE
