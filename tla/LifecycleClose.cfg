SPECIFICATION LiveSpec
CONSTANTS
  Cells = {c1}
  Preparers = {r1}
  Polls = {}
  Restarters = {r1}
  Interrupters = {}
  Prelaunchers = {}
  Closers = {x1}
  NoOp = NoOp
  Contending = {}
  MaxLaunches = 4
  MaxGeneration = 1
  HasStartup = TRUE
  UsesR = FALSE
  Retirements <- EveryRetirement
INVARIANTS
  GenerationFence
  TypeOK
  ReplacementBarrier
  NoOrphanLaunch
  ClosedLeavesNothing
  RestartIsOwned
PROPERTIES ClosedDrains RestartNotBlocked
  ClosedStaysClosed
