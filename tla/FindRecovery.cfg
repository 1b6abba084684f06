SPECIFICATION Spec
CONSTANTS
  Cells = {c1, c2}
  Preparers = {}
  Polls = {}
  Restarters = {}
  Interrupters = {}
  Prelaunchers = {}
  Closers = {}
  NoOp = NoOp
  Contending = {}
  MaxLaunches = 3
  MaxGeneration = 0
  HasStartup = FALSE
  UsesR = FALSE
  Retirements <- CleanOrStuck
INVARIANTS
  RecoveryBarrier
CHECK_DEADLOCK FALSE
