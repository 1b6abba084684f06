SPECIFICATION Spec
CONSTANTS
  Builtin = TRUE
  WithR = {TRUE, FALSE}
  Jobs = {"Cell", "PrepareBoth", "Replace"}
  MaxJobs = 1
  Callbacks = {"R", "Python"}
  MaxCallbacks = 1
  MaxInputs = 1
  MaxPending = 2
  Interrupters = {i1}
  Retirers = {}
  Faults = {"Host", "Spool", "Read"}
  MaxFaults = 1
CHECK_DEADLOCK FALSE
INVARIANTS NobodyForgotten ConformingCells NoPanic EnvironmentExclusive
PROPERTIES SidebandInOrder
CONSTRAINT UntilRetired
