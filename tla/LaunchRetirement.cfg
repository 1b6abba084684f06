SPECIFICATION LiveSpec
CONSTANTS
  Builtin = FALSE
  WithR = {TRUE}
  Jobs = {"Cell"}
  MaxJobs = 1
  Callbacks = {}
  MaxCallbacks = 0
  MaxInputs = 0
  MaxPending = 1
  Interrupters = {}
  Retirers = {r1}
  Faults = {"Exit", "Deaf"}
  MaxFaults = 1
CHECK_DEADLOCK FALSE
INVARIANTS OrderedBarrier ReplaceableIsQuiet
PROPERTIES KeepsContract
