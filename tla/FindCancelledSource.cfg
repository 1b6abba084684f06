SPECIFICATION Spec
CONSTANTS
  NCalls = 2
  Detached = {2}
  MaxPendingCalls = 1
  MaxEvents = 3
  MaxImages = 1
  Budgets <- SmallBudgets
  Faults = {}
CHECK_DEADLOCK FALSE
CONSTRAINT Meeting
INVARIANTS AdmittedSourceRecorded
