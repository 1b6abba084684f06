SPECIFICATION Spec
CONSTANTS
  Raw = {"Stdout"}
  MaxWritten = 1
  Sizes = {1, 3}
  OutputFrames = 2
  OutputBytes = 2
  SupervisorFrames = 4
  Commands = {"Worker", "Interrupt"}
  MaxTurns = 3
  Faults = {"Spawn", "Setup", "Read", "Reap", "Observe", "Command"}
CHECK_DEADLOCK FALSE
INVARIANTS QueueBounded FlushedIsComplete
PROPERTIES KeepsContract
