SPECIFICATION Spec
CONSTANTS
  MaxCalls = 3
  MaxOutput = 1
  Sessions <- Controlled3
  Spoken <- SpokenOnce3
INVARIANT NoPanic
CHECK_DEADLOCK FALSE
