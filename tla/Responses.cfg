SPECIFICATION Spec
CONSTANTS
  MaxCalls = 3
  MaxOutput = 2
  Sessions <- Controlled3
  Spoken <- SpokenOf3
INVARIANTS OneResponse
PROPERTIES KeepsContract ReplayedFirst
  AllAnswered
CHECK_DEADLOCK FALSE
