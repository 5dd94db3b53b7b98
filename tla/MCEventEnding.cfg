SPECIFICATION EventsSpec
CONSTANTS
  Writer = {w1}
  NoWriter = NoWriter
  Limit = 2
  MaxFailures = 2
  MaxSequence = 4
INVARIANT EndingsAreValid
CHECK_DEADLOCK FALSE
