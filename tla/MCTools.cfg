SPECIFICATION ToolsSpec
CONSTANTS
  write = write
  search = search
  first = first
  again = again
  train = train
  retrain = retrain
  once = once
  nobody = nobody
  MaxGeneration = 2
  Call = {write, search}
  Stored = {write}
  Rooted = {search}
  Delivery = {first, again}
  NoHandler = nobody
  Training = {train, retrain}
  Submission = {once}
INVARIANTS
  SettledCallsAreTrue
  RunsAreOnRecord OneTraining
PROPERTIES
  EffectsAreAuthorized StaleRunStops
CHECK_DEADLOCK FALSE
