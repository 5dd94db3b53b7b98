SPECIFICATION ToolsSpec
CONSTANTS
  write = write
  search = search
  first = first
  again = again
  train = train
  retrain = retrain
  once = once
  nobody = nobody
  MaxGeneration = 2
  Call = {write, search}
  Stored = {write}
  Rooted = {search}
  Delivery = {first, again}
  NoHandler = nobody
  Training = {train, retrain}
  Submission = {once}
PROPERTY PauseLetsUnitFinish
CHECK_DEADLOCK FALSE
