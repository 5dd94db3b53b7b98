SPECIFICATION WorkerSpec
CONSTANTS
  w1 = w1
  w2 = w2
  none = none
  nounit = nounit
  nocall = nocall
  tool1 = tool1
  Owner = {w1, w2}
  NoOwner = none
  Call = {tool1}
  ToolCall = {tool1}
  Unit <- MCUnit
  Gated = {}
  NoUnit = nounit
  Client = {}
  LeaseTicks = 1
  MaxGeneration = 5
  MaxCheckpoint = 6
  MaxVersion = 1
  MaxModelCalls = 0
  Step <- MCStep
  Plan <- MCPlan
  Depends <- MCDepends
  Rebuilt = {}
  Costly = {}
  QualityPhases = 0
  NoCall = nocall
  MaxFaults = 1
  MaxControls = 1
INVARIANTS
  StepRowsAreSound
PROPERTIES
  Spec
  CancelIsHonoured
  DoubtResolvedByReceipt
  AuthorityIsImplemented
SYMMETRY Symmetry
CHECK_DEADLOCK FALSE
