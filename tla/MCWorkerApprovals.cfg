SPECIFICATION WorkerSpec
CONSTANTS
  w1 = w1
  d1 = d1
  none = none
  nounit = nounit
  nocall = nocall
  Owner = {w1}
  NoOwner = none
  Call = {}
  ToolCall = {}
  Unit <- MCUnit
  Gated = {"train"}
  NoUnit = nounit
  Client = {d1}
  LeaseTicks = 2
  MaxGeneration = 14
  MaxCheckpoint = 15
  MaxVersion = 2
  MaxModelCalls = 0
  Step <- MCStep
  Plan <- MCPlan
  Depends <- MCDepends
  Rebuilt = {"code", "train"}
  Costly = {1, 2}
  QualityPhases = 0
  NoCall = nocall
  MaxFaults = 1
  MaxControls = 1
INVARIANTS
  VerdictEarned
  GatedUnitPaid
  NoLostCheckpoint
CHECK_DEADLOCK FALSE
