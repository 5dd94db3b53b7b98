SPECIFICATION FairWorkerSpec
CONSTANTS
  w1 = w1
  none = none
  nounit = nounit
  nocall = nocall
  llm1 = llm1
  llm2 = llm2
  Owner = {w1}
  NoOwner = none
  Call = {llm1, llm2}
  ToolCall = {}
  Unit <- MCUnit
  Gated = {}
  NoUnit = nounit
  Client = {}
  LeaseTicks = 1
  MaxGeneration = 12
  MaxCheckpoint = 13
  MaxVersion = 1
  MaxModelCalls = 1
  Step <- MCStep
  Plan <- MCPlan
  Depends <- MCDepends
  Rebuilt = {}
  Costly = {}
  QualityPhases = 2
  NoCall = nocall
  MaxFaults = 2
  MaxControls = 1
INVARIANTS
  SentCallsAreCounted
PROPERTIES
  RequeueNeedsEvidence
  WorkflowRests
CHECK_DEADLOCK FALSE
