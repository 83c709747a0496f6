SPECIFICATION SomeSpec
CONSTANTS
  Params <- FigureControls
  B = 4
  SysBlocks = 2
  MaxIter = 60
  PagedParams <- PagedWorkloads
  MAX_NEW = 4
  MAX_BATCH = 3
  Horizon = 60
  SlotParams <- SlotWorkloads
  PipelineParams <- PipelineWorkloads
  RolloutParams <- RolloutWorkloads
  ExpertParams <- ExpertWorkloads
  TOKENS = 3
  EXPERTS = 3
  BacklogParams <- BacklogControls
  Arrivals <- BacklogArrivals
  Capacities <- BacklogCapacities
  INTERVALS = 5
  LeaseParams <- LeaseControls
  CursorParams <- CursorControls
  SessionParams <- SessionControls
  TurnParams <- TurnControls
  SearchParams <- SearchControls
INVARIANTS
  MemoryHolds
  CapacityUsed
  DevicesScheduled
  ProtocolsTold
  BudgetsKept
PROPERTIES
  Schedules
  AllDrain
