CONSTANTS
  urgent = urgent
  chore = chore
  errand = errand
  tick = tick
  manual = manual
  Item = {urgent, chore, errand}
  Priority <- MCPriority
  BatchSize = 2
  MaxParallel = 1
  MaxAttempts <- MCMaxAttempts
  MaxSize = 2
  Tick = {tick, manual}
  Fault = {"db_error", "hook_error", "crash"}
  MaxFaults = 1
SPECIFICATION FairQueueSpec
CHECK_DEADLOCK FALSE
INVARIANTS
  QueueTypeOK
  PermitsAreAccounted
  OneBatchAtATime
  UrgentIsTried
  OneRepeatTask
PROPERTIES
  ImplementsPool
  EveryItemSettles
