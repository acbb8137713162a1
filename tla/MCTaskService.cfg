CONSTANTS
  once = once
  chore = chore
  tick = tick
  cron = cron
  NoTask = NoTask
  Task = {once, chore}
  Repeating = {chore}
  Blocking = {chore}
  Tireless = {}
  ByHand = {once}
  Call = {tick, cron}
  Timer = {tick}
  MaxFailures = 2
  MaxCalls = 1
  Fault = {"db_error", "crash", "stop"}
  MaxFaults = 1
SPECIFICATION FairTaskSpec
INVARIANTS
  TaskTypeOK
  BlockingRunsAlone
  NoOneShotIsLost
PROPERTIES
  EventuallyRuns
  NoRetryStorm
