CONSTANTS
  once = once
  chore = chore
  tick = tick
  cron = cron
  NoTask = NoTask
  Task = {once, chore}
  Repeating = {chore}
  Blocking = {chore}
  Tireless = {}
  ByHand = {}
  Call = {tick}
  Timer = {tick}
  MaxFailures = 2
  MaxCalls = 0
  Fault = {}
  MaxFaults = 0
CHECK_DEADLOCK FALSE
SPECIFICATION FairTaskSpec
PROPERTIES
  TimerRuns
