CONSTANTS
  ann = ann
  bob = bob
  ann1 = ann1
  ann2 = ann2
  bob1 = bob1
  k1 = k1
  k2 = k2
  t1 = t1
  t2 = t2
  None = None
  Agent = {ann, bob}
  Service = {ann1, ann2, bob1}
  AgentOf <- MCAgentOf
  Task = {t1, t2}
  Owner <- MCOwner
  Tick = {k1, k2}
  MaxStarts = 1
  MaxFaults = 1
CHECK_DEADLOCK FALSE
SPECIFICATION FairDaemonSpec
PROPERTIES
  StoppedIsLeftAlone
  EveryMarkIsServed
