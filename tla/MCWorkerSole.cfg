CONSTANTS
  w1 = w1
  c1 = c1
  c2 = c2
  tick = tick
  handler = handler
  r1 = r1
  r2 = r2
  r3 = r3
  Wallet = {w1}
  Amount <- MCOneUnit
  Reading = {}
  Chain = {c1, c2}
  LiveChain = {c1}
  Reservation = {r1, r2, r3}
  Timer = {tick}
  Handler = {}
  BatchMin = 2
  MaxPerCycle = 2
  InitialCredits = 3
  WithdrawAmount = {1}
  Fault <- MCCleanFaults
  MaxFaults = 3
SPECIFICATION FairWorkerSpec
INVARIANTS
  NeverOvercharged
PROPERTIES
  EventuallyCollected
