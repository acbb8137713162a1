CONSTANTS
  w1 = w1
  c1 = c1
  c2 = c2
  tick = tick
  handler = handler
  r1 = r1
  r2 = r2
  r3 = r3
  Wallet = {w1}
  Amount <- MCOneUnit
  Reading = {}
  Chain = {c1}
  LiveChain = {c1}
  Reservation = {r1, r2}
  Timer = {tick}
  Handler = {}
  BatchMin = 1
  MaxPerCycle = 1
  InitialCredits = 2
  WithdrawAmount = {}
  Fault = {}
  MaxFaults = 0
SPECIFICATION WorkerSpec
INVARIANTS
  LedgerMatchesChain
