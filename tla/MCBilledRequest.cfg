CONSTANTS
  w1 = w1
  w2 = w2
  c1 = c1
  r1 = r1
  r2 = r2
  r3 = r3
  Wallet = {w1, w2}
  Chain = {c1}
  Reservation = {r1, r2}
  Amount = {2, 3}
  Reading = {}
  Operator <- MCOperator
  MarginBps = 5000
  InitialCredits = 5
  Fault = {"db_error", "bad_usage", "body_error", "crash"}
  MaxFaults = 1
CHECK_DEADLOCK FALSE
SPECIFICATION FairRequestSpec
INVARIANTS
  RequestTypeOK
  HoldIsOpen
  OnlyAnswersAreCharged
  AccruedIsMetered
  ReservedIsHeld
PROPERTIES
  SumIsConserved
  ImplementsPromise
  EveryHoldIsSettled
